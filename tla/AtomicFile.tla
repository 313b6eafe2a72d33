----------------------------- MODULE AtomicFile -----------------------------
(***************************************************************************)
(* What --metrics-file promises its readers: the path holds one document   *)
(* at a time, replaced whole by a newer one or left as it is, and whoever  *)
(* opens it reads the document it held at that moment.                     *)
(***************************************************************************)
EXTENDS Integers, Sequences

CONSTANTS
  Readers,
  Nobody,       \* the view of a reader that has no file open
  MaxDocs,      \* bound: documents ever written
  MaxSize       \* bound: the units of a document

\* A unit of document d carries its place among the n units of that document.
Document(d, n) == [i \in 1 .. n |-> <<d, n, i>>]

VARIABLES
  document,     \* what the path holds; <<>> before the first document
  view          \* what each reader's open file holds

Init == document = <<>> /\ view = [r \in Readers |-> Nobody]

Number(doc) == IF doc = <<>> THEN 0 ELSE Head(doc)[1]

Replace ==
  /\ \E d \in Number(document) + 1 .. MaxDocs, n \in 1 .. MaxSize :
        document' = Document(d, n)
  /\ UNCHANGED view

Open(r) ==
  /\ view[r] = Nobody /\ document # <<>>
  /\ view' = [view EXCEPT ![r] = document]
  /\ UNCHANGED document

Close(r) ==
  /\ view[r] # Nobody
  /\ view' = [view EXCEPT ![r] = Nobody]
  /\ UNCHANGED document

Next == Replace \/ \E r \in Readers : Open(r) \/ Close(r)

Spec == Init /\ [][Next]_<<document, view>>
=============================================================================
