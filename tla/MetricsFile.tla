----------------------------- MODULE MetricsFile -----------------------------
(***************************************************************************)
(* ProxyRuntime::write_metrics_file, one step per system call, beside      *)
(* readers of the file.  A call may fail and return early, a write may be  *)
(* short, and the process may be killed at any point and started again;    *)
(* what is on disk then stays.  ProxyRuntime takes the whole of it as one  *)
(* step, which is what AtomicFile allows it to do.                         *)
(*                                                                         *)
(* A name leads to an inode; a renamed or replaced inode lives on for the  *)
(* readers that have it open.  The loss of the machine, page cache and     *)
(* all, is not modelled: the code does not call fsync.                     *)
(***************************************************************************)
EXTENDS Integers, Sequences

CONSTANTS
  Readers,    \* external: processes that read the metrics file
  Nobody,     \* external: a reader that has nothing open
  Inodes,     \* external: bound, the files that exist at once
  MaxDocs,    \* bound: documents the proxy starts to write
  MaxSize     \* bound: the units of a document

ASSUME FileAssumption ==
  MaxDocs \in Nat /\ MaxSize \in Nat \ {0} /\ Inodes \subseteq Nat \ {0}

VARIABLES
  pc,         \* "idle", "open", "write" or "rename"
  doc, size,  \* the document being written: its number and json.size()
  offset,     \* bytes written so far
  fd,         \* the inode the proxy has open
  target,     \* config_.metrics_file: its inode, 0 if there is none
  temporary,  \* temporary_path: its inode, 0 if there is none
  content,    \* external: what each inode holds
  reading,    \* external: per reader, the inode it has open, 0 if none
  got         \* external: per reader, what it has read of it

writer == <<pc, doc, size, offset, fd>>
disk == <<target, temporary, content>>
readers == <<reading, got>>
vars == <<writer, disk, readers>>

Document(d, n) == [i \in 1 .. n |-> <<d, n, i>>]

\* Having nothing open is told apart from having any document open.
ASSUME NobodyAssumption ==
  \A d \in 1 .. MaxDocs, n \in 1 .. MaxSize : Nobody # Document(d, n)

Init ==
  /\ pc = "idle" /\ doc = 0 /\ size = 1 /\ offset = 0 /\ fd = 0
  /\ target = 0 /\ temporary = 0
  /\ content = [i \in Inodes |-> <<>>]
  /\ reading = [r \in Readers |-> 0]
  /\ got = [r \in Readers |-> <<>>]
-----------------------------------------------------------------------------
(* The proxy.                                                              *)

\* SIGUSR1 or the end of run: build_metrics_json gives a document.
Build(n) ==
  /\ pc = "idle" /\ doc < MaxDocs
  /\ pc' = "open" /\ doc' = doc + 1 /\ size' = n
  /\ UNCHANGED <<offset, fd, disk, readers>>

FreeInodes == Inodes \ ({target, temporary} \cup {reading[r] : r \in Readers})

\* Mutant: O_TRUNC is forgotten.
TruncateNot(old) ==
  /\ fd' \in (IF old = 0 THEN FreeInodes ELSE {old})
  /\ content' = IF old = 0 THEN [content EXCEPT ![fd'] = <<>>] ELSE content

\* open() with O_CREAT | O_TRUNC of a name that leads to inode `old`, or to none.
Truncate(old) ==
  /\ fd' \in (IF old = 0 THEN FreeInodes ELSE {old})
  /\ content' = [content EXCEPT ![fd'] = <<>>]

\* Mutant: the file itself is opened for writing.
OpenTarget ==
  /\ pc = "open"
  /\ Truncate(target)
  /\ target' = fd'
  /\ pc' = "write" /\ offset' = 0
  /\ UNCHANGED <<doc, size, temporary, readers>>

OpenTemporary ==
  /\ pc = "open"
  /\ Truncate(temporary)
  /\ temporary' = fd'
  /\ pc' = "write" /\ offset' = 0
  /\ UNCHANGED <<doc, size, target, readers>>

\* write() at the file's offset, of the bytes from `first` to `last`.
Written(old, first, last) ==
  [i \in 1 .. (IF Len(old) > last THEN Len(old) ELSE last) |->
     IF i \in first .. last THEN Document(doc, size)[i] ELSE old[i]]

\* One turn of the loop: any part of the rest is taken.
Write(count) ==
  /\ pc = "write" /\ offset < size /\ offset + count <= size
  /\ content' = [content EXCEPT ![fd] = Written(@, offset + 1, offset + count)]
  /\ offset' = offset + count
  /\ UNCHANGED <<pc, doc, size, fd, target, temporary, readers>>

\* fd.reset() after the last byte.
CloseTemporary ==
  /\ pc = "write" /\ offset = size
  /\ pc' = "rename" /\ fd' = 0
  /\ UNCHANGED <<doc, size, offset, disk, readers>>

Rename ==
  /\ pc = "rename"
  /\ target' = temporary /\ temporary' = 0
  /\ pc' = "idle"
  /\ UNCHANGED <<doc, size, offset, fd, content, readers>>

\* open, write or rename fails and is logged, or the process is killed: either
\* way its descriptor is closed, the files stay, and it may write again later.
GiveUp ==
  /\ pc # "idle"
  /\ pc' = "idle" /\ fd' = 0
  /\ UNCHANGED <<doc, size, offset, disk, readers>>
-----------------------------------------------------------------------------
(* The readers.                                                            *)

ReaderOpen(r) ==
  /\ reading[r] = 0 /\ target # 0
  /\ reading' = [reading EXCEPT ![r] = target]
  /\ got' = [got EXCEPT ![r] = <<>>]
  /\ UNCHANGED <<writer, disk>>

AtEnd(r) == Len(got[r]) >= Len(content[reading[r]])

ReaderRead(r) ==
  /\ reading[r] # 0 /\ ~AtEnd(r)
  /\ got' = [got EXCEPT ![r] = Append(@, content[reading[r]][Len(@) + 1])]
  /\ UNCHANGED <<writer, disk, reading>>

ReaderClose(r) ==
  /\ reading[r] # 0
  /\ reading' = [reading EXCEPT ![r] = 0]
  /\ got' = [got EXCEPT ![r] = <<>>]
  /\ UNCHANGED <<writer, disk>>
-----------------------------------------------------------------------------
Proxy ==
  \/ \E n \in 1 .. MaxSize : Build(n) \/ Write(n)
  \/ OpenTemporary \/ CloseTemporary \/ Rename \/ GiveUp

Next == Proxy \/ \E r \in Readers : ReaderOpen(r) \/ ReaderRead(r) \/ ReaderClose(r)

Spec == Init /\ [][Next]_vars
-----------------------------------------------------------------------------
\* docs/milestone-4-report.md:9, "readers never observe a partial document": a
\* reader that has come to the end of the file holds one whole document, though
\* writes, failures and renames went on while it read.
WholeDocuments ==
  \A r \in Readers : reading[r] # 0 /\ AtEnd(r) =>
    \E d \in 1 .. doc, n \in 1 .. MaxSize : got[r] = Document(d, n)

Published == IF target = 0 THEN <<>> ELSE content[target]

Abstract == INSTANCE AtomicFile WITH
  document <- Published,
  view <- [r \in Readers |-> IF reading[r] = 0 THEN Nobody ELSE content[reading[r]]]

\* The steps of write_metrics_file, with whatever they leave behind when one of
\* them fails, amount to replacing the document whole or not at all, and never
\* by an older one.
ImplementsAtomicFile == Abstract!Spec
=============================================================================
