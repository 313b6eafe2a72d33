-------------------------- MODULE MetricsFileProofs --------------------------
(***************************************************************************)
(* The metrics file for any number of readers, documents and inodes.  The  *)
(* argument is about inodes: the one the proxy writes to is reached by no  *)
(* other name and by no reader, so what a reader has open is complete and  *)
(* does not change; rename is the only step that gives the name target to  *)
(* another inode, and by then every unit of it has been written.           *)
(***************************************************************************)
EXTENDS MetricsFile, TLAPS

Units == Nat \X Nat \X Nat

Types ==
  /\ pc \in {"idle", "open", "write", "rename"}
  /\ doc \in 0 .. MaxDocs /\ (pc # "idle" => doc > 0) /\ size \in 1 .. MaxSize /\ offset \in Nat
  /\ target \in Inodes \cup {0} /\ temporary \in Inodes \cup {0}
  /\ content \in [Inodes -> Seq(Units)]
  /\ reading \in [Readers -> Inodes \cup {0}]
  /\ got \in [Readers -> Seq(Units)]

\* The temporary file is private to the proxy.
Apart ==
  temporary # 0 => temporary # target /\ \A r \in Readers : reading[r] # temporary

\* The path holds a whole document, older than the one being written.
TargetWhole ==
  target # 0 => \E d \in 1 .. doc, n \in 1 .. MaxSize :
    content[target] = Document(d, n) /\ (pc # "idle" => d < doc)

\* So does every file a reader has open.
ViewsWhole ==
  \A r \in Readers : reading[r] # 0 =>
    \E d \in 1 .. doc, n \in 1 .. MaxSize : content[reading[r]] = Document(d, n)

\* What a reader has read so far is how its file begins.
PrefixRead ==
  \A r \in Readers : reading[r] # 0 =>
    /\ Len(got[r]) <= Len(content[reading[r]])
    /\ \A i \in 1 .. Len(got[r]) : got[r][i] = content[reading[r]][i]

\* The temporary file holds the first offset units, and all of them when renamed.
Writing ==
  /\ pc = "write" => /\ fd = temporary /\ temporary # 0 /\ offset <= size
                     /\ content[temporary] = [i \in 1 .. offset |-> <<doc, size, i>>]
  /\ pc = "rename" => temporary # 0 /\ content[temporary] = Document(doc, size)

Inv == Types /\ Apart /\ TargetWhole /\ ViewsWhole /\ PrefixRead /\ Writing
-----------------------------------------------------------------------------
LEMMA DocumentIsSequence ==
  ASSUME NEW d \in Nat, NEW n \in Nat
  PROVE  Document(d, n) \in Seq(Units) /\ Len(Document(d, n)) = n
BY DEF Document, Units

\* Two steps leave what a reader sees alone: the temporary file is not its file.
LEMMA PrivateWrite ==
  ASSUME Inv, NEW file \in Inodes, NEW bytes \in Seq(Units),
         content' = [content EXCEPT ![file] = bytes],
         file # target, \A r \in Readers : reading[r] # file
  PROVE  /\ content' \in [Inodes -> Seq(Units)]
         /\ content'[file] = bytes
         /\ target # 0 => content'[target] = content[target]
         /\ \A r \in Readers : reading[r] # 0 => content'[reading[r]] = content[reading[r]]
BY DEF Inv, Types

LEMMA WrittenExtends ==
  ASSUME NEW old \in Seq(Units), NEW count \in Nat \ {0}, Types,
         old = [i \in 1 .. offset |-> <<doc, size, i>>], offset + count <= size
  PROVE  /\ Written(old, offset + 1, offset + count)
              = [i \in 1 .. offset + count |-> <<doc, size, i>>]
         /\ Written(old, offset + 1, offset + count) \in Seq(Units)
<1>1. offset \in Nat /\ doc \in Nat /\ size \in Nat
  BY FileAssumption DEF Types
<1>2. Len(old) = offset
  BY <1>1
<1>3. Written(old, offset + 1, offset + count)
        = [i \in 1 .. offset + count |->
             IF i \in offset + 1 .. offset + count THEN Document(doc, size)[i] ELSE old[i]]
  BY <1>1, <1>2 DEF Written
<1>4. ASSUME NEW i \in 1 .. offset + count
      PROVE  (IF i \in offset + 1 .. offset + count THEN Document(doc, size)[i] ELSE old[i])
                = <<doc, size, i>>
  <2>1. CASE i \in offset + 1 .. offset + count
    BY <1>1, <2>1 DEF Document
  <2>2. CASE i \notin offset + 1 .. offset + count
    BY <1>1, <2>2
  <2> QED BY <2>1, <2>2
<1>5. Written(old, offset + 1, offset + count)
        = [i \in 1 .. offset + count |-> <<doc, size, i>>]
  BY <1>3, <1>4, Zenon
<1>6. [i \in 1 .. offset + count |-> <<doc, size, i>>] \in Seq(Units)
  BY <1>1 DEF Units
<1> QED BY <1>5, <1>6
-----------------------------------------------------------------------------
LEMMA InitInv == Init => Inv
<1> SUFFICES ASSUME Init PROVE Inv
  OBVIOUS
<1>1. Types
  BY FileAssumption DEF Init, Types
<1>2. Apart /\ TargetWhole /\ Writing
  BY DEF Init, Apart, TargetWhole, Writing
<1>3. ViewsWhole /\ PrefixRead
  BY DEF Init, ViewsWhole, PrefixRead
<1> QED BY <1>1, <1>2, <1>3 DEF Inv

LEMMA BuildInv == ASSUME Inv, NEW n \in 1 .. MaxSize, Build(n) PROVE Inv'
<1> USE DEF Build, disk, readers
<1>0. doc \in Nat /\ doc' = doc + 1 /\ doc' \in 0 .. MaxDocs
  BY FileAssumption DEF Inv, Types
<1>1. Types'
  BY <1>0 DEF Inv, Types
<1>2. Apart' /\ Writing'
  BY DEF Inv, Apart, Writing
<1>3. TargetWhole'
  <2> SUFFICES ASSUME target # 0 PROVE TargetWhole'
    BY DEF TargetWhole
  <2>1. PICK d \in 1 .. doc, m \in 1 .. MaxSize : content[target] = Document(d, m)
    BY DEF Inv, TargetWhole
  <2>2. d \in 1 .. doc' /\ d < doc'
    BY <1>0
  <2> QED BY <2>1, <2>2 DEF TargetWhole
<1>4. ViewsWhole'
  <2> SUFFICES ASSUME NEW r \in Readers, reading[r] # 0
               PROVE  \E d \in 1 .. doc', k \in 1 .. MaxSize :
                        content[reading[r]] = Document(d, k)
    BY DEF ViewsWhole
  <2>1. PICK d \in 1 .. doc, m \in 1 .. MaxSize : content[reading[r]] = Document(d, m)
    BY DEF Inv, ViewsWhole
  <2>2. d \in 1 .. doc'
    BY <1>0
  <2> QED BY <2>1, <2>2
<1>5. PrefixRead'
  BY DEF Inv, PrefixRead
<1> QED BY <1>1, <1>2, <1>3, <1>4, <1>5 DEF Inv

LEMMA OpenTemporaryInv == ASSUME Inv, OpenTemporary PROVE Inv'
<1> USE DEF OpenTemporary, readers
<1>1. fd' \in Inodes /\ fd' # 0 /\ fd' # target /\ \A r \in Readers : reading[r] # fd'
  <2>1. CASE temporary = 0
    BY <2>1, FileAssumption DEF Truncate, FreeInodes
  <2>2. CASE temporary # 0
    BY <2>2, FileAssumption DEF Truncate, Inv, Types, Apart
  <2> QED BY <2>1, <2>2
<1>2. PICK file \in Inodes : file = fd'
  BY <1>1
<1>3. content' = [content EXCEPT ![file] = <<>>]
  BY <1>2 DEF Truncate
<1>4. /\ content' \in [Inodes -> Seq(Units)]
      /\ content'[file] = <<>>
      /\ target # 0 => content'[target] = content[target]
      /\ \A r \in Readers : reading[r] # 0 => content'[reading[r]] = content[reading[r]]
  <2>1. <<>> \in Seq(Units)
    OBVIOUS
  <2> QED BY <1>1, <1>2, <1>3, <2>1, PrivateWrite
<1>5. Types'
  BY <1>1, <1>4 DEF Inv, Types
<1>6. Apart'
  BY <1>1 DEF Apart
<1>7. TargetWhole' /\ ViewsWhole'
  BY <1>4 DEF Inv, TargetWhole, ViewsWhole
<1>8. PrefixRead'
  BY <1>4 DEF Inv, PrefixRead
<1>9. Writing'
  <2>1. [i \in 1 .. 0 |-> <<doc, size, i>>] = <<>>
    OBVIOUS
  <2> QED BY <1>1, <1>2, <1>4, <2>1, FileAssumption DEF Writing, Inv, Types
<1> QED BY <1>5, <1>6, <1>7, <1>8, <1>9 DEF Inv

LEMMA WriteInv == ASSUME Inv, NEW count \in 1 .. MaxSize, Write(count) PROVE Inv'
<1> USE DEF Write, readers
<1>1. /\ fd \in Inodes /\ fd = temporary /\ fd # 0 /\ fd # target
      /\ \A r \in Readers : reading[r] # fd
  BY DEF Inv, Types, Apart, Writing
<1>2. content[fd] \in Seq(Units) /\ content[fd] = [i \in 1 .. offset |-> <<doc, size, i>>]
  BY <1>1 DEF Inv, Types, Writing
<1>3. count \in Nat \ {0} /\ offset + count <= size /\ Types
  BY DEF Inv
<1>4. PICK bytes : bytes = Written(content[fd], offset + 1, offset + count)
  OBVIOUS
<1>5. bytes \in Seq(Units) /\ bytes = [i \in 1 .. offset + count |-> <<doc, size, i>>]
  BY <1>2, <1>3, <1>4, WrittenExtends
<1>6. content' = [content EXCEPT ![fd] = bytes]
  BY <1>4
<1>7. /\ content' \in [Inodes -> Seq(Units)]
      /\ content'[fd] = bytes
      /\ target # 0 => content'[target] = content[target]
      /\ \A r \in Readers : reading[r] # 0 => content'[reading[r]] = content[reading[r]]
  BY <1>1, <1>5, <1>6, PrivateWrite
<1>8. Types' /\ Apart'
  BY <1>7 DEF Inv, Types, Apart
<1>9. TargetWhole' /\ ViewsWhole'
  BY <1>7 DEF Inv, TargetWhole, ViewsWhole
<1>10. PrefixRead'
  BY <1>7 DEF Inv, PrefixRead
<1>11. Writing'
  BY <1>1, <1>3, <1>5, <1>7 DEF Writing
<1> QED BY <1>8, <1>9, <1>10, <1>11 DEF Inv

LEMMA CloseTemporaryInv == ASSUME Inv, CloseTemporary PROVE Inv'
<1> USE DEF CloseTemporary, disk, readers
<1>1. Types' /\ Apart'
  BY DEF Inv, Types, Apart
<1>2. TargetWhole' /\ ViewsWhole'
  BY DEF Inv, TargetWhole, ViewsWhole
<1>3. PrefixRead'
  BY DEF Inv, PrefixRead
<1>4. Writing'
  BY DEF Inv, Writing, Document
<1> QED BY <1>1, <1>2, <1>3, <1>4 DEF Inv

\* The only step that publishes: the temporary file holds all of document doc.
LEMMA RenamePublishes ==
  ASSUME Inv, Rename
  PROVE  /\ doc \in 1 .. MaxDocs /\ size \in 1 .. MaxSize
         /\ target' # 0 /\ content'[target'] = Document(doc, size)
         /\ target # 0 => \E d \in 1 .. doc - 1, n \in 1 .. MaxSize :
              content[target] = Document(d, n)
<1>1. doc \in 1 .. MaxDocs /\ size \in 1 .. MaxSize
  BY FileAssumption DEF Inv, Types, Rename
<1>2. target' # 0 /\ content'[target'] = Document(doc, size)
  BY DEF Inv, Writing, Rename
<1>3. ASSUME target # 0
      PROVE  \E d \in 1 .. doc - 1, n \in 1 .. MaxSize : content[target] = Document(d, n)
  <2>1. PICK d \in 1 .. doc, n \in 1 .. MaxSize : content[target] = Document(d, n) /\ d < doc
    BY <1>3 DEF Inv, TargetWhole, Rename
  <2>2. d \in 1 .. doc - 1
    BY <1>1, <2>1, FileAssumption
  <2> QED BY <2>1, <2>2
<1> QED BY <1>1, <1>2, <1>3

LEMMA RenameInv == ASSUME Inv, Rename PROVE Inv'
<1> USE DEF Rename, readers
<1>1. Types' /\ Apart'
  BY DEF Inv, Types, Apart
<1>2. TargetWhole'
  BY RenamePublishes, FileAssumption DEF TargetWhole
<1>3. ViewsWhole' /\ PrefixRead'
  BY DEF Inv, ViewsWhole, PrefixRead
<1>4. Writing'
  BY DEF Writing
<1> QED BY <1>1, <1>2, <1>3, <1>4 DEF Inv

LEMMA GiveUpInv == ASSUME Inv, GiveUp PROVE Inv'
<1> USE DEF GiveUp, disk, readers
<1>1. Types' /\ Apart' /\ Writing'
  BY DEF Inv, Types, Apart, Writing
<1>2. TargetWhole' /\ ViewsWhole'
  BY DEF Inv, TargetWhole, ViewsWhole
<1>3. PrefixRead'
  BY DEF Inv, PrefixRead
<1> QED BY <1>1, <1>2, <1>3 DEF Inv

LEMMA ReaderOpenInv == ASSUME Inv, NEW r \in Readers, ReaderOpen(r) PROVE Inv'
<1> USE DEF ReaderOpen, writer, disk
<1>1. Types' /\ Apart' /\ Writing'
  BY DEF Inv, Types, Apart, Writing
<1>2. TargetWhole'
  BY DEF Inv, TargetWhole
<1>3. ViewsWhole'
  BY DEF Inv, Types, ViewsWhole, TargetWhole
<1>4. PrefixRead'
  <2> SUFFICES ASSUME NEW q \in Readers, reading'[q] # 0
               PROVE  /\ Len(got'[q]) <= Len(content[reading'[q]])
                      /\ \A i \in 1 .. Len(got'[q]) : got'[q][i] = content[reading'[q]][i]
    BY DEF PrefixRead
  <2>1. CASE q = r
    <3>1. got'[q] = <<>> /\ reading'[q] = target /\ content[target] \in Seq(Units)
      BY <2>1 DEF Inv, Types
    <3> QED BY <3>1
  <2>2. CASE q # r
    BY <2>2 DEF Inv, Types, PrefixRead
  <2> QED BY <2>1, <2>2
<1> QED BY <1>1, <1>2, <1>3, <1>4 DEF Inv

LEMMA ReaderReadInv == ASSUME Inv, NEW r \in Readers, ReaderRead(r) PROVE Inv'
<1> USE DEF ReaderRead, writer, disk
<1>0. PICK held, file : held = got[r] /\ file = content[reading[r]]
  OBVIOUS
<1>1. held \in Seq(Units) /\ file \in Seq(Units) /\ Len(held) < Len(file)
  BY <1>0 DEF Inv, Types, AtEnd
<1>2. /\ Append(held, file[Len(held) + 1]) \in Seq(Units)
      /\ Len(Append(held, file[Len(held) + 1])) = Len(held) + 1
      /\ \A i \in 1 .. Len(held) : Append(held, file[Len(held) + 1])[i] = held[i]
      /\ Append(held, file[Len(held) + 1])[Len(held) + 1] = file[Len(held) + 1]
  BY <1>1
<1>3. got' = [got EXCEPT ![r] = Append(held, file[Len(held) + 1])]
  BY <1>0
<1>4. Types' /\ Apart' /\ Writing'
  BY <1>2, <1>3 DEF Inv, Types, Apart, Writing
<1>5. TargetWhole' /\ ViewsWhole'
  BY DEF Inv, TargetWhole, ViewsWhole
<1>6. PrefixRead'
  <2> SUFFICES ASSUME NEW q \in Readers, reading[q] # 0
               PROVE  /\ Len(got'[q]) <= Len(content[reading[q]])
                      /\ \A i \in 1 .. Len(got'[q]) : got'[q][i] = content[reading[q]][i]
    BY DEF PrefixRead
  <2>1. CASE q = r
    <3>1. got'[q] = Append(held, file[Len(held) + 1])
      BY <1>3, <2>1 DEF Inv, Types
    <3>2. \A i \in 1 .. Len(held) : held[i] = file[i]
      BY <1>0, <2>1 DEF Inv, PrefixRead
    <3>3. \A i \in 1 .. Len(held) + 1 : i \in 1 .. Len(held) \/ i = Len(held) + 1
      BY <1>1
    <3> QED BY <1>0, <1>1, <1>2, <2>1, <3>1, <3>2, <3>3
  <2>2. CASE q # r
    <3>1. got'[q] = got[q]
      BY <1>3, <2>2 DEF Inv, Types
    <3> QED BY <3>1 DEF Inv, PrefixRead
  <2> QED BY <2>1, <2>2
<1> QED BY <1>4, <1>5, <1>6 DEF Inv

LEMMA ReaderCloseInv == ASSUME Inv, NEW r \in Readers, ReaderClose(r) PROVE Inv'
<1> USE DEF ReaderClose, writer, disk
<1>1. Types' /\ Apart' /\ Writing'
  BY FileAssumption DEF Inv, Types, Apart, Writing
<1>2. TargetWhole'
  BY DEF Inv, TargetWhole
<1>3. \A q \in Readers : reading'[q] # 0 => reading'[q] = reading[q] /\ got'[q] = got[q]
  BY DEF Inv, Types
<1>4. ViewsWhole'
  BY <1>3 DEF Inv, ViewsWhole
<1>5. PrefixRead'
  BY <1>3 DEF Inv, PrefixRead
<1> QED BY <1>1, <1>2, <1>4, <1>5 DEF Inv

LEMMA StutterInv == Inv /\ UNCHANGED vars => Inv'
BY DEF Inv, Types, Apart, TargetWhole, ViewsWhole, PrefixRead, Writing, vars, writer, disk,
       readers

LEMMA NextInv == Inv /\ [Next]_vars => Inv'
<1> SUFFICES ASSUME Inv, [Next]_vars PROVE Inv'
  OBVIOUS
<1>1. ASSUME NEW n \in 1 .. MaxSize, Build(n) PROVE Inv'
  BY <1>1, BuildInv
<1>2. ASSUME NEW n \in 1 .. MaxSize, Write(n) PROVE Inv'
  BY <1>2, WriteInv
<1>3. CASE OpenTemporary
  BY <1>3, OpenTemporaryInv
<1>4. CASE CloseTemporary
  BY <1>4, CloseTemporaryInv
<1>5. CASE Rename
  BY <1>5, RenameInv
<1>6. CASE GiveUp
  BY <1>6, GiveUpInv
<1>7. ASSUME NEW r \in Readers, ReaderOpen(r) PROVE Inv'
  BY <1>7, ReaderOpenInv
<1>8. ASSUME NEW r \in Readers, ReaderRead(r) PROVE Inv'
  BY <1>8, ReaderReadInv
<1>9. ASSUME NEW r \in Readers, ReaderClose(r) PROVE Inv'
  BY <1>9, ReaderCloseInv
<1>10. CASE UNCHANGED vars
  BY <1>10, StutterInv
<1> QED
  BY <1>1, <1>2, <1>3, <1>4, <1>5, <1>6, <1>7, <1>8, <1>9, <1>10, Zenon DEF Next, Proxy

LEMMA InvHolds == Spec => []Inv
BY InitInv, NextInv, PTL DEF Spec
-----------------------------------------------------------------------------
LEMMA InvImpliesWhole == Inv => WholeDocuments
<1> SUFFICES ASSUME Inv, NEW r \in Readers, reading[r] # 0, AtEnd(r)
             PROVE  \E d \in 1 .. doc, n \in 1 .. MaxSize : got[r] = Document(d, n)
  BY DEF WholeDocuments
<1>1. PICK d \in 1 .. doc, n \in 1 .. MaxSize : content[reading[r]] = Document(d, n)
  BY DEF Inv, ViewsWhole
<1>2. PICK held, file : held = got[r] /\ file = content[reading[r]]
  OBVIOUS
<1>3. held \in Seq(Units) /\ file \in Seq(Units) /\ Len(held) = Len(file)
  BY <1>2 DEF Inv, Types, PrefixRead, AtEnd
<1>4. \A i \in 1 .. Len(held) : held[i] = file[i]
  BY <1>2 DEF Inv, PrefixRead
<1>5. held = file
  BY <1>3, <1>4
<1> QED BY <1>1, <1>2, <1>5

\* write_metrics_file: a reader that has come to the end of the file holds one whole
\* document, whichever calls failed, were short, or were cut off by a kill meanwhile,
\* for any number of readers and of documents of any size.
THEOREM ReadersSeeWholeDocuments == Spec => []WholeDocuments
BY InvHolds, InvImpliesWhole, PTL
-----------------------------------------------------------------------------
(* The refinement.                                                         *)

View == [r \in Readers |-> IF reading[r] = 0 THEN Nobody ELSE content[reading[r]]]

LEMMA InitRefines == Init => Abstract!Init
BY DEF Init, Abstract!Init, Published

\* What is published numbers less than the document being written.
LEMMA PublishedNumber ==
  ASSUME NEW d \in Nat, NEW n \in Nat \ {0}
  PROVE  Abstract!Number(Document(d, n)) = d
<1>1. Document(d, n) \in Seq(Units) /\ Len(Document(d, n)) = n
  BY DocumentIsSequence
<1>2. Document(d, n) # <<>> /\ Head(Document(d, n)) = Document(d, n)[1]
  BY <1>1
<1>3. Document(d, n)[1] = <<d, n, 1>>
  BY DEF Document
<1> QED BY <1>2, <1>3 DEF Abstract!Number

\* A step that leaves target, the readers' inodes and their contents alone.
LEMMA Invisible ==
  ASSUME target' = target, reading' = reading,
         target # 0 => content'[target] = content[target],
         \A r \in Readers : reading[r] # 0 => content'[reading[r]] = content[reading[r]]
  PROVE  Published' = Published /\ View' = View
BY DEF Published, View

LEMMA RenameReplaces == ASSUME Inv, Rename PROVE Abstract!Replace
<1>1. View' = View
  BY DEF Rename, readers, View
<1>2. doc \in 1 .. MaxDocs /\ size \in 1 .. MaxSize /\ Published' = Document(doc, size)
  BY RenamePublishes DEF Published
<1>3. Abstract!Number(Published) \in Nat /\ Abstract!Number(Published) < doc
  <2>1. CASE target = 0
    BY <1>2, <2>1 DEF Published, Abstract!Number
  <2>2. CASE target # 0
    <3>1. PICK d \in 1 .. doc - 1, n \in 1 .. MaxSize : content[target] = Document(d, n)
      BY <2>2, RenamePublishes
    <3>2. d \in Nat /\ d < doc /\ n \in Nat \ {0}
      BY <1>2, FileAssumption
    <3>3. Abstract!Number(Document(d, n)) = d
      BY <3>2, PublishedNumber
    <3> QED BY <2>2, <3>1, <3>2, <3>3 DEF Published
  <2> QED BY <2>1, <2>2
<1>4. doc \in Abstract!Number(Published) + 1 .. MaxDocs
  BY <1>2, <1>3, FileAssumption
<1>5. Document(doc, size) = Abstract!Document(doc, size)
  BY DEF Document, Abstract!Document
<1>6. \E d \in Abstract!Number(Published) + 1 .. MaxDocs, n \in 1 .. MaxSize :
         Published' = Abstract!Document(d, n)
  BY <1>2, <1>4, <1>5
<1> QED BY <1>1, <1>6 DEF Abstract!Replace, View

\* A reader's open file is a document, so it is told apart from no file at all.
LEMMA OpenIsSomebody ==
  ASSUME Inv, NEW r \in Readers, reading[r] # 0
  PROVE  View[r] = content[reading[r]] /\ View[r] # Nobody
<1>1. PICK d \in 1 .. doc, n \in 1 .. MaxSize : content[reading[r]] = Document(d, n)
  BY DEF Inv, ViewsWhole
<1>2. d \in 1 .. MaxDocs
  BY FileAssumption DEF Inv, Types
<1> QED BY <1>1, <1>2, NobodyAssumption DEF View

LEMMA ReaderOpenOpens == ASSUME Inv, NEW r \in Readers, ReaderOpen(r) PROVE Abstract!Open(r)
<1> USE DEF ReaderOpen, disk
<1>1. Published' = Published /\ Published = content[target]
  BY DEF Published
<1>2. Published # <<>>
  <2>1. PICK d \in 1 .. doc, n \in 1 .. MaxSize : content[target] = Document(d, n)
    BY DEF Inv, TargetWhole
  <2>2. d \in Nat /\ n \in Nat \ {0}
    BY FileAssumption DEF Inv, Types
  <2>3. Len(Document(d, n)) = n
    BY <2>2, DocumentIsSequence
  <2> QED BY <1>1, <2>1, <2>2, <2>3
<1>3. View[r] = Nobody
  BY DEF View
<1>4. View' = [View EXCEPT ![r] = Published]
  BY <1>1 DEF View, Inv, Types
<1> QED BY <1>1, <1>2, <1>3, <1>4 DEF Abstract!Open, View

LEMMA ReaderCloseCloses ==
  ASSUME Inv, NEW r \in Readers, ReaderClose(r) PROVE Abstract!Close(r)
<1> USE DEF ReaderClose, disk
<1>1. Published' = Published
  BY DEF Published
<1>2. View[r] # Nobody
  BY OpenIsSomebody
<1>3. View' = [View EXCEPT ![r] = Nobody]
  BY DEF View, Inv, Types
<1> QED BY <1>1, <1>2, <1>3 DEF Abstract!Close, View

LEMMA NextRefines ==
  Inv /\ [Next]_vars => [Abstract!Next]_<<Published, View>>
<1> SUFFICES ASSUME Inv, [Next]_vars PROVE [Abstract!Next]_<<Published, View>>
  OBVIOUS
<1>1. ASSUME NEW n \in 1 .. MaxSize, Build(n) PROVE Published' = Published /\ View' = View
  BY <1>1, Invisible DEF Build, disk, readers
<1>2. ASSUME NEW n \in 1 .. MaxSize, Write(n) PROVE Published' = Published /\ View' = View
  <2>1. fd # target /\ \A r \in Readers : reading[r] # fd
    BY <1>2 DEF Write, Inv, Writing, Apart
  <2>2. /\ target # 0 => content'[target] = content[target]
        /\ \A r \in Readers : reading[r] # 0 => content'[reading[r]] = content[reading[r]]
    BY <1>2, <2>1 DEF Write, Inv, Types
  <2> QED BY <1>2, <2>2, Invisible DEF Write, readers
<1>3. CASE OpenTemporary
  <2>1. fd' # target /\ \A r \in Readers : reading[r] # fd'
    BY <1>3 DEF OpenTemporary, Truncate, FreeInodes, Inv, Apart
  <2>2. /\ target # 0 => content'[target] = content[target]
        /\ \A r \in Readers : reading[r] # 0 => content'[reading[r]] = content[reading[r]]
    BY <1>3, <2>1 DEF OpenTemporary, Truncate, Inv, Types
  <2>3. Published' = Published /\ View' = View
    BY <1>3, <2>2, Invisible DEF OpenTemporary, readers
  <2> QED BY <2>3
<1>4. CASE CloseTemporary
  BY <1>4, Invisible DEF CloseTemporary, disk, readers
<1>5. CASE Rename
  BY <1>5, RenameReplaces DEF Abstract!Next
<1>6. CASE GiveUp
  BY <1>6, Invisible DEF GiveUp, disk, readers
<1>7. ASSUME NEW r \in Readers, ReaderOpen(r) PROVE Abstract!Next
  BY <1>7, ReaderOpenOpens DEF Abstract!Next
<1>8. ASSUME NEW r \in Readers, ReaderRead(r) PROVE Published' = Published /\ View' = View
  BY <1>8, Invisible DEF ReaderRead, writer, disk
<1>9. ASSUME NEW r \in Readers, ReaderClose(r) PROVE Abstract!Next
  BY <1>9, ReaderCloseCloses DEF Abstract!Next
<1>10. CASE UNCHANGED vars
  BY <1>10, Invisible DEF vars, disk, readers
<1> QED
  BY <1>1, <1>2, <1>3, <1>4, <1>5, <1>6, <1>7, <1>8, <1>9, <1>10, Zenon DEF Next, Proxy

\* write_metrics_file implements AtomicFile: its open, short writes, close, rename and
\* their failures amount to replacing the document whole, by a newer one, or not at all.
THEOREM WritesAreAtomic == Spec => ImplementsAtomicFile
<1>1. Init => Abstract!Init
  BY InitRefines
<1>2. Inv /\ [Next]_vars => [Abstract!Next]_<<Published, View>>
  BY NextRefines
<1> QED BY <1>1, <1>2, InvHolds, PTL DEF Spec, ImplementsAtomicFile, Abstract!Spec, View
=============================================================================
