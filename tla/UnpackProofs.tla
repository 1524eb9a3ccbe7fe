---------------------------- MODULE UnpackProofs -----------------------------
(* Theorems about Unpack, for any number of calls, any archives and names. *)
EXTENDS Unpack, TLAPS

\* What an accepted request looks like.
LEMMA RequestFacts ==
  ASSUME TypeOK, NEW p \in Proc
  PROVE  /\ archive(p) \in Seq(Entry)
         /\ Len(archive(p)) <= MaxLen
         /\ limits(p) \in LimitsType
         /\ req[p].compressed \in Nat
  <1>1. req[p] \in Requests
    BY DEF TypeOK
  <1>2. req[p] \in RequestType /\ Len(req[p].archive) <= MaxLen
    BY <1>1, RequestsAssumption
  <1> QED
    BY <1>2 DEF RequestType, archive, limits

\* An entry of a request: its type, name and size.
LEMMA EntryFacts ==
  ASSUME TypeOK, NEW p \in Proc, NEW i \in 1..Len(archive(p))
  PROVE  /\ archive(p)[i] \in Entry
         /\ archive(p)[i].size \in Nat
         /\ i \in 1..MaxLen
  <1>1. /\ archive(p) \in Seq(Entry)
        /\ Len(archive(p)) <= MaxLen
    BY RequestFacts
  <1>2. archive(p)[i] \in Entry
    BY <1>1
  <1>3. MaxLen \in Nat
    BY RequestsAssumption
  <1> QED
    BY <1>1, <1>2, <1>3 DEF Entry

\* The ceiling is a number, whatever the limits.
LEMMA CeilingType ==
  ASSUME TypeOK, NEW p \in Proc
  PROVE  Ceiling(p) \in Nat
  <1>1. limits(p) \in LimitsType /\ req[p].compressed \in Nat
    BY RequestFacts
  <1>2. /\ limits(p).max_compression_ratio \in Nat
        /\ limits(p).max_uncompressed_bytes \in Nat
    BY <1>1 DEF LimitsType
  <1> DEFINE x == req[p].compressed
             y == limits(p).max_compression_ratio
  <1>3. SaturatingMul(x, y) \in Nat
    <2>1. x * y \in Nat
      BY <1>1, <1>2
    <2> QED
      BY <2>1, U64MaxAssumption DEF SaturatingMul
  <1> HIDE DEF x, y
  <1> QED
    BY <1>2, <1>3, RatioFloorAssumption DEF Ceiling, InflateCeiling, x, y

\* A write yields a sequence of blocks.
LEMMA WriteAtType ==
  ASSUME NEW T, NEW blocks \in Seq(T), NEW offset \in Nat, NEW block \in T,
         Hole \in T
  PROVE  WriteAt(blocks, offset, block) \in Seq(T)
  <1> DEFINE n == IF Len(blocks) > offset THEN Len(blocks) ELSE offset + 1
  <1>1. n \in Nat
    OBVIOUS
  <1>2. WriteAt(blocks, offset, block) \in [1..n -> T]
    BY DEF WriteAt
  <1> HIDE DEF n
  <1> QED
    BY <1>1, <1>2

\* An error leaves the call's locals well typed and away from the entry.
LEMMA FailType ==
  ASSUME TypeOK, NEW p \in Proc, NEW e \in Error, Fail(p, e)
  PROVE  /\ err' \in [Proc -> Error]
         /\ pc' \in [Proc -> Pc]
         /\ handle' \in [Proc -> Inode \cup {Absent}]
  BY DEF Fail, TypeOK, Pc

\* The blocks read once a header is read are a number.
LEMMA HeaderReadType ==
  ASSUME TypeOK, NEW p \in Proc, next[p] <= Len(archive(p)) + 1
  PROVE  HeaderRead(p) \in Nat /\ HeaderRead(p) >= read[p]
  <1>1. next[p] \in Nat \ {0} /\ read[p] \in Nat
    BY DEF TypeOK
  <1>2. Unread(p) \in Nat
    <2>1. CASE next[p] > 1
      <3>1. next[p] - 1 \in 1..Len(archive(p))
        BY <1>1, <2>1, RequestFacts
      <3>2. archive(p)[next[p] - 1].size \in Nat
        BY <3>1, EntryFacts
      <3> QED
        BY <3>2 DEF Unread
    <2>2. CASE ~(next[p] > 1)
      BY <2>2 DEF Unread
    <2> QED
      BY <2>1, <2>2
  <1> QED
    BY <1>1, <1>2 DEF HeaderRead

-----------------------------------------------------------------------------
(* Type correctness and the cursor, which need each other.                 *)

Typed == TypeOK /\ CursorInArchive

\* The types and the cursor hold initially.
LEMMA TypedInit == Init => Typed
  <1> SUFFICES ASSUME Init PROVE Typed
    OBVIOUS
  <1>1. dir \in [File -> Node]
    BY DEF Init, Node, Inode, UserInode
  <1>2. content \in [Inode -> Seq(Inode \cup {Hole})]
    <2> DEFINE T == Inode \cup {Hole}
               C(i) == IF i \in OwnInode THEN <<>> ELSE Original(i)
    <2>1. ASSUME NEW i \in Inode PROVE C(i) \in Seq(T)
      <3>1. i \in T
        OBVIOUS
      <3> HIDE DEF T
      <3> QED
        BY <3>1 DEF Original
    <2>2. content = [i \in Inode |-> C(i)]
      BY DEF Init
    <2> HIDE DEF C, T
    <2>3. content \in [Inode -> Seq(T)]
      BY <2>1, <2>2
    <2> QED
      BY <2>3 DEF T
  <1>3. TypeOK
    BY <1>1, <1>2 DEF Init, TypeOK, Pc, Running, Error
  <1>4. CursorInArchive
    <2> SUFFICES ASSUME NEW p \in Proc
                 PROVE  1 <= Len(archive(p)) + 1
      BY DEF Init, CursorInArchive
    <2>1. archive(p) \in Seq(Entry)
      BY <1>3, RequestFacts
    <2> QED
      BY <2>1
  <1> QED
    BY <1>3, <1>4 DEF Typed

\* Every step keeps the types and the cursor, one case per action.
LEMMA TypedNext == Typed /\ [Next]_vars => Typed'
  <1> SUFFICES ASSUME Typed, [Next]_vars PROVE Typed'
    OBVIOUS
  <1> USE DEF Typed
  <1>0. /\ TypeOK
        /\ CursorInArchive
        /\ MaxLen \in Nat
    BY RequestsAssumption
  <1>1. ASSUME NEW p \in Proc, Start(p)
        PROVE  Typed'
    BY <1>0, <1>1
    DEF Start, fs, TypeOK, CursorInArchive, Pc, Running, Finished, Error,
        archive
  <1>2. ASSUME NEW p \in Proc, HeaderPastCeiling(p)
        PROVE  Typed'
    <2>1. HeaderRead(p) \in Nat
      BY <1>0, HeaderReadType DEF CursorInArchive
    <2> QED
      BY <1>0, <1>2, <2>1
      DEF HeaderPastCeiling, Fail, fs, TypeOK, CursorInArchive, Pc, Error,
          archive
  <1>3. ASSUME NEW p \in Proc, EndOfArchive(p)
        PROVE  Typed'
    <2>1. HeaderRead(p) \in Nat
      BY <1>0, HeaderReadType DEF CursorInArchive
    <2> QED
      BY <1>0, <1>3, <2>1
      DEF EndOfArchive, fs, TypeOK, CursorInArchive, Pc, Finished, archive
  <1>4. ASSUME NEW p \in Proc, ReadEntry(p)
        PROVE  Typed'
    <2>1. HeaderRead(p) \in Nat
      BY <1>0, HeaderReadType DEF CursorInArchive
    <2> DEFINE entry   == archive(p)[next[p]]
               verdict == CheckEntry(entry, Counted(p), seen[p], limits(p))
    <2>2. verdict \in Error
      BY DEF CheckEntry, Error
    <2>3. CASE verdict # "none" /\ Fail(p, verdict)
                 /\ UNCHANGED <<seen, target, pos>>
      <3> HIDE DEF verdict
      <3> QED
        BY <1>0, <1>4, <2>1, <2>2, <2>3
        DEF ReadEntry, Fail, fs, TypeOK, CursorInArchive, Pc, archive
    <2>4. ASSUME NEW f \in SafeRelativePath(entry.name, limits(p)),
                 seen' = [seen EXCEPT ![p] = @ \cup {f}],
                 target' = [target EXCEPT ![p] = Fold[f]],
                 pos' = [pos EXCEPT ![p] = 0],
                 pc' = [pc EXCEPT ![p] = IF entry.type = "dir" THEN "mkdir"
                                                               ELSE "stat"],
                 UNCHANGED <<handle, err>>
          PROVE  Typed'
      <3>1. f \in File /\ Fold[f] \in File
        BY <2>4, FoldAssumption DEF SafeRelativePath
      <3>2. pc'[p] \in {"mkdir", "stat"} /\ pc' \in [Proc -> Pc]
        BY <1>0, <2>4 DEF TypeOK, Pc, Running
      <3>3. TypeOK'
        BY SMTT(30), <1>0, <1>4, <2>1, <2>4, <3>1, <3>2 DEF ReadEntry, fs, TypeOK
      <3>4. CursorInArchive'
        <4>1. /\ UNCHANGED <<next, req, handle>>
              /\ next[p] <= Len(archive(p))
              /\ target'[p] = Fold[f]
          BY <1>0, <1>4, <2>4 DEF ReadEntry, TypeOK
        <4>2. \A q \in Proc \ {p} : pc'[q] = pc[q] /\ target'[q] = target[q]
          BY <1>0, <2>4 DEF TypeOK
        <4> QED
          BY <1>0, <3>1, <3>2, <4>1, <4>2 DEF CursorInArchive, archive
      <3> QED
        BY <3>3, <3>4
    <2> QED
      BY <1>4, <2>3, <2>4 DEF ReadEntry
  <1>5. ASSUME NEW p \in Proc, MakeDir(p)
        PROVE  Typed'
    <2>1. archive(p) \in Seq(Entry)
      BY <1>0, RequestFacts
    <2>2. target[p] \in File /\ next[p] <= Len(archive(p))
      BY <1>0, <1>5 DEF MakeDir, CursorInArchive
    <2>3. dir' \in [File -> Node]
      BY <1>0, <1>5, <2>2 DEF MakeDir, TypeOK, Node
    <2>4. TypeOK'
      <3>1. CASE dir[target[p]] \in {Absent, Dir}
        <4>1. pc' \in [Proc -> Pc]
          BY ZenonT(60), <1>0, <1>5, <3>1 DEF MakeDir, TypeOK, Pc, Running
        <4>3. next' \in [Proc -> Nat \ {0}]
          BY <1>0, <1>5, <3>1 DEF MakeDir, TypeOK
        <4>2. UNCHANGED <<handle, err, content, req, read, seen, target, pos,
                          created, out, unremoved>>
          BY <1>5, <3>1 DEF MakeDir
        <4> QED
          BY <1>0, <2>3, <4>1, <4>2, <4>3 DEF TypeOK
      <3>2. CASE dir[target[p]] \notin {Absent, Dir}
        <4>1. "Io" \in Error /\ Fail(p, "Io")
          BY <1>5, <3>2 DEF MakeDir, Error
        <4>2. /\ err' \in [Proc -> Error]
              /\ pc' \in [Proc -> Pc]
              /\ handle' \in [Proc -> Inode \cup {Absent}]
          BY <1>0, <4>1, FailType
        <4> QED
          BY <1>0, <1>5, <2>3, <3>2, <4>2 DEF MakeDir, TypeOK
      <3> QED
        BY <3>1, <3>2
    <2>5. CursorInArchive'
      BY SMTT(30), <1>0, <1>5, <2>1, <2>2
      DEF MakeDir, Fail, TypeOK, CursorInArchive, archive
    <2> QED
      BY <2>4, <2>5
  <1>6. ASSUME NEW p \in Proc, Stat(p)
        PROVE  Typed'
    BY ZenonT(60), <1>0, <1>6
    DEF Stat, Fail, fs, TypeOK, CursorInArchive, Pc, Running, Error, archive
  <1>7. ASSUME NEW p \in Proc, CreateNew(p)
        PROVE  Typed'
    <2>1. /\ target[p] \in File
          /\ next[p] \in 1..Len(archive(p))
      BY <1>0, <1>7 DEF CreateNew, CursorInArchive, TypeOK
    <2>2. <<p, next[p]>> \in Inode
      BY <1>0, <2>1, EntryFacts DEF Inode, OwnInode
    <2>3. Append(created[p], target[p]) \in Seq(File)
      BY <1>0, <2>1 DEF TypeOK
    <2>4. /\ dir' \in [File -> Node]
          /\ handle' \in [Proc -> Inode \cup {Absent}]
          /\ created' \in [Proc -> Seq(File)]
      <3>1. <<p, next[p]>> \in Node
        BY <2>2 DEF Node
      <3>2. dir' \in [File -> Node]
        BY ZenonT(60), <1>0, <1>7, <3>1 DEF CreateNew, TypeOK
      <3>3. created' \in [Proc -> Seq(File)]
        <4> DEFINE more == Append(created[p], target[p])
                   Names == Seq(File)
        <4>1. created' = created \/ created' = [created EXCEPT ![p] = more]
          BY <1>7 DEF CreateNew
        <4>2. created \in [Proc -> Names] /\ more \in Names
          BY <1>0, <2>3 DEF TypeOK
        <4> HIDE DEF more, Names
        <4>3. created' \in [Proc -> Names]
          BY <4>1, <4>2
        <4> QED
          BY <4>3 DEF Names
      <3>4. handle' \in [Proc -> Inode \cup {Absent}]
        <4>1. handle \in [Proc -> Inode \cup {Absent}]
          BY <1>0 DEF TypeOK
        <4>2. \/ handle' = [handle EXCEPT ![p] = <<p, next[p]>>]
              \/ handle' = [handle EXCEPT ![p] = Absent]
          BY <1>7 DEF CreateNew, Fail
        <4> QED
          BY <2>2, <4>1, <4>2
      <3> QED
        BY <3>2, <3>3, <3>4
    <2>5. TypeOK'
      BY <1>0, <1>7, <2>4 DEF CreateNew, Fail, TypeOK, Pc, Running, Error
    <2>6. CursorInArchive'
      BY ZenonT(60), <1>0, <1>7, <2>1, <2>2
      DEF CreateNew, Fail, TypeOK, CursorInArchive, archive
    <2> QED
      BY <2>5, <2>6
  <1>8. ASSUME NEW p \in Proc, OpenTruncate(p)
        PROVE  Typed'
    <2>1. \A i \in Inode : Truncate(p, i) =>
            /\ content' \in [Inode -> Seq(Inode \cup {Hole})]
            /\ handle' \in [Proc -> Inode \cup {Absent}]
            /\ handle'[p] \in Inode
      BY SMTT(30), <1>0 DEF Truncate, TypeOK
    <2>2. Outside \in Inode
      BY DEF Inode
    <2> QED
      BY ZenonT(60), <1>0, <1>8, <2>1, <2>2
      DEF OpenTruncate, Truncate, Fail, TypeOK, CursorInArchive, Pc, Running,
          Error, archive
  <1>9. ASSUME NEW p \in Proc, CopyBlock(p)
        PROVE  Typed'
    <2>1. /\ handle[p] \in Inode
          /\ next[p] \in 1..Len(archive(p))
      BY <1>0, <1>9 DEF CopyBlock, CursorInArchive, TypeOK
    <2>2. <<p, next[p]>> \in Inode
      BY <1>0, <2>1, EntryFacts DEF Inode, OwnInode
    <2>3. WriteAt(content[handle[p]], pos[p], <<p, next[p]>>)
            \in Seq(Inode \cup {Hole})
      BY <1>0, <2>1, <2>2, WriteAtType DEF TypeOK
    <2>4. /\ content' \in [Inode -> Seq(Inode \cup {Hole})]
          /\ handle' \in [Proc -> Inode \cup {Absent}]
      <3>1. handle' \in [Proc -> Inode \cup {Absent}]
        BY <1>0, <1>9 DEF CopyBlock, Fail, TypeOK
      <3>2. content' \in [Inode -> Seq(Inode \cup {Hole})]
        <4> DEFINE B == Seq(Inode \cup {Hole})
                   w == WriteAt(content[handle[p]], pos[p], <<p, next[p]>>)
        <4>1. content \in [Inode -> B] /\ w \in B
          BY <1>0, <2>3 DEF TypeOK
        <4>2. content' = content \/ content' = [content EXCEPT ![handle[p]] = w]
          BY <1>9 DEF CopyBlock
        <4> HIDE DEF B, w
        <4>3. content' \in [Inode -> B]
          BY <2>1, <4>1, <4>2
        <4> QED
          BY <4>3 DEF B
      <3> QED
        BY <3>1, <3>2
    <2>5. /\ read' \in [Proc -> Nat]
          /\ pos' \in [Proc -> Nat]
          /\ UNCHANGED <<dir, req, next, seen, target, created, out, unremoved>>
      <3>1. read' \in [Proc -> Nat]
        BY <1>0, <1>9 DEF CopyBlock, TypeOK
      <3>2. pos' = pos \/ pos' = [pos EXCEPT ![p] = @ + 1]
        BY <1>9 DEF CopyBlock
      <3>3. pos' \in [Proc -> Nat]
        <4>1. pos \in [Proc -> Nat]
          BY <1>0 DEF TypeOK
        <4> QED
          BY <3>2, <4>1
      <3> QED
        BY <1>9, <3>1, <3>3 DEF CopyBlock
    <2>6. TypeOK'
      <3>1. CASE read[p] + 1 > Ceiling(p)
        <4>1. "LimitExceeded" \in Error /\ Fail(p, "LimitExceeded")
          BY SMTT(30), <1>0, <1>9, <3>1, CeilingType DEF CopyBlock, Error, TypeOK
        <4>2. err' \in [Proc -> Error] /\ pc' \in [Proc -> Pc]
          BY <1>0, <4>1, FailType
        <4> QED
          BY <1>0, <2>4, <2>5, <4>2 DEF TypeOK
      <3>2. CASE ~(read[p] + 1 > Ceiling(p))
        <4>1. pc' = pc /\ err' = err
          BY <1>0, <1>9, <3>2, CeilingType DEF CopyBlock, TypeOK
        <4> QED
          BY <1>0, <2>4, <2>5, <4>1 DEF TypeOK
      <3> QED
        BY <3>1, <3>2
    <2>7. CursorInArchive'
      BY <1>0, <1>9 DEF CopyBlock, Fail, TypeOK, CursorInArchive, archive
    <2> QED
      BY <2>6, <2>7
  <1>10. ASSUME NEW p \in Proc, CopyDone(p)
         PROVE  Typed'
    <2>1. /\ target[p] \in File
          /\ next[p] \in 1..Len(archive(p))
      BY <1>0, <1>10 DEF CopyDone, CursorInArchive, TypeOK
    <2>2. next[p] \in 1..MaxLen /\ archive(p) \in Seq(Entry)
      BY <1>0, <2>1, EntryFacts, RequestFacts
    <2>3. Append(out[p], <<target[p], next[p]>>) \in Seq(File \X (1..MaxLen))
      BY <1>0, <2>1, <2>2 DEF TypeOK
    <2>4. out' \in [Proc -> Seq(File \X (1..MaxLen))]
      BY <1>0, <1>10, <2>3 DEF CopyDone, TypeOK
    <2>5. TypeOK'
      BY SMTT(30), <1>0, <1>10, <2>4 DEF CopyDone, fs, TypeOK, Pc, Running
    <2>6. CursorInArchive'
      <3>1. /\ next'[p] <= Len(archive(p)) + 1
            /\ pc'[p] = "next"
            /\ UNCHANGED <<req, target>>
        BY <1>0, <1>10, <2>1, <2>2 DEF CopyDone, TypeOK
      <3>2. \A q \in Proc \ {p} :
              next'[q] = next[q] /\ pc'[q] = pc[q] /\ handle'[q] = handle[q]
        BY <1>0, <1>10 DEF CopyDone, TypeOK
      <3> QED
        BY <1>0, <3>1, <3>2 DEF CursorInArchive, archive
    <2> QED
      BY <2>5, <2>6
  <1>11. ASSUME NEW p \in Proc, IoError(p)
         PROVE  Typed'
    BY <1>0, <1>11
    DEF IoError, Fail, fs, TypeOK, CursorInArchive, Pc, Error, archive
  <1>12. ASSUME NEW p \in Proc, RemoveCreated(p)
         PROVE  Typed'
    <2>1. created[p] \in Seq(File) /\ created[p] # <<>>
      BY <1>0, <1>12 DEF RemoveCreated, TypeOK
    <2>2. /\ created[p][Len(created[p])] \in File
          /\ SubSeq(created[p], 1, Len(created[p]) - 1) \in Seq(File)
      BY <2>1
    <2>3. /\ dir' \in [File -> Node]
          /\ created' \in [Proc -> Seq(File)]
          /\ unremoved' \in [Proc -> SUBSET File]
      <3>1. dir' \in [File -> Node]
        BY <1>0, <1>12, <2>2 DEF RemoveCreated, TypeOK, Node
      <3>2. created' \in [Proc -> Seq(File)]
        <4> DEFINE fewer == SubSeq(created[p], 1, Len(created[p]) - 1)
                   Names == Seq(File)
        <4>1. created' = [created EXCEPT ![p] = fewer]
          BY <1>12 DEF RemoveCreated
        <4>2. created \in [Proc -> Names] /\ fewer \in Names
          BY <1>0, <2>2 DEF TypeOK
        <4> HIDE DEF fewer, Names
        <4>3. created' \in [Proc -> Names]
          BY <4>1, <4>2
        <4> QED
          BY <4>3 DEF Names
      <3>3. unremoved' \in [Proc -> SUBSET File]
        <4> DEFINE f == created[p][Len(created[p])]
        <4>1. unremoved \in [Proc -> SUBSET File] /\ f \in File
          BY <1>0, <2>2 DEF TypeOK
        <4>2. \/ unremoved' = unremoved
              \/ unremoved' = [unremoved EXCEPT ![p] = @ \cup {f}]
          BY <1>12 DEF RemoveCreated
        <4> HIDE DEF f
        <4> QED
          BY <4>1, <4>2
      <3> QED
        BY <3>1, <3>2, <3>3
    <2>4. TypeOK'
      BY <1>0, <1>12, <2>3 DEF RemoveCreated, TypeOK
    <2>5. CursorInArchive'
      BY <1>0, <1>12 DEF RemoveCreated, CursorInArchive, archive
    <2> QED
      BY <2>4, <2>5
  <1>13. ASSUME NEW p \in Proc, ReturnError(p)
         PROVE  Typed'
    BY <1>0, <1>13
    DEF ReturnError, fs, TypeOK, CursorInArchive, Pc, Finished, archive
  <1>14. ASSUME NEW p \in Proc, Crash(p)
         PROVE  Typed'
    BY <1>0, <1>14
    DEF Crash, fs, TypeOK, CursorInArchive, Pc, Finished, archive
  <1>15. CASE User
    <2>1. \A f \in File : f \in Node /\ Link \in Node
      BY DEF Node, Inode, UserInode
    <2>2. dir' \in [File -> Node]
      BY <1>0, <1>15, <2>1, FoldAssumption DEF User, TypeOK
    <2>3. TypeOK'
      BY <1>0, <1>15, <2>2 DEF User, TypeOK
    <2>4. CursorInArchive'
      BY <1>0, <1>15 DEF User, CursorInArchive, archive
    <2> QED
      BY <2>3, <2>4
  <1>16. CASE UNCHANGED vars
    BY <1>0, <1>16 DEF vars, TypeOK, CursorInArchive, archive
  <1> QED
    BY <1>1, <1>2, <1>3, <1>4, <1>5, <1>6, <1>7, <1>8, <1>9, <1>10, <1>11,
       <1>12, <1>13, <1>14, <1>15, <1>16
    DEF Next, Step, Done

-----------------------------------------------------------------------------
(* Ownership: what a call remembers for cleanup is exactly what it made.   *)

Owned == CreatedOwned /\ OwnedCreated

\* The kinds of directory entries are disjoint.
LEMMA NodeFacts ==
  ASSUME NEW p \in Proc
  PROVE  /\ Absent \notin {p} \X (1..MaxLen)
         /\ Dir \notin {p} \X (1..MaxLen)
         /\ Link \notin {p} \X (1..MaxLen)
         /\ Outside \notin {p} \X (1..MaxLen)
         /\ \A f \in File : f \notin {p} \X (1..MaxLen)
         /\ {p} \X (1..MaxLen) \subseteq Inode
  BY NodesAssumption DEF Inode, OwnInode, UserInode

\* No call owns or remembers a file initially.
LEMMA OwnedInit == Init => Owned
  <1> SUFFICES ASSUME Init, NEW p \in Proc
               PROVE  /\ created[p] = <<>>
                      /\ \A f \in File : ~OwnFile(p, f)
    BY DEF Init, Owned, CreatedOwned, OwnedCreated
  <1> QED
    BY NodeFacts DEF Init, OwnFile, UserInode

\* A step that changes neither what is remembered nor who owns what.
LEMMA OwnedKept ==
  ASSUME Owned, UNCHANGED <<created, unremoved>>,
         \A q \in Proc, g \in File : OwnFile(q, g)' <=> OwnFile(q, g),
         TypeOK,
         \A q \in Proc : pc'[q] \in {"start", "failed"} => created[q] = <<>>
  PROVE  Owned'
  <1>1. CreatedOwned'
    <2> SUFFICES ASSUME NEW q \in Proc, NEW k \in 1..Len(created[q])
                 PROVE  OwnFile(q, created[q][k])'
      BY DEF Owned, CreatedOwned
    <2>1. created[q][k] \in File
      BY DEF TypeOK
    <2>2. OwnFile(q, created[q][k])
      BY DEF Owned, CreatedOwned
    <2> QED
      BY <2>1, <2>2 DEF OwnFile
  <1>2. OwnedCreated'
    BY DEF Owned, OwnedCreated
  <1> QED
    BY <1>1, <1>2 DEF Owned

\* Every step keeps what is owned and what is remembered in agreement.
LEMMA OwnedNext == Typed /\ Owned /\ [Next]_vars => Owned'
  <1> SUFFICES ASSUME Typed, Owned, [Next]_vars PROVE Owned'
    OBVIOUS
  <1>0. TypeOK /\ CursorInArchive /\ CreatedOwned /\ OwnedCreated
    BY DEF Typed, Owned
  <1>1. ASSUME NEW p \in Proc, Start(p)
        PROVE  Owned'
    <2>1. \A q \in Proc : pc'[q] \in {"start", "failed"} => created[q] = <<>>
      BY <1>0, <1>1 DEF Start, OwnedCreated, TypeOK
    <2> QED
      BY <1>0, <1>1, <2>1, OwnedKept DEF Start, fs, OwnFile
  <1>2. ASSUME UNCHANGED <<dir, created, unremoved>>,
               \A q \in Proc : pc'[q] \in {"start", "failed"} => pc'[q] = pc[q]
        PROVE  Owned'
    BY <1>0, <1>2, OwnedKept DEF OwnFile, OwnedCreated
  <1>3. ASSUME NEW p \in Proc,
               \/ HeaderPastCeiling(p) \/ EndOfArchive(p) \/ ReadEntry(p)
               \/ Stat(p) \/ OpenTruncate(p) \/ CopyBlock(p) \/ CopyDone(p)
               \/ IoError(p) \/ Crash(p)
        PROVE  Owned'
    <2>1. UNCHANGED <<dir, created, unremoved>>
      BY <1>3
      DEF HeaderPastCeiling, EndOfArchive, ReadEntry, Stat, OpenTruncate,
          CopyBlock, CopyDone, IoError, Crash, fs
    <2>2. \/ pc' = pc
          \/ \E l \in {"ok", "cleanup", "mkdir", "stat", "overwrite", "create",
                       "copy", "next", "crashed"} : pc' = [pc EXCEPT ![p] = l]
      <3>1. CASE HeaderPastCeiling(p) \/ EndOfArchive(p) \/ ReadEntry(p)
        BY <3>1 DEF HeaderPastCeiling, EndOfArchive, ReadEntry, Fail
      <3>2. CASE Stat(p) \/ OpenTruncate(p)
        BY <3>2 DEF Stat, OpenTruncate, Truncate, Fail
      <3>3. CASE CopyBlock(p) \/ CopyDone(p) \/ IoError(p) \/ Crash(p)
        BY <3>3 DEF CopyBlock, CopyDone, IoError, Crash, Fail
      <3> QED
        BY <1>3, <3>1, <3>2, <3>3
    <2>3. \A q \in Proc : pc'[q] \in {"start", "failed"} => pc'[q] = pc[q]
      BY <1>0, <2>2 DEF TypeOK
    <2> QED
      BY <1>2, <2>1, <2>3
  <1>4. ASSUME NEW p \in Proc, MakeDir(p)
        PROVE  Owned'
    <2>1. target[p] \in File
      BY <1>0, <1>4 DEF MakeDir, CursorInArchive
    <2>2. \A q \in Proc, g \in File : OwnFile(q, g)' <=> OwnFile(q, g)
      <3>1. ASSUME NEW g \in File
            PROVE  dir'[g] = dir[g] \/ (dir[g] = Absent /\ dir'[g] = Dir)
        BY <1>0, <1>4, <2>1 DEF MakeDir, TypeOK
      <3> QED
        BY <3>1, NodeFacts DEF OwnFile
    <2>3. \A q \in Proc : pc'[q] \in {"start", "failed"} => created[q] = <<>>
      BY <1>0, <1>4 DEF MakeDir, Fail, OwnedCreated, TypeOK
    <2> QED
      BY <1>0, <1>4, <2>2, <2>3, OwnedKept DEF MakeDir
  <1>5. ASSUME NEW p \in Proc, CreateNew(p)
        PROVE  Owned'
    <2>1. target[p] \in File /\ next[p] \in 1..Len(archive(p))
      BY <1>0, <1>5 DEF CreateNew, CursorInArchive, TypeOK
    <2>2. next[p] \in 1..MaxLen
      BY <1>0, <2>1, EntryFacts
    <2>3. CASE dir[target[p]] # Absent
      <3>1. UNCHANGED <<dir, created, unremoved>>
        BY <1>5, <2>3 DEF CreateNew
      <3>2. \A q \in Proc : pc'[q] \in {"start", "failed"} => pc'[q] = pc[q]
        BY <1>0, <1>5, <2>3 DEF CreateNew, Fail, TypeOK
      <3> QED
        BY <1>2, <3>1, <3>2
    <2>4. CASE dir[target[p]] = Absent
      <3> DEFINE n == Len(created[p]) + 1
      <3>0. PICK t \in File : t = target[p]
        BY <2>1
      <3>1. /\ dir' = [dir EXCEPT ![t] = <<p, next[p]>>]
            /\ created' = [created EXCEPT ![p] = Append(@, t)]
            /\ pc' = [pc EXCEPT ![p] = "copy"]
            /\ UNCHANGED unremoved
        BY <1>5, <2>4, <3>0 DEF CreateNew
      <3>2. /\ created[p] \in Seq(File)
            /\ created'[p] = Append(created[p], t)
            /\ Len(created'[p]) = n
            /\ created'[p][n] = t
            /\ \A k \in 1..Len(created[p]) : created'[p][k] = created[p][k]
        BY <1>0, <3>1 DEF TypeOK
      <3>3. \A q \in Proc \ {p} : created'[q] = created[q] /\ pc'[q] = pc[q]
        BY <1>0, <3>1 DEF TypeOK
      <3>4. \A q \in Proc, g \in File \ {t} :
              OwnFile(q, g)' <=> OwnFile(q, g)
        BY <1>0, <3>1 DEF OwnFile, TypeOK
      <3>5. /\ OwnFile(p, t)'
            /\ \A q \in Proc \ {p} : ~OwnFile(q, t)'
            /\ \A q \in Proc : ~OwnFile(q, t)
        <4>1. dir[t] = Absent /\ dir'[t] = <<p, next[p]>>
          BY <1>0, <2>4, <3>0, <3>1 DEF TypeOK
        <4> QED
          BY <2>2, <4>1, NodeFacts DEF OwnFile
      <3>6. \A q \in Proc : \A k \in 1..Len(created[q]) :
              created[q][k] \in File \ {t}
        BY <1>0, <3>5 DEF CreatedOwned, TypeOK
      <3>7. CreatedOwned'
        <4>1. ASSUME NEW q \in Proc, NEW k \in 1..Len(created'[q])
              PROVE  OwnFile(q, created[q][k])'
          <5>1. CASE q = p /\ k = n
            BY <3>2, <3>5, <5>1
          <5>2. CASE ~(q = p /\ k = n)
            <6>1. /\ k \in 1..Len(created[q])
                  /\ created'[q][k] = created[q][k]
              BY <3>2, <3>3, <5>2
            <6>2. OwnFile(q, created[q][k]) /\ created[q][k] \in File \ {t}
              BY <1>0, <3>6, <6>1 DEF CreatedOwned
            <6> QED
              BY <3>4, <6>1, <6>2 DEF OwnFile
          <5> QED
            BY <5>1, <5>2
        <4>2. ASSUME NEW q \in Proc, NEW j \in 1..Len(created'[q]),
                     NEW k \in 1..Len(created'[q]),
                     created'[q][j] = created'[q][k]
              PROVE  j = k
          <5>1. CASE q # p
            BY <1>0, <3>3, <4>2, <5>1 DEF CreatedOwned
          <5>2. CASE q = p
            <6>1. CASE j \in 1..Len(created[p]) /\ k \in 1..Len(created[p])
              BY <1>0, <3>2, <4>2, <5>2, <6>1 DEF CreatedOwned
            <6>2. CASE j = n /\ k \in 1..Len(created[p])
              BY <3>2, <3>6, <4>2, <5>2, <6>2
            <6>3. CASE k = n /\ j \in 1..Len(created[p])
              BY <3>2, <3>6, <4>2, <5>2, <6>3
            <6> QED
              BY <3>2, <4>2, <5>2, <6>1, <6>2, <6>3
          <5> QED
            BY <5>1, <5>2
        <4> QED
          BY <4>1, <4>2 DEF CreatedOwned
      <3>8. OwnedCreated'
        <4>1. ASSUME NEW q \in Proc, NEW f \in File, OwnFile(q, f)'
              PROVE  \/ f \in unremoved'[q]
                     \/ \E k \in 1..Len(created'[q]) : created'[q][k] = f
          <5>1. CASE f = t
            <6>1. q = p
              BY <3>5, <4>1, <5>1
            <6>2. n \in 1..Len(created'[p])
              BY <3>2
            <6> QED
              BY <3>2, <5>1, <6>1, <6>2
          <5>2. CASE f # t
            <6>1. \/ f \in unremoved[q]
                  \/ \E k \in 1..Len(created[q]) : created[q][k] = f
              BY <1>0, <3>4, <4>1, <5>2 DEF OwnedCreated
            <6>2. CASE f \in unremoved[q]
              BY <3>1, <6>2
            <6>3. ASSUME NEW k \in 1..Len(created[q]), created[q][k] = f
                  PROVE  \E m \in 1..Len(created'[q]) : created'[q][m] = f
              BY <3>2, <3>3, <6>3
            <6> QED
              BY <6>1, <6>2, <6>3
          <5> QED
            BY <5>1, <5>2
        <4>2. ASSUME NEW q \in Proc, pc'[q] \in {"start", "failed"}
              PROVE  created'[q] = <<>>
          <5>1. q # p
            BY <1>0, <3>1, <4>2 DEF TypeOK
          <5> QED
            BY <1>0, <3>3, <4>2, <5>1 DEF OwnedCreated
        <4> QED
          BY <4>1, <4>2 DEF OwnedCreated
      <3> QED
        BY <3>7, <3>8 DEF Owned
    <2> QED
      BY <2>3, <2>4
  <1>6. ASSUME NEW p \in Proc, RemoveCreated(p)
        PROVE  Owned'
    <2> DEFINE n == Len(created[p])
    <2>0. /\ created[p] \in Seq(File) /\ created[p] # <<>>
          /\ n \in Nat /\ n >= 1
          /\ created[p][n] \in File
      BY <1>0, <1>6 DEF RemoveCreated, TypeOK
    <2>1. PICK f \in File : f = created[p][n]
      BY <2>0
    <2>2. /\ created' = [created EXCEPT ![p] = SubSeq(@, 1, n - 1)]
          /\ pc' = pc
          /\ \/ /\ dir' = [dir EXCEPT ![f] = IF @ = Dir THEN Dir ELSE Absent]
                /\ UNCHANGED unremoved
             \/ /\ unremoved' = [unremoved EXCEPT ![p] = @ \cup {f}]
                /\ UNCHANGED dir
      BY <1>6, <2>1 DEF RemoveCreated
    <2>3. /\ created'[p] = SubSeq(created[p], 1, n - 1)
          /\ \A q \in Proc \ {p} : created'[q] = created[q]
      BY <1>0, <2>2 DEF TypeOK
    <2>4. /\ Len(created'[p]) = n - 1
          /\ \A k \in 1..(n - 1) : created'[p][k] = created[p][k]
      BY <2>0, <2>3
    <2>5. OwnFile(p, f) /\ \A q \in Proc \ {p} : ~OwnFile(q, f)
      <3>1. OwnFile(p, f)
        BY <1>0, <2>0, <2>1 DEF CreatedOwned
      <3> QED
        BY <3>1 DEF OwnFile
    <2>6. \A q \in Proc, g \in File \ {f} : OwnFile(q, g)' <=> OwnFile(q, g)
      BY <1>0, <2>1, <2>2 DEF OwnFile, TypeOK
    <2>7. /\ \A q \in Proc \ {p} : ~OwnFile(q, f)'
          /\ OwnFile(p, f)' => f \in unremoved'[p]
      <3>1. /\ dir'[f] \in {dir[f], Absent, Dir}
            /\ dir'[f] = dir[f] => f \in unremoved'[p] \/ dir[f] \in {Dir, Absent}
        BY <1>0, <2>1, <2>2 DEF TypeOK
      <3> QED
        BY <2>5, <3>1, NodeFacts DEF OwnFile
    <2>8. \A q \in Proc : unremoved[q] \subseteq unremoved'[q]
      BY <1>0, <2>2 DEF TypeOK
    <2> HIDE DEF n
    <2>9. CreatedOwned'
      <3>0. ASSUME NEW q \in Proc, NEW k \in 1..Len(created'[q])
            PROVE  k \in 1..Len(created[q]) /\ created'[q][k] = created[q][k]
        <4>1. CASE q = p
          <5>1. k \in 1..(n - 1)
            BY <2>4, <4>1
          <5>2. k \in 1..n /\ Len(created[q]) = n
            BY <2>0, <4>1, <5>1 DEF n
          <5> QED
            BY <2>4, <4>1, <5>1, <5>2
        <4>2. CASE q # p
          <5>1. created'[q] = created[q]
            BY <2>3, <4>2
          <5> QED
            BY <5>1
        <4> QED
          BY <4>1, <4>2
      <3>1. ASSUME NEW q \in Proc, NEW k \in 1..Len(created'[q])
            PROVE  OwnFile(q, created[q][k])'
        <4>1. k \in 1..Len(created[q]) /\ created'[q][k] = created[q][k]
          BY <3>0
        <4>2. OwnFile(q, created[q][k]) /\ created[q][k] \in File
          BY <1>0, <4>1 DEF CreatedOwned, TypeOK
        <4>3. created[q][k] # f
          <5>1. CASE q = p
            <6>1. k # n /\ k \in 1..n /\ n \in 1..n
              BY <2>0, <2>4, <4>1, <5>1 DEF n
            <6> QED
              BY <1>0, <2>1, <5>1, <6>1 DEF CreatedOwned, n
          <5>2. CASE q # p
            BY <2>5, <4>2, <5>2
          <5> QED
            BY <5>1, <5>2
        <4> QED
          BY <2>6, <4>1, <4>2, <4>3 DEF OwnFile
      <3>2. ASSUME NEW q \in Proc, NEW j \in 1..Len(created'[q]),
                   NEW k \in 1..Len(created'[q]),
                   created'[q][j] = created'[q][k]
            PROVE  j = k
        <4>1. /\ j \in 1..Len(created[q]) /\ created'[q][j] = created[q][j]
              /\ k \in 1..Len(created[q]) /\ created'[q][k] = created[q][k]
          BY <3>0
        <4> QED
          BY <1>0, <3>2, <4>1 DEF CreatedOwned
      <3> QED
        BY <3>1, <3>2 DEF CreatedOwned
    <2>10. OwnedCreated'
      <3>1. ASSUME NEW q \in Proc, NEW g \in File, OwnFile(q, g)'
            PROVE  \/ g \in unremoved'[q]
                   \/ \E k \in 1..Len(created'[q]) : created'[q][k] = g
        <4>1. CASE g = f
          BY <2>7, <3>1, <4>1
        <4>2. CASE g # f
          <5>1. \/ g \in unremoved[q]
                \/ \E k \in 1..Len(created[q]) : created[q][k] = g
            BY <1>0, <2>6, <3>1, <4>2 DEF OwnedCreated
          <5>2. ASSUME NEW k \in 1..Len(created[q]), created[q][k] = g
                PROVE  \E m \in 1..Len(created'[q]) : created'[q][m] = g
            <6>1. CASE q # p
              BY <2>3, <5>2, <6>1
            <6>2. CASE q = p
              <7>1. k # n
                BY <2>1, <4>2, <5>2, <6>2
              <7>2. k \in 1..(n - 1)
                BY <2>0, <6>2, <7>1 DEF n
              <7> QED
                BY <2>4, <5>2, <6>2, <7>2
            <6> QED
              BY <6>1, <6>2
          <5> QED
            BY <2>8, <5>1, <5>2
        <4> QED
          BY <4>1, <4>2
      <3>2. ASSUME NEW q \in Proc, pc'[q] \in {"start", "failed"}
            PROVE  created'[q] = <<>>
        <4>1. pc[p] = "cleanup"
          BY <1>6 DEF RemoveCreated
        <4> QED
          BY <1>0, <2>2, <2>3, <3>2, <4>1 DEF OwnedCreated
      <3> QED
        BY <3>1, <3>2 DEF OwnedCreated
    <2> QED
      BY <2>9, <2>10 DEF Owned
  <1>7. ASSUME NEW p \in Proc, ReturnError(p)
        PROVE  Owned'
    <2>1. \A q \in Proc : pc'[q] \in {"start", "failed"} => created[q] = <<>>
      BY <1>0, <1>7 DEF ReturnError, OwnedCreated, TypeOK
    <2> QED
      BY <1>0, <1>7, <2>1, OwnedKept DEF ReturnError, fs, OwnFile
  <1>8. CASE User
    <2>1. \A q \in Proc, g \in File : OwnFile(q, g)' <=> OwnFile(q, g)
      <3>1. PICK f \in File :
              \/ dir[f] = Absent /\ dir' = [dir EXCEPT ![f] = f]
              \/ dir[f] = Absent /\ dir' = [dir EXCEPT ![f] = Link]
              \/ dir[f] = f /\ dir' = [dir EXCEPT ![f] = Link]
        BY <1>8, FoldAssumption DEF User
      <3>2. /\ dir[f] \in {Absent, f} /\ dir'[f] \in {f, Link}
            /\ \A g \in File \ {f} : dir'[g] = dir[g]
        BY <1>0, <3>1 DEF TypeOK
      <3> QED
        BY <3>2, NodeFacts DEF OwnFile
    <2> QED
      BY <1>0, <1>8, <2>1, OwnedKept DEF User, OwnedCreated
  <1>9. CASE UNCHANGED vars
    BY <1>2, <1>9 DEF vars
  <1> QED
    BY <1>1, <1>3, <1>4, <1>5, <1>6, <1>7, <1>8, <1>9 DEF Next, Step, Done

-----------------------------------------------------------------------------
(* The user's bytes.                                                       *)

Kept == HandleOwned /\ UserFilesKept

\* The user's files are as he made them initially.
LEMMA KeptInit == Init => Kept
  <1> SUFFICES ASSUME Init PROVE Kept
    OBVIOUS
  <1>1. HandleOwned
    BY DEF Init, HandleOwned
  <1>2. UserFilesKept
    <2> SUFFICES ASSUME NEW u \in UserInode \cup {Outside}
                 PROVE  content[u] = Original(u)
      BY DEF UserFilesKept
    <2>1. u \in Inode /\ u \notin OwnInode
      BY NodesAssumption DEF Inode
    <2> QED
      BY <2>1 DEF Init
  <1> QED
    BY <1>1, <1>2 DEF Kept

\* A step that opens nothing and writes nothing.
LEMMA KeptQuiet ==
  ASSUME Kept, UNCHANGED <<content, req>>,
         \A q \in Proc :
           \/ pc'[q] = pc[q] /\ handle'[q] = handle[q]
           \/ pc'[q] \notin {"overwrite", "copy"}
  PROVE  Kept'
  BY DEF Kept, HandleOwned, UserFilesKept, NoOverwrite, limits

\* Every step of calls that may not overwrite keeps the user's files.
LEMMA KeptNext == Typed /\ Kept /\ [Next]_vars => Kept'
  <1> SUFFICES ASSUME Typed, Kept, [Next]_vars PROVE Kept'
    OBVIOUS
  <1>0. TypeOK /\ CursorInArchive /\ HandleOwned /\ UserFilesKept
    BY DEF Typed, Kept
  <1>1. ASSUME NEW p \in Proc,
               \/ Start(p) \/ HeaderPastCeiling(p) \/ EndOfArchive(p)
               \/ ReadEntry(p) \/ MakeDir(p) \/ CopyDone(p) \/ IoError(p)
               \/ RemoveCreated(p) \/ ReturnError(p) \/ Crash(p)
        PROVE  Kept'
    <2>1. UNCHANGED <<content, req>>
      BY <1>1
      DEF Start, HeaderPastCeiling, EndOfArchive, ReadEntry, MakeDir, CopyDone,
          IoError, RemoveCreated, ReturnError, Crash, fs
    <2>2. \/ pc' = pc /\ handle' = handle
          \/ \E l \in {"next", "failed", "cleanup", "ok", "mkdir", "stat",
                       "crashed"} :
               /\ pc' = [pc EXCEPT ![p] = l]
               /\ handle' \in {handle, [handle EXCEPT ![p] = Absent]}
      <3>1. CASE Start(p) \/ HeaderPastCeiling(p) \/ EndOfArchive(p)
        BY <3>1 DEF Start, HeaderPastCeiling, EndOfArchive, Fail
      <3>2. CASE ReadEntry(p) \/ MakeDir(p)
        BY <3>2 DEF ReadEntry, MakeDir, Fail
      <3>3. CASE CopyDone(p) \/ IoError(p) \/ RemoveCreated(p)
                   \/ ReturnError(p) \/ Crash(p)
        BY <3>3 DEF CopyDone, IoError, RemoveCreated, ReturnError, Crash, Fail
      <3> QED
        BY <1>1, <3>1, <3>2, <3>3
    <2>3. \A q \in Proc :
            \/ pc'[q] = pc[q] /\ handle'[q] = handle[q]
            \/ pc'[q] \notin {"overwrite", "copy"}
      BY <1>0, <2>2 DEF TypeOK
    <2> QED
      BY <2>1, <2>3, KeptQuiet
  <1>2. ASSUME NEW p \in Proc, Stat(p)
        PROVE  Kept'
    <2>1. UNCHANGED <<content, req>>
      BY <1>2 DEF Stat, fs
    <2>2. HandleOwned'
      <3> SUFFICES ASSUME NEW q \in Proc, ~limits(q).allow_overwrite
                   PROVE  /\ pc'[q] # "overwrite"
                          /\ pc'[q] = "copy" =>
                               handle'[q] \in {q} \X (1..MaxLen)
        BY <2>1 DEF HandleOwned, limits
      <3>0. /\ pc[q] # "overwrite"
            /\ pc[q] = "copy" => handle[q] \in {q} \X (1..MaxLen)
        BY <1>0 DEF HandleOwned
      <3>1. CASE q # p
        BY <1>0, <1>2, <3>0, <3>1 DEF Stat, Fail, TypeOK
      <3>2. CASE q = p
        <4>1. pc' = [pc EXCEPT ![p] = "cleanup"] \/ pc' = [pc EXCEPT ![p] = "create"]
          BY <1>2, <3>2 DEF Stat, Fail
        <4> QED
          BY <1>0, <3>2, <4>1 DEF TypeOK
      <3> QED
        BY <3>1, <3>2
    <2> QED
      BY <1>0, <2>1, <2>2 DEF Kept, UserFilesKept, NoOverwrite, limits
  <1>3. ASSUME NEW p \in Proc, CreateNew(p)
        PROVE  Kept'
    <2>1. UNCHANGED <<content, req>>
      BY <1>3 DEF CreateNew
    <2>2. next[p] \in 1..MaxLen
      <3>1. next[p] \in 1..Len(archive(p))
        BY <1>0, <1>3 DEF CreateNew, CursorInArchive, TypeOK
      <3> QED
        BY <1>0, <3>1, EntryFacts
    <2>3. HandleOwned'
      <3> SUFFICES ASSUME NEW q \in Proc, ~limits(q).allow_overwrite
                   PROVE  /\ pc'[q] # "overwrite"
                          /\ pc'[q] = "copy" =>
                               handle'[q] \in {q} \X (1..MaxLen)
        BY <2>1 DEF HandleOwned, limits
      <3>0. /\ pc[q] # "overwrite"
            /\ pc[q] = "copy" => handle[q] \in {q} \X (1..MaxLen)
        BY <1>0 DEF HandleOwned
      <3>1. q # p => pc'[q] = pc[q] /\ handle'[q] = handle[q]
        BY <1>0, <1>3 DEF CreateNew, Fail, TypeOK
      <3>2. \/ pc'[p] = "copy" /\ handle'[p] = <<p, next[p]>>
            \/ pc'[p] = "cleanup"
        BY <1>0, <1>3 DEF CreateNew, Fail, TypeOK
      <3> QED
        BY <2>2, <3>0, <3>1, <3>2
    <2> QED
      BY <1>0, <2>1, <2>3 DEF Kept, UserFilesKept, NoOverwrite, limits
  <1>4. ASSUME NEW p \in Proc, OpenTruncate(p)
        PROVE  Kept'
    <2>1. limits(p).allow_overwrite /\ UNCHANGED req
      BY <1>0, <1>4 DEF OpenTruncate, HandleOwned
    <2>2. ~NoOverwrite'
      BY <2>1 DEF NoOverwrite, limits
    <2>3. \A q \in Proc \ {p} : pc'[q] = pc[q] /\ handle'[q] = handle[q]
      BY <1>0, <1>4 DEF OpenTruncate, Truncate, Fail, TypeOK
    <2>4. HandleOwned'
      BY <1>0, <2>1, <2>3 DEF HandleOwned, limits
    <2> QED
      BY <2>2, <2>4 DEF Kept, UserFilesKept
  <1>5. ASSUME NEW p \in Proc, CopyBlock(p)
        PROVE  Kept'
    <2>1. UNCHANGED req /\ pc[p] = "copy"
      BY <1>5 DEF CopyBlock
    <2>2. HandleOwned'
      <3>1. \A q \in Proc :
              \/ pc'[q] = pc[q] /\ handle'[q] = handle[q]
              \/ pc'[q] = "cleanup"
        BY <1>0, <1>5 DEF CopyBlock, Fail, TypeOK
      <3> QED
        BY <1>0, <2>1, <3>1 DEF HandleOwned, limits
    <2>3. UserFilesKept'
      <3> SUFFICES ASSUME NoOverwrite, NEW u \in UserInode \cup {Outside}
                   PROVE  content'[u] = Original(u)
        BY <2>1 DEF UserFilesKept, NoOverwrite, limits
      <3>1. content[u] = Original(u)
        BY <1>0 DEF UserFilesKept
      <3>2. handle[p] \in {p} \X (1..MaxLen)
        BY <1>0, <2>1 DEF HandleOwned, NoOverwrite
      <3>3. handle[p] # u /\ u \in Inode
        BY <3>2, NodesAssumption DEF OwnInode, Inode
      <3> DEFINE w == WriteAt(content[handle[p]], pos[p], <<p, next[p]>>)
      <3>4. content' = content \/ content' = [content EXCEPT ![handle[p]] = w]
        BY <1>5 DEF CopyBlock
      <3> HIDE DEF w
      <3>5. content'[u] = content[u]
        BY <1>0, <3>3, <3>4 DEF TypeOK
      <3> QED
        BY <3>1, <3>5
    <2> QED
      BY <2>2, <2>3 DEF Kept
  <1>6. CASE User
    BY <1>6, KeptQuiet DEF User
  <1>7. CASE UNCHANGED vars
    BY <1>7, KeptQuiet DEF vars
  <1> QED
    BY <1>1, <1>2, <1>3, <1>4, <1>5, <1>6, <1>7 DEF Next, Step, Done

-----------------------------------------------------------------------------
\* IndInv holds throughout: it holds initially and every step keeps it.
THEOREM Invariance == Spec => []IndInv
  <1>1. IndInv <=> Typed /\ Owned /\ Kept
    BY DEF IndInv, Typed, Owned, Kept
  <1>2. Init => IndInv
    BY <1>1, TypedInit, OwnedInit, KeptInit
  <1>3. IndInv /\ [Next]_vars => IndInv'
    <2> SUFFICES ASSUME IndInv, [Next]_vars PROVE IndInv'
      OBVIOUS
    <2>1. Typed' /\ Owned' /\ Kept'
      BY <1>1, TypedNext, OwnedNext, KeptNext
    <2> QED
      BY <2>1 DEF IndInv, Typed, Owned, Kept
  <1> QED
    BY <1>2, <1>3, PTL DEF Spec

\* Every variable keeps its type: in particular a handle is an inode that
\* exists and an entry index is one of the archive.
THEOREM TypeCorrect == Spec => []TypeOK
  <1>1. IndInv => TypeOK
    BY DEF IndInv
  <1> QED
    BY <1>1, Invariance, PTL

\* Without allow_overwrite, no byte of the user's is changed by any number of
\* calls, whatever they are given and however they interleave, fail or die.
THEOREM UserFilesSafe == Spec => []UserFilesKept
  <1>1. IndInv => UserFilesKept
    BY DEF IndInv
  <1> QED
    BY <1>1, Invariance, PTL

\* A call that has returned an error has left no file behind, except those it
\* could not remove.
THEOREM FailureClean == Spec => []FailureLeavesNothing
  <1>1. IndInv => FailureLeavesNothing
    <2> SUFFICES ASSUME IndInv, NEW p \in Proc, pc[p] = "failed",
                        NEW f \in File, OwnFile(p, f)
                 PROVE  f \in unremoved[p]
      BY DEF FailureLeavesNothing
    <2>1. created[p] = <<>>
      BY DEF IndInv, OwnedCreated
    <2>2. \/ f \in unremoved[p]
          \/ \E k \in 1..Len(created[p]) : created[p][k] = f
      BY DEF IndInv, OwnedCreated
    <2> QED
      BY <2>1, <2>2
  <1> QED
    BY <1>1, Invariance, PTL

\* No call ever removes the user's file, whether it may overwrite or not.
THEOREM UserFilesStay == Spec => UserFilesNeverRemoved
  <1> DEFINE Stays ==
        \A f \in File : dir[f] \in UserInode => dir'[f] \in {dir[f], Link}
  <1>1. IndInv /\ [Next]_vars => [Stays]_vars
    <2> SUFFICES ASSUME IndInv, [Next]_vars, NEW f \in File, dir[f] \in UserInode
                 PROVE  dir'[f] \in {dir[f], Link}
      BY DEF Stays
    <2>0. TypeOK /\ CursorInArchive /\ CreatedOwned
      BY DEF IndInv
    <2>1. /\ dir[f] \notin {Absent, Dir, Link}
          /\ \A p \in Proc : ~OwnFile(p, f)
      BY NodesAssumption DEF OwnFile, OwnInode, Inode
    <2>2. ASSUME NEW p \in Proc,
                 \/ Start(p) \/ HeaderPastCeiling(p) \/ EndOfArchive(p)
                 \/ ReadEntry(p) \/ Stat(p) \/ OpenTruncate(p)
                 \/ CopyBlock(p) \/ CopyDone(p) \/ ReturnError(p)
                 \/ IoError(p) \/ Crash(p)
          PROVE  dir' = dir
      BY <2>2
      DEF Start, HeaderPastCeiling, EndOfArchive, ReadEntry, Stat,
          OpenTruncate, CopyBlock, CopyDone, ReturnError, IoError, Crash, fs
    <2>3. ASSUME NEW p \in Proc, MakeDir(p) \/ CreateNew(p)
          PROVE  dir'[f] = dir[f]
      <3>1. target[p] \in File
        BY <2>0, <2>3 DEF MakeDir, CreateNew, CursorInArchive
      <3> QED
        BY <2>0, <2>1, <2>3, <3>1 DEF MakeDir, CreateNew, TypeOK
    <2>4. ASSUME NEW p \in Proc, RemoveCreated(p)
          PROVE  dir'[f] = dir[f]
      <3>1. PICK g \in File : g = created[p][Len(created[p])]
        BY <2>0, <2>4 DEF RemoveCreated, TypeOK
      <3>2. OwnFile(p, g)
        BY <2>0, <2>4, <3>1 DEF RemoveCreated, CreatedOwned, TypeOK
      <3>3. \/ dir' = [dir EXCEPT ![g] = IF @ = Dir THEN Dir ELSE Absent]
            \/ dir' = dir
        BY <2>4, <3>1 DEF RemoveCreated
      <3>4. f # g
        BY <2>1, <3>2
      <3> QED
        BY <2>0, <3>3, <3>4 DEF TypeOK
    <2>5. CASE User
      BY <2>0, <2>1, <2>5 DEF User, TypeOK
    <2>6. CASE UNCHANGED vars
      BY <2>6 DEF vars
    <2> QED
      BY <2>2, <2>3, <2>4, <2>5, <2>6 DEF Next, Step, Done
  <1> QED
    BY <1>1, Invariance, PTL DEF Spec, UserFilesNeverRemoved
=============================================================================
