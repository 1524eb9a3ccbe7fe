-------------------------- MODULE ExtractionProofs ---------------------------
(* What extraction delivers, for any number of calls, any archives, limits   *)
(* and names: how much it writes, what becomes of the files it reports, that *)
(* it is all or nothing, and that it judges an archive as the other readers  *)
(* do.                                                                       *)
EXTENDS UnpackProofs, Verdicts, LoopProofs, FiniteSetTheorems

-----------------------------------------------------------------------------
(* How much is written.                                                    *)

\* The blocks of a call in any contents.
Copied(c, p) ==
  UNION { {<<i, j>> : j \in {k \in DOMAIN c[i] : c[i][k] \in {p} \X (1..MaxLen)}}
          : i \in Inode }

\* Membership.
LEMMA CopiedIs ==
  ASSUME NEW c, NEW p, NEW x
  PROVE  x \in Copied(c, p) <=>
           \E i \in Inode : \E j \in DOMAIN c[i] :
             x = <<i, j>> /\ c[i][j] \in {p} \X (1..MaxLen)
  BY DEF Copied

\* A write adds at most the one block to those of its call, and none to others'.
LEMMA CopiedByWrite ==
  ASSUME NEW c \in [Inode -> Seq(Inode \cup {Hole})], NEW h \in Inode,
         NEW offset \in Nat, NEW q \in Proc, NEW n, NEW p \in Proc
  PROVE  Copied([c EXCEPT ![h] = WriteAt(c[h], offset, <<q, n>>)], p)
           \subseteq Copied(c, p) \cup (IF p = q THEN {<<h, offset + 1>>} ELSE {})
  <1> DEFINE w == WriteAt(c[h], offset, <<q, n>>)
             d == [c EXCEPT ![h] = w]
             mine == {p} \X (1..MaxLen)
  <1>1. \A i \in Inode : d[i] = IF i = h THEN w ELSE c[i]
    OBVIOUS
  <1>2. c[h] \in Seq(Inode \cup {Hole})
    OBVIOUS
  <1>3. Hole \notin mine
    BY NodesAssumption DEF Inode, OwnInode
  <1>4. ASSUME NEW j \in DOMAIN w, w[j] \in mine
        PROVE  \/ j \in DOMAIN c[h] /\ w[j] = c[h][j]
               \/ p = q /\ j = offset + 1
    <2>1. Len(c[h]) \in Nat /\ DOMAIN c[h] = 1..Len(c[h])
      BY <1>2
    <2>2. /\ j \in 1..(IF Len(c[h]) > offset THEN Len(c[h]) ELSE offset + 1)
          /\ w[j] = IF j = offset + 1 THEN <<q, n>>
                    ELSE IF j <= Len(c[h]) THEN c[h][j] ELSE Hole
      BY DEF WriteAt
    <2>3. j \in Nat /\ j >= 1
      BY <2>1, <2>2
    <2> HIDE DEF w
    <2>4. CASE j = offset + 1
      BY <1>4, <2>2, <2>4
    <2>5. CASE j # offset + 1 /\ j <= Len(c[h])
      <3>1. j \in DOMAIN c[h]
        BY <2>1, <2>3, <2>5
      <3> QED
        BY <2>2, <2>5, <3>1
    <2>6. CASE j # offset + 1 /\ ~(j <= Len(c[h]))
      BY <1>3, <1>4, <2>2, <2>6
    <2> QED
      BY <2>4, <2>5, <2>6
  <1> HIDE DEF w, d
  <1>5. ASSUME NEW x \in Copied(d, p)
        PROVE  x \in Copied(c, p) \/ (p = q /\ x = <<h, offset + 1>>)
    <2>1. PICK i \in Inode : \E j \in DOMAIN d[i] : x = <<i, j>> /\ d[i][j] \in mine
      BY CopiedIs
    <2>2. PICK j \in DOMAIN d[i] : x = <<i, j>> /\ d[i][j] \in mine
      BY <2>1
    <2>3. CASE i = h
      <3>1. \/ j \in DOMAIN c[h] /\ w[j] = c[h][j]
            \/ p = q /\ j = offset + 1
        BY <1>1, <1>4, <2>2, <2>3
      <3> QED
        BY <1>1, <2>2, <2>3, <3>1, CopiedIs
    <2>4. CASE i # h
      BY <1>1, <2>2, <2>4, CopiedIs
    <2> QED
      BY <2>3, <2>4
  <1> QED
    BY <1>5 DEF d, w

\* A call has read every block that it has written, within its ceiling.
Inflated ==
  \A p \in Proc :
    /\ IsFiniteSet(WrittenBy(p))
    /\ Cardinality(WrittenBy(p)) <= read[p]
    /\ Cardinality(WrittenBy(p)) <= Ceiling(p)

LEMMA WrittenIsCopied == \A p \in Proc : WrittenBy(p) = Copied(content, p)
  BY DEF WrittenBy, Copied

LEMMA InflatedInit == Init => Inflated
  <1> SUFFICES ASSUME Init, NEW p \in Proc
               PROVE  /\ IsFiniteSet(WrittenBy(p))
                      /\ Cardinality(WrittenBy(p)) <= read[p]
                      /\ Cardinality(WrittenBy(p)) <= Ceiling(p)
    BY DEF Inflated
  <1>1. Ceiling(p) \in Nat
    BY TypedInit, CeilingType DEF Typed
  <1>2. ASSUME NEW i \in Inode, NEW j \in DOMAIN content[i]
        PROVE  content[i][j] \notin {p} \X (1..MaxLen)
    <2>1. CASE i \in OwnInode
      BY <1>2, <2>1 DEF Init
    <2>2. CASE i \notin OwnInode
      <3>1. content[i] = <<i>>
        BY <2>2 DEF Init, Original
      <3>2. content[i][j] = i
        BY <3>1
      <3> QED
        BY <2>2, <3>2 DEF OwnInode
    <2> QED
      BY <2>1, <2>2
  <1>3. WrittenBy(p) = {}
    BY <1>2, CopiedIs, WrittenIsCopied
  <1>4. read[p] = 0
    BY DEF Init
  <1> QED
    BY <1>1, <1>3, <1>4, FS_EmptySet

\* A step that reads on and writes nothing, or makes a file empty.
LEMMA InflatedQuiet ==
  ASSUME Typed, Typed', Inflated, UNCHANGED req,
         \A q \in Proc : read'[q] >= read[q],
         \/ UNCHANGED content
         \/ \E i \in Inode : content' = [content EXCEPT ![i] = <<>>]
  PROVE  Inflated'
  <1> SUFFICES ASSUME NEW p \in Proc
               PROVE  /\ IsFiniteSet(WrittenBy(p)')
                      /\ Cardinality(WrittenBy(p)') <= read'[p]
                      /\ Cardinality(WrittenBy(p)') <= Ceiling(p)'
    BY DEF Inflated
  <1>1. /\ WrittenBy(p) = Copied(content, p) /\ WrittenBy(p)' = Copied(content', p)
    BY DEF WrittenBy, Copied
  <1>2. Copied(content', p) \subseteq Copied(content, p)
    <2>1. CASE UNCHANGED content
      BY <2>1
    <2>2. ASSUME NEW h \in Inode, content' = [content EXCEPT ![h] = <<>>]
          PROVE  Copied(content', p) \subseteq Copied(content, p)
      <3>1. \A i \in Inode : content'[i] = IF i = h THEN <<>> ELSE content[i]
        BY <2>2 DEF Typed, TypeOK
      <3>2. ASSUME NEW x \in Copied(content', p) PROVE x \in Copied(content, p)
        <4>1. PICK i \in Inode : \E j \in DOMAIN content'[i] :
                x = <<i, j>> /\ content'[i][j] \in {p} \X (1..MaxLen)
          BY CopiedIs
        <4>2. i # h
          BY <3>1, <4>1
        <4> QED
          BY <3>1, <4>1, <4>2, CopiedIs
      <3> QED
        BY <3>2
    <2> QED
      BY <2>1, <2>2
  <1>3. /\ IsFiniteSet(WrittenBy(p)) /\ Cardinality(WrittenBy(p)) <= read[p]
        /\ Cardinality(WrittenBy(p)) <= Ceiling(p)
    BY DEF Inflated
  <1>4. /\ IsFiniteSet(WrittenBy(p)') /\ Cardinality(WrittenBy(p)') <= Cardinality(WrittenBy(p))
        /\ Cardinality(WrittenBy(p)) \in Nat /\ Cardinality(WrittenBy(p)') \in Nat
    BY <1>1, <1>2, <1>3, FS_Subset, FS_CardinalityType
  <1>5. /\ read[p] \in Nat /\ read'[p] \in Nat /\ read'[p] >= read[p]
        /\ Ceiling(p) \in Nat /\ Ceiling(p)' = Ceiling(p)
    BY CeilingType DEF Typed, TypeOK, Ceiling, limits
  <1> QED
    BY <1>3, <1>4, <1>5

LEMMA InflatedNext ==
  ASSUME Typed, Typed', Inflated, [Next]_vars
  PROVE  Inflated'
  <1>0. TypeOK /\ CursorInArchive
    BY DEF Typed
  <1>1. \A q \in Proc : read[q] \in Nat
    BY <1>0 DEF TypeOK
  <1>2. ASSUME NEW p \in Proc,
               \/ Start(p) \/ MakeDir(p) \/ Stat(p) \/ CreateNew(p) \/ CopyDone(p)
               \/ RemoveCreated(p) \/ ReturnError(p) \/ IoError(p) \/ Crash(p)
        PROVE  Inflated'
    <2>1. UNCHANGED <<content, req, read>>
      BY <1>2 DEF Start, MakeDir, Stat, CreateNew, CopyDone, RemoveCreated,
         ReturnError, IoError, Crash, fs
    <2> QED
      BY <1>1, <2>1, InflatedQuiet
  <1>3. ASSUME NEW p \in Proc, HeaderPastCeiling(p) \/ EndOfArchive(p) \/ ReadEntry(p)
        PROVE  Inflated'
    <2>1. UNCHANGED <<content, req>> /\ read' = [read EXCEPT ![p] = HeaderRead(p)]
      BY <1>3 DEF HeaderPastCeiling, EndOfArchive, ReadEntry, fs
    <2>2. \A q \in Proc : read'[q] >= read[q]
      <3>1. HeaderRead(p) >= read[p]
        BY <1>0, HeaderReadType DEF CursorInArchive
      <3> QED
        BY <1>0, <1>1, <2>1, <3>1 DEF TypeOK
    <2> QED
      BY <2>1, <2>2, InflatedQuiet
  <1>4. ASSUME NEW p \in Proc, OpenTruncate(p)
        PROVE  Inflated'
    <2>1. UNCHANGED <<req, read>>
      BY <1>4 DEF OpenTruncate
    <2>2. \/ UNCHANGED content
          \/ \E i \in Inode : content' = [content EXCEPT ![i] = <<>>]
      BY <1>4 DEF OpenTruncate, Truncate, Inode
    <2> QED
      BY <1>1, <2>1, <2>2, InflatedQuiet
  <1>5. ASSUME NEW p \in Proc, CopyBlock(p)
        PROVE  Inflated'
    <2>1. /\ UNCHANGED req /\ read' = [read EXCEPT ![p] = read[p] + 1]
          /\ pc[p] = "copy" /\ handle[p] \in Inode /\ pos[p] \in Nat
      BY <1>0, <1>5 DEF CopyBlock, TypeOK, CursorInArchive
    <2>2. /\ \A q \in Proc : read'[q] >= read[q]
          /\ read'[p] = read[p] + 1 /\ \A q \in Proc : q # p => read'[q] = read[q]
      BY <1>0, <1>1, <2>1 DEF TypeOK
    <2>3. CASE UNCHANGED content
      BY <2>1, <2>2, <2>3, InflatedQuiet
    <2>4. CASE /\ read[p] + 1 <= Ceiling(p)
               /\ content' = [content EXCEPT ![handle[p]] =
                                WriteAt(content[handle[p]], pos[p], <<p, next[p]>>)]
      <3> SUFFICES ASSUME NEW q \in Proc
                   PROVE  /\ IsFiniteSet(WrittenBy(q)')
                          /\ Cardinality(WrittenBy(q)') <= read'[q]
                          /\ Cardinality(WrittenBy(q)') <= Ceiling(q)'
        BY DEF Inflated
      <3> DEFINE old == WrittenBy(q)
                 new == WrittenBy(q)'
                 block == <<handle[p], pos[p] + 1>>
      <3>1. new = Copied(content', q) /\ old = Copied(content, q)
        BY DEF WrittenBy, Copied
      <3>2. content \in [Inode -> Seq(Inode \cup {Hole})]
        BY <1>0 DEF TypeOK
      <3>3. new \subseteq old \cup (IF q = p THEN {block} ELSE {})
        <4> DEFINE h == handle[p]
                   at == pos[p]
                   n == next[p]
        <4>1. h \in Inode /\ at \in Nat
          BY <2>1
        <4> HIDE DEF h, at, n
        <4>2. Copied([content EXCEPT ![h] = WriteAt(content[h], at, <<p, n>>)], q)
                \subseteq Copied(content, q) \cup (IF q = p THEN {<<h, at + 1>>} ELSE {})
          BY <3>2, <4>1, CopiedByWrite
        <4> QED
          BY <2>4, <3>1, <4>2 DEF h, at, n
      <3>4. IsFiniteSet(old) /\ Cardinality(old) <= read[q] /\ Cardinality(old) <= Ceiling(q)
        BY DEF Inflated
      <3>5. /\ read[q] \in Nat /\ Ceiling(q) \in Nat /\ Ceiling(q)' = Ceiling(q)
            /\ Cardinality(old) \in Nat
        BY <1>0, <1>1, <2>1, <3>4, CeilingType, FS_CardinalityType
           DEF Ceiling, limits
      <3> HIDE DEF old, new, block
      <3>6. CASE q # p
        <4>1. new \subseteq old
          BY <3>3, <3>6
        <4>2. IsFiniteSet(new) /\ Cardinality(new) <= Cardinality(old) /\ Cardinality(new) \in Nat
          BY <3>4, <4>1, FS_Subset, FS_CardinalityType
        <4>3. read'[q] = read[q]
          BY <2>2, <3>6
        <4> QED
          BY <3>4, <3>5, <4>2, <4>3 DEF new
      <3>7. CASE q = p
        <4>1. new \subseteq old \cup {block}
          BY <3>3, <3>7
        <4>2. /\ IsFiniteSet(old \cup {block}) /\ Cardinality(old \cup {block}) \in Nat
              /\ Cardinality(old \cup {block}) <= Cardinality(old) + 1
          <5>1. /\ IsFiniteSet(old \cup {block})
                /\ \/ Cardinality(old \cup {block}) = Cardinality(old)
                   \/ Cardinality(old \cup {block}) = Cardinality(old) + 1
            BY <3>4, FS_AddElement
          <5> QED
            BY <3>5, <5>1
        <4>3. /\ IsFiniteSet(new) /\ Cardinality(new) \in Nat
              /\ Cardinality(new) <= Cardinality(old \cup {block})
          BY <4>1, <4>2, FS_Subset, FS_CardinalityType
        <4>4. read'[q] = read[q] + 1 /\ read[q] + 1 <= Ceiling(q)
          BY <2>2, <2>4, <3>7
        <4> QED
          BY <3>4, <3>5, <4>2, <4>3, <4>4 DEF new
      <3> QED
        BY <3>6, <3>7
    <2> QED
      BY <1>5, <2>3, <2>4 DEF CopyBlock
  <1>6. CASE User \/ Done \/ UNCHANGED vars
    <2>1. UNCHANGED <<content, req, read>>
      BY <1>6 DEF User, Done, vars
    <2> QED
      BY <1>1, <2>1, InflatedQuiet
  <1> QED
    BY <1>2, <1>3, <1>4, <1>5, <1>6 DEF Next, Step

\* The ceiling is under both caps (LimitedReader::new).
LEMMA CeilingCaps ==
  ASSUME NEW compressed \in Nat, NEW lim \in LimitsType
  PROVE  /\ InflateCeiling(compressed, lim) <= lim.max_uncompressed_bytes
         /\ \/ InflateCeiling(compressed, lim) <= RatioFloor
            \/ InflateCeiling(compressed, lim) <= compressed * lim.max_compression_ratio
  <1> DEFINE max == lim.max_uncompressed_bytes
             x == compressed * lim.max_compression_ratio
             product == SaturatingMul(compressed, lim.max_compression_ratio)
             cap == IF product > RatioFloor THEN product ELSE RatioFloor
  <1>1. max \in Nat /\ lim.max_compression_ratio \in Nat
    BY DEF LimitsType
  <1>2. x \in Nat
    BY <1>1
  <1>3. product = IF x > U64Max THEN U64Max ELSE x
    BY DEF SaturatingMul
  <1>4. InflateCeiling(compressed, lim) = IF cap < max THEN cap ELSE max
    BY DEF InflateCeiling
  <1> HIDE DEF max, x, product
  <1>5. product \in Nat /\ product <= x
    BY <1>2, <1>3, U64MaxAssumption
  <1>6. /\ (IF cap < max THEN cap ELSE max) <= max
        /\ \/ (IF cap < max THEN cap ELSE max) <= RatioFloor
           \/ (IF cap < max THEN cap ELSE max) <= x
    BY <1>1, <1>2, <1>5, RatioFloorAssumption
  <1> QED
    BY <1>4, <1>6 DEF max, x

LEMMA InflatedAlways == Spec => []Inflated
  <1>1. IndInv => Typed
    BY DEF IndInv, Typed
  <1>2. Typed /\ Typed' /\ Inflated /\ [Next]_vars => Inflated'
    BY InflatedNext
  <1> QED
    BY <1>1, <1>2, Invariance, InflatedInit, PTL DEF Spec

\* However its archive is made, a payload puts no more on disk than the absolute
\* cap, and no more than its compressed length times the ratio unless that is
\* under the floor (LimitedReader, inflate_ceiling).
THEOREM InflationBounded == Spec => []BoundedInflation
  <1>1. IndInv /\ Inflated => BoundedInflation
    <2> SUFFICES ASSUME IndInv, Inflated, NEW p \in Proc
                 PROVE  LET written == Cardinality(WrittenBy(p)) IN
                        /\ written <= limits(p).max_uncompressed_bytes
                        /\ \/ written <= RatioFloor
                           \/ written <= req[p].compressed * limits(p).max_compression_ratio
      BY DEF BoundedInflation
    <2> DEFINE n == Cardinality(WrittenBy(p))
               x == req[p].compressed * limits(p).max_compression_ratio
               max == limits(p).max_uncompressed_bytes
               c == Ceiling(p)
    <2>1. limits(p) \in LimitsType /\ req[p].compressed \in Nat /\ c \in Nat
      BY RequestFacts, CeilingType DEF IndInv
    <2>2. c <= max /\ (c <= RatioFloor \/ c <= x)
      BY <2>1, CeilingCaps DEF Ceiling
    <2>3. n \in Nat /\ n <= c
      BY FS_CardinalityType DEF Inflated
    <2>4. max \in Nat /\ limits(p).max_compression_ratio \in Nat
      BY <2>1 DEF LimitsType
    <2>5. x \in Nat
      BY <2>1, <2>4
    <2> HIDE DEF n, x, max, c
    <2>6. n <= max /\ (n <= RatioFloor \/ n <= x)
      BY <2>1, <2>2, <2>3, <2>4, <2>5, RatioFloorAssumption
    <2> QED
      BY <2>6 DEF n, x, max
  <1> QED
    BY <1>1, Invariance, InflatedAlways, PTL

-----------------------------------------------------------------------------
(* How a step changes the directory.                                       *)

\* An entry that has had its turn has had it for good.
LEMMA UsedGrows ==
  ASSUME Typed, Typed', [Next]_vars, NEW p \in Proc, NEW i \in 1..MaxLen, Used(p, i)
  PROVE  Used(p, i)'
  <1>0. TypeOK /\ next[p] \in Nat /\ next'[p] \in Nat /\ i \in Nat
    <2>1. next \in [Proc -> Nat \ {0}] /\ next' \in [Proc -> Nat \ {0}]
      BY DEF Typed, TypeOK
    <2> QED
      BY <2>1, RequestsAssumption DEF Typed
  <1>1. \/ next'[p] = next[p] + 1
        \/ /\ next'[p] = next[p]
           /\ pc'[p] = pc[p] \/ pc'[p] \notin Running \ {"copy"} \/ pc[p] \in Running \ {"copy"}
    <2>1. ASSUME NEW q \in Proc,
                 \/ Start(q) \/ HeaderPastCeiling(q) \/ EndOfArchive(q) \/ ReadEntry(q)
                 \/ Stat(q) \/ CreateNew(q) \/ OpenTruncate(q)
          PROVE  UNCHANGED next /\ (pc'[p] = pc[p] \/ pc[p] \in Running \ {"copy"})
      BY <1>0, <2>1 DEF Start, HeaderPastCeiling, EndOfArchive, ReadEntry, Stat,
         CreateNew, OpenTruncate, Truncate, Fail, TypeOK, Running
    <2>2. ASSUME NEW q \in Proc, MakeDir(q)
          PROVE  \/ next'[p] = next[p] + 1
                 \/ next'[p] = next[p] /\ (pc'[p] = pc[p] \/ pc[p] \in Running \ {"copy"})
      BY <1>0, <2>2 DEF MakeDir, Fail, TypeOK, Running
    <2>3. ASSUME NEW q \in Proc, CopyDone(q)
          PROVE  \/ next'[p] = next[p] + 1
                 \/ next'[p] = next[p] /\ pc'[p] = pc[p]
      BY <1>0, <2>3 DEF CopyDone, TypeOK
    <2>4. ASSUME NEW q \in Proc,
                 \/ CopyBlock(q) \/ RemoveCreated(q) \/ ReturnError(q) \/ IoError(q)
                 \/ Crash(q)
          PROVE  UNCHANGED next /\ (pc'[p] = pc[p] \/ pc'[p] \notin Running)
      BY <1>0, <2>4 DEF CopyBlock, RemoveCreated, ReturnError, IoError, Crash, Fail,
         TypeOK, Running
    <2>5. CASE User \/ Done \/ UNCHANGED vars
      BY <2>5 DEF User, Done, vars
    <2> QED
      BY <2>1, <2>2, <2>3, <2>4, <2>5 DEF Next, Step
  <1>2. CASE next'[p] = next[p] + 1
    BY <1>0, <1>2 DEF Used
  <1>3. CASE /\ next'[p] = next[p]
             /\ pc'[p] = pc[p] \/ pc'[p] \notin Running \ {"copy"}
                \/ pc[p] \in Running \ {"copy"}
    BY <1>3 DEF Used
  <1> QED
    BY <1>1, <1>2, <1>3

\* What may happen to a name: something appears where there was nothing, the
\* user puts a link in place of his file, or a call removes a file of its own.
Appears(f) ==
  /\ dir[f] = Absent
  /\ \/ dir'[f] \in {Dir, Link, f}
     \/ \E p \in Proc : /\ CreateNew(p) /\ pc'[p] = "copy" /\ f = target[p]
                        /\ dir'[f] = <<p, next[p]>> /\ next[p] \in 1..MaxLen
Swapped(f) == UserSwaps /\ dir[f] = f /\ dir'[f] = Link
Removed(f) ==
  \E p \in Proc : /\ pc[p] = "cleanup" /\ UNCHANGED <<pc, err>>
                  /\ OwnFile(p, f) /\ dir'[f] = Absent

LEMMA DirMoves ==
  ASSUME IndInv, [Next]_vars, NEW f \in File, dir'[f] # dir[f]
  PROVE  Appears(f) \/ Swapped(f) \/ Removed(f)
  <1>0. TypeOK /\ CursorInArchive /\ CreatedOwned
    BY DEF IndInv
  <1>1. ASSUME NEW p \in Proc, MakeDir(p) PROVE Appears(f)
    BY <1>0, <1>1 DEF MakeDir, Appears, TypeOK, CursorInArchive
  <1>2. ASSUME NEW p \in Proc, CreateNew(p) PROVE Appears(f)
    <2>1. pc[p] = "create" /\ dir[target[p]] = Absent
          /\ dir' = [dir EXCEPT ![target[p]] = <<p, next[p]>>]
          /\ pc' = [pc EXCEPT ![p] = "copy"]
      BY <1>2 DEF CreateNew
    <2>2. next[p] \in 1..MaxLen
      <3>1. next[p] \in Nat \ {0} /\ next[p] <= Len(archive(p))
        BY <1>0, <2>1 DEF TypeOK, CursorInArchive
      <3>2. Len(archive(p)) <= MaxLen /\ Len(archive(p)) \in Nat
        BY <1>0, RequestFacts
      <3> QED
        BY <3>1, <3>2, RequestsAssumption
    <2>3. f = target[p] /\ dir'[f] = <<p, next[p]>> /\ pc'[p] = "copy"
      BY <1>0, <2>1 DEF TypeOK
    <2> QED
      BY <1>2, <2>1, <2>2, <2>3 DEF Appears
  <1>3. ASSUME NEW p \in Proc, RemoveCreated(p) PROVE Removed(f)
    <2> DEFINE g == created[p][Len(created[p])]
    <2>1. /\ pc[p] = "cleanup" /\ UNCHANGED <<pc, err>> /\ created[p] # <<>>
          /\ dir' = [dir EXCEPT ![g] = IF dir[g] = Dir THEN Dir ELSE Absent]
      BY <1>3 DEF RemoveCreated
    <2>2. Len(created[p]) \in 1..Len(created[p])
      BY <1>0, <2>1 DEF TypeOK
    <2>3. OwnFile(p, g)
      BY <1>0, <2>2 DEF CreatedOwned
    <2>4. dir[g] # Dir
      BY <2>3, NodeFacts DEF OwnFile
    <2> HIDE DEF g
    <2>5. f = g /\ dir'[f] = Absent
      BY <1>0, <2>1, <2>4 DEF TypeOK
    <2> QED
      BY <2>1, <2>3, <2>5 DEF Removed
  <1>4. ASSUME NEW p \in Proc,
               \/ Start(p) \/ HeaderPastCeiling(p) \/ EndOfArchive(p) \/ ReadEntry(p)
               \/ Stat(p) \/ OpenTruncate(p) \/ CopyBlock(p) \/ CopyDone(p)
               \/ ReturnError(p) \/ IoError(p) \/ Crash(p)
        PROVE  UNCHANGED dir
    BY <1>4 DEF Start, HeaderPastCeiling, EndOfArchive, ReadEntry, Stat, OpenTruncate,
       CopyBlock, CopyDone, ReturnError, IoError, Crash, fs
  <1>5. CASE User
    BY <1>0, <1>5, FoldAssumption DEF User, Appears, Swapped, TypeOK
  <1>6. CASE Done \/ UNCHANGED vars
    BY <1>6 DEF Done, vars
  <1> QED
    BY <1>1, <1>2, <1>3, <1>4, <1>5, <1>6 DEF Next, Step

-----------------------------------------------------------------------------
(* Inodes.                                                                 *)

LEMMA InodesInit == Init => InodesApart
  <1> SUFFICES ASSUME Init PROVE InodesApart
    OBVIOUS
  <1>1. \A f \in File : dir[f] \in {Absent, Dir, Link} \cup UserInode
    BY DEF Init
  <1>2. \A f \in File : dir[f] \in UserInode => dir[f] = f
    BY DEF Init
  <1>3. \A f \in File : dir[f] \notin OwnInode \cup {Outside}
    BY <1>1, NodesAssumption DEF Inode
  <1>4. ASSUME NEW p \in Proc, NEW i \in 1..MaxLen
        PROVE  /\ content[<<p, i>>] = <<>> /\ \A f \in File : dir[f] # <<p, i>>
               /\ \A q \in Proc : pc[q] # "copy"
    <2>1. <<p, i>> \in OwnInode
      BY DEF OwnInode
    <2> QED
      BY <1>3, <2>1 DEF Init, Inode
  <1>5. \A f, g \in File : dir[f] \in Inode /\ dir[f] = dir[g] => f = g
    BY <1>1, <1>2, NodesAssumption DEF Inode
  <1> QED
    BY <1>2, <1>3, <1>4, <1>5 DEF InodesApart

\* A step that creates no file of a call, and opens none but those in the
\* directory and the one outside.
LEMMA InodesKept ==
  ASSUME InodesApart,
         \A p \in Proc, i \in 1..MaxLen : Used(p, i) => Used(p, i)',
         \A f \in File : dir'[f] \in {dir[f], Absent, Dir, Link, f},
         \A p \in Proc, i \in 1..MaxLen :
           ~Used(p, i) => content'[<<p, i>>] \in {content[<<p, i>>], <<>>},
         \A p \in Proc : pc'[p] = "copy" =>
           \/ pc[p] = "copy" /\ handle'[p] = handle[p]
           \/ handle'[p] = Outside
           \/ \E f \in File : handle'[p] = dir[f]
  PROVE  InodesApart'
  <1>1. /\ \A f \in File : f \notin OwnInode /\ f # Outside /\ f \in UserInode
        /\ {Absent, Dir, Link} \cap Inode = {} /\ Outside \notin OwnInode \cup UserInode
    BY NodesAssumption DEF UserInode
  <1>2. \A p \in Proc, i \in 1..MaxLen : <<p, i>> \in OwnInode /\ <<p, i>> \in Inode
    BY DEF OwnInode, Inode
  <1>3. ASSUME NEW f \in File
        PROVE  dir'[f] # Outside /\ (dir'[f] \in UserInode => dir'[f] = f)
    BY <1>1 DEF InodesApart, Inode
  <1>4. ASSUME NEW f \in File, NEW g \in File, dir'[f] \in Inode, dir'[f] = dir'[g]
        PROVE  f = g
    <2>1. dir'[f] \in {dir[f], f} /\ dir'[g] \in {dir[g], g}
      BY <1>1, <1>4
    <2>2. CASE dir'[f] = f \/ dir'[g] = g
      BY <1>1, <1>3, <1>4, <2>2
    <2>3. CASE dir'[f] = dir[f] /\ dir'[g] = dir[g]
      BY <1>4, <2>3 DEF InodesApart
    <2> QED
      BY <2>1, <2>2, <2>3
  <1>5. ASSUME NEW p \in Proc, NEW i \in 1..MaxLen, ~Used(p, i)'
        PROVE  /\ content'[<<p, i>>] = <<>>
               /\ \A f \in File : dir'[f] # <<p, i>>
               /\ \A q \in Proc : pc'[q] = "copy" => handle'[q] # <<p, i>>
    <2>1. /\ ~Used(p, i)
          /\ content[<<p, i>>] = <<>> /\ \A f \in File : dir[f] # <<p, i>>
          /\ \A q \in Proc : pc[q] = "copy" => handle[q] # <<p, i>>
      BY <1>5 DEF InodesApart
    <2>2. <<p, i>> \notin {Outside, Absent, Dir, Link} /\ \A f \in File : f # <<p, i>>
      BY <1>1, <1>2
    <2> QED
      BY <2>1, <2>2
  <1> QED
    BY <1>3, <1>4, <1>5 DEF InodesApart

LEMMA InodesNext ==
  ASSUME IndInv, IndInv', InodesApart, [Next]_vars
  PROVE  InodesApart'
  <1>0. TypeOK /\ CursorInArchive /\ Typed /\ Typed'
    BY DEF IndInv, Typed
  <1>1. \A p \in Proc, i \in 1..MaxLen : Used(p, i) => Used(p, i)'
    BY <1>0, UsedGrows
  <1>2. CASE \E p \in Proc : CreateNew(p) /\ pc'[p] = "copy"
    <2>1. PICK p \in Proc : CreateNew(p) /\ pc'[p] = "copy"
      BY <1>2
    <2>2. pc[p] = "create"
      BY <2>1 DEF CreateNew
    <2>3. PICK n \in 1..MaxLen : n = next[p]
      <3>1. next[p] \in Nat \ {0} /\ next[p] <= Len(archive(p))
        BY <1>0, <2>2 DEF TypeOK, CursorInArchive
      <3>2. Len(archive(p)) <= MaxLen /\ Len(archive(p)) \in Nat
        BY <1>0, RequestFacts
      <3> QED
        BY <3>1, <3>2, RequestsAssumption
    <2> DEFINE t == target[p]
               new == <<p, n>>
    <2>4. /\ t \in File /\ dir[t] = Absent
          /\ dir' = [dir EXCEPT ![t] = new] /\ handle' = [handle EXCEPT ![p] = new]
          /\ pc' = [pc EXCEPT ![p] = "copy"] /\ UNCHANGED <<content, next>>
      BY <1>0, <2>1, <2>3 DEF CreateNew, Fail, TypeOK, CursorInArchive
    <2>5. new \in Inode /\ new \notin UserInode /\ new # Outside
      <3>1. new \in OwnInode
        BY DEF OwnInode
      <3> QED
        BY <3>1, NodesAssumption DEF Inode
    <2>6. ~Used(p, n) /\ Used(p, n)'
      <3>1. pc'[p] = "copy" /\ next'[p] = n
        BY <2>1, <2>3, <2>4
      <3>2. ~(n < n)
        BY RequestsAssumption
      <3> QED
        BY <2>2, <2>3, <3>1, <3>2 DEF Used, Running
    <2>7. \A f \in File : dir[f] # new
      BY <2>6 DEF InodesApart
    <2>8. /\ \A f \in File : dir'[f] = IF f = t THEN new ELSE dir[f]
          /\ \A q \in Proc : handle'[q] = IF q = p THEN new ELSE handle[q]
          /\ \A q \in Proc : q # p => pc'[q] = pc[q]
      BY <1>0, <2>4 DEF TypeOK
    <2>9. ASSUME NEW q \in Proc, NEW i \in 1..MaxLen, ~Used(q, i)'
          PROVE  /\ content'[<<q, i>>] = <<>>
                 /\ \A f \in File : dir'[f] # <<q, i>>
                 /\ \A r \in Proc : pc'[r] = "copy" => handle'[r] # <<q, i>>
      <3>1. /\ content[<<q, i>>] = <<>> /\ \A f \in File : dir[f] # <<q, i>>
            /\ \A r \in Proc : pc[r] = "copy" => handle[r] # <<q, i>>
        BY <1>1, <2>9 DEF InodesApart
      <3>2. <<q, i>> # new
        <4>1. ~(q = p /\ i = n)
          BY <2>6, <2>9
        <4> QED
          BY <4>1
      <3> QED
        BY <2>4, <2>8, <3>1, <3>2
    <2> HIDE DEF t, new
    <2>10. /\ \A f \in File : dir'[f] # Outside /\ (dir'[f] \in UserInode => dir'[f] = f)
           /\ \A f, g \in File : dir'[f] \in Inode /\ dir'[f] = dir'[g] => f = g
      BY <2>5, <2>7, <2>8 DEF InodesApart
    <2> QED
      BY <2>9, <2>10 DEF InodesApart
  <1>3. CASE ~\E p \in Proc : CreateNew(p) /\ pc'[p] = "copy"
    <2>1. \A f \in File : dir'[f] \in {dir[f], Absent, Dir, Link, f}
      BY <1>3, DirMoves DEF Appears, Swapped, Removed
    <2>2. /\ \A p \in Proc, i \in 1..MaxLen :
               ~Used(p, i) => content'[<<p, i>>] \in {content[<<p, i>>], <<>>}
          /\ \A p \in Proc : pc'[p] = "copy" =>
               \/ pc[p] = "copy" /\ handle'[p] = handle[p]
               \/ handle'[p] = Outside
               \/ \E f \in File : handle'[p] = dir[f]
      <3>1. ASSUME NEW p \in Proc, OpenTruncate(p) PROVE <2>2!:
        <4>1. /\ \A q \in Proc : pc'[q] = "copy" /\ q # p =>
                   pc[q] = "copy" /\ handle'[q] = handle[q]
              /\ pc'[p] = "copy" => handle'[p] \in {dir[target[p]], Outside}
              /\ target[p] \in File
          BY <1>0, <3>1 DEF OpenTruncate, Truncate, Fail, TypeOK, CursorInArchive
        <4>2. \A i \in Inode : content'[i] \in {content[i], <<>>}
          BY <1>0, <3>1 DEF OpenTruncate, Truncate, TypeOK
        <4>3. OwnInode \subseteq Inode
          BY DEF Inode
        <4> QED
          BY <4>1, <4>2, <4>3 DEF OwnInode
      <3>2. ASSUME NEW p \in Proc, CopyBlock(p) PROVE <2>2!:
        <4>1. pc[p] = "copy" /\ handle[p] \in Inode
          BY <1>0, <3>2 DEF CopyBlock, CursorInArchive
        <4>2. \A q \in Proc : pc'[q] = "copy" => pc[q] = "copy" /\ handle'[q] = handle[q]
          BY <1>0, <3>2 DEF CopyBlock, Fail, TypeOK
        <4>3. \A i \in Inode : i # handle[p] => content'[i] = content[i]
          BY <1>0, <3>2 DEF CopyBlock, TypeOK
        <4>4. ASSUME NEW q \in Proc, NEW i \in 1..MaxLen, ~Used(q, i)
              PROVE  content'[<<q, i>>] = content[<<q, i>>]
          <5>1. <<q, i>> # handle[p]
            BY <4>1, <4>4 DEF InodesApart
          <5>2. <<q, i>> \in Inode
            BY DEF Inode, OwnInode
          <5> QED
            BY <4>3, <5>1, <5>2
        <4> QED
          BY <4>2, <4>4
      <3>3. ASSUME NEW p \in Proc,
                   \/ Start(p) \/ HeaderPastCeiling(p) \/ EndOfArchive(p)
                   \/ ReadEntry(p) \/ MakeDir(p) \/ Stat(p) \/ CreateNew(p)
                   \/ CopyDone(p) \/ RemoveCreated(p) \/ ReturnError(p)
                   \/ IoError(p) \/ Crash(p)
            PROVE  <2>2!:
        <4>1. UNCHANGED content
          BY <3>3 DEF Start, HeaderPastCeiling, EndOfArchive, ReadEntry, MakeDir,
             Stat, CreateNew, CopyDone, RemoveCreated, ReturnError, IoError, Crash, fs
        <4>2. \A q \in Proc : pc'[q] = "copy" => pc[q] = "copy" /\ handle'[q] = handle[q]
          BY <1>0, <1>3, <3>3 DEF Start, HeaderPastCeiling, EndOfArchive, ReadEntry,
             MakeDir, Stat, CreateNew, CopyDone, RemoveCreated, ReturnError, IoError,
             Crash, Fail, TypeOK
        <4> QED
          BY <4>1, <4>2
      <3>4. CASE User \/ Done \/ UNCHANGED vars
        BY <3>4 DEF User, Done, vars
      <3> QED
        BY <3>1, <3>2, <3>3, <3>4 DEF Next, Step
    <2> QED
      BY <1>1, <2>1, <2>2, InodesKept
  <1> QED
    BY <1>2, <1>3

-----------------------------------------------------------------------------
(* The result.                                                             *)

\* A name is made safe in one way only.
LEMMA OneSafePath ==
  ASSUME NEW name, NEW lim, NEW f \in SafeRelativePath(name, lim),
         NEW g \in SafeRelativePath(name, lim)
  PROVE  f = g
  BY DEF SafeRelativePath

LEMMA FilesOfIs ==
  ASSUME NEW r, NEW x
  PROVE  x \in Extract!FilesOf(r) <=>
           /\ x \in File \X DOMAIN r.archive
           /\ r.archive[x[2]].type # "dir"
           /\ \E f \in SafeRelativePath(r.archive[x[2]].name, r.limits) : x[1] = Fold[f]
  <1>1. \A name, lim : Extract!SafeRelativePath(name, lim) = SafeRelativePath(name, lim)
    BY DEF Extract!SafeRelativePath, SafeRelativePath, Extract!CurDir, CurDir
  <1> QED
    BY <1>1 DEF Extract!FilesOf

LEMMA ResultInit == Init => \A p \in Proc : ResultSoFar(p)
  <1> SUFFICES ASSUME Init, NEW p \in Proc PROVE ResultSoFar(p)
    OBVIOUS
  <1>1. out[p] = <<>> /\ next[p] = 1 /\ pc[p] = "start" /\ req[p] \in Requests
    BY DEF Init
  <1>2. DOMAIN out[p] = {}
    BY <1>1
  <1>3. ASSUME NEW x \in Extract!FilesOf(req[p]) PROVE ~(x[2] < 1)
    <2>1. x[2] \in DOMAIN req[p].archive
      BY FilesOfIs
    <2>2. req[p].archive \in Seq(Entry)
      BY <1>1, RequestsAssumption DEF RequestType
    <2>3. DOMAIN req[p].archive = 1..Len(req[p].archive) /\ Len(req[p].archive) \in Nat
      BY <2>2
    <2> QED
      BY <2>1, <2>3
  <1> QED
    BY <1>1, <1>2, <1>3 DEF ResultSoFar, AtEntry

\* A step that leaves the result of a call, and either leaves its place or ends
\* its work on the entry.
LEMMA ResultQuiet ==
  ASSUME NEW p \in Proc, ResultSoFar(p),
         req'[p] = req[p], out'[p] = out[p], next'[p] = next[p], seen'[p] = seen[p],
         Live(p)' => Live(p),
         pc'[p] \in AtEntry =>
           /\ pc[p] \in AtEntry /\ target'[p] = target[p]
           /\ pc'[p] = "mkdir" <=> pc[p] = "mkdir"
           /\ pc'[p] # "copy" => pos'[p] = pos[p] /\ pc[p] # "copy"
  PROVE  ResultSoFar(p)'
  <1>1. /\ \A k \in DOMAIN out'[p] :
             /\ out'[p][k] \in Extract!FilesOf(req'[p])
             /\ out'[p][k][2] < next'[p]
             /\ \E g \in seen'[p] : out'[p][k][1] = Fold[g]
        /\ Live(p)' =>
             \A x \in Extract!FilesOf(req'[p]) :
               x[2] < next'[p] => \E k \in DOMAIN out'[p] : out'[p][k] = x
    BY DEF ResultSoFar
  <1>2. ASSUME pc'[p] \in AtEntry
        PROVE  /\ pc'[p] = "mkdir" <=> archive(p)'[next'[p]].type = "dir"
               /\ \E g \in seen'[p] :
                    /\ target'[p] = Fold[g]
                    /\ g \in SafeRelativePath(archive(p)'[next'[p]].name, limits(p)')
               /\ NamesApart(p)' => \A k \in DOMAIN out'[p] : out'[p][k][1] # target'[p]
               /\ pc'[p] # "copy" => pos'[p] = 0
    <2>1. /\ archive(p)' = archive(p) /\ limits(p)' = limits(p)
          /\ NamesApart(p)' = NamesApart(p)
      BY DEF archive, limits, NamesApart
    <2> QED
      BY <1>2, <2>1 DEF ResultSoFar
  <1>3. Extract!FilesOf(req[p])' = Extract!FilesOf(req'[p])
    BY DEF Extract!FilesOf
  <1> QED
    BY <1>1, <1>2, <1>3 DEF ResultSoFar

\* An accepted entry.
LEMMA ResultRead ==
  ASSUME Typed, NEW p \in Proc, ResultSoFar(p), ReadEntry(p), pc'[p] # "cleanup"
  PROVE  ResultSoFar(p)'
  <1>0. TypeOK
    BY DEF Typed
  <1> DEFINE entry == archive(p)[next[p]]
  <1>1. CheckEntry(entry, Counted(p), seen[p], limits(p)) = "none"
    BY <1>0 DEF ReadEntry, Fail, TypeOK
  <1>2. PICK g \in SafeRelativePath(entry.name, limits(p)) : g \notin seen[p]
    BY <1>1 DEF CheckEntry, CheckUnique
  <1>3. PICK f \in SafeRelativePath(entry.name, limits(p)) :
          seen'[p] = seen[p] \cup {f} /\ target'[p] = Fold[f]
    <2>1. \E f \in SafeRelativePath(entry.name, limits(p)) :
            /\ seen' = [seen EXCEPT ![p] = seen[p] \cup {f}]
            /\ target' = [target EXCEPT ![p] = Fold[f]]
      BY <1>1 DEF ReadEntry
    <2> QED
      BY <1>0, <2>1 DEF TypeOK
  <1>4. f \notin seen[p] /\ f \in File
    BY <1>2, <1>3, OneSafePath DEF SafeRelativePath
  <1>5. /\ pc[p] = "next" /\ pc'[p] = (IF entry.type = "dir" THEN "mkdir" ELSE "stat")
        /\ pos'[p] = 0 /\ UNCHANGED <<req, out, next>>
    BY <1>0, <1>1 DEF ReadEntry, TypeOK
  <1>6. archive(p)' = archive(p) /\ limits(p)' = limits(p)
    BY <1>5 DEF archive, limits
  <1>7. /\ \A k \in DOMAIN out'[p] :
             /\ out'[p][k] \in Extract!FilesOf(req'[p])
             /\ out'[p][k][2] < next'[p]
             /\ \E h \in seen'[p] : out'[p][k][1] = Fold[h]
        /\ \A x \in Extract!FilesOf(req'[p]) :
             x[2] < next'[p] => \E k \in DOMAIN out'[p] : out'[p][k] = x
    BY <1>3, <1>5 DEF ResultSoFar, Live, Running
  <1>8. ASSUME NamesApart(p)', NEW k \in DOMAIN out'[p]
        PROVE  out'[p][k][1] # target'[p]
    <2>1. PICK h \in seen[p] : out'[p][k][1] = Fold[h]
      BY <1>5, <1>8 DEF ResultSoFar
    <2>2. h # f /\ h \in seen'[p] /\ f \in seen'[p]
      BY <1>3, <1>4
    <2> QED
      BY <1>3, <1>8, <2>1, <2>2 DEF NamesApart
  <1>9. Extract!FilesOf(req[p])' = Extract!FilesOf(req'[p])
    BY DEF Extract!FilesOf
  <1>10. /\ pc'[p] = "mkdir" <=> archive(p)'[next'[p]].type = "dir"
         /\ \E h \in seen'[p] :
              /\ target'[p] = Fold[h]
              /\ h \in SafeRelativePath(archive(p)'[next'[p]].name, limits(p)')
         /\ pos'[p] = 0
    BY <1>3, <1>5, <1>6
  <1> QED
    BY <1>7, <1>8, <1>9, <1>10 DEF ResultSoFar

\* A directory entry is done.
LEMMA ResultDir ==
  ASSUME Typed, NEW p \in Proc, ResultSoFar(p), MakeDir(p), pc'[p] # "cleanup"
  PROVE  ResultSoFar(p)'
  <1>0. TypeOK /\ next[p] \in Nat
    BY DEF Typed, TypeOK
  <1>1. /\ pc[p] = "mkdir" /\ pc'[p] = "next" /\ next'[p] = next[p] + 1
        /\ UNCHANGED <<req, out, seen>>
    BY <1>0 DEF MakeDir, Fail, TypeOK
  <1>2. req[p].archive[next[p]].type = "dir"
    BY <1>1 DEF ResultSoFar, AtEntry, archive
  <1>3. ASSUME NEW x \in Extract!FilesOf(req[p]), x[2] < next[p] + 1
        PROVE  x[2] < next[p]
    <2>1. x[2] \in DOMAIN req[p].archive /\ req[p].archive[x[2]].type # "dir"
      BY FilesOfIs
    <2>2. x[2] # next[p]
      BY <1>2, <2>1
    <2>3. x[2] \in Nat
      BY <1>0, <2>1, RequestFacts DEF archive
    <2> QED
      BY <1>0, <1>3, <2>2, <2>3
  <1>4. ASSUME NEW k \in DOMAIN out[p] PROVE out[p][k][2] < next[p] + 1
    <2>1. out[p][k] \in Extract!FilesOf(req[p]) /\ out[p][k][2] < next[p]
      BY DEF ResultSoFar
    <2>2. out[p][k][2] \in DOMAIN req[p].archive
      BY <2>1, FilesOfIs
    <2>3. out[p][k][2] \in Nat
      BY <1>0, <2>2, RequestFacts DEF archive
    <2> QED
      BY <1>0, <2>1, <2>3
  <1>5. Extract!FilesOf(req[p])' = Extract!FilesOf(req'[p])
    BY DEF Extract!FilesOf
  <1>6. Live(p) /\ pc'[p] \notin AtEntry
    BY <1>1 DEF Live, Running, AtEntry
  <1> QED
    BY <1>1, <1>3, <1>4, <1>5, <1>6 DEF ResultSoFar

\* A file has been copied.
LEMMA ResultCopied ==
  ASSUME Typed, NEW p \in Proc, ResultSoFar(p), CopyDone(p)
  PROVE  ResultSoFar(p)'
  <1>0. /\ TypeOK /\ next[p] \in Nat \ {0} /\ target[p] \in File
        /\ next[p] <= Len(archive(p)) /\ out[p] \in Seq(File \X (1..MaxLen))
    BY DEF Typed, TypeOK, CursorInArchive, CopyDone
  <1> DEFINE x0 == <<target[p], next[p]>>
             n == Len(out[p])
  <1>1. /\ pc[p] = "copy" /\ pc'[p] = "next" /\ next'[p] = next[p] + 1
        /\ out'[p] = Append(out[p], x0) /\ UNCHANGED <<req, seen>>
    BY <1>0 DEF CopyDone, TypeOK
  <1>2. PICK g \in seen[p] : target[p] = Fold[g] /\
          g \in SafeRelativePath(archive(p)[next[p]].name, limits(p))
    BY <1>1 DEF ResultSoFar, AtEntry
  <1>3. archive(p)[next[p]].type # "dir"
    BY <1>1 DEF ResultSoFar, AtEntry
  <1>4. DOMAIN archive(p) = 1..Len(archive(p)) /\ Len(archive(p)) \in Nat
    BY <1>0, RequestFacts
  <1>5. x0 \in Extract!FilesOf(req[p])
    <2>1. x0 \in File \X DOMAIN req[p].archive /\ x0[1] = target[p] /\ x0[2] = next[p]
      BY <1>0, <1>4 DEF archive
    <2> QED
      BY <1>2, <1>3, <2>1, FilesOfIs DEF archive, limits
  <1>6. ASSUME NEW x \in Extract!FilesOf(req[p]), ~(x[2] < next[p]), x[2] < next[p] + 1
        PROVE  x = x0
    <2>1. /\ x \in File \X DOMAIN req[p].archive
          /\ \E f \in SafeRelativePath(req[p].archive[x[2]].name, req[p].limits) : x[1] = Fold[f]
      BY FilesOfIs
    <2>2. x[2] \in Nat
      BY <1>4, <2>1 DEF archive
    <2>3. x[2] = next[p]
      BY <1>0, <1>6, <2>2
    <2>4. x[1] = target[p]
      BY <1>2, <2>1, <2>3, OneSafePath DEF archive, limits
    <2> QED
      BY <2>1, <2>3, <2>4
  <1>7. /\ n \in Nat /\ DOMAIN out[p] = 1..n /\ DOMAIN out'[p] = 1..(n + 1)
        /\ out'[p][n + 1] = x0 /\ \A k \in 1..n : out'[p][k] = out[p][k]
    BY <1>0, <1>1
  <1>8. ASSUME NEW k \in DOMAIN out'[p]
        PROVE  /\ out'[p][k] \in Extract!FilesOf(req[p])
               /\ out'[p][k][2] < next[p] + 1
               /\ \E h \in seen[p] : out'[p][k][1] = Fold[h]
    <2>1. CASE k = n + 1
      <3>1. out'[p][k] = x0 /\ x0[1] = target[p] /\ x0[2] = next[p]
        BY <1>7, <2>1
      <3>2. next[p] < next[p] + 1
        BY <1>0
      <3> QED
        BY <1>2, <1>5, <3>1, <3>2
    <2>2. CASE k # n + 1
      <3>1. k \in DOMAIN out[p] /\ out'[p][k] = out[p][k]
        BY <1>7, <2>2
      <3>2. /\ out[p][k] \in Extract!FilesOf(req[p]) /\ out[p][k][2] < next[p]
            /\ \E h \in seen[p] : out[p][k][1] = Fold[h]
        BY <3>1 DEF ResultSoFar
      <3>3. out[p][k][2] \in Nat
        BY <1>4, <3>2, FilesOfIs DEF archive
      <3> QED
        BY <1>0, <3>1, <3>2, <3>3
    <2> QED
      BY <2>1, <2>2
  <1>9. ASSUME NEW x \in Extract!FilesOf(req[p]), x[2] < next[p] + 1
        PROVE  \E k \in DOMAIN out'[p] : out'[p][k] = x
    <2>1. CASE x[2] < next[p]
      <3>1. PICK k \in DOMAIN out[p] : out[p][k] = x
        BY <1>1, <2>1 DEF ResultSoFar, Live, Running
      <3> QED
        BY <1>7, <3>1
    <2>2. CASE ~(x[2] < next[p])
      <3>1. n + 1 \in DOMAIN out'[p]
        BY <1>7
      <3> QED
        BY <1>6, <1>7, <1>9, <2>2, <3>1
    <2> QED
      BY <2>1, <2>2
  <1>10. Extract!FilesOf(req[p])' = Extract!FilesOf(req'[p])
    BY DEF Extract!FilesOf
  <1>11. pc'[p] \notin AtEntry
    BY <1>1 DEF AtEntry
  <1> QED
    BY <1>1, <1>8, <1>9, <1>10, <1>11 DEF ResultSoFar

LEMMA ResultNext ==
  ASSUME Typed, [Next]_vars, NEW p \in Proc, ResultSoFar(p)
  PROVE  ResultSoFar(p)'
  <1>0. TypeOK
    BY DEF Typed
  <1>1. ASSUME NEW q \in Proc, q # p, Step(q) \/ IoError(q) \/ Crash(q)
        PROVE  ResultSoFar(p)'
    <2>1. /\ req'[p] = req[p] /\ out'[p] = out[p] /\ next'[p] = next[p]
          /\ seen'[p] = seen[p] /\ target'[p] = target[p] /\ pos'[p] = pos[p]
          /\ pc'[p] = pc[p]
      <3>1. CASE Start(q) \/ HeaderPastCeiling(q) \/ EndOfArchive(q) \/ MakeDir(q)
                 \/ Stat(q) \/ CreateNew(q) \/ OpenTruncate(q) \/ CopyBlock(q)
        BY <1>0, <1>1, <3>1 DEF Start, HeaderPastCeiling, EndOfArchive, MakeDir, Stat,
           CreateNew, OpenTruncate, Truncate, CopyBlock, Fail, TypeOK
      <3>2. CASE CopyDone(q) \/ RemoveCreated(q) \/ ReturnError(q) \/ IoError(q) \/ Crash(q)
        BY <1>0, <1>1, <3>2 DEF CopyDone, RemoveCreated, ReturnError, IoError, Crash,
           Fail, TypeOK
      <3>3. CASE ReadEntry(q)
        BY <1>0, <1>1, <3>3 DEF ReadEntry, Fail, TypeOK
      <3> QED
        BY <1>1, <3>1, <3>2, <3>3 DEF Step
    <2> QED
      BY <2>1, ResultQuiet DEF Live
  <1>2. CASE User \/ Done \/ UNCHANGED vars
    BY <1>2, ResultQuiet DEF User, Done, vars, Live
  <1>3. CASE \/ Start(p) \/ HeaderPastCeiling(p) \/ EndOfArchive(p) \/ Stat(p)
             \/ CreateNew(p) \/ OpenTruncate(p) \/ CopyBlock(p)
    <2>1. /\ UNCHANGED <<req, out, next, seen, target>>
          /\ pc[p] \in Running
          /\ pc'[p] \in AtEntry =>
               /\ pc[p] \in AtEntry
               /\ pc'[p] = "mkdir" <=> pc[p] = "mkdir"
               /\ pc'[p] # "copy" => pos'[p] = pos[p] /\ pc[p] # "copy"
      BY <1>0, <1>3 DEF Start, HeaderPastCeiling, EndOfArchive, Stat, CreateNew,
         OpenTruncate, Truncate, CopyBlock, Fail, TypeOK, AtEntry, Running
    <2> QED
      BY <2>1, ResultQuiet DEF Live
  <1>4. CASE \/ RemoveCreated(p) \/ ReturnError(p) \/ IoError(p) \/ Crash(p)
             \/ (MakeDir(p) /\ pc'[p] = "cleanup") \/ (ReadEntry(p) /\ pc'[p] = "cleanup")
    <2>1. /\ UNCHANGED <<req, out>> /\ next'[p] = next[p] /\ seen'[p] = seen[p]
          /\ pc'[p] \notin AtEntry /\ ~Live(p)'
      <3>1. CASE RemoveCreated(p) \/ ReturnError(p) \/ IoError(p) \/ Crash(p)
        BY <1>0, <3>1 DEF RemoveCreated, ReturnError, IoError, Crash, Fail, TypeOK,
           AtEntry, Live, Running
      <3>2. CASE MakeDir(p) /\ pc'[p] = "cleanup"
        BY <1>0, <3>2 DEF MakeDir, Fail, TypeOK, AtEntry, Live, Running
      <3>3. CASE ReadEntry(p) /\ pc'[p] = "cleanup"
        BY <1>0, <3>3 DEF ReadEntry, Fail, TypeOK, AtEntry, Live, Running
      <3> QED
        BY <1>4, <3>1, <3>2, <3>3
    <2> QED
      BY <2>1, ResultQuiet
  <1>5. CASE \/ CopyDone(p) \/ (MakeDir(p) /\ pc'[p] # "cleanup")
             \/ (ReadEntry(p) /\ pc'[p] # "cleanup")
    BY <1>5, ResultCopied, ResultDir, ResultRead
  <1> QED
    BY <1>1, <1>2, <1>3, <1>4, <1>5 DEF Next, Step

-----------------------------------------------------------------------------
(* Files stay in place.                                                    *)

\* Errors and failures are for good.
LEMMA FailureStays ==
  ASSUME TypeOK, [Next]_vars, NEW p \in Proc
  PROVE  /\ req'[p] = req[p]
         /\ err[p] # "none" => err'[p] # "none"
         /\ pc'[p] \in {"cleanup", "failed"} =>
              pc[p] \in {"cleanup", "failed"} \/ err'[p] # "none"
         /\ Live(p)' => Live(p)
  <1> DEFINE G == /\ req'[p] = req[p]
                  /\ err[p] # "none" => err'[p] # "none"
                  /\ pc'[p] \in {"cleanup", "failed"} =>
                       pc[p] \in {"cleanup", "failed"} \/ err'[p] # "none"
                  /\ Live(p)' => Live(p)
  <1>1. ASSUME NEW q \in Proc,
               \/ Start(q) \/ HeaderPastCeiling(q) \/ EndOfArchive(q) \/ MakeDir(q)
               \/ Stat(q) \/ CreateNew(q) \/ OpenTruncate(q) \/ CopyBlock(q)
        PROVE  G
    BY <1>1 DEF Start, HeaderPastCeiling, EndOfArchive, MakeDir, Stat, CreateNew,
       OpenTruncate, Truncate, CopyBlock, Fail, TypeOK, Live, Running
  <1>2. ASSUME NEW q \in Proc,
               CopyDone(q) \/ RemoveCreated(q) \/ IoError(q) \/ Crash(q)
        PROVE  G
    BY <1>2 DEF CopyDone, RemoveCreated, IoError, Crash, Fail, TypeOK, Live, Running,
       Finished
  <1>3. ASSUME NEW q \in Proc, ReadEntry(q)
        PROVE  G
    BY <1>3 DEF ReadEntry, Fail, TypeOK, Live, Running
  <1>4. ASSUME NEW q \in Proc, ReturnError(q)
        PROVE  G
    BY <1>4 DEF ReturnError, TypeOK, Live, Running
  <1>5. CASE User \/ Done \/ UNCHANGED vars
    BY <1>5 DEF User, Done, vars, Live
  <1> QED
    BY <1>1, <1>2, <1>3, <1>4, <1>5 DEF Next, Step

\* An excuse stays one.
LEMMA ExcusedStays ==
  ASSUME IndInv, [Next]_vars, NEW p \in Proc, NEW f \in File, Excused(p, f)
  PROVE  Excused(p, f)'
  <1>1. TypeOK
    BY DEF IndInv
  <1>2. limits(p)' = limits(p)
    BY <1>1, FailureStays DEF limits
  <1>3. CASE dir[f] = Link /\ UserSwaps
    <2>1. Link # Absent /\ Link \notin Inode /\ f \in Inode
      BY NodesAssumption DEF Inode, UserInode
    <2>2. \A q \in Proc : ~OwnFile(q, f)
      BY <1>3, NodeFacts DEF OwnFile
    <2>3. dir'[f] = Link
      BY <1>3, <2>1, <2>2, DirMoves DEF Appears, Swapped, Removed
    <2> QED
      BY <1>2, <1>3, <2>3 DEF Excused
  <1>4. CASE \E q \in Proc \ {p} : err[q] # "none"
    BY <1>1, <1>2, <1>4, FailureStays DEF Excused
  <1> QED
    BY <1>3, <1>4 DEF Excused

\* A file that goes while a call is at work is not its own, and there is an
\* excuse.
LEMMA Gone ==
  ASSUME IndInv, [Next]_vars, \A q \in Proc : FilesInPlace(q),
         NEW p \in Proc, Live(p), NEW f \in File, dir[f] \in Inode, dir'[f] # dir[f]
  PROVE  /\ ~OwnFile(p, f)
         /\ limits(p).allow_overwrite => Excused(p, f)'
  <1>1. limits(p)' = limits(p)
    BY FailureStays DEF limits, IndInv
  <1>2. ~Appears(f)
    BY NodesAssumption DEF Appears
  <1>3. CASE Swapped(f)
    BY <1>1, <1>3, NodeFacts DEF Swapped, OwnFile, Excused
  <1>4. CASE Removed(f)
    <2>1. PICK q \in Proc : /\ pc[q] = "cleanup" /\ UNCHANGED <<pc, err>>
                            /\ OwnFile(q, f) /\ dir'[f] = Absent
      BY <1>4 DEF Removed
    <2>2. q # p
      BY <2>1 DEF Live, Running
    <2>3. err'[q] # "none"
      BY <2>1 DEF FilesInPlace
    <2>4. ~OwnFile(p, f)
      BY <2>1, <2>2 DEF OwnFile
    <2> QED
      BY <1>1, <2>2, <2>3, <2>4 DEF Excused
  <1> QED
    BY <1>2, <1>3, <1>4, DirMoves

\* What has been reported stays so.
LEMMA ReportedHeld ==
  ASSUME IndInv, [Next]_vars, \A q \in Proc : FilesInPlace(q),
         NEW p \in Proc, Live(p), NEW k \in DOMAIN out[p],
         NEW f \in File, f = out[p][k][1]
  PROVE  /\ dir'[f] \in Inode \/ Excused(p, f)'
         /\ ~limits(p).allow_overwrite => dir'[f] = <<p, out[p][k][2]>>
  <1> DEFINE i == out[p][k][2]
  <1>0. i \in 1..MaxLen
    <2>1. out[p] \in Seq(File \X (1..MaxLen))
      BY DEF IndInv, TypeOK
    <2>2. out[p][k] \in File \X (1..MaxLen)
      BY <2>1
    <2> QED
      BY <2>2
  <1>1. /\ dir[f] \in Inode \/ Excused(p, f)
        /\ ~limits(p).allow_overwrite => dir[f] = <<p, i>>
    BY DEF FilesInPlace
  <1> HIDE DEF i
  <1>2. CASE Excused(p, f)
    BY <1>2, ExcusedStays DEF Excused
  <1>3. CASE dir'[f] = dir[f] /\ ~Excused(p, f)
    BY <1>1, <1>3 DEF i
  <1>4. CASE dir[f] \in Inode /\ dir'[f] # dir[f]
    <2>1. ~OwnFile(p, f) /\ (limits(p).allow_overwrite => Excused(p, f)')
      BY <1>4, Gone
    <2>2. limits(p).allow_overwrite
      BY <1>0, <1>1, <2>1 DEF OwnFile
    <2> QED
      BY <2>1, <2>2
  <1> QED
    BY <1>1, <1>2, <1>3, <1>4

\* The parts of FilesInPlace after a step, for names that stay what they are.
InPlaceAfter(p) ==
  /\ \A k \in DOMAIN out'[p] : \A f \in File : f = out'[p][k][1] =>
       /\ dir'[f] \in Inode \/ Excused(p, f)'
       /\ ~limits(p)'.allow_overwrite => dir'[f] = <<p, out'[p][k][2]>>
  /\ \A f \in File : f = target'[p] =>
       /\ pc'[p] = "overwrite" => dir'[f] \in Inode \cup {Dir} \/ Excused(p, f)'
       /\ pc'[p] = "copy" => dir'[f] = handle'[p] \/ Excused(p, f)'
  /\ pc'[p] = "copy" /\ ~limits(p)'.allow_overwrite => handle'[p] = <<p, next'[p]>>
  /\ \A f \in File : \A i \in 1..MaxLen :
       dir'[f] = <<p, i>> =>
         \/ \E k \in DOMAIN out'[p] : out'[p][k] = <<f, i>>
         \/ pc'[p] = "copy" /\ f = target'[p] /\ i = next'[p]

LEMMA InPlaceIntro ==
  ASSUME Typed', NEW p \in Proc,
         pc'[p] \in {"cleanup", "failed"} => err'[p] # "none",
         Live(p)' => InPlaceAfter(p)
  PROVE  FilesInPlace(p)'
  <1>1. ASSUME NEW k \in DOMAIN out'[p] PROVE out'[p][k][1] \in File
    <2>1. out'[p] \in Seq(File \X (1..MaxLen))
      BY DEF Typed, TypeOK
    <2>2. out'[p][k] \in File \X (1..MaxLen)
      BY <2>1
    <2> QED
      BY <2>2
  <1>2. pc'[p] \in {"overwrite", "copy"} => target'[p] \in File
    BY DEF Typed, CursorInArchive
  <1> QED
    BY <1>1, <1>2 DEF InPlaceAfter, FilesInPlace, Excused

\* A step in which the call neither reports nor opens a file, and, if it is
\* writing one, goes on or fails.
LEMMA InPlaceQuiet ==
  ASSUME IndInv, IndInv', [Next]_vars, \A q \in Proc : FilesInPlace(q),
         NEW p \in Proc, out'[p] = out[p],
         pc'[p] \in {"overwrite", "copy"} =>
           /\ pc'[p] = pc[p] /\ target'[p] = target[p] /\ handle'[p] = handle[p]
           /\ next'[p] = next[p],
         pc[p] = "copy" /\ Live(p)' => pc'[p] = "copy",
         \A f \in File, i \in 1..MaxLen : dir'[f] = <<p, i>> => dir[f] = <<p, i>>
  PROVE  FilesInPlace(p)'
  <1>0. Typed' /\ TypeOK /\ CursorInArchive /\ HandleOwned
    BY DEF IndInv, Typed
  <1>1. pc'[p] \in {"cleanup", "failed"} => err'[p] # "none"
    BY <1>0, FailureStays DEF FilesInPlace
  <1>2. limits(p)' = limits(p)
    BY <1>0, FailureStays DEF limits
  <1> SUFFICES ASSUME Live(p)' PROVE FilesInPlace(p)'
    BY <1>0, <1>1, InPlaceIntro
  <1>3. Live(p) /\ FilesInPlace(p)
    BY <1>0, FailureStays
  <1>4. ASSUME NEW k \in DOMAIN out'[p], NEW f \in File, f = out'[p][k][1]
        PROVE  /\ dir'[f] \in Inode \/ Excused(p, f)'
               /\ ~limits(p)'.allow_overwrite => dir'[f] = <<p, out'[p][k][2]>>
    BY <1>2, <1>3, <1>4, ReportedHeld
  <1>5. ASSUME NEW f \in File, f = target'[p], pc'[p] = "overwrite"
        PROVE  dir'[f] \in Inode \cup {Dir} \/ Excused(p, f)'
    <2>1. /\ dir[f] \in Inode \cup {Dir} \/ Excused(p, f)
          /\ limits(p).allow_overwrite
      BY <1>0, <1>3, <1>5 DEF FilesInPlace, HandleOwned
    <2>2. CASE Excused(p, f)
      BY <2>2, ExcusedStays
    <2>3. CASE dir[f] \in Inode /\ dir'[f] # dir[f]
      BY <1>3, <2>1, <2>3, Gone
    <2>4. CASE dir[f] = Dir
      <3>1. Dir # Absent /\ Dir \notin Inode /\ f \in Inode
        BY NodesAssumption DEF Inode, UserInode
      <3>2. \A q \in Proc : ~OwnFile(q, f)
        BY <2>4, NodeFacts DEF OwnFile
      <3> QED
        BY <2>4, <3>1, <3>2, DirMoves DEF Appears, Swapped, Removed
    <2> QED
      BY <2>1, <2>2, <2>3, <2>4
  <1>6. ASSUME NEW f \in File, f = target'[p], pc'[p] = "copy"
        PROVE  dir'[f] = handle'[p] \/ Excused(p, f)'
    <2>1. /\ dir[f] = handle[p] \/ Excused(p, f)
          /\ ~limits(p).allow_overwrite => handle[p] \in {p} \X (1..MaxLen)
          /\ handle[p] \in Inode /\ handle'[p] = handle[p]
      BY <1>0, <1>3, <1>6 DEF FilesInPlace, HandleOwned, CursorInArchive
    <2>2. CASE Excused(p, f)
      BY <2>2, ExcusedStays
    <2>3. CASE dir[f] = handle[p] /\ dir'[f] # dir[f]
      <3>1. ~OwnFile(p, f) /\ (limits(p).allow_overwrite => Excused(p, f)')
        BY <1>3, <2>1, <2>3, Gone
      <3> QED
        BY <2>1, <2>3, <3>1 DEF OwnFile
    <2> QED
      BY <2>1, <2>2, <2>3
  <1>7. pc'[p] = "copy" /\ ~limits(p)'.allow_overwrite => handle'[p] = <<p, next'[p]>>
    BY <1>2, <1>3 DEF FilesInPlace
  <1>8. ASSUME NEW f \in File, NEW i \in 1..MaxLen, dir'[f] = <<p, i>>
        PROVE  \/ \E k \in DOMAIN out'[p] : out'[p][k] = <<f, i>>
               \/ pc'[p] = "copy" /\ f = target'[p] /\ i = next'[p]
    <2>1. dir[f] = <<p, i>>
      BY <1>8
    <2>2. \/ \E k \in DOMAIN out[p] : out[p][k] = <<f, i>>
          \/ pc[p] = "copy" /\ f = target[p] /\ i = next[p]
      BY <1>3, <2>1 DEF FilesInPlace
    <2> QED
      BY <2>2
  <1>9. InPlaceAfter(p)
    BY <1>4, <1>5, <1>6, <1>7, <1>8 DEF InPlaceAfter
  <1> QED
    BY <1>0, <1>1, <1>9, InPlaceIntro

\* symlink_metadata finds something to overwrite.
LEMMA InPlaceStat ==
  ASSUME IndInv, IndInv', [Next]_vars, \A q \in Proc : FilesInPlace(q),
         NEW p \in Proc, Stat(p), pc'[p] = "overwrite"
  PROVE  FilesInPlace(p)'
  <1>0. Typed' /\ TypeOK /\ CursorInArchive
    BY DEF IndInv, Typed
  <1>1. /\ pc[p] = "stat" /\ dir[target[p]] \notin {Absent, Link} /\ target[p] \in File
        /\ UNCHANGED <<dir, out, req, target>>
    BY <1>0 DEF Stat, Fail, TypeOK, CursorInArchive, fs
  <1>2. dir[target[p]] \in Inode \cup {Dir}
    BY <1>0, <1>1 DEF TypeOK, Node
  <1>3. Live(p) /\ FilesInPlace(p) /\ limits(p)' = limits(p)
    BY <1>1 DEF Live, Running, limits
  <1>4. ASSUME NEW k \in DOMAIN out'[p], NEW f \in File, f = out'[p][k][1]
        PROVE  /\ dir'[f] \in Inode \/ Excused(p, f)'
               /\ ~limits(p)'.allow_overwrite => dir'[f] = <<p, out'[p][k][2]>>
    BY <1>1, <1>3, <1>4, ReportedHeld
  <1>5. ASSUME NEW f \in File, NEW i \in 1..MaxLen, dir'[f] = <<p, i>>
        PROVE  \E k \in DOMAIN out'[p] : out'[p][k] = <<f, i>>
    <2>1. \E k \in DOMAIN out[p] : out[p][k] = <<f, i>>
      BY <1>1, <1>3, <1>5 DEF FilesInPlace
    <2> QED
      BY <1>1, <2>1
  <1>6. InPlaceAfter(p)
    BY <1>1, <1>2, <1>4, <1>5 DEF InPlaceAfter
  <1> QED
    BY <1>0, <1>6, InPlaceIntro

\* A file is created.
LEMMA InPlaceCreate ==
  ASSUME IndInv, IndInv', [Next]_vars, \A q \in Proc : FilesInPlace(q),
         NEW p \in Proc, CreateNew(p), pc'[p] = "copy"
  PROVE  FilesInPlace(p)'
  <1>0. Typed' /\ TypeOK /\ CursorInArchive
    BY DEF IndInv, Typed
  <1>1. /\ pc[p] = "create" /\ target[p] \in File
        /\ dir' = [dir EXCEPT ![target[p]] = <<p, next[p]>>]
        /\ handle'[p] = <<p, next[p]>> /\ UNCHANGED <<out, req, target, next>>
    BY <1>0 DEF CreateNew, Fail, TypeOK, CursorInArchive
  <1>2. dir'[target[p]] = <<p, next[p]>> /\ \A f \in File : f # target[p] => dir'[f] = dir[f]
    BY <1>0, <1>1 DEF TypeOK
  <1>3. Live(p) /\ FilesInPlace(p) /\ limits(p)' = limits(p)
    BY <1>1 DEF Live, Running, limits
  <1>4. ASSUME NEW k \in DOMAIN out'[p], NEW f \in File, f = out'[p][k][1]
        PROVE  /\ dir'[f] \in Inode \/ Excused(p, f)'
               /\ ~limits(p)'.allow_overwrite => dir'[f] = <<p, out'[p][k][2]>>
    BY <1>1, <1>3, <1>4, ReportedHeld
  <1>5. ASSUME NEW f \in File, NEW i \in 1..MaxLen, dir'[f] = <<p, i>>
        PROVE  \/ \E k \in DOMAIN out'[p] : out'[p][k] = <<f, i>>
               \/ pc'[p] = "copy" /\ f = target'[p] /\ i = next'[p]
    <2>1. CASE f = target[p]
      BY <1>1, <1>2, <1>5, <2>1
    <2>2. CASE f # target[p]
      <3>1. \E k \in DOMAIN out[p] : out[p][k] = <<f, i>>
        BY <1>1, <1>2, <1>3, <1>5, <2>2 DEF FilesInPlace
      <3> QED
        BY <1>1, <3>1
    <2> QED
      BY <2>1, <2>2
  <1>6. InPlaceAfter(p)
    BY <1>1, <1>2, <1>4, <1>5 DEF InPlaceAfter
  <1> QED
    BY <1>0, <1>6, InPlaceIntro

\* A file is opened to be overwritten.
LEMMA InPlaceOpen ==
  ASSUME IndInv, IndInv', [Next]_vars, \A q \in Proc : FilesInPlace(q),
         NEW p \in Proc, OpenTruncate(p), pc'[p] = "copy"
  PROVE  FilesInPlace(p)'
  <1>0. Typed' /\ TypeOK /\ CursorInArchive /\ HandleOwned
    BY DEF IndInv, Typed
  <1>1. /\ pc[p] = "overwrite" /\ target[p] \in File
        /\ \/ dir[target[p]] \in Inode /\ handle'[p] = dir[target[p]]
           \/ dir[target[p]] = Link
        /\ UNCHANGED <<dir, out, req, target, err>>
    BY <1>0 DEF OpenTruncate, Truncate, Fail, TypeOK, CursorInArchive
  <1>2. Live(p) /\ FilesInPlace(p) /\ limits(p)' = limits(p) /\ limits(p).allow_overwrite
    BY <1>0, <1>1 DEF Live, Running, limits, HandleOwned
  <1>3. ASSUME NEW k \in DOMAIN out'[p], NEW f \in File, f = out'[p][k][1]
        PROVE  /\ dir'[f] \in Inode \/ Excused(p, f)'
               /\ ~limits(p)'.allow_overwrite => dir'[f] = <<p, out'[p][k][2]>>
    BY <1>1, <1>2, <1>3, ReportedHeld
  <1>4. ASSUME NEW f \in File, f = target'[p]
        PROVE  dir'[f] = handle'[p] \/ Excused(p, f)'
    <2>1. CASE dir[f] = Link
      <3>1. Link \notin Inode \cup {Dir}
        BY NodesAssumption
      <3>2. Excused(p, f)
        BY <1>1, <1>2, <1>4, <2>1, <3>1 DEF FilesInPlace
      <3> QED
        BY <3>2, ExcusedStays
    <2> QED
      BY <1>1, <1>4, <2>1
  <1>5. ASSUME NEW f \in File, NEW i \in 1..MaxLen, dir'[f] = <<p, i>>
        PROVE  \E k \in DOMAIN out'[p] : out'[p][k] = <<f, i>>
    <2>1. \E k \in DOMAIN out[p] : out[p][k] = <<f, i>>
      BY <1>1, <1>2, <1>5 DEF FilesInPlace
    <2> QED
      BY <1>1, <2>1
  <1>6. InPlaceAfter(p)
    BY <1>2, <1>3, <1>4, <1>5 DEF InPlaceAfter
  <1> QED
    BY <1>0, <1>6, InPlaceIntro

\* A file is reported.
LEMMA InPlaceCopied ==
  ASSUME IndInv, IndInv', [Next]_vars, \A q \in Proc : FilesInPlace(q),
         NEW p \in Proc, CopyDone(p)
  PROVE  FilesInPlace(p)'
  <1>0. Typed' /\ TypeOK /\ CursorInArchive
    BY DEF IndInv, Typed
  <1> DEFINE n == Len(out[p])
  <1>1. /\ pc[p] = "copy" /\ pc'[p] = "next" /\ handle[p] \in Inode
        /\ UNCHANGED <<dir, req, target, err>>
        /\ out'[p] = Append(out[p], <<target[p], next[p]>>)
        /\ out[p] \in Seq(File \X (1..MaxLen))
    BY <1>0 DEF CopyDone, TypeOK, CursorInArchive, fs
  <1>2. Live(p) /\ FilesInPlace(p) /\ limits(p)' = limits(p)
    BY <1>1 DEF Live, Running, limits
  <1>3. /\ n \in Nat /\ DOMAIN out[p] = 1..n /\ DOMAIN out'[p] = 1..(n + 1)
        /\ out'[p][n + 1] = <<target[p], next[p]>> /\ \A k \in 1..n : out'[p][k] = out[p][k]
    BY <1>1
  <1> HIDE DEF n
  <1>4. ASSUME NEW k \in DOMAIN out'[p], NEW f \in File, f = out'[p][k][1]
        PROVE  /\ dir'[f] \in Inode \/ Excused(p, f)'
               /\ ~limits(p)'.allow_overwrite => dir'[f] = <<p, out'[p][k][2]>>
    <2>1. CASE k = n + 1
      <3>1. f = target[p] /\ out'[p][k][2] = next[p]
        BY <1>3, <1>4, <2>1
      <3>2. /\ dir[f] = handle[p] \/ Excused(p, f)
            /\ ~limits(p).allow_overwrite => handle[p] = <<p, next[p]>>
        BY <1>1, <1>2, <3>1 DEF FilesInPlace
      <3>3. Excused(p, f) => Excused(p, f)' /\ limits(p).allow_overwrite
        BY ExcusedStays DEF Excused
      <3> QED
        BY <1>1, <1>2, <3>1, <3>2, <3>3
    <2>2. CASE k # n + 1
      <3>1. k \in DOMAIN out[p] /\ out'[p][k] = out[p][k]
        BY <1>3, <2>2
      <3> QED
        BY <1>2, <1>4, <3>1, ReportedHeld
    <2> QED
      BY <2>1, <2>2
  <1>5. ASSUME NEW f \in File, NEW i \in 1..MaxLen, dir'[f] = <<p, i>>
        PROVE  \E k \in DOMAIN out'[p] : out'[p][k] = <<f, i>>
    <2>1. \/ \E k \in DOMAIN out[p] : out[p][k] = <<f, i>>
          \/ f = target[p] /\ i = next[p]
      BY <1>1, <1>2, <1>5 DEF FilesInPlace
    <2>2. CASE f = target[p] /\ i = next[p]
      <3>1. n + 1 \in DOMAIN out'[p]
        BY <1>3
      <3> QED
        BY <1>3, <2>2, <3>1
    <2>3. ASSUME NEW k \in DOMAIN out[p], out[p][k] = <<f, i>>
          PROVE  \E j \in DOMAIN out'[p] : out'[p][j] = <<f, i>>
      <3>1. k \in DOMAIN out'[p] /\ out'[p][k] = <<f, i>>
        BY <1>3, <2>3
      <3> QED
        BY <3>1
    <2> QED
      BY <2>1, <2>2, <2>3
  <1>6. InPlaceAfter(p)
    BY <1>1, <1>4, <1>5 DEF InPlaceAfter
  <1> QED
    BY <1>0, <1>1, <1>6, InPlaceIntro

LEMMA InPlaceInit == Init => \A p \in Proc : FilesInPlace(p)
  <1> SUFFICES ASSUME Init, NEW p \in Proc PROVE FilesInPlace(p)
    OBVIOUS
  <1>1. pc[p] = "start" /\ out[p] = <<>>
    BY DEF Init
  <1>2. \A f \in File : ~OwnFile(p, f)
    BY NodeFacts DEF Init, OwnFile, UserInode
  <1>3. DOMAIN out[p] = {}
    BY <1>1
  <1>4. \A f \in File, i \in 1..MaxLen : dir[f] # <<p, i>>
    BY <1>2 DEF OwnFile
  <1> QED
    BY <1>1, <1>3, <1>4 DEF FilesInPlace

LEMMA InPlaceNext ==
  ASSUME IndInv, IndInv', [Next]_vars, \A q \in Proc : FilesInPlace(q), NEW p \in Proc
  PROVE  FilesInPlace(p)'
  <1>0. TypeOK
    BY DEF IndInv
  <1>1. ASSUME ~(CreateNew(p) /\ pc'[p] = "copy")
        PROVE  \A f \in File, i \in 1..MaxLen : dir'[f] = <<p, i>> => dir[f] = <<p, i>>
    <2> SUFFICES ASSUME NEW f \in File, NEW i \in 1..MaxLen, dir'[f] = <<p, i>>,
                        dir'[f] # dir[f]
                 PROVE  FALSE
      OBVIOUS
    <2>1. <<p, i>> \notin {Absent, Dir, Link} /\ <<p, i>> # f
      BY NodeFacts
    <2>2. Appears(f)
      BY <2>1, DirMoves DEF Swapped, Removed
    <2>3. PICK q \in Proc : CreateNew(q) /\ pc'[q] = "copy" /\ dir'[f] = <<q, next[q]>>
      BY <2>1, <2>2 DEF Appears
    <2> QED
      BY <1>1, <2>3
  <1>2. ASSUME NEW q \in Proc, q # p, Step(q) \/ IoError(q) \/ Crash(q)
        PROVE  FilesInPlace(p)'
    <2>1. /\ out'[p] = out[p] /\ pc'[p] = pc[p] /\ target'[p] = target[p]
          /\ handle'[p] = handle[p] /\ next'[p] = next[p]
      <3>1. CASE Start(q) \/ HeaderPastCeiling(q) \/ EndOfArchive(q) \/ MakeDir(q)
                 \/ Stat(q) \/ CreateNew(q) \/ OpenTruncate(q) \/ CopyBlock(q)
        BY <1>0, <1>2, <3>1 DEF Start, HeaderPastCeiling, EndOfArchive, MakeDir, Stat,
           CreateNew, OpenTruncate, Truncate, CopyBlock, Fail, TypeOK
      <3>2. CASE CopyDone(q) \/ RemoveCreated(q) \/ ReturnError(q) \/ IoError(q) \/ Crash(q)
        BY <1>0, <1>2, <3>2 DEF CopyDone, RemoveCreated, ReturnError, IoError, Crash,
           Fail, TypeOK
      <3>3. CASE ReadEntry(q)
        BY <1>0, <1>2, <3>3 DEF ReadEntry, Fail, TypeOK
      <3> QED
        BY <1>2, <3>1, <3>2, <3>3 DEF Step
    <2>2. ~(CreateNew(p) /\ pc'[p] = "copy")
      BY <2>1 DEF CreateNew
    <2> QED
      BY <1>1, <2>1, <2>2, InPlaceQuiet
  <1>3. CASE User \/ Done \/ UNCHANGED vars
    <2>1. UNCHANGED <<out, pc, target, handle, next>>
      BY <1>3 DEF User, Done, vars
    <2>2. ~(CreateNew(p) /\ pc'[p] = "copy")
      BY <2>1 DEF CreateNew
    <2> QED
      BY <1>1, <2>1, <2>2, InPlaceQuiet
  <1>4. CASE Step(p) \/ IoError(p) \/ Crash(p)
    <2>1. CASE \/ Stat(p) /\ pc'[p] = "overwrite"
               \/ CreateNew(p) /\ pc'[p] = "copy"
               \/ OpenTruncate(p) /\ pc'[p] = "copy"
               \/ CopyDone(p)
      BY <2>1, InPlaceStat, InPlaceCreate, InPlaceOpen, InPlaceCopied
    <2>2. CASE CopyBlock(p)
      <3>1. /\ UNCHANGED <<out, target, next>> /\ pc[p] = "copy"
            /\ (pc'[p] = "copy" /\ handle'[p] = handle[p]) \/ pc'[p] = "cleanup"
        BY <1>0, <2>2 DEF CopyBlock, Fail, TypeOK
      <3>2. ~CreateNew(p)
        BY <3>1 DEF CreateNew
      <3> QED
        BY <1>1, <3>1, <3>2, InPlaceQuiet DEF Live, Running
    <2>3. CASE RemoveCreated(p) \/ ReturnError(p) \/ IoError(p) \/ Crash(p)
      <3>1. UNCHANGED out /\ pc'[p] \notin Running \cup {"ok"}
        BY <1>0, <2>3 DEF RemoveCreated, ReturnError, IoError, Crash, Fail, TypeOK,
           Running
      <3> QED
        BY <1>1, <3>1, InPlaceQuiet DEF Live, Running
    <2>4. CASE /\ \/ Start(p) \/ HeaderPastCeiling(p) \/ EndOfArchive(p) \/ ReadEntry(p)
                  \/ MakeDir(p) \/ Stat(p) \/ CreateNew(p) \/ OpenTruncate(p)
               /\ pc'[p] \notin {"overwrite", "copy"}
      <3>1. UNCHANGED out /\ pc[p] # "copy"
        BY <2>4 DEF Start, HeaderPastCeiling, EndOfArchive, ReadEntry, MakeDir, Stat,
           CreateNew, OpenTruncate
      <3> QED
        BY <1>1, <2>4, <3>1, InPlaceQuiet
    <2>5. ASSUME pc'[p] \in {"overwrite", "copy"}
          PROVE  /\ ~Start(p) /\ ~HeaderPastCeiling(p) /\ ~EndOfArchive(p)
                 /\ ~ReadEntry(p) /\ ~MakeDir(p)
                 /\ Stat(p) => pc'[p] = "overwrite"
                 /\ CreateNew(p) \/ OpenTruncate(p) => pc'[p] = "copy"
      BY <1>0, <2>5 DEF Start, HeaderPastCeiling, EndOfArchive, ReadEntry, MakeDir, Stat,
         CreateNew, OpenTruncate, Truncate, Fail, TypeOK
    <2>6. CASE pc'[p] \in {"overwrite", "copy"}
      BY <1>4, <2>1, <2>2, <2>3, <2>5, <2>6 DEF Step
    <2>7. CASE pc'[p] \notin {"overwrite", "copy"}
      BY <1>4, <2>1, <2>2, <2>3, <2>4, <2>7 DEF Step
    <2> QED
      BY <2>6, <2>7
  <1> QED
    BY <1>2, <1>3, <1>4 DEF Next

-----------------------------------------------------------------------------
(* Contents.                                                               *)

\* Writing at the end of n equal blocks makes n + 1 of them.
LEMMA WriteAppends ==
  ASSUME NEW n \in Nat, NEW b
  PROVE  WriteAt([j \in 1..n |-> b], n, b) = [j \in 1..(n + 1) |-> b]
  <1> DEFINE s == [j \in 1..n |-> b]
  <1>1. Len(s) = n
    OBVIOUS
  <1>2. \A j \in 1..n : s[j] = b
    OBVIOUS
  <1> HIDE DEF s
  <1>3. WriteAt(s, n, b) =
          [j \in 1..(n + 1) |-> IF j = n + 1 THEN b
                                ELSE IF j <= n THEN s[j] ELSE Hole]
    BY <1>1 DEF WriteAt
  <1>4. \A j \in 1..(n + 1) : (IF j = n + 1 THEN b ELSE IF j <= n THEN s[j] ELSE Hole) = b
    BY <1>2
  <1> QED
    BY <1>3, <1>4 DEF s

LEMMA NoBlocks ==
  ASSUME NEW b
  PROVE  <<>> = [j \in 1..0 |-> b]
  OBVIOUS

\* One who relies on his files has nobody to excuse.
LEMMA Unexcused ==
  ASSUME NEW p \in Proc, Undisturbed(p), NEW f
  PROVE  ~Excused(p, f)
  BY DEF Undisturbed, NoOverwrite, Alone, Excused

\* Names only become more, and limits stay.
LEMMA UndisturbedBefore ==
  ASSUME IndInv, [Next]_vars, NEW p \in Proc, Undisturbed(p)'
  PROVE  Undisturbed(p)
  <1>0. TypeOK
    BY DEF IndInv
  <1>1. \A q \in Proc : limits(q)' = limits(q)
    BY <1>0, FailureStays DEF limits
  <1>2. seen[p] \subseteq seen'[p]
    <2>1. ASSUME NEW q \in Proc, ReadEntry(q)
          PROVE  seen[p] \subseteq seen'[p]
      <3>1. \/ UNCHANGED seen
            \/ \E f \in File : seen' = [seen EXCEPT ![q] = seen[q] \cup {f}]
        BY <2>1 DEF ReadEntry, SafeRelativePath
      <3> QED
        BY <1>0, <3>1 DEF TypeOK
    <2>2. ASSUME NEW q \in Proc,
                 \/ Start(q) \/ HeaderPastCeiling(q) \/ EndOfArchive(q) \/ MakeDir(q)
                 \/ Stat(q) \/ CreateNew(q) \/ OpenTruncate(q) \/ CopyBlock(q)
                 \/ CopyDone(q) \/ RemoveCreated(q) \/ ReturnError(q) \/ IoError(q)
                 \/ Crash(q)
          PROVE  UNCHANGED seen
      BY <2>2 DEF Start, HeaderPastCeiling, EndOfArchive, MakeDir, Stat, CreateNew,
         OpenTruncate, CopyBlock, CopyDone, RemoveCreated, ReturnError, IoError, Crash
    <2>3. CASE User \/ Done \/ UNCHANGED vars
      BY <2>3 DEF User, Done, vars
    <2> QED
      BY <2>1, <2>2, <2>3 DEF Next, Step
  <1>3. CASE NoOverwrite'
    BY <1>1, <1>3 DEF Undisturbed, NoOverwrite
  <1>4. CASE Alone(p)' /\ NamesApart(p)'
    BY <1>2, <1>4 DEF Undisturbed, Alone, NamesApart
  <1> QED
    BY <1>3, <1>4 DEF Undisturbed

\* The file of such a call stays in the directory.
LEMMA StaysInPlace ==
  ASSUME IndInv, [Next]_vars, \A q \in Proc : FilesInPlace(q),
         NEW p \in Proc, Live(p), Undisturbed(p)', NEW f \in File,
         dir[f] \in Inode, ~limits(p).allow_overwrite => OwnFile(p, f)
  PROVE  dir'[f] = dir[f]
  <1>1. ~Excused(p, f)'
    BY DEF Undisturbed, NoOverwrite, Alone, Excused
  <1> QED
    BY <1>1, Gone

\* Whose inodes a step may write to.
LEMMA WhoWrites ==
  ASSUME IndInv, [Next]_vars, NEW i \in Inode, content'[i] # content[i]
  PROVE  \E q \in Proc :
           \/ CopyBlock(q) /\ pc[q] = "copy" /\ i = handle[q]
           \/ OpenTruncate(q) /\ pc[q] = "overwrite" /\ i \in {dir[target[q]], Outside}
  <1>0. TypeOK
    BY DEF IndInv
  <1>1. ASSUME NEW q \in Proc, CopyBlock(q)
        PROVE  pc[q] = "copy" /\ i = handle[q]
    BY <1>0, <1>1 DEF CopyBlock, TypeOK
  <1>2. ASSUME NEW q \in Proc, OpenTruncate(q)
        PROVE  pc[q] = "overwrite" /\ i \in {dir[target[q]], Outside}
    BY <1>0, <1>2 DEF OpenTruncate, Truncate, TypeOK
  <1>3. ASSUME NEW q \in Proc,
               \/ Start(q) \/ HeaderPastCeiling(q) \/ EndOfArchive(q)
               \/ ReadEntry(q) \/ MakeDir(q) \/ Stat(q) \/ CreateNew(q)
               \/ CopyDone(q) \/ RemoveCreated(q) \/ ReturnError(q)
               \/ IoError(q) \/ Crash(q)
        PROVE  UNCHANGED content
    BY <1>3 DEF Start, HeaderPastCeiling, EndOfArchive, ReadEntry, MakeDir,
       Stat, CreateNew, CopyDone, RemoveCreated, ReturnError, IoError, Crash, fs
  <1>4. CASE User \/ Done \/ UNCHANGED vars
    BY <1>4 DEF User, Done, vars
  <1> QED
    BY <1>1, <1>2, <1>3, <1>4 DEF Next, Step

\* What has been reported is not written to again.
LEMMA ReportedUntouched ==
  ASSUME DeliveryInv, [Next]_vars, NEW p \in Proc, Live(p), Undisturbed(p)',
         NEW k \in DOMAIN out[p], NEW f \in File, f = out[p][k][1]
  PROVE  dir[f] \in Inode /\ dir'[f] = dir[f] /\ content'[dir[f]] = content[dir[f]]
  <1>0. /\ IndInv /\ InodesApart /\ TypeOK /\ CursorInArchive /\ HandleOwned
        /\ \A q \in Proc : FilesInPlace(q) /\ ResultSoFar(q)
    BY DEF DeliveryInv, IndInv
  <1>1. Undisturbed(p) /\ \A g : ~Excused(p, g)
    BY <1>0, UndisturbedBefore, Unexcused
  <1> DEFINE i == out[p][k][2]
  <1>2. i \in 1..MaxLen /\ i < next[p] /\ next[p] \in Nat
    <2>1. out[p] \in Seq(File \X (1..MaxLen)) /\ next[p] \in Nat
      BY <1>0 DEF TypeOK
    <2>2. out[p][k] \in File \X (1..MaxLen)
      BY <2>1
    <2>3. i < next[p]
      BY <1>0 DEF ResultSoFar
    <2> QED
      BY <2>1, <2>2, <2>3
  <1>3. dir[f] \in Inode /\ (~limits(p).allow_overwrite => dir[f] = <<p, i>>)
    BY <1>0, <1>1 DEF FilesInPlace
  <1> HIDE DEF i
  <1>4. dir'[f] = dir[f]
    BY <1>0, <1>2, <1>3, StaysInPlace DEF OwnFile
  <1>5. ASSUME content'[dir[f]] # content[dir[f]] PROVE FALSE
    <2>1. PICK q \in Proc :
            \/ CopyBlock(q) /\ pc[q] = "copy" /\ dir[f] = handle[q]
            \/ OpenTruncate(q) /\ pc[q] = "overwrite" /\ dir[f] \in {dir[target[q]], Outside}
      BY <1>0, <1>3, <1>5, WhoWrites
    <2>2. CASE NoOverwrite
      <3>1. ~limits(p).allow_overwrite /\ ~limits(q).allow_overwrite
        BY <2>2 DEF NoOverwrite
      <3>2. pc[q] = "copy" /\ dir[f] = handle[q]
        BY <1>0, <2>1, <3>1 DEF HandleOwned
      <3>3. handle[q] = <<q, next[q]>>
        BY <1>0, <3>1, <3>2 DEF FilesInPlace, Live, Running
      <3>4. q = p /\ i = next[p]
        BY <1>3, <3>1, <3>2, <3>3
      <3> QED
        BY <1>2, <3>4
    <2>3. CASE Alone(p) /\ NamesApart(p)
      <3>1. q = p
        BY <2>3 DEF Alone
      <3>2. target[p] \in File /\ f # target[p]
        BY <1>0, <2>1, <2>3, <3>1 DEF CursorInArchive, ResultSoFar, AtEntry
      <3>3. dir[f] # Outside /\ dir[f] # dir[target[p]]
        BY <1>0, <1>3, <3>2 DEF InodesApart
      <3>4. pc[p] = "copy" => handle[p] = dir[target[p]]
        BY <1>0, <1>1 DEF FilesInPlace
      <3> QED
        BY <2>1, <3>1, <3>3, <3>4
    <2> QED
      BY <1>1, <2>2, <2>3 DEF Undisturbed
  <1> QED
    BY <1>3, <1>4, <1>5

\* Nor is the file being written, by others.
LEMMA WrittenAlone ==
  ASSUME DeliveryInv, [Next]_vars, NEW p \in Proc, Undisturbed(p), pc[p] = "copy",
         ~CopyBlock(p)
  PROVE  content'[handle[p]] = content[handle[p]]
  <1>0. /\ IndInv /\ CursorInArchive /\ HandleOwned /\ \A q \in Proc : FilesInPlace(q)
    BY DEF DeliveryInv, IndInv
  <1>1. handle[p] \in Inode
    BY <1>0 DEF CursorInArchive
  <1>2. ASSUME content'[handle[p]] # content[handle[p]] PROVE FALSE
    <2>1. PICK q \in Proc :
            \/ CopyBlock(q) /\ pc[q] = "copy" /\ handle[p] = handle[q]
            \/ OpenTruncate(q) /\ pc[q] = "overwrite"
      BY <1>0, <1>1, <1>2, WhoWrites
    <2>2. q # p
      BY <2>1
    <2>3. NoOverwrite
      BY <2>2 DEF Undisturbed, Alone
    <2>4. ~limits(p).allow_overwrite /\ ~limits(q).allow_overwrite
      BY <2>3 DEF NoOverwrite
    <2>5. pc[q] = "copy" /\ handle[p] = handle[q]
      BY <1>0, <2>1, <2>4 DEF HandleOwned
    <2>6. handle[q] = <<q, next[q]>> /\ handle[p] = <<p, next[p]>>
      BY <1>0, <2>4, <2>5 DEF FilesInPlace, Live, Running
    <2> QED
      BY <2>2, <2>5, <2>6
  <1> QED
    BY <1>2

\* The file that a call starts to write is empty, and grows by its blocks.
LEMMA WrittenNext ==
  ASSUME DeliveryInv, IndInv', [Next]_vars, NEW p \in Proc, Undisturbed(p)',
         pc'[p] = "copy"
  PROVE  content'[handle'[p]] = [j \in 1..pos'[p] |-> <<p, next'[p]>>]
  <1>0. /\ IndInv /\ InodesApart /\ TypeOK /\ CursorInArchive /\ HandleOwned
        /\ \A q \in Proc : FilesInPlace(q) /\ ResultSoFar(q) /\ ContentRight(q)
    BY DEF DeliveryInv, IndInv
  <1>1. Undisturbed(p) /\ \A g : ~Excused(p, g)
    BY <1>0, UndisturbedBefore, Unexcused
  <1>2. CASE CreateNew(p)
    <2>1. /\ pc[p] = "create" /\ handle'[p] = <<p, next[p]>>
          /\ UNCHANGED <<content, next, pos>>
      BY <1>0, <1>2 DEF CreateNew, Fail, TypeOK
    <2>2. pos[p] = 0
      BY <1>0, <2>1 DEF ResultSoFar, AtEntry
    <2>3. next[p] \in 1..MaxLen /\ ~(next[p] < next[p])
      <3>1. next[p] \in Nat \ {0} /\ next[p] <= Len(archive(p))
        BY <1>0, <2>1 DEF TypeOK, CursorInArchive
      <3>2. Len(archive(p)) <= MaxLen /\ Len(archive(p)) \in Nat
        BY <1>0, RequestFacts
      <3> QED
        BY <3>1, <3>2, RequestsAssumption
    <2>4. ~Used(p, next[p])
      BY <2>1, <2>3 DEF Used, Running
    <2>5. content[<<p, next[p]>>] = <<>>
      BY <1>0, <2>3, <2>4 DEF InodesApart
    <2> QED
      BY <2>1, <2>2, <2>5, NoBlocks
  <1>3. CASE OpenTruncate(p)
    <2>1. /\ pc[p] = "overwrite" /\ UNCHANGED <<next, pos>> /\ target[p] \in File
          /\ handle'[p] \in Inode /\ content' = [content EXCEPT ![handle'[p]] = <<>>]
      BY <1>0, <1>3 DEF OpenTruncate, Truncate, Fail, TypeOK, CursorInArchive, Inode
    <2>2. pos[p] = 0
      BY <1>0, <2>1 DEF ResultSoFar, AtEntry
    <2>3. content'[handle'[p]] = <<>>
      BY <1>0, <2>1 DEF TypeOK
    <2> QED
      BY <2>1, <2>2, <2>3, NoBlocks
  <1>4. CASE CopyBlock(p)
    <2>1. /\ pc[p] = "copy" /\ handle[p] \in Inode /\ pos[p] \in Nat
          /\ handle'[p] = handle[p] /\ next'[p] = next[p] /\ pos'[p] = pos[p] + 1
          /\ content' = [content EXCEPT ![handle[p]] =
                           WriteAt(content[handle[p]], pos[p], <<p, next[p]>>)]
      BY <1>0, <1>4 DEF CopyBlock, Fail, TypeOK, CursorInArchive
    <2>2. content'[handle[p]] = WriteAt(content[handle[p]], pos[p], <<p, next[p]>>)
      BY <1>0, <2>1 DEF TypeOK
    <2>3. content[handle[p]] = [j \in 1..pos[p] |-> <<p, next[p]>>]
      BY <1>0, <1>1, <2>1 DEF ContentRight, Live, Running
    <2>4. WriteAt([j \in 1..pos[p] |-> <<p, next[p]>>], pos[p], <<p, next[p]>>)
            = [j \in 1..(pos[p] + 1) |-> <<p, next[p]>>]
      BY <2>1, WriteAppends
    <2> QED
      BY <2>1, <2>2, <2>3, <2>4
  <1>5. CASE ~CreateNew(p) /\ ~OpenTruncate(p) /\ ~CopyBlock(p)
    <2>1. /\ pc[p] = "copy" /\ handle'[p] = handle[p] /\ next'[p] = next[p]
          /\ pos'[p] = pos[p]
      <3>1. ASSUME NEW q \in Proc, q # p \/ ~(CopyBlock(q) \/ CreateNew(q) \/ OpenTruncate(q)),
                   \/ Start(q) \/ HeaderPastCeiling(q) \/ EndOfArchive(q) \/ MakeDir(q)
                   \/ Stat(q) \/ CreateNew(q) \/ OpenTruncate(q) \/ CopyBlock(q)
            PROVE  <2>1!:
        BY <1>0, <3>1 DEF Start, HeaderPastCeiling, EndOfArchive, MakeDir, Stat,
           CreateNew, OpenTruncate, Truncate, CopyBlock, Fail, TypeOK
      <3>2. ASSUME NEW q \in Proc,
                   \/ CopyDone(q) \/ RemoveCreated(q) \/ ReturnError(q) \/ IoError(q)
                   \/ Crash(q)
            PROVE  <2>1!:
        BY <1>0, <3>2 DEF CopyDone, RemoveCreated, ReturnError, IoError, Crash, Fail,
           TypeOK
      <3>3. ASSUME NEW q \in Proc, ReadEntry(q)
            PROVE  <2>1!:
        BY <1>0, <3>3 DEF ReadEntry, Fail, TypeOK
      <3>4. CASE User \/ Done \/ UNCHANGED vars
        BY <3>4 DEF User, Done, vars
      <3> QED
        BY <1>5, <3>1, <3>2, <3>3, <3>4 DEF Next, Step
    <2>2. content'[handle[p]] = content[handle[p]]
      BY <1>1, <1>5, <2>1, WrittenAlone
    <2>3. content[handle[p]] = [j \in 1..pos[p] |-> <<p, next[p]>>]
      BY <1>0, <1>1, <2>1 DEF ContentRight, Live, Running
    <2> QED
      BY <2>1, <2>2, <2>3
  <1> QED
    BY <1>2, <1>3, <1>4, <1>5

LEMMA ContentInit == Init => \A p \in Proc : ContentRight(p)
  <1> SUFFICES ASSUME Init, NEW p \in Proc PROVE ContentRight(p)
    OBVIOUS
  <1>1. pc[p] = "start" /\ DOMAIN out[p] = {}
    BY DEF Init
  <1> QED
    BY <1>1 DEF ContentRight

LEMMA ContentNext ==
  ASSUME DeliveryInv, IndInv', [Next]_vars, NEW p \in Proc
  PROVE  ContentRight(p)'
  <1>0. /\ IndInv /\ TypeOK /\ CursorInArchive
        /\ \A q \in Proc : FilesInPlace(q) /\ ContentRight(q)
    BY DEF DeliveryInv, IndInv
  <1> SUFFICES ASSUME Live(p)', Undisturbed(p)'
               PROVE  /\ \A k \in DOMAIN out'[p] :
                           content'[dir'[out'[p][k][1]]] = Complete(p, out[p][k][2])'
                      /\ pc'[p] = "copy" =>
                           content'[handle'[p]] = [j \in 1..pos'[p] |-> <<p, next'[p]>>]
    BY DEF ContentRight
  <1>1. Live(p) /\ Undisturbed(p) /\ req'[p] = req[p]
    BY <1>0, FailureStays, UndisturbedBefore
  <1>3. ASSUME NEW k \in DOMAIN out[p]
        PROVE  content'[dir'[out[p][k][1]]] = Complete(p, out[p][k][2])
    <2>1. out[p] \in Seq(File \X (1..MaxLen))
      BY <1>0 DEF TypeOK
    <2>2. out[p][k] \in File \X (1..MaxLen)
      BY <2>1
    <2>3. PICK f \in File : f = out[p][k][1]
      BY <2>2
    <2>4. content[dir[f]] = Complete(p, out[p][k][2])
      BY <1>0, <1>1, <2>3 DEF ContentRight
    <2>5. dir'[f] = dir[f] /\ content'[dir[f]] = content[dir[f]]
      BY <1>1, <2>3, ReportedUntouched
    <2> QED
      BY <2>3, <2>4, <2>5
  <1>4. ASSUME NEW k \in DOMAIN out'[p]
        PROVE  content'[dir'[out'[p][k][1]]] = Complete(p, out'[p][k][2])
    <2>1. CASE CopyDone(p)
      <3> DEFINE n == Len(out[p])
      <3>1. /\ pc[p] = "copy" /\ UNCHANGED <<dir, content>>
            /\ pos[p] = archive(p)[next[p]].size
            /\ out'[p] = Append(out[p], <<target[p], next[p]>>)
            /\ out[p] \in Seq(File \X (1..MaxLen))
        BY <1>0, <2>1 DEF CopyDone, TypeOK, fs
      <3>2. /\ n \in Nat /\ DOMAIN out[p] = 1..n /\ DOMAIN out'[p] = 1..(n + 1)
            /\ out'[p][n + 1] = <<target[p], next[p]>>
            /\ \A j \in 1..n : out'[p][j] = out[p][j]
        BY <3>1
      <3> HIDE DEF n
      <3>3. CASE k = n + 1
        <4>1. out'[p][k][1] = target[p] /\ out'[p][k][2] = next[p]
          BY <3>2, <3>3
        <4>2. dir[target[p]] = handle[p]
          BY <1>0, <1>1, <3>1, Unexcused DEF FilesInPlace
        <4>3. content[handle[p]] = [j \in 1..pos[p] |-> <<p, next[p]>>]
          BY <1>0, <1>1, <3>1 DEF ContentRight
        <4> QED
          BY <3>1, <4>1, <4>2, <4>3 DEF Complete
      <3>4. CASE k # n + 1
        <4>1. k \in DOMAIN out[p] /\ out'[p][k] = out[p][k]
          BY <3>2, <3>4
        <4> QED
          BY <1>3, <4>1
      <3> QED
        BY <3>3, <3>4
    <2>2. CASE ~CopyDone(p)
      <3>1. out'[p] = out[p]
        <4>1. ASSUME NEW q \in Proc, CopyDone(q)
              PROVE  out'[p] = out[p]
          BY <1>0, <2>2, <4>1 DEF CopyDone, TypeOK
        <4>2. ASSUME NEW q \in Proc,
                     \/ Start(q) \/ HeaderPastCeiling(q) \/ EndOfArchive(q)
                     \/ ReadEntry(q) \/ MakeDir(q) \/ Stat(q) \/ CreateNew(q)
                     \/ OpenTruncate(q) \/ CopyBlock(q) \/ RemoveCreated(q)
                     \/ ReturnError(q) \/ IoError(q) \/ Crash(q)
              PROVE  UNCHANGED out
          BY <4>2 DEF Start, HeaderPastCeiling, EndOfArchive, ReadEntry, MakeDir, Stat,
             CreateNew, OpenTruncate, CopyBlock, RemoveCreated, ReturnError, IoError,
             Crash
        <4>3. CASE User \/ Done \/ UNCHANGED vars
          BY <4>3 DEF User, Done, vars
        <4> QED
          BY <4>1, <4>2, <4>3 DEF Next, Step
      <3> QED
        BY <1>3, <1>4, <3>1
    <2> QED
      BY <2>1, <2>2
  <1>5. ASSUME NEW k \in DOMAIN out'[p]
        PROVE  content'[dir'[out'[p][k][1]]] = Complete(p, out[p][k][2])'
    <2>1. PICK i : i = out'[p][k][2]
      OBVIOUS
    <2>2. archive(p)' = archive(p)
      BY <1>1 DEF archive
    <2>3. Complete(p, i)' = Complete(p, i)
      BY <2>2, Zenon DEF Complete
    <2>4. Complete(p, out[p][k][2])' = Complete(p, i)'
      BY <2>1, Zenon DEF Complete
    <2> QED
      BY <1>4, <2>1, <2>3, <2>4
  <1> QED
    BY <1>5, WrittenNext

-----------------------------------------------------------------------------
(* The theorems.                                                           *)

\* The inductive invariant: besides IndInv, that inodes are under one name and
\* written once, what the result of a call holds, where its files are and what
\* is in them (unpack_inner).
THEOREM DeliveryInvariance == Spec => []DeliveryInv
  <1>1. Init /\ IndInv => DeliveryInv
    BY InodesInit, ResultInit, InPlaceInit, ContentInit DEF DeliveryInv
  <1>2. IndInv' /\ DeliveryInv /\ [Next]_vars => DeliveryInv'
    <2> SUFFICES ASSUME IndInv', DeliveryInv, [Next]_vars PROVE DeliveryInv'
      OBVIOUS
    <2>1. /\ IndInv /\ InodesApart /\ Typed
          /\ \A p \in Proc : ResultSoFar(p) /\ FilesInPlace(p) /\ ContentRight(p)
      BY DEF DeliveryInv, IndInv, Typed
    <2>2. InodesApart'
      BY <2>1, InodesNext
    <2>3. ASSUME NEW p \in Proc
          PROVE  ResultSoFar(p)' /\ FilesInPlace(p)' /\ ContentRight(p)'
      BY <2>1, ResultNext, InPlaceNext, ContentNext
    <2> QED
      BY <2>2, <2>3 DEF DeliveryInv
  <1> QED
    BY <1>1, <1>2, Invariance, PTL DEF Spec

\* A call that has returned its list can rely on it: every file in the list is
\* in the directory with all of its content, for good, for any number of other
\* calls that may not overwrite, whatever names the file system takes for one;
\* or if the call is alone (unpack_to_dir, create_output, check_unique).
THEOREM ReportedFilesIntact == Spec => []ReportedIntact
  <1>1. DeliveryInv => ReportedIntact
    <2> SUFFICES ASSUME DeliveryInv, NEW p \in Proc, pc[p] = "ok", Undisturbed(p),
                        NEW k \in DOMAIN out[p]
                 PROVE  /\ dir[out[p][k][1]] \in Inode
                        /\ content[dir[out[p][k][1]]] = Complete(p, out[p][k][2])
      BY DEF ReportedIntact, Undisturbed
    <2>1. Live(p) /\ FilesInPlace(p) /\ ContentRight(p)
      BY DEF DeliveryInv, Live
    <2> QED
      BY <2>1, Unexcused DEF FilesInPlace, ContentRight
  <1> QED
    BY <1>1, DeliveryInvariance, PTL

\* A file that a call has created and reported is never removed by another; one
\* that it overwrote goes only by the failure of the call whose file it was, or
\* by the user (unpack_to_dir's cleanup of created).
THEOREM ReportedFilesStay == Spec => []ReportedStays
  <1>1. DeliveryInv => ReportedStays
    <2> SUFFICES ASSUME DeliveryInv, NEW p \in Proc, pc[p] = "ok",
                        NEW k \in DOMAIN out[p], dir[out[p][k][1]] \notin Inode
                 PROVE  Excused(p, out[p][k][1])
      BY DEF ReportedStays, Excused
    <2>1. Live(p) /\ FilesInPlace(p)
      BY DEF DeliveryInv, Live
    <2> QED
      BY <2>1 DEF FilesInPlace
  <1> QED
    BY <1>1, DeliveryInvariance, PTL

-----------------------------------------------------------------------------
(* The refinement.                                                         *)

\* What a reader sees under one name.
ViewAt(d, c, s, f) ==
  IF d[f] \in OwnInode /\ s[d[f][1]] # "ok" THEN Absent
  ELSE IF d[f] \in Inode THEN c[d[f]] ELSE d[f]

LEMMA ViewIs ==
  /\ View = [f \in File |-> ViewAt(dir, content, pc, f)]
  /\ View' = [f \in File |-> ViewAt(dir', content', pc', f)]
  BY DEF View, ViewAt

\* A call that goes on, or has ended, has the outcome it had.
LEMMA OutcomeStays ==
  ASSUME \A q \in Proc : pc'[q] = pc[q] \/ (pc[q] \notin Finished /\ pc'[q] \notin Finished)
  PROVE  Outcome' = Outcome
  <1>1. \A q \in Proc : (IF pc'[q] \in Finished THEN pc'[q] ELSE "running")
                          = (IF pc[q] \in Finished THEN pc[q] ELSE "running")
    OBVIOUS
  <1> QED
    BY <1>1 DEF Outcome

\* A call that ends has its outcome, and only that one.
LEMMA OutcomeEnds ==
  ASSUME TypeOK, NEW p \in Proc, NEW o \in Finished, pc[p] \notin Finished,
         pc' = [pc EXCEPT ![p] = o]
  PROVE  Outcome[p] = "running" /\ Outcome' = [Outcome EXCEPT ![p] = o]
  <1>1. pc'[p] = o /\ \A q \in Proc \ {p} : pc'[q] = pc[q]
    BY DEF TypeOK
  <1> QED
    BY <1>1 DEF Outcome

\* A file that a reader looks at is not written to.
LEMMA SeenUntouched ==
  ASSUME IndInv, [Next]_vars, NoOverwrite, NEW i \in Inode,
         ~(i \in OwnInode /\ pc[i[1]] # "ok")
  PROVE  content'[i] = content[i]
  <1> SUFFICES ASSUME content'[i] # content[i] PROVE FALSE
    OBVIOUS
  <1>1. HandleOwned
    BY DEF IndInv
  <1>2. PICK q \in Proc :
          \/ CopyBlock(q) /\ pc[q] = "copy" /\ i = handle[q]
          \/ OpenTruncate(q) /\ pc[q] = "overwrite" /\ i \in {dir[target[q]], Outside}
    BY WhoWrites
  <1>3. pc[q] = "copy" /\ i \in {q} \X (1..MaxLen)
    BY <1>1, <1>2 DEF HandleOwned, NoOverwrite
  <1>4. i \in OwnInode /\ i[1] = q
    BY <1>3 DEF OwnInode
  <1> QED
    BY <1>3, <1>4

\* So a name shows what it showed, unless it changes hands or the call whose
\* file it holds returns.
LEMMA ViewStays ==
  ASSUME IndInv, [Next]_vars, NoOverwrite, NEW f \in File, dir'[f] = dir[f],
         dir[f] \in OwnInode => (pc'[dir[f][1]] = "ok" <=> pc[dir[f][1]] = "ok")
  PROVE  ViewAt(dir', content', pc', f) = ViewAt(dir, content, pc, f)
  <1>1. dir[f] \in Inode /\ ~(dir[f] \in OwnInode /\ pc[dir[f][1]] # "ok") =>
          content'[dir[f]] = content[dir[f]]
    BY SeenUntouched
  <1> QED
    BY <1>1 DEF ViewAt

\* Nobody returns and no name changes hands: nothing to be seen.
LEMMA ViewQuiet ==
  ASSUME IndInv, [Next]_vars, NoOverwrite, UNCHANGED dir,
         \A q \in Proc : pc'[q] = "ok" <=> pc[q] = "ok"
  PROVE  View' = View
  <1>1. ASSUME NEW f \in File
        PROVE  ViewAt(dir', content', pc', f) = ViewAt(dir, content, pc, f)
    <2>1. dir[f] \in OwnInode => dir[f][1] \in Proc
      BY DEF OwnInode
    <2> QED
      BY <2>1, ViewStays
  <1> QED
    BY <1>1, ViewIs

\* One name changes hands: only that one may show something else.
LEMMA ViewMoves ==
  ASSUME IndInv, IndInv', [Next]_vars, NoOverwrite, NEW f \in File,
         \A g \in File \ {f} : dir'[g] = dir[g],
         \A q \in Proc : pc'[q] = "ok" <=> pc[q] = "ok"
  PROVE  /\ View' = [View EXCEPT ![f] = ViewAt(dir', content', pc', f)]
         /\ View[f] = ViewAt(dir, content, pc, f)
  <1>1. ASSUME NEW g \in File \ {f}
        PROVE  ViewAt(dir', content', pc', g) = ViewAt(dir, content, pc, g)
    <2>1. dir[g] \in OwnInode => dir[g][1] \in Proc
      BY DEF OwnInode
    <2> QED
      BY <2>1, ViewStays
  <1> QED
    BY <1>1, ViewIs

\* Steps that a reader of the directory does not notice.
LEMMA QuietRefines ==
  ASSUME IndInv, IndInv', [Next]_vars, NoOverwrite, NEW p \in Proc,
         \/ HeaderPastCeiling(p) \/ ReadEntry(p) \/ Stat(p) \/ CopyBlock(p)
         \/ CopyDone(p) \/ IoError(p)
  PROVE  UNCHANGED <<View, req, Outcome>>
  <1>0. TypeOK
    BY DEF IndInv
  <1>1. CASE HeaderPastCeiling(p) \/ Stat(p) \/ CopyBlock(p) \/ CopyDone(p) \/ IoError(p)
    <2>1. /\ UNCHANGED <<dir, req>> /\ pc[p] \in Running
          /\ \E s \in Running \cup {"cleanup"} : pc' = [pc EXCEPT ![p] = s]
      BY <1>0, <1>1 DEF HeaderPastCeiling, Stat, CopyBlock, CopyDone, IoError, Fail, fs,
         Running, TypeOK
    <2>2. \A q \in Proc : pc'[q] = pc[q] \/ (pc[q] \notin Finished /\ pc'[q] \notin Finished)
      BY <1>0, <2>1 DEF TypeOK, Running, Finished
    <2>3. \A q \in Proc : pc'[q] = "ok" <=> pc[q] = "ok"
      BY <2>2 DEF Finished
    <2> QED
      BY <2>1, <2>2, <2>3, ViewQuiet, OutcomeStays
  <1>2. CASE ReadEntry(p)
    <2>1. /\ UNCHANGED <<dir, req>> /\ pc[p] = "next"
          /\ \E s \in Running \cup {"cleanup"} : pc' = [pc EXCEPT ![p] = s]
      BY <1>2 DEF ReadEntry, Fail, fs, Running
    <2>2. \A q \in Proc : pc'[q] = pc[q] \/ (pc[q] \notin Finished /\ pc'[q] \notin Finished)
      BY <1>0, <2>1 DEF TypeOK, Running, Finished
    <2>3. \A q \in Proc : pc'[q] = "ok" <=> pc[q] = "ok"
      BY <2>2 DEF Finished
    <2> QED
      BY <2>1, <2>2, <2>3, ViewQuiet, OutcomeStays
  <1> QED
    BY <1>1, <1>2

\* A file under construction is not looked at, nor one that is taken away.
LEMMA HiddenRefines ==
  ASSUME IndInv, IndInv', [Next]_vars, NoOverwrite, NEW p \in Proc,
         CreateNew(p) \/ RemoveCreated(p)
  PROVE  UNCHANGED <<View, req, Outcome>>
  <1>0. TypeOK /\ CursorInArchive
    BY DEF IndInv
  <1>1. /\ UNCHANGED req /\ pc[p] \in {"create", "cleanup"}
        /\ \E s \in {"copy", "cleanup"} : pc' = [pc EXCEPT ![p] = s]
    BY <1>0 DEF CreateNew, RemoveCreated, Fail, TypeOK
  <1>2. /\ \A q \in Proc : pc'[q] = pc[q] \/ (pc[q] \notin Finished /\ pc'[q] \notin Finished)
        /\ pc'[p] # "ok" /\ pc[p] # "ok"
    BY <1>0, <1>1 DEF TypeOK, Finished
  <1>3. \A q \in Proc : pc'[q] = "ok" <=> pc[q] = "ok"
    BY <1>2 DEF Finished
  <1>4. ASSUME NEW f \in File
        PROVE  ViewAt(dir', content', pc', f) = ViewAt(dir, content, pc, f)
    <2>1. CASE dir'[f] = dir[f]
      <3>1. dir[f] \in OwnInode => dir[f][1] \in Proc
        BY DEF OwnInode
      <3> QED
        BY <1>3, <2>1, <3>1, ViewStays
    <2>2. CASE dir'[f] # dir[f]
      <3>1. \/ dir[f] = Absent /\ dir'[f] \in {p} \X (1..MaxLen)
            \/ \E q \in Proc : OwnFile(q, f) /\ pc[q] = "cleanup" /\ dir'[f] = Absent
        <4>1. CASE CreateNew(p)
          <5>1. dir[target[p]] = Absent /\ dir' = [dir EXCEPT ![target[p]] = <<p, next[p]>>]
            BY <2>2, <4>1 DEF CreateNew
          <5>2. f = target[p] /\ dir[f] = Absent /\ dir'[f] = <<p, next[p]>>
            BY <1>0, <2>2, <5>1 DEF TypeOK
          <5>3. pc[p] = "create"
            BY <4>1 DEF CreateNew
          <5>4. next[p] \in Nat \ {0} /\ next[p] <= Len(archive(p))
            BY <1>0, <5>3 DEF TypeOK, CursorInArchive
          <5>5. Len(archive(p)) <= MaxLen /\ Len(archive(p)) \in Nat
            BY <1>0, RequestFacts
          <5>6. next[p] \in 1..MaxLen
            BY <5>4, <5>5, RequestsAssumption
          <5> QED
            BY <5>2, <5>6
        <4>2. CASE RemoveCreated(p)
          <5>1. pc[p] = "cleanup" /\ pc' = pc
            BY <4>2 DEF RemoveCreated
          <5>2. Removed(f) \/ dir[f] = Absent \/ dir[f] = f
            BY <2>2, DirMoves DEF Appears, Swapped
          <5>3. dir'[f] \in {Dir, Absent} /\ \E k \in 1..Len(created[p]) : created[p][k] = f
            <6>1. Len(created[p]) \in 1..Len(created[p])
              BY <1>0, <4>2 DEF TypeOK, RemoveCreated
            <6>2. f = created[p][Len(created[p])]
              BY <1>0, <2>2, <4>2 DEF RemoveCreated, TypeOK
            <6> QED
              BY <1>0, <2>2, <4>2, <6>1, <6>2 DEF RemoveCreated, TypeOK
          <5>4. OwnFile(p, f)
            BY <5>3 DEF IndInv, CreatedOwned
          <5>5. Removed(f)
            BY <5>2, <5>4, NodeFacts DEF OwnFile
          <5> QED
            BY <5>5 DEF Removed
        <4> QED
          BY <4>1, <4>2
      <3>2. Absent \notin Inode /\ Absent \notin OwnInode
        BY NodesAssumption DEF Inode
      <3>3. CASE dir[f] = Absent /\ dir'[f] \in {p} \X (1..MaxLen)
        <4>1. dir'[f] \in OwnInode /\ dir'[f][1] = p
          BY <3>3 DEF OwnInode
        <4> QED
          BY <1>2, <3>2, <3>3, <4>1 DEF ViewAt
      <3>4. ASSUME NEW q \in Proc, OwnFile(q, f), pc[q] = "cleanup", dir'[f] = Absent
            PROVE  ViewAt(dir', content', pc', f) = ViewAt(dir, content, pc, f)
        <4>1. dir[f] \in OwnInode /\ dir[f][1] = q
          BY <3>4 DEF OwnInode, OwnFile
        <4> QED
          BY <3>2, <3>4, <4>1 DEF ViewAt
      <3> QED
        BY <3>1, <3>3, <3>4
    <2> QED
      BY <2>1, <2>2
  <1> QED
    BY <1>1, <1>2, <1>4, ViewIs, OutcomeStays

\* A directory entry is made where nothing is seen.
LEMMA MakeDirRefines ==
  ASSUME IndInv, IndInv', [Next]_vars, NoOverwrite, NEW p \in Proc, MakeDir(p)
  PROVE  \/ UNCHANGED <<View, req, Outcome>>
         \/ \E f \in File : Extract!MakeDirectory(f)
  <1>0. TypeOK /\ CursorInArchive
    BY DEF IndInv
  <1>1. /\ UNCHANGED req /\ pc[p] = "mkdir" /\ target[p] \in File
        /\ \E s \in {"next", "cleanup"} : pc' = [pc EXCEPT ![p] = s]
    BY <1>0 DEF MakeDir, Fail, CursorInArchive
  <1>2. /\ \A q \in Proc : pc'[q] = pc[q] \/ (pc[q] \notin Finished /\ pc'[q] \notin Finished)
    BY <1>0, <1>1 DEF TypeOK, Finished
  <1>3. \A q \in Proc : pc'[q] = "ok" <=> pc[q] = "ok"
    BY <1>2 DEF Finished
  <1>4. Outcome' = Outcome
    BY <1>2, OutcomeStays
  <1>5. CASE dir[target[p]] = Absent
    <2> DEFINE f == target[p]
    <2>1. f \in File /\ dir'[f] = Dir /\ \A g \in File \ {f} : dir'[g] = dir[g]
      BY <1>0, <1>1, <1>5 DEF MakeDir, TypeOK
    <2> HIDE DEF f
    <2>2. {Absent, Dir} \cap Inode = {} /\ {Absent, Dir} \cap OwnInode = {}
      BY NodesAssumption DEF Inode
    <2>3. ViewAt(dir', content', pc', f) = Dir /\ ViewAt(dir, content, pc, f) = Absent
      BY <1>5, <2>1, <2>2 DEF ViewAt, f
    <2>4. View' = [View EXCEPT ![f] = Dir] /\ View[f] = Absent
      BY <1>3, <2>1, <2>3, ViewMoves
    <2>5. Outcome[p] = "running"
      BY <1>1 DEF Outcome, Finished
    <2> QED
      BY <1>1, <1>4, <2>1, <2>4, <2>5 DEF Extract!MakeDirectory
  <1>6. CASE dir[target[p]] # Absent
    <2>1. UNCHANGED dir
      BY <1>0, <1>1, <1>6 DEF MakeDir, TypeOK
    <2> QED
      BY <1>1, <1>3, <1>4, <2>1, ViewQuiet
  <1> QED
    BY <1>5, <1>6

\* The user's steps are seen as they are: his files hold his own bytes.
LEMMA UserRefines ==
  ASSUME IndInv, IndInv', InodesApart, [Next]_vars, NoOverwrite, User
  PROVE  \E f \in File : Extract!UserStep(f)
  <1>0. TypeOK /\ UserFilesKept
    BY DEF IndInv
  <1>1. UNCHANGED <<content, req, pc>>
    BY DEF User
  <1>2. PICK f \in {Fold[g] : g \in File} :
          \/ dir[f] = Absent /\ dir' = [dir EXCEPT ![f] = f]
          \/ dir[f] = Absent /\ dir' = [dir EXCEPT ![f] = Link]
          \/ UserSwaps /\ dir[f] = f /\ dir' = [dir EXCEPT ![f] = Link]
    BY DEF User
  <1>3. f \in File
    BY <1>2, FoldAssumption
  <1>4. \A g \in File \ {f} : dir'[g] = dir[g]
    BY <1>0, <1>2, <1>3 DEF TypeOK
  <1>5. /\ View' = [View EXCEPT ![f] = ViewAt(dir', content', pc', f)]
        /\ View[f] = ViewAt(dir, content, pc, f)
    BY <1>1, <1>3, <1>4, ViewMoves
  <1>6. /\ {Absent, Link} \cap Inode = {} /\ {Absent, Link} \cap OwnInode = {}
        /\ f \in Inode /\ f \notin OwnInode
    BY <1>3, NodesAssumption DEF Inode, UserInode
  <1>7. content[f] = <<f>>
    BY <1>0, <1>3 DEF UserFilesKept, Original, UserInode
  <1>8. Outcome' = Outcome
    BY <1>1, OutcomeStays
  <1>9. CASE dir[f] = Absent /\ dir' = [dir EXCEPT ![f] = f]
    <2>1. dir'[f] = f
      BY <1>0, <1>3, <1>9 DEF TypeOK
    <2>2. ViewAt(dir, content, pc, f) = Absent /\ ViewAt(dir', content', pc', f) = <<f>>
      BY <1>1, <1>6, <1>7, <1>9, <2>1 DEF ViewAt
    <2> QED
      BY <1>1, <1>3, <1>5, <1>8, <2>2 DEF Extract!UserStep
  <1>10. CASE dir[f] = Absent /\ dir' = [dir EXCEPT ![f] = Link]
    <2>1. dir'[f] = Link
      BY <1>0, <1>3, <1>10 DEF TypeOK
    <2>2. ViewAt(dir, content, pc, f) = Absent /\ ViewAt(dir', content', pc', f) = Link
      BY <1>1, <1>6, <1>10, <2>1 DEF ViewAt
    <2> QED
      BY <1>1, <1>3, <1>5, <1>8, <2>2 DEF Extract!UserStep
  <1>11. CASE UserSwaps /\ dir[f] = f /\ dir' = [dir EXCEPT ![f] = Link]
    <2>1. dir'[f] = Link
      BY <1>0, <1>3, <1>11 DEF TypeOK
    <2>2. ViewAt(dir, content, pc, f) = <<f>> /\ ViewAt(dir', content', pc', f) = Link
      BY <1>1, <1>6, <1>7, <1>11, <2>1 DEF ViewAt
    <2> QED
      BY <1>1, <1>3, <1>5, <1>8, <1>11, <2>2 DEF Extract!UserStep
  <1> QED
    BY <1>2, <1>9, <1>10, <1>11

\* A call that fails or dies shows nothing of what it did.
LEMMA GiveUpRefines ==
  ASSUME IndInv, IndInv', [Next]_vars, NoOverwrite, NEW p \in Proc,
         Start(p) \/ ReturnError(p) \/ Crash(p)
  PROVE  UNCHANGED <<View, req, Outcome>> \/ Extract!GiveUp(p)
  <1>0. TypeOK
    BY DEF IndInv
  <1>1. /\ UNCHANGED <<dir, req>> /\ pc[p] \notin Finished
        /\ \E s \in {"next", "failed", "crashed"} : pc' = [pc EXCEPT ![p] = s]
    BY DEF Start, ReturnError, Crash, fs, Finished
  <1>2. \A q \in Proc : pc'[q] = "ok" <=> pc[q] = "ok"
    BY <1>0, <1>1 DEF TypeOK, Finished
  <1>3. View' = View
    BY <1>1, <1>2, ViewQuiet
  <1>4. CASE pc' = [pc EXCEPT ![p] = "next"]
    <2>1. \A q \in Proc : pc'[q] = pc[q] \/ (pc[q] \notin Finished /\ pc'[q] \notin Finished)
      BY <1>0, <1>1, <1>4 DEF TypeOK, Finished
    <2> QED
      BY <1>1, <1>3, <2>1, OutcomeStays
  <1>5. ASSUME NEW o \in {"failed", "crashed"}, pc' = [pc EXCEPT ![p] = o]
        PROVE  Extract!GiveUp(p)
    <2>1. o \in Finished
      BY DEF Finished
    <2>2. Outcome[p] = "running" /\ Outcome' = [Outcome EXCEPT ![p] = o]
      BY <1>0, <1>1, <1>5, <2>1, OutcomeEnds
    <2> QED
      BY <1>1, <1>3, <2>2 DEF Extract!GiveUp
  <1> QED
    BY <1>1, <1>4, <1>5

\* A call that succeeds has, under names of its own, all the files of its
\* archive and no others.
LEMMA AllThere ==
  ASSUME DeliveryInv, NoOverwrite, NEW p \in Proc, pc[p] = "next",
         next[p] > Len(archive(p))
  PROVE  /\ \A x \in Extract!FilesOf(req[p]) :
              /\ x \in File \X (1..MaxLen) /\ dir[x[1]] = <<p, x[2]>>
              /\ content[<<p, x[2]>>] = Complete(p, x[2])
         /\ \A f \in File : \A i \in 1..MaxLen :
              dir[f] = <<p, i>> => <<f, i>> \in Extract!FilesOf(req[p])
  <1>0. /\ TypeOK /\ ResultSoFar(p) /\ FilesInPlace(p) /\ ContentRight(p)
        /\ Live(p) /\ Undisturbed(p) /\ ~limits(p).allow_overwrite
    BY DEF DeliveryInv, IndInv, Live, Running, Undisturbed, NoOverwrite
  <1>1. ASSUME NEW x \in Extract!FilesOf(req[p])
        PROVE  /\ x \in File \X (1..MaxLen) /\ dir[x[1]] = <<p, x[2]>>
               /\ content[<<p, x[2]>>] = Complete(p, x[2])
    <2>1. x \in File \X DOMAIN archive(p)
      BY FilesOfIs DEF archive
    <2>2. archive(p) \in Seq(Entry) /\ Len(archive(p)) <= MaxLen
      BY <1>0, RequestFacts
    <2>3. x[1] \in File /\ x[2] \in 1..Len(archive(p)) /\ x = <<x[1], x[2]>>
      BY <2>1, <2>2
    <2>4. x[2] < next[p] /\ x[2] \in 1..MaxLen
      BY <1>0, <2>2, <2>3, RequestsAssumption DEF TypeOK
    <2>5. PICK k \in DOMAIN out[p] : out[p][k] = x
      BY <1>0, <2>4 DEF ResultSoFar
    <2>6. dir[x[1]] = <<p, x[2]>>
      BY <1>0, <2>5 DEF FilesInPlace
    <2>7. content[dir[x[1]]] = Complete(p, x[2])
      BY <1>0, <2>5 DEF ContentRight
    <2> QED
      BY <2>3, <2>4, <2>6, <2>7
  <1>2. ASSUME NEW f \in File, NEW i \in 1..MaxLen, dir[f] = <<p, i>>
        PROVE  <<f, i>> \in Extract!FilesOf(req[p])
    <2>1. PICK k \in DOMAIN out[p] : out[p][k] = <<f, i>>
      BY <1>0, <1>2 DEF FilesInPlace
    <2> QED
      BY <1>0, <2>1 DEF ResultSoFar
  <1> QED
    BY <1>1, <1>2

\* The end of the archive is the moment all files of a call come into view.
LEMMA SucceedRefines ==
  ASSUME DeliveryInv, IndInv', [Next]_vars, NoOverwrite, NEW p \in Proc, EndOfArchive(p)
  PROVE  Extract!Succeed(p)
  <1>0. IndInv /\ TypeOK
    BY DEF DeliveryInv, IndInv
  <1>1. /\ UNCHANGED <<dir, content, req>> /\ pc[p] = "next"
        /\ next[p] > Len(archive(p)) /\ pc' = [pc EXCEPT ![p] = "ok"]
    BY DEF EndOfArchive, fs
  <1> DEFINE F == Extract!FilesOf(req[p])
             There(x) == /\ x \in File \X (1..MaxLen) /\ dir[x[1]] = <<p, x[2]>>
                         /\ content[<<p, x[2]>>] = Complete(p, x[2])
  <1>2. /\ \A x \in F : There(x)
        /\ \A f \in File : \A i \in 1..MaxLen : dir[f] = <<p, i>> => <<f, i>> \in F
    BY <1>1, AllThere
  <1> HIDE DEF F
  <1>3. pc'[p] = "ok" /\ \A q \in Proc \ {p} : pc'[q] = pc[q]
    BY <1>0, <1>1 DEF TypeOK
  <1>4. Outcome[p] = "running" /\ Outcome' = [Outcome EXCEPT ![p] = "ok"]
    <2>1. "ok" \in Finished /\ pc[p] \notin Finished
      BY <1>1 DEF Finished
    <2> QED
      BY <1>0, <1>1, <2>1, OutcomeEnds
  <1>5. ASSUME NEW x \in F, NEW y \in F, x[1] = y[1]
        PROVE  x = y
    <2>1. There(x) /\ There(y)
      BY <1>2
    <2>2. x[2] = y[2]
      BY <1>5, <2>1
    <2> QED
      BY <1>5, <2>1, <2>2
  <1>6. ASSUME NEW x \in F
        PROVE  /\ x[1] \in File
               /\ ViewAt(dir, content, pc, x[1]) = Absent
               /\ ViewAt(dir', content', pc', x[1]) = Complete(p, x[2])
    <2>1. x \in File \X (1..MaxLen) /\ dir[x[1]] = <<p, x[2]>>
          /\ content[<<p, x[2]>>] = Complete(p, x[2])
      BY <1>2
    <2>2. x[1] \in File /\ x[2] \in 1..MaxLen
      BY <2>1
    <2>3. dir[x[1]] \in OwnInode /\ dir[x[1]][1] = p /\ dir[x[1]] \in Inode
      BY <2>1, <2>2 DEF OwnInode, Inode
    <2> QED
      BY <1>1, <1>3, <2>1, <2>2, <2>3 DEF ViewAt
  <1>7. ASSUME NEW f \in File, \A x \in F : x[1] # f
        PROVE  ViewAt(dir', content', pc', f) = ViewAt(dir, content, pc, f)
    <2>1. ASSUME dir[f] \in OwnInode, dir[f][1] = p PROVE FALSE
      <3>1. PICK i \in 1..MaxLen : dir[f] = <<p, i>>
        BY <2>1 DEF OwnInode
      <3>2. <<f, i>> \in F
        BY <1>2, <3>1
      <3> QED
        BY <1>7, <3>2
    <2>2. dir[f] \in OwnInode => dir[f][1] \in Proc \ {p}
      BY <2>1 DEF OwnInode
    <2> QED
      BY <1>0, <1>1, <1>3, <2>2, ViewStays
  <1>8. \A x \in F : View[x[1]] = Absent
    BY <1>6, ViewIs
  <1> DEFINE Chosen(f) == CHOOSE x \in F : x[1] = f
             Shown(f) == IF \E x \in F : x[1] = f
                         THEN [j \in 1..req[p].archive[Chosen(f)[2]].size |-> <<p, Chosen(f)[2]>>]
                         ELSE View[f]
  <1>9. ASSUME NEW f \in File
        PROVE  View'[f] = Shown(f)
    <2>1. CASE \E x \in F : x[1] = f
      <3>1. Chosen(f) \in F /\ Chosen(f)[1] = f
        BY <2>1
      <3> HIDE DEF Chosen
      <3>2. ViewAt(dir', content', pc', f) = Complete(p, Chosen(f)[2])
        BY <1>6, <3>1
      <3>3. Complete(p, Chosen(f)[2])
              = [j \in 1..req[p].archive[Chosen(f)[2]].size |-> <<p, Chosen(f)[2]>>]
        BY DEF Complete, archive
      <3> QED
        BY <2>1, <3>2, <3>3, ViewIs
    <2>2. CASE ~ \E x \in F : x[1] = f
      BY <1>7, <2>2, ViewIs
    <2> QED
      BY <2>1, <2>2
  <1>10. View' = [f \in File |-> Shown(f)]
    <2> HIDE DEF Shown
    <2> QED
      BY <1>9, ViewIs
  <1> QED
    BY <1>1, <1>4, <1>5, <1>8, <1>10 DEF Extract!Succeed, F

LEMMA RefinesInit == Init => Extract!Init
  <1> SUFFICES ASSUME Init PROVE Extract!Init
    OBVIOUS
  <1>1. ASSUME NEW f \in File
        PROVE  View[f] \in {Absent, Dir, Link, <<f>>}
    <2>1. dir[f] \in {Absent, Dir, Link} \/ (dir[f] = f /\ f \in UserInode)
      BY DEF Init
    <2>2. {Absent, Dir, Link} \cap Inode = {} /\ {Absent, Dir, Link} \cap OwnInode = {}
      BY NodesAssumption DEF Inode
    <2>3. CASE dir[f] \in {Absent, Dir, Link}
      BY <2>2, <2>3, ViewIs DEF ViewAt
    <2>4. CASE dir[f] = f /\ f \in UserInode
      <3>1. f \in Inode /\ f \notin OwnInode
        BY <2>4, NodesAssumption DEF Inode
      <3>2. content[f] = <<f>>
        BY <3>1 DEF Init, Original
      <3> QED
        BY <2>4, <3>1, <3>2, ViewIs DEF ViewAt
    <2> QED
      BY <2>1, <2>3, <2>4
  <1>2. Outcome = [p \in Proc |-> "running"]
    <2>1. \A p \in Proc : pc[p] \notin Finished
      BY DEF Init, Finished
    <2> QED
      BY <2>1 DEF Outcome
  <1> QED
    BY <1>1, <1>2 DEF Extract!Init

\* Every step is one of the abstract extraction, or is not seen.
LEMMA StepRefines ==
  ASSUME DeliveryInv, IndInv', [Next]_vars
  PROVE  Extract!Next \/ UNCHANGED <<View, req, Outcome>>
  <1>0. IndInv /\ TypeOK /\ TypeOK' /\ InodesApart /\ HandleOwned
    BY DEF DeliveryInv, IndInv
  <1>1. CASE ~NoOverwrite
    <2>1. \E p \in Proc : req[p].limits.allow_overwrite
      BY <1>1 DEF NoOverwrite, limits
    <2>2. \A p \in Proc : req'[p] = req[p]
      BY <1>0, FailureStays
    <2>3. req' = req
      BY <1>0, <2>2 DEF TypeOK
    <2> QED
      BY <2>1, <2>3 DEF Extract!Next, Extract!Overwriting
  <1>2. CASE NoOverwrite
    <2>1. ASSUME NEW p \in Proc,
                 \/ HeaderPastCeiling(p) \/ ReadEntry(p) \/ Stat(p) \/ CopyBlock(p)
                 \/ CopyDone(p) \/ IoError(p)
          PROVE  UNCHANGED <<View, req, Outcome>>
      BY <1>0, <1>2, <2>1, QuietRefines
    <2>2. ASSUME NEW p \in Proc, CreateNew(p) \/ RemoveCreated(p)
          PROVE  UNCHANGED <<View, req, Outcome>>
      BY <1>0, <1>2, <2>2, HiddenRefines
    <2>3. ASSUME NEW p \in Proc, MakeDir(p)
          PROVE  \/ UNCHANGED <<View, req, Outcome>>
                 \/ \E f \in File : Extract!MakeDirectory(f)
      BY <1>0, <1>2, <2>3, MakeDirRefines
    <2>4. ASSUME NEW p \in Proc, Start(p) \/ ReturnError(p) \/ Crash(p)
          PROVE  UNCHANGED <<View, req, Outcome>> \/ Extract!GiveUp(p)
      BY <1>0, <1>2, <2>4, GiveUpRefines
    <2>5. ASSUME NEW p \in Proc, EndOfArchive(p)
          PROVE  Extract!Succeed(p)
      BY <1>0, <1>2, <2>5, SucceedRefines
    <2>6. ASSUME NEW p \in Proc, OpenTruncate(p)
          PROVE  FALSE
      BY <1>0, <1>2, <2>6 DEF OpenTruncate, HandleOwned, NoOverwrite
    <2>7. CASE User
      <3>1. \E f \in File : Extract!UserStep(f)
        BY <1>0, <1>2, <2>7, UserRefines
      <3> QED
        BY <3>1 DEF Extract!Next
    <2>8. CASE Done \/ UNCHANGED vars
      BY <2>8 DEF Done, vars, View, Outcome
    <2> QED
      BY <2>1, <2>2, <2>3, <2>4, <2>5, <2>6, <2>7, <2>8 DEF Next, Step, Extract!Next
  <1> QED
    BY <1>1, <1>2

\* Where no call may overwrite, extraction is all-or-nothing to a reader of the
\* directory, whatever other calls and the user do and wherever a call dies:
\* unpack_to_dir implements Extraction.
THEOREM Refinement == Spec => AllOrNothing
  <1>1. Init => Extract!Init
    BY RefinesInit
  <1>2. DeliveryInv /\ IndInv' /\ [Next]_vars => [Extract!Next]_(Extract!avars)
    BY StepRefines DEF Extract!avars
  <1> QED
    BY <1>1, <1>2, Invariance, DeliveryInvariance, PTL
       DEF Spec, AllOrNothing, Extract!Spec

-----------------------------------------------------------------------------
(* The verdict: extraction to a directory judges an archive as the reading *)
(* into memory does.                                                       *)

\* The reading of one more entry: its header, and its data.
LEMMA ReadAtNext ==
  ASSUME TypeOK, NEW p \in Proc, NEW k \in 1..Len(archive(p))
  PROVE  /\ ReadAt(archive(p), k) \in Nat
         /\ ReadAt(archive(p), k + 1) =
              ReadAt(archive(p), k) + archive(p)[k].size + 1
  <1> DEFINE ar == archive(p)
             g == [j \in DOMAIN ar |-> ar[j].size]
  <1>1. /\ ar \in Seq(Entry) /\ Len(ar) \in Nat /\ DOMAIN ar = 1..Len(ar)
        /\ k - 1 \in Nat /\ (k - 1) + 1 = k /\ (k + 1) - 1 = k /\ k \in Nat
    BY RequestFacts
  <1>2. \A j \in 1..Len(ar) : g[j] = ar[j].size /\ g[j] \in Nat
    BY <1>1, EntryFacts
  <1>3. \A j \in 1..(k - 1) : g[j] \in Nat
    BY <1>1, <1>2
  <1> HIDE DEF g, ar
  <1>4. Total(g, k - 1) \in Nat
    BY <1>1, <1>3, TotalMonotone
  <1>5. Total(g, (k - 1) + 1) = Total(g, k - 1) + g[(k - 1) + 1]
    BY <1>1, TotalNext
  <1>6. Total(g, k) = Total(g, k - 1) + ar[k].size /\ ar[k].size \in Nat
    BY <1>1, <1>2, <1>5 DEF ar
  <1>7. ReadAt(ar, k) = k + Total(g, k - 1) /\ ReadAt(ar, k + 1) = (k + 1) + Total(g, k)
    BY <1>1 DEF ReadAt, g
  <1>8. \A a, b, c \in Nat : a + b \in Nat /\ (a + 1) + (b + c) = (a + b) + c + 1
    OBVIOUS
  <1>9. k + Total(g, k - 1) \in Nat
        /\ (k + 1) + (Total(g, k - 1) + ar[k].size) = (k + Total(g, k - 1)) + ar[k].size + 1
    BY <1>1, <1>4, <1>6, <1>8
  <1>10. /\ ReadAt(ar, k) \in Nat
         /\ ReadAt(ar, k + 1) = ReadAt(ar, k) + ar[k].size + 1
    BY <1>6, <1>7, <1>9
  <1> QED
    BY <1>10 DEF ar

LEMMA ReadAtFirst == \A ar : ReadAt(ar, 1) = 1
  <1> SUFFICES ASSUME NEW ar PROVE ReadAt(ar, 1) = 1
    OBVIOUS
  <1>1. Total([j \in DOMAIN ar |-> ar[j].size], 0) = 0
    BY TotalZero
  <1> QED
    BY <1>1 DEF ReadAt

\* The name of an entry that has passed joins those seen before it.
LEMMA SeenNext ==
  ASSUME NEW r, NEW k \in Nat \ {0},
         NEW f \in SafeRelativePath(r.archive[k].name, r.limits)
  PROVE  SeenBefore(r, k + 1) = SeenBefore(r, k) \cup {f}
  <1> DEFINE N(j) == SafeRelativePath(r.archive[j].name, r.limits)
  <1>1. N(k) = {f}
    BY OneSafePath
  <1>2. \A j : j \in 1..((k + 1) - 1) <=> j \in 1..(k - 1) \/ j = k
    OBVIOUS
  <1>3. /\ SeenBefore(r, k) = UNION {N(j) : j \in 1..(k - 1)}
        /\ SeenBefore(r, k + 1) = UNION {N(j) : j \in 1..((k + 1) - 1)}
    BY DEF SeenBefore
  <1> HIDE DEF N
  <1> QED
    BY <1>1, <1>2, <1>3

LEMMA SeenFirst == \A r : SeenBefore(r, 1) = {}
  BY DEF SeenBefore

\* A file is one more, a directory is not.
LEMMA FilesNext ==
  ASSUME NEW ar, NEW k \in Nat \ {0}
  PROVE  /\ Cardinality(FilesBefore(ar, k)) \in Nat
         /\ Cardinality(FilesBefore(ar, k + 1)) =
              Cardinality(FilesBefore(ar, k)) + (IF ar[k].type = "dir" THEN 0 ELSE 1)
  <1> DEFINE F == FilesBefore(ar, k)
             G == FilesBefore(ar, k + 1)
  <1>1. k - 1 \in Nat /\ F \in SUBSET (1..(k - 1)) /\ k \notin F
    BY DEF FilesBefore
  <1>2. IsFiniteSet(F) /\ Cardinality(F) \in Nat
    BY <1>1, SomeRoundsCount
  <1>3. \A j : j \in 1..((k + 1) - 1) <=> j \in 1..(k - 1) \/ j = k
    OBVIOUS
  <1>4. G = IF ar[k].type = "dir" THEN F ELSE F \cup {k}
    BY <1>3 DEF FilesBefore
  <1>5. Cardinality(F \cup {k}) = Cardinality(F) + 1
    BY <1>1, <1>2, FS_AddElement
  <1> HIDE DEF F, G
  <1>6. Cardinality(F) + 0 = Cardinality(F)
    BY <1>2
  <1> QED
    BY <1>2, <1>4, <1>5, <1>6 DEF F, G

LEMMA FilesFirst == \A ar : Cardinality(FilesBefore(ar, 1)) = 0
  <1> SUFFICES ASSUME NEW ar PROVE Cardinality(FilesBefore(ar, 1)) = 0
    OBVIOUS
  <1>1. FilesBefore(ar, 1) = {}
    BY DEF FilesBefore
  <1> QED
    BY <1>1, FS_EmptySet

\* The judgement at a header: the ceiling, then the end, then the checks.
LEMMA JudgedIs ==
  ASSUME TypeOK, NEW p \in Proc, NEW k \in 1..(Len(archive(p)) + 1)
  PROVE  Judged(p, k) =
           IF ReadAt(archive(p), k) > Ceiling(p) THEN "LimitExceeded"
           ELSE IF k > Len(archive(p)) THEN "none"
           ELSE CheckEntry(archive(p)[k], Cardinality(FilesBefore(archive(p), k)),
                           SeenBefore(req[p], k), limits(p))
  <1>1. /\ archive(p) \in Seq(Entry) /\ Len(archive(p)) \in Nat
        /\ DOMAIN archive(p) = 1..Len(archive(p)) /\ k \in Nat
    BY RequestFacts
  <1>2. ~(k > Len(archive(p))) => k \in DOMAIN archive(p)
    BY <1>1
  <1>3. k \in DOMAIN archive(p) =>
          MemoryCount(archive(p))[k] = Cardinality(FilesBefore(archive(p), k))
    BY DEF MemoryCount
  <1> QED
    BY <1>2, <1>3 DEF Judged, ErrorAt, Ceiling, archive, limits

\* The judgement in memory concerns the request, which does not change.
LEMMA JudgedStays ==
  ASSUME NEW p \in Proc, req'[p] = req[p]
  PROVE  /\ archive(p)' = archive(p) /\ limits(p)' = limits(p)
         /\ Ceiling(p)' = Ceiling(p)
         /\ \A k : Judged(p, k)' = Judged(p, k)
         /\ \A n : Passed(p, n)' = Passed(p, n)
  <1>1. archive(p)' = archive(p) /\ limits(p)' = limits(p) /\ Ceiling(p)' = Ceiling(p)
    BY DEF archive, limits, Ceiling
  <1>2. \A k : Judged(p, k)' = Judged(p, k)
    BY <1>1 DEF Judged
  <1> QED
    BY <1>1, <1>2 DEF Passed

\* One more header has passed.
LEMMA PassedNext ==
  ASSUME NEW p \in Proc, NEW n \in Nat, Passed(p, n), Judged(p, n + 1) = "none"
  PROVE  Passed(p, n + 1)
  <1>1. \A k \in 1..(n + 1) : k = n + 1 \/ k \in 1..n
    OBVIOUS
  <1> QED
    BY <1>1 DEF Passed

\* Nobody takes a link away.
LEMMA LinksStay ==
  ASSUME IndInv, [Next]_vars, NEW f \in File, dir[f] = Link
  PROVE  dir'[f] = Link
  <1>1. Link # Absent /\ Link \notin Inode /\ f \in Inode
    BY NodesAssumption DEF Inode, UserInode
  <1>2. \A q \in Proc : ~OwnFile(q, f)
    BY NodeFacts DEF OwnFile
  <1> QED
    BY <1>1, <1>2, DirMoves DEF Appears, Swapped, Removed

LEMMA VerdictInit == Init => VerdictInv
  <1> SUFFICES ASSUME Init, NEW p \in Proc PROVE VerdictSoFar(p)
    BY DEF VerdictInv
  <1>1. /\ pc[p] = "start" /\ next[p] = 1 /\ read[p] = 0 /\ seen[p] = {}
        /\ out[p] = <<>> /\ err[p] = "none"
    BY DEF Init
  <1>2. HeaderRead(p) = 1
    BY <1>1 DEF HeaderRead, Unread
  <1>3. Passed(p, 0) /\ Len(out[p]) = 0 /\ next[p] - 1 = 0
    BY <1>1 DEF Passed
  <1>4. pc[p] \notin AtEntry
    BY <1>1 DEF AtEntry
  <1> QED
    BY <1>1, <1>2, <1>3, <1>4, ReadAtFirst, SeenFirst, FilesFirst
       DEF VerdictSoFar, BetweenEntries, WithinEntry, StillGood

\* A step that leaves a call where it is, or takes it further with an entry it
\* has passed.
LEMMA VerdictQuiet ==
  ASSUME NEW p \in Proc, VerdictSoFar(p), req'[p] = req[p], out'[p] = out[p],
         next'[p] = next[p], read'[p] = read[p], seen'[p] = seen[p],
         pos'[p] = pos[p], err'[p] = err[p],
         \/ pc'[p] = pc[p]
         \/ pc[p] = "start" /\ pc'[p] = "next"
         \/ pc[p] = "stat" /\ pc'[p] \in {"create", "overwrite"}
         \/ pc[p] \in {"create", "overwrite"} /\ pc'[p] = "copy"
         \/ pc[p] = "cleanup" /\ pc'[p] = "failed",
         \A f \in File : dir[f] = Link => dir'[f] = Link
  PROVE  VerdictSoFar(p)'
  <1>1. /\ archive(p)' = archive(p) /\ limits(p)' = limits(p)
        /\ \A k : Judged(p, k)' = Judged(p, k)
        /\ \A n : Passed(p, n)' = Passed(p, n)
    BY JudgedStays
  <1>2. HeaderRead(p)' = HeaderRead(p)
    BY <1>1 DEF HeaderRead, Unread
  <1>3. BetweenEntries(p)'
    <2>1. pc'[p] \in {"start", "next"} => pc[p] \in {"start", "next"}
      OBVIOUS
    <2>2. SeenBefore(req[p], next[p])' = SeenBefore(req[p], next[p])
      BY DEF SeenBefore
    <2>3. Passed(p, next[p] - 1)' = Passed(p, next[p] - 1)
      BY <1>1 DEF Passed
    <2> QED
      BY <1>1, <1>2, <2>1, <2>2, <2>3 DEF VerdictSoFar, BetweenEntries
  <1>4. WithinEntry(p)'
    <2>1. pc'[p] \in AtEntry =>
            /\ pc[p] \in AtEntry /\ (pc'[p] # "copy" => pc[p] # "copy")
            /\ pc'[p] = "mkdir" <=> pc[p] = "mkdir"
      BY DEF AtEntry
    <2>2. SeenBefore(req[p], next[p] + 1)' = SeenBefore(req[p], next[p] + 1)
      BY DEF SeenBefore
    <2>3. Passed(p, next[p])' = Passed(p, next[p])
      BY <1>1 DEF Passed
    <2> QED
      BY <1>1, <2>1, <2>2, <2>3 DEF VerdictSoFar, WithinEntry
  <1>5. StillGood(p)'
    <2>1. pc'[p] \in Running => pc[p] \in Running
      BY DEF Running
    <2> QED
      BY <1>1, <2>1 DEF VerdictSoFar, StillGood
  <1>6. pc'[p] \in {"cleanup", "failed"} => Reason(p)'
    <2>1. pc'[p] \in {"cleanup", "failed"} => pc[p] \in {"cleanup", "failed"}
      OBVIOUS
    <2>2. ASSUME Reason(p) PROVE Reason(p)'
      <3>1. \A k : Passed(p, k - 1)' = Passed(p, k - 1)
        BY <1>1 DEF Passed
      <3>2. CASE err[p] = "Io" \/ (err[p] = "UnsafeArchiveEntry" /\ \E f \in File : dir[f] = Link)
        BY <3>2 DEF Reason
      <3>3. ASSUME NEW k \in 1..(Len(archive(p)) + 1),
                   err[p] = Judged(p, k), Judged(p, k) # "none", Passed(p, k - 1)
            PROVE  Reason(p)'
        BY <1>1, <3>1, <3>3 DEF Reason
      <3> QED
        BY <2>2, <3>2, <3>3 DEF Reason
    <2> QED
      BY <2>1, <2>2 DEF VerdictSoFar
  <1>7. pc'[p] = "ok" => /\ err'[p] = "none"
                         /\ next'[p] = Len(archive(p)') + 1
                         /\ Passed(p, Len(archive(p)) + 1)'
    <2>1. Passed(p, Len(archive(p)) + 1)' = Passed(p, Len(archive(p)) + 1)
      BY <1>1 DEF Passed
    <2> QED
      BY <1>1, <2>1 DEF VerdictSoFar
  <1> QED
    BY <1>3, <1>4, <1>5, <1>6, <1>7 DEF VerdictSoFar

\* A call that fails has a reason to, one that is killed needs none.
LEMMA VerdictGivesUp ==
  ASSUME NEW p \in Proc, pc'[p] = "crashed" \/ (pc'[p] \in {"cleanup", "failed"} /\ Reason(p)')
  PROVE  VerdictSoFar(p)'
  <1>1. pc'[p] \notin Running /\ pc'[p] \notin AtEntry /\ pc'[p] # "ok"
        /\ pc'[p] \notin {"start", "next"}
    BY DEF Running, AtEntry
  <1> QED
    BY <1>1 DEF VerdictSoFar, BetweenEntries, WithinEntry, StillGood

\* The reason is the judgement in memory.
LEMMA ReasonJudged ==
  ASSUME NEW p \in Proc, req'[p] = req[p], NEW k \in 1..(Len(archive(p)) + 1),
         err'[p] = Judged(p, k), Judged(p, k) # "none", Passed(p, k - 1)
  PROVE  Reason(p)'
  <1>1. archive(p)' = archive(p) /\ Judged(p, k)' = Judged(p, k)
        /\ Passed(p, k - 1)' = Passed(p, k - 1)
    BY JudgedStays
  <1> QED
    BY <1>1 DEF Reason

\* Where a call stands about to read a header.
LEMMA AtHeader ==
  ASSUME Typed, NEW p \in Proc, VerdictSoFar(p), pc[p] = "next"
  PROVE  /\ next[p] \in 1..(Len(archive(p)) + 1) /\ next[p] \in Nat \ {0}
         /\ Len(archive(p)) \in Nat
         /\ HeaderRead(p) = ReadAt(archive(p), next[p])
         /\ seen[p] = SeenBefore(req[p], next[p])
         /\ Counted(p) = Cardinality(FilesBefore(archive(p), next[p]))
         /\ Passed(p, next[p] - 1)
         /\ err[p] = "none"
  <1>1. next[p] \in Nat \ {0} /\ next[p] <= Len(archive(p)) + 1 /\ Len(archive(p)) \in Nat
    <2>1. TypeOK /\ CursorInArchive
      BY DEF Typed
    <2>2. next[p] \in Nat \ {0} /\ next[p] <= Len(archive(p)) + 1
      BY <2>1 DEF TypeOK, CursorInArchive
    <2>3. Len(archive(p)) \in Nat
      BY <2>1, RequestFacts
    <2> QED
      BY <2>2, <2>3
  <1>2. next[p] \in 1..(Len(archive(p)) + 1)
    <2>1. \A a, b \in Nat : a # 0 /\ a <= b + 1 => a \in 1..(b + 1)
      OBVIOUS
    <2> QED
      BY <1>1, <2>1
  <1>3. pc[p] \in Running
    BY DEF Running
  <1> QED
    BY <1>1, <1>2, <1>3 DEF VerdictSoFar, BetweenEntries, StillGood, Counted

LEMMA VerdictPastCeiling ==
  ASSUME Typed, NEW p \in Proc, VerdictSoFar(p), HeaderPastCeiling(p)
  PROVE  VerdictSoFar(p)'
  <1>1. TypeOK /\ pc[p] = "next" /\ HeaderRead(p) > Ceiling(p)
    BY DEF Typed, HeaderPastCeiling
  <1>2. pc'[p] = "cleanup" /\ err'[p] = "LimitExceeded" /\ req'[p] = req[p]
    BY <1>1 DEF HeaderPastCeiling, Fail, TypeOK
  <1>3. next[p] \in 1..(Len(archive(p)) + 1) /\ Passed(p, next[p] - 1)
        /\ ReadAt(archive(p), next[p]) > Ceiling(p)
    BY <1>1, AtHeader
  <1>4. Judged(p, next[p]) = "LimitExceeded"
    BY <1>1, <1>3, JudgedIs
  <1>5. Reason(p)'
    BY <1>2, <1>3, <1>4, ReasonJudged
  <1> QED
    BY <1>2, <1>5, VerdictGivesUp

LEMMA VerdictAtEnd ==
  ASSUME Typed, NEW p \in Proc, VerdictSoFar(p), EndOfArchive(p)
  PROVE  VerdictSoFar(p)'
  <1>1. TypeOK /\ pc[p] = "next" /\ HeaderRead(p) <= Ceiling(p) /\ next[p] > Len(archive(p))
    BY DEF Typed, EndOfArchive
  <1>2. pc'[p] = "ok" /\ err'[p] = err[p] /\ req'[p] = req[p] /\ next'[p] = next[p]
    BY <1>1 DEF EndOfArchive, TypeOK
  <1>3. /\ next[p] \in 1..(Len(archive(p)) + 1) /\ Passed(p, next[p] - 1)
        /\ next[p] \in Nat \ {0} /\ Len(archive(p)) \in Nat
        /\ ReadAt(archive(p), next[p]) <= Ceiling(p) /\ err[p] = "none"
    BY <1>1, AtHeader
  <1>4. ~(ReadAt(archive(p), next[p]) > Ceiling(p))
    <2>1. Ceiling(p) \in Nat /\ HeaderRead(p) \in Nat
      BY <1>1, <1>3, CeilingType, HeaderReadType DEF Typed, CursorInArchive
    <2>2. HeaderRead(p) = ReadAt(archive(p), next[p])
      BY <1>1, AtHeader
    <2> QED
      BY <1>1, <2>1, <2>2
  <1>5. Judged(p, next[p]) = "none"
    BY <1>1, <1>3, <1>4, JudgedIs
  <1>6. next[p] = Len(archive(p)) + 1 /\ next[p] - 1 = Len(archive(p))
    BY <1>1, <1>3
  <1>7. Passed(p, Len(archive(p)) + 1)
    BY <1>3, <1>5, <1>6, PassedNext
  <1>8. next'[p] = Len(archive(p)') + 1 /\ Passed(p, Len(archive(p)) + 1)'
    <2>1. archive(p)' = archive(p) /\ \A n : Passed(p, n)' = Passed(p, n)
      BY <1>2, JudgedStays
    <2>2. Passed(p, Len(archive(p)) + 1)' = Passed(p, Len(archive(p)) + 1)
      BY <2>1 DEF Passed, Judged
    <2> QED
      BY <1>2, <1>6, <1>7, <2>1, <2>2
  <1>9. pc'[p] \notin Running /\ pc'[p] \notin AtEntry /\ pc'[p] \notin {"cleanup", "failed"}
        /\ pc'[p] \notin {"start", "next"}
    BY <1>2 DEF Running, AtEntry
  <1> QED
    BY <1>2, <1>3, <1>8, <1>9 DEF VerdictSoFar, BetweenEntries, WithinEntry, StillGood

LEMMA VerdictRead ==
  ASSUME Typed, NEW p \in Proc, VerdictSoFar(p), ReadEntry(p)
  PROVE  VerdictSoFar(p)'
  <1> DEFINE entry == archive(p)[next[p]]
             verdict == CheckEntry(entry, Counted(p), seen[p], limits(p))
             n == next[p]
  <1>1. /\ TypeOK /\ pc[p] = "next" /\ HeaderRead(p) <= Ceiling(p)
        /\ n <= Len(archive(p)) /\ req'[p] = req[p] /\ out'[p] = out[p] /\ next'[p] = n
        /\ read'[p] = HeaderRead(p)
    BY DEF Typed, ReadEntry, TypeOK
  <1>2. /\ n \in 1..(Len(archive(p)) + 1) /\ Passed(p, n - 1)
        /\ n \in Nat \ {0} /\ Len(archive(p)) \in Nat
        /\ HeaderRead(p) = ReadAt(archive(p), n) /\ err[p] = "none"
        /\ seen[p] = SeenBefore(req[p], n)
        /\ Counted(p) = Cardinality(FilesBefore(archive(p), n))
    BY <1>1, AtHeader
  <1>3. ~(ReadAt(archive(p), n) > Ceiling(p)) /\ ~(n > Len(archive(p)))
    <2>1. Ceiling(p) \in Nat /\ HeaderRead(p) \in Nat
      BY <1>1, <1>2, CeilingType, HeaderReadType DEF Typed, CursorInArchive
    <2> QED
      BY <1>1, <1>2, <2>1
  <1>4. Judged(p, n) = verdict
    BY <1>1, <1>2, <1>3, JudgedIs
  <1>5. CASE verdict # "none"
    <2>1. pc'[p] = "cleanup" /\ err'[p] = verdict
      BY <1>1, <1>5 DEF ReadEntry, Fail, TypeOK
    <2>2. Reason(p)'
      BY <1>1, <1>2, <1>4, <1>5, <2>1, ReasonJudged
    <2> QED
      BY <2>1, <2>2, VerdictGivesUp
  <1>6. CASE verdict = "none"
    <2>1. PICK f \in SafeRelativePath(entry.name, limits(p)) :
            seen'[p] = seen[p] \cup {f}
      <3>1. \E f \in SafeRelativePath(entry.name, limits(p)) :
              seen' = [seen EXCEPT ![p] = seen[p] \cup {f}]
        BY <1>6 DEF ReadEntry
      <3> QED
        BY <1>1, <3>1 DEF TypeOK
    <2>2. /\ pc'[p] = (IF entry.type = "dir" THEN "mkdir" ELSE "stat")
          /\ pos'[p] = 0 /\ err'[p] = err[p]
      BY <1>1, <1>6 DEF ReadEntry, TypeOK
    <2>3. seen'[p] = SeenBefore(req[p], n + 1)
      <3>1. f \in SafeRelativePath(req[p].archive[n].name, req[p].limits)
        BY DEF archive, limits
      <3>2. n \in Nat \ {0}
        BY <1>2
      <3>3. SeenBefore(req[p], n + 1) = SeenBefore(req[p], n) \cup {f}
        BY <3>1, <3>2, SeenNext
      <3> QED
        BY <1>2, <2>1, <3>3
    <2>4. Passed(p, n)
      <3>1. n - 1 \in Nat /\ (n - 1) + 1 = n
        BY <1>2
      <3> QED
        BY <1>2, <1>4, <1>6, <3>1, PassedNext
    <2>5. /\ archive(p)' = archive(p) /\ \A k : Passed(p, k)' = Passed(p, k)
      BY <1>1, JudgedStays
    <2>6. Passed(p, next[p])'
      BY <1>1, <2>4, <2>5 DEF Passed, Judged
    <2>7. n \in 1..Len(archive(p)) /\ entry.size \in Nat
      BY <1>1, <1>2, EntryFacts
    <2>8. read'[p] = ReadAt(archive(p)', next'[p]) + pos'[p]
      <3>1. ReadAt(archive(p), n) \in Nat
        BY <1>1, <2>7, ReadAtNext
      <3> QED
        BY <1>1, <1>2, <2>2, <2>5, <3>1
    <2>9. WithinEntry(p)'
      <3>1. seen'[p] = SeenBefore(req'[p], next'[p] + 1)
        BY <1>1, <2>3
      <3>2. pos'[p] <= archive(p)'[next'[p]].size
            /\ (pc'[p] = "mkdir" <=> archive(p)'[next'[p]].type = "dir")
        BY <1>1, <2>2, <2>5, <2>7
      <3> QED
        BY <2>2, <2>6, <2>8, <3>1, <3>2 DEF WithinEntry
    <2>10. StillGood(p)'
      BY <1>1, <1>2, <2>2, <2>5 DEF StillGood, Counted
    <2>11. pc'[p] \notin {"start", "next"} /\ pc'[p] \notin {"cleanup", "failed"} /\ pc'[p] # "ok"
      BY <2>2
    <2> QED
      BY <2>9, <2>10, <2>11 DEF VerdictSoFar, BetweenEntries
  <1> QED
    BY <1>5, <1>6

\* The entry a call is at work on.
LEMMA InEntry ==
  ASSUME Typed, NEW p \in Proc, VerdictSoFar(p), pc[p] \in AtEntry
  PROVE  /\ next[p] \in 1..Len(archive(p)) /\ next[p] \in Nat \ {0}
         /\ next[p] + 1 \in 1..(Len(archive(p)) + 1)
         /\ archive(p)[next[p]].size \in Nat
         /\ ReadAt(archive(p), next[p]) \in Nat /\ pos[p] \in Nat
         /\ ReadAt(archive(p), next[p] + 1) =
              ReadAt(archive(p), next[p]) + archive(p)[next[p]].size + 1
         /\ Len(out[p]) = Cardinality(FilesBefore(archive(p), next[p]))
         /\ err[p] = "none"
  <1>1. TypeOK /\ next[p] \in Nat \ {0} /\ next[p] <= Len(archive(p))
        /\ Len(archive(p)) \in Nat /\ pos[p] \in Nat
    <2>1. TypeOK /\ CursorInArchive
      BY DEF Typed
    <2>2. next[p] \in Nat \ {0} /\ pos[p] \in Nat
      BY <2>1 DEF TypeOK
    <2>3. next[p] <= Len(archive(p))
      BY <2>1 DEF CursorInArchive, AtEntry
    <2>4. Len(archive(p)) \in Nat
      BY <2>1, RequestFacts
    <2> QED
      BY <2>1, <2>2, <2>3, <2>4
  <1>2. next[p] \in 1..Len(archive(p)) /\ next[p] + 1 \in 1..(Len(archive(p)) + 1)
    <2>1. \A a, b \in Nat : a # 0 /\ a <= b => a \in 1..b /\ a + 1 \in 1..(b + 1)
      OBVIOUS
    <2> QED
      BY <1>1, <2>1
  <1>3. pc[p] \in Running
    BY DEF Running, AtEntry
  <1> QED
    BY <1>1, <1>2, <1>3, EntryFacts, ReadAtNext DEF VerdictSoFar, StillGood

\* An entry is done with: the next header comes after all of its data, copied
\* or to be skipped.
LEMMA VerdictMovesOn ==
  ASSUME Typed, NEW p \in Proc, VerdictSoFar(p), pc[p] \in AtEntry,
         pc'[p] = "next", req'[p] = req[p], next'[p] = next[p] + 1,
         read'[p] = read[p], seen'[p] = seen[p], err'[p] = err[p],
         pc[p] = "mkdir" => Len(out'[p]) = Len(out[p]),
         pc[p] # "mkdir" => /\ Len(out'[p]) = Len(out[p]) + 1
                            /\ pos[p] = archive(p)[next[p]].size /\ pc[p] = "copy"
  PROVE  VerdictSoFar(p)'
  <1> DEFINE n == next[p]
             ar == archive(p)
  <1>1. /\ n \in 1..Len(ar) /\ n \in Nat \ {0} /\ ar[n].size \in Nat
        /\ ReadAt(ar, n) \in Nat /\ ReadAt(ar, n + 1) = ReadAt(ar, n) + ar[n].size + 1
        /\ Len(out[p]) = Cardinality(FilesBefore(ar, n)) /\ err[p] = "none"
    BY InEntry
  <1>2. /\ read[p] = ReadAt(ar, n) + pos[p] /\ (pc[p] # "copy" => pos[p] = 0)
        /\ pc[p] = "mkdir" <=> ar[n].type = "dir"
        /\ seen[p] = SeenBefore(req[p], n + 1) /\ Passed(p, n)
    BY DEF VerdictSoFar, WithinEntry
  <1>3. archive(p)' = ar /\ \A k : Judged(p, k)' = Judged(p, k)
    BY JudgedStays
  <1>4. n + 1 > 1 /\ (n + 1) - 1 = n
    BY <1>1
  <1>5. Unread(p)' = IF ar[n].type = "dir" THEN ar[n].size ELSE 0
    BY <1>3, <1>4 DEF Unread
  <1>6. HeaderRead(p)' = read[p] + Unread(p)' + 1
    BY DEF HeaderRead
  <1>7. HeaderRead(p)' = ReadAt(ar, n + 1)
    <2>1. CASE pc[p] = "mkdir"
      <3>1. HeaderRead(p)' = (ReadAt(ar, n) + 0) + ar[n].size + 1
        BY <1>2, <1>5, <1>6, <2>1
      <3> HIDE DEF ar, n
      <3> QED
        BY <1>1, <3>1
    <2>2. CASE pc[p] # "mkdir"
      <3>1. HeaderRead(p)' = (ReadAt(ar, n) + ar[n].size) + 0 + 1
        BY <1>2, <1>5, <1>6, <2>2
      <3> HIDE DEF ar, n
      <3> QED
        BY <1>1, <3>1
    <2> QED
      BY <2>1, <2>2
  <1>8. BetweenEntries(p)'
    <2>1. Passed(p, next[p] - 1)'
      BY <1>2, <1>3, <1>4 DEF Passed
    <2> QED
      BY <1>2, <1>3, <1>7, <2>1 DEF BetweenEntries
  <1>9. Len(out'[p]) = Cardinality(FilesBefore(ar, n + 1))
    <2>1. /\ Cardinality(FilesBefore(ar, n)) \in Nat
          /\ Cardinality(FilesBefore(ar, n + 1)) =
               Cardinality(FilesBefore(ar, n)) + (IF ar[n].type = "dir" THEN 0 ELSE 1)
      BY <1>1, FilesNext
    <2> HIDE DEF ar, n
    <2> QED
      BY <1>1, <1>2, <2>1
  <1>10. StillGood(p)'
    BY <1>1, <1>3, <1>9 DEF StillGood
  <1>11. pc'[p] \notin AtEntry
    BY DEF AtEntry
  <1> QED
    BY <1>8, <1>10, <1>11 DEF VerdictSoFar, WithinEntry

LEMMA VerdictCopies ==
  ASSUME Typed, NEW p \in Proc, VerdictSoFar(p), CopyBlock(p)
  PROVE  VerdictSoFar(p)'
  <1> DEFINE n == next[p]
             ar == archive(p)
  <1>0. TypeOK /\ pc[p] = "copy" /\ pc[p] \in AtEntry
    BY DEF Typed, CopyBlock, AtEntry
  <1>1. /\ n \in 1..Len(ar) /\ n \in Nat \ {0} /\ ar[n].size \in Nat
        /\ n + 1 \in 1..(Len(ar) + 1) /\ pos[p] \in Nat
        /\ ReadAt(ar, n) \in Nat /\ ReadAt(ar, n + 1) = ReadAt(ar, n) + ar[n].size + 1
        /\ Len(out[p]) = Cardinality(FilesBefore(ar, n)) /\ err[p] = "none"
    BY <1>0, InEntry
  <1>2. /\ read[p] = ReadAt(ar, n) + pos[p] /\ pos[p] < ar[n].size
        /\ pc[p] = "mkdir" <=> ar[n].type = "dir"
        /\ seen[p] = SeenBefore(req[p], n + 1) /\ Passed(p, n)
    BY <1>0 DEF VerdictSoFar, WithinEntry, CopyBlock
  <1>3. Ceiling(p) \in Nat
    BY <1>0, CeilingType
  <1>4. /\ req'[p] = req[p] /\ out'[p] = out[p] /\ next'[p] = n /\ seen'[p] = seen[p]
        /\ read'[p] = read[p] + 1
    BY <1>0 DEF CopyBlock, TypeOK
  <1>5. archive(p)' = ar /\ \A k : Judged(p, k)' = Judged(p, k)
    BY <1>4, JudgedStays
  <1>6. CASE read[p] + 1 > Ceiling(p)
    <2>1. pc'[p] = "cleanup" /\ err'[p] = "LimitExceeded"
      BY <1>0, <1>3, <1>6 DEF CopyBlock, Fail, TypeOK
    <2>2. ReadAt(ar, n + 1) > Ceiling(p)
      <3> HIDE DEF ar, n
      <3> QED
        BY <1>1, <1>2, <1>3, <1>6
    <2>3. Judged(p, n + 1) = "LimitExceeded"
      BY <1>0, <1>1, <2>2, JudgedIs
    <2>4. Passed(p, (n + 1) - 1)
      <3>1. (n + 1) - 1 = n
        BY <1>1
      <3> QED
        BY <1>2, <3>1
    <2>5. Reason(p)'
      BY <1>1, <1>4, <2>1, <2>3, <2>4, ReasonJudged
    <2> QED
      BY <2>1, <2>5, VerdictGivesUp
  <1>7. CASE ~(read[p] + 1 > Ceiling(p))
    <2>1. pos'[p] = pos[p] + 1 /\ pc'[p] = pc[p] /\ err'[p] = err[p]
      BY <1>0, <1>7 DEF CopyBlock, TypeOK
    <2>2. read'[p] = ReadAt(ar, n) + pos'[p] /\ pos'[p] <= ar[n].size
      <3>1. \A a, b, c \in Nat : b < c => (a + b) + 1 = a + (b + 1) /\ b + 1 <= c
        OBVIOUS
      <3>2. (ReadAt(ar, n) + pos[p]) + 1 = ReadAt(ar, n) + (pos[p] + 1)
            /\ pos[p] + 1 <= ar[n].size
        BY <1>1, <1>2, <3>1
      <3> QED
        BY <1>2, <1>4, <2>1, <3>2
    <2>3. Passed(p, next[p])'
      BY <1>2, <1>4, <1>5 DEF Passed
    <2>4. WithinEntry(p)'
      BY <1>0, <1>2, <1>4, <1>5, <2>1, <2>2, <2>3 DEF WithinEntry
    <2>5. StillGood(p)'
      BY <1>1, <1>4, <1>5, <2>1 DEF StillGood
    <2> QED
      BY <1>0, <2>1, <2>4, <2>5 DEF VerdictSoFar, BetweenEntries
  <1> QED
    BY <1>6, <1>7

\* One case per action.
LEMMA VerdictNext ==
  ASSUME IndInv, [Next]_vars, NEW p \in Proc, VerdictSoFar(p)
  PROVE  VerdictSoFar(p)'
  <1>0. Typed /\ TypeOK
    BY DEF IndInv, Typed
  <1>1. \A f \in File : dir[f] = Link => dir'[f] = Link
    BY LinksStay
  <1>2. ASSUME NEW q \in Proc, q # p, Step(q) \/ IoError(q) \/ Crash(q)
        PROVE  VerdictSoFar(p)'
    <2>1. /\ req'[p] = req[p] /\ out'[p] = out[p] /\ next'[p] = next[p]
          /\ read'[p] = read[p] /\ seen'[p] = seen[p] /\ pos'[p] = pos[p]
          /\ err'[p] = err[p] /\ pc'[p] = pc[p]
      <3>1. CASE Start(q) \/ HeaderPastCeiling(q) \/ EndOfArchive(q) \/ MakeDir(q)
                 \/ Stat(q) \/ CreateNew(q) \/ OpenTruncate(q) \/ CopyBlock(q)
        BY <1>0, <1>2, <3>1 DEF Start, HeaderPastCeiling, EndOfArchive, MakeDir, Stat,
           CreateNew, OpenTruncate, Truncate, CopyBlock, Fail, TypeOK
      <3>2. CASE CopyDone(q) \/ RemoveCreated(q) \/ ReturnError(q) \/ IoError(q) \/ Crash(q)
        BY <1>0, <1>2, <3>2 DEF CopyDone, RemoveCreated, ReturnError, IoError, Crash,
           Fail, TypeOK
      <3>3. CASE ReadEntry(q)
        BY <1>0, <1>2, <3>3 DEF ReadEntry, Fail, TypeOK
      <3> QED
        BY <1>2, <3>1, <3>2, <3>3 DEF Step
    <2> QED
      BY <1>1, <2>1, VerdictQuiet
  <1>3. CASE User \/ Done \/ UNCHANGED vars
    <2>1. /\ req'[p] = req[p] /\ out'[p] = out[p] /\ next'[p] = next[p]
          /\ read'[p] = read[p] /\ seen'[p] = seen[p] /\ pos'[p] = pos[p]
          /\ err'[p] = err[p] /\ pc'[p] = pc[p]
      BY <1>3 DEF User, Done, vars
    <2> QED
      BY <1>1, <2>1, VerdictQuiet
  <1>4. CASE RemoveCreated(p) \/ ReturnError(p)
    <2>1. /\ req'[p] = req[p] /\ out'[p] = out[p] /\ next'[p] = next[p]
          /\ read'[p] = read[p] /\ seen'[p] = seen[p] /\ pos'[p] = pos[p]
          /\ err'[p] = err[p]
          /\ pc'[p] = pc[p] \/ (pc[p] = "cleanup" /\ pc'[p] = "failed")
      BY <1>0, <1>4 DEF RemoveCreated, ReturnError, TypeOK
    <2> QED
      BY <1>1, <2>1, VerdictQuiet
  <1>5. CASE Start(p) \/ Stat(p) \/ CreateNew(p) \/ OpenTruncate(p)
    <2>1. \/ /\ req'[p] = req[p] /\ out'[p] = out[p] /\ next'[p] = next[p]
             /\ read'[p] = read[p] /\ seen'[p] = seen[p] /\ pos'[p] = pos[p]
             /\ err'[p] = err[p]
             /\ \/ pc[p] = "start" /\ pc'[p] = "next"
                \/ pc[p] = "stat" /\ pc'[p] \in {"create", "overwrite"}
                \/ pc[p] \in {"create", "overwrite"} /\ pc'[p] = "copy"
          \/ pc'[p] \in {"cleanup", "failed"} /\ err'[p] = "Io"
          \/ /\ pc'[p] = "cleanup" /\ err'[p] = "UnsafeArchiveEntry"
             /\ pc[p] = "stat" /\ dir[target[p]] = Link
      BY <1>0, <1>5 DEF Start, Stat, CreateNew, OpenTruncate, Truncate, Fail, TypeOK
    <2>2. CASE pc'[p] \in {"cleanup", "failed"} /\ err'[p] = "Io"
      BY <2>2, VerdictGivesUp DEF Reason
    <2>3. CASE /\ pc'[p] = "cleanup" /\ err'[p] = "UnsafeArchiveEntry"
               /\ pc[p] = "stat" /\ dir[target[p]] = Link
      <3>1. target[p] \in File
        BY <1>0, <2>3 DEF Typed, CursorInArchive
      <3>2. dir'[target[p]] = Link
        BY <1>1, <2>3, <3>1
      <3> QED
        BY <2>3, <3>1, <3>2, VerdictGivesUp DEF Reason
    <2> QED
      BY <1>1, <2>1, <2>2, <2>3, VerdictQuiet
  <1>6. CASE IoError(p) \/ Crash(p) \/ (MakeDir(p) /\ pc'[p] = "cleanup")
    <2>1. pc'[p] = "crashed" \/ (pc'[p] = "cleanup" /\ err'[p] = "Io")
      BY <1>0, <1>6 DEF IoError, Crash, MakeDir, Fail, TypeOK
    <2> QED
      BY <2>1, VerdictGivesUp DEF Reason
  <1>7. CASE (MakeDir(p) /\ pc'[p] # "cleanup") \/ CopyDone(p)
    <2>1. /\ pc[p] \in AtEntry /\ pc'[p] = "next" /\ req'[p] = req[p]
          /\ next'[p] = next[p] + 1 /\ read'[p] = read[p] /\ seen'[p] = seen[p]
          /\ err'[p] = err[p]
          /\ pc[p] = "mkdir" => out'[p] = out[p]
          /\ pc[p] # "mkdir" => /\ out'[p] = Append(out[p], <<target[p], next[p]>>)
                                /\ pos[p] = archive(p)[next[p]].size /\ pc[p] = "copy"
      BY <1>0, <1>7 DEF MakeDir, CopyDone, Fail, TypeOK, AtEntry
    <2>2. out[p] \in Seq(File \X (1..MaxLen))
      BY <1>0 DEF TypeOK
    <2>3. pc[p] # "mkdir" => Len(out'[p]) = Len(out[p]) + 1
      BY <2>1, <2>2
    <2> QED
      BY <1>0, <2>1, <2>3, VerdictMovesOn
  <1>8. CASE HeaderPastCeiling(p) \/ EndOfArchive(p) \/ ReadEntry(p) \/ CopyBlock(p)
    BY <1>0, <1>8, VerdictPastCeiling, VerdictAtEnd, VerdictRead, VerdictCopies
  <1> QED
    BY <1>2, <1>3, <1>4, <1>5, <1>6, <1>7, <1>8 DEF Next, Step

\* How far a call's judgement has come is what the one in memory says.
THEOREM VerdictInvariance == Spec => []VerdictInv
  <1>1. IndInv /\ VerdictInv /\ [Next]_vars => VerdictInv'
    BY VerdictNext DEF VerdictInv
  <1> QED
    BY <1>1, VerdictInit, Invariance, PTL DEF Spec

\* Extracting to a directory and reading into memory judge every archive alike,
\* under any limits and next to any number of other calls, unless the disk gets
\* in the way (unpack_inner, unpack_to_memory).
THEOREM VerdictsAgree == Spec => []SameVerdict
  <1>1. IndInv /\ VerdictInv => SameVerdict
    <2> SUFFICES ASSUME IndInv, VerdictInv, NEW p \in Proc, pc[p] \in {"ok", "failed"},
                        err[p] # "Io", \A f \in File : dir[f] # Link
                 PROVE  err[p] = UnpackToMemory(req[p])
      BY DEF SameVerdict
    <2> DEFINE m == Len(archive(p)) + 1
               error == [k \in 1..m |-> Judged(p, k)]
    <2>1. m \in Nat /\ VerdictSoFar(p)
      BY RequestFacts DEF IndInv, VerdictInv
    <2>2. UnpackToMemory(req[p]) = FirstError(error, m)
      BY DEF UnpackToMemory, Verdict, Judged, archive
    <2> HIDE DEF m
    <2>3. \A k \in 1..m : error[k] = Judged(p, k)
      OBVIOUS
    <2> HIDE DEF error
    <2>4. CASE pc[p] = "ok"
      <3>1. err[p] = "none" /\ Passed(p, m)
        BY <2>1, <2>4 DEF VerdictSoFar, m
      <3> QED
        BY <2>1, <2>2, <2>3, <3>1, NoErrors DEF Passed
    <2>5. CASE pc[p] = "failed"
      <3>1. PICK k \in 1..m :
              err[p] = Judged(p, k) /\ Judged(p, k) # "none" /\ Passed(p, k - 1)
        BY <2>1, <2>5 DEF VerdictSoFar, Reason, m
      <3>2. \A j \in 1..(k - 1) : j \in 1..m
        BY <2>1
      <3>3. \A j \in 1..(k - 1) : error[j] = "none"
        BY <2>3, <3>1, <3>2 DEF Passed
      <3>4. FirstError(error, m) = error[k]
        BY <2>1, <2>3, <3>1, <3>3, FirstErrorIs
      <3> QED
        BY <2>2, <2>3, <3>1, <3>4
    <2> QED
      BY <2>4, <2>5
  <1> QED
    BY <1>1, Invariance, VerdictInvariance, PTL

-----------------------------------------------------------------------------
(* The listing.                                                            *)

NothingListed == [error |-> "none", read |-> 0, seen |-> {}, out |-> <<>>]

\* The equation of the loop of list over n entries.
PartialLists(f, r, n) ==
  f = [k \in 0..n |-> IF k = 0 THEN NothingListed
                      ELSE ListEntry(r, f[k - 1], r.archive[k])]

LEMMA PartialListsExist ==
  ASSUME NEW r, NEW n \in Nat
  PROVE  \E f : PartialLists(f, r, n)
  <1> DEFINE T == {m \in Nat : ~ \E f : PartialLists(f, r, m)}
  <1> SUFFICES ASSUME T # {} PROVE FALSE
    OBVIOUS
  <1>1. PICK m \in T : \A y \in T : m <= y
    BY LeastNatural
  <1>2. m # 0
    <2> DEFINE f0 == [k \in 0..0 |-> NothingListed]
    <2>1. PartialLists(f0, r, 0)
      BY DEF PartialLists
    <2> QED
      BY <2>1
  <1>3. m - 1 \in Nat /\ m - 1 \notin T
    BY <1>1, <1>2
  <1>4. PICK f : PartialLists(f, r, m - 1)
    BY <1>3
  <1> DEFINE h == [k \in 0..m |-> IF k = m THEN ListEntry(r, f[m - 1], r.archive[m])
                                           ELSE f[k]]
  <1>5. PartialLists(h, r, m)
    <2>1. SUFFICES ASSUME NEW k \in 0..m
          PROVE  h[k] = IF k = 0 THEN NothingListed ELSE ListEntry(r, h[k - 1], r.archive[k])
      BY <2>1 DEF PartialLists
    <2>2. \A j \in 0..(m - 1) :
            f[j] = IF j = 0 THEN NothingListed ELSE ListEntry(r, f[j - 1], r.archive[j])
      BY <1>3, <1>4 DEF PartialLists
    <2>3. CASE k = m
      BY <2>3, <1>2, <1>3
    <2>4. CASE k # m
      <3>1. k \in 0..(m - 1) /\ h[k] = f[k]
        BY <2>4, <1>3
      <3>2. CASE k = 0
        BY <3>1, <3>2, <2>2
      <3>3. CASE k # 0
        <4>1. k - 1 \in 0..m /\ k - 1 # m
          BY <3>3, <3>1, <1>3
        <4>2. h[k - 1] = f[k - 1]
          BY <4>1
        <4> QED
          BY <4>2, <3>1, <3>3, <2>2
      <3> QED
        BY <3>2, <3>3
    <2> QED
      BY <2>3, <2>4
  <1> QED
    BY <1>1, <1>5

\* The loop starts with nothing listed and goes from entry to entry.
LEMMA ListRunIs ==
  ASSUME NEW r, Len(r.archive) \in Nat
  PROVE  /\ ListRun(r)[0] = NothingListed
         /\ \A k \in 1..Len(r.archive) :
              ListRun(r)[k] = ListEntry(r, ListRun(r)[k - 1], r.archive[k])
  <1> DEFINE n == Len(r.archive)
  <1>1. \E f : PartialLists(f, r, n)
    BY PartialListsExist
  <1>2. ListRun(r) = CHOOSE f : PartialLists(f, r, n)
    BY DEF ListRun, PartialLists, NothingListed
  <1>3. PartialLists(ListRun(r), r, n)
    BY <1>1, <1>2
  <1>4. \A k \in 0..n : ListRun(r)[k] =
          IF k = 0 THEN NothingListed ELSE ListEntry(r, ListRun(r)[k - 1], r.archive[k])
    BY <1>3 DEF PartialLists
  <1>5. 0 \in 0..n /\ \A k \in 1..n : k \in 0..n /\ k # 0
    OBVIOUS
  <1> HIDE DEF n
  <1> QED
    BY <1>4, <1>5 DEF n

\* The judgement of list at the header of entry k: every entry counts.
ListJudged(p, k) == ErrorAt(req[p], [j \in DOMAIN archive(p) |-> j - 1], k)

ListPassed(p, n) == \A k \in 1..n : ListJudged(p, k) = "none"

ListState == [error : Error, read : Nat, seen : SUBSET File, out : Seq(File)]

\* After k entries that have passed.
AllListed(p, k, s) ==
  /\ s \in ListState /\ s.error = "none"
  /\ s.read + 1 = ReadAt(archive(p), k + 1)
  /\ s.seen = SeenBefore(req[p], k + 1)
  /\ Len(s.out) = k
  /\ \A i \in 1..k : s.out[i] \in SafeRelativePath(archive(p)[i].name, limits(p))

\* Or after one that has not.
ListStopped(p, k, s) ==
  \E j \in 1..k : /\ s.error = ListJudged(p, j) /\ s.error # "none"
                  /\ ListPassed(p, j - 1)

ListSoFar(p, k, s) == (AllListed(p, k, s) /\ ListPassed(p, k)) \/ ListStopped(p, k, s)

\* The judgement at a header: the ceiling, then the end, then the checks.
LEMMA ListJudgedIs ==
  ASSUME TypeOK, NEW p \in Proc, NEW k \in 1..(Len(archive(p)) + 1)
  PROVE  ListJudged(p, k) =
           IF ReadAt(archive(p), k) > Ceiling(p) THEN "LimitExceeded"
           ELSE IF k > Len(archive(p)) THEN "none"
           ELSE CheckEntry(archive(p)[k], k - 1, SeenBefore(req[p], k), limits(p))
  <1>1. /\ archive(p) \in Seq(Entry) /\ Len(archive(p)) \in Nat
        /\ DOMAIN archive(p) = 1..Len(archive(p)) /\ k \in Nat
    BY RequestFacts
  <1>2. ~(k > Len(archive(p))) => k \in DOMAIN archive(p)
    BY <1>1
  <1> QED
    BY <1>2 DEF ListJudged, ErrorAt, Ceiling, archive, limits

\* One entry more.
LEMMA ListEntryStep ==
  ASSUME TypeOK, NEW p \in Proc, NEW k \in 1..Len(archive(p)),
         NEW s, ListSoFar(p, k - 1, s)
  PROVE  ListSoFar(p, k, ListEntry(req[p], s, archive(p)[k]))
  <1> DEFINE ar == archive(p)
             entry == ar[k]
             t == ListEntry(req[p], s, entry)
             check == ListCheck(req[p], s, entry)
             relative == SafeRelativePath(entry.name, limits(p))
  <1>1. /\ Len(ar) \in Nat /\ k \in Nat \ {0} /\ k - 1 \in Nat /\ (k - 1) + 1 = k
        /\ k \in 1..(Len(ar) + 1) /\ ~(k > Len(ar)) /\ entry.size \in Nat
        /\ ReadAt(ar, k) \in Nat /\ ReadAt(ar, k + 1) = ReadAt(ar, k) + entry.size + 1
    BY RequestFacts, EntryFacts, ReadAtNext
  <1>2. CASE ListStopped(p, k - 1, s)
    <2>1. PICK j \in 1..(k - 1) : /\ s.error = ListJudged(p, j) /\ s.error # "none"
                                  /\ ListPassed(p, j - 1)
      BY <1>2 DEF ListStopped
    <2>2. t = s
      BY <2>1 DEF ListEntry
    <2>3. j \in 1..k
      BY <1>1
    <2> QED
      BY <2>1, <2>2, <2>3 DEF ListSoFar, ListStopped
  <1>3. CASE AllListed(p, k - 1, s) /\ ListPassed(p, k - 1)
    <2>1. /\ s \in ListState /\ s.error = "none" /\ s.read + 1 = ReadAt(ar, k)
          /\ s.seen = SeenBefore(req[p], k) /\ Len(s.out) = k - 1
          /\ \A i \in 1..(k - 1) : s.out[i] \in SafeRelativePath(ar[i].name, limits(p))
      BY <1>1, <1>3 DEF AllListed
    <2>2. ListJudged(p, k) = IF ReadAt(ar, k) > Ceiling(p) THEN "LimitExceeded"
                             ELSE CheckEntry(entry, k - 1, SeenBefore(req[p], k), limits(p))
      BY <1>1, ListJudgedIs
    <2>3. check = ListJudged(p, k)
      BY <2>1, <2>2 DEF ListCheck, CheckEntry, Ceiling, limits
    <2>4. CASE check # "none"
      <3>1. t = [s EXCEPT !.error = check]
        BY <2>1, <2>4 DEF ListEntry
      <3>2. t.error = check
        BY <2>1, <3>1 DEF ListState
      <3>3. k \in 1..k
        BY <1>1
      <3> QED
        BY <1>3, <2>3, <2>4, <3>2, <3>3 DEF ListSoFar, ListStopped
    <2>5. CASE check = "none"
      <3>1. PICK f \in relative : TRUE
        BY <2>5 DEF ListCheck, CheckUnique, limits
      <3>2. relative = {f} /\ f \in File
        BY OneSafePath DEF SafeRelativePath
      <3>3. (CHOOSE g \in relative : TRUE) = f
        BY <3>2
      <3>4. t = [error |-> "none", read |-> s.read + 1 + entry.size,
                 seen |-> s.seen \cup relative, out |-> Append(s.out, f)]
        BY <2>1, <2>5, <3>3 DEF ListEntry, limits
      <3>5. /\ s.read \in Nat /\ s.seen \subseteq File /\ s.out \in Seq(File)
        BY <2>1 DEF ListState
      <3>6. /\ Append(s.out, f) \in Seq(File) /\ Len(Append(s.out, f)) = k
            /\ Append(s.out, f)[k] = f
            /\ \A i \in 1..(k - 1) : Append(s.out, f)[i] = s.out[i]
        BY <1>1, <2>1, <3>2, <3>5
      <3>7. t \in ListState
        <4>1. /\ "none" \in Error /\ s.read + 1 + entry.size \in Nat
              /\ s.seen \cup relative \in SUBSET File
          <5>1. \A a, b \in Nat : a + 1 + b \in Nat
            OBVIOUS
          <5>2. s.read + 1 + entry.size \in Nat
            BY <1>1, <3>5, <5>1
          <5>3. s.seen \cup relative \in SUBSET File
            BY <3>2, <3>5
          <5> QED
            BY <5>2, <5>3 DEF Error
        <4> HIDE DEF t, relative, entry
        <4> QED
          BY <3>4, <3>6, <4>1 DEF ListState
      <3>8. t.read + 1 = ReadAt(ar, k + 1)
        <4>1. t.read = s.read + 1 + entry.size
          BY <3>4
        <4> HIDE DEF t, entry, ar
        <4> QED
          BY <1>1, <2>1, <3>5, <4>1
      <3>9. t.seen = SeenBefore(req[p], k + 1)
        <4>1. SeenBefore(req[p], k + 1) = SeenBefore(req[p], k) \cup {f}
          <5>1. f \in SafeRelativePath(req[p].archive[k].name, req[p].limits)
            BY DEF archive, limits
          <5>2. k \in Nat \ {0}
            BY <1>1
          <5> QED
            BY <5>1, <5>2, SeenNext
        <4> QED
          BY <2>1, <3>2, <3>4, <4>1
      <3>10. \A i \in 1..k : t.out[i] \in SafeRelativePath(ar[i].name, limits(p))
        <4>1. \A i \in 1..k : i = k \/ i \in 1..(k - 1)
          BY <1>1
        <4> QED
          BY <2>1, <3>1, <3>4, <3>6, <4>1
      <3>11. ListPassed(p, k)
        <4>1. \A i \in 1..k : i = k \/ i \in 1..(k - 1)
          BY <1>1
        <4> QED
          BY <1>3, <2>3, <2>5, <4>1 DEF ListPassed
      <3>12. t.error = "none" /\ Len(t.out) = k
        BY <3>4, <3>6
      <3> QED
        BY <3>7, <3>8, <3>9, <3>10, <3>11, <3>12 DEF ListSoFar, AllListed
    <2> QED
      BY <2>4, <2>5
  <1> QED
    BY <1>2, <1>3 DEF ListSoFar

\* The whole loop.
LEMMA ListRunSoFar ==
  ASSUME TypeOK, NEW p \in Proc, NEW n \in 0..Len(archive(p))
  PROVE  ListSoFar(p, n, ListRun(req[p])[n])
  <1> DEFINE N == Len(archive(p))
             T == {m \in 0..N : ~ListSoFar(p, m, ListRun(req[p])[m])}
  <1>0. N \in Nat
    BY RequestFacts
  <1> SUFFICES ASSUME T # {} PROVE FALSE
    OBVIOUS
  <1>1. T \subseteq Nat
    OBVIOUS
  <1>2. PICK m \in T : \A y \in T : m <= y
    BY <1>1, LeastNatural
  <1>3. /\ ListRun(req[p])[0] = NothingListed
        /\ \A k \in 1..N : ListRun(req[p])[k] =
             ListEntry(req[p], ListRun(req[p])[k - 1], archive(p)[k])
    BY <1>0, ListRunIs DEF archive
  <1>4. m # 0
    <2>1. ListSoFar(p, 0, NothingListed)
      <3>1. NothingListed \in ListState
        <4>1. <<>> \in Seq(File) /\ {} \in SUBSET File /\ "none" \in Error /\ 0 \in Nat
          BY DEF Error
        <4> QED
          BY <4>1 DEF NothingListed, ListState
      <3>2. /\ NothingListed.error = "none" /\ NothingListed.read = 0
            /\ NothingListed.seen = {} /\ NothingListed.out = <<>>
        BY DEF NothingListed
      <3>3. ReadAt(archive(p), 0 + 1) = 1 /\ SeenBefore(req[p], 0 + 1) = {}
        BY ReadAtFirst, SeenFirst
      <3>4. AllListed(p, 0, NothingListed)
        BY <3>1, <3>2, <3>3 DEF AllListed
      <3> QED
        BY <3>4 DEF ListSoFar, ListPassed
    <2> QED
      BY <1>3, <2>1
  <1>5. m \in 1..N /\ m - 1 \in 0..N /\ ~(m <= m - 1)
    BY <1>0, <1>4
  <1>6. ListSoFar(p, m - 1, ListRun(req[p])[m - 1])
    BY <1>2, <1>5
  <1>7. ListSoFar(p, m, ListRun(req[p])[m])
    BY <1>3, <1>5, <1>6, ListEntryStep
  <1> QED
    BY <1>7

\* What list comes to: all of the archive, or its first error.
LEMMA ListIs ==
  ASSUME TypeOK, NEW p \in Proc
  PROVE  \/ /\ List(req[p]).error = "none" /\ ListPassed(p, Len(archive(p)) + 1)
            /\ \A i \in 1..Len(archive(p)) :
                 List(req[p]).out[i] \in SafeRelativePath(archive(p)[i].name, limits(p))
         \/ \E j \in 1..(Len(archive(p)) + 1) :
              /\ List(req[p]).error = ListJudged(p, j) /\ ListJudged(p, j) # "none"
              /\ ListPassed(p, j - 1)
  <1> DEFINE n == Len(archive(p))
             last == ListRun(req[p])[n]
             past == last.read + 1 > Ceiling(p)
  <1>1. n \in Nat /\ n \in 0..n /\ n + 1 \in 1..(n + 1) /\ (n + 1) - 1 = n /\ n + 1 > n
    BY RequestFacts
  <1>2. ListSoFar(p, n, last)
    BY <1>1, ListRunSoFar
  <1>3. List(req[p]) = IF last.error = "none" /\ past
                       THEN [last EXCEPT !.error = "LimitExceeded"] ELSE last
    BY DEF List, Ceiling, archive, limits
  <1>4. ListJudged(p, n + 1) = IF ReadAt(archive(p), n + 1) > Ceiling(p)
                               THEN "LimitExceeded" ELSE "none"
    BY <1>1, ListJudgedIs
  <1> HIDE DEF n, last
  <1>5. CASE ListStopped(p, n, last)
    <2>1. PICK j \in 1..n : /\ last.error = ListJudged(p, j) /\ last.error # "none"
                            /\ ListPassed(p, j - 1)
      BY <1>5 DEF ListStopped
    <2>2. List(req[p]) = last /\ j \in 1..(n + 1)
      BY <1>1, <1>3, <2>1
    <2> QED
      BY <2>1, <2>2 DEF n
  <1>6. CASE AllListed(p, n, last) /\ ListPassed(p, n)
    <2>1. /\ last \in ListState /\ last.error = "none"
          /\ last.read + 1 = ReadAt(archive(p), n + 1)
          /\ \A i \in 1..n : last.out[i] \in SafeRelativePath(archive(p)[i].name, limits(p))
      BY <1>6 DEF AllListed
    <2>2. CASE past
      <3>1. List(req[p]).error = "LimitExceeded" /\ ListJudged(p, n + 1) = "LimitExceeded"
        BY <1>3, <1>4, <2>1, <2>2 DEF ListState
      <3>2. ListPassed(p, (n + 1) - 1)
        BY <1>1, <1>6
      <3> QED
        BY <1>1, <3>1, <3>2 DEF n
    <2>3. CASE ~past
      <3>1. List(req[p]) = last /\ ListJudged(p, n + 1) = "none"
        BY <1>3, <1>4, <2>1, <2>3
      <3>2. ListPassed(p, n + 1)
        <4>1. \A k \in 1..(n + 1) : k = n + 1 \/ k \in 1..n
          BY <1>1
        <4> QED
          BY <1>6, <3>1, <4>1 DEF ListPassed
      <3> QED
        BY <2>1, <3>1, <3>2 DEF n
    <2> QED
      BY <2>2, <2>3
  <1> QED
    BY <1>2, <1>5, <1>6 DEF ListSoFar

\* The two judgements of an entry: list counts directories, so what it lets
\* pass the reading into memory does too, and without directories they are one.
LEMMA JudgementsCompare ==
  ASSUME TypeOK, NEW p \in Proc, NEW k \in 1..(Len(archive(p)) + 1)
  PROVE  /\ ListJudged(p, k) = "none" => Judged(p, k) = "none"
         /\ (\A i \in DOMAIN archive(p) : archive(p)[i].type # "dir") =>
              ListJudged(p, k) = Judged(p, k)
  <1> DEFINE ar == archive(p)
             files == FilesBefore(ar, k)
  <1>1. /\ ar \in Seq(Entry) /\ Len(ar) \in Nat /\ DOMAIN ar = 1..Len(ar)
        /\ k \in Nat \ {0} /\ k - 1 \in Nat /\ \A j \in 1..(k - 1) : j \in DOMAIN ar
        /\ limits(p).max_entries \in Nat
    BY RequestFacts DEF LimitsType
  <1>2. files \in SUBSET (1..(k - 1))
    BY DEF FilesBefore
  <1>3. Cardinality(files) \in Nat /\ Cardinality(files) <= k - 1
    BY <1>1, <1>2, SomeRoundsCount
  <1>4. (\A i \in DOMAIN ar : ar[i].type # "dir") => Cardinality(files) = k - 1
    <2> SUFFICES ASSUME \A i \in DOMAIN ar : ar[i].type # "dir"
                 PROVE  Cardinality(files) = k - 1
      OBVIOUS
    <2>1. files = 1..(k - 1)
      BY <1>1 DEF FilesBefore
    <2> QED
      BY <1>1, <2>1, RoundsCount
  <1>5. ASSUME NEW c \in Nat, c <= k - 1, NEW e, NEW seenNames,
               CheckEntry(e, k - 1, seenNames, limits(p)) = "none"
        PROVE  CheckEntry(e, c, seenNames, limits(p)) = "none"
    <2>1. ~(k - 1 >= limits(p).max_entries)
      BY <1>5 DEF CheckEntry
    <2>2. ~(c >= limits(p).max_entries)
      BY <1>1, <1>5, <2>1
    <2> QED
      BY <1>5, <2>1, <2>2 DEF CheckEntry
  <1> HIDE DEF ar, files
  <1>6. ListJudged(p, k) = IF ReadAt(ar, k) > Ceiling(p) THEN "LimitExceeded"
                           ELSE IF k > Len(ar) THEN "none"
                           ELSE CheckEntry(ar[k], k - 1, SeenBefore(req[p], k), limits(p))
    BY ListJudgedIs DEF ar
  <1>7. Judged(p, k) = IF ReadAt(ar, k) > Ceiling(p) THEN "LimitExceeded"
                       ELSE IF k > Len(ar) THEN "none"
                       ELSE CheckEntry(ar[k], Cardinality(files), SeenBefore(req[p], k), limits(p))
    BY JudgedIs DEF ar, files
  <1>8. (\A i \in DOMAIN ar : ar[i].type # "dir") => ListJudged(p, k) = Judged(p, k)
    BY <1>4, <1>6, <1>7
  <1>9. ListJudged(p, k) = "none" => Judged(p, k) = "none"
    BY <1>3, <1>5, <1>6, <1>7
  <1> QED
    BY <1>8, <1>9 DEF ar

\* What the reading into memory comes to, from the judgements it passes.
LEMMA MemoryVerdict ==
  ASSUME TypeOK, NEW p \in Proc
  PROVE  /\ Passed(p, Len(archive(p)) + 1) => UnpackToMemory(req[p]) = "none"
         /\ \A j \in 1..(Len(archive(p)) + 1) :
              Judged(p, j) # "none" /\ Passed(p, j - 1) =>
                UnpackToMemory(req[p]) = Judged(p, j)
  <1> DEFINE m == Len(archive(p)) + 1
             error == [k \in 1..m |-> Judged(p, k)]
  <1>1. m \in Nat
    BY RequestFacts
  <1>2. UnpackToMemory(req[p]) = FirstError(error, m)
    BY DEF UnpackToMemory, Verdict, Judged, archive
  <1> HIDE DEF m
  <1>3. \A k \in 1..m : error[k] = Judged(p, k)
    OBVIOUS
  <1> HIDE DEF error
  <1>4. Passed(p, m) => UnpackToMemory(req[p]) = "none"
    BY <1>1, <1>2, <1>3, NoErrors DEF Passed
  <1>5. ASSUME NEW j \in 1..m, Judged(p, j) # "none", Passed(p, j - 1)
        PROVE  UnpackToMemory(req[p]) = Judged(p, j)
    <2>1. \A i \in 1..(j - 1) : i \in 1..m
      BY <1>1
    <2>2. \A i \in 1..(j - 1) : error[i] = "none"
      BY <1>3, <1>5, <2>1 DEF Passed
    <2>3. FirstError(error, m) = error[j]
      BY <1>1, <1>3, <1>5, <2>2, FirstErrorIs
    <2> QED
      BY <1>2, <1>3, <2>3
  <1> QED
    BY <1>4, <1>5 DEF m

\* The files of an archive that is listed, under the names listed.
LEMMA ListedFiles ==
  ASSUME TypeOK, NEW p \in Proc, NEW names,
         \A i \in 1..Len(archive(p)) :
           names[i] \in SafeRelativePath(archive(p)[i].name, limits(p))
  PROVE  Extract!FilesOf(req[p]) =
           {<<Fold[names[i]], i>> :
              i \in {j \in DOMAIN archive(p) : archive(p)[j].type # "dir"}}
  <1>1. /\ DOMAIN archive(p) = 1..Len(archive(p)) /\ archive(p) = req[p].archive
        /\ limits(p) = req[p].limits
    BY RequestFacts DEF archive, limits
  <1>2. ASSUME NEW i \in 1..Len(archive(p)),
               NEW f \in SafeRelativePath(archive(p)[i].name, limits(p))
        PROVE  f = names[i]
    BY OneSafePath
  <1>3. \A i \in 1..Len(archive(p)) : Fold[names[i]] \in File
    BY FoldAssumption DEF SafeRelativePath
  <1>4. \A x : x \in Extract!FilesOf(req[p]) <=>
          /\ x \in File \X DOMAIN archive(p)
          /\ archive(p)[x[2]].type # "dir"
          /\ \E f \in SafeRelativePath(archive(p)[x[2]].name, limits(p)) : x[1] = Fold[f]
    BY <1>1, FilesOfIs
  <1>5. ASSUME NEW x \in Extract!FilesOf(req[p])
        PROVE  \E i \in {j \in DOMAIN archive(p) : archive(p)[j].type # "dir"} :
                 x = <<Fold[names[i]], i>>
    <2>1. /\ x \in File \X DOMAIN archive(p) /\ archive(p)[x[2]].type # "dir"
          /\ \E f \in SafeRelativePath(archive(p)[x[2]].name, limits(p)) : x[1] = Fold[f]
      BY <1>4
    <2>2. x = <<x[1], x[2]>> /\ x[2] \in 1..Len(archive(p))
      BY <1>1, <2>1
    <2>3. x[1] = Fold[names[x[2]]]
      BY <1>2, <2>1, <2>2
    <2> QED
      BY <1>1, <2>1, <2>2, <2>3
  <1>6. ASSUME NEW i \in DOMAIN archive(p), archive(p)[i].type # "dir"
        PROVE  <<Fold[names[i]], i>> \in Extract!FilesOf(req[p])
    BY <1>1, <1>3, <1>4, <1>6
  <1> QED
    BY <1>5, <1>6

\* What list shows is what extracting brings (payload::list, unpack_inner): for
\* archives of any length, under any limits, next to any number of other calls.
\* The loop of list is followed entry by entry, that of the extraction step by
\* step; they share only the checks of one entry.
THEOREM ListingAgrees == Spec => []ListAgrees
  <1>1. ASSUME DeliveryInv, VerdictInv, SameVerdict PROVE ListAgrees
    <2> SUFFICES ASSUME NEW p \in Proc, pc[p] \in {"ok", "failed"}, err[p] # "Io",
                        \A f \in File : dir[f] # Link
                 PROVE  LET listed == List(req[p])
                            files  == {i \in DOMAIN archive(p) : archive(p)[i].type # "dir"}
                        IN  /\ listed.error = "none" =>
                                 /\ err[p] = "none"
                                 /\ {out[p][k] : k \in DOMAIN out[p]} =
                                      {<<Fold[listed.out[i]], i>> : i \in files}
                            /\ files = DOMAIN archive(p) => listed.error = err[p]
      BY DEF ListAgrees
    <2> DEFINE m == Len(archive(p)) + 1
               listed == List(req[p])
               files == {i \in DOMAIN archive(p) : archive(p)[i].type # "dir"}
    <2>1. TypeOK /\ m \in Nat /\ err[p] = UnpackToMemory(req[p])
      BY <1>1, RequestFacts DEF DeliveryInv, IndInv, SameVerdict
    <2>2. \/ /\ listed.error = "none" /\ ListPassed(p, m)
             /\ \A i \in 1..Len(archive(p)) :
                  listed.out[i] \in SafeRelativePath(archive(p)[i].name, limits(p))
          \/ \E j \in 1..m : /\ listed.error = ListJudged(p, j)
                             /\ ListJudged(p, j) # "none" /\ ListPassed(p, j - 1)
      BY <2>1, ListIs
    <2>3. \A k \in 1..m :
            /\ ListJudged(p, k) = "none" => Judged(p, k) = "none"
            /\ files = DOMAIN archive(p) => ListJudged(p, k) = Judged(p, k)
      BY <2>1, JudgementsCompare
    <2>4. /\ Passed(p, m) => err[p] = "none"
          /\ \A j \in 1..m : Judged(p, j) # "none" /\ Passed(p, j - 1) => err[p] = Judged(p, j)
      BY <2>1, MemoryVerdict
    <2> HIDE DEF m, listed
    <2>5. \A n \in 0..m : ListPassed(p, n) => Passed(p, n)
      <3>1. \A n \in 0..m : \A k \in 1..n : k \in 1..m
        BY <2>1
      <3> QED
        BY <2>3, <3>1 DEF ListPassed, Passed
    <2>6. CASE /\ listed.error = "none" /\ ListPassed(p, m)
               /\ \A i \in 1..Len(archive(p)) :
                    listed.out[i] \in SafeRelativePath(archive(p)[i].name, limits(p))
      <3>1. err[p] = "none"
        BY <2>1, <2>4, <2>5, <2>6
      <3>2. pc[p] = "ok" /\ ResultSoFar(p) /\ Live(p)
        BY <1>1, <3>1 DEF DeliveryInv, FilesInPlace, Live
      <3>3. next[p] = m
        BY <1>1, <3>2 DEF VerdictInv, VerdictSoFar, m
      <3>4. {out[p][k] : k \in DOMAIN out[p]} = Extract!FilesOf(req[p])
        <4>1. \A x \in Extract!FilesOf(req[p]) : x[2] < next[p]
          <5>1. \A x \in Extract!FilesOf(req[p]) : x[2] \in DOMAIN req[p].archive
            BY FilesOfIs
          <5>2. DOMAIN req[p].archive = 1..Len(archive(p)) /\ Len(archive(p)) \in Nat
            BY <2>1, RequestFacts DEF archive
          <5> QED
            BY <3>3, <5>1, <5>2 DEF m
        <4> QED
          BY <3>2, <4>1 DEF ResultSoFar
      <3>5. Extract!FilesOf(req[p]) = {<<Fold[listed.out[i]], i>> : i \in files}
        BY <2>1, <2>6, ListedFiles
      <3> QED
        BY <2>6, <3>1, <3>4, <3>5 DEF listed
    <2>7. CASE \E j \in 1..m : /\ listed.error = ListJudged(p, j)
                               /\ ListJudged(p, j) # "none" /\ ListPassed(p, j - 1)
      <3>1. PICK j \in 1..m : /\ listed.error = ListJudged(p, j)
                              /\ ListJudged(p, j) # "none" /\ ListPassed(p, j - 1)
        BY <2>7
      <3>2. Passed(p, j - 1)
        <4>1. j - 1 \in 0..m
          BY <2>1
        <4> QED
          BY <2>5, <3>1, <4>1
      <3>3. files = DOMAIN archive(p) => listed.error = err[p]
        BY <2>3, <2>4, <3>1, <3>2
      <3> QED
        BY <3>1, <3>3 DEF listed
    <2> QED
      BY <2>2, <2>6, <2>7
  <1> QED
    BY <1>1, DeliveryInvariance, VerdictInvariance, VerdictsAgree, PTL
=============================================================================
