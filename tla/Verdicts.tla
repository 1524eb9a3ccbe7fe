------------------------------ MODULE Verdicts -------------------------------
(***************************************************************************)
(* An archive is judged three times over, by code written three times:     *)
(* while it is extracted to a directory (Unpack), while it is read into    *)
(* memory, and while it is listed (Listing).  What the verdicts have to do *)
(* with each other.                                                        *)
(***************************************************************************)
EXTENDS Unpack, Listing

\* A call that writes to disk and one that reads into memory judge an archive
\* alike, whatever the mix of limits, unless the disk gets in the way: an I/O
\* error, or a link that stands where an entry should go.
SameVerdict ==
  \A p \in Proc :
    (pc[p] \in {"ok", "failed"} /\ err[p] # "Io"
       /\ \A f \in File : dir[f] # Link) =>
      err[p] = UnpackToMemory(req[p])

\* What list shows is what extracting brings, unless the disk gets in the way.
\* An archive that it lists is extracted, and the files are those listed, under
\* the names as the file system keeps them; one that it refuses is refused for
\* the same reason, but for a directory, which list counts and extracting does
\* not (payload::list, unpack_inner).
ListAgrees ==
  \A p \in Proc :
    (pc[p] \in {"ok", "failed"} /\ err[p] # "Io"
       /\ \A f \in File : dir[f] # Link) =>
      LET listed == List(req[p])
          files  == {i \in DOMAIN archive(p) : archive(p)[i].type # "dir"}
      IN  /\ listed.error = "none" =>
               /\ err[p] = "none"
               /\ {out[p][k] : k \in DOMAIN out[p]} =
                    {<<Fold[listed.out[i]], i>> : i \in files}
          /\ files = DOMAIN archive(p) => listed.error = err[p]

-----------------------------------------------------------------------------
(* The inductive invariant behind SameVerdict: how far the judgement of a  *)
(* call has come, in terms of the judgement in memory.                     *)

\* The judgement in memory at the header of entry k.
Judged(p, k) == ErrorAt(req[p], MemoryCount(archive(p)), k)

\* It lets the first n headers pass.
Passed(p, n) == \A k \in 1..n : Judged(p, k) = "none"

\* About to read a header: the blocks behind it, whoever read or skipped them,
\* and the names seen are those of the entries before it.
BetweenEntries(p) ==
  pc[p] \in {"start", "next"} =>
    /\ HeaderRead(p) = ReadAt(archive(p), next[p])
    /\ seen[p] = SeenBefore(req[p], next[p])
    /\ Passed(p, next[p] - 1)

\* At work on an entry that has passed: the blocks copied of it were read as
\* well, and a directory's are not copied.
WithinEntry(p) ==
  pc[p] \in AtEntry =>
    /\ read[p] = ReadAt(archive(p), next[p]) + pos[p]
    /\ pos[p] <= archive(p)[next[p]].size
    /\ pc[p] # "copy" => pos[p] = 0
    /\ pc[p] = "mkdir" <=> archive(p)[next[p]].type = "dir"
    /\ seen[p] = SeenBefore(req[p], next[p] + 1)
    /\ Passed(p, next[p])

\* The entries counted are the files before the current entry, and there is no
\* error.
StillGood(p) ==
  pc[p] \in Running =>
    /\ Len(out[p]) = Cardinality(FilesBefore(archive(p), next[p]))
    /\ err[p] = "none"

\* The error a call fails with: the disk's, or the first the judgement in
\* memory comes to.  The latter refuses a copy that crosses the ceiling at the
\* next header only.
Reason(p) ==
  \/ err[p] = "Io"
  \/ err[p] = "UnsafeArchiveEntry" /\ \E f \in File : dir[f] = Link
  \/ \E k \in 1..(Len(archive(p)) + 1) :
       err[p] = Judged(p, k) /\ Judged(p, k) # "none" /\ Passed(p, k - 1)

VerdictSoFar(p) ==
  /\ BetweenEntries(p)
  /\ WithinEntry(p)
  /\ StillGood(p)
  /\ pc[p] \in {"cleanup", "failed"} => Reason(p)
  /\ pc[p] = "ok" =>
       /\ err[p] = "none"
       /\ next[p] = Len(archive(p)) + 1
       /\ Passed(p, Len(archive(p)) + 1)

VerdictInv == \A p \in Proc : VerdictSoFar(p)
=============================================================================
