------------------------------- MODULE Listing -------------------------------
(***************************************************************************)
(* payload::list and payload::unpack_to_memory write nothing, so what they *)
(* return is a function of their arguments.  Both stop at the first entry  *)
(* that fails a check.  The reading into memory is given in closed form,   *)
(* the listing as the loop that it is.                                     *)
(***************************************************************************)
EXTENDS Archive, Loops

\* Blocks read by the time the header of entry k is read: k headers and all
\* the data before it, copied out or skipped.
ReadAt(archive, k) ==
  k + Total([j \in DOMAIN archive |-> archive[j].size], k - 1)

SeenBefore(r, k) ==
  UNION {SafeRelativePath(r.archive[j].name, r.limits) : j \in 1..(k - 1)}

\* The error at the header of entry k, or at the end of the archive; count[k] is
\* the number of entries pushed before k.
ErrorAt(r, count, k) ==
  IF ReadAt(r.archive, k) > InflateCeiling(r.compressed, r.limits)
  THEN "LimitExceeded"
  ELSE IF k > Len(r.archive) THEN "none"
  ELSE CheckEntry(r.archive[k], count[k], SeenBefore(r, k), r.limits)

\* The verdict of a reading that counts its entries so.
Verdict(r, count) ==
  FirstError([k \in 1..(Len(r.archive) + 1) |-> ErrorAt(r, count, k)],
             Len(r.archive) + 1)

FilesBefore(archive, k) == {j \in 1..(k - 1) : archive[j].type # "dir"}

\* unpack_to_memory pushes files only: a directory is skipped.
MemoryCount(archive) ==
  [k \in DOMAIN archive |-> Cardinality(FilesBefore(archive, k))]

UnpackToMemory(r) == Verdict(r, MemoryCount(r.archive))

-----------------------------------------------------------------------------
(* payload::list has its own loop.  Its state: the error it stopped with,  *)
(* the blocks read, the names seen, and those listed, one per entry.       *)

\* Mutant of ListCheck: names are not compared with those seen.
ListCheckNamesakes(r, s, entry) ==
  IF \/ s.read + 1 > InflateCeiling(r.compressed, r.limits)
     \/ Len(s.out) >= r.limits.max_entries
  THEN "LimitExceeded"
  ELSE IF /\ CheckEntryType(entry.type, r.limits)
          /\ CheckUnique(entry.name, {}, r.limits)
  THEN "none"
  ELSE "UnsafeArchiveEntry"

\* Reading the header of an entry, and what list asks of it.
ListCheck(r, s, entry) ==
  IF \/ s.read + 1 > InflateCeiling(r.compressed, r.limits)
     \/ Len(s.out) >= r.limits.max_entries
  THEN "LimitExceeded"
  ELSE IF /\ CheckEntryType(entry.type, r.limits)
          /\ CheckUnique(entry.name, s.seen, r.limits)
  THEN "none"
  ELSE "UnsafeArchiveEntry"

\* An entry that passes is pushed, a directory too, and its data skipped.
ListEntry(r, s, entry) ==
  IF s.error # "none" THEN s
  ELSE IF ListCheck(r, s, entry) # "none"
  THEN [s EXCEPT !.error = ListCheck(r, s, entry)]
  ELSE LET relative == SafeRelativePath(entry.name, r.limits)
       IN  [ error |-> "none",
             read  |-> s.read + 1 + entry.size,
             seen  |-> s.seen \cup relative,
             out   |-> Append(s.out, CHOOSE f \in relative : TRUE) ]

\* The state after each number of entries.
ListRun(r) ==
  LET upto[k \in 0..Len(r.archive)] ==
        IF k = 0 THEN [error |-> "none", read |-> 0, seen |-> {}, out |-> <<>>]
        ELSE ListEntry(r, upto[k - 1], r.archive[k])
  IN  upto

\* Past the last entry the reader looks for a header once more.
List(r) ==
  LET last == ListRun(r)[Len(r.archive)]
  IN  IF /\ last.error = "none"
         /\ last.read + 1 > InflateCeiling(r.compressed, r.limits)
      THEN [last EXCEPT !.error = "LimitExceeded"]
      ELSE last
=============================================================================
