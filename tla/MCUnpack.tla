------------------------------ MODULE MCUnpack -------------------------------
(* Small instances of Unpack: the archives and limits the calls are given. *)
EXTENDS Verdicts, TLC

CONSTANTS a, b, A, p1, p2

\* The file system takes the name A for a.
NoCase == [f \in File |-> IF f = A THEN a ELSE f]

Name(comps) == [root |-> "none", comps |-> comps]
Regular(name, size) == [type |-> "file", name |-> name, size |-> size]
Folder(name, size) == [type |-> "dir", name |-> name, size |-> size]

\* Caps that never bind: room for any of the archives below.
Roomy ==
  [ max_compression_ratio |-> 3, max_uncompressed_bytes |-> 20,
    max_entries |-> 3, allow_overwrite |-> FALSE, allow_symlinks |-> FALSE,
    allow_absolute_paths |-> FALSE ]
\* Each cap made to bind: the absolute one, the ratio (and its floor), the
\* number of entries.
Tight == [Roomy EXCEPT !.max_uncompressed_bytes = 2]
Dense == [Roomy EXCEPT !.max_compression_ratio = 1]
Few == [Roomy EXCEPT !.max_entries = 1]
Overwriting == [Roomy EXCEPT !.allow_overwrite = TRUE]
Lenient == [Overwriting EXCEPT !.allow_symlinks = TRUE,
                               !.allow_absolute_paths = TRUE]

Given(archives, limitsSet) ==
  [archive : archives, compressed : {2}, limits : limitsSet]

\* Every kind of entry, and two spellings of one name.
AllEntries ==
  { Regular(Name(<<a>>), 1),
    Regular(Name(<<CurDir, a>>), 2),
    Regular(Name(<<b>>), 1),
    Regular(Name(<<A>>), 1),
    Folder(Name(<<b>>), 1),
    Regular(Name(<<ParentDir, a>>), 1),
    Regular(Name(<<b, a>>), 1),
    Regular(Name(<<DotName>>), 1),
    Regular([root |-> "root", comps |-> <<b>>], 1),
    [type |-> "link", name |-> Name(<<a>>), size |-> 0],
    [type |-> "other", name |-> Name(<<b>>), size |-> 0] }

UpTo(n, S) == UNION {[1..k -> S] : k \in 0..n}

\* One call, archives of up to two entries of every kind.
SingleRequests ==
  Given(UpTo(2, AllEntries), {Roomy, Tight, Dense, Few, Overwriting, Lenient})

\* Calls differ by nothing but what they are given.
Interchangeable == Permutations(Proc)

\* Two calls at once, with archives that collide.
AB == <<Regular(Name(<<a>>), 1), Regular(Name(<<b>>), 1)>>
BA == <<Regular(Name(<<b>>), 1), Regular(Name(<<CurDir, a>>), 1)>>
FolderThenA == <<Folder(Name(<<b>>), 0), Regular(Name(<<A>>), 2)>>
PairRequests ==
  Given({AB, BA, FolderThenA}, {Roomy})
  \cup Given({AB, FolderThenA}, {Overwriting})

\* One overwriting call.
OverwriteRequests == Given({AB, BA, FolderThenA}, {Overwriting})
=============================================================================
