------------------------------- MODULE Archive -------------------------------
(***************************************************************************)
(* The tar archive inside a CDOC2 payload, and the checks every consumer   *)
(* of it applies (crates/umbrik-core/src/payload.rs, limits.rs).  This     *)
(* module has no state: it is shared by the directory extraction (Unpack)  *)
(* and by the reference verdicts of the in-memory reading (Listing).       *)
(*                                                                         *)
(* Sizes are counted in blocks: a tar archive is a sequence of 512-byte    *)
(* blocks, one header block per entry followed by its data blocks, and the *)
(* reader stops at the first zero block after the last entry.              *)
(***************************************************************************)
EXTENDS Naturals, Sequences

CONSTANTS
  File,        \* the names an entry may be written under: one normal
               \* component that does not start with a dot
  RatioFloor,  \* RATIO_CHECK_FLOOR_BYTES, in blocks
  U64Max       \* where u64 multiplication saturates

ASSUME RatioFloorAssumption == RatioFloor \in Nat
ASSUME U64MaxAssumption == U64Max \in Nat

-----------------------------------------------------------------------------
(* Names.  A raw entry name is what Path::components() yields: possibly a  *)
(* root or a drive prefix, then components.  A normal component that       *)
(* starts with a dot is DotName; the other normal components are File.     *)

CurDir == "."
ParentDir == ".."
DotName == ".hidden"

ASSUME FileAssumption == File \cap {CurDir, ParentDir, DotName} = {}

Component == File \cup {CurDir, ParentDir, DotName}

RawName == [root : {"none", "root", "drive"}, comps : Seq(Component)]

EntryType == {"file", "dir", "link", "other"}

\* A tar entry: its type, the name the sender chose, its data blocks.
Entry == [type : EntryType, name : RawName, size : Nat]

\* Limits, with the two resource caps in blocks.
LimitsType ==
  [ max_compression_ratio  : Nat,
    max_uncompressed_bytes : Nat,
    max_entries            : Nat,
    allow_overwrite        : BOOLEAN,
    allow_symlinks         : BOOLEAN,
    allow_absolute_paths   : BOOLEAN ]

\* What one call is given: the archive, the length of the compressed
\* stream that holds it, and the limits.
RequestType == [archive : Seq(Entry), compressed : Nat, limits : LimitsType]

Error == {"none", "LimitExceeded", "UnsafeArchiveEntry", "Io"}

-----------------------------------------------------------------------------
SaturatingMul(x, y) == IF x * y > U64Max THEN U64Max ELSE x * y

\* Mutant of InflateCeiling: the looser of the two caps.
InflateCeilingLoose(compressed, limits) ==
  LET product == SaturatingMul(compressed, limits.max_compression_ratio)
  IN  IF product > limits.max_uncompressed_bytes
      THEN product
      ELSE limits.max_uncompressed_bytes

\* The decompressed-size ceiling: the ratio cap, floored, and under it the
\* absolute cap.
InflateCeiling(compressed, limits) ==
  LET product   == SaturatingMul(compressed, limits.max_compression_ratio)
      ratio_cap == IF product > RatioFloor THEN product ELSE RatioFloor
  IN  IF ratio_cap < limits.max_uncompressed_bytes
      THEN ratio_cap
      ELSE limits.max_uncompressed_bytes

\* The name an entry is written under, as a set: empty when the name is
\* refused, otherwise the one normal component that is left when "."
\* components (and, if absolute paths are allowed, the root) are dropped.
SafeRelativePath(name, limits) ==
  { f \in File :
      /\ name.root = "none" \/ limits.allow_absolute_paths
      /\ \E i \in DOMAIN name.comps :
           /\ name.comps[i] = f
           /\ \A j \in DOMAIN name.comps \ {i} : name.comps[j] = CurDir }

CheckEntryType(type, limits) ==
  \/ type \in {"file", "dir"}
  \/ type = "link" /\ limits.allow_symlinks

\* Mutant of CheckUnique: a second entry under one name is let through.
CheckUniqueMissing(name, seen, limits) == SafeRelativePath(name, limits) # {}

\* check_unique: the name as written, not as the sender spelled it, must
\* not have been seen.
CheckUnique(name, seen, limits) ==
  \E f \in SafeRelativePath(name, limits) : f \notin seen

\* The checks an entry passes before anything is done with it, in the
\* code's order; count is the number of entries already in the result.
CheckEntry(entry, count, seen, limits) ==
  IF count >= limits.max_entries
  THEN "LimitExceeded"
  ELSE IF /\ CheckEntryType(entry.type, limits)
          /\ CheckUnique(entry.name, seen, limits)
  THEN "none"
  ELSE "UnsafeArchiveEntry"
=============================================================================
