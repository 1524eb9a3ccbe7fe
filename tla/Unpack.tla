------------------------------- MODULE Unpack --------------------------------
(***************************************************************************)
(* payload::unpack_to_dir: several calls extracting at the same time into  *)
(* one destination directory, next to a user who works in that directory,  *)
(* with I/O errors and crashes at every system call.                       *)
(*                                                                         *)
(* The directory maps a name to nothing, a directory, a symbolic link (to  *)
(* a file Outside the destination) or a regular file.  Regular files are   *)
(* inodes: an open handle keeps writing to the inode it opened whatever    *)
(* becomes of the name.  The inode entry i of call p creates is <<p, i>>;  *)
(* the inode of the file the user has, or makes, under name f is f itself. *)
(* The content of an inode is the sequence of its blocks, each tagged with *)
(* its author: a user's file u is <<u>>, a block that call p copied from   *)
(* entry i is <<p, i>>.                                                    *)
(***************************************************************************)
EXTENDS Archive, FiniteSets

CONSTANTS
  Proc,        \* the extracting calls
  Requests,    \* what a call may be given
  MaxLen,      \* bound on the length of an archive
  Absent, Dir, Link,   \* directory entries that are not regular files
  Outside,     \* the inode outside the destination that Link points to
  Hole,        \* a block never written
  Fold,        \* name -> the name the file system keeps it under: one without
               \* letter case, say, takes "a" and "A" for one file
  UserSwaps    \* may the user replace one of his files by a link?

OwnInode == Proc \X (1..MaxLen)
UserInode == File
Inode == OwnInode \cup UserInode \cup {Outside}
Node == Inode \cup {Absent, Dir, Link}

ASSUME RequestsAssumption ==
  /\ MaxLen \in Nat
  /\ \A r \in Requests : r \in RequestType /\ Len(r.archive) <= MaxLen
ASSUME NodesAssumption ==
  /\ OwnInode \cap (UserInode \cup {Outside}) = {}
  /\ Outside \notin UserInode
  /\ {Absent, Dir, Link} \cap Inode = {}
  /\ Absent # Dir /\ Absent # Link /\ Dir # Link
  /\ Hole \notin Inode
ASSUME FoldAssumption ==
  /\ Fold \in [File -> File]
  /\ \A f \in File : Fold[Fold[f]] = Fold[f]
ASSUME UserSwapsAssumption == UserSwaps \in BOOLEAN

VARIABLES
  dir,      \* the destination directory: name -> node
  content,  \* inode -> its blocks
  req,      \* per call: its arguments
  pc,       \* per call: the next system call
  next,     \* per call: index of the entry being looked at
  read,     \* per call: LimitedReader.read, in blocks
  seen,     \* per call: the names seen, as check_unique compares them
  target,   \* per call: the file the current entry is written to
  handle,   \* per call: the inode of the open output file
  pos,      \* per call: data blocks of the current entry copied so far
  created,  \* per call: Vec of the names this call created
  out,      \* per call: Vec of the entries extracted, as <<file, index>>
  err,      \* per call: the error it returns
  unremoved \* per call: names whose remove_file failed (history)

fs == <<dir, content>>
vars == <<dir, content, req, pc, next, read, seen, target, handle, pos,
          created, out, err, unremoved>>

Running == {"start", "next", "mkdir", "stat", "create", "overwrite", "copy"}
Finished == {"ok", "failed", "crashed"}
Pc == Running \cup {"cleanup"} \cup Finished

limits(p) == req[p].limits
archive(p) == req[p].archive
Ceiling(p) == InflateCeiling(req[p].compressed, limits(p))

-----------------------------------------------------------------------------
TypeOK ==
  /\ dir \in [File -> Node]
  /\ content \in [Inode -> Seq(Inode \cup {Hole})]
  /\ req \in [Proc -> Requests]
  /\ pc \in [Proc -> Pc]
  /\ next \in [Proc -> Nat \ {0}]
  /\ read \in [Proc -> Nat]
  /\ seen \in [Proc -> SUBSET File]
  /\ target \in [Proc -> File \cup {Absent}]
  /\ handle \in [Proc -> Inode \cup {Absent}]
  /\ pos \in [Proc -> Nat]
  /\ created \in [Proc -> Seq(File)]
  /\ out \in [Proc -> Seq(File \X (1..MaxLen))]
  /\ err \in [Proc -> Error]
  /\ unremoved \in [Proc -> SUBSET File]

\* The user's own bytes.
Original(u) == <<u>>

Init ==
  /\ dir \in [File -> {Absent, Dir, Link} \cup UserInode]
  /\ \A f \in File : dir[f] \in UserInode => dir[f] = f
  /\ \A f \in File : Fold[f] # f => dir[f] = Absent
  /\ content = [i \in Inode |-> IF i \in OwnInode THEN <<>> ELSE Original(i)]
  /\ req \in [Proc -> Requests]
  /\ pc = [p \in Proc |-> "start"]
  /\ next = [p \in Proc |-> 1]
  /\ read = [p \in Proc |-> 0]
  /\ seen = [p \in Proc |-> {}]
  /\ target = [p \in Proc |-> Absent]
  /\ handle = [p \in Proc |-> Absent]
  /\ pos = [p \in Proc |-> 0]
  /\ created = [p \in Proc |-> <<>>]
  /\ out = [p \in Proc |-> <<>>]
  /\ err = [p \in Proc |-> "none"]
  /\ unremoved = [p \in Proc |-> {}]

-----------------------------------------------------------------------------
\* unpack_inner returns an error: the open file is dropped and
\* unpack_to_dir goes on to remove what was created.
Fail(p, e) ==
  /\ err' = [err EXCEPT ![p] = e]
  /\ pc' = [pc EXCEPT ![p] = "cleanup"]
  /\ handle' = [handle EXCEPT ![p] = Absent]

\* create_dir_all(dest), before there is anything to clean up.
Start(p) ==
  /\ pc[p] = "start"
  /\ \/ /\ pc' = [pc EXCEPT ![p] = "next"]
        /\ UNCHANGED err
     \/ /\ pc' = [pc EXCEPT ![p] = "failed"]
        /\ err' = [err EXCEPT ![p] = "Io"]
  /\ UNCHANGED <<fs, req, next, read, seen, target, handle, pos, created,
                 out, unremoved>>

\* Mutant of Unread: what is skipped is not read through the limit.
UnreadUncounted(p) == 0

\* The tar reader skips what is left of the previous entry (all of it when
\* that was a directory, nothing when it was copied) and reads a header.
Unread(p) ==
  IF next[p] > 1 /\ archive(p)[next[p] - 1].type = "dir"
  THEN archive(p)[next[p] - 1].size
  ELSE 0

HeaderRead(p) == read[p] + Unread(p) + 1

\* LimitedReader refuses the block that crosses the ceiling.
HeaderPastCeiling(p) ==
  /\ pc[p] = "next"
  /\ HeaderRead(p) > Ceiling(p)
  /\ read' = [read EXCEPT ![p] = HeaderRead(p)]
  /\ Fail(p, "LimitExceeded")
  /\ UNCHANGED <<fs, req, next, seen, target, pos, created, out, unremoved>>

EndOfArchive(p) ==
  /\ pc[p] = "next"
  /\ HeaderRead(p) <= Ceiling(p)
  /\ next[p] > Len(archive(p))
  /\ read' = [read EXCEPT ![p] = HeaderRead(p)]
  /\ pc' = [pc EXCEPT ![p] = "ok"]
  /\ UNCHANGED <<fs, req, next, seen, target, handle, pos, created, out, err,
                 unremoved>>

\* Mutant of Counted: directories count as well.
CountedWithDirs(p) == next[p] - 1

\* The number of entries max_entries is compared with: those already in the
\* result, which a directory never is.
Counted(p) == Len(out[p])

\* An entry's header: the checks, then a directory or a file to make.
ReadEntry(p) ==
  /\ pc[p] = "next"
  /\ HeaderRead(p) <= Ceiling(p)
  /\ next[p] <= Len(archive(p))
  /\ read' = [read EXCEPT ![p] = HeaderRead(p)]
  /\ LET entry   == archive(p)[next[p]]
         verdict == CheckEntry(entry, Counted(p), seen[p], limits(p))
     IN  \/ /\ verdict # "none"
            /\ Fail(p, verdict)
            /\ UNCHANGED <<seen, target, pos>>
         \/ /\ verdict = "none"
            /\ \E f \in SafeRelativePath(entry.name, limits(p)) :
                 /\ seen' = [seen EXCEPT ![p] = @ \cup {f}]
                 /\ target' = [target EXCEPT ![p] = Fold[f]]
            /\ pos' = [pos EXCEPT ![p] = 0]
            /\ pc' = [pc EXCEPT ![p] = IF entry.type = "dir" THEN "mkdir"
                                                             ELSE "stat"]
            /\ UNCHANGED <<handle, err>>
  /\ UNCHANGED <<fs, req, next, created, out, unremoved>>

\* create_dir_all(target): a directory entry is neither counted in the
\* result nor remembered for cleanup.
MakeDir(p) ==
  /\ pc[p] = "mkdir"
  /\ \/ /\ dir[target[p]] \in {Absent, Dir}
        /\ dir' = [dir EXCEPT ![target[p]] = Dir]
        /\ next' = [next EXCEPT ![p] = @ + 1]
        /\ pc' = [pc EXCEPT ![p] = "next"]
        /\ UNCHANGED <<handle, err>>
     \/ /\ dir[target[p]] \notin {Absent, Dir}
        /\ Fail(p, "Io")
        /\ UNCHANGED <<dir, next>>
  /\ UNCHANGED <<content, req, read, seen, target, pos, created, out,
                 unremoved>>

\* create_output, first half: symlink_metadata decides how the file will
\* be opened.
Stat(p) ==
  /\ pc[p] = "stat"
  /\ LET node == dir[target[p]] IN
     \/ /\ node = Link
        /\ Fail(p, "UnsafeArchiveEntry")
     \/ /\ node \notin {Absent, Link}
        /\ ~limits(p).allow_overwrite
        /\ Fail(p, "Io")
     \/ /\ node \notin {Absent, Link}
        /\ limits(p).allow_overwrite
        /\ pc' = [pc EXCEPT ![p] = "overwrite"]
        /\ UNCHANGED <<handle, err>>
     \/ /\ node = Absent
        /\ pc' = [pc EXCEPT ![p] = "create"]
        /\ UNCHANGED <<handle, err>>
  /\ UNCHANGED <<fs, req, next, read, seen, target, pos, created, out,
                 unremoved>>

\* Mutant of CreateNew: create and truncate instead of create_new.
CreateOrTruncate(p) ==
  /\ pc[p] = "create"
  /\ \/ /\ dir[target[p]] \in Inode
        /\ content' = [content EXCEPT ![dir[target[p]]] = <<>>]
        /\ handle' = [handle EXCEPT ![p] = dir[target[p]]]
        /\ created' = [created EXCEPT ![p] = Append(@, target[p])]
        /\ pc' = [pc EXCEPT ![p] = "copy"]
        /\ UNCHANGED <<dir, err>>
     \/ /\ dir[target[p]] = Absent
        /\ dir' = [dir EXCEPT ![target[p]] = <<p, next[p]>>]
        /\ handle' = [handle EXCEPT ![p] = <<p, next[p]>>]
        /\ created' = [created EXCEPT ![p] = Append(@, target[p])]
        /\ pc' = [pc EXCEPT ![p] = "copy"]
        /\ UNCHANGED <<content, err>>
     \/ /\ dir[target[p]] \in {Dir, Link}
        /\ Fail(p, "Io")
        /\ UNCHANGED <<fs, created>>
  /\ UNCHANGED <<req, next, read, seen, target, pos, out, unremoved>>

\* create_output, second half, nothing seen there: open with create_new,
\* which refuses whatever appeared since.
CreateNew(p) ==
  /\ pc[p] = "create"
  /\ \/ /\ dir[target[p]] = Absent
        /\ dir' = [dir EXCEPT ![target[p]] = <<p, next[p]>>]
        /\ handle' = [handle EXCEPT ![p] = <<p, next[p]>>]
        /\ created' = [created EXCEPT ![p] = Append(@, target[p])]
        /\ pc' = [pc EXCEPT ![p] = "copy"]
        /\ UNCHANGED err
     \/ /\ dir[target[p]] # Absent
        /\ Fail(p, "Io")
        /\ UNCHANGED <<dir, created>>
  /\ UNCHANGED <<content, req, next, read, seen, target, pos, out, unremoved>>

\* create_output, second half, something seen there: open with truncate,
\* which follows a link.
Truncate(p, inode) ==
  /\ content' = [content EXCEPT ![inode] = <<>>]
  /\ handle' = [handle EXCEPT ![p] = inode]
  /\ pc' = [pc EXCEPT ![p] = "copy"]
  /\ UNCHANGED err

\* Mutant of OpenTruncate: the file is remembered for cleanup as if it were new.
OpenTruncateAsNew(p) ==
  /\ pc[p] = "overwrite"
  /\ \/ /\ dir[target[p]] \in Inode
        /\ Truncate(p, dir[target[p]])
        /\ created' = [created EXCEPT ![p] = Append(@, target[p])]
     \/ /\ dir[target[p]] \in {Absent, Dir, Link}
        /\ Fail(p, "Io")
        /\ UNCHANGED <<content, created>>
  /\ UNCHANGED <<dir, req, next, read, seen, target, pos, out, unremoved>>

OpenTruncate(p) ==
  /\ pc[p] = "overwrite"
  /\ \/ /\ dir[target[p]] \in Inode
        /\ Truncate(p, dir[target[p]])
     \/ /\ dir[target[p]] = Link
        /\ Truncate(p, Outside)
     \/ /\ dir[target[p]] \in {Absent, Dir}
        /\ Fail(p, "Io")
        /\ UNCHANGED content
  /\ UNCHANGED <<dir, req, next, read, seen, target, pos, created, out,
                 unremoved>>

\* A write at an offset: what lies between the end and the offset is a hole.
WriteAt(blocks, offset, block) ==
  [ j \in 1..(IF Len(blocks) > offset THEN Len(blocks) ELSE offset + 1) |->
      IF j = offset + 1 THEN block
      ELSE IF j <= Len(blocks) THEN blocks[j] ELSE Hole ]

\* io::copy, one block at a time.
CopyBlock(p) ==
  /\ pc[p] = "copy"
  /\ pos[p] < archive(p)[next[p]].size
  /\ read' = [read EXCEPT ![p] = @ + 1]
  /\ \/ /\ read[p] + 1 > Ceiling(p)
        /\ Fail(p, "LimitExceeded")
        /\ UNCHANGED <<content, pos>>
     \/ /\ read[p] + 1 <= Ceiling(p)
        /\ content' = [content EXCEPT
                         ![handle[p]] = WriteAt(@, pos[p], <<p, next[p]>>)]
        /\ pos' = [pos EXCEPT ![p] = @ + 1]
        /\ UNCHANGED <<pc, handle, err>>
  /\ UNCHANGED <<dir, req, next, seen, target, created, out, unremoved>>

\* Mutant of CopyDone: a copy that stopped early is taken for complete.
CopyDoneEarly(p) ==
  /\ pc[p] = "copy"
  /\ pos[p] <= archive(p)[next[p]].size
  /\ out' = [out EXCEPT ![p] = Append(@, <<target[p], next[p]>>)]
  /\ next' = [next EXCEPT ![p] = @ + 1]
  /\ handle' = [handle EXCEPT ![p] = Absent]
  /\ pc' = [pc EXCEPT ![p] = "next"]
  /\ UNCHANGED <<fs, req, read, seen, target, pos, created, err, unremoved>>

\* io::copy returns, the entry is reported and the file closed.
CopyDone(p) ==
  /\ pc[p] = "copy"
  /\ pos[p] = archive(p)[next[p]].size
  /\ out' = [out EXCEPT ![p] = Append(@, <<target[p], next[p]>>)]
  /\ next' = [next EXCEPT ![p] = @ + 1]
  /\ handle' = [handle EXCEPT ![p] = Absent]
  /\ pc' = [pc EXCEPT ![p] = "next"]
  /\ UNCHANGED <<fs, req, read, seen, target, pos, created, err, unremoved>>

\* Any system call, or the inflater, may fail.
IoError(p) ==
  /\ pc[p] \in Running \ {"start"}
  /\ Fail(p, "Io")
  /\ UNCHANGED <<fs, req, next, read, seen, target, pos, created, out,
                 unremoved>>

\* Mutants of RemoveCreated: the first removal that fails ends the cleanup;
\* and the loop never moves on.
RemoveUntilFailure(p) ==
  /\ pc[p] = "cleanup"
  /\ created[p] # <<>>
  /\ LET f == created[p][Len(created[p])] IN
     \/ /\ dir' = [dir EXCEPT ![f] = IF @ = Dir THEN Dir ELSE Absent]
        /\ created' = [created EXCEPT ![p] = SubSeq(@, 1, Len(@) - 1)]
        /\ UNCHANGED unremoved
     \/ /\ unremoved' = [unremoved EXCEPT ![p] = @ \cup {f}]
        /\ created' = [created EXCEPT ![p] = <<>>]
        /\ UNCHANGED dir
  /\ UNCHANGED <<content, req, pc, next, read, seen, target, handle, pos, out,
                 err>>

RemoveForever(p) ==
  /\ pc[p] = "cleanup"
  /\ created[p] # <<>>
  /\ LET f == created[p][Len(created[p])]
     IN  dir' = [dir EXCEPT ![f] = IF @ = Dir THEN Dir ELSE Absent]
  /\ UNCHANGED <<content, req, pc, next, read, seen, target, handle, pos,
                 created, out, err, unremoved>>

\* unpack_to_dir removes what was created, newest first.  It removes names,
\* not inodes, and a removal that fails is ignored.
RemoveCreated(p) ==
  /\ pc[p] = "cleanup"
  /\ created[p] # <<>>
  /\ LET f == created[p][Len(created[p])] IN
     \/ /\ dir' = [dir EXCEPT ![f] = IF @ = Dir THEN Dir ELSE Absent]
        /\ UNCHANGED unremoved
     \/ /\ unremoved' = [unremoved EXCEPT ![p] = @ \cup {f}]
        /\ UNCHANGED dir
  /\ created' = [created EXCEPT ![p] = SubSeq(@, 1, Len(@) - 1)]
  /\ UNCHANGED <<content, req, pc, next, read, seen, target, handle, pos, out,
                 err>>

ReturnError(p) ==
  /\ pc[p] = "cleanup"
  /\ created[p] = <<>>
  /\ pc' = [pc EXCEPT ![p] = "failed"]
  /\ UNCHANGED <<fs, req, next, read, seen, target, handle, pos, created, out,
                 err, unremoved>>

\* The process is killed.
Crash(p) ==
  /\ pc[p] \notin Finished
  /\ pc' = [pc EXCEPT ![p] = "crashed"]
  /\ handle' = [handle EXCEPT ![p] = Absent]
  /\ UNCHANGED <<fs, req, next, read, seen, target, pos, created, out, err,
                 unremoved>>

-----------------------------------------------------------------------------
\* The user works in the destination: makes a file or a link where there is
\* nothing, or (UserSwaps) puts a link in place of a file of his own.
User ==
  /\ \E f \in {Fold[g] : g \in File} :
       \/ dir[f] = Absent /\ dir' = [dir EXCEPT ![f] = f]
       \/ dir[f] = Absent /\ dir' = [dir EXCEPT ![f] = Link]
       \/ UserSwaps /\ dir[f] = f /\ dir' = [dir EXCEPT ![f] = Link]
  /\ UNCHANGED <<content, req, pc, next, read, seen, target, handle, pos,
                 created, out, err, unremoved>>

Step(p) ==
  \/ Start(p)
  \/ HeaderPastCeiling(p)
  \/ EndOfArchive(p)
  \/ ReadEntry(p)
  \/ MakeDir(p)
  \/ Stat(p)
  \/ CreateNew(p)
  \/ OpenTruncate(p)
  \/ CopyBlock(p)
  \/ CopyDone(p)
  \/ RemoveCreated(p)
  \/ ReturnError(p)

\* Every call has returned or died; the directory stays.
Done ==
  /\ \A p \in Proc : pc[p] \in Finished
  /\ UNCHANGED vars

Next ==
  \/ \E p \in Proc : Step(p) \/ IoError(p) \/ Crash(p)
  \/ User
  \/ Done

Spec == Init /\ [][Next]_vars

\* A call that runs keeps running: the code has no blocking call and no
\* lock, so each call's own steps are weakly fair.
FairSpec == Spec /\ \A p \in Proc : WF_vars(Step(p))

-----------------------------------------------------------------------------
(* Safety.                                                                 *)

NoOverwrite == \A p \in Proc : ~limits(p).allow_overwrite

\* Without allow_overwrite no byte of a file the user has, makes meanwhile,
\* or has a link to, is ever changed: not by a call that loses a race for the
\* name, not by one that fails or is killed (create_output's create_new).
UserFilesKept ==
  NoOverwrite => \A u \in UserInode \cup {Outside} : content[u] = Original(u)

\* No call ever removes a name that holds the user's file, whether the call
\* may overwrite it or not: cleanup takes away only what create_output
\* reported as new.  (A file of the user's may become a link: his doing.)
UserFilesNeverRemoved ==
  [][\A f \in File : dir[f] \in UserInode => dir'[f] \in {dir[f], Link}]_vars

OwnFile(p, f) == dir[f] \in {p} \X (1..MaxLen)

\* When a call has returned an error, no file it created is left, however
\* many it had created and whichever it was writing: except a file whose own
\* removal failed, which does not keep the others from being removed.
FailureLeavesNothing ==
  \A p \in Proc :
    pc[p] = "failed" =>
      \A f \in File : OwnFile(p, f) => f \in unremoved[p]

\* What entry i of call p amounts to once it is written completely.
Complete(p, i) == [j \in 1..archive(p)[i].size |-> <<p, i>>]

\* The file system takes no two names of the archive for one.
NamesApart(p) ==
  \A f, g \in seen[p] : Fold[f] = Fold[g] => f = g

\* The only call, next to a user who leaves his files in place.
Alone(p) == Proc = {p} /\ ~UserSwaps

\* When a call has returned the list of extracted entries, each of them is in
\* the directory with all of its content and nothing else's, for good: if
\* nobody may overwrite, even where the file system takes two names for one
\* (check_unique compares strings, create_new stops the second); or if the call
\* is alone and its names are apart.
ReportedIntact ==
  \A p \in Proc :
    (pc[p] = "ok" /\ (NoOverwrite \/ (Alone(p) /\ NamesApart(p)))) =>
      \A k \in DOMAIN out[p] :
        LET f == out[p][k][1]
            i == out[p][k][2]
        IN  dir[f] \in Inode /\ content[dir[f]] = Complete(p, i)

\* A file that a call has created and reported stays in the directory whatever
\* other calls do.  One that it overwrote may go, but only by the failure of
\* another call, whose file it was, or by the user (created holds new files).
ReportedStays ==
  \A p \in Proc : pc[p] = "ok" =>
    \A k \in DOMAIN out[p] :
      dir[out[p][k][1]] \notin Inode =>
        /\ limits(p).allow_overwrite
        /\ \/ dir[out[p][k][1]] = Link /\ UserSwaps
           \/ \E q \in Proc \ {p} : err[q] # "none"

\* The blocks on disk that were copied from p's archive.
WrittenBy(p) ==
  UNION { {<<i, j>> : j \in {k \in DOMAIN content[i] :
                               content[i][k] \in {p} \X (1..MaxLen)}}
          : i \in Inode }

\* A payload never puts more on disk than the absolute cap, nor more than its
\* compressed length times the ratio unless that is under the floor
\* (LimitedReader stops the stream as it inflates).
BoundedInflation ==
  \A p \in Proc :
    LET written == Cardinality(WrittenBy(p)) IN
    /\ written <= limits(p).max_uncompressed_bytes
    /\ \/ written <= RatioFloor
       \/ written <= req[p].compressed * limits(p).max_compression_ratio

\* Every call returns, or dies.
EveryCallEnds == \A p \in Proc : <>(pc[p] \in Finished)

-----------------------------------------------------------------------------
(* The inductive invariant the proofs rest on.                             *)

\* A call past the header of an entry works on an entry of its archive, under
\* a name that passed the checks, and writes to an open file.
CursorInArchive ==
  \A p \in Proc :
    /\ next[p] <= Len(archive(p)) + 1
    /\ pc[p] \in {"mkdir", "stat", "create", "overwrite", "copy"} =>
         next[p] <= Len(archive(p)) /\ target[p] \in File
    /\ pc[p] = "copy" => handle[p] \in Inode

\* A name remembered for cleanup holds a file of this very call, and is
\* remembered once.
CreatedOwned ==
  \A p \in Proc :
    /\ \A k \in 1..Len(created[p]) : OwnFile(p, created[p][k])
    /\ \A j, k \in 1..Len(created[p]) : created[p][j] = created[p][k] => j = k

\* A file of a call is remembered for cleanup until it has been dealt with.
OwnedCreated ==
  \A p \in Proc :
    /\ \A f \in File :
         OwnFile(p, f) =>
           f \in unremoved[p] \/ \E k \in 1..Len(created[p]) : created[p][k] = f
    /\ pc[p] \in {"start", "failed"} => created[p] = <<>>

\* A call that may not overwrite writes only to a file it created.
HandleOwned ==
  \A p \in Proc :
    ~limits(p).allow_overwrite =>
      /\ pc[p] # "overwrite"
      /\ pc[p] = "copy" => handle[p] \in {p} \X (1..MaxLen)

IndInv ==
  /\ TypeOK
  /\ CursorInArchive
  /\ CreatedOwned
  /\ OwnedCreated
  /\ HandleOwned
  /\ UserFilesKept

-----------------------------------------------------------------------------
(* What the documentation says and the code does not do.                   *)

\* unpack_to_dir: on failure "a file that existed before is left alone".
FailureLeavesUserFiles ==
  (\A p \in Proc : pc[p] = "failed") =>
    \A f \in File : dir[f] \in UserInode => content[f] = Original(f)

\* create_output: "never through a symlink".
NeverThroughSymlink == content[Outside] = Original(Outside)

-----------------------------------------------------------------------------
(* Refinement.  What a reader of the directory may rely on: files of calls *)
(* that have not returned successfully are not looked at.                  *)

View ==
  [f \in File |->
     IF dir[f] \in OwnInode /\ pc[dir[f][1]] # "ok" THEN Absent
     ELSE IF dir[f] \in Inode THEN content[dir[f]]
     ELSE dir[f]]

Outcome ==
  [p \in Proc |-> IF pc[p] \in Finished THEN pc[p] ELSE "running"]

Extract == INSTANCE Extraction WITH view <- View, outcome <- Outcome

\* Where no call may overwrite, extraction is all-or-nothing to such a reader.
AllOrNothing == Extract!Spec

-----------------------------------------------------------------------------
(* What is known besides of the files that a call has in hand, for the     *)
(* proofs of what it delivers.                                             *)

AtEntry == {"mkdir", "stat", "create", "overwrite", "copy"}

\* The call has not failed, and is not about to clean up.
Live(p) == pc[p] \in Running \cup {"ok"}

\* Entry i of call p has had its turn to create a file.
Used(p, i) == i < next[p] \/ (i = next[p] /\ pc[p] \notin Running \ {"copy"})

\* An inode is under one name at most, which for the user's is its own; it is
\* used once, and empty before.
InodesApart ==
  /\ \A f \in File : dir[f] # Outside /\ (dir[f] \in UserInode => dir[f] = f)
  /\ \A f, g \in File : dir[f] \in Inode /\ dir[f] = dir[g] => f = g
  /\ \A p \in Proc : \A i \in 1..MaxLen :
       ~Used(p, i) =>
         /\ content[<<p, i>>] = <<>>
         /\ \A f \in File : dir[f] # <<p, i>>
         /\ \A q \in Proc : pc[q] = "copy" => handle[q] # <<p, i>>

\* The result holds the files among the entries before the current one, which
\* is under a name seen now for the first time.
ResultSoFar(p) ==
  /\ \A k \in DOMAIN out[p] :
       /\ out[p][k] \in Extract!FilesOf(req[p])
       /\ out[p][k][2] < next[p]
       /\ \E g \in seen[p] : out[p][k][1] = Fold[g]
  /\ Live(p) =>
       \A x \in Extract!FilesOf(req[p]) :
         x[2] < next[p] => \E k \in DOMAIN out[p] : out[p][k] = x
  /\ pc[p] \in AtEntry =>
       /\ pc[p] = "mkdir" <=> archive(p)[next[p]].type = "dir"
       /\ \E g \in seen[p] :
            /\ target[p] = Fold[g]
            /\ g \in SafeRelativePath(archive(p)[next[p]].name, limits(p))
       /\ NamesApart(p) => \A k \in DOMAIN out[p] : out[p][k][1] # target[p]
       /\ pc[p] # "copy" => pos[p] = 0

\* Why a file that a call has reported, or is writing, may be gone.
Excused(p, f) ==
  /\ limits(p).allow_overwrite
  /\ \/ dir[f] = Link /\ UserSwaps
     \/ \E q \in Proc \ {p} : err[q] # "none"

\* The files that a call has reported, and the one it is writing, are where
\* they were created, as long as it does not fail.
FilesInPlace(p) ==
  /\ pc[p] \in {"cleanup", "failed"} => err[p] # "none"
  /\ Live(p) =>
       /\ \A k \in DOMAIN out[p] :
            /\ dir[out[p][k][1]] \in Inode \/ Excused(p, out[p][k][1])
            /\ ~limits(p).allow_overwrite =>
                 dir[out[p][k][1]] = <<p, out[p][k][2]>>
       /\ pc[p] = "overwrite" =>
            dir[target[p]] \in Inode \cup {Dir} \/ Excused(p, target[p])
       /\ pc[p] = "copy" =>
            /\ dir[target[p]] = handle[p] \/ Excused(p, target[p])
            /\ ~limits(p).allow_overwrite => handle[p] = <<p, next[p]>>
       /\ \A f \in File : \A i \in 1..MaxLen :
            dir[f] = <<p, i>> =>
              \/ \E k \in DOMAIN out[p] : out[p][k] = <<f, i>>
              \/ pc[p] = "copy" /\ f = target[p] /\ i = next[p]

\* Who can rely on the content of what he has extracted.
Undisturbed(p) == NoOverwrite \/ (Alone(p) /\ NamesApart(p))

\* A reported file is complete, and the one being written is complete so far.
ContentRight(p) ==
  Live(p) /\ Undisturbed(p) =>
    /\ \A k \in DOMAIN out[p] :
         content[dir[out[p][k][1]]] = Complete(p, out[p][k][2])
    /\ pc[p] = "copy" =>
         content[handle[p]] = [j \in 1..pos[p] |-> <<p, next[p]>>]

\* The inductive invariant of what extraction delivers.
DeliveryInv ==
  /\ IndInv
  /\ InodesApart
  /\ \A p \in Proc : ResultSoFar(p) /\ FilesInPlace(p) /\ ContentRight(p)
=============================================================================
