----------------------------- MODULE Extraction ------------------------------
(***************************************************************************)
(* What unpack_to_dir promises when nothing may be overwritten, without a  *)
(* word on how: a call either adds all the files of its archive to the     *)
(* destination, complete and at once, under names that were free; or adds  *)
(* none.  Only directories may appear on the way.                          *)
(***************************************************************************)
EXTENDS Archive

CONSTANTS Proc, Absent, Dir, Link, UserSwaps, Fold

VARIABLES
  view,     \* name -> Absent, Dir, Link, or the blocks of a file
  req,      \* per call: its arguments
  outcome   \* per call: "running", "ok", "failed" or "crashed"

avars == <<view, req, outcome>>

\* The files an archive holds: the file system's name and the index of each.
FilesOf(r) ==
  { x \in File \X DOMAIN r.archive :
      /\ r.archive[x[2]].type # "dir"
      /\ \E f \in SafeRelativePath(r.archive[x[2]].name, r.limits) :
           x[1] = Fold[f] }

Init ==
  /\ \A f \in File : view[f] \in {Absent, Dir, Link, <<f>>}
  /\ outcome = [p \in Proc |-> "running"]

\* One file per name, every name free, and all of them at once.
Succeed(p) ==
  /\ outcome[p] = "running"
  /\ \A x, y \in FilesOf(req[p]) : x[1] = y[1] => x = y
  /\ \A x \in FilesOf(req[p]) : view[x[1]] = Absent
  /\ view' = [f \in File |->
                IF \E x \in FilesOf(req[p]) : x[1] = f
                THEN LET x == CHOOSE x \in FilesOf(req[p]) : x[1] = f
                     IN  [j \in 1..req[p].archive[x[2]].size |-> <<p, x[2]>>]
                ELSE view[f]]
  /\ outcome' = [outcome EXCEPT ![p] = "ok"]
  /\ UNCHANGED req

GiveUp(p) ==
  /\ outcome[p] = "running"
  /\ outcome' \in {[outcome EXCEPT ![p] = o] : o \in {"failed", "crashed"}}
  /\ UNCHANGED <<view, req>>

\* A directory entry, made by a running call.
MakeDirectory(f) ==
  /\ view[f] = Absent
  /\ \E p \in Proc : outcome[p] = "running"
  /\ view' = [view EXCEPT ![f] = Dir]
  /\ UNCHANGED <<req, outcome>>

UserStep(f) ==
  /\ \/ view[f] = Absent /\ view' = [view EXCEPT ![f] = <<f>>]
     \/ view[f] = Absent /\ view' = [view EXCEPT ![f] = Link]
     \/ UserSwaps /\ view[f] = <<f>> /\ view' = [view EXCEPT ![f] = Link]
  /\ UNCHANGED <<req, outcome>>

\* Nothing is promised if some call may overwrite.
Overwriting ==
  /\ \E p \in Proc : req[p].limits.allow_overwrite
  /\ UNCHANGED req

Next ==
  \/ \E p \in Proc : Succeed(p) \/ GiveUp(p)
  \/ \E f \in File : MakeDirectory(f) \/ UserStep(f)
  \/ Overwriting

Spec == Init /\ [][Next]_avars
=============================================================================
