------------------------------ MODULE ClientUpdater ------------------------------
(* The update of a client station's application tree (services/client_updater.py):  *)
(* the tree is copied to a backup, set aside by a rename, replaced by the new one,   *)
(* and removed; an error in the middle goes back.  Every operation on files may      *)
(* fail, a removal or a copy after part of its work, and the process may end there.  *)
(* Updates follow one another: each has its own backup and its own name for the      *)
(* tree it sets aside, and meets what the one before has left.                       *)
EXTENDS Integers

CONSTANT MaxUpdates      \* bound: calls of update_client

VARIABLES
  install,     \* the tree that is installed
  previous,    \* previous[u]: .<install>.previous-<token> of the update u
  backup,      \* backup[u]: client-<token> of the update u
  update,      \* the number of the update, also the version that it brings
  at,          \* where it is
  told,        \* what it last reported
  before       \* history: the last whole tree that an update has found installed

vars == <<install, previous, backup, update, at, told, before>>

Whole(v) == [is |-> "whole", of |-> v]
Part(v) == [is |-> "part", of |-> v]
NoTree == [is |-> "missing", of |-> 0]
Trees == {NoTree} \cup {Whole(v) : v \in 0..MaxUpdates} \cup {Part(v) : v \in 0..MaxUpdates}

Updates == 1..MaxUpdates
Steps == {"package", "backup", "set aside", "install", "remove", "mark", "undo", "restore"}

TypeOK ==
  /\ install \in Trees /\ before \in Trees
  /\ previous \in [Updates -> Trees] /\ backup \in [Updates -> Trees]
  /\ update \in 0..MaxUpdates /\ at \in Steps \cup {"idle"}
  /\ told \in {"nothing", "refused", "updated", "rolled back", "impossible"}

Init ==
  /\ install \in {NoTree, Whole(0)} /\ before = NoTree
  /\ previous = [u \in Updates |-> NoTree] /\ backup = [u \in Updates |-> NoTree]
  /\ update = 0 /\ at = "idle" /\ told = "nothing"

----------------------------------------------------------------------------------
Exists(tree) == tree # NoTree

\* What an interrupted copy or removal of a tree may leave.
PartOf(tree) == IF Exists(tree) THEN Part(tree.of) ELSE NoTree

Go(from, to) == at = from /\ at' = to
Report(from, what) == Go(from, "idle") /\ told' = what

\* The process ends: nothing is reported.
Ends(from) == Report(from, "nothing")

\* The except branch follows, or the process ends.
Breaks(from) == (Go(from, "undo") /\ told' = told) \/ Ends(from)
\* The except branch itself fails.
GivesUp(from) == Report(from, "impossible") \/ Ends(from)

Begin ==
  /\ at = "idle" /\ update < MaxUpdates
  /\ update' = update + 1 /\ at' = "package"
  /\ before' = IF install.is = "whole" THEN install ELSE before
  /\ UNCHANGED <<install, previous, backup, told>>

\* The manifest, the download, its size and digest, and the archive's entries.
Package ==
  /\ \/ Go("package", "backup") /\ told' = told
     \/ Report("package", "refused") \/ Ends("package")
  /\ UNCHANGED <<install, previous, backup, update, before>>

\* _safe_copy_tree(install_dir, backup_dir); an error here undoes nothing.
BackUp_Never == Go("backup", "set aside") /\ UNCHANGED <<told, backup>>
BackUp ==
  \/ /\ Go("backup", "set aside") /\ told' = told
     /\ backup' = [backup EXCEPT ![update] = install]
  \/ /\ Report("backup", "refused") \/ Ends("backup")
     /\ backup' \in {backup, [backup EXCEPT ![update] = PartOf(install)]}

SetAside ==
  /\ \/ /\ Go("set aside", "install") /\ told' = told
        /\ previous' = [previous EXCEPT ![update] = install] /\ install' = NoTree
     \/ /\ Exists(install)
        /\ Breaks("set aside")
        /\ UNCHANGED <<install, previous>>
  /\ UNCHANGED <<backup, update, before>>

Install ==
  /\ \/ Go("install", "remove") /\ told' = told /\ install' = Whole(update)
     \/ Breaks("install") /\ install' = install
  /\ UNCHANGED <<previous, backup, update, before>>

RemovePrevious ==
  /\ at = "remove"
  /\ \/ /\ Go("remove", "mark") /\ told' = told
        /\ previous' = [previous EXCEPT ![update] = NoTree]
     \/ /\ Exists(previous[update])
        /\ Breaks("remove")
        /\ previous' \in {previous, [previous EXCEPT ![update] = PartOf(@)]}
  /\ UNCHANGED <<install, backup, update, before>>

Mark ==
  /\ Report("mark", "updated") \/ Ends("mark")
  /\ UNCHANGED <<install, previous, backup, update, before>>

\* The except branch: what is installed goes, then the tree that was set aside comes
\* back, or else the backup.
UndoInstall ==
  /\ \/ Go("undo", "restore") /\ told' = told /\ install' = NoTree
     \/ /\ Exists(install)
        /\ GivesUp("undo")
        /\ install' \in {install, PartOf(install)}
  /\ UNCHANGED <<previous, backup, update, before>>

MoveBack ==
  /\ at = "restore" /\ Exists(previous[update])
  /\ \/ /\ Report("restore", "rolled back")
        /\ install' = previous[update] /\ previous' = [previous EXCEPT ![update] = NoTree]
     \/ /\ GivesUp("restore")
        /\ UNCHANGED <<install, previous>>

CopyBack ==
  /\ at = "restore" /\ ~Exists(previous[update])
  /\ \/ Report("restore", "rolled back") /\ install' = backup[update]
     \/ /\ Exists(backup[update])
        /\ GivesUp("restore")
        /\ install' \in {install, PartOf(backup[update])}
  /\ previous' = previous

Next ==
  \/ Begin \/ Package
  \/ BackUp /\ UNCHANGED <<install, previous, update, before>>
  \/ SetAside \/ Install \/ RemovePrevious \/ Mark \/ UndoInstall
  \/ (MoveBack \/ CopyBack) /\ UNCHANGED <<backup, update, before>>

Spec == Init /\ [][Next]_vars

----------------------------------------------------------------------------------
\* Whatever fails and wherever an update stops, what is installed is a whole tree, or the
\* last whole tree that was there is still somewhere whole: a return by hand is possible.
ReturnIsPossible ==
  \/ install.is = "whole" \/ before = NoTree
  \/ \E u \in Updates : before \in {previous[u], backup[u]}

\* «En cas d'échec, le précédent arbre applicatif est restauré.»
\* A rollback that is reported as done has put the whole tree back.
RollbackIsWhole == told = "rolled back" /\ before # NoTree => install = before
==================================================================================
