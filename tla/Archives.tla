-------------------------------- MODULE Archives --------------------------------
(* The local backups (services/backup.py: create_backup, validate_backup,          *)
(* prune_backups) as the requests of api/system.py and prepare_upgrade run them,    *)
(* crossing each other: each lists the directory once, then goes through its list.  *)
(* An archive is known by its modification time, the moment it was written; it gets  *)
(* its final name later, after its validation.  An archive that is not valid may be  *)
(* put in the directory by hand.                                                     *)
EXTENDS Integers, FiniteSets

CONSTANTS
  Calls,              \* calls of create_backup and prune_backups, each once
  Creators,           \* those of create_backup
  MAX_BACKUPS_TO_KEEP,
  MaxArchives         \* bound: archives ever written

VARIABLES
  directory,    \* the archives that have their final name
  torn,         \* those that no validation accepts
  written,      \* the number of archives written
  call,         \* call[c]: at, own (its archive), list (candidates left), kept
  made          \* history: the valid archives that ever had their final name

vars == <<directory, torn, written, call, made>>

ArchivesConstants ==
  /\ IsFiniteSet(Calls) /\ Creators \subseteq Calls
  /\ MAX_BACKUPS_TO_KEEP \in Nat \ {0} /\ MaxArchives \in Nat

Ids == 1..MaxArchives
Places == {"new", "publish", "list", "sort", "prune", "done", "failed"}

TypeOK ==
  /\ directory \subseteq Ids /\ torn \subseteq Ids /\ made \subseteq Ids
  /\ written \in 0..MaxArchives
  /\ call \in [Calls -> [at : Places, own : 0..MaxArchives, list : SUBSET Ids,
                         kept : 0..MAX_BACKUPS_TO_KEEP]]

Init ==
  /\ directory = {} /\ torn = {} /\ made = {} /\ written = 0
  /\ call = [c \in Calls |-> [at |-> IF c \in Creators THEN "new" ELSE "list", own |-> 0,
                              list |-> {}, kept |-> 0]]

----------------------------------------------------------------------------------
At(c, from, to) == call[c].at = from /\ call' = [call EXCEPT ![c].at = to]

\* The copy of the database, the archive under its temporary name, its validation; a
\* failure removes the temporary file.
WriteArchive(c) ==
  /\ \/ /\ call[c].at = "new" /\ written < MaxArchives
        /\ written' = written + 1
        /\ call' = [call EXCEPT ![c].at = "publish", ![c].own = written + 1]
     \/ At(c, "new", "failed") /\ written' = written
  /\ UNCHANGED <<directory, torn, made>>

\* os.replace(temp_final, final)
Publish(c) ==
  /\ At(c, "publish", "list")
  /\ directory' = directory \cup {call[c].own} /\ made' = made \cup {call[c].own}
  /\ UNCHANGED <<torn, written>>

ListDirectory(c) ==
  /\ call[c].at = "list"
  /\ call' = [call EXCEPT ![c].at = "sort", ![c].list = directory]
  /\ UNCHANGED <<directory, torn, written, made>>

\* The sort asks every file for its time: one that has gone ends the call in an error.
Sort(c) ==
  /\ At(c, "sort", IF call[c].list \subseteq directory THEN "prune" ELSE "failed")
  /\ UNCHANGED <<directory, torn, written, made>>

Newest(S) == CHOOSE x \in S : \A y \in S : y <= x
Oldest(S) == CHOOSE x \in S : \A y \in S : x <= y
Candidate_Oldest(list) == Oldest(list)
Candidate(list) == Newest(list)

\* One turn of the loop: what is not valid, or has gone, or cannot be removed, is passed.
Turn(c, kept) ==
  call' = [call EXCEPT ![c].list = @ \ {Candidate(@)}, ![c].kept = kept]
Prune(c) ==
  /\ call[c].at = "prune" /\ call[c].list # {}
  /\ LET a == Candidate(call[c].list)
         good == a \in directory \ torn
         full == call[c].kept >= MAX_BACKUPS_TO_KEEP
     IN \/ good /\ ~full /\ Turn(c, call[c].kept + 1) /\ directory' = directory
        \/ good /\ full /\ Turn(c, call[c].kept) /\ directory' \in {directory, directory \ {a}}
        \/ ~good /\ Turn(c, call[c].kept) /\ directory' = directory
  /\ UNCHANGED <<torn, written, made>>

End(c) ==
  /\ call[c].list = {} /\ At(c, "prune", "done")
  /\ UNCHANGED <<directory, torn, written, made>>

PlaceTorn ==
  /\ written < MaxArchives /\ written' = written + 1
  /\ directory' = directory \cup {written + 1} /\ torn' = torn \cup {written + 1}
  /\ UNCHANGED <<call, made>>

Next ==
  \/ \E c \in Calls : \/ WriteArchive(c) \/ Publish(c) \/ ListDirectory(c) \/ Sort(c)
                      \/ Prune(c) \/ End(c)
  \/ PlaceTorn

Spec == Init /\ [][Next]_vars

----------------------------------------------------------------------------------
\* «jamais la plus récente»: however creations and prunings cross, with stale lists and
\* archives that are published out of order, a valid archive only goes when as many newer
\* valid ones as are to be kept were made; one that is not valid never goes.
KeepsTheNewest ==
  /\ \A a \in made \ directory :
       Cardinality({b \in made : b > a}) >= MAX_BACKUPS_TO_KEEP
  /\ torn \subseteq directory
==================================================================================
