--------------------------------- MODULE Startup ---------------------------------
(* The start of the server on SQLite: app/main.py (the startup event), the seed   *)
(* that run_server.py runs before it, and the two plans that an administrator      *)
(* leaves for the next start: a restore (app/services/backup.py) and an upgrade    *)
(* (app/services/upgrade.py).                                                      *)
(*                                                                                 *)
(* A plan is a state file.  Applying it replaces two things, the database and the  *)
(* media directory, with renames of a file or a directory: each rename is a step,  *)
(* and the process may stop between any two.  What is on disk stays, and the next  *)
(* start finds the state file if it was not removed.  The theorems are at the end.  *)
EXTENDS Integers

CONSTANTS
  Archives,       \* backups that an administrator may restore
  ArchiveSchema,  \* [Archives -> Schemas \ {"part"}]
  Refused,        \* archives that are valid, but not for this installation
  Unpictured,     \* sets of contents, one of which are those without a picture
  Launchers,      \* ways the server is started: run_server.py, uvicorn alone
  MaxWrites,      \* bound: writes on one content, licence changes
  MaxCrashes,     \* bound: stops of the process in mid-step
  MaxErrors       \* bound: failing file operations

Sources == Archives \cup {"live", "fresh"}
Schemas == {"unversioned", "old", "part", "head"}

ASSUME StartupAssumption ==
  /\ Archives \cap {"live", "fresh", "none", "empty"} = {}
  /\ ArchiveSchema \in [Archives -> Schemas \ {"part"}]
  /\ Refused \subseteq Archives
  /\ Unpictured \subseteq SUBSET Sources
  /\ Launchers \subseteq {"run_server", "uvicorn"} /\ Launchers # {}
  /\ MaxWrites \in Nat \ {0} /\ MaxCrashes \in Nat /\ MaxErrors \in Nat

VARIABLES
  phase,      \* what the process is about to do
  launcher,   \* how the process was started
  held,       \* TRUE: the seed left an open connection in the engine's pool
  db,         \* the database file: whose data, how many writes on it, which licence
  media,      \* the media directory: whose files
  oldDb,      \* .sigma.db.rollback.<token> of the plan
  oldMedia,   \* .media.rollback.<token> of the plan
  plan,       \* restore_pending.json: the archive, or "none"
  upgrade,    \* upgrade_pending.json: the contents of its safety backup
  breaks,     \* TRUE: the migrations of this release fail on this school's data
  bare,       \* the contents without a picture
  leftover,   \* history: TRUE once a way back left the media of another content
  written,    \* history: written[s], the writes accepted on the content s
  issued,     \* history: the last licence issued
  crashes, errors

disk == <<db, media, oldDb, oldMedia>>
plans == <<plan, upgrade>>
history == <<breaks, bare, leftover, written, issued>>
faults == <<crashes, errors>>
process == <<launcher, held>>
vars == <<phase, disk, plans, history, process, faults>>

\* lic 0: no row in school_subscriptions.
Contents == [src : Sources, n : 0..MaxWrites, lic : 0..MaxWrites, schema : Schemas]
NoDb == [src |-> "none", n |-> 0, lic |-> 0, schema |-> "unversioned"]
NoUpgrade == [db |-> NoDb, media |-> "none"]
MediaSets == Sources \cup {"none", "empty"}

\* The media directory of a content, and what an archive has of a directory: its files.
MediaOf(src) == IF src \in bare THEN "empty" ELSE src
Entries(directory) == IF directory = "empty" THEN "none" ELSE directory

\* The start of a process, then apply_pending_restore, its except branch,
\* apply_pending_upgrade and _restore_safety_backup, in the order of the code.
Phases ==
  {"down", "seed"}
  \cup {"extract", "moveDb", "placeDb", "moveMedia", "placeMedia", "settle", "tidy"}
  \cup {"undo", "undoDb", "undoMedia", "undoMedia2"}
  \cup {"upgrade", "migrating", "migrated"}
  \cup {"backDb", "backMedia", "backMedia2", "backSettle"}
  \cup {"serving"}

TypeOK ==
  /\ phase \in Phases
  /\ launcher \in Launchers /\ held \in BOOLEAN
  /\ {db, oldDb} \subseteq Contents \cup {NoDb}
  /\ {media, oldMedia} \subseteq MediaSets
  /\ plan \in Archives \cup {"none"}
  /\ upgrade \in [db : Contents \cup {NoDb}, media : MediaSets]
  /\ breaks \in BOOLEAN /\ bare \subseteq Sources /\ leftover \in BOOLEAN
  /\ written \in [Sources -> Nat]
  /\ issued \in 0..MaxWrites
  /\ crashes \in 0..MaxCrashes /\ errors \in 0..MaxErrors

Init ==
  /\ phase = "serving" /\ launcher \in Launchers /\ held = (launcher = "run_server")
  /\ db = [src |-> "live", n |-> 0, lic |-> 1, schema |-> "old"]
  /\ bare \in Unpictured /\ leftover = FALSE
  /\ media = MediaOf("live")
  /\ oldDb = NoDb /\ oldMedia = "none"
  /\ plan = "none" /\ upgrade = NoUpgrade
  /\ breaks \in BOOLEAN
  /\ written = [s \in Sources |-> 0]
  /\ issued = 1
  /\ crashes = 0 /\ errors = 0

Go(from, to) == phase = from /\ phase' = to

---------------------------------------------------------------------------------
(* While the server accepts requests                                             *)

Write ==
  /\ phase = "serving"
  /\ db.n < MaxWrites
  /\ db' = [db EXCEPT !.n = @ + 1]
  /\ written' = [written EXCEPT ![db.src] = @ + 1]
  /\ UNCHANGED <<phase, media, oldDb, oldMedia, plans, breaks, bare, leftover,
                 issued, process, faults>>

\* The subscription of the school is renewed or changed.
ChangeLicence ==
  /\ phase = "serving"
  /\ db.lic < MaxWrites
  /\ db' = [db EXCEPT !.lic = @ + 1]
  /\ issued' = db.lic + 1
  /\ UNCHANGED <<phase, media, oldDb, oldMedia, plans, breaks, bare, leftover,
                 written, process, faults>>

\* prepare_restore: the archive is valid and is copied; a new token means new names
\* for the rollback copies.  (Bound: not the archive that is being served.)
PrepareRestore(a) ==
  /\ phase = "serving"
  /\ plan = "none"
  /\ a # db.src
  /\ plan' = a
  /\ oldDb' = NoDb /\ oldMedia' = "none"
  /\ UNCHANGED <<phase, db, media, upgrade, history, process, faults>>

CancelRestore ==
  /\ phase = "serving"
  /\ plan' = "none"
  /\ UNCHANGED <<phase, disk, upgrade, history, process, faults>>

\* prepare_upgrade: a migration is needed; the safety backup is made now.
PrepareUpgrade ==
  /\ phase = "serving"
  /\ upgrade = NoUpgrade
  /\ db.schema # "head"
  /\ upgrade' = [db |-> db, media |-> Entries(media)]
  /\ UNCHANGED <<phase, disk, plan, history, process, faults>>

CancelUpgrade ==
  /\ phase = "serving"
  /\ upgrade' = NoUpgrade
  /\ UNCHANGED <<phase, disk, plan, history, process, faults>>

Stop == Go("serving", "down") /\ UNCHANGED <<disk, plans, history, process, faults>>

---------------------------------------------------------------------------------
(* Start, and apply_pending_restore                                              *)

\* A new process has no connection.
Start ==
  /\ launcher' \in Launchers
  /\ Go("down", IF launcher' = "run_server" THEN "seed" ELSE "extract")
  /\ held' = FALSE
  /\ UNCHANGED <<disk, plans, history, faults>>

\* seed.run: create_all makes a database where there is none; it has no licence.  The
\* session it closes gives its connection back to the pool, which keeps it open.
Seed ==
  /\ Go("seed", "extract")
  /\ held' = TRUE
  /\ db' = IF db = NoDb
           THEN [src |-> "fresh", n |-> 0, lic |-> 0, schema |-> "unversioned"] ELSE db
  /\ UNCHANGED <<media, oldDb, oldMedia, plans, history, launcher, faults>>

\* _preserve_and_validate_commercial_state: the live database is there and has a
\* licence, which is copied; the archive has the table, its columns, and keeps the
\* quotas of that licence.
Preservable_Any(a) == a \notin Refused
Preservable(a) == db # NoDb /\ db.lic > 0 /\ a \notin Refused

Extract ==
  /\ Go("extract", CASE plan = "none" -> "upgrade"
                     [] plan # "none" /\ Preservable(plan) -> "moveDb"
                     [] OTHER -> "undo")
  /\ UNCHANGED <<disk, plans, history, process, faults>>

\* os.replace(live_db, old_db) overwrites what an earlier attempt left there.  The
\* staged database already has its licence: oldDb keeps it until the next step.  On
\* Windows a file that is open is neither renamed nor removed.
MoveDb ==
  /\ ~held
  /\ Go("moveDb", "placeDb")
  /\ oldDb' = db
  /\ db' = NoDb
  /\ UNCHANGED <<media, oldMedia, plans, history, process, faults>>

MoveHeldDb ==
  /\ held
  /\ Go("moveDb", "undo")
  /\ UNCHANGED <<disk, plans, history, process, faults>>

PlaceDb ==
  /\ Go("placeDb", "moveMedia")
  /\ db' = [src |-> plan, n |-> 0, lic |-> oldDb.lic, schema |-> ArchiveSchema[plan]]
  /\ written' = [written EXCEPT ![plan] = 0]
  /\ UNCHANGED <<media, oldDb, oldMedia, plans, breaks, bare, leftover, issued, process,
                 faults>>

\* media_root() makes the directory if it is missing.  A directory cannot be renamed
\* over one that is not empty.
CanMoveMedia == oldMedia \in {"none", "empty"}

MoveMedia ==
  /\ phase = "moveMedia"
  /\ IF CanMoveMedia
     THEN /\ phase' = "placeMedia"
          /\ oldMedia' = IF media = "none" THEN "empty" ELSE media
          /\ media' = "none"
     ELSE /\ phase' = "undo"
          /\ media' = IF media = "none" THEN "empty" ELSE media
          /\ UNCHANGED oldMedia
  /\ UNCHANGED <<db, oldDb, plans, history, process, faults>>

PlaceMedia ==
  /\ Go("placeMedia", "settle")
  /\ media' = MediaOf(plan)
  /\ UNCHANGED <<db, oldDb, oldMedia, plans, history, process, faults>>

\* The state file is removed.
Settled_Applied == "applied"
Settled == "none"

Settle ==
  /\ Go("settle", "tidy")
  /\ plan' = Settled
  /\ UNCHANGED <<disk, upgrade, history, process, faults>>

\* The rollback copies and the archive are removed.
Tidy ==
  /\ Go("tidy", "upgrade")
  /\ oldDb' = NoDb /\ oldMedia' = "none"
  /\ UNCHANGED <<db, media, plans, history, process, faults>>

\* The except branch: what an earlier attempt left is put back too, unless the
\* database that stands there is open.
Undo ==
  /\ phase = "undo"
  /\ CASE oldDb = NoDb -> phase' = "undoMedia" /\ UNCHANGED db
       [] oldDb # NoDb /\ held -> phase' = "down" /\ UNCHANGED db
       [] OTHER -> phase' = "undoDb" /\ db' = NoDb
  /\ UNCHANGED <<media, oldDb, oldMedia, plans, history, process, faults>>

UndoDb ==
  /\ Go("undoDb", "undoMedia")
  /\ db' = oldDb /\ oldDb' = NoDb
  /\ UNCHANGED <<media, oldMedia, plans, history, process, faults>>

HasOldMedia_Forgotten == FALSE
HasOldMedia == oldMedia # "none"

UndoMedia ==
  /\ phase = "undoMedia"
  /\ IF HasOldMedia THEN phase' = "undoMedia2" /\ media' = "none"
     ELSE phase' = "down" /\ media' = IF media = "none" THEN "empty" ELSE media
  /\ UNCHANGED <<db, oldDb, oldMedia, plans, history, process, faults>>

UndoMedia2_PlanDropped ==
  /\ Go("undoMedia2", "down")
  /\ media' = oldMedia /\ oldMedia' = "none"
  /\ plan' = "none"
  /\ UNCHANGED <<db, oldDb, upgrade, history, process, faults>>

\* The exception goes on and the process ends; the plan is for the next start.
UndoMedia2 ==
  /\ Go("undoMedia2", "down")
  /\ media' = oldMedia /\ oldMedia' = "none"
  /\ UNCHANGED <<db, oldDb, plans, history, process, faults>>

---------------------------------------------------------------------------------
(* apply_pending_upgrade, and the end of the startup event                       *)

\* A database without a version is stamped as the head, and has nothing to migrate.
\* One whose migration was cut in two can be continued, or not.
BeginUpgrade ==
  /\ phase = "upgrade"
  /\ IF upgrade = NoUpgrade
     THEN /\ phase' = "serving" /\ UNCHANGED db
          /\ media' = IF media = "none" THEN "empty" ELSE media
     ELSE /\ UNCHANGED media
          /\ CASE db.schema \in {"unversioned", "head"} ->
                    phase' = "migrated" /\ db' = [db EXCEPT !.schema = "head"]
               [] db.schema = "old" ->
                    phase' = "migrating" /\ db' = [db EXCEPT !.schema = "part"]
               [] db.schema = "part" -> phase' \in {"migrating", "backDb"} /\ UNCHANGED db
  /\ UNCHANGED <<oldDb, oldMedia, plans, history, process, faults>>

\* SQLite keeps the statements of a migration that stops halfway.
Migrate ==
  /\ Go("migrating", IF breaks THEN "backDb" ELSE "migrated")
  /\ db' = [db EXCEPT !.schema = IF breaks THEN "part" ELSE "head"]
  /\ UNCHANGED <<media, oldDb, oldMedia, plans, history, process, faults>>

EndUpgrade ==
  /\ Go("migrated", "serving")
  /\ upgrade' = NoUpgrade
  /\ media' = IF media = "none" THEN "empty" ELSE media
  /\ UNCHANGED <<db, oldDb, oldMedia, plan, history, process, faults>>

\* _restore_safety_backup, which closes the pool first.  What counts as written is again
\* what the backup holds.
BackDb ==
  /\ Go("backDb", "backMedia")
  /\ held' = FALSE
  /\ db' = upgrade.db
  /\ written' = [written EXCEPT ![upgrade.db.src] = upgrade.db.n]
  /\ issued' = upgrade.db.lic
  /\ UNCHANGED <<media, oldDb, oldMedia, plans, breaks, bare, leftover, launcher, faults>>

\* An archive without a picture has no media directory: the one that is there stays.
BackMedia ==
  /\ phase = "backMedia"
  /\ IF upgrade.media = "none"
     THEN /\ phase' = "backSettle"
          /\ leftover' = (leftover \/ media # "empty")
          /\ UNCHANGED media
     ELSE /\ phase' = "backMedia2"
          /\ media' = "none"
          /\ UNCHANGED leftover
  /\ UNCHANGED <<db, oldDb, oldMedia, plans, breaks, bare, written, issued, process, faults>>

BackMedia2 ==
  /\ Go("backMedia2", "backSettle")
  /\ media' = upgrade.media
  /\ UNCHANGED <<db, oldDb, oldMedia, plans, history, process, faults>>

BackSettle ==
  /\ Go("backSettle", "down")
  /\ upgrade' = NoUpgrade
  /\ UNCHANGED <<disk, plan, history, process, faults>>

---------------------------------------------------------------------------------
(* Faults                                                                        *)

Crash ==
  /\ phase # "down"
  /\ crashes < MaxCrashes
  /\ crashes' = crashes + 1
  /\ phase' = "down"
  /\ UNCHANGED <<disk, plans, history, process, errors>>

\* A file operation of the restore fails before the plan is settled.  The checks that
\* come before the try block are not followed by the rollback.
Fail ==
  /\ phase \in {"extract", "moveDb", "placeDb", "moveMedia", "placeMedia", "settle"}
  /\ plan # "none"
  /\ errors < MaxErrors
  /\ errors' = errors + 1
  /\ phase' \in IF phase = "extract" THEN {"undo", "down"} ELSE {"undo"}
  /\ UNCHANGED <<disk, plans, history, process, crashes>>

---------------------------------------------------------------------------------

Serve ==
  \/ Write
  \/ ChangeLicence
  \/ \E a \in Archives : PrepareRestore(a)
  \/ CancelRestore
  \/ PrepareUpgrade
  \/ CancelUpgrade
  \/ Stop

Boot ==
  \/ Start
  \/ Seed
  \/ Extract
  \/ MoveDb
  \/ MoveHeldDb
  \/ PlaceDb
  \/ MoveMedia
  \/ PlaceMedia
  \/ Settle
  \/ Tidy
  \/ Undo
  \/ UndoDb
  \/ UndoMedia
  \/ UndoMedia2
  \/ BeginUpgrade
  \/ Migrate
  \/ EndUpgrade
  \/ BackDb
  \/ BackMedia
  \/ BackMedia2
  \/ BackSettle

Next == Serve \/ Boot \/ Crash \/ Fail

Spec == Init /\ [][Next]_vars

\* A process that is down is started again, and one that starts goes on.
FairSpec == Spec /\ WF_vars(Boot)

---------------------------------------------------------------------------------
(* Properties                                                                    *)

\* The media directory is the content's own, but for that of a content without pictures
\* after a way back that left another's.
Own(directory, src) == directory = MediaOf(src) \/ (src \in bare /\ leftover)

\* However often the replacement was interrupted, failed and was tried again, the
\* database and the media that are served belong together (apply_pending_restore and
\* _restore_safety_backup replace them one after the other).  A database with pictures
\* is always served with them; one without any may be served with those of an archive,
\* once a failed upgrade has put it back over a restore.
Together == phase = "serving" => Own(media, db.src)

\* No write and no licence is lost on the way: the data that is served has every
\* write that was accepted on it, and the last licence, which a restore never rolls
\* back (_preserve_and_validate_commercial_state).
NothingLost == phase = "serving" => db.n = written[db.src] /\ db.lic = issued

\* A restore or an upgrade is applied at the next start, before requests are accepted:
\* whatever is pending, the server comes to serve again.
Restarts == []<>(phase = "serving")

\* So it is when from some moment on every start is without the seed and no archive that
\* is pending is refused, whatever the application of the plans met before and meets then.
RestartsUnseeded ==
  <>[](launcher = "uvicorn" /\ plan \notin Refused) => []<>(phase = "serving")
=================================================================================
