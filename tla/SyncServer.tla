------------------------------- MODULE SyncServer -------------------------------
(* The operation journal of the synchronisation server: app/api/sync.py (push,   *)
(* apply_operation, resolve_conflict), app/services/sync.py (decide_apply,        *)
(* apply_business_mutation) and the online editors that touch the same version    *)
(* rows (app/api/academic.py, app/api/evaluation.py, app/api/students.py).        *)
(*                                                                                *)
(* Requests run in a thread pool, one database session each.  A session only sees *)
(* what others committed, keeps what it read in memory, and writes everything in  *)
(* one commit: every request is therefore a read step or two and a commit step,   *)
(* and other requests run in between.  RowLocks tells the two databases apart:    *)
(* with_for_update() locks a row on PostgreSQL and does nothing on SQLite.        *)
EXTENDS Integers, Sequences, FiniteSets

CONSTANTS
  Ops,             \* operation identifiers (sync_operations.operation_id)
  Entities,        \* records that operations are about
  Workers,         \* request threads
  OpEntity,        \* [Ops -> Entities]
  OpKind,          \* [Ops -> {"create", "update"}]; delete and transition are updates
  OpRef,           \* [Ops -> Sides]: the identifier the operation names its entity by
  ServerKnown,     \* entities with a server row from the start
  VersionedEdits,  \* entities whose online editors bump the version row (notes)
  SilentEdits,     \* entities whose online editors ignore it (students, guardians)
  RowLocks,        \* TRUE: PostgreSQL; FALSE: SQLite
  Overlap,         \* TRUE: a retry may run while the first request still runs
  MaxWrites,       \* bound: writes of one entity
  None             \* no operation, no entity

Sides == {"client", "server"}
Keys == Entities \X Sides

ASSUME SyncAssumption ==
  /\ OpEntity \in [Ops -> Entities]
  /\ OpKind \in [Ops -> {"create", "update"}]
  /\ OpRef \in [Ops -> Sides]
  /\ \A o \in Ops : OpKind[o] = "create" => OpRef[o] = "client"
  /\ ServerKnown \subseteq Entities
  /\ VersionedEdits \subseteq Entities
  /\ SilentEdits \subseteq Entities
  /\ RowLocks \in BOOLEAN
  /\ Overlap \in BOOLEAN
  /\ MaxWrites \in Nat
  /\ None \notin Ops

VARIABLES
  status,     \* status[o] of the journal row, "absent" before the push commits
  base,       \* base[o]: base_version of the row
  opVersion,  \* opVersion[o]: server_version of the row
  ver,        \* ver[k]: version row of key k; 0 when there is no row
  known,      \* entities that have a server row and identity
  log,        \* history: the committed writes of each entity, oldest first
  work        \* work[w]: what request thread w has in memory

vars == <<status, base, opVersion, ver, known, log, work>>

Statuses == {"absent", "pending", "applied", "conflict", "failed"}
Requests == {"push", "apply", "rebase", "discard", "edit"}

Work == [pc : {"idle", "loaded", "decided", "failing"}, req : Requests \cup {"none"},
         op : Ops \cup {None}, ent : Entities \cup {None}, base : Nat, side : Sides, seen : Nat]

IdleWork == [pc |-> "idle", req |-> "none", op |-> None, ent |-> None,
             base |-> 0, side |-> "server", seen |-> 0]

TypeOK ==
  /\ status \in [Ops -> Statuses]
  /\ base \in [Ops -> Nat]
  /\ opVersion \in [Ops -> Nat]
  /\ ver \in [Keys -> Nat]
  /\ known \subseteq Entities
  /\ log \in [Entities -> Seq([op : Ops \cup {None}, base : Nat])]
  /\ work \in [Workers -> Work]

Init ==
  /\ status = [o \in Ops |-> "absent"]
  /\ base = [o \in Ops |-> 0]
  /\ opVersion = [o \in Ops |-> 0]
  /\ ver = [k \in Keys |-> 0]
  /\ known = ServerKnown
  /\ log = [e \in Entities |-> <<>>]
  /\ work = [w \in Workers |-> IdleWork]

---------------------------------------------------------------------------------
(* Helpers                                                                       *)

\* _canonical_version_entity_id: the server identifier as soon as one exists.
CanonicalSide(o) ==
  IF OpRef[o] = "client" /\ OpEntity[o] \notin known THEN "client" ELSE "server"

KeyOf(w) == <<work[w].ent, work[w].side>>

\* decide_apply: the operation was made on the version the server now has.
Agrees_Older(r) == r.base <= r.seen
Agrees(r) == r.base = r.seen

\* An applied row is answered from the journal, a conflict or failed one refused.
Applicable_Again(o) == status[o] \in {"pending", "applied"}
Applicable(o) == status[o] = "pending"

\* Only a conflict can be resolved.
Resolvable_Any(o) == status[o] # "absent"
Resolvable_Refused(o) == status[o] \in {"conflict", "failed"}
Resolvable(o) == status[o] = "conflict"

\* SELECT ... FOR UPDATE holds the row from the read to the end of the transaction.
Locked(k) ==
  \E w \in Workers : /\ work[w].req = "apply"
                     /\ work[w].pc = "decided"
                     /\ work[w].seen > 0
                     /\ KeyOf(w) = k

\* What SELECT ... FOR UPDATE and UPDATE wait for.
RowFree_NoForUpdate(k) == TRUE
RowFree(k) == RowLocks => ~Locked(k)

Idle(w) == work[w].pc = "idle"

\* Without Overlap a client waits for its first request to end before it retries.
MayStart(w, o) == Idle(w) /\ (Overlap \/ \A v \in Workers : work[v].op # o)

Begin(w, request) == work' = [work EXCEPT ![w] = request]
Finish(w) == work' = [work EXCEPT ![w] = IdleWork]

\* A write of e is committed: b is the version its author had seen.
Record(e, who, b) == log' = [log EXCEPT ![e] = Append(@, [op |-> who, base |-> b])]

---------------------------------------------------------------------------------
(* push: the row is stored with the verdict of the version read before the commit *)

\* (a client names an entity by a server identifier that exists)
PushRead(w, o, b) ==
  /\ MayStart(w, o)
  /\ OpRef[o] = "server" => OpEntity[o] \in known
  /\ status[o] = "absent"
  /\ LET side == CanonicalSide(o)
     IN Begin(w, [pc |-> "decided", req |-> "push", op |-> o, ent |-> OpEntity[o],
                  base |-> b, side |-> side, seen |-> ver[<<OpEntity[o], side>>]])
  /\ UNCHANGED <<status, base, opVersion, ver, known, log>>

\* The unique operation_id makes the second of two pushes roll back (409).
PushCommit(w) ==
  LET r == work[w] IN
  /\ r.pc = "decided" /\ r.req = "push"
  /\ status[r.op] = "absent"
  /\ status' = [status EXCEPT ![r.op] = IF Agrees(r) THEN "pending" ELSE "conflict"]
  /\ base' = [base EXCEPT ![r.op] = r.base]
  /\ opVersion' = [opVersion EXCEPT ![r.op] = r.seen]
  /\ Finish(w)
  /\ UNCHANGED <<ver, known, log>>

---------------------------------------------------------------------------------
(* apply_operation                                                               *)

ApplyLoad(w, o) ==
  /\ MayStart(w, o)
  /\ Applicable(o)
  /\ Begin(w, [pc |-> "loaded", req |-> "apply", op |-> o, ent |-> OpEntity[o],
               base |-> base[o], side |-> "server", seen |-> 0])
  /\ UNCHANGED <<status, base, opVersion, ver, known, log>>

\* Shared by apply and resolve_conflict; only apply asks for the row lock.
ReadVersion(w) ==
  LET r == work[w]
      side == CanonicalSide(r.op)
      k == <<r.ent, side>>
  IN /\ r.pc = "loaded"
     /\ r.req = "apply" => RowFree(k)
     /\ Begin(w, [r EXCEPT !.pc = "decided", !.side = side, !.seen = ver[k]])
     /\ UNCHANGED <<status, base, opVersion, ver, known, log>>

Applying(w) == work[w].pc = "decided" /\ work[w].req = "apply"

\* decide_apply says conflict: committed over whatever the row says by now.
ApplyConflict(w) ==
  LET r == work[w] IN
  /\ Applying(w)
  /\ ~Agrees(r)
  /\ status' = [status EXCEPT ![r.op] = "conflict"]
  /\ opVersion' = [opVersion EXCEPT ![r.op] = r.seen]
  /\ Finish(w)
  /\ UNCHANGED <<base, ver, known, log>>

\* The row the new version goes to: the one that was read, or a new one, which a
\* creation moves to the server identifier and an update names as the client did.
VersionRow(w) ==
  LET r == work[w] IN
  IF r.seen > 0 THEN KeyOf(w)
  ELSE <<r.ent, IF OpKind[r.op] = "create" THEN "server" ELSE OpRef[r.op]>>

\* The mutation, the version, the identity and the verdict are one commit.  It
\* fails (IntegrityError, see Abort) if the new version row exists by now.
ApplyCommit(w) ==
  LET r == work[w]
      row == VersionRow(w)
  IN /\ Applying(w)
     /\ Agrees(r)
     /\ r.seen = 0 => ver[row] = 0
     /\ OpKind[r.op] = "update" => r.ent \in known
     /\ Len(log[r.ent]) < MaxWrites
     /\ ver' = [ver EXCEPT ![row] = r.seen + 1]
     /\ known' = known \cup {r.ent}
     /\ status' = [status EXCEPT ![r.op] = "applied"]
     /\ opVersion' = [opVersion EXCEPT ![r.op] = r.seen + 1]
     /\ Record(r.ent, r.op, r.base)
     /\ Finish(w)
     /\ UNCHANGED base

\* A business rule refuses the mutation (ValueError): roll back, which frees the
\* row lock, then store the failure in a second transaction.
ApplyReject(w) ==
  /\ Applying(w)
  /\ Agrees(work[w])
  /\ Begin(w, [work[w] EXCEPT !.pc = "failing"])
  /\ UNCHANGED <<status, base, opVersion, ver, known, log>>

ApplyMarkFailed(w) ==
  /\ work[w].pc = "failing"
  /\ status' = [status EXCEPT ![work[w].op] = "failed"]
  /\ Finish(w)
  /\ UNCHANGED <<base, opVersion, ver, known, log>>

---------------------------------------------------------------------------------
(* resolve_conflict                                                              *)

ResolveLoad(w, o, choice) ==
  /\ MayStart(w, o)
  /\ Resolvable(o)
  /\ Begin(w, [pc |-> "loaded", req |-> choice, op |-> o, ent |-> OpEntity[o],
               base |-> base[o], side |-> "server", seen |-> 0])
  /\ UNCHANGED <<status, base, opVersion, ver, known, log>>

DiscardedStatus_AsReplied == "discarded"
DiscardedStatus == "failed"

ResolveDiscard(w) ==
  /\ work[w].pc = "decided" /\ work[w].req = "discard"
  /\ status' = [status EXCEPT ![work[w].op] = DiscardedStatus]
  /\ Finish(w)
  /\ UNCHANGED <<base, opVersion, ver, known, log>>

ResolveRebase(w) ==
  LET r == work[w] IN
  /\ r.pc = "decided" /\ r.req = "rebase"
  /\ status' = [status EXCEPT ![r.op] = "pending"]
  /\ base' = [base EXCEPT ![r.op] = r.seen]
  /\ opVersion' = [opVersion EXCEPT ![r.op] = r.seen]
  /\ Finish(w)
  /\ UNCHANGED <<ver, known, log>>

---------------------------------------------------------------------------------
(* Online editors of the same records                                            *)

\* A bulk entry of notes flushes them first: its transaction owns them when it reads
\* the version, and no other writer of the same note commits before it does.
EditUnderLock(e) ==
  LET k == <<e, "server">> IN
  /\ e \in VersionedEdits \cap known
  /\ RowFree(k)
  /\ Len(log[e]) < MaxWrites
  /\ ver' = [ver EXCEPT ![k] = @ + 1]
  /\ Record(e, None, ver[k])
  /\ UNCHANGED <<status, base, opVersion, known, work>>

\* Note transitions and evaluation results: version.version += 1 on a row that was
\* read without a lock, written by the commit.
EditRead(w, e) ==
  /\ Idle(w)
  /\ e \in VersionedEdits \cap known
  /\ Begin(w, [pc |-> "decided", req |-> "edit", op |-> None, ent |-> e,
               base |-> 0, side |-> "server", seen |-> ver[<<e, "server">>]])
  /\ UNCHANGED <<status, base, opVersion, ver, known, log>>

EditCommit(w) ==
  LET r == work[w]
      k == KeyOf(w)
  IN /\ r.pc = "decided" /\ r.req = "edit"
     /\ r.seen = 0 => ver[k] = 0
     /\ RowFree(k)
     /\ Len(log[r.ent]) < MaxWrites
     /\ ver' = [ver EXCEPT ![k] = r.seen + 1]
     /\ Record(r.ent, None, r.seen)
     /\ Finish(w)
     /\ UNCHANGED <<status, base, opVersion, known>>

\* A student or a guardian edited online: no version row is touched.
EditSilently(e) ==
  /\ e \in SilentEdits \cap known
  /\ Len(log[e]) < MaxWrites
  /\ Record(e, None, Len(log[e]))
  /\ UNCHANGED <<status, base, opVersion, ver, known, work>>

---------------------------------------------------------------------------------
\* The request dies before its commit: an IntegrityError (500 or 409), a busy
\* database, a stopped server.  Nothing of it was written.
Abort(w) ==
  /\ ~Idle(w)
  /\ Finish(w)
  /\ UNCHANGED <<status, base, opVersion, ver, known, log>>

OpStep(w, o) ==
  \/ \E b \in 0..MaxWrites : PushRead(w, o, b)
  \/ ApplyLoad(w, o)
  \/ \E choice \in {"rebase", "discard"} : ResolveLoad(w, o, choice)

WorkStep(w) ==
  \/ PushCommit(w)
  \/ ReadVersion(w)
  \/ ApplyConflict(w)
  \/ ApplyCommit(w)
  \/ ApplyReject(w)
  \/ ApplyMarkFailed(w)
  \/ ResolveDiscard(w)
  \/ ResolveRebase(w)
  \/ EditCommit(w)
  \/ Abort(w)

Next ==
  \/ \E w \in Workers, o \in Ops : OpStep(w, o)
  \/ \E w \in Workers, e \in Entities : EditRead(w, e)
  \/ \E w \in Workers : WorkStep(w)
  \/ \E e \in Entities : EditUnderLock(e) \/ EditSilently(e)

Spec == Init /\ [][Next]_vars

---------------------------------------------------------------------------------
(* Properties                                                                    *)

\* Positions of o's writes in the history of its entity.
WritesOf(o) == {i \in DOMAIN log[OpEntity[o]] : log[OpEntity[o]][i].op = o}

\* A row that was settled (applied or failed) is never rewritten by another request:
\* apply_operation answers an applied row, and refuses a failed one.  One request
\* per operation at a time is enough for this, on both databases.
SettledIsFinal ==
  [][\A o \in Ops : status[o] \in {"applied", "failed"} => status'[o] = status[o]]_vars

\* The journal tells the truth about the data: an applied operation was written
\* exactly once, any other one never (apply_operation commits the mutation with the
\* verdict, and rolls back before it stores a failure).
JournalMatchesWrites ==
  \A o \in Ops : Cardinality(WritesOf(o)) = IF status[o] = "applied" THEN 1 ELSE 0

\* No silent overwrite: the author of each accepted operation had seen every write
\* made before it, because decide_apply compared its base with a locked version.
SerialLog ==
  \A e \in Entities : \A i \in DOMAIN log[e] :
    log[e][i].op \in Ops => log[e][i].base = i - 1

\* The version rows of an entity count its writes, so that two different states
\* of an entity never bear the same version.
VersionCountsWrites ==
  \A e \in Entities : ver[<<e, "client">>] + ver[<<e, "server">>] = Len(log[e])

\* The server_version that apply_operation stores and returns is the position of
\* the write in the history: what a client uses as its next base.
VersionIsPosition ==
  \A o \in Ops : status[o] = "applied" =>
    /\ opVersion[o] \in DOMAIN log[OpEntity[o]]
    /\ log[OpEntity[o]][opVersion[o]].op = o

\* The journal implements the versioned store.
Outcome == [o \in Ops |-> IF status[o] \in {"pending", "conflict"} THEN "open" ELSE status[o]]
Store == INSTANCE VersionedStore WITH outcome <- Outcome, log <- log
ImplementsStore == Store!StoreSpec
=================================================================================
