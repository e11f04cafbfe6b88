------------------------------- MODULE SyncSystem -------------------------------
(* The desktop synchronisation client and the server it talks to:                 *)
(* app/services/sync_client.py (SyncClientEngine, LocalReadModel),                *)
(* app/services/offline_client.py (OfflineSyncStore) and the handlers of          *)
(* app/api/sync.py (push, apply_batch, pull, acknowledge, resolve_conflict).      *)
(*                                                                                *)
(* A client makes one pass after the other (sync_once: push, apply, pull, cache,  *)
(* ack) and keeps everything but the pass itself in its SQLite file.  A call may  *)
(* be lost, its reply may be lost, and after the client's timeout the server may  *)
(* still serve it.  SyncServer looks inside one handler; here a handler is one    *)
(* step, except for push, whose rows get their number before they are committed.  *)
EXTENDS Naturals, FiniteSets, FiniteSetsExt

CONSTANTS
  Devices,      \* client stations
  Ops,          \* operations, numbers in order of creation
  Entities,     \* synchronised records
  OpDevice,     \* [Ops -> Devices]
  OpEntity,     \* [Ops -> Entities]
  OpRef,        \* [Ops -> Sides]: the identifier the operation names its entity by
  Creations,    \* operations that create their entity
  InOrder,      \* TRUE: rows are committed in the order of their ids (SQLite)
  Rebases,      \* TRUE: users resolve conflicts by rebase
  MaxLate,      \* bound: calls that the client no longer waits for
  MaxRows       \* bound: ids of sync_operations

Sides == {"client", "server"}
Keys == Entities \X Sides

ASSUME SystemAssumption ==
  /\ Ops \subseteq Nat \ {0} /\ IsFiniteSet(Ops)
  /\ OpDevice \in [Ops -> Devices]
  /\ OpEntity \in [Ops -> Entities]
  /\ OpRef \in [Ops -> Sides]
  /\ Creations \subseteq {o \in Ops : OpRef[o] = "client"}
  /\ InOrder \in BOOLEAN
  /\ Rebases \in BOOLEAN
  /\ MaxLate \in Nat
  /\ MaxRows \in Nat

VARIABLES
  \* server
  status,      \* status[o] of the journal row, "absent" before it is committed
  base,        \* base[o]: base_version of the row
  rowVersion,  \* rowVersion[o]: server_version of the row
  rowId,       \* rowId[o]: id of the row, 0 before it is inserted
  lastId,      \* last id of the table
  ver,         \* ver[e]: version row of the entity
  known,       \* entities with a server identity
  acks,        \* acks[d]: operations that d acknowledged
  \* network
  calls,       \* requests that the server has not answered
  \* clients
  outbox,      \* outbox[o]: status of the outbox row, "none" before enqueue
  myBase,      \* myBase[o]: base_version of the outbox row
  conflicts,   \* conflicts[o]: row of sync_conflicts: "none", "open" or "resolved"
  inbox,       \* inbox[d][o]: "none", "received" or "applied"
  seen,        \* seen[d][o]: server_version of the inbox row
  cursor,      \* cursor[d]: last_pull_id
  cache,       \* cache[d][k]: the operation last merged in the copy of k, 0 for none
  identity,    \* identity[d]: entities whose server identifier d remembers
  pass         \* pass[d]: where sync_once is, and the items it still has to handle

server == <<status, base, rowVersion, rowId, lastId, ver, known, acks>>
store == <<outbox, myBase, conflicts, inbox, seen, cursor, cache, identity>>
vars == <<server, calls, store, pass>>

OfDevice(d) == {o \in Ops : OpDevice[o] = d}
Statuses == {"absent", "pending", "applied", "conflict", "failed"}
OutboxStatuses == {"none", "pending", "retry", "applied", "failed", "conflict"}
Kinds == {"push", "apply", "pull", "ack", "rebase", "discard"}
Results == Statuses \cup {"created"}

\* items is a partial function: the operations of a reply and what it says of them.
Replies == UNION {[S -> Results] : S \in SUBSET Ops}
Nothing == [o \in {} |-> "absent"]
IdlePass == [at |-> "idle", items |-> Nothing, ops |-> {}]

Messages == [dev : Devices, kind : Kinds, ops : SUBSET Ops, done : Replies, late : BOOLEAN]
Passes == [at : {"idle", "call", "verdicts", "results", "identity", "inbox", "merged"},
           items : Replies, ops : SUBSET Ops]

ServerTypeOK ==
  /\ status \in [Ops -> Statuses]
  /\ base \in [Ops -> Nat] /\ rowVersion \in [Ops -> Nat]
  /\ rowId \in [Ops -> 0..MaxRows] /\ lastId \in 0..MaxRows
  /\ ver \in [Entities -> Nat] /\ known \subseteq Entities
  /\ acks \in [Devices -> SUBSET Ops]

StoreTypeOK ==
  /\ outbox \in [Ops -> OutboxStatuses] /\ myBase \in [Ops -> Nat]
  /\ conflicts \in [Ops -> {"none", "open", "resolved"}]
  /\ inbox \in [Devices -> [Ops -> {"none", "received", "applied"}]]
  /\ seen \in [Devices -> [Ops -> Nat]]
  /\ cursor \in [Devices -> 0..MaxRows]
  /\ cache \in [Devices -> [Keys -> Ops \cup {0}]]
  /\ identity \in [Devices -> SUBSET Entities]

TypeOK ==
  /\ ServerTypeOK /\ StoreTypeOK
  /\ calls \subseteq Messages
  /\ pass \in [Devices -> Passes]

Init ==
  /\ status = [o \in Ops |-> "absent"]
  /\ base = [o \in Ops |-> 0] /\ rowVersion = [o \in Ops |-> 0]
  /\ rowId = [o \in Ops |-> 0] /\ lastId = 0
  /\ ver = [e \in Entities |-> 0]
  /\ known = Entities \ {OpEntity[o] : o \in Creations}
  /\ acks = [d \in Devices |-> {}]
  /\ calls = {}
  /\ outbox = [o \in Ops |-> "none"] /\ myBase = [o \in Ops |-> 0]
  /\ conflicts = [o \in Ops |-> "none"]
  /\ inbox = [d \in Devices |-> [o \in Ops |-> "none"]]
  /\ seen = [d \in Devices |-> [o \in Ops |-> 0]]
  /\ cursor = [d \in Devices |-> 0]
  /\ cache = [d \in Devices |-> [k \in Keys |-> 0]]
  /\ identity = [d \in Devices |-> {}]
  /\ pass = [d \in Devices |-> IdlePass]

---------------------------------------------------------------------------------
(* Calls                                                                         *)

Request(d, kind, ops) ==
  [dev |-> d, kind |-> kind, ops |-> ops, done |-> Nothing, late |-> FALSE]

\* d sends a request and waits: the pass goes on when the reply is there.
Send(d, kind, ops) ==
  /\ calls' = calls \cup {Request(d, kind, ops)}
  /\ pass' = [pass EXCEPT ![d] = [at |-> "call", items |-> Nothing, ops |-> ops]]

\* The answer of the server; nobody reads it if the client gave up.
Answer(r, at, items) ==
  /\ calls' = calls \ {r}
  /\ pass' = IF r.late THEN pass
             ELSE [pass EXCEPT ![r.dev].at = at, ![r.dev].items = items]

\* The call fails, in the network or in the server, before anything is committed or
\* after: what apply_batch committed for the first operations stays.
Lose(r) ==
  /\ r \in calls
  /\ rowId' = [o \in Ops |-> IF r.kind = "push" /\ o \in DOMAIN r.done /\ status[o] = "absent"
                             THEN 0 ELSE rowId[o]]
  /\ Answer(r, "idle", Nothing)
  /\ UNCHANGED <<status, base, rowVersion, lastId, ver, known, acks, store>>

\* The client times out or stops anywhere in a pass.  What it has not written to its
\* file is forgotten; the server may still serve the call.
GiveUp(d) ==
  LET mine == {r \in calls : r.dev = d /\ ~r.late} IN
  /\ pass[d].at # "idle"
  /\ Cardinality({r \in calls : r.late}) + Cardinality(mine) <= MaxLate
  /\ calls' = (calls \ mine) \cup {[r EXCEPT !.late = TRUE] : r \in mine}
  /\ pass' = [pass EXCEPT ![d] = IdlePass]
  /\ UNCHANGED <<server, store>>

---------------------------------------------------------------------------------
(* Server                                                                        *)

\* push, up to the flush: rows that are not in the journal get a verdict and an id.
\* SQLite lets one transaction write at a time.
PushFlush(r) ==
  LET new == {o \in r.ops : status[o] = "absent"}
      verdict(o) == IF o \notin new THEN status[o]
                    ELSE IF myBase[o] = ver[OpEntity[o]] THEN "pending" ELSE "conflict"
  IN /\ r \in calls /\ r.kind = "push" /\ DOMAIN r.done = {}
     /\ \A o \in new : rowId[o] = 0
     /\ InOrder => \A q \in calls : q.kind = "push" => DOMAIN q.done = {}
     /\ lastId + Cardinality(new) <= MaxRows
     /\ rowId' = [o \in Ops |-> IF o \in new
                                THEN lastId + Cardinality({p \in new : p <= o})
                                ELSE rowId[o]]
     /\ lastId' = lastId + Cardinality(new)
     /\ base' = [o \in Ops |-> IF o \in new THEN myBase[o] ELSE base[o]]
     /\ rowVersion' = [o \in Ops |-> IF o \in new THEN ver[OpEntity[o]] ELSE rowVersion[o]]
     /\ calls' = (calls \ {r}) \cup {[r EXCEPT !.done = [o \in r.ops |-> verdict(o)]]}
     /\ UNCHANGED <<status, ver, known, acks, store, pass>>

\* push, the commit: the rows are there for the other requests.
PushCommit(r) ==
  /\ r \in calls /\ r.kind = "push" /\ DOMAIN r.done # {}
  /\ status' = [o \in Ops |-> IF o \in DOMAIN r.done /\ status[o] = "absent"
                              THEN r.done[o] ELSE status[o]]
  /\ Answer(r, "verdicts", r.done)
  /\ UNCHANGED <<base, rowVersion, rowId, lastId, ver, known, acks, store>>

\* apply_operation on a pending row: decide_apply, then the mutation or a refusal.
Applicable_Again(o) == status[o] \in {"pending", "applied"}
Applicable(o) == status[o] = "pending"

\* Any other row: success is repeated, the rest is a 409, whatever its message says.
AnswerFor_Any(o) == "applied"
AnswerFor(o) == IF status[o] = "applied" THEN "applied" ELSE "conflict"

\* apply_batch handles one operation after the other, a transaction each.
ApplyNext(r) ==
  LET o == Min(r.ops \ DOMAIN r.done)
      e == OpEntity[o]
      agrees == base[o] = ver[e]
      report(result) ==
        calls' = (calls \ {r}) \cup
                 {[r EXCEPT !.done = [p \in DOMAIN @ \cup {o} |-> IF p = o THEN result ELSE @[p]]]}
  IN /\ r \in calls /\ r.kind = "apply" /\ r.ops # DOMAIN r.done
     /\ \/ /\ Applicable(o) /\ agrees
           /\ o \notin Creations => e \in known
           /\ status' = [status EXCEPT ![o] = "applied"]
           /\ ver' = [ver EXCEPT ![e] = @ + 1]
           /\ rowVersion' = [rowVersion EXCEPT ![o] = ver[e] + 1]
           /\ known' = known \cup {e}
           /\ report(IF o \in Creations THEN "created" ELSE "applied")
        \/ /\ Applicable(o) /\ agrees
           /\ status' = [status EXCEPT ![o] = "failed"]
           /\ report("failed")
           /\ UNCHANGED <<ver, rowVersion, known>>
        \/ /\ Applicable(o) /\ ~agrees
           /\ status' = [status EXCEPT ![o] = "conflict"]
           /\ rowVersion' = [rowVersion EXCEPT ![o] = ver[e]]
           /\ report("conflict")
           /\ UNCHANGED <<ver, known>>
        \/ /\ ~Applicable(o)
           /\ report(AnswerFor(o))
           /\ UNCHANGED <<status, ver, rowVersion, known>>
     /\ UNCHANGED <<base, rowId, lastId, acks, store, pass>>

ApplyAnswer(r) ==
  /\ r \in calls /\ r.kind = "apply" /\ r.ops = DOMAIN r.done
  /\ Answer(r, "results", r.done)
  /\ UNCHANGED <<server, store>>

\* pull: what other stations pushed and d has neither passed nor acknowledged.
Deliverable(d) ==
  {o \in Ops : /\ rowId[o] > cursor[d]
               /\ OpDevice[o] # d
               /\ status[o] \in {"pending", "applied"}
               /\ o \notin acks[d]}

NextId_Newest(d) == lastId
NextId(d) == IF Deliverable(d) = {} THEN cursor[d] ELSE Max({rowId[o] : o \in Deliverable(d)})

\* The reply is stored with the cursor, in one transaction of the client's file.  The
\* table of the inbox has no column for the server identifier: it is dropped here.
\* A reply that arrives late is read by nobody, and a pull changes nothing.
Pull(r) ==
  LET d == r.dev
      new == {o \in Deliverable(d) : inbox[d][o] = "none"}
  IN /\ r \in calls /\ r.kind = "pull" /\ ~r.late
     /\ inbox' = [inbox EXCEPT ![d] = [o \in Ops |-> IF o \in new THEN "received" ELSE @[o]]]
     /\ seen' = [seen EXCEPT ![d] = [o \in Ops |-> IF o \in new THEN rowVersion[o] ELSE @[o]]]
     /\ cursor' = [cursor EXCEPT ![d] = NextId(d)]
     /\ calls' = calls \ {r}
     /\ pass' = [pass EXCEPT ![d] = [at |-> "inbox", items |-> Nothing, ops |-> {}]]
     /\ UNCHANGED <<server, outbox, myBase, conflicts, cache, identity>>

Acknowledge(r) ==
  /\ r \in calls /\ r.kind = "ack"
  /\ acks' = [acks EXCEPT ![r.dev] = @ \cup {o \in r.ops : status[o] # "absent"}]
  /\ Answer(r, "idle", Nothing)
  /\ UNCHANGED <<status, base, rowVersion, rowId, lastId, ver, known, store>>

\* resolve_conflict, called by resolve_conflict_remote: the client stores the
\* resolution when the reply says it was made; a refusal (409) is an exception.
Resolve(r) ==
  LET o == Min(r.ops)
      made == status[o] = "conflict"
  IN /\ r \in calls /\ r.kind \in {"rebase", "discard"}
     /\ made
     /\ status' = [status EXCEPT ![o] = IF r.kind = "rebase" THEN "pending" ELSE "failed"]
     /\ IF r.kind = "rebase"
        THEN /\ base' = [base EXCEPT ![o] = ver[OpEntity[o]]]
             /\ rowVersion' = [rowVersion EXCEPT ![o] = ver[OpEntity[o]]]
        ELSE UNCHANGED <<base, rowVersion>>
     /\ IF r.late THEN UNCHANGED <<outbox, myBase, conflicts>>
        ELSE /\ conflicts' = [conflicts EXCEPT ![o] = "resolved"]
             /\ IF r.kind = "rebase"
                THEN /\ outbox' = [outbox EXCEPT ![o] = "pending"]
                     /\ myBase' = [myBase EXCEPT ![o] = ver[OpEntity[o]]]
                ELSE UNCHANGED <<outbox, myBase>>
     /\ Answer(r, "idle", Nothing)
     /\ UNCHANGED <<rowId, lastId, ver, known, acks, inbox, seen, cursor, cache, identity>>

---------------------------------------------------------------------------------
(* Client: the user                                                              *)

\* The screen that queues an operation names a version it has seen, and the server
\* identifier only if there is one.
Enqueue(o) ==
  /\ outbox[o] = "none"
  /\ \A p \in Ops : p < o => outbox[p] # "none"
  /\ OpRef[o] = "server" => OpEntity[o] \in known
  /\ \E b \in 0..ver[OpEntity[o]] : myBase' = [myBase EXCEPT ![o] = b]
  /\ outbox' = [outbox EXCEPT ![o] = "pending"]
  /\ UNCHANGED <<server, calls, conflicts, inbox, seen, cursor, cache, identity, pass>>

Listed(o) == conflicts[o] = "open"

\* OfflineSyncStore.resolve_conflict, on a conflict that the list shows.
ResolveLocally(o, choice) ==
  /\ Listed(o)
  /\ conflicts' = [conflicts EXCEPT ![o] = "resolved"]
  /\ outbox' = [outbox EXCEPT ![o] = IF choice = "retry" THEN "pending" ELSE "failed"]
  /\ UNCHANGED <<server, calls, myBase, inbox, seen, cursor, cache, identity, pass>>

\* resolve_conflict_remote: the call; Resolve writes the answer down.
AskResolution(d, o, choice) ==
  /\ OpDevice[o] = d /\ Listed(o)
  /\ pass[d].at = "idle"
  /\ choice = "rebase" => Rebases
  /\ Send(d, choice, {o})
  /\ UNCHANGED <<server, store>>

---------------------------------------------------------------------------------
(* Client: a pass                                                                *)

Waiting(d) == {o \in OfDevice(d) : outbox[o] \in {"pending", "retry"}}

StartPass(d) ==
  /\ pass[d].at = "idle"
  /\ IF Waiting(d) = {} THEN Send(d, "pull", {}) ELSE Send(d, "push", Waiting(d))
  /\ UNCHANGED <<server, store>>

\* mark_result(..., "conflict") lists the conflict again if it was resolved before.
ListedConflict_Ignored(o) == IF conflicts[o] = "none" THEN "open" ELSE conflicts[o]
ListedConflict(o) == "open"

\* One item of the reply is written to the outbox, in one transaction.
Mark(o, result) ==
  /\ outbox' = [outbox EXCEPT ![o] = result]
  /\ conflicts' = [conflicts EXCEPT ![o] = IF result = "conflict" THEN ListedConflict(o) ELSE @]
  /\ UNCHANGED <<myBase, inbox, seen, cursor, cache, identity>>

First(d) == Min(DOMAIN pass[d].items)
Rest(d) == [o \in DOMAIN pass[d].items \ {First(d)} |-> pass[d].items[o]]

\* The reply of push: refused operations are marked, the others will be applied.
TakeVerdict(d) ==
  LET o == First(d)
      verdict == pass[d].items[o]
      accepted == verdict \in {"pending", "applied"}
  IN /\ pass[d].at = "verdicts" /\ DOMAIN pass[d].items # {}
     /\ IF accepted THEN UNCHANGED store ELSE Mark(o, verdict)
     /\ pass' = [pass EXCEPT ![d].items = Rest(d),
                             ![d].ops = IF accepted THEN @ ELSE @ \ {o}]
     /\ UNCHANGED <<server, calls>>

AskApply(d) ==
  /\ pass[d].at = "verdicts" /\ DOMAIN pass[d].items = {}
  /\ IF pass[d].ops = {} THEN Send(d, "pull", {}) ELSE Send(d, "apply", pass[d].ops)
  /\ UNCHANGED <<server, store>>

\* The reply of apply-batch.  A creation that was applied by this very call also
\* carries the server identifier, which is remembered in a transaction of its own.
Outcome_AsReplied(result) == result
Outcome(result) == IF result = "created" THEN "applied" ELSE result

TakeResult(d) ==
  LET o == First(d)
      result == pass[d].items[o]
  IN /\ pass[d].at = "results" /\ DOMAIN pass[d].items # {}
     /\ Mark(o, Outcome(result))
     /\ pass' = [pass EXCEPT ![d] = IF result = "created" THEN [@ EXCEPT !.at = "identity"]
                                    ELSE [@ EXCEPT !.items = Rest(d)]]
     /\ UNCHANGED <<server, calls>>

RememberIdentity(d) ==
  /\ pass[d].at = "identity"
  /\ identity' = [identity EXCEPT ![d] = @ \cup {OpEntity[First(d)]}]
  /\ pass' = [pass EXCEPT ![d].at = "results", ![d].items = Rest(d)]
  /\ UNCHANGED <<server, calls, outbox, myBase, conflicts, inbox, seen, cursor, cache>>

AskPull(d) ==
  /\ pass[d].at = "results" /\ DOMAIN pass[d].items = {}
  /\ Send(d, "pull", {})
  /\ UNCHANGED <<server, store>>

\* The received operations, oldest row first.
Received(d) == {o \in Ops : inbox[d][o] = "received"}
Next1(d) == CHOOSE o \in Received(d) : \A p \in Received(d) : rowId[o] <= rowId[p]

\* LocalReadModel.apply: an older version never overwrites a newer one.  The copy is
\* filed under the identifier of the operation, the only one an inbox row has.
KeyOf(o) == <<OpEntity[o], OpRef[o]>>
CachedVersion(d, k) == IF cache[d][k] = 0 THEN 0 ELSE seen[d][cache[d][k]]

Stale_Never(d, o) == FALSE
Stale(d, o) == seen[d][o] < CachedVersion(d, KeyOf(o))

Merge(d) ==
  LET o == Next1(d) IN
  /\ pass[d].at = "inbox" /\ Received(d) # {}
  /\ cache' = IF Stale(d, o) THEN cache ELSE [cache EXCEPT ![d][KeyOf(o)] = o]
  /\ pass' = [pass EXCEPT ![d].at = "merged"]
  /\ UNCHANGED <<server, calls, outbox, myBase, conflicts, inbox, seen, cursor, identity>>

MarkMerged(d) ==
  LET o == Next1(d) IN
  /\ pass[d].at = "merged"
  /\ inbox' = [inbox EXCEPT ![d][o] = "applied"]
  /\ pass' = [pass EXCEPT ![d].at = "inbox", ![d].ops = @ \cup {o}]
  /\ UNCHANGED <<server, calls, outbox, myBase, conflicts, seen, cursor, cache, identity>>

\* What this pass merged is acknowledged.
EndInbox(d) ==
  /\ pass[d].at = "inbox" /\ Received(d) = {}
  /\ IF pass[d].ops = {} THEN pass' = [pass EXCEPT ![d] = IdlePass] /\ UNCHANGED calls
     ELSE Send(d, "ack", pass[d].ops)
  /\ UNCHANGED <<server, store>>

---------------------------------------------------------------------------------

ServerStep(r) ==
  \/ Lose(r)
  \/ PushFlush(r)
  \/ PushCommit(r)
  \/ ApplyNext(r)
  \/ ApplyAnswer(r)
  \/ Pull(r)
  \/ Acknowledge(r)
  \/ Resolve(r)

PassStep(d) ==
  \/ StartPass(d)
  \/ TakeVerdict(d)
  \/ AskApply(d)
  \/ TakeResult(d)
  \/ RememberIdentity(d)
  \/ AskPull(d)
  \/ Merge(d)
  \/ MarkMerged(d)
  \/ EndInbox(d)
  \/ GiveUp(d)

UserStep(o) ==
  \/ Enqueue(o)
  \/ \E choice \in {"retry", "discard"} : ResolveLocally(o, choice)
  \/ \E choice \in {"rebase", "discard"} : AskResolution(OpDevice[o], o, choice)

Next ==
  \/ \E r \in calls : ServerStep(r)
  \/ \E d \in Devices : PassStep(d)
  \/ \E o \in Ops : UserStep(o)

Spec == Init /\ [][Next]_vars

---------------------------------------------------------------------------------
(* Properties                                                                    *)

\* No false success: an operation that a station shows as applied is applied on the
\* server, whatever was lost, repeated or late.
AppliedMeansApplied == \A o \in Ops : outbox[o] = "applied" => status[o] = "applied"

\* Exactly once: the version of an entity counts its applied operations, although
\* stations repeat every call that was not answered.
AppliedOnce ==
  \A e \in Entities :
    ver[e] = Cardinality({o \in Ops : OpEntity[o] = e /\ status[o] = "applied"})

\* d's copy of the record has what o did, or something newer.
InCopy(d, o) == cache[d][KeyOf(o)] # 0 /\ CachedVersion(d, KeyOf(o)) >= seen[d][o]

\* A crash anywhere in a pass loses no mutation and brings no old one back: what a
\* station acknowledged, or marked as merged, is in its copy or a newer one is.
MergedIsCached ==
  \A d \in Devices, o \in Ops :
    /\ o \in acks[d] => inbox[d][o] = "applied"
    /\ inbox[d][o] = "applied" => InCopy(d, o)

\* A conflict that the server still waits to see resolved is listed by the station
\* whose outbox shows it.
ConflictListed ==
  \A o \in Ops : outbox[o] = "conflict" /\ status[o] = "conflict" => Listed(o)

\* Stations that write one record never show a false success, every operation is applied
\* once, and every conflict that the server waits on is listed, with rebases, local
\* resolutions, lost and late calls.
AppliedTruly == AppliedMeansApplied /\ AppliedOnce /\ ConflictListed

\* The cursor of a station skips no operation that it should see: what is behind it
\* and live on the server is in the station's inbox.
NothingSkipped ==
  \A d \in Devices, o \in Ops :
    /\ OpDevice[o] # d
    /\ status[o] \in {"pending", "applied"}
    /\ rowId[o] <= cursor[d]
    => inbox[d][o] # "none"

\* The pull lets the other stations converge to one identity: none keeps two copies
\* of a record, one by its client identifier and one by its server identifier.
OneCopy ==
  \A d \in Devices, e \in Entities :
    cache[d][<<e, "client">>] = 0 \/ cache[d][<<e, "server">>] = 0
=================================================================================
