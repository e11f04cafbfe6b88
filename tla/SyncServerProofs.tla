---------------------------- MODULE SyncServerProofs ----------------------------
(* Theorems about SyncServer, for every set of operations, entities and threads.  *)
EXTENDS SyncServer, FiniteSetTheorems, TLAPS

---------------------------------------------------------------------------------
(* Types.  A thread that serves a request holds that request's operation.         *)

RequestOK(r) ==
  /\ r.pc = "idle" => r = IdleWork
  /\ r.pc # "idle" => r.req \in Requests
  /\ r.req = "edit" => r.ent \in Entities /\ r.pc = "decided" /\ r.op = None
  /\ r.req \in {"push", "apply", "rebase", "discard"} =>
       r.op \in Ops /\ r.ent = OpEntity[r.op]
  /\ r.pc = "loaded" => r.req \in {"apply", "rebase", "discard"}
  /\ r.pc = "failing" => r.req = "apply"
  /\ r.req = "push" => r.pc = "decided"

RequestsOK == \A w \in Workers : RequestOK(work[w])

Entry == [op : Ops \cup {None}, base : Nat]

DataTyped ==
  /\ status \in [Ops -> Statuses]
  /\ base \in [Ops -> Nat]
  /\ opVersion \in [Ops -> Nat]
  /\ ver \in [Keys -> Nat]
  /\ known \subseteq Entities
  /\ log \in [Entities -> Seq(Entry)]

Typed == DataTyped /\ work \in [Workers -> Work] /\ RequestsOK

LEMMA IdleOK == IdleWork \in Work /\ RequestOK(IdleWork)
BY SyncAssumption DEF IdleWork, Work, Requests, Sides, RequestOK

(* Whatever well-formed request a thread goes on with, all requests stay so.      *)
LEMMA BeginTyped ==
  ASSUME Typed, NEW w \in Workers, NEW r \in Work, RequestOK(r), Begin(w, r)
  PROVE  work' \in [Workers -> Work] /\ RequestsOK'
BY DEF Typed, RequestsOK, Begin, RequestOK

LEMMA FinishTyped ==
  ASSUME Typed, NEW w \in Workers, Finish(w)
  PROVE  work' \in [Workers -> Work] /\ RequestsOK'
BY IdleOK DEF Typed, RequestsOK, Finish, RequestOK

(* A committed write extends the history of one entity by one entry.              *)
LEMMA RecordTyped ==
  ASSUME DataTyped, NEW e \in Entities, NEW who \in Ops \cup {None}, NEW b \in Nat,
         Record(e, who, b)
  PROVE  log' \in [Entities -> Seq(Entry)]
<1> DEFINE x == [op |-> who, base |-> b]
<1>1. x \in Entry
  BY DEF Entry
<1>2. log[e] \in Seq(Entry)
  BY DEF DataTyped
<1>3. Append(log[e], x) \in Seq(Entry)
  BY <1>1, <1>2
<1>4. log' = [log EXCEPT ![e] = Append(log[e], x)]
  BY DEF Record
<1>5. log \in [Entities -> Seq(Entry)]
  BY DEF DataTyped
<1> HIDE DEF x
<1> QED BY <1>3, <1>4, <1>5

LEMMA VersionTyped ==
  ASSUME DataTyped, NEW k, NEW n \in Nat, ver' = [ver EXCEPT ![k] = n + 1]
  PROVE  ver' \in [Keys -> Nat]
<1>1. n + 1 \in Nat
  OBVIOUS
<1> DEFINE m == n + 1
<1>2. m \in Nat /\ ver' = [ver EXCEPT ![k] = m]
  BY <1>1
<1> HIDE DEF m
<1> QED BY <1>2 DEF DataTyped

LEMMA InitTyped == Init => Typed
BY SyncAssumption, IdleOK
DEF Init, Typed, DataTyped, RequestsOK, Statuses, Keys

(* A request starts.                                                              *)
LEMMA OpStepTyped ==
  ASSUME Typed, NEW w \in Workers, NEW o \in Ops, OpStep(w, o)
  PROVE  Typed'
<1> USE SyncAssumption
<1>1. ASSUME NEW b \in 0..MaxWrites, PushRead(w, o, b) PROVE Typed'
  <2> DEFINE side == CanonicalSide(o)
             r == [pc |-> "decided", req |-> "push", op |-> o, ent |-> OpEntity[o],
                   base |-> b, side |-> side, seen |-> ver[<<OpEntity[o], side>>]]
  <2>1. r \in Work /\ RequestOK(r)
    BY DEF Typed, DataTyped, Work, RequestOK, Requests, CanonicalSide, Sides, Keys
  <2>2. Begin(w, r) /\ DataTyped'
    BY <1>1 DEF PushRead, Typed, DataTyped
  <2> QED BY <2>1, <2>2, BeginTyped DEF Typed
<1>2. ASSUME NEW q \in {"apply", "rebase", "discard"},
             Begin(w, [pc |-> "loaded", req |-> q, op |-> o, ent |-> OpEntity[o],
                       base |-> base[o], side |-> "server", seen |-> 0]),
             UNCHANGED <<status, base, opVersion, ver, known, log>>
      PROVE  Typed'
  <2> DEFINE r == [pc |-> "loaded", req |-> q, op |-> o, ent |-> OpEntity[o],
                   base |-> base[o], side |-> "server", seen |-> 0]
  <2>1. r \in Work /\ RequestOK(r)
    BY DEF Typed, DataTyped, Work, RequestOK, Requests, Sides
  <2>2. DataTyped'
    BY <1>2 DEF Typed, DataTyped
  <2> QED BY <1>2, <2>1, <2>2, BeginTyped DEF Typed
<1>3. CASE ApplyLoad(w, o)
  BY <1>2, <1>3 DEF ApplyLoad
<1>4. ASSUME NEW c \in {"rebase", "discard"}, ResolveLoad(w, o, c) PROVE Typed'
  BY <1>2, <1>4 DEF ResolveLoad
<1> QED BY <1>1, <1>3, <1>4 DEF OpStep

(* A request goes on, ends or dies.                                               *)
LEMMA WorkStepTyped ==
  ASSUME Typed, NEW w \in Workers, WorkStep(w)
  PROVE  Typed'
<1> USE SyncAssumption DEF Typed
<1>0. work[w] \in Work /\ RequestOK(work[w])
  BY DEF RequestsOK
<1>1. ASSUME Finish(w), DataTyped' PROVE Typed'
  BY <1>1, FinishTyped
<1>2. CASE PushCommit(w)
  <2>1. DataTyped'
    BY <1>0, <1>2 DEF PushCommit, DataTyped, Work, Statuses
  <2> QED BY <1>1, <1>2, <2>1 DEF PushCommit
<1>3. CASE ReadVersion(w)
  <2> DEFINE side == CanonicalSide(work[w].op)
             r == [work[w] EXCEPT !.pc = "decided", !.side = side,
                                  !.seen = ver[<<work[w].ent, side>>]]
  <2>1. work[w].pc = "loaded" /\ Begin(w, r)
    BY <1>3 DEF ReadVersion
  <2>2. work[w].op \in Ops /\ work[w].ent \in Entities
    BY <1>0, <2>1 DEF RequestOK
  <2>3. r \in Work /\ RequestOK(r)
    BY <1>0, <2>1, <2>2 DEF DataTyped, Work, RequestOK, CanonicalSide, Sides, Keys
  <2>4. DataTyped'
    BY <1>3 DEF ReadVersion, DataTyped
  <2> QED BY <2>1, <2>3, <2>4, BeginTyped
<1>4. CASE ApplyConflict(w)
  <2>1. DataTyped'
    BY <1>0, <1>4 DEF ApplyConflict, DataTyped, Work, Statuses
  <2> QED BY <1>1, <1>4, <2>1 DEF ApplyConflict
<1>5. CASE ApplyCommit(w)
  <2> DEFINE r == work[w]
  <2>1. r.op \in Ops /\ r.ent \in Entities /\ r.base \in Nat /\ r.seen \in Nat
    BY <1>0, <1>5 DEF ApplyCommit, Applying, RequestOK, Work
  <2>0. ver' \in [Keys -> Nat]
    BY <1>5, <2>1, VersionTyped DEF ApplyCommit
  <2>2. /\ status' \in [Ops -> Statuses]
        /\ opVersion' \in [Ops -> Nat]
        /\ known' \subseteq Entities
        /\ base' = base
    BY <1>5, <2>1 DEF ApplyCommit, DataTyped, Statuses
  <2>3. log' \in [Entities -> Seq(Entry)]
    BY <1>5, <2>1, RecordTyped DEF ApplyCommit
  <2>4. DataTyped'
    BY <2>0, <2>2, <2>3 DEF DataTyped
  <2> QED BY <1>1, <1>5, <2>4 DEF ApplyCommit
<1>6. CASE ApplyReject(w)
  <2> DEFINE r == [work[w] EXCEPT !.pc = "failing"]
  <2>1. r \in Work /\ RequestOK(r)
    BY <1>0, <1>6 DEF ApplyReject, Applying, Work, RequestOK
  <2>2. Begin(w, r) /\ DataTyped'
    BY <1>6 DEF ApplyReject, DataTyped
  <2> QED BY <2>1, <2>2, BeginTyped
<1>7. CASE ApplyMarkFailed(w)
  <2>1. DataTyped'
    BY <1>7 DEF ApplyMarkFailed, DataTyped, Statuses
  <2> QED BY <1>1, <1>7, <2>1 DEF ApplyMarkFailed
<1>8. CASE ResolveDiscard(w)
  <2>1. DataTyped'
    BY <1>8 DEF ResolveDiscard, DiscardedStatus, DataTyped, Statuses
  <2> QED BY <1>1, <1>8, <2>1 DEF ResolveDiscard
<1>9. CASE ResolveRebase(w)
  <2>1. DataTyped'
    BY <1>0, <1>9 DEF ResolveRebase, DataTyped, Work, Statuses
  <2> QED BY <1>1, <1>9, <2>1 DEF ResolveRebase
<1>10. CASE EditCommit(w)
  <2>1. work[w].ent \in Entities /\ work[w].seen \in Nat
    BY <1>0, <1>10 DEF EditCommit, RequestOK, Work
  <2>2. ver' \in [Keys -> Nat]
    BY <1>10, <2>1, VersionTyped DEF EditCommit
  <2>3. log' \in [Entities -> Seq(Entry)]
    BY <1>10, <2>1, RecordTyped DEF EditCommit
  <2>4. DataTyped'
    BY <1>10, <2>2, <2>3 DEF EditCommit, DataTyped
  <2> QED BY <1>1, <1>10, <2>4 DEF EditCommit
<1>11. CASE Abort(w)
  <2>1. DataTyped'
    BY <1>11 DEF Abort, DataTyped
  <2> QED BY <1>1, <1>11, <2>1 DEF Abort
<1> QED BY <1>2, <1>3, <1>4, <1>5, <1>6, <1>7, <1>8, <1>9, <1>10, <1>11 DEF WorkStep

LEMMA TypedStep == Typed /\ [Next]_vars => Typed'
<1> SUFFICES ASSUME Typed, [Next]_vars PROVE Typed'
  OBVIOUS
<1>1. ASSUME NEW w \in Workers, NEW e \in Entities, EditRead(w, e) PROVE Typed'
  <2> DEFINE r == [pc |-> "decided", req |-> "edit", op |-> None, ent |-> e,
                   base |-> 0, side |-> "server", seen |-> ver[<<e, "server">>]]
  <2>1. r \in Work /\ RequestOK(r)
    BY SyncAssumption DEF Typed, DataTyped, Work, RequestOK, Requests, Sides, Keys
  <2>2. Begin(w, r) /\ DataTyped'
    BY <1>1 DEF EditRead, Typed, DataTyped
  <2> QED BY <2>1, <2>2, BeginTyped DEF Typed
<1>2. ASSUME NEW e \in Entities, EditUnderLock(e) PROVE Typed'
  <2>1. ver[<<e, "server">>] \in Nat
    BY DEF Typed, DataTyped, Keys, Sides
  <2>2. log' \in [Entities -> Seq(Entry)]
    BY <1>2, <2>1, RecordTyped DEF EditUnderLock, Typed
  <2>3. ver' \in [Keys -> Nat]
    BY <1>2, <2>1, VersionTyped DEF EditUnderLock, Typed
  <2> QED BY <1>2, <2>2, <2>3 DEF EditUnderLock, Typed, DataTyped, RequestsOK
<1>3. ASSUME NEW e \in Entities, EditSilently(e) PROVE Typed'
  <2>1. Len(log[e]) \in Nat
    BY DEF Typed, DataTyped
  <2>2. log' \in [Entities -> Seq(Entry)]
    BY <1>3, <2>1, RecordTyped DEF EditSilently, Typed
  <2> QED BY <1>3, <2>2 DEF EditSilently, Typed, DataTyped, RequestsOK
<1>4. CASE UNCHANGED vars
  BY <1>4 DEF vars, Typed, DataTyped, RequestsOK
<1> QED BY <1>1, <1>2, <1>3, <1>4, OpStepTyped, WorkStepTyped DEF Next

\* The journal and every request in flight stay well-formed.
THEOREM TypeCorrect == Spec => []TypeOK
<1>1. Typed => TypeOK
  BY DEF Typed, DataTyped, TypeOK, Entry
<1> QED BY <1>1, InitTyped, TypedStep, PTL DEF Spec

---------------------------------------------------------------------------------
(* The journal when a client waits for its request to end before it retries: a    *)
(* request then owns its operation, and the row is in the phase it expects.       *)

Exclusive ==
  \A v, w \in Workers : work[v].op \in Ops /\ work[v].op = work[w].op => v = w

Phase ==
  \A w \in Workers :
    /\ work[w].req = "push" => status[work[w].op] = "absent"
    /\ work[w].req = "apply" => status[work[w].op] = "pending"
    /\ work[w].req \in {"rebase", "discard"} => status[work[w].op] = "conflict"

WritesMatch ==
  \A o \in Ops :
    IF status[o] = "applied" THEN \E i \in Nat : WritesOf(o) = {i} ELSE WritesOf(o) = {}

Owned == Typed /\ Exclusive /\ Phase

(* Committing a write adds its position to the writes of its operation alone.     *)
LEMMA RecordWrites ==
  ASSUME DataTyped, NEW e \in Entities, NEW who \in Ops \cup {None}, NEW b \in Nat,
         Record(e, who, b), NEW o \in Ops
  PROVE  /\ who # o => WritesOf(o)' = WritesOf(o)
         /\ who = o /\ OpEntity[o] = e =>
              WritesOf(o)' = WritesOf(o) \cup {Len(log[e]) + 1}
<1> USE SyncAssumption
<1> DEFINE x == [op |-> who, base |-> b]
<1>1. log[e] \in Seq(Entry) /\ x \in Entry
  BY DEF DataTyped, Entry
<1>2. log' = [log EXCEPT ![e] = Append(log[e], x)]
  BY DEF Record
<1>3. CASE OpEntity[o] # e
  <2>1. OpEntity[o] \in Entities /\ log'[OpEntity[o]] = log[OpEntity[o]]
    BY <1>2, <1>3 DEF DataTyped
  <2> QED BY <1>3, <2>1 DEF WritesOf
<1>4. CASE OpEntity[o] = e
  <2>1. log'[e] = Append(log[e], x)
    BY <1>2 DEF DataTyped
  <2>2. /\ DOMAIN Append(log[e], x) = DOMAIN log[e] \cup {Len(log[e]) + 1}
        /\ Append(log[e], x)[Len(log[e]) + 1] = x
        /\ \A i \in DOMAIN log[e] : Append(log[e], x)[i] = log[e][i]
    BY <1>1
  <2>3. x.op = who
    OBVIOUS
  <2>4. WritesOf(o)' = {i \in DOMAIN log'[e] : log'[e][i].op = o}
    BY <1>4 DEF WritesOf
  <2>5. WritesOf(o) = {i \in DOMAIN log[e] : log[e][i].op = o}
    BY <1>4 DEF WritesOf
  <2>6. Len(log[e]) + 1 \notin DOMAIN log[e]
    BY <1>1
  <2> HIDE DEF x
  <2> QED BY <1>4, <2>1, <2>2, <2>3, <2>4, <2>5, <2>6
<1> QED BY <1>3, <1>4

LEMMA InitOwned == Init => Owned /\ WritesMatch
<1> SUFFICES ASSUME Init PROVE Exclusive /\ Phase /\ WritesMatch
  BY InitTyped DEF Owned
<1>1. Exclusive /\ Phase
  BY SyncAssumption DEF Init, Exclusive, Phase, IdleWork
<1>2. WritesMatch
  BY SyncAssumption DEF Init, WritesMatch, WritesOf
<1> QED BY <1>1, <1>2

(* A step rewrites the row of at most one operation, and never a settled one.     *)
LEMMA OwnedStep ==
  ASSUME ~Overlap, Owned, [Next]_vars
  PROVE  /\ Owned'
         /\ \A o \in Ops : status[o] \in {"applied", "failed"} => status'[o] = status[o]
<1> USE SyncAssumption
<1> DEFINE Kept == /\ Exclusive' /\ Phase'
                   /\ \A o \in Ops :
                        status[o] \in {"applied", "failed"} => status'[o] = status[o]
<1> SUFFICES Kept
  BY TypedStep DEF Owned
<1>0. DataTyped /\ work \in [Workers -> Work] /\ RequestsOK
  BY DEF Owned, Typed
\* A request starts on an operation that no thread holds.
<1>1. ASSUME NEW w \in Workers, NEW o \in Ops, NEW r \in Work,
             MayStart(w, o), Begin(w, r), r.op = o, status' = status,
             \/ r.req = "push" /\ status[o] = "absent"
             \/ r.req = "apply" /\ status[o] = "pending"
             \/ r.req \in {"rebase", "discard"} /\ status[o] = "conflict"
      PROVE  Kept
  <2>1. \A v \in Workers : work[v].op # o
    BY <1>1 DEF MayStart
  <2>2. work'[w] = r /\ \A v \in Workers \ {w} : work'[v] = work[v]
    BY <1>0, <1>1 DEF Begin
  <2>3. Exclusive'
    BY <1>1, <2>1, <2>2 DEF Owned, Exclusive
  <2>4. Phase'
    BY <1>1, <2>2 DEF Owned, Phase
  <2> QED BY <1>1, <2>3, <2>4
\* A request goes on with the same operation.
<1>2. ASSUME NEW w \in Workers, NEW r \in Work, Begin(w, r), status' = status,
             r.op = work[w].op, r.req = work[w].req
      PROVE  Kept
  <2>1. work'[w] = r /\ \A v \in Workers \ {w} : work'[v] = work[v]
    BY <1>0, <1>2 DEF Begin
  <2> QED BY <1>2, <2>1 DEF Owned, Exclusive, Phase
\* A request ends; it rewrites the row of its own operation, which is not settled.
<1>3. ASSUME NEW w \in Workers, Finish(w), NEW s,
             \/ status' = status
             \/ /\ work[w].op \in Ops
                /\ status[work[w].op] \notin {"applied", "failed"}
                /\ status' = [status EXCEPT ![work[w].op] = s]
      PROVE  Kept
  <2>1. work'[w] = IdleWork /\ \A v \in Workers \ {w} : work'[v] = work[v]
    BY <1>0, <1>3 DEF Finish
  <2>2. Exclusive'
    BY <2>1 DEF Owned, Exclusive, IdleWork
  <2>3. \A o \in Ops : o # work[w].op => status'[o] = status[o]
    BY <1>0, <1>3 DEF DataTyped
  <2>4. ASSUME NEW v \in Workers \ {w}, work[v].op \in Ops
        PROVE  status'[work[v].op] = status[work[v].op]
    BY <1>3, <2>3, <2>4 DEF Owned, Exclusive
  <2>5. Phase'
    <3>1. ASSUME NEW v \in Workers, v # w, work[v].op \notin Ops
          PROVE  work[v].req \notin {"push", "apply", "rebase", "discard"}
      BY <1>0, <3>1 DEF RequestsOK, RequestOK
    <3> QED BY <2>1, <2>4, <3>1 DEF Owned, Phase, IdleWork
  <2> QED BY <1>0, <1>3, <2>2, <2>3, <2>5
<1>4. ASSUME NEW w \in Workers, NEW o \in Ops, OpStep(w, o) PROVE Kept
  <2>1. ASSUME NEW b \in 0..MaxWrites, PushRead(w, o, b) PROVE Kept
    <3> DEFINE side == CanonicalSide(o)
               r == [pc |-> "decided", req |-> "push", op |-> o, ent |-> OpEntity[o],
                     base |-> b, side |-> side, seen |-> ver[<<OpEntity[o], side>>]]
    <3>1. r \in Work
      BY <1>0 DEF DataTyped, Work, Requests, CanonicalSide, Sides, Keys
    <3> QED BY <1>1, <2>1, <3>1 DEF PushRead
  <2>2. ASSUME NEW q \in {"apply", "rebase", "discard"}
        PROVE  [pc |-> "loaded", req |-> q, op |-> o, ent |-> OpEntity[o],
                base |-> base[o], side |-> "server", seen |-> 0] \in Work
    BY <1>0 DEF DataTyped, Work, Requests, Sides
  <2>3. CASE ApplyLoad(w, o)
    BY <1>1, <2>2, <2>3 DEF ApplyLoad, Applicable
  <2>4. ASSUME NEW c \in {"rebase", "discard"}, ResolveLoad(w, o, c) PROVE Kept
    BY <1>1, <2>2, <2>4 DEF ResolveLoad, Resolvable
  <2> QED BY <1>4, <2>1, <2>3, <2>4 DEF OpStep
<1>5. ASSUME NEW w \in Workers, WorkStep(w) PROVE Kept
  <2>0. work[w] \in Work /\ RequestOK(work[w])
    BY <1>0 DEF RequestsOK
  <2>1. CASE PushCommit(w)
    BY <1>3, <2>0, <2>1 DEF PushCommit, RequestOK
  <2>2. CASE ReadVersion(w)
    <3> DEFINE side == CanonicalSide(work[w].op)
               r == [work[w] EXCEPT !.pc = "decided", !.side = side,
                                    !.seen = ver[<<work[w].ent, side>>]]
    <3>1. work[w].op \in Ops /\ work[w].ent \in Entities
      BY <2>0, <2>2 DEF ReadVersion, RequestOK
    <3>2. r \in Work
      BY <1>0, <2>0, <3>1 DEF DataTyped, Work, CanonicalSide, Sides, Keys
    <3>3. r.op = work[w].op /\ r.req = work[w].req
      BY <2>0 DEF Work
    <3>4. Begin(w, r) /\ status' = status
      BY <2>2 DEF ReadVersion
    <3> QED BY <1>2, <3>2, <3>3, <3>4
  <2>3. CASE ApplyConflict(w)
    BY <1>3, <2>0, <2>3 DEF ApplyConflict, Applying, RequestOK, Owned, Phase
  <2>4. CASE ApplyCommit(w)
    BY <1>3, <2>0, <2>4 DEF ApplyCommit, Applying, RequestOK, Owned, Phase
  <2>5. CASE ApplyReject(w)
    <3> DEFINE r == [work[w] EXCEPT !.pc = "failing"]
    <3>1. r \in Work /\ r.op = work[w].op /\ r.req = work[w].req
      BY <2>0 DEF Work
    <3>2. Begin(w, r) /\ status' = status
      BY <2>5 DEF ApplyReject
    <3> QED BY <1>2, <3>1, <3>2
  <2>6. CASE ApplyMarkFailed(w)
    BY <1>3, <2>0, <2>6 DEF ApplyMarkFailed, RequestOK, Owned, Phase
  <2>7. CASE ResolveDiscard(w)
    BY <1>3, <2>0, <2>7 DEF ResolveDiscard, RequestOK, Owned, Phase
  <2>8. CASE ResolveRebase(w)
    BY <1>3, <2>0, <2>8 DEF ResolveRebase, RequestOK, Owned, Phase
  <2>9. CASE EditCommit(w)
    BY <1>3, <2>9 DEF EditCommit
  <2>10. CASE Abort(w)
    BY <1>3, <2>10 DEF Abort
  <2> QED BY <1>5, <2>1, <2>2, <2>3, <2>4, <2>5, <2>6, <2>7, <2>8, <2>9, <2>10
          DEF WorkStep
<1>6. ASSUME NEW w \in Workers, NEW e \in Entities, EditRead(w, e) PROVE Kept
  <2>1. work'[w].op = None /\ work'[w].req = "edit"
    BY <1>0, <1>6 DEF EditRead, Begin
  <2>2. \A v \in Workers \ {w} : work'[v] = work[v]
    BY <1>0, <1>6 DEF EditRead, Begin
  <2> QED BY <1>6, <2>1, <2>2 DEF EditRead, Owned, Exclusive, Phase
<1>7. CASE UNCHANGED <<status, work>>
  BY <1>7 DEF Owned, Exclusive, Phase
<1> QED BY <1>4, <1>5, <1>6, <1>7 DEF Next, vars, EditUnderLock, EditSilently

(* Only an apply that commits writes for an operation, and it settles the row.    *)
LEMMA WritesStep ==
  ASSUME ~Overlap, Owned, WritesMatch, [Next]_vars
  PROVE  WritesMatch'
<1> USE SyncAssumption
<1>0. DataTyped /\ work \in [Workers -> Work] /\ RequestsOK
  BY DEF Owned, Typed
<1>1. ASSUME NEW e \in Entities, NEW b \in Nat, Record(e, None, b), status' = status
      PROVE  WritesMatch'
  <2>1. ASSUME NEW o \in Ops PROVE WritesOf(o)' = WritesOf(o)
    <3>1. None # o /\ None \in Ops \cup {None}
      BY <1>0
    <3> QED BY ONLY <1>0, <1>1, <3>1, RecordWrites
  <2> QED BY <1>1, <2>1 DEF WritesMatch
<1>2. ASSUME NEW w \in Workers, ApplyCommit(w) PROVE WritesMatch'
  <2>1. /\ work[w].op \in Ops /\ work[w].ent = OpEntity[work[w].op]
        /\ work[w].ent \in Entities /\ work[w].base \in Nat
    BY <1>0, <1>2 DEF ApplyCommit, Applying, RequestsOK, RequestOK, Work
  <2> PICK p \in Ops, e \in Entities, b \in Nat :
        p = work[w].op /\ e = work[w].ent /\ b = work[w].base
    BY <2>1
  <2>2. e = OpEntity[p] /\ status[p] = "pending"
    BY <1>2, <2>1 DEF ApplyCommit, Applying, Owned, Phase
  <2>3. Record(e, p, b) /\ status' = [status EXCEPT ![p] = "applied"]
    BY <1>2 DEF ApplyCommit
  <2>4. ASSUME NEW o \in Ops, o # p PROVE WritesOf(o)' = WritesOf(o)
    BY ONLY <1>0, <2>3, <2>4, RecordWrites
  <2>5. WritesOf(p)' = WritesOf(p) \cup {Len(log[e]) + 1}
    BY ONLY <1>0, <2>2, <2>3, RecordWrites
  <2>6. WritesOf(p) = {} /\ Len(log[e]) + 1 \in Nat
    <3>1. WritesOf(p) = {}
      BY <2>2 DEF WritesMatch
    <3>2. log[e] \in Seq(Entry)
      BY <1>0 DEF DataTyped
    <3> QED BY <3>1, <3>2
  <2>7. status'[p] = "applied" /\ \A o \in Ops : o # p => status'[o] = status[o]
    BY <1>0, <2>3 DEF DataTyped
  <2>8. \E i \in Nat : WritesOf(p)' = {i}
    BY <2>5, <2>6
  <2> QED BY <2>4, <2>7, <2>8 DEF WritesMatch
\* Any other step keeps the log and the set of applied rows.
<1>3. ASSUME log' = log,
             \A o \in Ops : status'[o] = "applied" <=> status[o] = "applied"
      PROVE  WritesMatch'
  <2>1. \A o \in Ops : WritesOf(o)' = WritesOf(o)
    BY <1>3 DEF WritesOf
  <2> QED BY <1>3, <2>1 DEF WritesMatch
<1>4. ASSUME NEW w \in Workers, WorkStep(w) PROVE WritesMatch'
  <2>0. work[w] \in Work /\ RequestOK(work[w])
    BY <1>0 DEF RequestsOK
  <2>1. ASSUME NEW s, s # "applied", log' = log, work[w].op \in Ops,
               status[work[w].op] # "applied", status' = [status EXCEPT ![work[w].op] = s]
        PROVE  WritesMatch'
    BY <1>0, <1>3, <2>1 DEF DataTyped
  <2>2. CASE PushCommit(w)
    BY <2>0, <2>1, <2>2 DEF PushCommit, RequestOK
  <2>3. CASE ApplyConflict(w)
    BY <2>0, <2>1, <2>3 DEF ApplyConflict, Applying, RequestOK, Owned, Phase
  <2>4. CASE ApplyMarkFailed(w)
    BY <2>0, <2>1, <2>4 DEF ApplyMarkFailed, RequestOK, Owned, Phase
  <2>5. CASE ResolveDiscard(w)
    BY <2>0, <2>1, <2>5 DEF ResolveDiscard, DiscardedStatus, RequestOK, Owned, Phase
  <2>6. CASE ResolveRebase(w)
    BY <2>0, <2>1, <2>6 DEF ResolveRebase, RequestOK, Owned, Phase
  <2>7. CASE EditCommit(w)
    <3>1. work[w].ent \in Entities /\ work[w].seen \in Nat
      BY <2>0, <2>7 DEF EditCommit, RequestOK, Work
    <3> QED BY <1>1, <2>7, <3>1 DEF EditCommit
  <2>8. CASE ReadVersion(w) \/ ApplyReject(w) \/ Abort(w)
    BY <1>3, <2>8 DEF ReadVersion, ApplyReject, Abort
  <2> QED BY <1>2, <1>4, <2>2, <2>3, <2>4, <2>5, <2>6, <2>7, <2>8 DEF WorkStep
<1>5. ASSUME NEW e \in Entities, EditUnderLock(e) \/ EditSilently(e) PROVE WritesMatch'
  <2>1. ver[<<e, "server">>] \in Nat /\ Len(log[e]) \in Nat
    BY <1>0 DEF DataTyped, Keys, Sides
  <2> QED BY <1>1, <1>5, <2>1 DEF EditUnderLock, EditSilently
<1>6. ASSUME NEW w \in Workers, NEW e \in Entities, EditRead(w, e) PROVE WritesMatch'
  BY <1>3, <1>6 DEF EditRead
<1>7. ASSUME NEW w \in Workers, NEW o \in Ops, OpStep(w, o) PROVE WritesMatch'
  BY <1>3, <1>7 DEF OpStep, PushRead, ApplyLoad, ResolveLoad
<1>8. CASE UNCHANGED vars
  BY <1>3, <1>8 DEF vars
<1> QED BY <1>4, <1>5, <1>6, <1>7, <1>8 DEF Next

\* On either database, and whatever the online editors do, a client that waits for
\* its requests sees each operation settled once: neither a late apply nor a late
\* resolution rewrites an applied or failed row.
THEOREM Settled == ASSUME ~Overlap PROVE Spec => SettledIsFinal
<1>1. Owned /\ [Next]_vars =>
        [\A o \in Ops : status[o] \in {"applied", "failed"} => status'[o] = status[o]]_vars
  BY OwnedStep
<1>2. Owned /\ [Next]_vars => Owned'
  BY OwnedStep
<1> QED BY <1>1, <1>2, InitOwned, PTL DEF Spec, SettledIsFinal

\* Under the same condition the journal is exact: the data holds one write of an
\* applied operation and none of any other.
THEOREM JournalExact == ASSUME ~Overlap PROVE Spec => []JournalMatchesWrites
<1>1. Owned /\ WritesMatch /\ [Next]_vars => Owned' /\ WritesMatch'
  BY OwnedStep, WritesStep
<1>2. WritesMatch => JournalMatchesWrites
  BY FS_Singleton, FS_EmptySet DEF WritesMatch, JournalMatchesWrites
<1> QED BY <1>1, <1>2, InitOwned, PTL DEF Spec

---------------------------------------------------------------------------------
(* Row locks: on PostgreSQL, where no online editor interferes and updates name   *)
(* their entity by its server identifier, the version counts the writes.          *)

NoEdits == VersionedEdits = {} /\ SilentEdits = {}
ServerRefs == \A o \in Ops : OpKind[o] = "update" => OpRef[o] = "server"

Counted ==
  \A e \in Entities : ver[<<e, "client">>] = 0 /\ ver[<<e, "server">>] = Len(log[e])

Holds(w) == Applying(w) /\ work[w].seen > 0

HeldVersion == \A w \in Workers : Holds(w) => ver[KeyOf(w)] = work[w].seen

HeldOnce == \A v, w \in Workers : Holds(v) /\ Holds(w) /\ KeyOf(v) = KeyOf(w) => v = w

Unedited == \A w \in Workers : work[w].req # "edit"

Counting == Unedited /\ Typed /\ Counted /\ HeldVersion /\ HeldOnce /\ SerialLog

LEMMA InitCounting == Init => Counting
<1> SUFFICES ASSUME Init PROVE Unedited /\ Counted /\ HeldVersion /\ HeldOnce /\ SerialLog
  BY InitTyped DEF Counting
<1>1. Counted
  BY DEF Init, Counted, Keys, Sides
<1>2. Unedited /\ HeldVersion /\ HeldOnce
  BY DEF Init, Unedited, HeldVersion, HeldOnce, Holds, Applying, IdleWork
<1>3. SerialLog
  BY DEF Init, SerialLog
<1> QED BY <1>1, <1>2, <1>3

(* A step that touches neither versions nor the log, and after which no thread    *)
(* holds a row that it did not hold.                                              *)
LEMMA QuietStep ==
  ASSUME Counting, Typed', Unedited', UNCHANGED <<ver, log>>,
         \A v \in Workers : work'[v] = work[v] \/ ~(Holds(v)')
  PROVE  Counting'
BY DEF Counting, Counted, HeldVersion, HeldOnce, SerialLog, Holds, Applying, KeyOf

(* The commit of an apply writes the version after the one it holds, which is the *)
(* number of writes so far.                                                       *)
LEMMA CommitCounts ==
  ASSUME ServerRefs, Counting, NEW w \in Workers, ApplyCommit(w)
  PROVE  LET r == work[w] IN
         /\ r.ent \in Entities /\ r.op \in Ops /\ r.ent = OpEntity[r.op]
         /\ r.base = Len(log[r.ent])
         /\ log' = [log EXCEPT ![r.ent] = Append(@, [op |-> r.op, base |-> Len(log[r.ent])])]
         /\ ver' = [ver EXCEPT ![<<r.ent, "server">>] = Len(log[r.ent]) + 1]
         /\ \A v \in Workers : v # w /\ Holds(v) => KeyOf(v) # <<r.ent, "server">>
<1> USE SyncAssumption
<1> DEFINE r == work[w]
           e == r.ent
<1>1. r.op \in Ops /\ e = OpEntity[r.op] /\ e \in Entities /\ r.seen \in Nat
  BY DEF ApplyCommit, Applying, Counting, Typed, RequestsOK, RequestOK, Work
<1>2. r.base = r.seen /\ Applying(w)
  BY DEF ApplyCommit, Agrees
<1>3. CASE r.seen > 0
  <2>1. Holds(w) /\ VersionRow(w) = KeyOf(w)
    BY <1>2, <1>3 DEF Holds, VersionRow
  <2>2. ver[KeyOf(w)] = r.seen
    BY <2>1 DEF Counting, HeldVersion
  <2>3. r.side = "server"
    <3>1. r.side \in Sides
      BY DEF Counting, Typed, Work
    <3>2. CASE r.side = "client"
      <4>1. ver[<<e, "client">>] = 0
        BY <1>1 DEF Counting, Counted
      <4> QED BY <1>3, <2>2, <3>2, <4>1 DEF KeyOf
    <3> QED BY <3>1, <3>2 DEF Sides
  <2>4. KeyOf(w) = <<e, "server">> /\ Len(log[e]) = r.seen
    BY <1>1, <2>2, <2>3 DEF KeyOf, Counting, Counted
  <2>5. \A v \in Workers : v # w /\ Holds(v) => KeyOf(v) # <<e, "server">>
    BY <2>1, <2>4 DEF Counting, HeldOnce
  <2> QED BY <1>1, <1>2, <2>1, <2>4, <2>5 DEF ApplyCommit, Record
<1>4. CASE r.seen = 0
  <2>1. OpKind[r.op] = "update" => OpRef[r.op] = "server"
    BY <1>1 DEF ServerRefs
  <2>2. VersionRow(w) = <<e, "server">> /\ ver[<<e, "server">>] = 0
    BY <1>1, <1>4, <2>1 DEF ApplyCommit, VersionRow
  <2>3. Len(log[e]) = 0
    BY <1>1, <2>2 DEF Counting, Counted
  <2>4. ASSUME NEW v \in Workers, Holds(v) PROVE KeyOf(v) # <<e, "server">>
    <3>1. ver[KeyOf(v)] = work[v].seen /\ work[v].seen > 0
      BY <2>4 DEF Counting, HeldVersion, Holds
    <3> QED BY <2>2, <3>1
  <2> QED BY <1>1, <1>2, <1>4, <2>2, <2>3, <2>4 DEF ApplyCommit, Record
<1> QED BY <1>1, <1>3, <1>4

LEMMA CountingStep ==
  ASSUME RowLocks, NoEdits, ServerRefs, Counting, [Next]_vars
  PROVE  Counting'
<1> USE SyncAssumption
<1>0. Typed /\ Typed' /\ DataTyped /\ work \in [Workers -> Work]
  BY TypedStep DEF Counting, Typed
<1>1. ASSUME NEW w \in Workers, NEW r, Begin(w, r), UNCHANGED <<ver, log>>,
             r.req # "edit", r.req # "apply" \/ r.pc # "decided"
      PROVE  Counting'
  <2>1. work'[w] = r /\ \A v \in Workers \ {w} : work'[v] = work[v]
    BY <1>0, <1>1 DEF Begin
  <2>2. ~(Holds(w)') /\ Unedited'
    BY <1>1, <2>1 DEF Holds, Applying, Counting, Unedited
  <2> QED BY <1>0, <1>1, <2>1, <2>2, QuietStep
<1>2. ASSUME NEW w \in Workers, Finish(w), UNCHANGED <<ver, log>> PROVE Counting'
  <2>1. work'[w] = IdleWork /\ \A v \in Workers \ {w} : work'[v] = work[v]
    BY <1>0, <1>2 DEF Finish
  <2>2. ~(Holds(w)') /\ Unedited'
    BY <2>1 DEF Holds, Applying, IdleWork, Counting, Unedited
  <2> QED BY <1>0, <1>2, <2>1, <2>2, QuietStep
<1>3. ASSUME NEW w \in Workers, ReadVersion(w) PROVE Counting'
  <2> DEFINE side == CanonicalSide(work[w].op)
             k == <<work[w].ent, side>>
  <2>1. /\ work'[w] = [work[w] EXCEPT !.pc = "decided", !.side = side, !.seen = ver[k]]
        /\ \A v \in Workers \ {w} : work'[v] = work[v]
        /\ UNCHANGED <<ver, log>>
    BY <1>0, <1>3 DEF ReadVersion, Begin
  <2>2. work[w].req = "apply" => ~Locked(k)
    BY <1>3, RowLocks DEF ReadVersion, RowFree
  <2>3. work'[w].req = work[w].req /\ KeyOf(w)' = k /\ work'[w].seen = ver[k]
    BY <1>0, <2>1 DEF KeyOf, Work
  <2>4. \A v \in Workers \ {w} : (Holds(v)' <=> Holds(v)) /\ KeyOf(v)' = KeyOf(v)
    BY <2>1 DEF Holds, Applying, KeyOf
  <2>5. HeldVersion'
    <3>1. \A v \in Workers \ {w} : Holds(v)' => ver'[KeyOf(v)'] = work'[v].seen
      BY <2>1, <2>4 DEF Counting, HeldVersion
    <3>2. ver'[KeyOf(w)'] = work'[w].seen
      BY <2>1, <2>3
    <3> QED BY <3>1, <3>2 DEF HeldVersion
  <2>6. ASSUME NEW v \in Workers \ {w}, Holds(v), Holds(w)' PROVE KeyOf(v) # k
    <3>1. work[w].req = "apply"
      BY <2>3, <2>6 DEF Holds, Applying
    <3> QED BY <2>2, <2>6, <3>1 DEF Locked, Holds, Applying
  <2>7. HeldOnce'
    BY <2>3, <2>4, <2>6 DEF Counting, HeldOnce
  <2>8. Counted' /\ SerialLog'
    BY <2>1 DEF Counting, Counted, SerialLog
  <2>9. Unedited'
    <3> HIDE DEF side, k
    <3> QED BY <2>1, <2>3 DEF Counting, Unedited
  <2> QED BY <1>0, <2>5, <2>7, <2>8, <2>9 DEF Counting
<1>4. ASSUME NEW w \in Workers, ApplyCommit(w) PROVE Counting'
  <2> DEFINE r == work[w]
             e == r.ent
             x == [op |-> r.op, base |-> Len(log[e])]
  <2>1. /\ e \in Entities /\ r.op \in Ops
        /\ log' = [log EXCEPT ![e] = Append(@, x)]
        /\ ver' = [ver EXCEPT ![<<e, "server">>] = Len(log[e]) + 1]
        /\ \A v \in Workers : v # w /\ Holds(v) => KeyOf(v) # <<e, "server">>
    BY <1>4, CommitCounts
  <2>2. work'[w] = IdleWork /\ \A v \in Workers \ {w} : work'[v] = work[v]
    BY <1>0, <1>4 DEF ApplyCommit, Finish
  <2>3. log[e] \in Seq(Entry) /\ Len(log[e]) \in Nat /\ x \in Entry
    <3>1. log[e] \in Seq(Entry)
      BY <1>0, <2>1 DEF DataTyped
    <3>2. Len(log[e]) \in Nat
      BY <3>1
    <3> QED BY <2>1, <3>1, <3>2 DEF Entry
  <2>4. log'[e] = Append(log[e], x) /\ \A d \in Entities : d # e => log'[d] = log[d]
    BY <1>0, <2>1 DEF DataTyped
  <2>5. Counted'
    <3>1. Len(log'[e]) = Len(log[e]) + 1
      BY <2>3, <2>4
    <3>2. \A d \in Entities : <<d, "client">> \in Keys /\ <<d, "server">> \in Keys
      BY DEF Keys, Sides
    <3>3. \A d \in Entities : ver'[<<d, "client">>] = ver[<<d, "client">>]
      BY <1>0, <2>1, <3>2 DEF DataTyped
    <3>4. ver'[<<e, "server">>] = Len(log[e]) + 1
      BY <1>0, <2>1, <3>2 DEF DataTyped
    <3>5. \A d \in Entities : d # e => ver'[<<d, "server">>] = ver[<<d, "server">>]
      BY <1>0, <2>1, <3>2 DEF DataTyped
    <3> QED BY <2>4, <3>1, <3>3, <3>4, <3>5 DEF Counting, Counted
  <2>6. ~(Holds(w)')
    BY <2>2 DEF Holds, Applying, IdleWork
  <2>7. \A v \in Workers \ {w} : (Holds(v)' <=> Holds(v)) /\ KeyOf(v)' = KeyOf(v)
    BY <2>2 DEF Holds, Applying, KeyOf
  <2>8. \A v \in Workers \ {w} : Holds(v) => ver'[KeyOf(v)] = ver[KeyOf(v)]
    <3>1. \A v \in Workers : Holds(v) => KeyOf(v) \in Keys
      BY <1>0 DEF Holds, Applying, KeyOf, Keys, Typed, RequestsOK, RequestOK, Work
    <3> QED BY <1>0, <2>1, <3>1 DEF DataTyped
  <2>9. HeldVersion' /\ HeldOnce' /\ Unedited'
    BY <2>2, <2>6, <2>7, <2>8 DEF Counting, HeldVersion, HeldOnce, Unedited, IdleWork
  <2>10. SerialLog'
    <3> SUFFICES ASSUME NEW d \in Entities, NEW i \in DOMAIN log'[d], log'[d][i].op \in Ops
                 PROVE  log'[d][i].base = i - 1
      BY DEF SerialLog
    <3>1. CASE d # e
      BY <2>4, <3>1 DEF Counting, SerialLog
    <3>2. CASE d = e /\ i \in DOMAIN log[e]
      <4>1. log'[d][i] = log[e][i]
        BY <2>3, <2>4, <3>2
      <4> QED BY <3>2, <4>1 DEF Counting, SerialLog
    <3>3. CASE d = e /\ i \notin DOMAIN log[e]
      <4>1. i = Len(log[e]) + 1 /\ log'[e][i] = x
        BY <2>3, <2>4, <3>3
      <4>2. Len(log[e]) \in Nat
        BY <2>3
      <4> QED BY <3>3, <4>1, <4>2
    <3> QED BY <3>1, <3>2, <3>3
  <2> QED BY <1>0, <2>5, <2>9, <2>10 DEF Counting
<1>5. ASSUME NEW w \in Workers, WorkStep(w) PROVE Counting'
  <2>1. CASE ReadVersion(w)
    BY <1>3, <2>1
  <2>2. CASE ApplyCommit(w)
    BY <1>4, <2>2
  <2>3. CASE PushCommit(w) \/ ApplyConflict(w) \/ ApplyMarkFailed(w) \/ ResolveDiscard(w)
             \/ ResolveRebase(w) \/ Abort(w)
    BY <1>2, <2>3 DEF PushCommit, ApplyConflict, ApplyMarkFailed, ResolveDiscard,
                      ResolveRebase, Abort
  <2>4. CASE ApplyReject(w)
    <3>1. [work[w] EXCEPT !.pc = "failing"].pc = "failing"
      BY <1>0 DEF Work
    <3>2. [work[w] EXCEPT !.pc = "failing"].req # "edit"
      BY <1>0 DEF Work, Counting, Unedited
    <3> QED BY <1>1, <2>4, <3>1, <3>2 DEF ApplyReject
  <2>5. CASE EditCommit(w)
    BY <2>5 DEF EditCommit, Counting, Unedited
  <2> QED BY <1>5, <2>1, <2>2, <2>3, <2>4, <2>5 DEF WorkStep
<1>6. ASSUME NEW w \in Workers, NEW o \in Ops, OpStep(w, o) PROVE Counting'
  BY <1>1, <1>6 DEF OpStep, PushRead, ApplyLoad, ResolveLoad
<1>7. ~ \E e \in Entities : \/ EditUnderLock(e) \/ EditSilently(e)
                            \/ \E w \in Workers : EditRead(w, e)
  BY DEF NoEdits, EditUnderLock, EditSilently, EditRead
<1>8. CASE UNCHANGED vars
  <2>1. Unedited'
    BY <1>8 DEF vars, Counting, Unedited
  <2> QED BY <1>0, <1>8, <2>1, QuietStep DEF vars
<1> QED BY <1>5, <1>6, <1>7, <1>8 DEF Next

\* On PostgreSQL the version row of an entity counts its writes, however requests
\* interleave and even if retries overlap: two states of a record that differ by a
\* write never bear the same version.
THEOREM VersionsCount ==
  ASSUME RowLocks, NoEdits, ServerRefs PROVE Spec => []VersionCountsWrites
<1>1. Counting /\ [Next]_vars => Counting'
  BY CountingStep
<1>2. Counting => VersionCountsWrites
  <2> SUFFICES ASSUME Counting, NEW e \in Entities
               PROVE  ver[<<e, "client">>] + ver[<<e, "server">>] = Len(log[e])
    BY DEF VersionCountsWrites
  <2>1. log[e] \in Seq(Entry)
    BY DEF Counting, Typed, DataTyped
  <2>2. Len(log[e]) \in Nat
    BY <2>1
  <2> QED BY <2>2 DEF Counting, Counted
<1> QED BY <1>1, <1>2, InitCounting, PTL DEF Spec

\* Under the same conditions nothing is overwritten silently: the author of every
\* accepted operation had seen all the writes made before it.
THEOREM Serial ==
  ASSUME RowLocks, NoEdits, ServerRefs PROVE Spec => []SerialLog
<1>1. Counting /\ [Next]_vars => Counting'
  BY CountingStep
<1>2. Counting => SerialLog
  BY DEF Counting
<1> QED BY <1>1, <1>2, InitCounting, PTL DEF Spec

---------------------------------------------------------------------------------
(* The journal implements the versioned store.                                    *)

Told(s) == IF s \in {"pending", "conflict"} THEN "open" ELSE s

LEMMA OutcomeUpdate ==
  ASSUME DataTyped, NEW o \in Ops, NEW s, status' = [status EXCEPT ![o] = s]
  PROVE  Outcome' = [Outcome EXCEPT ![o] = Told(s)]
BY DEF DataTyped, Outcome, Told

LEMMA InitImplements == Init => Store!StoreInit
BY DEF Init, Store!StoreInit, Outcome

LEMMA StepImplements ==
  ASSUME ServerRefs, NoEdits, Counting, Owned, [Next]_vars
  PROVE  [Store!StoreNext]_<<Outcome, log>>
<1> USE SyncAssumption
<1>0. DataTyped /\ RequestsOK /\ work \in [Workers -> Work]
  BY DEF Owned, Typed
<1> DEFINE Stutter == UNCHANGED <<Outcome, log>>
           Implemented == [Store!StoreNext]_<<Outcome, log>>
<1>1. ASSUME UNCHANGED <<status, log>> PROVE Implemented
  BY <1>1 DEF Outcome
<1>2. ASSUME NEW w \in Workers, WorkStep(w) PROVE Implemented
  <2>1. CASE PushCommit(w)
    <3> PICK p \in Ops : p = work[w].op
      BY <1>0, <2>1 DEF PushCommit, RequestsOK, RequestOK
    <3>1. Outcome[p] = "absent"
      BY <2>1 DEF PushCommit, Outcome
    <3>2. PICK s \in {"pending", "conflict"} : status' = [status EXCEPT ![p] = s]
      BY <2>1 DEF PushCommit
    <3>3. Outcome' = [Outcome EXCEPT ![p] = "open"]
      BY <1>0, <3>2, OutcomeUpdate DEF Told
    <3> QED BY <2>1, <3>1, <3>3 DEF PushCommit, Store!StoreNext, Store!Submit
  <2>2. CASE ApplyCommit(w)
    <3>1. work[w].op \in Ops /\ work[w].ent \in Entities
      BY <1>0, <2>2 DEF ApplyCommit, Applying, RequestsOK, RequestOK
    <3> PICK p \in Ops, e \in Entities : p = work[w].op /\ e = work[w].ent
      BY <3>1
    <3>2. /\ e = OpEntity[p]
          /\ log' = [log EXCEPT ![e] = Append(@, [op |-> p, base |-> Len(log[e])])]
      BY <2>2, CommitCounts
    <3>3. Outcome[p] = "open"
      BY <2>2 DEF ApplyCommit, Applying, Owned, Phase, Outcome
    <3>4. status' = [status EXCEPT ![p] = "applied"]
      BY <2>2 DEF ApplyCommit
    <3>5. Outcome' = [Outcome EXCEPT ![p] = "applied"]
      BY <1>0, <3>4, OutcomeUpdate DEF Told
    <3> QED BY <3>2, <3>3, <3>5 DEF Store!StoreNext, Store!Accept, Store!Write
  <2>3. CASE ApplyMarkFailed(w) \/ ResolveDiscard(w)
    <3> PICK p \in Ops : p = work[w].op
      BY <1>0, <2>3 DEF ApplyMarkFailed, ResolveDiscard, RequestsOK, RequestOK
    <3>1. Outcome[p] = "open"
      BY <1>0, <2>3 DEF ApplyMarkFailed, ResolveDiscard, RequestsOK, RequestOK, Owned,
                        Phase, Outcome
    <3>2. status' = [status EXCEPT ![p] = "failed"] /\ log' = log
      BY <2>3 DEF ApplyMarkFailed, ResolveDiscard, DiscardedStatus
    <3>3. Outcome' = [Outcome EXCEPT ![p] = "failed"]
      BY <1>0, <3>2, OutcomeUpdate DEF Told
    <3> QED BY <3>1, <3>2, <3>3 DEF Store!StoreNext, Store!Refuse
  <2>4. CASE ApplyConflict(w) \/ ResolveRebase(w)
    <3> PICK p \in Ops : p = work[w].op
      BY <1>0, <2>4 DEF ApplyConflict, Applying, ResolveRebase, RequestsOK, RequestOK
    <3>1. Outcome[p] = "open"
      BY <2>4 DEF ApplyConflict, Applying, ResolveRebase, Owned, Phase, Outcome
    <3>2. PICK s \in {"pending", "conflict"} : status' = [status EXCEPT ![p] = s]
      BY <2>4 DEF ApplyConflict, ResolveRebase
    <3>3. Outcome' = [Outcome EXCEPT ![p] = "open"]
      BY <1>0, <3>2, OutcomeUpdate DEF Told
    <3>4. Outcome' = Outcome
      BY <3>1, <3>3 DEF Outcome
    <3> QED BY <2>4, <3>4 DEF ApplyConflict, ResolveRebase
  <2>5. CASE ReadVersion(w) \/ ApplyReject(w) \/ Abort(w)
    BY <1>1, <2>5 DEF ReadVersion, ApplyReject, Abort
  <2>6. CASE EditCommit(w)
    BY <2>6 DEF EditCommit, Counting, Unedited
  <2> QED BY <1>2, <2>1, <2>2, <2>3, <2>4, <2>5, <2>6 DEF WorkStep
<1>3. ASSUME NEW w \in Workers, NEW o \in Ops, OpStep(w, o) PROVE Implemented
  BY <1>1, <1>3 DEF OpStep, PushRead, ApplyLoad, ResolveLoad
<1>4. ~ \E e \in Entities : \/ EditUnderLock(e) \/ EditSilently(e)
                            \/ \E w \in Workers : EditRead(w, e)
  BY DEF NoEdits, EditUnderLock, EditSilently, EditRead
<1>5. CASE UNCHANGED vars
  BY <1>1, <1>5 DEF vars
<1> QED BY <1>2, <1>3, <1>4, <1>5 DEF Next

\* On PostgreSQL, for clients that wait for their requests and records that no online
\* editor touches, the journal is the versioned store: every step of a request is a
\* submission, an acceptance on the latest state, a refusal, or no visible step.
THEOREM Implements ==
  ASSUME RowLocks, ~Overlap, NoEdits, ServerRefs PROVE Spec => ImplementsStore
<1>1. Counting /\ Owned /\ [Next]_vars => Counting' /\ Owned'
  BY CountingStep, OwnedStep
<1>2. Counting /\ Owned /\ [Next]_vars => [Store!StoreNext]_(Store!storeVars)
  BY StepImplements DEF Store!storeVars
<1>3. Init => Counting /\ Owned /\ Store!StoreInit
  BY InitCounting, InitOwned, InitImplements
<1> QED BY <1>1, <1>2, <1>3, PTL DEF Spec, ImplementsStore, Store!StoreSpec
=================================================================================
