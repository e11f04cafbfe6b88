-------------------------------- MODULE Clients --------------------------------
(* The clients of a school that keep writes for later: the desktop client (SyncSystem), *)
(* once as a station that reads what another writes, and once with writers of their    *)
(* own; the browser (BrowserQueue); the telephone (AndroidQueue).  They share nothing   *)
(* here: a behaviour is one of one of them.  Theorems follow, for any stations,         *)
(* operations and records, any number of late calls and of rows: what a station shows   *)
(* as applied is applied, and once, a copy keeps what was merged, and a station that    *)
(* only reads skips nothing; and for any tabs and writes: what a browser queues stays   *)
(* until it is answered, in order.                                                      *)
EXTENDS SyncSystem, Sequences, FiniteSetTheorems, WellFoundedInduction, TLAPS

CONSTANTS
  Parts,                                        \* the parts that a behaviour may be of
  Author, Naming, Made,                         \* SyncSystem's OpDevice, OpRef, Creations
                                                \* for the stations that write
  Tabs, Writes, Bare, Refused, MaxFaults,       \* BrowserQueue's
  Operations, Sizes, MAX_OPERATIONS,            \* AndroidQueue's
  MAX_OPERATION_BYTES, MAX_QUEUE_BYTES, MaxKills

VARIABLES part
VARIABLES online, cookie, token, queue, page, flow, woken, told, done, ended, faults
VARIABLES memory, unsaved, disk, peeked, asked, acked, drained, reverted, kills

Writing == INSTANCE SyncSystem WITH
  OpDevice <- Author, OpRef <- Naming, Creations <- Made, InOrder <- FALSE, Rebases <- TRUE
Browser == INSTANCE BrowserQueue
Phone == INSTANCE AndroidQueue

ASSUME ClientsAssumption ==
  /\ Parts \subseteq {"reading", "writing", "browser", "phone"}
  /\ Writing!SystemAssumption /\ Browser!BrowserConstants /\ Phone!AndroidConstants

browser == <<online, cookie, token, queue, page, flow, woken, told, done, ended, faults>>
phone == <<memory, unsaved, disk, peeked, asked, acked, drained, reverted, kills>>

ClientsInit ==
  /\ part \in Parts
  /\ part # "writing" => Init
  /\ part = "writing" => Writing!Init
  /\ Browser!Init /\ Phone!Init
ClientsNext ==
  /\ part' = part
  /\ \/ part = "reading" /\ Next /\ UNCHANGED <<browser, phone>>
     \/ part = "writing" /\ Writing!Next /\ UNCHANGED <<browser, phone>>
     \/ part = "browser" /\ Browser!Next /\ UNCHANGED <<vars, phone>>
     \/ part = "phone" /\ Phone!Next /\ UNCHANGED <<vars, browser>>
ClientsSpec ==
  /\ ClientsInit /\ [][ClientsNext]_<<vars, browser, phone, part>>
  /\ part = "browser" => Browser!Fairness

---------------------------------------------------------------------------------
(* Properties                                                                    *)

\* A station that only reads misses nothing behind its cursor, and keeps in its copy what
\* it has merged and acknowledged, whatever calls and replies are lost and wherever it stops.
ReaderIsUpToDate == part = "reading" => NothingSkipped /\ MergedIsCached

\* A write stays in the browser's queue until the server has answered it, and is replayed
\* after those before it (BrowserQueue).
QueueKeeps == Browser!KeptUntilAnswered /\ Browser!EarlierFirst

\* Both queues empty as they should: the browser's as long as pages are opened, by replays
\* that are answered, and the telephone's of confirmed operations only (BrowserQueue and AndroidQueue).
QueuesEmpty == Browser!QueueDrains /\ Phone!LeavesWhenConfirmed

---------------------------------------------------------------------------------
(* The least and the greatest of a set of numbers, and counting.                  *)

Less == {p \in Nat \X Nat : p[1] < p[2]}

LEMMA LeastOfNat ==
  ASSUME NEW S, S \subseteq Nat, S # {}
  PROVE  \E x \in S : \A y \in S : x <= y
<1>1. IsWellFoundedOn(Less, Nat)
  <2>1. Less = OpToRel(<, Nat)
    BY DEF Less, OpToRel
  <2> QED
    BY <2>1, NatLessThanWellFounded
<1>2. PICK x \in S : \A y \in S : ~(<<y, x>> \in Less)
  BY <1>1, WFMin
<1>3. ASSUME NEW y \in S PROVE x <= y
  <2>1. y \in Nat /\ x \in Nat
    OBVIOUS
  <2>2. y < x => <<y, x>> \in Less
    BY <2>1 DEF Less
  <2> QED
    BY <1>2, <2>1, <2>2
<1> QED
  BY <1>3

LEMMA MinOfNat ==
  ASSUME NEW S, S \subseteq Nat, S # {}
  PROVE  Min(S) \in S /\ \A x \in S : Min(S) <= x
BY LeastOfNat DEF Min

LEMMA MaxOfInterval ==
  ASSUME NEW n \in Nat, NEW S, S \subseteq 0..n, S # {}
  PROVE  Max(S) \in S /\ \A x \in S : x <= Max(S)
<1> DEFINE T == {n - x : x \in S}
<1>1. T \subseteq Nat /\ T # {}
  <2>1. \A x \in S : n - x \in Nat
    OBVIOUS
  <2> QED
    BY <2>1
<1> HIDE DEF T
<1>2. PICK t \in T : \A y \in T : t <= y
  BY <1>1, LeastOfNat
<1>3. PICK x \in S : t = n - x
  BY <1>2 DEF T
<1>4. ASSUME NEW y \in S PROVE x >= y
  <2>1. n - y \in T
    BY DEF T
  <2>2. t <= n - y
    BY <1>2, <2>1
  <2> QED
    BY <1>3, <2>2
<1>5. \E z \in S : \A y \in S : z >= y
  BY <1>4
<1>6. Max(S) \in S /\ \A y \in S : Max(S) >= y
  BY <1>5 DEF Max
<1> QED
  BY <1>6

LEMMA CountsOfOps ==
  ASSUME SystemAssumption, NEW S \in SUBSET Ops
  PROVE  /\ IsFiniteSet(S) /\ Cardinality(S) \in Nat
         /\ \A T \in SUBSET S : Cardinality(T) \in Nat /\ Cardinality(T) <= Cardinality(S)
         /\ \A o \in S : Cardinality({p \in S : p <= o}) \in 1..Cardinality(S)
<1>1. IsFiniteSet(S)
  BY FS_Subset DEF SystemAssumption
<1>2. \A T \in SUBSET S : IsFiniteSet(T) /\ Cardinality(T) \in Nat
                          /\ Cardinality(T) <= Cardinality(S)
  BY <1>1, FS_Subset, FS_CardinalityType
<1>3. ASSUME NEW o \in S
      PROVE  Cardinality({p \in S : p <= o}) # 0
  <2>1. o \in {p \in S : p <= o} /\ {p \in S : p <= o} \in SUBSET S
    BY DEF SystemAssumption
  <2> QED
    BY <1>2, <2>1, FS_EmptySet
<1> QED
  BY <1>1, <1>2, <1>3

---------------------------------------------------------------------------------
(* Replies                                                                         *)

LEMMA ReplyIs ==
  ASSUME NEW f \in Replies
  PROVE  /\ DOMAIN f \subseteq Ops
         /\ \A o \in DOMAIN f : f[o] \in Results
         /\ f = [o \in DOMAIN f |-> f[o]]
BY DEF Replies

LEMMA IsReply ==
  ASSUME NEW S \in SUBSET Ops, NEW f \in [S -> Results]
  PROVE  f \in Replies
BY DEF Replies

LEMMA NothingIsReply == Nothing \in Replies /\ DOMAIN Nothing = {}
<1>1. Nothing \in [{} -> Results]
  BY DEF Nothing
<1> QED
  BY <1>1, IsReply DEF Nothing

---------------------------------------------------------------------------------
(* The inductive invariant.                                                        *)

\* What a call says it has done is done: a push in flight holds the ids of the rows it
\* will commit, and an application that is reported is on the server.
CallSound(r) ==
  /\ DOMAIN r.done \subseteq r.ops
  /\ r.kind = "push" =>
       \A o \in DOMAIN r.done :
         /\ r.done[o] \in {"pending", "applied", "conflict", "failed"}
         /\ status[o] = "absent" => r.done[o] \in {"pending", "conflict"} /\ rowId[o] # 0
  /\ r.kind = "apply" =>
       \A o \in DOMAIN r.done :
         /\ r.done[o] \in {"applied", "created", "conflict", "failed"}
         /\ r.done[o] \in {"applied", "created"} => status[o] = "applied"
  /\ r.kind \in {"rebase", "discard"} => r.ops # {}
  /\ r.kind = "rebase" => Rebases
  /\ r.kind = "ack" => \A o \in r.ops : inbox[r.dev][o] = "applied"
CallsSound == \A r \in calls : CallSound(r)

\* The replies a pass still handles are true, and it acknowledges what it has merged.
PassSound(d) ==
  /\ pass[d].at = "verdicts" =>
       \A o \in DOMAIN pass[d].items :
         pass[d].items[o] \in {"pending", "applied", "conflict", "failed"}
  /\ pass[d].at \in {"results", "identity"} =>
       \A o \in DOMAIN pass[d].items :
         /\ pass[d].items[o] \in {"applied", "created", "conflict", "failed"}
         /\ pass[d].items[o] \in {"applied", "created"} => status[o] = "applied"
  /\ pass[d].at = "identity" => DOMAIN pass[d].items # {}
  /\ pass[d].at \in {"inbox", "merged"} => \A o \in pass[d].ops : inbox[d][o] = "applied"
PassesSound == \A d \in Devices : PassSound(d)

\* A station has received, and copied, only what the server committed.  Between the copy
\* and the mark of an operation, it is the operation copied that will be marked.
InboxSound(d) ==
  /\ \A o \in Ops : inbox[d][o] # "none" => status[o] # "absent"
  /\ \A k \in Keys : cache[d][k] # 0 => inbox[d][cache[d][k]] # "none"
  /\ pass[d].at = "merged" => Received(d) # {} /\ InCopy(d, Next1(d))
InboxesSound == \A d \in Devices : InboxSound(d)

\* A conflict that is no longer listed was discarded for good, or the outbox shows it
\* no more.
ConflictKept == \A o \in Ops : outbox[o] = "conflict" => Listed(o) \/ status[o] = "failed"

\* Pushes that have their ids and are not committed.  No two of them hold the same row.
Flushed == {r \in calls : r.kind = "push" /\ DOMAIN r.done # {}}
OneHolder ==
  \A r, q \in Flushed :
    \A o \in DOMAIN r.done \cap DOMAIN q.done : status[o] = "absent" => r = q
JournalSound ==
  /\ \A o \in Ops : rowId[o] <= lastId
  /\ \A d \in Devices : cursor[d] <= lastId
  /\ \A o \in Ops : status[o] # "absent" => rowId[o] # 0
  /\ OneHolder

\* Where rows are committed in the order of their ids, one push at a time is in flight,
\* and its ids are beyond every committed row and every cursor.
OrderSound ==
  /\ \A r, q \in Flushed : r = q
  /\ \A o \in Ops : status[o] = "absent" /\ rowId[o] # 0 =>
       /\ \E r \in Flushed : o \in DOMAIN r.done
       /\ \A p \in Ops : status[p] # "absent" => rowId[p] < rowId[o]
       /\ \A d \in Devices : cursor[d] < rowId[o]

IInv ==
  /\ TypeOK
  /\ CallsSound /\ PassesSound /\ InboxesSound
  /\ ConflictKept
  /\ JournalSound
  /\ InOrder => OrderSound
  /\ AppliedMeansApplied /\ AppliedOnce
  /\ MergedIsCached
  /\ InOrder /\ ~Rebases => NothingSkipped

\* What a step never undoes: what the server has applied, the id of a committed row, what
\* it refused for good, what a station has received and merged.
Grows ==
  /\ \A o \in Ops : status[o] \in {"applied", "failed"} => status'[o] = status[o]
  /\ \A o \in Ops : status[o] # "absent" => status'[o] # "absent" /\ rowId'[o] = rowId[o]
  /\ \A d \in Devices, o \in Ops :
       /\ inbox[d][o] = "applied" => inbox'[d][o] = "applied"
       /\ inbox[d][o] # "none" => inbox'[d][o] # "none" /\ seen'[d][o] = seen[d][o]

---------------------------------------------------------------------------------
(* Types                                                                           *)

LEMMA InitTypeOK == Init => TypeOK
<1> SUFFICES ASSUME Init PROVE TypeOK
  OBVIOUS
<1>1. ServerTypeOK
  BY SystemAssumption DEF Init, ServerTypeOK, Statuses
<1>2. StoreTypeOK
  BY SystemAssumption DEF Init, StoreTypeOK, OutboxStatuses
<1>3. pass \in [Devices -> Passes]
  BY NothingIsReply DEF Init, IdlePass, Passes, Nothing
<1> QED
  BY <1>1, <1>2, <1>3 DEF TypeOK, Init

LEMMA SendTypeOK ==
  ASSUME TypeOK, NEW d \in Devices, NEW kind \in Kinds, NEW ops \in SUBSET Ops,
         Send(d, kind, ops)
  PROVE  calls' \subseteq Messages /\ pass' \in [Devices -> Passes]
<1>1. Request(d, kind, ops) \in Messages
  BY NothingIsReply DEF Request, Messages
<1>2. [at |-> "call", items |-> Nothing, ops |-> ops] \in Passes
  BY NothingIsReply DEF Passes
<1> QED
  BY <1>1, <1>2 DEF TypeOK, Send

LEMMA PassTypeOK ==
  ASSUME TypeOK, NEW d \in Devices, NEW p \in Passes, pass' = [pass EXCEPT ![d] = p]
  PROVE  pass' \in [Devices -> Passes]
BY DEF TypeOK

LEMMA AnswerTypeOK ==
  ASSUME TypeOK, NEW r \in calls, NEW items \in Replies,
         NEW at \in {"idle", "call", "verdicts", "results", "identity", "inbox", "merged"},
         Answer(r, at, items)
  PROVE  calls' \subseteq Messages /\ pass' \in [Devices -> Passes]
<1>1. calls' \subseteq Messages
  BY DEF TypeOK, Answer
<1>2. CASE r.late
  BY <1>2 DEF TypeOK, Answer
<1>3. CASE ~r.late
  <2>1. r.dev \in Devices
    BY DEF TypeOK, Messages
  <2>2. pass' = [pass EXCEPT ![r.dev] = [pass[r.dev] EXCEPT !.at = at, !.items = items]]
    BY <1>3, <2>1 DEF TypeOK, Answer
  <2>3. [pass[r.dev] EXCEPT !.at = at, !.items = items] \in Passes
    BY <2>1 DEF TypeOK, Passes
  <2> QED
    BY <1>1, <2>1, <2>2, <2>3, PassTypeOK
<1> QED
  BY <1>1, <1>2, <1>3

\* A call whose reply grows.
LEMMA DoneTypeOK ==
  ASSUME TypeOK, NEW r \in calls, NEW f \in Replies
  PROVE  [r EXCEPT !.done = f] \in Messages
BY DEF TypeOK, Messages

\* The reply of apply_batch with one more operation.
WithResult(r, o, result) ==
  [r EXCEPT !.done = [p \in DOMAIN @ \cup {o} |-> IF p = o THEN result ELSE @[p]]]

LEMMA WithResultTypeOK ==
  ASSUME TypeOK, NEW r \in calls, NEW o \in Ops, NEW result \in Results
  PROVE  /\ WithResult(r, o, result) \in Messages
         /\ WithResult(r, o, result).done =
              [p \in DOMAIN r.done \cup {o} |-> IF p = o THEN result ELSE r.done[p]]
<1> DEFINE f == [p \in DOMAIN r.done \cup {o} |-> IF p = o THEN result ELSE r.done[p]]
<1>1. r \in Messages /\ r.done \in Replies
  BY DEF TypeOK, Messages
<1>2. f \in Replies
  <2>1. DOMAIN r.done \cup {o} \in SUBSET Ops /\ \A p \in DOMAIN r.done : r.done[p] \in Results
    BY <1>1, ReplyIs
  <2>2. f \in [DOMAIN r.done \cup {o} -> Results]
    BY <2>1
  <2> QED
    BY <2>1, <2>2, IsReply
<1>3. WithResult(r, o, result) = [r EXCEPT !.done = f]
  BY <1>1 DEF WithResult
<1> HIDE DEF f
<1>4. WithResult(r, o, result).done = f
  BY <1>1, <1>3 DEF Messages
<1>5. WithResult(r, o, result).done =
        [p \in DOMAIN r.done \cup {o} |-> IF p = o THEN result ELSE r.done[p]]
  BY <1>4 DEF f
<1> QED
  BY <1>2, <1>3, <1>5, DoneTypeOK

\* What apply_batch does next: one of four outcomes for the first operation left.
AppliesNext(r, o, result) ==
  /\ o \in r.ops \ DOMAIN r.done /\ r.kind = "apply"
  /\ calls' = (calls \ {r}) \cup {WithResult(r, o, result)}
  /\ UNCHANGED <<base, rowId, lastId, acks, store, pass>>
  /\ \/ /\ status[o] = "pending" /\ result \in {"applied", "created"}
        /\ status' = [status EXCEPT ![o] = "applied"]
        /\ ver' = [ver EXCEPT ![OpEntity[o]] = @ + 1]
        /\ rowVersion' = [rowVersion EXCEPT ![o] = ver[OpEntity[o]] + 1]
        /\ known' = known \cup {OpEntity[o]}
     \/ /\ status[o] = "pending" /\ result = "failed"
        /\ status' = [status EXCEPT ![o] = "failed"]
        /\ UNCHANGED <<ver, rowVersion, known>>
     \/ /\ status[o] = "pending" /\ result = "conflict"
        /\ status' = [status EXCEPT ![o] = "conflict"]
        /\ rowVersion' = [rowVersion EXCEPT ![o] = ver[OpEntity[o]]]
        /\ UNCHANGED <<ver, known>>
     \/ /\ result \in {"applied", "conflict"}
        /\ result = "applied" => status[o] = "applied"
        /\ UNCHANGED <<status, ver, rowVersion, known>>

LEMMA ApplyNextIs ==
  ASSUME TypeOK, CallsSound, NEW r \in calls, ApplyNext(r)
  PROVE  \E o \in Ops, result \in {"applied", "created", "failed", "conflict"} :
           AppliesNext(r, o, result)
<1> USE DEF AppliesNext
<1> DEFINE o == Min(r.ops \ DOMAIN r.done)
<1>1. /\ r.ops \subseteq Ops /\ DOMAIN r.done \subseteq r.ops /\ r.ops # DOMAIN r.done
      /\ r.kind = "apply"
  BY DEF ApplyNext, TypeOK, Messages, CallsSound, CallSound
<1>2. o \in r.ops \ DOMAIN r.done /\ o \in Ops
  <2>1. r.ops \ DOMAIN r.done \subseteq Nat /\ r.ops \ DOMAIN r.done # {}
    BY <1>1, SystemAssumption
  <2> QED
    BY <1>1, <2>1, MinOfNat
<1> HIDE DEF o
<1>3. UNCHANGED <<base, rowId, lastId, acks, store, pass>>
  BY DEF ApplyNext
<1>4. CASE /\ status[o] = "pending"
           /\ status' = [status EXCEPT ![o] = "applied"]
           /\ ver' = [ver EXCEPT ![OpEntity[o]] = @ + 1]
           /\ rowVersion' = [rowVersion EXCEPT ![o] = ver[OpEntity[o]] + 1]
           /\ known' = known \cup {OpEntity[o]}
           /\ calls' = (calls \ {r}) \cup
                       {WithResult(r, o, IF o \in Creations THEN "created" ELSE "applied")}
  BY <1>1, <1>2, <1>3, <1>4
<1>5. CASE /\ status[o] = "pending"
           /\ status' = [status EXCEPT ![o] = "failed"]
           /\ calls' = (calls \ {r}) \cup {WithResult(r, o, "failed")}
           /\ UNCHANGED <<ver, rowVersion, known>>
  BY <1>1, <1>2, <1>3, <1>5
<1>6. CASE /\ status[o] = "pending"
           /\ status' = [status EXCEPT ![o] = "conflict"]
           /\ rowVersion' = [rowVersion EXCEPT ![o] = ver[OpEntity[o]]]
           /\ calls' = (calls \ {r}) \cup {WithResult(r, o, "conflict")}
           /\ UNCHANGED <<ver, known>>
  BY <1>1, <1>2, <1>3, <1>6
<1>7. CASE /\ calls' = (calls \ {r}) \cup {WithResult(r, o, AnswerFor(o))}
           /\ UNCHANGED <<status, ver, rowVersion, known>>
  <2>1. AnswerFor(o) \in {"applied", "conflict"}
        /\ (AnswerFor(o) = "applied" => status[o] = "applied")
    BY DEF AnswerFor
  <2> QED
    BY <1>1, <1>2, <1>3, <1>7, <2>1
<1> QED
  BY <1>4, <1>5, <1>6, <1>7 DEF ApplyNext, Applicable, WithResult, o

\* What the resolution of a conflict does, on the server and, if its client still waits,
\* in the client's file.
Resolves(r, o) ==
  /\ o \in r.ops /\ status[o] = "conflict"
  /\ Answer(r, "idle", Nothing)
  /\ UNCHANGED <<rowId, lastId, ver, known, acks, inbox, seen, cursor, cache, identity>>
  /\ \/ /\ r.kind = "rebase"
        /\ status' = [status EXCEPT ![o] = "pending"]
        /\ base' = [base EXCEPT ![o] = ver[OpEntity[o]]]
        /\ rowVersion' = [rowVersion EXCEPT ![o] = ver[OpEntity[o]]]
     \/ /\ r.kind = "discard"
        /\ status' = [status EXCEPT ![o] = "failed"]
        /\ UNCHANGED <<base, rowVersion>>
  /\ \/ /\ r.late
        /\ UNCHANGED <<outbox, myBase, conflicts>>
     \/ /\ ~r.late
        /\ r.kind = "rebase"
        /\ conflicts' = [conflicts EXCEPT ![o] = "resolved"]
        /\ outbox' = [outbox EXCEPT ![o] = "pending"]
        /\ myBase' = [myBase EXCEPT ![o] = ver[OpEntity[o]]]
     \/ /\ ~r.late
        /\ r.kind = "discard"
        /\ conflicts' = [conflicts EXCEPT ![o] = "resolved"]
        /\ UNCHANGED <<outbox, myBase>>

LEMMA ResolveIs ==
  ASSUME TypeOK, CallsSound, NEW r \in calls, Resolve(r)
  PROVE  \E o \in Ops : Resolves(r, o)
<1> DEFINE o == Min(r.ops)
<1>1. o \in r.ops /\ o \in Ops
  <2>1. r.ops \subseteq Nat /\ r.ops # {} /\ r.ops \subseteq Ops
    BY SystemAssumption DEF Resolve, TypeOK, Messages, CallsSound, CallSound
  <2> QED
    BY <2>1, MinOfNat
<1> HIDE DEF o
<1>2. r.kind \in {"rebase", "discard"} /\ r.late \in BOOLEAN
  BY DEF Resolve, TypeOK, Messages
<1>3. CASE r.kind = "rebase"
  BY <1>1, <1>2, <1>3 DEF Resolve, Resolves, o
<1>4. CASE r.kind = "discard"
  BY <1>1, <1>2, <1>4 DEF Resolve, Resolves, o
<1> QED
  BY <1>2, <1>3, <1>4

\* What pull takes a cursor to: where it was, or a row that is committed.
LEMMA NextIdIs ==
  ASSUME TypeOK, NEW d \in Devices
  PROVE  \/ NextId(d) = cursor[d]
         \/ \E o \in Deliverable(d) : NextId(d) = rowId[o]
<1> DEFINE S == {rowId[o] : o \in Deliverable(d)}
<1>1. S \subseteq 0..MaxRows
  <2>1. \A o \in Deliverable(d) : rowId[o] \in 0..MaxRows
    BY DEF Deliverable, TypeOK, ServerTypeOK
  <2> QED
    BY <2>1
<1>2. CASE Deliverable(d) = {}
  BY <1>2 DEF NextId
<1>3. CASE Deliverable(d) # {}
  <2>1. S # {}
    BY <1>3
  <2> HIDE DEF S
  <2>2. Max(S) \in S
    BY <1>1, <2>1, MaxOfInterval, SystemAssumption
  <2>3. NextId(d) = Max(S)
    BY <1>3 DEF NextId, S
  <2> QED
    BY <2>2, <2>3 DEF S
<1> QED
  BY <1>2, <1>3

LEMMA ServerTypes ==
  ASSUME TypeOK, CallsSound, NEW r \in calls, ServerStep(r)
  PROVE  TypeOK'
<1> USE SystemAssumption
<1>0. /\ r \in Messages /\ r.dev \in Devices /\ r.ops \subseteq Ops /\ r.done \in Replies
      /\ DOMAIN r.done \subseteq r.ops /\ \A o \in DOMAIN r.done : r.done[o] \in Results
  BY ReplyIs DEF TypeOK, Messages, CallsSound, CallSound
<1>1. ASSUME Lose(r) PROVE TypeOK'
  <2>1. calls' \subseteq Messages /\ pass' \in [Devices -> Passes]
    BY <1>1, AnswerTypeOK, NothingIsReply DEF Lose
  <2>2. ServerTypeOK'
    BY <1>1 DEF Lose, TypeOK, ServerTypeOK
  <2>3. StoreTypeOK'
    BY <1>1 DEF Lose, TypeOK, StoreTypeOK, store
  <2> QED
    BY <2>1, <2>2, <2>3 DEF TypeOK
<1>2. ASSUME PushFlush(r) PROVE TypeOK'
  <2> DEFINE new == {o \in r.ops : status[o] = "absent"}
             verdict(o) == IF o \notin new THEN status[o]
                           ELSE IF myBase[o] = ver[OpEntity[o]] THEN "pending" ELSE "conflict"
             f == [o \in r.ops |-> verdict(o)]
  <2>1. /\ new \in SUBSET Ops /\ Cardinality(new) \in Nat
        /\ \A o \in new : Cardinality({p \in new : p <= o}) \in 1..Cardinality(new)
    BY <1>0, CountsOfOps
  <2>2. f \in Replies
    <3>1. \A o \in r.ops : verdict(o) \in Results
      BY <1>0 DEF TypeOK, ServerTypeOK, Statuses, Results
    <3> QED
      BY <1>0, <3>1, IsReply
  <2> HIDE DEF f
  <2>3. calls' \subseteq Messages
    BY <1>2, <2>2, DoneTypeOK DEF PushFlush, TypeOK, f
  <2>4. lastId + Cardinality(new) \in 0..MaxRows
    BY <1>2, <2>1 DEF PushFlush, TypeOK, ServerTypeOK
  <2> HIDE DEF new
  <2>5. ServerTypeOK'
    <3>1. \A o \in new : lastId + Cardinality({p \in new : p <= o}) \in 0..MaxRows
      BY <2>1, <2>4 DEF TypeOK, ServerTypeOK
    <3>2. rowId' \in [Ops -> 0..MaxRows] /\ lastId' \in 0..MaxRows
      BY <1>2, <2>4, <3>1 DEF PushFlush, TypeOK, ServerTypeOK, new
    <3>3. base' \in [Ops -> Nat] /\ rowVersion' \in [Ops -> Nat]
      BY <1>2 DEF PushFlush, TypeOK, ServerTypeOK, StoreTypeOK
    <3> QED
      BY <1>2, <3>2, <3>3 DEF PushFlush, TypeOK, ServerTypeOK
  <2>6. StoreTypeOK' /\ pass' = pass
    BY <1>2 DEF PushFlush, TypeOK, StoreTypeOK, store
  <2> QED
    BY <2>3, <2>5, <2>6 DEF TypeOK
<1>3. ASSUME PushCommit(r) PROVE TypeOK'
  <2>1. calls' \subseteq Messages /\ pass' \in [Devices -> Passes]
    BY <1>0, <1>3, AnswerTypeOK DEF PushCommit
  <2>2. ServerTypeOK'
    <3>1. \A o \in DOMAIN r.done : r.done[o] \in Statuses
      BY <1>3 DEF PushCommit, CallsSound, CallSound, Statuses
    <3> QED
      BY <1>3, <3>1 DEF PushCommit, TypeOK, ServerTypeOK
  <2>3. StoreTypeOK'
    BY <1>3 DEF PushCommit, TypeOK, StoreTypeOK, store
  <2> QED
    BY <2>1, <2>2, <2>3 DEF TypeOK
<1>4. ASSUME ApplyNext(r) PROVE TypeOK'
  <2>1. PICK o \in Ops, result \in {"applied", "created", "failed", "conflict"} :
          AppliesNext(r, o, result)
    BY <1>4, ApplyNextIs
  <2>2. OpEntity[o] \in Entities /\ ver[OpEntity[o]] \in Nat /\ result \in Results
    BY DEF TypeOK, ServerTypeOK, Results, Statuses
  <2>3. status' \in [Ops -> Statuses]
    BY <2>1 DEF AppliesNext, TypeOK, ServerTypeOK, Statuses
  <2>4. ver' \in [Entities -> Nat]
    BY <2>1, <2>2 DEF AppliesNext, TypeOK, ServerTypeOK
  <2>5. rowVersion' \in [Ops -> Nat]
    BY <2>1, <2>2 DEF AppliesNext, TypeOK, ServerTypeOK
  <2>6. known' \subseteq Entities
    BY <2>1, <2>2 DEF AppliesNext, TypeOK, ServerTypeOK
  <2>7. ServerTypeOK'
    BY <2>1, <2>3, <2>4, <2>5, <2>6 DEF AppliesNext, TypeOK, ServerTypeOK
  <2>8. StoreTypeOK' /\ pass' = pass
    BY <2>1 DEF AppliesNext, TypeOK, StoreTypeOK, store
  <2>9. calls' \subseteq Messages
    <3>1. WithResult(r, o, result) \in Messages
      BY <2>2, WithResultTypeOK
    <3>2. calls' = (calls \ {r}) \cup {WithResult(r, o, result)} /\ calls \subseteq Messages
      BY <2>1 DEF AppliesNext, TypeOK
    <3> QED
      BY <3>1, <3>2
  <2> QED
    BY <2>7, <2>8, <2>9 DEF TypeOK
<1>5. ASSUME ApplyAnswer(r) PROVE TypeOK'
  <2>1. calls' \subseteq Messages /\ pass' \in [Devices -> Passes]
    BY <1>0, <1>5, AnswerTypeOK DEF ApplyAnswer
  <2>2. ServerTypeOK'
    BY <1>5 DEF ApplyAnswer, TypeOK, ServerTypeOK, server
  <2>3. StoreTypeOK'
    BY <1>5 DEF ApplyAnswer, TypeOK, StoreTypeOK, store
  <2> QED
    BY <2>1, <2>2, <2>3 DEF TypeOK
<1>6. ASSUME Pull(r) PROVE TypeOK'
  <2>1. NextId(r.dev) \in 0..MaxRows
    <3>1. cursor[r.dev] \in 0..MaxRows /\ \A o \in Ops : rowId[o] \in 0..MaxRows
      BY <1>0 DEF TypeOK, ServerTypeOK, StoreTypeOK
    <3>2. Deliverable(r.dev) \subseteq Ops
      BY DEF Deliverable
    <3> QED
      BY <1>0, <3>1, <3>2, NextIdIs
  <2>2. [at |-> "inbox", items |-> Nothing, ops |-> {}] \in Passes
    BY NothingIsReply DEF Passes
  <2>3. calls' \subseteq Messages /\ pass' \in [Devices -> Passes]
    BY <1>0, <1>6, <2>2 DEF Pull, TypeOK
  <2>4. ServerTypeOK'
    BY <1>6 DEF Pull, TypeOK, ServerTypeOK, server
  <2>5. StoreTypeOK'
    BY <1>0, <1>6, <2>1 DEF Pull, TypeOK, ServerTypeOK, StoreTypeOK
  <2> QED
    BY <2>3, <2>4, <2>5 DEF TypeOK
<1>7. ASSUME Acknowledge(r) PROVE TypeOK'
  <2>1. calls' \subseteq Messages /\ pass' \in [Devices -> Passes]
    BY <1>7, AnswerTypeOK, NothingIsReply DEF Acknowledge
  <2>2. ServerTypeOK'
    BY <1>0, <1>7 DEF Acknowledge, TypeOK, ServerTypeOK
  <2>3. StoreTypeOK'
    BY <1>7 DEF Acknowledge, TypeOK, StoreTypeOK, store
  <2> QED
    BY <2>1, <2>2, <2>3 DEF TypeOK
<1>8. ASSUME Resolve(r) PROVE TypeOK'
  <2>1. PICK o \in Ops : Resolves(r, o)
    BY <1>8, ResolveIs
  <2>2. calls' \subseteq Messages /\ pass' \in [Devices -> Passes]
    BY <2>1, AnswerTypeOK, NothingIsReply DEF Resolves
  <2>3. ver[OpEntity[o]] \in Nat
    BY DEF TypeOK, ServerTypeOK
  <2>4. ServerTypeOK'
    BY <2>1, <2>3 DEF Resolves, TypeOK, ServerTypeOK, Statuses
  <2>5. StoreTypeOK'
    BY <2>1, <2>3 DEF Resolves, TypeOK, StoreTypeOK, OutboxStatuses
  <2> QED
    BY <2>2, <2>4, <2>5 DEF TypeOK
<1> QED
  BY <1>1, <1>2, <1>3, <1>4, <1>5, <1>6, <1>7, <1>8 DEF ServerStep

LEMMA UserTypes ==
  ASSUME TypeOK, NEW o \in Ops, UserStep(o)
  PROVE  TypeOK'
<1> USE SystemAssumption
<1>1. ASSUME Enqueue(o) PROVE TypeOK'
  <2>1. myBase' \in [Ops -> Nat] /\ outbox' \in [Ops -> OutboxStatuses]
    BY <1>1 DEF Enqueue, TypeOK, ServerTypeOK, StoreTypeOK, OutboxStatuses
  <2>2. ServerTypeOK' /\ calls' = calls /\ pass' = pass
    BY <1>1 DEF Enqueue, TypeOK, ServerTypeOK, server
  <2> QED
    BY <1>1, <2>1, <2>2 DEF Enqueue, TypeOK, StoreTypeOK
<1>2. ASSUME NEW choice \in {"retry", "discard"}, ResolveLocally(o, choice) PROVE TypeOK'
  <2>1. conflicts' \in [Ops -> {"none", "open", "resolved"}] /\ outbox' \in [Ops -> OutboxStatuses]
    BY <1>2 DEF ResolveLocally, TypeOK, StoreTypeOK, OutboxStatuses
  <2>2. ServerTypeOK' /\ calls' = calls /\ pass' = pass
    BY <1>2 DEF ResolveLocally, TypeOK, ServerTypeOK, server
  <2> QED
    BY <1>2, <2>1, <2>2 DEF ResolveLocally, TypeOK, StoreTypeOK
<1>3. ASSUME NEW choice \in {"rebase", "discard"}, AskResolution(OpDevice[o], o, choice)
      PROVE  TypeOK'
  <2>1. calls' \subseteq Messages /\ pass' \in [Devices -> Passes]
    <3>1. {o} \in SUBSET Ops /\ OpDevice[o] \in Devices /\ choice \in Kinds
      BY DEF Kinds
    <3> QED
      BY <1>3, <3>1, SendTypeOK DEF AskResolution
  <2>2. ServerTypeOK' /\ StoreTypeOK'
    BY <1>3 DEF AskResolution, TypeOK, ServerTypeOK, StoreTypeOK, server, store
  <2> QED
    BY <2>1, <2>2 DEF TypeOK
<1> QED
  BY <1>1, <1>2, <1>3 DEF UserStep

\* The first item a pass still has to handle, and the items after it.
LEMMA FirstOfItems ==
  ASSUME TypeOK, NEW d \in Devices, DOMAIN pass[d].items # {}
  PROVE  /\ First(d) \in DOMAIN pass[d].items /\ First(d) \in Ops
         /\ Rest(d) \in Replies
         /\ DOMAIN Rest(d) = DOMAIN pass[d].items \ {First(d)}
         /\ \A o \in DOMAIN Rest(d) : Rest(d)[o] = pass[d].items[o]
<1>1. /\ pass[d].items \in Replies /\ DOMAIN pass[d].items \subseteq Ops
      /\ \A o \in DOMAIN pass[d].items : pass[d].items[o] \in Results
  BY ReplyIs DEF TypeOK, Passes
<1>2. First(d) \in DOMAIN pass[d].items /\ First(d) \in Ops
  <2>1. DOMAIN pass[d].items \subseteq Nat
    BY <1>1, SystemAssumption
  <2> QED
    BY <1>1, <2>1, MinOfNat DEF First
<1>3. Rest(d) \in [DOMAIN pass[d].items \ {First(d)} -> Results]
  BY <1>1 DEF Rest
<1>4. DOMAIN pass[d].items \ {First(d)} \in SUBSET Ops
  BY <1>1
<1>5. Rest(d) \in Replies
  BY <1>3, <1>4, IsReply
<1> QED
  BY <1>2, <1>3, <1>5 DEF Rest

\* The received operation with the least id.
LEMMA Next1Is ==
  ASSUME TypeOK, NEW d \in Devices, Received(d) # {}
  PROVE  /\ Next1(d) \in Received(d) /\ Next1(d) \in Ops
         /\ \A p \in Received(d) : rowId[Next1(d)] <= rowId[p]
<1> DEFINE S == {rowId[o] : o \in Received(d)}
<1>1. \A o \in Received(d) : o \in Ops /\ rowId[o] \in Nat
  BY DEF Received, TypeOK, ServerTypeOK
<1>2. S \subseteq Nat /\ S # {}
  BY <1>1
<1> HIDE DEF S
<1>3. PICK n \in S : \A m \in S : n <= m
  BY <1>2, LeastOfNat
<1>4. \E o \in Received(d) : \A p \in Received(d) : rowId[o] <= rowId[p]
  BY <1>3 DEF S
<1>5. Next1(d) \in Received(d) /\ \A p \in Received(d) : rowId[Next1(d)] <= rowId[p]
  BY <1>4 DEF Next1
<1> QED
  BY <1>1, <1>5

\* Marking an item in the outbox.
LEMMA MarkTypeOK ==
  ASSUME StoreTypeOK, NEW o \in Ops, NEW result \in OutboxStatuses, Mark(o, result)
  PROVE  StoreTypeOK'
<1>1. conflicts' \in [Ops -> {"none", "open", "resolved"}]
  BY DEF Mark, ListedConflict, StoreTypeOK
<1>2. outbox' \in [Ops -> OutboxStatuses]
  BY DEF Mark, StoreTypeOK
<1> QED
  BY <1>1, <1>2 DEF Mark, StoreTypeOK

LEMMA UnchangedServerTypeOK == ServerTypeOK /\ UNCHANGED server => ServerTypeOK'
BY DEF ServerTypeOK, server

LEMMA UnchangedStoreTypeOK == StoreTypeOK /\ UNCHANGED store => StoreTypeOK'
BY DEF StoreTypeOK, store

LEMMA PassTypes ==
  ASSUME TypeOK, PassesSound, InboxesSound, NEW d \in Devices, PassStep(d)
  PROVE  TypeOK'
<1> USE SystemAssumption
<1> USE UnchangedServerTypeOK, UnchangedStoreTypeOK
<1>0. /\ pass[d] \in Passes /\ pass[d].ops \in SUBSET Ops
      /\ ServerTypeOK /\ StoreTypeOK /\ calls \subseteq Messages
  BY DEF TypeOK, Passes
<1>1. ASSUME StartPass(d) PROVE TypeOK'
  <2>1. Waiting(d) \in SUBSET Ops
    BY DEF Waiting, OfDevice
  <2>2. calls' \subseteq Messages /\ pass' \in [Devices -> Passes]
    BY <1>1, <2>1, SendTypeOK DEF StartPass, Kinds
  <2> QED
    BY <1>0, <1>1, <2>2 DEF StartPass, TypeOK
<1>2. ASSUME TakeVerdict(d) PROVE TypeOK'
  <2> DEFINE p == [pass[d] EXCEPT !.items = Rest(d),
                                  !.ops = IF pass[d].items[First(d)] \in {"pending", "applied"}
                                          THEN @ ELSE @ \ {First(d)}]
  <2>1. First(d) \in DOMAIN pass[d].items /\ First(d) \in Ops /\ Rest(d) \in Replies
    BY <1>2, FirstOfItems DEF TakeVerdict
  <2>2. pass[d].items[First(d)] \in {"pending", "applied", "conflict", "failed"}
    BY <1>2, <2>1 DEF TakeVerdict, PassesSound, PassSound
  <2>3. StoreTypeOK'
    BY <1>0, <1>2, <2>1, <2>2, MarkTypeOK DEF TakeVerdict, OutboxStatuses
  <2>4. p \in Passes
    BY <1>0, <2>1 DEF Passes
  <2>5. pass' = [pass EXCEPT ![d] = p]
    BY <1>2 DEF TakeVerdict, TypeOK
  <2>6. pass' \in [Devices -> Passes]
    BY <2>4, <2>5, PassTypeOK
  <2> QED
    BY <1>0, <1>2, <2>3, <2>6 DEF TakeVerdict, TypeOK
<1>3. ASSUME AskApply(d) PROVE TypeOK'
  <2>1. calls' \subseteq Messages /\ pass' \in [Devices -> Passes]
    BY <1>0, <1>3, SendTypeOK DEF AskApply, Kinds
  <2> QED
    BY <1>0, <1>3, <2>1 DEF AskApply, TypeOK
<1>4. ASSUME TakeResult(d) PROVE TypeOK'
  <2> DEFINE p == IF pass[d].items[First(d)] = "created" THEN [pass[d] EXCEPT !.at = "identity"]
                  ELSE [pass[d] EXCEPT !.items = Rest(d)]
  <2>1. First(d) \in DOMAIN pass[d].items /\ First(d) \in Ops /\ Rest(d) \in Replies
    BY <1>4, FirstOfItems DEF TakeResult
  <2>2. pass[d].items[First(d)] \in {"applied", "created", "conflict", "failed"}
    BY <1>4, <2>1 DEF TakeResult, PassesSound, PassSound
  <2>3. Outcome(pass[d].items[First(d)]) \in OutboxStatuses
    BY <2>2 DEF Outcome, OutboxStatuses
  <2>4. StoreTypeOK'
    BY <1>0, <1>4, <2>1, <2>3, MarkTypeOK DEF TakeResult
  <2>5. p \in Passes
    BY <1>0, <2>1 DEF Passes
  <2>6. pass' = [pass EXCEPT ![d] = p]
    BY <1>4 DEF TakeResult, TypeOK
  <2>7. pass' \in [Devices -> Passes]
    BY <2>5, <2>6, PassTypeOK
  <2> QED
    BY <1>0, <1>4, <2>4, <2>7 DEF TakeResult, TypeOK
<1>5. ASSUME RememberIdentity(d) PROVE TypeOK'
  <2> DEFINE p == [pass[d] EXCEPT !.at = "results", !.items = Rest(d)]
  <2>1. First(d) \in Ops /\ Rest(d) \in Replies
    BY <1>5, FirstOfItems DEF RememberIdentity, PassesSound, PassSound
  <2>2. StoreTypeOK'
    BY <1>0, <1>5, <2>1 DEF RememberIdentity, StoreTypeOK
  <2>3. p \in Passes
    BY <1>0, <2>1 DEF Passes
  <2>4. pass' = [pass EXCEPT ![d] = p]
    BY <1>5 DEF RememberIdentity, TypeOK
  <2>5. pass' \in [Devices -> Passes]
    BY <2>3, <2>4, PassTypeOK
  <2> QED
    BY <1>0, <1>5, <2>2, <2>5 DEF RememberIdentity, TypeOK
<1>6. ASSUME AskPull(d) PROVE TypeOK'
  <2>1. calls' \subseteq Messages /\ pass' \in [Devices -> Passes]
    BY <1>6, SendTypeOK DEF AskPull, Kinds
  <2> QED
    BY <1>0, <1>6, <2>1 DEF AskPull, TypeOK
<1>7. ASSUME Merge(d) PROVE TypeOK'
  <2> DEFINE p == [pass[d] EXCEPT !.at = "merged"]
  <2>1. Next1(d) \in Ops
    BY <1>7, Next1Is DEF Merge
  <2>2. StoreTypeOK'
    BY <1>0, <1>7, <2>1 DEF Merge, StoreTypeOK, KeyOf, Keys
  <2>3. p \in Passes
    BY <1>0 DEF Passes
  <2>4. pass' = [pass EXCEPT ![d] = p]
    BY <1>7 DEF Merge, TypeOK
  <2>5. pass' \in [Devices -> Passes]
    BY <2>3, <2>4, PassTypeOK
  <2> QED
    BY <1>0, <1>7, <2>2, <2>5 DEF Merge, TypeOK
<1>8. ASSUME MarkMerged(d) PROVE TypeOK'
  <2> DEFINE p == [pass[d] EXCEPT !.at = "inbox", !.ops = @ \cup {Next1(d)}]
  <2>1. Next1(d) \in Ops
    BY <1>8, Next1Is DEF MarkMerged, InboxesSound, InboxSound
  <2>2. StoreTypeOK'
    BY <1>0, <1>8, <2>1 DEF MarkMerged, StoreTypeOK
  <2>3. p \in Passes
    BY <1>0, <2>1 DEF Passes
  <2>4. pass' = [pass EXCEPT ![d] = p]
    BY <1>8 DEF MarkMerged, TypeOK
  <2>5. pass' \in [Devices -> Passes]
    BY <2>3, <2>4, PassTypeOK
  <2> QED
    BY <1>0, <1>8, <2>2, <2>5 DEF MarkMerged, TypeOK
<1>9. ASSUME EndInbox(d) PROVE TypeOK'
  <2>1. IdlePass \in Passes
    BY NothingIsReply DEF IdlePass, Passes
  <2>2. calls' \subseteq Messages /\ pass' \in [Devices -> Passes]
    BY <1>0, <1>9, <2>1, SendTypeOK, PassTypeOK DEF EndInbox, Kinds
  <2> QED
    BY <1>0, <1>9, <2>2 DEF EndInbox, TypeOK
<1>10. ASSUME GiveUp(d) PROVE TypeOK'
  <2>1. IdlePass \in Passes
    BY NothingIsReply DEF IdlePass, Passes
  <2>2. \A r \in calls : [r EXCEPT !.late = TRUE] \in Messages
    BY <1>0 DEF Messages
  <2>3. calls' \subseteq Messages /\ pass' \in [Devices -> Passes]
    BY <1>0, <1>10, <2>1, <2>2, PassTypeOK DEF GiveUp
  <2> QED
    BY <1>0, <1>10, <2>3 DEF GiveUp, TypeOK
<1> QED
  BY <1>1, <1>2, <1>3, <1>4, <1>5, <1>6, <1>7, <1>8, <1>9, <1>10 DEF PassStep

LEMMA NextTypeOK ==
  ASSUME TypeOK, CallsSound, PassesSound, InboxesSound, [Next]_vars
  PROVE  TypeOK'
<1>1. CASE UNCHANGED vars
  BY <1>1, UnchangedServerTypeOK, UnchangedStoreTypeOK DEF TypeOK, vars
<1> QED
  BY <1>1, ServerTypes, PassTypes, UserTypes DEF Next

---------------------------------------------------------------------------------
(* What is never undone                                                            *)

Untouched == UNCHANGED <<status, rowId, inbox, seen>>

LEMMA UntouchedGrows == Untouched => Grows
BY DEF Untouched, Grows

LEMMA ServerGrows ==
  ASSUME TypeOK, CallsSound, NEW r \in calls, ServerStep(r)
  PROVE  Grows
<1>0. ServerTypeOK /\ StoreTypeOK /\ r \in Messages
  BY DEF TypeOK
<1>1. ASSUME Lose(r) PROVE Grows
  BY <1>0, <1>1 DEF Lose, store, Grows, ServerTypeOK
<1>2. ASSUME PushFlush(r) PROVE Grows
  <2>1. \A o \in Ops : status[o] # "absent" => rowId'[o] = rowId[o]
    BY <1>2 DEF PushFlush
  <2> QED
    BY <1>2, <2>1 DEF PushFlush, store, Grows
<1>3. ASSUME PushCommit(r) PROVE Grows
  BY <1>0, <1>3 DEF PushCommit, store, Grows, ServerTypeOK
<1>4. ASSUME ApplyNext(r) PROVE Grows
  <2>1. PICK o \in Ops, result \in {"applied", "created", "failed", "conflict"} :
          AppliesNext(r, o, result)
    BY <1>4, ApplyNextIs
  <2> QED
    BY <1>0, <2>1 DEF AppliesNext, store, Grows, ServerTypeOK
<1>5. ASSUME ApplyAnswer(r) PROVE Untouched
  BY <1>5 DEF ApplyAnswer, server, store, Untouched
<1>6. ASSUME Pull(r) PROVE Grows
  <2>1. r.dev \in Devices
    BY <1>0 DEF Messages
  <2>2. \A o \in Ops : inbox[r.dev][o] # "none" =>
                         inbox'[r.dev][o] = inbox[r.dev][o] /\ seen'[r.dev][o] = seen[r.dev][o]
    BY <1>0, <1>6, <2>1 DEF Pull, StoreTypeOK
  <2>3. \A d \in Devices : d # r.dev => inbox'[d] = inbox[d] /\ seen'[d] = seen[d]
    BY <1>0, <1>6 DEF Pull, StoreTypeOK
  <2> QED
    BY <1>6, <2>2, <2>3 DEF Pull, server, Grows
<1>7. ASSUME Acknowledge(r) PROVE Untouched
  BY <1>7 DEF Acknowledge, store, Untouched
<1>8. ASSUME Resolve(r) PROVE Grows
  <2>1. PICK o \in Ops : Resolves(r, o)
    BY <1>8, ResolveIs
  <2> QED
    BY <1>0, <2>1 DEF Resolves, Grows, ServerTypeOK
<1> QED
  BY <1>1, <1>2, <1>3, <1>4, <1>5, <1>6, <1>7, <1>8, UntouchedGrows DEF ServerStep

LEMMA NextGrows ==
  ASSUME TypeOK, CallsSound, [Next]_vars
  PROVE  Grows
<1>1. ASSUME NEW d \in Devices, PassStep(d) PROVE Grows
  <2>1. ASSUME MarkMerged(d) PROVE Grows
    BY <2>1 DEF MarkMerged, server, Grows, TypeOK, StoreTypeOK
  <2>2. ASSUME ~MarkMerged(d) PROVE Untouched
    BY <1>1, <2>2
    DEF PassStep, StartPass, TakeVerdict, AskApply, TakeResult, RememberIdentity, AskPull,
        Merge, EndInbox, GiveUp, Mark, server, store, Untouched
  <2> QED
    BY <2>1, <2>2, UntouchedGrows
<1>2. ASSUME NEW o \in Ops, UserStep(o) PROVE Untouched
  BY <1>2 DEF UserStep, Enqueue, ResolveLocally, AskResolution, server, store, Untouched
<1>3. CASE UNCHANGED vars
  BY <1>3, UntouchedGrows DEF vars, server, store, Untouched
<1> QED
  BY <1>1, <1>2, <1>3, ServerGrows, UntouchedGrows DEF Next

---------------------------------------------------------------------------------
(* Calls                                                                           *)

KeepsIds == \A o \in Ops : rowId[o] # 0 => rowId'[o] # 0

\* A call that a step leaves alone stays true.
LEMMA CallStaysSound ==
  ASSUME NEW r \in Messages, CallSound(r), Grows,
         r.kind = "push" => \A o \in DOMAIN r.done : rowId[o] # 0 => rowId'[o] # 0
  PROVE  CallSound(r)'
<1>1. DOMAIN r.done \subseteq Ops /\ r.ops \subseteq Ops /\ r.dev \in Devices
  BY ReplyIs DEF Messages
<1> QED
  BY <1>1 DEF CallSound, Grows

LEMMA CallsStaySound ==
  ASSUME TypeOK, CallsSound, Grows, KeepsIds, NEW r \in calls
  PROVE  CallSound(r)'
<1>1. r \in Messages /\ DOMAIN r.done \subseteq Ops
  BY ReplyIs DEF TypeOK, Messages
<1> QED
  BY <1>1, CallStaysSound DEF CallsSound, KeepsIds

LEMMA LateCallSound ==
  ASSUME TypeOK, CallsSound, Grows, KeepsIds, NEW r \in calls
  PROVE  CallSound([r EXCEPT !.late = TRUE])'
<1>1. CallSound(r)' /\ r \in Messages
  BY CallsStaySound DEF TypeOK
<1> QED
  BY <1>1 DEF CallSound, Messages

LEMMA SendSound ==
  ASSUME TypeOK, CallsSound, Grows, KeepsIds,
         NEW d \in Devices, NEW kind \in Kinds, NEW ops \in SUBSET Ops, Send(d, kind, ops),
         kind \in {"rebase", "discard"} => ops # {},
         kind = "rebase" => Rebases,
         kind = "ack" => \A o \in ops : inbox'[d][o] = "applied"
  PROVE  CallsSound'
<1>1. CallSound(Request(d, kind, ops))'
  BY NothingIsReply DEF CallSound, Request
<1> QED
  BY <1>1, CallsStaySound DEF Send, CallsSound

LEMMA ServerCallsSound ==
  ASSUME TypeOK, CallsSound, JournalSound, NEW r \in calls, ServerStep(r)
  PROVE  CallsSound'
<1> USE SystemAssumption
<1>0. /\ Grows /\ ServerTypeOK
      /\ r \in Messages /\ r.ops \subseteq Ops /\ r.done \in Replies /\ CallSound(r)
      /\ DOMAIN r.done \subseteq Ops
  BY ServerGrows, ReplyIs DEF TypeOK, Messages, CallsSound
<1>1. ASSUME Lose(r) PROVE CallsSound'
  <2>1. ASSUME NEW q \in calls' PROVE CallSound(q)'
    <3>1. q \in calls /\ q # r /\ q \in Messages /\ CallSound(q)
      BY <1>1, <2>1 DEF Lose, Answer, TypeOK, CallsSound
    <3>2. DOMAIN q.done \subseteq Ops
      BY <3>1, ReplyIs DEF Messages
    <3>3. ASSUME q.kind = "push", NEW o \in DOMAIN q.done, rowId[o] # 0 PROVE rowId'[o] # 0
      <4>1. CASE r.kind = "push" /\ o \in DOMAIN r.done /\ status[o] = "absent"
        <5>1. q \in Flushed /\ r \in Flushed
          BY <3>1, <3>3, <4>1 DEF Flushed
        <5> QED
          BY <3>1, <3>3, <4>1, <5>1 DEF JournalSound, OneHolder
      <4>2. CASE ~(r.kind = "push" /\ o \in DOMAIN r.done /\ status[o] = "absent")
        BY <1>1, <3>2, <3>3, <4>2 DEF Lose
      <4> QED
        BY <4>1, <4>2
    <3> QED
      BY <1>0, <3>1, <3>3, CallStaysSound
  <2> QED
    BY <2>1 DEF CallsSound
<1>2. ASSUME PushFlush(r) PROVE CallsSound'
  <2> DEFINE new == {o \in r.ops : status[o] = "absent"}
             verdict(o) == IF o \notin new THEN status[o]
                           ELSE IF myBase[o] = ver[OpEntity[o]] THEN "pending" ELSE "conflict"
  <2>1. \A o \in new : rowId'[o] # 0
    <3>1. \A o \in new : Cardinality({p \in new : p <= o}) \in Nat \ {0}
      <4>1. new \in SUBSET Ops
        BY <1>0
      <4> HIDE DEF new
      <4>2. Cardinality(new) \in Nat
            /\ \A o \in new : Cardinality({p \in new : p <= o}) \in 1..Cardinality(new)
        BY <4>1, CountsOfOps
      <4> QED
        BY <4>2
    <3>2. \A o \in new : rowId'[o] = lastId + Cardinality({p \in new : p <= o})
      BY <1>0, <1>2 DEF PushFlush
    <3>3. \A n \in Nat \ {0} : lastId + n # 0
      BY <1>0 DEF ServerTypeOK
    <3> HIDE DEF new
    <3> QED
      BY <3>1, <3>2, <3>3
  <2>2. KeepsIds
    BY <1>2, <2>1 DEF PushFlush, KeepsIds
  <2>0. PICK q : q = [r EXCEPT !.done = [o \in r.ops |-> verdict(o)]]
    OBVIOUS
  <2>3. q.kind = "push" /\ q.ops = r.ops /\ q.done = [o \in r.ops |-> verdict(o)]
    BY <1>0, <1>2, <2>0 DEF PushFlush, Messages
  <2>4. \A o \in r.ops : /\ verdict(o) \in {"pending", "applied", "conflict", "failed"}
                         /\ status[o] = "absent" => verdict(o) \in {"pending", "conflict"}
    BY <1>0 DEF ServerTypeOK, Statuses
  <2>5. status' = status
    BY <1>2 DEF PushFlush
  <2>6. CallSound(q)'
    <3> HIDE DEF verdict
    <3>1. DOMAIN q.done = r.ops
      BY <2>3
    <3>2. \A o \in r.ops : q.done[o] = verdict(o)
      BY <2>3
    <3> QED
      BY <2>1, <2>3, <2>4, <2>5, <3>1, <3>2 DEF CallSound
  <2>7. calls' = (calls \ {r}) \cup {q}
    BY <1>2, <2>0 DEF PushFlush
  <2> QED
    BY <1>0, <2>2, <2>6, <2>7, CallsStaySound DEF CallsSound
<1>4. ASSUME ApplyNext(r) PROVE CallsSound'
  <2>1. PICK o \in Ops, result \in {"applied", "created", "failed", "conflict"} :
          AppliesNext(r, o, result)
    BY <1>4, ApplyNextIs
  <2>0. PICK q : q = WithResult(r, o, result)
    OBVIOUS
  <2>2. q.kind = "apply" /\ q.ops = r.ops
    BY <1>0, <2>0, <2>1 DEF AppliesNext, WithResult, Messages
  <2>3. q.done = [p \in DOMAIN r.done \cup {o} |-> IF p = o THEN result ELSE r.done[p]]
    <3>1. result \in Results
      BY DEF Results, Statuses
    <3> QED
      BY <2>0, <3>1, WithResultTypeOK
  <2>4. CallSound(r)' /\ KeepsIds
    BY <1>0, <2>1, CallsStaySound DEF AppliesNext, KeepsIds
  <2>5. result \in {"applied", "created"} => status'[o] = "applied"
    BY <1>0, <2>1 DEF AppliesNext, ServerTypeOK
  <2>6. CallSound(q)'
    BY <2>1, <2>2, <2>3, <2>4, <2>5 DEF CallSound, AppliesNext
  <2>7. calls' = (calls \ {r}) \cup {q}
    BY <2>0, <2>1 DEF AppliesNext
  <2> QED
    BY <1>0, <2>4, <2>6, <2>7, CallsStaySound DEF CallsSound
<1>5. ASSUME PushCommit(r) \/ ApplyAnswer(r) \/ Pull(r) \/ Acknowledge(r) \/ Resolve(r)
      PROVE  CallsSound'
  <2>1. calls' = calls \ {r} /\ rowId' = rowId
    BY <1>5 DEF PushCommit, ApplyAnswer, Pull, Acknowledge, Resolve, Answer, server
  <2> QED
    BY <1>0, <2>1, CallsStaySound DEF CallsSound, KeepsIds
<1> QED
  BY <1>1, <1>2, <1>4, <1>5 DEF ServerStep

LEMMA NextCallsSound ==
  ASSUME TypeOK, CallsSound, PassesSound, JournalSound, [Next]_vars
  PROVE  CallsSound'
<1>0. Grows
  BY NextGrows
<1>1. ASSUME NEW d \in Devices, PassStep(d) PROVE CallsSound'
  <2>0. /\ KeepsIds /\ pass[d] \in Passes /\ pass[d].ops \in SUBSET Ops
        /\ Waiting(d) \in SUBSET Ops
    BY <1>1 DEF PassStep, StartPass, TakeVerdict, AskApply, TakeResult, RememberIdentity,
                AskPull, Merge, MarkMerged, EndInbox, GiveUp, server, KeepsIds,
                TypeOK, Passes, Waiting, OfDevice
  <2>1. ASSUME StartPass(d) PROVE CallsSound'
    BY <1>0, <2>0, <2>1, SendSound DEF StartPass, Kinds
  <2>2. ASSUME AskApply(d) PROVE CallsSound'
    BY <1>0, <2>0, <2>2, SendSound DEF AskApply, Kinds
  <2>3. ASSUME AskPull(d) PROVE CallsSound'
    BY <1>0, <2>0, <2>3, SendSound DEF AskPull, Kinds
  <2>4. ASSUME EndInbox(d), pass[d].ops # {} PROVE CallsSound'
    <3>1. \A o \in pass[d].ops : inbox'[d][o] = "applied"
      BY <2>4 DEF EndInbox, store, PassesSound, PassSound
    <3> QED
      BY <1>0, <2>0, <2>4, <3>1, SendSound DEF EndInbox, Kinds
  <2>5. ASSUME GiveUp(d) PROVE CallsSound'
    BY <1>0, <2>0, <2>5, CallsStaySound, LateCallSound DEF GiveUp, CallsSound
  <2>6. ASSUME UNCHANGED calls PROVE CallsSound'
    BY <1>0, <2>0, <2>6, CallsStaySound DEF CallsSound
  <2> QED
    BY <1>1, <2>1, <2>2, <2>3, <2>4, <2>5, <2>6
    DEF PassStep, TakeVerdict, TakeResult, RememberIdentity, Merge, MarkMerged, EndInbox
<1>2. ASSUME NEW o \in Ops, UserStep(o) PROVE CallsSound'
  <2>0. KeepsIds
    BY <1>2 DEF UserStep, Enqueue, ResolveLocally, AskResolution, server, KeepsIds
  <2>1. ASSUME NEW choice \in {"rebase", "discard"}, AskResolution(OpDevice[o], o, choice)
        PROVE  CallsSound'
    <3>1. {o} \in SUBSET Ops /\ {o} # {} /\ OpDevice[o] \in Devices /\ choice \in Kinds
      BY SystemAssumption DEF Kinds
    <3> QED
      BY <1>0, <2>0, <2>1, <3>1, SendSound DEF AskResolution
  <2>2. ASSUME UNCHANGED calls PROVE CallsSound'
    BY <1>0, <2>0, <2>2, CallsStaySound DEF CallsSound
  <2> QED
    BY <1>2, <2>1, <2>2 DEF UserStep, Enqueue, ResolveLocally
<1>3. CASE UNCHANGED vars
  BY <1>0, <1>3, CallsStaySound DEF CallsSound, KeepsIds, vars, server
<1> QED
  BY <1>1, <1>2, <1>3, ServerCallsSound DEF Next

---------------------------------------------------------------------------------
(* Passes                                                                          *)

LEMMA PassStaysSound ==
  ASSUME TypeOK, Grows, NEW d \in Devices, PassSound(d), pass'[d] = pass[d]
  PROVE  PassSound(d)'
<1>1. DOMAIN pass[d].items \subseteq Ops /\ pass[d].ops \subseteq Ops
  BY ReplyIs DEF TypeOK, Passes
<1> QED
  BY <1>1 DEF PassSound, Grows

\* An answer is for the pass of one station, if that waits, and leaves the others alone.
LEMMA AnswerIs ==
  ASSUME TypeOK, NEW r \in calls, NEW at, NEW items, Answer(r, at, items), NEW d \in Devices
  PROVE  \/ pass'[d] = pass[d]
         \/ d = r.dev /\ ~r.late /\ pass'[d].at = at /\ pass'[d].items = items
BY DEF TypeOK, Messages, Passes, Answer

LEMMA SendIs ==
  ASSUME TypeOK, NEW d \in Devices, NEW kind, NEW ops, Send(d, kind, ops), NEW c \in Devices
  PROVE  IF c = d THEN pass'[c].at = "call" ELSE pass'[c] = pass[c]
BY DEF TypeOK, Send

LEMMA ServerPassesSound ==
  ASSUME TypeOK, CallsSound, PassesSound, NEW r \in calls, ServerStep(r)
  PROVE  PassesSound'
<1>0. Grows /\ CallSound(r) /\ r \in Messages /\ DOMAIN r.done \subseteq Ops
  BY ServerGrows, ReplyIs DEF CallsSound, TypeOK, Messages
<1> SUFFICES ASSUME NEW d \in Devices PROVE PassSound(d)'
  BY DEF PassesSound
<1> SUFFICES ASSUME pass'[d] # pass[d] PROVE PassSound(d)'
  BY <1>0, PassStaysSound DEF PassesSound
<1>1. ASSUME Lose(r) \/ Acknowledge(r) \/ Resolve(r) PROVE PassSound(d)'
  <2>1. pass'[d].at = "idle"
    BY <1>1, AnswerIs DEF Lose, Acknowledge, Resolve
  <2> QED
    BY <2>1 DEF PassSound
<1>2. ASSUME PushCommit(r) PROVE PassSound(d)'
  <2>1. pass'[d].at = "verdicts" /\ pass'[d].items = r.done
    BY <1>2, AnswerIs DEF PushCommit
  <2> QED
    BY <1>0, <1>2, <2>1 DEF PassSound, CallSound, PushCommit
<1>3. ASSUME ApplyAnswer(r) PROVE PassSound(d)'
  <2>1. pass'[d].at = "results" /\ pass'[d].items = r.done /\ status' = status
    BY <1>3, AnswerIs DEF ApplyAnswer, server
  <2> QED
    BY <1>0, <1>3, <2>1 DEF PassSound, CallSound, ApplyAnswer
<1>4. ASSUME Pull(r) PROVE PassSound(d)'
  <2>1. pass'[d].at = "inbox" /\ pass'[d].ops = {}
    BY <1>4 DEF Pull, TypeOK
  <2> QED
    BY <2>1 DEF PassSound
<1>5. ASSUME PushFlush(r) \/ ApplyNext(r) PROVE FALSE
  BY <1>5 DEF PushFlush, ApplyNext
<1> QED
  BY <1>1, <1>2, <1>3, <1>4, <1>5 DEF ServerStep

LEMMA NextPassesSound ==
  ASSUME TypeOK, CallsSound, PassesSound, InboxesSound, [Next]_vars
  PROVE  PassesSound'
<1>0. Grows
  BY NextGrows
<1>1. ASSUME NEW d \in Devices, PassStep(d) PROVE PassesSound'
  <2>0. /\ \A c \in Devices : c # d => PassSound(c)'
        /\ PassSound(d) /\ pass[d] \in Passes /\ status' = status
    <3>1. \A c \in Devices : c # d => pass'[c] = pass[c]
      BY <1>1 DEF PassStep, StartPass, TakeVerdict, AskApply, TakeResult, RememberIdentity,
                  AskPull, Merge, MarkMerged, EndInbox, GiveUp, Send, TypeOK
    <3>2. status' = status
      BY <1>1 DEF PassStep, StartPass, TakeVerdict, AskApply, TakeResult, RememberIdentity,
                  AskPull, Merge, MarkMerged, EndInbox, GiveUp, server
    <3> QED
      BY <1>0, <3>1, <3>2, PassStaysSound DEF PassesSound, TypeOK
  <2> SUFFICES PassSound(d)'
    BY <2>0 DEF PassesSound
  <2>1. ASSUME pass'[d].at \in {"idle", "call"} PROVE PassSound(d)'
    BY <2>1 DEF PassSound
  <2>2. ASSUME TakeVerdict(d) PROVE PassSound(d)'
    <3>1. pass'[d].at = "verdicts" /\ pass'[d].items = Rest(d)
      BY <2>0, <2>2 DEF TakeVerdict, TypeOK, Passes
    <3>2. \A o \in DOMAIN Rest(d) : o \in DOMAIN pass[d].items /\ Rest(d)[o] = pass[d].items[o]
      BY <2>2, FirstOfItems DEF TakeVerdict
    <3>3. \A o \in DOMAIN pass[d].items :
            pass[d].items[o] \in {"pending", "applied", "conflict", "failed"}
      BY <2>0, <2>2 DEF PassSound, TakeVerdict
    <3> QED
      BY <3>1, <3>2, <3>3 DEF PassSound
  <2>3. ASSUME TakeResult(d) PROVE PassSound(d)'
    <3>1. \/ pass'[d].at = "identity" /\ pass'[d].items = pass[d].items
          \/ pass'[d].at = "results" /\ pass'[d].items = Rest(d)
      BY <2>0, <2>3 DEF TakeResult, TypeOK, Passes
    <3>2. \A o \in DOMAIN Rest(d) : o \in DOMAIN pass[d].items /\ Rest(d)[o] = pass[d].items[o]
      BY <2>3, FirstOfItems DEF TakeResult
    <3>3. /\ pass[d].at = "results" /\ DOMAIN pass[d].items # {}
          /\ \A o \in DOMAIN pass[d].items :
               /\ pass[d].items[o] \in {"applied", "created", "conflict", "failed"}
               /\ pass[d].items[o] \in {"applied", "created"} => status'[o] = "applied"
      BY <2>0, <2>3 DEF PassSound, TakeResult
    <3>4. CASE pass'[d].at = "identity" /\ pass'[d].items = pass[d].items
      BY <3>3, <3>4 DEF PassSound
    <3>5. CASE pass'[d].at = "results" /\ pass'[d].items = Rest(d)
      BY <3>2, <3>3, <3>5 DEF PassSound
    <3> QED
      BY <3>1, <3>4, <3>5
  <2>4. ASSUME RememberIdentity(d) PROVE PassSound(d)'
    <3>1. pass'[d].at = "results" /\ pass'[d].items = Rest(d)
      BY <2>0, <2>4 DEF RememberIdentity, TypeOK, Passes
    <3>2. /\ DOMAIN pass[d].items # {}
          /\ \A o \in DOMAIN pass[d].items :
               /\ pass[d].items[o] \in {"applied", "created", "conflict", "failed"}
               /\ pass[d].items[o] \in {"applied", "created"} => status'[o] = "applied"
      BY <2>0, <2>4 DEF PassSound, RememberIdentity
    <3>3. \A o \in DOMAIN Rest(d) : o \in DOMAIN pass[d].items /\ Rest(d)[o] = pass[d].items[o]
      BY <3>2, FirstOfItems
    <3> QED
      BY <3>1, <3>2, <3>3 DEF PassSound
  <2>5. ASSUME Merge(d) PROVE PassSound(d)'
    <3>1. pass'[d].at = "merged" /\ pass'[d].ops = pass[d].ops /\ inbox' = inbox
      BY <2>0, <2>5 DEF Merge, TypeOK, Passes
    <3> QED
      BY <2>0, <2>5, <3>1 DEF PassSound, Merge
  <2>6. ASSUME MarkMerged(d) PROVE PassSound(d)'
    <3>1. pass'[d].at = "inbox" /\ pass'[d].ops = pass[d].ops \cup {Next1(d)}
      BY <2>0, <2>6 DEF MarkMerged, TypeOK, Passes
    <3>2. Next1(d) \in Ops /\ pass[d].ops \subseteq Ops
      BY <2>0, <2>6, Next1Is DEF MarkMerged, InboxesSound, InboxSound, Passes
    <3>3. inbox'[d][Next1(d)] = "applied"
      BY <2>6, <3>2 DEF MarkMerged, TypeOK, StoreTypeOK
    <3>4. \A o \in pass[d].ops : inbox'[d][o] = "applied"
      BY <1>0, <2>0, <2>6, <3>2 DEF PassSound, MarkMerged, Grows
    <3> QED
      BY <3>1, <3>3, <3>4 DEF PassSound
  <2>7. ASSUME StartPass(d) \/ AskApply(d) \/ AskPull(d) \/ EndInbox(d) \/ GiveUp(d)
        PROVE  pass'[d].at \in {"idle", "call"}
    BY <2>7 DEF StartPass, AskApply, AskPull, EndInbox, GiveUp, Send, IdlePass, TypeOK
  <2> QED
    BY <1>1, <2>1, <2>2, <2>3, <2>4, <2>5, <2>6, <2>7 DEF PassStep
<1>2. ASSUME NEW o \in Ops, UserStep(o) PROVE PassesSound'
  <2> SUFFICES ASSUME NEW d \in Devices PROVE PassSound(d)'
    BY DEF PassesSound
  <2>1. pass'[d] = pass[d] \/ pass'[d].at = "call"
    BY <1>2 DEF UserStep, Enqueue, ResolveLocally, AskResolution, Send, TypeOK
  <2> QED
    BY <1>0, <2>1, PassStaysSound DEF PassSound, PassesSound
<1>3. CASE UNCHANGED vars
  BY <1>0, <1>3, PassStaysSound DEF PassesSound, vars
<1> QED
  BY <1>1, <1>2, <1>3, ServerPassesSound DEF Next

---------------------------------------------------------------------------------
(* Copies                                                                          *)

\* While a station's inbox and the ids of what it received stay as they are, the same
\* operation comes next, whatever rows are numbered or withdrawn meanwhile.
LEMMA Next1Stays ==
  ASSUME Grows, NEW d \in Devices, inbox'[d] = inbox[d],
         \A o \in Ops : inbox[d][o] # "none" => status[o] # "absent"
  PROVE  Received(d)' = Received(d) /\ Next1(d)' = Next1(d)
<1>1. Received(d)' = Received(d)
  BY DEF Received
<1>2. \A o \in Received(d) : rowId'[o] = rowId[o]
  BY DEF Received, Grows
<1> DEFINE P(o) == o \in Received(d) /\ \A p \in Received(d) : rowId[o] <= rowId[p]
           Q(o) == o \in Received(d)' /\ \A p \in Received(d)' : rowId'[o] <= rowId'[p]
<1>3. \A o : P(o) <=> Q(o)
  BY <1>1, <1>2
<1> HIDE DEF P, Q
<1>4. (CHOOSE o : P(o)) = (CHOOSE o : Q(o))
  BY <1>3
<1>5. Next1(d) = (CHOOSE o : P(o))
  BY DEF Next1, P
<1>6. Next1(d)' = (CHOOSE o : Q(o))
  BY DEF Next1, Q
<1> QED
  BY <1>1, <1>4, <1>5, <1>6

\* What MergedIsCached says of one station.
Copied(d) ==
  \A o \in Ops :
    /\ o \in acks[d] => inbox[d][o] = "applied"
    /\ inbox[d][o] = "applied" => InCopy(d, o)

\* While a station's copies stay as they are, they have what they had: the versions of
\* what was received do not change.
LEMMA InCopyStays ==
  ASSUME TypeOK, Grows, NEW d \in Devices, InboxSound(d), NEW o \in Ops,
         cache'[d] = cache[d], inbox[d][o] # "none", InCopy(d, o)
  PROVE  InCopy(d, o)'
<1> DEFINE k == KeyOf(o)
           c == cache[d][k]
<1>1. k \in Keys /\ KeyOf(o)' = k
  BY SystemAssumption DEF KeyOf, Keys
<1>2. c \in Ops /\ c # 0
  BY <1>1 DEF InCopy, TypeOK, StoreTypeOK
<1>3. inbox[d][c] # "none"
  BY <1>1, <1>2 DEF InboxSound
<1>4. seen'[d][c] = seen[d][c] /\ seen'[d][o] = seen[d][o]
  BY <1>2, <1>3 DEF Grows
<1>5. CachedVersion(d, k) = seen[d][c] /\ CachedVersion(d, k)' = seen'[d][c]
  BY <1>1, <1>2 DEF CachedVersion
<1> QED
  BY <1>1, <1>2, <1>4, <1>5 DEF InCopy

LEMMA CopiesStay ==
  ASSUME TypeOK, Grows, NEW d \in Devices, InboxSound(d), Copied(d),
         inbox'[d] = inbox[d], cache'[d] = cache[d], acks'[d] = acks[d],
         pass'[d].at = "merged" => pass[d].at = "merged"
  PROVE  InboxSound(d)' /\ Copied(d)'
<1>1. \A o \in Ops : inbox[d][o] # "none" => status[o] # "absent"
  BY DEF InboxSound
<1>2. \A o \in Ops : inbox'[d][o] # "none" => status'[o] # "absent"
  BY <1>1 DEF Grows
<1>3. \A k \in Keys : cache'[d][k] # 0 => inbox'[d][cache'[d][k]] # "none"
  BY DEF InboxSound
<1>4. ASSUME pass'[d].at = "merged" PROVE Received(d)' # {} /\ InCopy(d, Next1(d))'
  <2>1. Received(d) # {} /\ InCopy(d, Next1(d))
    BY <1>4 DEF InboxSound
  <2>2. Received(d)' = Received(d) /\ Next1(d)' = Next1(d)
    BY <1>1, Next1Stays
  <2>3. PICK o : o = Next1(d)
    OBVIOUS
  <2>4. o \in Ops /\ inbox[d][o] # "none"
    BY <2>1, <2>3, Next1Is DEF Received
  <2>5. InCopy(d, o)'
    BY <2>1, <2>3, <2>4, InCopyStays
  <2>6. InCopy(d, Next1(d))'
    BY <2>2, <2>3, <2>5 DEF InCopy
  <2> QED
    BY <2>1, <2>2, <2>6
<1>5. Copied(d)'
  <2>1. ASSUME NEW o \in Ops, inbox'[d][o] = "applied" PROVE InCopy(d, o)'
    BY <2>1, InCopyStays DEF Copied
  <2> QED
    BY <2>1 DEF Copied
<1> QED
  BY <1>2, <1>3, <1>4, <1>5 DEF InboxSound

\* The merge of the next operation: its key has it or something newer, and so has every
\* other key what it had.
LEMMA MergeCopies ==
  ASSUME TypeOK, NEW d \in Devices, InboxSound(d), Merge(d)
  PROVE  /\ InCopy(d, Next1(d))'
         /\ \A o \in Ops : inbox[d][o] # "none" /\ InCopy(d, o) => InCopy(d, o)'
         /\ \A k \in Keys : cache'[d][k] # 0 => inbox'[d][cache'[d][k]] # "none"
<1>1. PICK n : n = Next1(d)
  OBVIOUS
<1>2. n \in Ops /\ n \in Received(d) /\ Received(d) # {}
  BY <1>1, Next1Is DEF Merge
<1>3. UNCHANGED <<status, rowId, inbox, seen>>
  BY DEF Merge, server
<1>4. Next1(d)' = n
  BY <1>1, <1>3 DEF Next1, Received
<1>5. \A o \in Ops : KeyOf(o) \in Keys /\ KeyOf(o)' = KeyOf(o)
  BY SystemAssumption DEF KeyOf, Keys
<1>6. \A o \in Ops : seen[d][o] \in Nat
  BY DEF TypeOK, StoreTypeOK
<1>7. \A k \in Keys : cache[d][k] \in Ops \cup {0}
  BY DEF TypeOK, StoreTypeOK
<1>8. 0 \notin Ops /\ Ops \subseteq Nat
  BY SystemAssumption
<1>9. CASE Stale(d, n)
  <2>1. cache' = cache /\ seen' = seen
    BY <1>1, <1>3, <1>9 DEF Merge
  <2>2. \A o \in Ops : InCopy(d, o)' <=> InCopy(d, o)
    BY <1>5, <2>1 DEF InCopy, CachedVersion
  <2>3. InCopy(d, n)
    BY <1>2, <1>5, <1>6, <1>7, <1>9 DEF Stale, InCopy, CachedVersion
  <2>4. InCopy(d, n)'
    BY <1>2, <2>2, <2>3
  <2> QED
    BY <1>3, <1>4, <2>1, <2>2, <2>4 DEF InboxSound, InCopy
<1>10. CASE ~Stale(d, n)
  <2>1. /\ \A k \in Keys : cache'[d][k] = IF k = KeyOf(n) THEN n ELSE cache[d][k]
        /\ seen' = seen
    BY <1>1, <1>2, <1>3, <1>5, <1>10 DEF Merge, TypeOK, StoreTypeOK
  <2>2. \A o \in Ops : KeyOf(o) # KeyOf(n) => (InCopy(d, o)' <=> InCopy(d, o))
    BY <1>2, <1>5, <2>1 DEF InCopy, CachedVersion
  <2>3. \A o \in Ops : KeyOf(o) = KeyOf(n) => (InCopy(d, o)' <=> seen[d][n] >= seen[d][o])
    BY <1>2, <1>5, <1>8, <2>1 DEF InCopy, CachedVersion
  <2>4. seen[d][n] >= CachedVersion(d, KeyOf(n)) /\ CachedVersion(d, KeyOf(n)) \in Nat
    BY <1>2, <1>5, <1>6, <1>7, <1>10 DEF Stale, CachedVersion
  <2>5. InCopy(d, n)'
    BY <1>2, <1>6, <2>3
  <2>6. \A o \in Ops : InCopy(d, o) => InCopy(d, o)'
    BY <1>2, <1>6, <2>2, <2>3, <2>4 DEF InCopy
  <2>7. \A k \in Keys : cache'[d][k] # 0 => inbox'[d][cache'[d][k]] # "none"
    BY <1>2, <1>3, <2>1 DEF InboxSound, Received
  <2> QED
    BY <1>4, <2>5, <2>6, <2>7 DEF InCopy
<1> QED
  BY <1>9, <1>10

LEMMA ServerCopies ==
  ASSUME TypeOK, CallsSound, InboxesSound, NEW r \in calls, ServerStep(r),
         NEW d \in Devices, Copied(d)
  PROVE  InboxSound(d)' /\ Copied(d)'
<1>0. /\ Grows /\ InboxSound(d) /\ CallSound(r) /\ ServerTypeOK /\ StoreTypeOK
      /\ r \in Messages /\ r.dev \in Devices /\ r.ops \subseteq Ops
  BY ServerGrows DEF InboxesSound, CallsSound, TypeOK, Messages
<1>1. ASSUME Lose(r) \/ PushCommit(r) \/ ApplyAnswer(r) \/ Resolve(r) PROVE InboxSound(d)' /\ Copied(d)'
  <2>1. pass'[d].at = "merged" => pass[d].at = "merged"
    BY <1>1, AnswerIs DEF Lose, PushCommit, ApplyAnswer, Resolve
  <2>2. inbox' = inbox /\ cache' = cache /\ acks' = acks
    BY <1>1 DEF Lose, PushCommit, ApplyAnswer, Resolve, server, store
  <2> QED
    BY <1>0, <2>1, <2>2, CopiesStay
<1>2. ASSUME PushFlush(r) \/ ApplyNext(r) PROVE InboxSound(d)' /\ Copied(d)'
  <2>1. inbox' = inbox /\ cache' = cache /\ acks' = acks /\ pass' = pass
    BY <1>2 DEF PushFlush, ApplyNext, store
  <2> QED
    BY <1>0, <2>1, CopiesStay
<1>3. ASSUME Pull(r) PROVE InboxSound(d)' /\ Copied(d)'
  <2>1. /\ cache' = cache /\ acks' = acks /\ status' = status
        /\ d # r.dev => inbox'[d] = inbox[d] /\ pass'[d] = pass[d]
    BY <1>0, <1>3 DEF Pull, server, TypeOK, StoreTypeOK
  <2>2. CASE d # r.dev
    BY <1>0, <2>1, <2>2, CopiesStay
  <2>3. CASE d = r.dev
    <3>1. pass'[d].at = "inbox"
      BY <1>3, <2>3 DEF Pull, TypeOK
    <3>2. \A o \in Ops : inbox'[d][o] = IF o \in Deliverable(d) /\ inbox[d][o] = "none"
                                        THEN "received" ELSE inbox[d][o]
      BY <1>0, <1>3, <2>3 DEF Pull, StoreTypeOK
    <3>3. \A o \in Ops : inbox'[d][o] # "none" => status'[o] # "absent"
      BY <1>0, <2>1, <3>2 DEF Deliverable, InboxSound
    <3>4. \A k \in Keys : cache'[d][k] # 0 => inbox'[d][cache'[d][k]] # "none"
      BY <1>0, <2>1 DEF InboxSound, Grows, StoreTypeOK
    <3>5. InboxSound(d)'
      BY <3>1, <3>3, <3>4 DEF InboxSound
    <3>6. ASSUME NEW o \in Ops, inbox'[d][o] = "applied" PROVE InCopy(d, o)'
      <4>1. inbox[d][o] = "applied"
        BY <3>2, <3>6
      <4> QED
        BY <1>0, <2>1, <4>1, InCopyStays DEF Copied
    <3>7. Copied(d)'
      BY <1>0, <2>1, <3>6 DEF Copied, Grows
    <3> QED
      BY <3>5, <3>7
  <2> QED
    BY <2>2, <2>3
<1>4. ASSUME Acknowledge(r) PROVE InboxSound(d)' /\ Copied(d)'
  <2>1. pass'[d].at = "merged" => pass[d].at = "merged"
    BY <1>4, AnswerIs DEF Acknowledge
  <2>2. inbox' = inbox /\ cache' = cache
    BY <1>4 DEF Acknowledge, store
  <2>3. \A o \in acks'[d] : inbox[d][o] = "applied"
    <3>1. acks'[d] \subseteq IF d = r.dev THEN acks[d] \cup r.ops ELSE acks[d]
      BY <1>0, <1>4 DEF Acknowledge, ServerTypeOK
    <3>2. \A o \in r.ops : inbox[r.dev][o] = "applied"
      BY <1>0, <1>4 DEF Acknowledge, CallSound
    <3>3. \A o \in acks[d] : inbox[d][o] = "applied"
      BY <1>0 DEF Copied, ServerTypeOK
    <3> QED
      BY <3>1, <3>2, <3>3
  <2>4. InboxSound(d)' /\ \A o \in Ops : inbox'[d][o] = "applied" => InCopy(d, o)'
    <3>1. \A o \in Ops : inbox'[d][o] = "applied" => InCopy(d, o)'
      BY <1>0, <2>2, InCopyStays DEF Copied
    <3>2. UNCHANGED <<status, rowId, inbox, seen, cache>>
      BY <1>4 DEF Acknowledge, store
    <3>3. Received(d)' = Received(d) /\ Next1(d)' = Next1(d)
      BY <3>2 DEF Received, Next1
    <3>4. InboxSound(d)'
      BY <1>0, <2>1, <3>2, <3>3 DEF InboxSound, InCopy, CachedVersion, KeyOf
    <3> QED
      BY <3>1, <3>4
  <2>5. \A o \in Ops : o \in acks'[d] => inbox'[d][o] = "applied"
    BY <2>2, <2>3
  <2> QED
    BY <2>4, <2>5 DEF Copied
<1> QED
  BY <1>1, <1>2, <1>3, <1>4 DEF ServerStep

LEMMA PassCopies ==
  ASSUME TypeOK, CallsSound, InboxesSound, NEW c \in Devices, PassStep(c),
         NEW d \in Devices, Copied(d)
  PROVE  InboxSound(d)' /\ Copied(d)'
<1>0. /\ Grows /\ InboxSound(d) /\ StoreTypeOK /\ acks' = acks
  <2>1. Grows
    BY NextGrows DEF Next
  <2>2. acks' = acks
    BY DEF PassStep, StartPass, TakeVerdict, AskApply, TakeResult, RememberIdentity,
           AskPull, Merge, MarkMerged, EndInbox, GiveUp, server
  <2> QED
    BY <2>1, <2>2 DEF InboxesSound, TypeOK
<1>1. CASE c # d
  <2>1. inbox'[d] = inbox[d] /\ cache'[d] = cache[d] /\ pass'[d] = pass[d]
    BY <1>1 DEF PassStep, StartPass, TakeVerdict, AskApply, TakeResult, RememberIdentity,
                AskPull, Merge, MarkMerged, EndInbox, GiveUp, Send, Mark, server, store,
                TypeOK, StoreTypeOK
  <2> QED
    BY <1>0, <2>1, CopiesStay
<1>2. ASSUME c = d, Merge(d) PROVE InboxSound(d)' /\ Copied(d)'
  <2>1. UNCHANGED <<status, rowId, inbox, seen>>
    BY <1>2 DEF Merge, server
  <2>2. Received(d)' # {} /\ \A o \in Ops : inbox'[d][o] # "none" => status'[o] # "absent"
    BY <1>0, <1>2, <2>1 DEF Merge, Received, InboxSound
  <2>3. InboxSound(d)'
    BY <1>0, <1>2, <2>2, MergeCopies DEF InboxSound
  <2>4. Copied(d)'
    BY <1>0, <1>2, <2>1, MergeCopies DEF Copied
  <2> QED
    BY <2>3, <2>4
<1>3. ASSUME c = d, MarkMerged(d) PROVE InboxSound(d)' /\ Copied(d)'
  <2>1. PICK n : n = Next1(d)
    OBVIOUS
  <2>2. n \in Ops /\ inbox[d][n] # "none" /\ InCopy(d, n)
    BY <1>0, <1>3, <2>1, Next1Is DEF MarkMerged, InboxSound, Received
  <2>3. /\ UNCHANGED <<status, rowId, seen, cache>>
        /\ \A o \in Ops : inbox'[d][o] = IF o = n THEN "applied" ELSE inbox[d][o]
        /\ pass'[d].at = "inbox"
    BY <1>0, <1>3, <2>1, <2>2 DEF MarkMerged, server, TypeOK, StoreTypeOK, Passes
  <2>4. \A o \in Ops : inbox'[d][o] # "none" => inbox[d][o] # "none"
    BY <2>2, <2>3
  <2>5. InboxSound(d)'
    <3>1. \A o \in Ops : inbox'[d][o] # "none" => status'[o] # "absent"
      BY <1>0, <2>3, <2>4 DEF InboxSound
    <3>2. \A k \in Keys : cache'[d][k] # 0 => inbox'[d][cache'[d][k]] # "none"
      BY <1>0, <2>3 DEF InboxSound, Grows, StoreTypeOK
    <3> QED
      BY <2>3, <3>1, <3>2 DEF InboxSound
  <2>6. ASSUME NEW o \in Ops, inbox'[d][o] = "applied" PROVE InCopy(d, o)'
    <3>1. inbox[d][o] # "none" /\ InCopy(d, o)
      BY <2>2, <2>3, <2>6 DEF Copied
    <3> QED
      BY <1>0, <2>3, <3>1, InCopyStays
  <2>7. Copied(d)'
    BY <1>0, <2>6 DEF Copied, Grows
  <2> QED
    BY <2>5, <2>7
<1>4. ASSUME c = d, ~Merge(d), ~MarkMerged(d) PROVE InboxSound(d)' /\ Copied(d)'
  <2>1. inbox' = inbox /\ cache' = cache
    BY <1>4 DEF PassStep, StartPass, TakeVerdict, AskApply, TakeResult, RememberIdentity,
                AskPull, EndInbox, GiveUp, Send, Mark, server, store
  <2>2. pass'[d].at # "merged"
    BY <1>4 DEF PassStep, StartPass, TakeVerdict, AskApply, TakeResult, RememberIdentity,
                AskPull, EndInbox, GiveUp, Send, IdlePass, TypeOK, Passes
  <2> QED
    BY <1>0, <2>1, <2>2, CopiesStay
<1> QED
  BY <1>1, <1>2, <1>3, <1>4

LEMMA NextCopies ==
  ASSUME TypeOK, CallsSound, InboxesSound, MergedIsCached, [Next]_vars
  PROVE  InboxesSound' /\ MergedIsCached'
<1> SUFFICES ASSUME NEW d \in Devices PROVE InboxSound(d)' /\ Copied(d)'
  BY DEF InboxesSound, MergedIsCached, Copied
<1>0. Grows /\ InboxSound(d) /\ Copied(d)
  BY NextGrows DEF InboxesSound, MergedIsCached, Copied
<1>1. ASSUME NEW o \in Ops, UserStep(o) PROVE InboxSound(d)' /\ Copied(d)'
  <2>1. inbox' = inbox /\ cache' = cache /\ acks' = acks
    BY <1>1 DEF UserStep, Enqueue, ResolveLocally, AskResolution, server, store
  <2>2. pass'[d] = pass[d] \/ pass'[d].at = "call"
    BY <1>1 DEF UserStep, Enqueue, ResolveLocally, AskResolution, Send, TypeOK
  <2> QED
    BY <1>0, <2>1, <2>2, CopiesStay
<1>2. CASE UNCHANGED vars
  <2>1. inbox' = inbox /\ cache' = cache /\ acks' = acks /\ pass' = pass
    BY <1>2 DEF vars, server, store
  <2> QED
    BY <1>0, <2>1, CopiesStay
<1> QED
  BY <1>0, <1>1, <1>2, ServerCopies, PassCopies DEF Next

---------------------------------------------------------------------------------
(* Outboxes                                                                        *)

\* No step changes an outbox and the journal in a way that would show a false success or
\* hide a conflict.
LEMMA NextOutbox ==
  ASSUME TypeOK, CallsSound, PassesSound, AppliedMeansApplied, ConflictKept, [Next]_vars
  PROVE  AppliedMeansApplied' /\ ConflictKept'
<1>0. Grows /\ ServerTypeOK /\ StoreTypeOK
  BY NextGrows DEF TypeOK
<1>1. ASSUME outbox' = outbox, conflicts' = conflicts PROVE AppliedMeansApplied' /\ ConflictKept'
  BY <1>0, <1>1 DEF AppliedMeansApplied, ConflictKept, Grows, Listed
<1>2. ASSUME NEW r \in calls, ServerStep(r) PROVE AppliedMeansApplied' /\ ConflictKept'
  <2>1. ASSUME Resolve(r) PROVE AppliedMeansApplied' /\ ConflictKept'
    <3>1. PICK o \in Ops : Resolves(r, o)
      BY <2>1, ResolveIs
    <3>2. \A p \in Ops : /\ outbox'[p] = "applied" => outbox[p] = "applied"
                         /\ p # o => conflicts'[p] = conflicts[p] /\ outbox'[p] = outbox[p]
      BY <1>0, <3>1 DEF Resolves, StoreTypeOK
    <3>3. outbox'[o] = "conflict" =>
            \/ outbox[o] = "conflict" /\ conflicts'[o] = conflicts[o]
            \/ status'[o] = "failed"
      BY <1>0, <3>1 DEF Resolves, ServerTypeOK, StoreTypeOK
    <3>4. status[o] = "conflict"
      BY <3>1 DEF Resolves
    <3> QED
      BY <1>0, <3>2, <3>3, <3>4 DEF AppliedMeansApplied, ConflictKept, Grows, Listed
  <2>2. ASSUME ~Resolve(r) PROVE outbox' = outbox /\ conflicts' = conflicts
    BY <1>2, <2>2 DEF ServerStep, Lose, PushFlush, PushCommit, ApplyNext, ApplyAnswer, Pull,
                      Acknowledge, store
  <2> QED
    BY <1>1, <2>1, <2>2
<1>3. ASSUME NEW d \in Devices, PassStep(d) PROVE AppliedMeansApplied' /\ ConflictKept'
  <2>1. ASSUME NEW o \in Ops, NEW result, Mark(o, result),
               result = "applied" => status[o] = "applied"
        PROVE  AppliedMeansApplied' /\ ConflictKept'
    <3>1. \A p \in Ops :
            IF p = o THEN /\ outbox'[p] = result
                          /\ result = "conflict" => conflicts'[p] = "open"
            ELSE outbox'[p] = outbox[p] /\ conflicts'[p] = conflicts[p]
      BY <1>0, <2>1 DEF Mark, ListedConflict, StoreTypeOK
    <3> QED
      BY <1>0, <2>1, <3>1 DEF AppliedMeansApplied, ConflictKept, Grows, Listed
  <2>2. ASSUME TakeVerdict(d) PROVE AppliedMeansApplied' /\ ConflictKept'
    <3>1. CASE pass[d].items[First(d)] \in {"pending", "applied"}
      BY <1>1, <2>2, <3>1 DEF TakeVerdict, store
    <3>2. CASE pass[d].items[First(d)] \notin {"pending", "applied"}
      <4>1. First(d) \in Ops
        BY <2>2, FirstOfItems DEF TakeVerdict
      <4> QED
        BY <2>1, <2>2, <3>2, <4>1 DEF TakeVerdict
    <3> QED
      BY <3>1, <3>2
  <2>3. ASSUME TakeResult(d) PROVE AppliedMeansApplied' /\ ConflictKept'
    <3>1. First(d) \in Ops /\ First(d) \in DOMAIN pass[d].items
      BY <2>3, FirstOfItems DEF TakeResult
    <3>2. Outcome(pass[d].items[First(d)]) = "applied" => status[First(d)] = "applied"
      BY <2>3, <3>1 DEF TakeResult, Outcome, PassesSound, PassSound
    <3> QED
      BY <2>1, <2>3, <3>1, <3>2 DEF TakeResult
  <2>4. ASSUME ~TakeVerdict(d), ~TakeResult(d) PROVE outbox' = outbox /\ conflicts' = conflicts
    BY <1>3, <2>4 DEF PassStep, StartPass, AskApply, RememberIdentity, AskPull, Merge,
                      MarkMerged, EndInbox, GiveUp, store
  <2> QED
    BY <1>1, <2>2, <2>3, <2>4
<1>4. ASSUME NEW o \in Ops, UserStep(o) PROVE AppliedMeansApplied' /\ ConflictKept'
  <2>1. ASSUME \A p \in Ops :
                 \/ outbox'[p] = outbox[p] /\ conflicts'[p] = conflicts[p]
                 \/ outbox'[p] \in {"pending", "failed"}
        PROVE  AppliedMeansApplied' /\ ConflictKept'
    BY <1>0, <2>1 DEF AppliedMeansApplied, ConflictKept, Grows, Listed
  <2>2. ASSUME Enqueue(o) PROVE AppliedMeansApplied' /\ ConflictKept'
    BY <1>0, <2>1, <2>2 DEF Enqueue, StoreTypeOK
  <2>3. ASSUME NEW choice, ResolveLocally(o, choice) PROVE AppliedMeansApplied' /\ ConflictKept'
    BY <1>0, <2>1, <2>3 DEF ResolveLocally, StoreTypeOK
  <2>4. ASSUME NEW choice, AskResolution(OpDevice[o], o, choice)
        PROVE  outbox' = outbox /\ conflicts' = conflicts
    BY <2>4 DEF AskResolution, store
  <2> QED
    BY <1>1, <1>4, <2>2, <2>3, <2>4 DEF UserStep
<1>5. CASE UNCHANGED vars
  BY <1>1, <1>5 DEF vars, store
<1> QED
  BY <1>2, <1>3, <1>4, <1>5 DEF Next

---------------------------------------------------------------------------------
(* Versions                                                                        *)

Done(e) == {o \in Ops : OpEntity[o] = e /\ status[o] = "applied"}

\* The version of a record rises with the operation that is applied, and with no other.
LEMMA NextAppliedOnce ==
  ASSUME TypeOK, CallsSound, AppliedOnce, [Next]_vars
  PROVE  AppliedOnce'
<1>0. /\ ServerTypeOK
      /\ \A e \in Entities : ver[e] = Cardinality(Done(e)) /\ IsFiniteSet(Done(e))
  BY CountsOfOps, SystemAssumption DEF TypeOK, AppliedOnce, Done
<1>1. ASSUME ver' = ver, \A o \in Ops : status'[o] = "applied" <=> status[o] = "applied"
      PROVE  AppliedOnce'
  <2>1. \A e \in Entities : Done(e)' = Done(e)
    BY <1>1 DEF Done
  <2> QED
    BY <1>0, <1>1, <2>1 DEF AppliedOnce, Done
<1>2. ASSUME NEW r \in calls, PushCommit(r) PROVE AppliedOnce'
  <2>1. \A o \in DOMAIN r.done : status[o] = "absent" => r.done[o] # "applied"
    BY <1>2 DEF PushCommit, CallsSound, CallSound
  <2> QED
    BY <1>0, <1>1, <1>2, <2>1 DEF PushCommit, ServerTypeOK
<1>3. ASSUME NEW r \in calls, ApplyNext(r) PROVE AppliedOnce'
  <2>1. PICK o \in Ops, result \in {"applied", "created", "failed", "conflict"} :
          AppliesNext(r, o, result)
    BY <1>3, ApplyNextIs
  <2>2. CASE status[o] = "pending" /\ result \in {"applied", "created"}
    <3>1. /\ status' = [status EXCEPT ![o] = "applied"]
          /\ ver' = [ver EXCEPT ![OpEntity[o]] = @ + 1]
      BY <2>1, <2>2 DEF AppliesNext
    <3>2. OpEntity[o] \in Entities
      BY SystemAssumption
    <3>3. ASSUME NEW e \in Entities PROVE ver'[e] = Cardinality(Done(e)')
      <4>1. CASE e = OpEntity[o]
        <5>1. Done(e)' = Done(e) \cup {o} /\ o \notin Done(e)
          BY <1>0, <2>2, <3>1, <4>1 DEF Done, ServerTypeOK
        <5>2. Cardinality(Done(e) \cup {o}) = Cardinality(Done(e)) + 1
          BY <1>0, <5>1, FS_AddElement
        <5> QED
          BY <1>0, <3>1, <4>1, <5>1, <5>2 DEF ServerTypeOK
      <4>2. CASE e # OpEntity[o]
        <5>1. Done(e)' = Done(e)
          BY <1>0, <3>1, <4>2 DEF Done, ServerTypeOK
        <5> QED
          BY <1>0, <3>1, <4>2, <5>1 DEF ServerTypeOK
      <4> QED
        BY <4>1, <4>2
    <3> QED
      BY <3>3 DEF AppliedOnce, Done
  <2>3. CASE ~(status[o] = "pending" /\ result \in {"applied", "created"})
    <3>1. ver' = ver /\ \A p \in Ops : status'[p] = "applied" <=> status[p] = "applied"
      BY <1>0, <2>1, <2>3 DEF AppliesNext, ServerTypeOK
    <3> QED
      BY <1>1, <3>1
  <2> QED
    BY <2>2, <2>3
<1>4. ASSUME NEW r \in calls, Resolve(r) PROVE AppliedOnce'
  <2>1. PICK o \in Ops : Resolves(r, o)
    BY <1>4, ResolveIs
  <2>2. ver' = ver /\ \A p \in Ops : status'[p] = "applied" <=> status[p] = "applied"
    BY <1>0, <2>1 DEF Resolves, ServerTypeOK
  <2> QED
    BY <1>1, <2>2
<1>5. ASSUME UNCHANGED <<ver, status>> PROVE AppliedOnce'
  BY <1>1, <1>5
<1>6. ASSUME NEW r \in calls, Lose(r) \/ PushFlush(r) \/ ApplyAnswer(r) \/ Pull(r) \/ Acknowledge(r)
      PROVE  UNCHANGED <<ver, status>>
  BY <1>6 DEF Lose, PushFlush, ApplyAnswer, Pull, Acknowledge, server
<1>7. ASSUME NEW d \in Devices, PassStep(d) PROVE UNCHANGED <<ver, status>>
  BY <1>7 DEF PassStep, StartPass, TakeVerdict, AskApply, TakeResult, RememberIdentity,
              AskPull, Merge, MarkMerged, EndInbox, GiveUp, server
<1>8. ASSUME NEW o \in Ops, UserStep(o) PROVE UNCHANGED <<ver, status>>
  BY <1>8 DEF UserStep, Enqueue, ResolveLocally, AskResolution, server
<1>9. CASE UNCHANGED vars
  BY <1>5, <1>9 DEF vars, server
<1> QED
  BY <1>2, <1>3, <1>4, <1>5, <1>6, <1>7, <1>8, <1>9 DEF Next, ServerStep

---------------------------------------------------------------------------------
(* Journal                                                                         *)

\* What push gives a row: an id beyond the last one.
LEMMA FlushIs ==
  ASSUME TypeOK, CallsSound, NEW r \in calls, PushFlush(r)
  PROVE  \E q \in Messages :
           /\ calls' = (calls \ {r}) \cup {q}
           /\ q.kind = "push" /\ DOMAIN q.done = r.ops /\ r.ops \subseteq Ops
           /\ \A o \in r.ops : status[o] = "absent" =>
                rowId[o] = 0 /\ rowId'[o] > lastId /\ rowId'[o] <= lastId'
           /\ \A o \in Ops : o \notin r.ops \/ status[o] # "absent" => rowId'[o] = rowId[o]
           /\ lastId' >= lastId
<1> USE SystemAssumption
<1>0. /\ r \in Messages /\ r.ops \subseteq Ops /\ ServerTypeOK /\ StoreTypeOK
      /\ ServerTypeOK' /\ calls' \subseteq Messages
  BY ServerTypes DEF TypeOK, Messages, ServerStep
<1> DEFINE new == {o \in r.ops : status[o] = "absent"}
           verdict(o) == IF o \notin new THEN status[o]
                         ELSE IF myBase[o] = ver[OpEntity[o]] THEN "pending" ELSE "conflict"
<1>1. PICK q : q = [r EXCEPT !.done = [o \in r.ops |-> verdict(o)]]
  OBVIOUS
<1>2. calls' = (calls \ {r}) \cup {q}
  BY <1>1 DEF PushFlush
<1>3. q \in Messages /\ q.kind = "push" /\ DOMAIN q.done = r.ops
  BY <1>0, <1>1, <1>2 DEF Messages, PushFlush
<1>4. /\ Cardinality(new) \in Nat
      /\ \A o \in new : Cardinality({p \in new : p <= o}) \in 1..Cardinality(new)
  BY <1>0, CountsOfOps
<1>5. /\ lastId' = lastId + Cardinality(new)
      /\ \A o \in new : rowId[o] = 0 /\ rowId'[o] = lastId + Cardinality({p \in new : p <= o})
      /\ \A o \in Ops : o \notin new => rowId'[o] = rowId[o]
  BY <1>0 DEF PushFlush
<1> HIDE DEF new
<1>6. lastId \in Nat /\ lastId' >= lastId
  BY <1>0, <1>4, <1>5 DEF ServerTypeOK
<1>7. \A o \in new : rowId'[o] > lastId /\ rowId'[o] <= lastId'
  <2>1. SUFFICES ASSUME NEW o \in new PROVE rowId'[o] > lastId /\ rowId'[o] <= lastId'
    OBVIOUS
  <2>2. PICK n \in 1..Cardinality(new) : rowId'[o] = lastId + n
    BY <1>4, <1>5
  <2> QED
    BY <1>4, <1>5, <1>6, <2>2
<1>8. \A o \in r.ops : status[o] = "absent" => o \in new
  BY DEF new
<1>9. \A o \in Ops : o \notin r.ops \/ status[o] # "absent" => o \notin new
  BY DEF new
<1> QED
  BY <1>0, <1>2, <1>3, <1>5, <1>6, <1>7, <1>8, <1>9

\* A push in flight keeps what it holds when its client stops waiting.
Aged(d, r) == IF r.dev = d /\ ~r.late THEN [r EXCEPT !.late = TRUE] ELSE r

LEMMA GiveUpIs ==
  ASSUME TypeOK, NEW d \in Devices, GiveUp(d)
  PROVE  /\ calls' = {Aged(d, r) : r \in calls}
         /\ \A r \in calls : Aged(d, r).kind = r.kind /\ Aged(d, r).done = r.done
         /\ Flushed' = {Aged(d, r) : r \in Flushed}
<1>1. calls' = {Aged(d, r) : r \in calls}
  BY DEF GiveUp, Aged
<1>2. \A r \in calls : Aged(d, r).kind = r.kind /\ Aged(d, r).done = r.done
  BY DEF TypeOK, Messages, Aged
<1> QED
  BY <1>1, <1>2 DEF Flushed

\* Only a push adds to the pushes in flight, only its end or its loss takes one away.
LEMMA FlushedIs ==
  ASSUME TypeOK, CallsSound, [Next]_vars
  PROVE  \/ \E r \in calls : PushFlush(r)
         \/ \E d \in Devices : GiveUp(d)
         \/ \E r \in calls : (Lose(r) \/ PushCommit(r)) /\ Flushed' = Flushed \ {r}
         \/ Flushed' = Flushed /\ UNCHANGED <<rowId, lastId>>
<1>1. ASSUME calls' = calls PROVE Flushed' = Flushed
  BY <1>1 DEF Flushed
<1>2. ASSUME NEW d, NEW kind, NEW ops, Send(d, kind, ops) PROVE Flushed' = Flushed
  BY <1>2, NothingIsReply DEF Flushed, Send, Request
<1>3. ASSUME NEW r \in calls, ServerStep(r), ~PushFlush(r) PROVE
        \/ (Lose(r) \/ PushCommit(r)) /\ Flushed' = Flushed \ {r}
        \/ Flushed' = Flushed /\ UNCHANGED <<rowId, lastId>>
  <2>1. ASSUME Lose(r) \/ PushCommit(r) PROVE Flushed' = Flushed \ {r}
    BY <2>1 DEF Lose, PushCommit, Answer, Flushed
  <2>2. ASSUME ApplyNext(r) PROVE Flushed' = Flushed /\ UNCHANGED <<rowId, lastId>>
    <3>1. PICK o \in Ops, result \in {"applied", "created", "failed", "conflict"} :
            AppliesNext(r, o, result)
      BY <2>2, ApplyNextIs
    <3>2. PICK q : q = WithResult(r, o, result)
      OBVIOUS
    <3>3. q.kind = "apply"
      BY <3>1, <3>2 DEF AppliesNext, WithResult, TypeOK, Messages
    <3> QED
      BY <3>1, <3>2, <3>3 DEF AppliesNext, Flushed
  <2>3. ASSUME ApplyAnswer(r) \/ Pull(r) \/ Acknowledge(r) \/ Resolve(r)
        PROVE  Flushed' = Flushed /\ UNCHANGED <<rowId, lastId>>
    BY <2>3 DEF ApplyAnswer, Pull, Acknowledge, Resolve, Answer, server, Flushed
  <2> QED
    BY <1>3, <2>1, <2>2, <2>3 DEF ServerStep
<1>4. ASSUME NEW d \in Devices, PassStep(d), ~GiveUp(d)
      PROVE  Flushed' = Flushed /\ UNCHANGED <<rowId, lastId>>
  BY <1>1, <1>2, <1>4 DEF PassStep, StartPass, TakeVerdict, AskApply, TakeResult,
      RememberIdentity, AskPull, Merge, MarkMerged, EndInbox, server
<1>5. ASSUME NEW o \in Ops, UserStep(o) PROVE Flushed' = Flushed /\ UNCHANGED <<rowId, lastId>>
  BY <1>1, <1>2, <1>5 DEF UserStep, Enqueue, ResolveLocally, AskResolution, server
<1>6. CASE UNCHANGED vars
  BY <1>1, <1>6 DEF vars, server
<1> QED
  BY <1>3, <1>4, <1>5, <1>6 DEF Next

\* A row that was not committed and is now is one of the push that commits.
LEMMA CommitIs ==
  ASSUME TypeOK, CallsSound, [Next]_vars, NEW o \in Ops,
         status[o] = "absent", status'[o] # "absent"
  PROVE  \E r \in calls : PushCommit(r) /\ r \in Flushed /\ o \in DOMAIN r.done /\ rowId[o] # 0
<1>0. ServerTypeOK
  BY DEF TypeOK
<1>1. ASSUME NEW r \in calls, ServerStep(r)
      PROVE  PushCommit(r) /\ r \in Flushed /\ o \in DOMAIN r.done /\ rowId[o] # 0
  <2>1. CASE PushCommit(r)
    <3>1. o \in DOMAIN r.done
      BY <1>0, <2>1 DEF PushCommit, ServerTypeOK
    <3> QED
      BY <2>1, <3>1 DEF PushCommit, Flushed, CallsSound, CallSound
  <2>2. CASE ApplyNext(r)
    BY <1>0, <2>2, ApplyNextIs DEF AppliesNext, ServerTypeOK
  <2>3. CASE Resolve(r)
    BY <1>0, <2>3, ResolveIs DEF Resolves, ServerTypeOK
  <2> QED
    BY <1>1, <2>1, <2>2, <2>3 DEF ServerStep, Lose, PushFlush, ApplyAnswer, Pull, Acknowledge,
                                  server
<1>2. ASSUME NEW d \in Devices, PassStep(d) PROVE FALSE
  BY <1>2 DEF PassStep, StartPass, TakeVerdict, AskApply, TakeResult, RememberIdentity,
              AskPull, Merge, MarkMerged, EndInbox, GiveUp, server
<1>3. ASSUME NEW p \in Ops, UserStep(p) PROVE FALSE
  BY <1>3 DEF UserStep, Enqueue, ResolveLocally, AskResolution, server
<1>4. CASE UNCHANGED vars
  BY <1>4 DEF vars, server
<1> QED
  BY <1>1, <1>2, <1>3, <1>4 DEF Next

\* Only pull moves a cursor.
LEMMA CursorIs ==
  ASSUME TypeOK, [Next]_vars, NEW d \in Devices, cursor'[d] # cursor[d]
  PROVE  /\ UNCHANGED server
         /\ \E o \in Deliverable(d) : cursor'[d] = rowId[o]
         /\ \A o \in Deliverable(d) : inbox'[d][o] # "none"
<1>1. ASSUME NEW r \in calls, ServerStep(r) PROVE Pull(r) /\ r.dev = d
  <2>1. Pull(r)
    BY <1>1 DEF ServerStep, Lose, PushFlush, PushCommit, ApplyNext, ApplyAnswer, Acknowledge,
                Resolve, store
  <2> QED
    BY <2>1 DEF Pull, TypeOK, StoreTypeOK
<1>2. ASSUME NEW c \in Devices, PassStep(c) PROVE FALSE
  BY <1>2 DEF PassStep, StartPass, TakeVerdict, AskApply, TakeResult, RememberIdentity,
              AskPull, Merge, MarkMerged, EndInbox, GiveUp, Mark, store
<1>3. ASSUME NEW p \in Ops, UserStep(p) PROVE FALSE
  BY <1>3 DEF UserStep, Enqueue, ResolveLocally, AskResolution, store
<1>4. ASSUME UNCHANGED vars PROVE FALSE
  BY <1>4 DEF vars, store
<1>5. PICK r \in calls : Pull(r) /\ r.dev = d
  BY <1>1, <1>2, <1>3, <1>4 DEF Next
<1>6. cursor'[d] = NextId(d) /\ UNCHANGED server
  BY <1>5 DEF Pull, TypeOK, StoreTypeOK
<1>7. \A o \in Deliverable(d) : inbox'[d][o] # "none"
  <2>1. \A o \in Ops : inbox'[d][o] = IF o \in Deliverable(d) /\ inbox[d][o] = "none"
                                      THEN "received" ELSE inbox[d][o]
    BY <1>5 DEF Pull, TypeOK, StoreTypeOK
  <2> QED
    BY <2>1 DEF Deliverable
<1> QED
  BY <1>6, <1>7, NextIdIs

LEMMA NextJournalSound ==
  ASSUME TypeOK, CallsSound, JournalSound, [Next]_vars
  PROVE  JournalSound'
<1>0. Grows /\ ServerTypeOK /\ StoreTypeOK /\ ServerTypeOK'
  <2>1. ASSUME NEW r \in calls, ServerStep(r) PROVE ServerTypeOK'
    BY <2>1, ServerTypes DEF TypeOK
  <2>2. ASSUME NEW d \in Devices, PassStep(d) PROVE UNCHANGED server
    BY <2>2 DEF PassStep, StartPass, TakeVerdict, AskApply, TakeResult, RememberIdentity,
                AskPull, Merge, MarkMerged, EndInbox, GiveUp
  <2>3. ASSUME NEW o \in Ops, UserStep(o) PROVE UNCHANGED server
    BY <2>3 DEF UserStep, Enqueue, ResolveLocally, AskResolution
  <2>4. ASSUME UNCHANGED vars PROVE UNCHANGED server
    BY <2>4 DEF vars
  <2> QED
    BY <2>1, <2>2, <2>3, <2>4, NextGrows, UnchangedServerTypeOK DEF Next, TypeOK
<1>1. \A o \in Ops : rowId'[o] <= lastId'
  <2>1. ASSUME NEW r \in calls, PushFlush(r) PROVE \A o \in Ops : rowId'[o] <= lastId'
    <3>1. lastId' >= lastId /\ \A o \in Ops : rowId'[o] <= lastId' \/ rowId'[o] = rowId[o]
      BY <2>1, FlushIs
    <3> QED
      BY <1>0, <3>1 DEF JournalSound, ServerTypeOK
  <2>2. ASSUME NEW r \in calls, Lose(r) \/ PushCommit(r)
        PROVE  \A o \in Ops : rowId'[o] <= lastId'
    BY <1>0, <2>2 DEF Lose, PushCommit, JournalSound, ServerTypeOK
  <2>3. ASSUME NEW d \in Devices, GiveUp(d) PROVE UNCHANGED <<rowId, lastId>>
    BY <2>3 DEF GiveUp, server
  <2> QED
    BY <2>1, <2>2, <2>3, FlushedIs DEF JournalSound
<1>2. \A d \in Devices : cursor'[d] <= lastId'
  <2>1. lastId' >= lastId
    <3>1. ASSUME NEW r \in calls, PushFlush(r) PROVE lastId' >= lastId
      BY <3>1, FlushIs
    <3>2. ASSUME NEW r \in calls, Lose(r) \/ PushCommit(r) PROVE lastId' = lastId
      BY <3>2 DEF Lose, PushCommit
    <3>3. ASSUME NEW d \in Devices, GiveUp(d) PROVE lastId' = lastId
      BY <3>3 DEF GiveUp, server
    <3> QED
      BY <1>0, <3>1, <3>2, <3>3, FlushedIs DEF ServerTypeOK
  <2>2. ASSUME NEW d \in Devices, cursor'[d] = cursor[d] PROVE cursor'[d] <= lastId'
    BY <1>0, <2>1, <2>2 DEF JournalSound, ServerTypeOK, StoreTypeOK
  <2>3. ASSUME NEW d \in Devices, cursor'[d] # cursor[d] PROVE cursor'[d] <= lastId'
    <3>1. UNCHANGED lastId /\ \E o \in Ops : cursor'[d] = rowId[o]
      BY <2>3, CursorIs DEF server, Deliverable
    <3> QED
      BY <3>1 DEF JournalSound
  <2> QED
    BY <2>2, <2>3
<1>3. \A o \in Ops : status'[o] # "absent" => rowId'[o] # 0
  <2>1. ASSUME NEW o \in Ops, status[o] = "absent", status'[o] # "absent" PROVE rowId'[o] # 0
    <3>1. PICK r \in calls : PushCommit(r) /\ rowId[o] # 0
      BY <2>1, CommitIs
    <3> QED
      BY <3>1 DEF PushCommit
  <2> QED
    BY <1>0, <2>1 DEF JournalSound, Grows
<1>4. OneHolder'
  <2>1. \A o \in Ops : status'[o] = "absent" => status[o] = "absent"
    BY <1>0 DEF Grows
  <2>2. \A r \in Flushed : DOMAIN r.done \subseteq Ops
    BY ReplyIs DEF Flushed, TypeOK, Messages
  <2>3. ASSUME Flushed' \subseteq Flushed PROVE OneHolder'
    BY <2>1, <2>2, <2>3 DEF OneHolder, JournalSound
  <2>4. ASSUME NEW r \in calls, PushFlush(r) PROVE OneHolder'
    <3>1. PICK q \in Messages :
            /\ calls' = (calls \ {r}) \cup {q}
            /\ q.kind = "push" /\ DOMAIN q.done = r.ops /\ r.ops \subseteq Ops
            /\ \A o \in r.ops : status[o] = "absent" => rowId[o] = 0
      BY <2>4, FlushIs
    <3>2. Flushed' \subseteq Flushed \cup {q}
      BY <3>1 DEF Flushed
    <3>3. ASSUME NEW p \in Flushed, NEW o \in DOMAIN p.done \cap DOMAIN q.done,
                 status[o] = "absent"
          PROVE  FALSE
      <4>1. rowId[o] # 0
        BY <3>3 DEF Flushed, CallsSound, CallSound
      <4> QED
        BY <3>1, <3>3, <4>1
    <3>4. status' = status
      BY <2>4 DEF PushFlush
    <3> QED
      BY <3>2, <3>3, <3>4 DEF OneHolder, JournalSound
  <2>5. ASSUME NEW d \in Devices, GiveUp(d) PROVE OneHolder'
    <3>1. Flushed' = {Aged(d, r) : r \in Flushed}
      BY <2>5, GiveUpIs
    <3>2. \A r \in Flushed : Aged(d, r).done = r.done
      BY <2>5, GiveUpIs DEF Flushed
    <3>3. status' = status
      BY <2>5 DEF GiveUp, server
    <3> QED
      BY <3>1, <3>2, <3>3 DEF OneHolder, JournalSound
  <2> QED
    BY <2>3, <2>4, <2>5, FlushedIs
<1> QED
  BY <1>1, <1>2, <1>3, <1>4 DEF JournalSound

\* Where one transaction writes at a time: what is in flight is beyond everything that
\* stations can have passed.
LEMMA NextOrderSound ==
  ASSUME TypeOK, CallsSound, JournalSound, InOrder, OrderSound, [Next]_vars
  PROVE  OrderSound'
<1>0. Grows /\ ServerTypeOK /\ StoreTypeOK
  BY NextGrows DEF TypeOK
<1> USE DEF OrderSound
<1>1. \A o \in Ops : status'[o] = "absent" => status[o] = "absent"
  BY <1>0 DEF Grows
<1>2. \A d \in Devices, o \in Ops :
        status[o] = "absent" /\ rowId[o] # 0 => cursor'[d] < rowId[o]
  <2>1. SUFFICES ASSUME NEW d \in Devices, NEW o \in Ops, status[o] = "absent", rowId[o] # 0,
                        cursor'[d] # cursor[d]
                 PROVE  cursor'[d] < rowId[o]
    OBVIOUS
  <2>2. PICK p \in Deliverable(d) : cursor'[d] = rowId[p]
    BY <2>1, CursorIs
  <2>3. p \in Ops /\ status[p] # "absent"
    BY <2>2 DEF Deliverable
  <2> QED
    BY <2>1, <2>2, <2>3
<1>3. ASSUME NEW r \in calls, PushFlush(r) PROVE OrderSound'
  <2>1. PICK q \in Messages :
          /\ calls' = (calls \ {r}) \cup {q}
          /\ q.kind = "push" /\ DOMAIN q.done = r.ops /\ r.ops \subseteq Ops
          /\ \A o \in r.ops : status[o] = "absent" =>
               rowId[o] = 0 /\ rowId'[o] > lastId /\ rowId'[o] <= lastId'
          /\ \A o \in Ops : o \notin r.ops \/ status[o] # "absent" => rowId'[o] = rowId[o]
          /\ lastId' >= lastId
    BY <1>3, FlushIs
  <2>2. Flushed = {} /\ status' = status /\ cursor' = cursor
    BY <1>3 DEF PushFlush, Flushed, store
  <2>3. Flushed' \subseteq {q}
    BY <2>1, <2>2 DEF Flushed
  <2>4. ASSUME NEW o \in Ops, status'[o] = "absent", rowId'[o] # 0
        PROVE  o \in r.ops /\ rowId'[o] > lastId
    BY <2>1, <2>2, <2>4
  <2>5. ASSUME NEW o \in Ops, status'[o] = "absent", rowId'[o] # 0
        PROVE  /\ \E p \in Flushed' : o \in DOMAIN p.done
               /\ \A p \in Ops : status'[p] # "absent" => rowId'[p] < rowId'[o]
               /\ \A d \in Devices : cursor'[d] < rowId'[o]
    <3>1. q \in Flushed' /\ o \in DOMAIN q.done
      BY <2>1, <2>4, <2>5 DEF Flushed
    <3>2. \A p \in Ops : status'[p] # "absent" => rowId'[p] = rowId[p] /\ rowId[p] <= lastId
      BY <2>1, <2>2 DEF JournalSound
    <3>3. \A d \in Devices : cursor'[d] <= lastId
      BY <2>2 DEF JournalSound
    <3>4. rowId'[o] > lastId /\ rowId'[o] \in Nat /\ lastId \in Nat
      <4>1. ServerTypeOK'
        BY <1>3, ServerTypes DEF ServerStep, TypeOK
      <4> QED
        BY <1>0, <2>4, <2>5, <4>1 DEF ServerTypeOK
    <3>5. \A p \in Ops : rowId[p] \in Nat
      BY <1>0 DEF ServerTypeOK
    <3>6. \A d \in Devices : cursor'[d] \in Nat
      BY <1>0, <2>2 DEF StoreTypeOK
    <3> QED
      BY <3>1, <3>2, <3>3, <3>4, <3>5, <3>6
  <2> QED
    BY <2>3, <2>5
<1>4. ASSUME NEW r \in calls, PushCommit(r) PROVE OrderSound'
  <2>1. r \in Flushed /\ rowId' = rowId /\ Flushed' \subseteq Flushed
    BY <1>4 DEF PushCommit, Answer, Flushed
  <2>2. \A o \in DOMAIN r.done : r.done[o] # "absent"
    BY <1>4 DEF PushCommit, CallsSound, CallSound
  <2>3. ASSUME NEW o \in Ops, status'[o] = "absent", rowId'[o] # 0 PROVE FALSE
    <3>1. o \in DOMAIN r.done
      BY <1>1, <2>1, <2>3
    <3> QED
      BY <1>0, <1>4, <2>2, <2>3, <3>1 DEF PushCommit, ServerTypeOK
  <2> QED
    BY <2>1, <2>3
<1>5. ASSUME NEW r \in calls, Lose(r), Flushed' = Flushed \ {r} PROVE OrderSound'
  <2>1. status' = status
    BY <1>5 DEF Lose
  <2>2. ASSUME NEW o \in Ops, status'[o] = "absent", rowId'[o] # 0
        PROVE  rowId'[o] = rowId[o] /\ ~(r.kind = "push" /\ o \in DOMAIN r.done)
    BY <1>5, <2>1, <2>2 DEF Lose
  <2>3. \A o \in Ops : status[o] # "absent" => rowId'[o] = rowId[o]
    BY <1>0 DEF Grows
  <2>4. ASSUME NEW o \in Ops, status'[o] = "absent", rowId'[o] # 0
        PROVE  /\ \E p \in Flushed' : o \in DOMAIN p.done
               /\ \A p \in Ops : status'[p] # "absent" => rowId'[p] < rowId'[o]
               /\ \A d \in Devices : cursor'[d] < rowId'[o]
    <3>1. rowId[o] # 0 /\ status[o] = "absent" /\ rowId'[o] = rowId[o]
      BY <1>1, <2>2, <2>4
    <3>2. PICK p \in Flushed : o \in DOMAIN p.done
      BY <3>1
    <3>3. p # r
      BY <2>2, <2>4, <3>2 DEF Flushed
    <3> QED
      BY <1>2, <1>5, <2>1, <2>3, <3>1, <3>2, <3>3
  <2> QED
    BY <1>5, <2>4
<1>6. ASSUME rowId' = rowId, \A o \in Ops : status[o] = "absent" => status'[o] = "absent",
             \/ Flushed' = Flushed
             \/ \E d \in Devices : /\ Flushed' = {Aged(d, r) : r \in Flushed}
                                   /\ \A r \in Flushed : Aged(d, r).done = r.done
      PROVE  OrderSound'
  <2>1. \A r, q \in Flushed' : r = q
    BY <1>6
  <2>2. ASSUME NEW o \in Ops, status'[o] = "absent", rowId'[o] # 0
        PROVE  /\ \E p \in Flushed' : o \in DOMAIN p.done
               /\ \A p \in Ops : status'[p] # "absent" => rowId'[p] < rowId'[o]
               /\ \A d \in Devices : cursor'[d] < rowId'[o]
    <3>1. rowId[o] # 0 /\ status[o] = "absent" /\ rowId'[o] = rowId[o]
      BY <1>1, <1>6, <2>2
    <3>2. PICK p \in Flushed : o \in DOMAIN p.done
      BY <3>1
    <3>3. \E q \in Flushed' : o \in DOMAIN q.done
      BY <1>6, <3>2
    <3> QED
      BY <1>2, <1>6, <3>1, <3>3
  <2> QED
    BY <2>1, <2>2
<1>7. ASSUME NEW d \in Devices, GiveUp(d) PROVE OrderSound'
  <2>1. rowId' = rowId /\ status' = status
    BY <1>7 DEF GiveUp, server
  <2> QED
    BY <1>6, <1>7, <2>1, GiveUpIs DEF Flushed
<1>8. ASSUME Flushed' = Flushed, UNCHANGED rowId, ~\E r \in calls : PushCommit(r) PROVE OrderSound'
  BY <1>6, <1>8, CommitIs
<1> QED
  BY <1>3, <1>4, <1>5, <1>7, <1>8, FlushedIs

\* What comes to be live on the server was not, or was pending, or is rebased.
LEMMA LiveIs ==
  ASSUME TypeOK, CallsSound, [Next]_vars, ~Rebases, NEW o \in Ops,
         status'[o] \in {"pending", "applied"}
  PROVE  status[o] \in {"pending", "applied", "absent"}
<1>0. ServerTypeOK
  BY DEF TypeOK
<1>1. ASSUME NEW r \in calls, ServerStep(r) PROVE status[o] \in {"pending", "applied", "absent"}
  <2>1. CASE PushCommit(r)
    BY <1>0, <2>1 DEF PushCommit, ServerTypeOK
  <2>2. CASE ApplyNext(r)
    <3>1. PICK p \in Ops, result \in {"applied", "created", "failed", "conflict"} :
            AppliesNext(r, p, result)
      BY <2>2, ApplyNextIs
    <3> QED
      BY <1>0, <3>1 DEF AppliesNext, ServerTypeOK
  <2>3. CASE Resolve(r)
    <3>1. PICK p \in Ops : Resolves(r, p)
      BY <2>3, ResolveIs
    <3>2. r.kind # "rebase"
      BY DEF CallsSound, CallSound
    <3> QED
      BY <1>0, <3>1, <3>2 DEF Resolves, ServerTypeOK
  <2> QED
    BY <1>1, <2>1, <2>2, <2>3 DEF ServerStep, Lose, PushFlush, ApplyAnswer, Pull, Acknowledge,
                                  server
<1>2. ASSUME NEW d \in Devices, PassStep(d) PROVE status' = status
  BY <1>2 DEF PassStep, StartPass, TakeVerdict, AskApply, TakeResult, RememberIdentity,
              AskPull, Merge, MarkMerged, EndInbox, GiveUp, server
<1>3. ASSUME NEW p \in Ops, UserStep(p) PROVE status' = status
  BY <1>3 DEF UserStep, Enqueue, ResolveLocally, AskResolution, server
<1>4. CASE UNCHANGED vars
  BY <1>4 DEF vars, server
<1> QED
  BY <1>1, <1>2, <1>3, <1>4 DEF Next

LEMMA NextNothingSkipped ==
  ASSUME TypeOK, CallsSound, JournalSound, InOrder, OrderSound, ~Rebases,
         MergedIsCached, NothingSkipped, [Next]_vars
  PROVE  NothingSkipped'
<1>0. Grows /\ ServerTypeOK /\ StoreTypeOK
  BY NextGrows DEF TypeOK
<1> SUFFICES ASSUME NEW d \in Devices, NEW o \in Ops, OpDevice[o] # d,
                    status'[o] \in {"pending", "applied"}, rowId'[o] <= cursor'[d]
             PROVE  inbox'[d][o] # "none"
  BY DEF NothingSkipped
<1>1. CASE status[o] = "absent"
  <2>1. PICK r \in calls : PushCommit(r) /\ rowId[o] # 0
    BY <1>1, CommitIs
  <2>2. cursor' = cursor /\ rowId' = rowId
    BY <2>1 DEF PushCommit, store
  <2>3. cursor[d] < rowId[o] /\ cursor[d] \in Nat /\ rowId[o] \in Nat
    BY <1>0, <1>1, <2>1 DEF OrderSound, ServerTypeOK, StoreTypeOK
  <2> QED
    BY <2>2, <2>3
<1>2. CASE status[o] \in {"pending", "applied"}
  <2>1. rowId'[o] = rowId[o]
    BY <1>0, <1>2 DEF Grows
  <2>2. CASE rowId[o] <= cursor[d]
    BY <1>0, <1>2, <2>2 DEF NothingSkipped, Grows
  <2>3. CASE ~(rowId[o] <= cursor[d])
    <3>1. cursor'[d] # cursor[d] /\ rowId[o] > cursor[d]
      BY <1>0, <2>1, <2>3 DEF ServerTypeOK, StoreTypeOK
    <3>2. CASE o \in acks[d]
      BY <1>0, <3>2 DEF MergedIsCached, Grows
    <3>3. CASE o \notin acks[d]
      <4>1. o \in Deliverable(d)
        BY <1>2, <3>1, <3>3 DEF Deliverable
      <4> QED
        BY <3>1, <4>1, CursorIs
    <3> QED
      BY <3>2, <3>3
  <2> QED
    BY <2>2, <2>3
<1> QED
  BY <1>1, <1>2, LiveIs

---------------------------------------------------------------------------------
(* Theorems                                                                        *)

LEMMA InitIInv == Init => IInv
<1> SUFFICES ASSUME Init PROVE IInv
  OBVIOUS
<1>1. TypeOK
  BY InitTypeOK
<1>2. CallsSound /\ Flushed = {}
  BY DEF Init, CallsSound, Flushed
<1>3. PassesSound
  BY DEF Init, PassesSound, PassSound, IdlePass
<1>4. InboxesSound /\ MergedIsCached
  BY DEF Init, InboxesSound, InboxSound, IdlePass, MergedIsCached
<1>5. ConflictKept /\ AppliedMeansApplied
  BY DEF Init, ConflictKept, AppliedMeansApplied
<1>6. JournalSound /\ OrderSound
  BY <1>2 DEF Init, JournalSound, OneHolder, OrderSound
<1>7. AppliedOnce
  <2>1. \A e \in Entities : {o \in Ops : OpEntity[o] = e /\ status[o] = "applied"} = {}
    BY DEF Init
  <2> QED
    BY <2>1, FS_EmptySet DEF Init, AppliedOnce
<1>8. NothingSkipped
  BY DEF Init, NothingSkipped
<1> QED
  BY <1>1, <1>2, <1>3, <1>4, <1>5, <1>6, <1>7, <1>8 DEF IInv

LEMMA NextIInv == IInv /\ [Next]_vars => IInv'
<1> SUFFICES ASSUME IInv, [Next]_vars PROVE IInv'
  OBVIOUS
<1> USE DEF IInv
<1>1. TypeOK'
  BY NextTypeOK
<1>2. CallsSound' /\ PassesSound'
  BY NextCallsSound, NextPassesSound
<1>3. InboxesSound' /\ MergedIsCached'
  BY NextCopies
<1>4. AppliedMeansApplied' /\ ConflictKept'
  BY NextOutbox
<1>5. JournalSound' /\ (InOrder => OrderSound')
  BY NextJournalSound, NextOrderSound
<1>6. AppliedOnce'
  BY NextAppliedOnce
<1>7. InOrder /\ ~Rebases => NothingSkipped'
  BY NextNothingSkipped
<1> QED
  BY <1>1, <1>2, <1>3, <1>4, <1>5, <1>6, <1>7

LEMMA SpecIInv == Spec => []IInv
<1> USE InitIInv, NextIInv
<1> QED
  BY PTL DEF Spec

\* Every variable of the client, the network and the server keeps to its values.
THEOREM TypeCorrect == Spec => []TypeOK
<1>1. IInv => TypeOK
  BY DEF IInv
<1> QED
  BY <1>1, SpecIInv, PTL

\* Whatever calls and replies are lost, repeated or late, and wherever stations stop: what
\* a station shows as applied is applied (mark_result), and once (apply_operation), and
\* the conflicts that the server waits to see resolved are listed by their station.
THEOREM TrulyApplied == Spec => []AppliedTruly
<1>1. IInv => AppliedTruly
  BY DEF IInv, AppliedTruly, ConflictKept, ConflictListed
<1> QED
  BY <1>1, SpecIInv, PTL

\* What a station acknowledged (acknowledge) or marked as merged (mark_inbox_applied) is in
\* its copy, or a newer version is: it may stop between any two of its writes.
THEOREM CopiesKeepUp == Spec => []MergedIsCached
<1>1. IInv => MergedIsCached
  BY DEF IInv
<1> QED
  BY <1>1, SpecIInv, PTL

\* On a server that commits rows in the order of their ids, and whose conflicts nobody
\* rebases, the cursor of a station (next_id, last_pull_id) passes no live operation of
\* another station that it does not have.
THEOREM CursorSkipsNothing ==
  ASSUME InOrder, ~Rebases
  PROVE  Spec => []NothingSkipped
<1>1. IInv => NothingSkipped
  BY DEF IInv
<1> QED
  BY <1>1, SpecIInv, PTL

\* Both, for a station that reads, among the clients of a school: on such a server pull and
\* its cursor (next_id) leave nothing out, and what it merged or acknowledged is there.
THEOREM ReaderHasAll ==
  ASSUME InOrder, ~Rebases
  PROVE  ClientsSpec => []ReaderIsUpToDate
<1> DEFINE Inv == part = "reading" => IInv
<1>1. ClientsInit => Inv
  BY InitIInv DEF ClientsInit
<1>2. Inv /\ [ClientsNext]_<<vars, browser, phone, part>> => Inv'
  <2> SUFFICES ASSUME Inv, [ClientsNext]_<<vars, browser, phone, part>>, part' = "reading"
               PROVE  IInv'
    OBVIOUS
  <2>1. part = "reading" /\ [Next]_vars
    BY DEF ClientsNext
  <2> QED
    BY <2>1, NextIInv
<1>3. Inv => ReaderIsUpToDate
  BY DEF IInv, ReaderIsUpToDate
<1> QED
  BY <1>1, <1>2, <1>3, PTL DEF ClientsSpec

\* No step takes back what the server applied or refused for good, the id of a committed
\* row, or what a station has received and merged.
THEOREM NeverUndone == Spec => [][Grows]_vars
<1>1. IInv /\ [Next]_vars => Grows
  BY NextGrows DEF IInv
<1> QED
  BY <1>1, SpecIInv, PTL DEF Spec

---------------------------------------------------------------------------------
(* The offline queue of the browser, for any tabs and writes.                     *)

Says == {"nothing", "done", "refused", "error", "queued"}
Run == [at : Browser!Stages, left : Seq(Writes)]
In(q, r) == \E i \in DOMAIN q : q[i] = r
Once(q) == \A i, j \in DOMAIN q : q[i] = q[j] => i = j
Ahead(q, a, b) == \E i, j \in DOMAIN q : i < j /\ q[i] = a /\ q[j] = b

RunOK(run) == run \in Run /\ (run.at = "idle" <=> run.left = <<>>)

\* The state of the browser keeps to its values.
QueueTyped ==
  /\ online \in BOOLEAN /\ cookie \in BOOLEAN
  /\ token \in [Tabs -> {"none", "good", "stale"}]
  /\ queue \in Seq(Writes) /\ Once(queue)
  /\ ended \in Seq(Writes) /\ Once(ended)
  /\ page \in [Tabs -> Run] /\ flow \in [Tabs -> Run]
  /\ \A t \in Tabs : RunOK(page[t]) /\ RunOK(flow[t]) /\ Len(page[t].left) <= 1
  /\ told \in [Writes -> Says]
  /\ done \in [Writes -> Nat]

\* Who has a write in hand tells what the user was told of it: a page that is sending it
\* has told nothing, and is the only one; what is queued, replayed or answered was queued.
OneAsks ==
  \A r \in Writes :
    /\ In(queue, r) \/ In(ended, r) \/ (\E t \in Tabs : In(flow[t].left, r)) => told[r] = "queued"
    /\ \A t \in Tabs : In(page[t].left, r) => told[r] = "nothing"
    /\ \A t, u \in Tabs : In(page[t].left, r) /\ In(page[u].left, r) => t = u

Kept == \A r \in Writes : told[r] = "queued" => In(queue, r) \/ In(ended, r)

\* A run that is about to delete has the answer.
AnsweredEnded ==
  \A t \in Tabs : flow[t].at = "answered" => In(ended, flow[t].left[1])

EndsInOrder ==
  \A a, b \in Writes : Ahead(queue, a, b) /\ In(ended, b) => In(ended, a)

\* What is before a write that a run has still to send was answered, or the run sends it
\* first: other tabs may have taken it out of the store, or stopped before it, meanwhile.
FlowInOrder ==
  \A t \in Tabs : \A k \in DOMAIN flow[t].left : \A a \in Writes :
    Ahead(queue, a, flow[t].left[k]) =>
      In(ended, a) \/ \E m \in DOMAIN flow[t].left : m < k /\ flow[t].left[m] = a

QueueInv == QueueTyped /\ OneAsks /\ Kept /\ AnsweredEnded /\ EndsInOrder /\ FlowInOrder

LEMMA AppendIs ==
  ASSUME NEW q \in Seq(Writes), NEW r \in Writes
  PROVE  /\ Append(q, r) \in Seq(Writes)
         /\ \A x : In(Append(q, r), x) <=> In(q, x) \/ x = r
         /\ \A a, b : Ahead(Append(q, r), a, b) <=> Ahead(q, a, b) \/ (b = r /\ In(q, a))
         /\ Once(q) /\ ~In(q, r) => Once(Append(q, r))
<1> DEFINE p == Append(q, r)
<1>1. p \in Seq(Writes) /\ Len(p) = Len(q) + 1 /\ Len(q) \in Nat /\ p[Len(q) + 1] = r
      /\ \A i \in 1..Len(q) : p[i] = q[i]
  OBVIOUS
<1>2. DOMAIN p = 1..(Len(q) + 1) /\ DOMAIN q = 1..Len(q)
  BY <1>1
<1> HIDE DEF p
<1>3. ASSUME NEW x PROVE In(p, x) <=> In(q, x) \/ x = r
  BY <1>1, <1>2 DEF In
<1>4. ASSUME NEW a, NEW b PROVE Ahead(p, a, b) <=> Ahead(q, a, b) \/ (b = r /\ In(q, a))
  <2>1. Ahead(p, a, b) => Ahead(q, a, b) \/ (b = r /\ In(q, a))
    BY <1>1, <1>2 DEF Ahead, In
  <2>2. Ahead(q, a, b) => Ahead(p, a, b)
    BY <1>1, <1>2 DEF Ahead
  <2>3. b = r /\ In(q, a) => Ahead(p, a, b)
    BY <1>1, <1>2 DEF Ahead, In
  <2> QED
    BY <2>1, <2>2, <2>3
<1>5. Once(q) /\ ~In(q, r) => Once(p)
  BY <1>1, <1>2 DEF Once, In
<1> QED
  BY <1>1, <1>3, <1>4, <1>5 DEF p

LEMMA RemovedAt ==
  ASSUME NEW q \in Seq(Writes), NEW i \in 1..Len(q)
  PROVE  /\ Browser!RemoveAt(q, i) \in Seq(Writes)
         /\ Len(Browser!RemoveAt(q, i)) = Len(q) - 1
         /\ \A j \in 1..(Len(q) - 1) :
              Browser!RemoveAt(q, i)[j] = IF j < i THEN q[j] ELSE q[j + 1]
<1>1. SubSeq(q, 1, i - 1) \in Seq(Writes) /\ SubSeq(q, i + 1, Len(q)) \in Seq(Writes)
  OBVIOUS
<1>2. Len(SubSeq(q, 1, i - 1)) = i - 1 /\ Len(SubSeq(q, i + 1, Len(q))) = Len(q) - i
  OBVIOUS
<1> DEFINE a == SubSeq(q, 1, i - 1)
           b == SubSeq(q, i + 1, Len(q))
<1>3. \A j \in 1..(i - 1) : a[j] = q[j]
  OBVIOUS
<1>4. \A j \in 1..(Len(q) - i) : b[j] = q[i + j]
  OBVIOUS
<1> HIDE DEF a, b
<1>5. a \o b \in Seq(Writes) /\ Len(a \o b) = (i - 1) + (Len(q) - i)
  <2>1. a \in Seq(Writes) /\ b \in Seq(Writes) /\ Len(a) = i - 1 /\ Len(b) = Len(q) - i
    BY <1>1, <1>2 DEF a, b
  <2>2. a \o b \in Seq(Writes) /\ Len(a \o b) = Len(a) + Len(b)
    BY <2>1
  <2> QED
    BY <2>1, <2>2
<1>6. ASSUME NEW j \in 1..(Len(q) - 1)
      PROVE  (a \o b)[j] = IF j < i THEN q[j] ELSE q[j + 1]
  <2>1. CASE j < i
    <3>1. j \in 1..Len(a)
      BY <1>2, <2>1 DEF a
    <3>2. (a \o b)[j] = a[j]
      <4>1. a \in Seq(Writes) /\ b \in Seq(Writes)
        BY <1>1 DEF a, b
      <4> QED
        BY <3>1, <4>1
    <3> QED
      BY <1>2, <1>3, <2>1, <3>1, <3>2 DEF a
  <2>2. CASE ~(j < i)
    <3>1. Len(a) = i - 1 /\ Len(b) = Len(q) - i /\ Len(q) \in Nat
      BY <1>2 DEF a, b
    <3>2. (a \o b)[j] = b[j - Len(a)]
      <4>1. a \in Seq(Writes) /\ b \in Seq(Writes)
        BY <1>1 DEF a, b
      <4>2. j \in (Len(a) + 1)..(Len(a) + Len(b))
        BY <3>1, <2>2
      <4> QED
        BY <4>1, <4>2
    <3>3. j - (i - 1) \in 1..(Len(q) - i) /\ i + (j - (i - 1)) = j + 1
      BY <3>1, <2>2
    <3> QED
      BY <1>4, <2>2, <3>1, <3>2, <3>3
  <2> QED
    BY <2>1, <2>2
<1>7. Browser!RemoveAt(q, i) = a \o b
  BY DEF Browser!RemoveAt, a, b
<1>8. Len(a \o b) = Len(q) - 1
  BY <1>5
<1> QED
  BY <1>5, <1>6, <1>7, <1>8

\* delQueue: the others stay, in their order.
LEMMA GoneIs ==
  ASSUME NEW r \in Writes, queue \in Seq(Writes), Once(queue)
  PROVE  /\ Browser!Gone(r) \in Seq(Writes) /\ Once(Browser!Gone(r))
         /\ \A x : In(Browser!Gone(r), x) <=> In(queue, x) /\ x # r
         /\ \A a, b : Ahead(Browser!Gone(r), a, b) => Ahead(queue, a, b)
<1> DEFINE g == Browser!Gone(r)
<1>1. CASE ~In(queue, r)
  <2>1. g = queue
    BY <1>1 DEF Browser!Gone, Browser!RemoveFirst, In
  <2> QED
    BY <1>1, <2>1 DEF In
<1>2. CASE In(queue, r)
  <2>1. PICK i \in 1..Len(queue) : queue[i] = r
    BY <1>2 DEF In
  <2> DEFINE I == {j \in 1..Len(queue) : queue[j] = r}
  <2>2. I = {i}
    BY <2>1 DEF Once
  <2>3. Browser!SelectInSeq(queue, LAMBDA v : v = r) = i
    <3>1. Browser!Min({i}) = i
      BY DEF Browser!Min
    <3> QED
      BY <2>2, <3>1 DEF Browser!SelectInSeq
  <2>4. g = Browser!RemoveAt(queue, i)
    BY <2>1, <2>3 DEF Browser!Gone, Browser!RemoveFirst
  <2>5. g \in Seq(Writes) /\ Len(g) = Len(queue) - 1
        /\ \A j \in 1..(Len(queue) - 1) : g[j] = IF j < i THEN queue[j] ELSE queue[j + 1]
    BY <2>4, RemovedAt
  <2>6. DOMAIN g = 1..(Len(queue) - 1) /\ DOMAIN queue = 1..Len(queue) /\ Len(queue) \in Nat
    BY <2>5
  <2> HIDE DEF g
  <2>7. Once(g)
    BY <2>5, <2>6 DEF Once
  <2>8. ASSUME NEW x, In(g, x) PROVE In(queue, x) /\ x # r
    BY <2>1, <2>5, <2>6, <2>8 DEF In, Once
  <2>9. ASSUME NEW x, In(queue, x), x # r PROVE In(g, x)
    <3>1. PICK j \in 1..Len(queue) : queue[j] = x
      BY <2>6, <2>9 DEF In
    <3>2. CASE j < i
      BY <2>1, <2>5, <2>6, <3>1, <3>2 DEF In
    <3>3. CASE j > i
      <4>1. j - 1 \in 1..(Len(queue) - 1) /\ ~(j - 1 < i) /\ (j - 1) + 1 = j
        BY <3>3, <2>6
      <4> QED
        BY <2>5, <2>6, <3>1, <4>1 DEF In
    <3> QED
      BY <2>1, <2>9, <3>1, <3>2, <3>3
  <2>10. ASSUME NEW a, NEW b, Ahead(g, a, b) PROVE Ahead(queue, a, b)
    <3>1. PICK j, k \in 1..(Len(queue) - 1) : j < k /\ g[j] = a /\ g[k] = b
      BY <2>6, <2>10 DEF Ahead
    <3> DEFINE up(n) == IF n < i THEN n ELSE n + 1
    <3>2. up(j) \in 1..Len(queue) /\ up(k) \in 1..Len(queue) /\ up(j) < up(k)
      BY <2>6, <3>1
    <3>3. queue[up(j)] = a /\ queue[up(k)] = b
      BY <2>5, <3>1
    <3> QED
      BY <2>6, <3>2, <3>3 DEF Ahead
  <2> QED
    BY <2>7, <2>5, <2>8, <2>9, <2>10 DEF g
<1> QED
  BY <1>1, <1>2

LEMMA TailIs ==
  ASSUME NEW q \in Seq(Writes), q # <<>>
  PROVE  /\ Tail(q) \in Seq(Writes) /\ Len(Tail(q)) = Len(q) - 1 /\ Head(q) = q[1]
         /\ DOMAIN Tail(q) = 1..(Len(q) - 1) /\ DOMAIN q = 1..Len(q) /\ Len(q) \in Nat \ {0}
         /\ \A k \in 1..(Len(q) - 1) : Tail(q)[k] = q[k + 1]
         /\ Len(q) # 1 => Tail(q) # <<>>
<1>1. Tail(q) \in Seq(Writes) /\ Len(Tail(q)) = Len(q) - 1 /\ Head(q) = q[1]
      /\ Len(q) \in Nat \ {0} /\ DOMAIN q = 1..Len(q)
  OBVIOUS
<1>2. \A k \in 1..(Len(q) - 1) : Tail(q)[k] = q[k + 1]
  OBVIOUS
<1>3. DOMAIN Tail(q) = 1..(Len(q) - 1)
  BY <1>1
<1>4. Len(q) # 1 => Tail(q) # <<>>
  <2>1. Len(<<>>) = 0
    OBVIOUS
  <2>2. Len(q) # 1 => Len(Tail(q)) # 0
    BY <1>1
  <2> QED
    BY <2>1, <2>2
<1> QED
  BY <1>1, <1>2, <1>3, <1>4

\* The elements of the sequences are writes.
LEMMA Elements ==
  ASSUME QueueTyped
  PROVE  /\ \A r : In(queue, r) \/ In(ended, r) => r \in Writes
         /\ \A t \in Tabs : \A r : In(flow[t].left, r) \/ In(page[t].left, r) => r \in Writes
<1>1. ASSUME NEW q \in Seq(Writes), NEW r, In(q, r) PROVE r \in Writes
  BY <1>1 DEF In
<1> QED
  BY <1>1 DEF QueueTyped, RunOK, Run

LEMMA InEmpty == \A r : ~In(<<>>, r)
BY DEF In

\* What a run has in hand.
LEMMA HeadIs ==
  ASSUME NEW run, RunOK(run), run.at # "idle"
  PROVE  /\ run.left \in Seq(Writes) /\ run.left # <<>>
         /\ Head(run.left) = run.left[1] /\ run.left[1] \in Writes
         /\ 1 \in DOMAIN run.left /\ In(run.left, run.left[1])
BY TailIs DEF RunOK, Run, In

LEMMA BrowserInit == Browser!Init => QueueInv
<1> SUFFICES ASSUME Browser!Init PROVE QueueInv
  OBVIOUS
<1> USE DEF Browser!Init, Browser!Quiet
<1>1. Browser!Quiet \in Run /\ RunOK(Browser!Quiet)
  BY DEF Run, RunOK, Browser!Stages
<1>2. QueueTyped
  BY <1>1 DEF QueueTyped, RunOK, Says, Once
<1>3. OneAsks /\ Kept
  BY InEmpty DEF OneAsks, Kept
<1>4. AnsweredEnded
  BY DEF AnsweredEnded
<1>5. EndsInOrder /\ FlowInOrder
  BY InEmpty DEF EndsInOrder, FlowInOrder
<1> QED
  BY <1>2, <1>3, <1>4, <1>5 DEF QueueInv

\* What the runs of a state become where none gets more to send.
Shorter ==
  \A t \in Tabs :
    /\ flow'[t].left \in {flow[t].left, <<>>} /\ page'[t].left \in {page[t].left, <<>>}
    /\ flow'[t].at = "answered" => flow[t].at = "answered" /\ flow'[t].left = flow[t].left

\* A step that queues and answers nothing; who loses a write is told something else.
LEMMA FewerStep ==
  ASSUME QueueInv, QueueTyped', queue' = queue, ended' = ended, Shorter,
         \A r \in Writes :
           \/ told'[r] = told[r]
           \/ /\ told[r] = "nothing" /\ told'[r] # "queued"
              /\ \A t \in Tabs : ~In(page'[t].left, r)
  PROVE  QueueInv'
<1> USE DEF QueueInv
<1>1. ASSUME NEW t \in Tabs, NEW r
      PROVE  /\ In(flow'[t].left, r) => In(flow[t].left, r)
             /\ In(page'[t].left, r) => In(page[t].left, r)
  BY InEmpty DEF Shorter
<1>2. OneAsks'
  BY <1>1 DEF OneAsks
<1>3. Kept'
  BY DEF Kept
<1>4. AnsweredEnded'
  BY DEF AnsweredEnded, Shorter
<1>5. EndsInOrder'
  BY DEF EndsInOrder
<1>6. FlowInOrder'
  <2> SUFFICES ASSUME NEW t \in Tabs, NEW k \in DOMAIN flow'[t].left, NEW a \in Writes,
                      Ahead(queue, a, flow'[t].left[k])
               PROVE  \/ In(ended, a)
                      \/ \E m \in DOMAIN flow'[t].left : m < k /\ flow'[t].left[m] = a
    BY DEF FlowInOrder
  <2>1. flow'[t].left # <<>>
    OBVIOUS
  <2>2. flow'[t].left = flow[t].left
    BY <2>1 DEF Shorter
  <2> QED
    BY <2>2 DEF FlowInOrder
<1> QED
  BY <1>2, <1>3, <1>4, <1>5, <1>6

\* queueMutation: a write that the page had in hand goes to the end of the store.
LEMMA QueuedStep ==
  ASSUME QueueInv, QueueTyped', Shorter, ended' = ended,
         NEW t \in Tabs, NEW r \in Writes, In(page[t].left, r),
         Browser!Queued(r), \A u \in Tabs : ~In(page'[u].left, r)
  PROVE  QueueInv'
<1> USE DEF QueueInv
<1>1. told[r] = "nothing" /\ ~In(queue, r) /\ ~In(ended, r)
      /\ \A u \in Tabs : ~In(flow[u].left, r)
  BY DEF OneAsks
<1>2. queue' = Append(queue, r) /\ told' = [told EXCEPT ![r] = "queued"]
  BY DEF Browser!Queued
<1>3. queue \in Seq(Writes) /\ told \in [Writes -> Says]
  BY DEF QueueTyped
<1>4. \A x : In(queue', x) <=> In(queue, x) \/ x = r
  BY <1>2, <1>3, AppendIs
<1>5. \A a, b : Ahead(queue', a, b) <=> Ahead(queue, a, b) \/ (b = r /\ In(queue, a))
  BY <1>2, <1>3, AppendIs
<1>6. ASSUME NEW u \in Tabs, NEW x
      PROVE  /\ In(flow'[u].left, x) => In(flow[u].left, x)
             /\ In(page'[u].left, x) => In(page[u].left, x)
  BY InEmpty DEF Shorter
<1>7. told'[r] = "queued" /\ \A x \in Writes \ {r} : told'[x] = told[x]
  BY <1>2, <1>3
<1>8. OneAsks'
  BY <1>4, <1>6, <1>7 DEF OneAsks
<1>9. Kept'
  BY <1>4, <1>7 DEF Kept
<1>10. AnsweredEnded'
  BY DEF AnsweredEnded, Shorter
<1>11. EndsInOrder'
  BY <1>1, <1>5 DEF EndsInOrder
<1>12. FlowInOrder'
  <2> SUFFICES ASSUME NEW u \in Tabs, NEW k \in DOMAIN flow'[u].left, NEW a \in Writes,
                      Ahead(queue', a, flow'[u].left[k])
               PROVE  \/ In(ended, a)
                      \/ \E m \in DOMAIN flow'[u].left : m < k /\ flow'[u].left[m] = a
    BY DEF FlowInOrder
  <2>1. flow'[u].left # <<>>
    OBVIOUS
  <2>2. flow'[u].left = flow[u].left
    BY <2>1 DEF Shorter
  <2>3. flow[u].left[k] # r
    BY <1>1, <2>2 DEF In
  <2> QED
    BY <1>5, <2>2, <2>3 DEF FlowInOrder
<1> QED
  BY <1>8, <1>9, <1>10, <1>11, <1>12

---------------------------------------------------------------------------------
LEMMA GoesTyped ==
  ASSUME NEW act \in [Tabs -> Run], NEW t \in Tabs, NEW stage \in Browser!Stages,
         act[t].at # "idle", stage # "idle", \A u \in Tabs : RunOK(act[u])
  PROVE  LET new == Browser!Goes(act, t, stage) IN
         /\ new \in [Tabs -> Run] /\ \A u \in Tabs : RunOK(new[u])
         /\ \A u \in Tabs : new[u].left = act[u].left
         /\ \A u \in Tabs \ {t} : new[u] = act[u]
         /\ new[t].at = stage
BY DEF Browser!Goes, Run, RunOK

LEMMA QuietIs == Browser!Quiet \in Run /\ RunOK(Browser!Quiet) /\ Browser!Quiet.left = <<>>
                 /\ Browser!Quiet.at = "idle" /\ Len(Browser!Quiet.left) <= 1
BY DEF Browser!Quiet, Run, RunOK, Browser!Stages

LEMMA AbandonedIs ==
  ASSUME QueueTyped, OneAsks, NEW t \in Tabs
  PROVE  /\ Browser!Abandoned(t) \in [Writes -> Says]
         /\ \A r \in Writes : Browser!Abandoned(t)[r] = 
              IF In(page[t].left, r) THEN "error" ELSE told[r]
<1>1. \A r : r \in Browser!ToSet(page[t].left) <=> In(page[t].left, r)
  BY DEF Browser!ToSet, In
<1> QED
  BY <1>1 DEF Browser!Abandoned, QueueTyped, Says

LEMMA LeaveStep ==
  ASSUME QueueInv, NEW t \in Tabs, Browser!Leave(t),
         UNCHANGED <<queue, done, ended>>,
         online' \in BOOLEAN, cookie' \in BOOLEAN, token' \in [Tabs -> {"none", "good", "stale"}]
  PROVE  QueueInv'
<1> USE DEF QueueInv
<1>1. page' = [page EXCEPT ![t] = Browser!Quiet] /\ flow' = [flow EXCEPT ![t] = Browser!Quiet]
      /\ told' = Browser!Abandoned(t)
  BY DEF Browser!Leave
<1>2. page \in [Tabs -> Run] /\ flow \in [Tabs -> Run]
  BY DEF QueueTyped
<1>3. /\ page'[t] = Browser!Quiet /\ flow'[t] = Browser!Quiet
      /\ \A u \in Tabs \ {t} : page'[u] = page[u] /\ flow'[u] = flow[u]
      /\ page' \in [Tabs -> Run] /\ flow' \in [Tabs -> Run]
  BY <1>1, <1>2, QuietIs
<1>4. \A u \in Tabs : RunOK(page'[u]) /\ RunOK(flow'[u]) /\ Len(page'[u].left) <= 1
  BY <1>3, QuietIs DEF QueueTyped
<1>5. QueueTyped'
  BY <1>1, <1>3, <1>4, AbandonedIs DEF QueueTyped
<1>6. Shorter
  BY <1>3, QuietIs DEF Shorter
<1>7. ASSUME NEW r \in Writes
      PROVE  \/ told'[r] = told[r]
             \/ /\ told[r] = "nothing" /\ told'[r] # "queued"
                /\ \A u \in Tabs : ~In(page'[u].left, r)
  BY <1>1, <1>3, QuietIs, InEmpty, AbandonedIs DEF OneAsks
<1> QED
  BY <1>5, <1>6, <1>7, FewerStep

LEMMA FlagStep ==
  ASSUME QueueInv, UNCHANGED <<queue, page, flow, told, done, ended>>,
         online' \in BOOLEAN, cookie' \in BOOLEAN, token' \in [Tabs -> {"none", "good", "stale"}]
  PROVE  QueueInv'
<1>1. QueueTyped'
  BY DEF QueueInv, QueueTyped
<1>2. Shorter
  BY DEF Shorter
<1> QED
  BY <1>1, <1>2, FewerStep

LEMMA AroundStep ==
  ASSUME QueueInv, NEW t \in Tabs,
         \/ Browser!Disconnect \/ Browser!Connect \/ Browser!Expire(t) \/ Browser!ClosePage(t)
         \/ Browser!SignOut(t) \/ Browser!SignIn(t) \/ Browser!Restore(t)
  PROVE  QueueInv'
<1>1. /\ online \in BOOLEAN /\ cookie \in BOOLEAN
      /\ token \in [Tabs -> {"none", "good", "stale"}]
  BY DEF QueueInv, QueueTyped
<1>2. CASE \/ Browser!Disconnect \/ Browser!Connect \/ Browser!Expire(t) \/ Browser!SignIn(t)
           \/ Browser!Restore(t)
  BY <1>1, <1>2, FlagStep
     DEF Browser!Disconnect, Browser!Connect, Browser!Expire, Browser!SignIn, Browser!Restore,
         Browser!shown
<1>3. CASE Browser!ClosePage(t)
  BY <1>1, <1>3, LeaveStep DEF Browser!ClosePage
<1>4. CASE Browser!SignOut(t)
  <2>1. token' \in [Tabs -> {"none", "good", "stale"}]
    BY <1>1, <1>4 DEF Browser!SignOut
  <2>2. cookie' \in BOOLEAN /\ online' \in BOOLEAN /\ UNCHANGED <<queue, done, ended>>
        /\ Browser!Leave(t)
    BY <1>1, <1>4 DEF Browser!SignOut
  <2> QED
    BY <2>1, <2>2, LeaveStep
<1> QED
  BY <1>2, <1>3, <1>4

\* A page begins a write, which nobody has yet.
LEMMA AskStep ==
  ASSUME QueueInv, NEW t \in Tabs, NEW r \in Writes, Browser!Ask(t, r)
  PROVE  QueueInv'
<1> USE DEF QueueInv
<1> DEFINE run == [at |-> "send", left |-> <<r>>]
<1>1. /\ told[r] = "nothing" /\ page' = [page EXCEPT ![t] = run]
      /\ UNCHANGED <<online, cookie, token, queue, flow, told, done, ended>>
  BY DEF Browser!Ask, Browser!shown
<1>2. \A u \in Tabs : ~In(page[u].left, r)
  BY DEF Browser!Ask, Browser!ToSet, In
<1>3. run \in Run /\ RunOK(run) /\ Len(run.left) <= 1 /\ \A x : In(run.left, x) <=> x = r
  BY DEF Run, RunOK, Browser!Stages, In
<1> HIDE DEF run
<1>4. page'[t] = run /\ page' \in [Tabs -> Run] /\ \A u \in Tabs \ {t} : page'[u] = page[u]
  BY <1>1, <1>3 DEF QueueTyped
<1>5. QueueTyped'
  BY <1>1, <1>3, <1>4 DEF QueueTyped
<1>6. OneAsks'
  BY <1>1, <1>2, <1>3, <1>4 DEF OneAsks
<1> QED
  BY <1>1, <1>5, <1>6 DEF Kept, AnsweredEnded, EndsInOrder, FlowInOrder

LEMMA EndsIs ==
  ASSUME QueueTyped, NEW t \in Tabs, Browser!Ends(t)
  PROVE  /\ page' \in [Tabs -> Run] /\ page'[t] = Browser!Quiet /\ page'[t].left = <<>>
         /\ \A u \in Tabs \ {t} : page'[u] = page[u]
         /\ \A u \in Tabs : /\ RunOK(page'[u]) /\ Len(page'[u].left) <= 1
                            /\ page'[u].left \in {page[u].left, <<>>}
BY QuietIs DEF QueueTyped, Browser!Ends

\* The write that a page has in hand.
LEMMA InHand ==
  ASSUME QueueInv, NEW t \in Tabs, page[t].at # "idle"
  PROVE  /\ Head(page[t].left) \in Writes /\ In(page[t].left, Head(page[t].left))
         /\ told[Head(page[t].left)] = "nothing"
         /\ \A u \in Tabs \ {t} : ~In(page[u].left, Head(page[t].left))
<1>1. RunOK(page[t])
  BY DEF QueueInv, QueueTyped
<1>2. Head(page[t].left) \in Writes /\ In(page[t].left, Head(page[t].left))
  BY <1>1, HeadIs
<1> QED
  BY <1>2 DEF QueueInv, OneAsks

LEMMA PerformedIs ==
  ASSUME QueueTyped, NEW r \in Writes, NEW taken
  PROVE  Browser!Performed(r, taken) \in [Writes -> Nat]
BY DEF Browser!Performed, QueueTyped

LEMMA AnsweredStep ==
  ASSUME QueueInv, NEW t \in Tabs, Browser!AskAnswered(t)
  PROVE  QueueInv'
<1> USE DEF QueueInv
<1> DEFINE r == Head(page[t].left)
<1>1. /\ page[t].at # "idle" /\ Browser!Ends(t)
      /\ told' = [told EXCEPT ![r] = IF r \in Refused THEN "refused" ELSE "done"]
      /\ done' = Browser!Performed(r, r \notin Refused)
      /\ UNCHANGED <<online, cookie, token, queue, flow, ended>>
  BY DEF Browser!AskAnswered, Browser!Sending
<1>2. /\ r \in Writes /\ told[r] = "nothing"
      /\ \A u \in Tabs \ {t} : ~In(page[u].left, r)
  BY <1>1, InHand
<1> HIDE DEF r
<1>3. told' \in [Writes -> Says] /\ told'[r] # "queued"
      /\ \A x \in Writes \ {r} : told'[x] = told[x]
  BY <1>1, <1>2 DEF QueueTyped, Says
<1>4. done' \in [Writes -> Nat]
  BY <1>1, <1>2, PerformedIs
<1>5. QueueTyped'
  BY <1>1, <1>3, <1>4, EndsIs DEF QueueTyped
<1>6. Shorter
  BY <1>1, EndsIs DEF Shorter
<1>7. \A u \in Tabs : ~In(page'[u].left, r)
  BY <1>1, <1>2, EndsIs, InEmpty
<1> QED
  BY <1>1, <1>2, <1>3, <1>5, <1>6, <1>7, FewerStep

LEMMA QueuedTyped ==
  ASSUME QueueInv, NEW r \in Writes, told[r] = "nothing", Browser!Queued(r)
  PROVE  queue' \in Seq(Writes) /\ Once(queue') /\ told' \in [Writes -> Says]
<1>1. ~In(queue, r)
  BY DEF QueueInv, OneAsks
<1>2. queue' = Append(queue, r) /\ told' = [told EXCEPT ![r] = "queued"]
  BY DEF Browser!Queued
<1> QED
  BY <1>1, <1>2, AppendIs DEF QueueInv, QueueTyped, Says

LEMMA FailsStep ==
  ASSUME QueueInv, NEW t \in Tabs, Browser!AskFails(t)
  PROVE  QueueInv'
<1> USE DEF QueueInv
<1> DEFINE r == Head(page[t].left)
<1>1. /\ page[t].at # "idle" /\ Browser!Ends(t) /\ Browser!Queued(r)
      /\ done' = done \/ done' = Browser!Performed(r, r \notin Refused)
      /\ UNCHANGED <<online, cookie, token, flow, ended>>
  BY DEF Browser!AskFails, Browser!Sending
<1>2. /\ r \in Writes /\ told[r] = "nothing" /\ In(page[t].left, r)
      /\ \A u \in Tabs \ {t} : ~In(page[u].left, r)
  BY <1>1, InHand
<1> HIDE DEF r
<1>3. done' \in [Writes -> Nat]
  BY <1>1, <1>2, PerformedIs DEF QueueTyped
<1>4. QueueTyped'
  BY <1>1, <1>2, <1>3, EndsIs, QueuedTyped DEF QueueTyped
<1>5. Shorter
  BY <1>1, EndsIs DEF Shorter
<1>6. \A u \in Tabs : ~In(page'[u].left, r)
  BY <1>1, <1>2, EndsIs, InEmpty
<1> QED
  BY <1>1, <1>2, <1>4, <1>5, <1>6, QueuedStep

LEMMA UnauthorizedStep ==
  ASSUME QueueInv, NEW t \in Tabs,
         Browser!AskUnauthorized(t) \/ Browser!ReplayUnauthorized(t) \/ Browser!Refresh(t)
  PROVE  QueueInv'
<1> USE DEF QueueInv
<1> DEFINE Goes(act, new) ==
      \/ new = act
      \/ /\ act[t].at \in {"send", "refresh"}
         /\ \E stage \in {"refresh", "again"} : new = Browser!Goes(act, t, stage)
<1>1. /\ Goes(page, page') /\ Goes(flow, flow')
      /\ token' = token \/ token' = [token EXCEPT ![t] = "good"]
      /\ UNCHANGED <<online, cookie, queue, told, done, ended>>
  <2>1. CASE Browser!AskUnauthorized(t)
    BY <2>1 DEF Browser!AskUnauthorized, Browser!shown
  <2>2. CASE Browser!ReplayUnauthorized(t)
    BY <2>2 DEF Browser!ReplayUnauthorized, Browser!shown
  <2>3. CASE Browser!Refresh(t)
    BY <2>3 DEF Browser!Refresh, Browser!shown
  <2> QED
    BY <2>1, <2>2, <2>3
<1>2. ASSUME NEW act \in [Tabs -> Run], NEW new, Goes(act, new), \A u \in Tabs : RunOK(act[u])
      PROVE  /\ new \in [Tabs -> Run] /\ \A u \in Tabs : RunOK(new[u])
             /\ \A u \in Tabs : new[u].left = act[u].left
             /\ \A u \in Tabs : new[u].at = "answered" => act[u].at = "answered"
  <2>1. CASE new = act
    BY <1>2, <2>1
  <2>2. CASE new # act
    <3>1. PICK stage \in {"refresh", "again"} : new = Browser!Goes(act, t, stage)
      BY <1>2, <2>2
    <3>2. stage \in Browser!Stages /\ stage \notin {"idle", "answered"} /\ act[t].at # "idle"
      BY <1>2, <2>2 DEF Browser!Stages
    <3>3. /\ new \in [Tabs -> Run] /\ \A u \in Tabs : RunOK(new[u])
          /\ \A u \in Tabs : new[u].left = act[u].left
          /\ \A u \in Tabs \ {t} : new[u] = act[u]
          /\ new[t].at = stage
      BY <1>2, <3>1, <3>2, GoesTyped
    <3> QED
      BY <3>2, <3>3
  <2> QED
    BY <2>1, <2>2
<1> HIDE DEF Goes
<1>3. page \in [Tabs -> Run] /\ flow \in [Tabs -> Run]
      /\ \A u \in Tabs : RunOK(page[u]) /\ RunOK(flow[u])
  BY DEF QueueTyped
<1>4. /\ page' \in [Tabs -> Run] /\ \A u \in Tabs : RunOK(page'[u])
      /\ \A u \in Tabs : page'[u].left = page[u].left
  BY <1>1, <1>2, <1>3
<1>5. /\ flow' \in [Tabs -> Run] /\ \A u \in Tabs : RunOK(flow'[u])
      /\ \A u \in Tabs : flow'[u].left = flow[u].left
      /\ \A u \in Tabs : flow'[u].at = "answered" => flow[u].at = "answered"
  BY <1>1, <1>2, <1>3
<1>6. token' \in [Tabs -> {"none", "good", "stale"}]
  BY <1>1 DEF QueueTyped
<1>7. QueueTyped'
  BY <1>1, <1>4, <1>5, <1>6 DEF QueueTyped
<1>8. Shorter
  BY <1>4, <1>5 DEF Shorter
<1> QED
  BY <1>1, <1>7, <1>8, FewerStep

LEMMA SessionStep ==
  ASSUME QueueInv, NEW t \in Tabs, Browser!SessionEnds(t)
  PROVE  QueueInv'
<1> USE DEF QueueInv
<1>1. CASE queue' = queue /\ told' = Browser!Abandoned(t)
  <2>1. Browser!Leave(t) /\ UNCHANGED <<queue, done, ended>>
        /\ online' = online /\ cookie' = cookie /\ token' = [token EXCEPT ![t] = "none"]
    BY <1>1 DEF Browser!SessionEnds, Browser!Leave
  <2>2. token' \in [Tabs -> {"none", "good", "stale"}]
        /\ online' \in BOOLEAN /\ cookie' \in BOOLEAN
    BY <2>1 DEF QueueTyped
  <2> QED
    BY <2>1, <2>2, LeaveStep
<1>2. CASE page[t].at = "refresh" /\ Browser!Queued(Head(page[t].left))
  <2> DEFINE r == Head(page[t].left)
  <2>1. /\ r \in Writes /\ told[r] = "nothing" /\ In(page[t].left, r)
        /\ \A u \in Tabs \ {t} : ~In(page[u].left, r)
    BY <1>2, InHand
  <2>2. Browser!Queued(r)
    BY <1>2
  <2> HIDE DEF r
  <2>3. /\ page' = [page EXCEPT ![t] = Browser!Quiet] /\ flow' = [flow EXCEPT ![t] = Browser!Quiet]
        /\ token' = [token EXCEPT ![t] = "none"]
        /\ UNCHANGED <<online, cookie, done, ended>>
    BY DEF Browser!SessionEnds
  <2>4. /\ page'[t] = Browser!Quiet /\ flow'[t] = Browser!Quiet
        /\ \A u \in Tabs \ {t} : page'[u] = page[u] /\ flow'[u] = flow[u]
        /\ page' \in [Tabs -> Run] /\ flow' \in [Tabs -> Run]
    BY <2>3, QuietIs DEF QueueTyped
  <2>5. \A u \in Tabs : RunOK(page'[u]) /\ RunOK(flow'[u]) /\ Len(page'[u].left) <= 1
    BY <2>4, QuietIs DEF QueueTyped
  <2>6. token' \in [Tabs -> {"none", "good", "stale"}]
    BY <2>3 DEF QueueTyped
  <2>7. QueueTyped'
    BY <2>1, <2>2, <2>3, <2>4, <2>5, <2>6, QueuedTyped DEF QueueTyped
  <2>8. Shorter
    BY <2>4, QuietIs DEF Shorter
  <2>9. \A u \in Tabs : ~In(page'[u].left, r)
    BY <2>1, <2>4, QuietIs, InEmpty
  <2> QED
    BY <2>1, <2>2, <2>3, <2>7, <2>8, <2>9, QueuedStep
<1> QED
  BY <1>1, <1>2 DEF Browser!SessionEnds

LEMMA SaveStep ==
  ASSUME QueueInv, NEW t \in Tabs, NEW r \in Writes, Browser!SaveGrades(t, r)
  PROVE  QueueInv'
<1> USE DEF QueueInv
<1>1. /\ told[r] = "nothing" /\ told' = [told EXCEPT ![r] = "error"]
      /\ UNCHANGED <<online, cookie, token, queue, page, flow, done, ended>>
  BY DEF Browser!SaveGrades
<1>2. \A u \in Tabs : ~In(page[u].left, r)
  BY DEF Browser!SaveGrades, Browser!ToSet, In
<1>3. told' \in [Writes -> Says] /\ told'[r] # "queued"
      /\ \A x \in Writes \ {r} : told'[x] = told[x]
  BY <1>1 DEF QueueTyped, Says
<1>4. QueueTyped'
  BY <1>1, <1>3 DEF QueueTyped
<1>5. Shorter
  BY <1>1 DEF Shorter
<1> QED
  BY <1>1, <1>2, <1>3, <1>4, <1>5, FewerStep

\* A run takes the whole store, in its order.
LEMMA StartStep ==
  ASSUME QueueInv, NEW t \in Tabs, Browser!StartFlush(t), flow' # flow
  PROVE  QueueInv'
<1> USE DEF QueueInv
<1> DEFINE run == [at |-> "send", left |-> queue]
<1>1. /\ queue # <<>> /\ flow' = [flow EXCEPT ![t] = run]
      /\ UNCHANGED <<online, cookie, token, queue, page, told, done, ended>>
  BY DEF Browser!StartFlush, Browser!shown
<1>2. run \in Run /\ RunOK(run) /\ run.at # "answered" /\ run.left = queue
  BY <1>1 DEF Run, RunOK, Browser!Stages, QueueTyped
<1> HIDE DEF run
<1>3. flow'[t] = run /\ flow' \in [Tabs -> Run] /\ \A u \in Tabs \ {t} : flow'[u] = flow[u]
  BY <1>1, <1>2 DEF QueueTyped
<1>4. QueueTyped'
  BY <1>1, <1>2, <1>3 DEF QueueTyped
<1>5. OneAsks'
  BY <1>1, <1>2, <1>3 DEF OneAsks
<1>6. AnsweredEnded'
  BY <1>1, <1>2, <1>3 DEF AnsweredEnded
<1>7. FlowInOrder'
  <2> SUFFICES ASSUME NEW u \in Tabs, NEW k \in DOMAIN flow'[u].left, NEW a \in Writes,
                      Ahead(queue, a, flow'[u].left[k])
               PROVE  \/ In(ended, a)
                      \/ \E m \in DOMAIN flow'[u].left : m < k /\ flow'[u].left[m] = a
    BY <1>1 DEF FlowInOrder
  <2>1. CASE u # t
    BY <1>3, <2>1 DEF FlowInOrder
  <2>2. CASE u = t
    <3>1. flow'[u].left = queue
      BY <1>2, <1>3, <2>2
    <3>2. PICK i, j \in DOMAIN queue : i < j /\ queue[i] = a /\ queue[j] = queue[k]
      BY <3>1 DEF Ahead
    <3>3. j = k
      BY <3>1, <3>2 DEF QueueTyped, Once
    <3> QED
      BY <3>1, <3>2, <3>3
  <2> QED
    BY <2>1, <2>2
<1> QED
  BY <1>1, <1>4, <1>5, <1>6, <1>7 DEF Kept, EndsInOrder

\* The answer to what a run sends: all that was queued before has had its own.
LEMMA ReplayStep ==
  ASSUME QueueInv, NEW t \in Tabs, Browser!ReplayAnswered(t)
  PROVE  QueueInv'
<1> USE DEF QueueInv
<1> DEFINE r == Head(flow[t].left)
<1>1. /\ flow[t].at # "idle"
      /\ done' = Browser!Performed(r, Browser!Performs(r)) /\ ended' = Browser!Answered(r)
      /\ flow' = Browser!Goes(flow, t, "answered")
      /\ UNCHANGED <<online, cookie, token, queue, page, told>>
  BY DEF Browser!ReplayAnswered, Browser!Sending
<1>2. RunOK(flow[t])
  BY DEF QueueTyped
<1>3. /\ r \in Writes /\ r = flow[t].left[1] /\ 1 \in DOMAIN flow[t].left
      /\ In(flow[t].left, r) /\ flow[t].left \in Seq(Writes)
  BY <1>1, <1>2, HeadIs
<1> HIDE DEF r
<1>4. /\ flow' \in [Tabs -> Run] /\ \A u \in Tabs : RunOK(flow'[u])
      /\ \A u \in Tabs : flow'[u].left = flow[u].left
      /\ \A u \in Tabs \ {t} : flow'[u] = flow[u]
  <2>1. flow \in [Tabs -> Run] /\ \A u \in Tabs : RunOK(flow[u])
    BY DEF QueueTyped
  <2>2. "answered" \in Browser!Stages
    BY DEF Browser!Stages
  <2> QED
    BY <1>1, <2>1, <2>2, GoesTyped
<1>5. /\ ended' \in Seq(Writes) /\ Once(ended')
      /\ \A x : In(ended', x) <=> In(ended, x) \/ x = r
  <2>1. r \in Browser!ToSet(ended) <=> In(ended, r)
    BY DEF Browser!ToSet, In
  <2>2. ended \in Seq(Writes) /\ Once(ended)
    BY DEF QueueTyped
  <2> QED
    BY <1>1, <1>3, <2>1, <2>2, AppendIs DEF Browser!Answered
<1>6. done' \in [Writes -> Nat]
  BY <1>1, <1>3, PerformedIs
<1>7. QueueTyped'
  BY <1>1, <1>4, <1>5, <1>6 DEF QueueTyped
<1>8. told[r] = "queued"
  BY <1>3 DEF OneAsks
<1>9. OneAsks'
  BY <1>1, <1>4, <1>5, <1>8 DEF OneAsks
<1>10. Kept'
  BY <1>1, <1>5 DEF Kept
<1>11. AnsweredEnded'
  BY <1>3, <1>4, <1>5 DEF AnsweredEnded
<1>12. \A a \in Writes : Ahead(queue, a, r) => In(ended, a)
  <2> SUFFICES ASSUME NEW a \in Writes, Ahead(queue, a, flow[t].left[1]) PROVE In(ended, a)
    BY <1>3
  <2>1. DOMAIN flow[t].left \subseteq Nat \ {0}
    BY <1>3
  <2>2. \A m \in DOMAIN flow[t].left : ~(m < 1)
    BY <2>1
  <2> QED
    BY <1>3, <2>2 DEF FlowInOrder
<1>13. EndsInOrder'
  BY <1>1, <1>5, <1>12 DEF EndsInOrder
<1>14. FlowInOrder'
  <2> SUFFICES ASSUME NEW u \in Tabs, NEW k \in DOMAIN flow'[u].left, NEW a \in Writes,
                      Ahead(queue, a, flow'[u].left[k])
               PROVE  \/ In(ended', a)
                      \/ \E m \in DOMAIN flow'[u].left : m < k /\ flow'[u].left[m] = a
    BY <1>1 DEF FlowInOrder
  <2> QED
    BY <1>4, <1>5 DEF FlowInOrder
<1> QED
  BY <1>7, <1>9, <1>10, <1>11, <1>13, <1>14

\* delQueue and the next item: what is taken out of the store was answered.
LEMMA DeleteStep ==
  ASSUME QueueInv, NEW t \in Tabs, Browser!DeleteAnswered(t)
  PROVE  QueueInv'
<1> USE DEF QueueInv
<1> DEFINE r == Head(flow[t].left)
           rest == Tail(flow[t].left)
<1>1. /\ flow[t].at = "answered"
      /\ queue' = IF queue = <<>> THEN queue ELSE Browser!Gone(r)
      /\ flow' = [flow EXCEPT ![t] = IF Len(flow[t].left) = 1 THEN Browser!Quiet
                                     ELSE [at |-> "send", left |-> rest]]
      /\ UNCHANGED <<online, cookie, token, page, told, done, ended>>
  BY DEF Browser!DeleteAnswered, Browser!Next_Item, Browser!shown
<1>2. RunOK(flow[t])
  BY DEF QueueTyped
<1>3. /\ r \in Writes /\ r = flow[t].left[1] /\ flow[t].left \in Seq(Writes)
      /\ flow[t].left # <<>> /\ In(ended, r)
  BY <1>1, <1>2, HeadIs DEF AnsweredEnded
<1>4. /\ rest \in Seq(Writes) /\ Len(rest) = Len(flow[t].left) - 1
      /\ DOMAIN rest = 1..(Len(flow[t].left) - 1) /\ Len(flow[t].left) \in Nat \ {0}
      /\ DOMAIN flow[t].left = 1..Len(flow[t].left)
      /\ \A k \in 1..(Len(flow[t].left) - 1) : rest[k] = flow[t].left[k + 1]
      /\ Len(flow[t].left) # 1 => rest # <<>>
  BY <1>3, TailIs
<1> HIDE DEF r, rest
<1>5. queue' \in Seq(Writes) /\ Once(queue')
      /\ (\A x : In(queue', x) => In(queue, x)) /\ (\A x : In(queue, x) /\ x # r => In(queue', x))
      /\ \A a, b : Ahead(queue', a, b) => Ahead(queue, a, b)
  <2>1. queue \in Seq(Writes) /\ Once(queue)
    BY DEF QueueTyped
  <2> QED
    BY <1>1, <1>3, <2>1, GoneIs, InEmpty
<1>6. \/ flow'[t] = Browser!Quiet
      \/ /\ flow'[t] = [at |-> "send", left |-> rest]
         /\ rest # <<>>
  BY <1>1, <1>4 DEF QueueTyped
<1>7. \A u \in Tabs \ {t} : flow'[u] = flow[u]
  BY <1>1 DEF QueueTyped
<1>8. flow'[t] \in Run /\ RunOK(flow'[t]) /\ flow'[t].at # "answered"
      /\ (flow'[t].left = <<>> \/ flow'[t].left = rest)
  BY <1>4, <1>6, QuietIs DEF Run, RunOK, Browser!Stages
<1>9. flow' \in [Tabs -> Run]
  BY <1>1, <1>4, QuietIs DEF QueueTyped, Run, Browser!Stages
<1>10. QueueTyped'
  BY <1>1, <1>5, <1>7, <1>8, <1>9 DEF QueueTyped
<1>11. ASSUME NEW u \in Tabs, NEW x, In(flow'[u].left, x) PROVE In(flow[u].left, x)
  <2>1. CASE u # t
    BY <1>7, <1>11, <2>1
  <2>2. CASE u = t
    <3>1. flow'[t].left = rest
      BY <1>8, <1>11, <2>2, InEmpty
    <3>2. PICK k \in 1..(Len(flow[t].left) - 1) : rest[k] = x
      BY <1>4, <1>11, <2>2, <3>1 DEF In
    <3>3. k + 1 \in DOMAIN flow[t].left /\ flow[t].left[k + 1] = x
      BY <1>4, <3>2
    <3> QED
      BY <2>2, <3>3 DEF In
  <2> QED
    BY <2>1, <2>2
<1>12. OneAsks'
  BY <1>1, <1>5, <1>11 DEF OneAsks
<1>13. Kept'
  BY <1>1, <1>3, <1>5 DEF Kept
<1>14. AnsweredEnded'
  BY <1>1, <1>7, <1>8 DEF AnsweredEnded
<1>15. EndsInOrder'
  BY <1>1, <1>5 DEF EndsInOrder
<1>16. FlowInOrder'
  <2> SUFFICES ASSUME NEW u \in Tabs, NEW k \in DOMAIN flow'[u].left, NEW a \in Writes,
                      Ahead(queue', a, flow'[u].left[k])
               PROVE  \/ In(ended, a)
                      \/ \E m \in DOMAIN flow'[u].left : m < k /\ flow'[u].left[m] = a
    BY <1>1 DEF FlowInOrder
  <2>1. CASE u # t
    BY <1>5, <1>7, <2>1 DEF FlowInOrder
  <2>2. CASE u = t
    <3>1. flow'[t].left = rest
      BY <1>8, <2>2
    <3>2. k \in 1..(Len(flow[t].left) - 1) /\ k + 1 \in DOMAIN flow[t].left
          /\ rest[k] = flow[t].left[k + 1]
      BY <1>4, <2>2, <3>1
    <3>3. CASE In(ended, a)
      BY <3>3
    <3>4. CASE ~In(ended, a)
      <4>1. PICK m \in DOMAIN flow[t].left : m < k + 1 /\ flow[t].left[m] = a
        BY <1>5, <2>2, <3>1, <3>2, <3>4 DEF FlowInOrder
      <4>2. m # 1
        BY <1>3, <3>4, <4>1
      <4>3. m - 1 \in 1..(Len(flow[t].left) - 1) /\ m - 1 < k /\ (m - 1) + 1 = m
        BY <1>4, <3>2, <4>1, <4>2
      <4> QED
        BY <1>4, <2>2, <3>1, <4>1, <4>3
    <3> QED
      BY <3>3, <3>4
  <2> QED
    BY <2>1, <2>2
<1> QED
  BY <1>10, <1>12, <1>13, <1>14, <1>15, <1>16

LEMMA StoppedStep ==
  ASSUME QueueInv, NEW t \in Tabs, Browser!ReplayFails(t)
  PROVE  QueueInv'
<1> USE DEF QueueInv
<1> DEFINE r == Head(flow[t].left)
<1>1. /\ flow[t].at # "idle"
      /\ done' = done \/ done' = Browser!Performed(r, Browser!Performs(r))
      /\ flow' = [flow EXCEPT ![t] = Browser!Quiet]
      /\ UNCHANGED <<online, cookie, token, queue, page, told, ended>>
  BY DEF Browser!ReplayFails, Browser!Sending, Browser!Stopped
<1>2. r \in Writes
  <2>1. RunOK(flow[t])
    BY DEF QueueTyped
  <2> QED
    BY <1>1, <2>1, HeadIs
<1>3. done' \in [Writes -> Nat]
  BY <1>1, <1>2, PerformedIs DEF QueueTyped
<1>4. /\ flow'[t] = Browser!Quiet /\ flow' \in [Tabs -> Run]
      /\ \A u \in Tabs \ {t} : flow'[u] = flow[u]
  BY <1>1, QuietIs DEF QueueTyped
<1>5. QueueTyped'
  BY <1>1, <1>3, <1>4, QuietIs DEF QueueTyped
<1>6. Shorter
  BY <1>1, <1>4, QuietIs DEF Shorter
<1> QED
  BY <1>1, <1>5, <1>6, FewerStep

LEMMA BrowserStep == QueueInv /\ [Browser!Next]_Browser!vars => QueueInv'
<1> SUFFICES ASSUME QueueInv, [Browser!Next]_Browser!vars PROVE QueueInv'
  OBVIOUS
<1>1. CASE UNCHANGED Browser!vars
  BY <1>1 DEF Browser!vars, Browser!shown, QueueInv, QueueTyped, OneAsks, Kept, AnsweredEnded,
     EndsInOrder, FlowInOrder
<1>2. CASE Browser!Disconnect \/ Browser!Connect
  BY <1>2, FlagStep DEF Browser!Disconnect, Browser!Connect, Browser!shown, QueueInv, QueueTyped
<1>3. ASSUME NEW t \in Tabs,
             \/ Browser!Expire(t) \/ Browser!ClosePage(t) \/ Browser!SignOut(t)
             \/ Browser!SignIn(t) \/ Browser!Restore(t)
      PROVE  QueueInv'
  BY <1>3, AroundStep
<1>4. ASSUME NEW t \in Tabs, NEW r \in Writes, Browser!Ask(t, r) \/ Browser!SaveGrades(t, r)
      PROVE  QueueInv'
  BY <1>4, AskStep, SaveStep
<1>5. ASSUME NEW t \in Tabs, Browser!Call(t) PROVE QueueInv'
  BY <1>5, AnsweredStep, FailsStep, UnauthorizedStep DEF Browser!Call
<1>6. ASSUME NEW t \in Tabs, Browser!Session(t) PROVE QueueInv'
  BY <1>6, UnauthorizedStep, SessionStep DEF Browser!Session
<1>7. ASSUME NEW t \in Tabs, Browser!StartFlush(t) \/ Browser!OpenPage(t) PROVE QueueInv'
  <2>1. CASE flow' = flow
    BY <1>7, <2>1, FlagStep
       DEF Browser!StartFlush, Browser!OpenPage, Browser!shown, QueueInv, QueueTyped
  <2>2. CASE flow' # flow
    BY <1>7, <2>2, StartStep DEF Browser!OpenPage
  <2> QED
    BY <2>1, <2>2
<1>8. ASSUME NEW t \in Tabs, Browser!Replay(t) PROVE QueueInv'
  BY <1>7, <1>8, ReplayStep, DeleteStep, StoppedStep, UnauthorizedStep DEF Browser!Replay
<1> QED
  BY <1>1, <1>2, <1>3, <1>4, <1>5, <1>6, <1>7, <1>8 DEF Browser!Next

\* What wakes a page is an event of the browser, a boot or a login.
WokenTyped == woken \in [Tabs -> BOOLEAN]
LEMMA WokenStep ==
  ASSUME QueueInv, WokenTyped, [Browser!Next]_Browser!vars
  PROVE  WokenTyped'
<1> USE DEF WokenTyped
<1>1. CASE UNCHANGED Browser!vars
  BY <1>1 DEF Browser!vars
<1>2. CASE Browser!Disconnect \/ Browser!Connect
  BY <1>2 DEF Browser!Disconnect, Browser!Connect, Browser!AllWoken
<1>3. ASSUME NEW t \in Tabs,
             \/ Browser!Expire(t) \/ Browser!ClosePage(t) \/ Browser!SignOut(t)
             \/ Browser!SignIn(t) \/ Browser!Restore(t) \/ Browser!OpenPage(t)
      PROVE  WokenTyped'
  BY <1>3 DEF Browser!Expire, Browser!ClosePage, Browser!SignOut, Browser!SignIn,
     Browser!Restore, Browser!OpenPage, Browser!Leave, Browser!ShowMain
<1>4. ASSUME NEW t \in Tabs, NEW r \in Writes, Browser!Ask(t, r) \/ Browser!SaveGrades(t, r)
      PROVE  WokenTyped'
  BY <1>4 DEF Browser!Ask, Browser!SaveGrades
<1>5. ASSUME NEW t \in Tabs, Browser!Call(t) \/ Browser!Session(t) \/ Browser!Replay(t)
      PROVE  WokenTyped'
  BY <1>5 DEF Browser!Call, Browser!AskAnswered, Browser!AskFails, Browser!AskUnauthorized,
     Browser!Session, Browser!Refresh, Browser!SessionEnds, Browser!Replay,
     Browser!StartFlush, Browser!ReplayAnswered, Browser!DeleteAnswered,
     Browser!ReplayFails, Browser!ReplayUnauthorized
<1> QED
  BY <1>1, <1>2, <1>3, <1>4, <1>5 DEF Browser!Next

LEMMA QueueHolds == ClientsSpec => [](QueueInv /\ WokenTyped)
<1>1. ClientsInit => QueueInv /\ WokenTyped
  BY BrowserInit DEF ClientsInit, Browser!Init, WokenTyped
<1>2. QueueInv /\ WokenTyped /\ [ClientsNext]_<<vars, browser, phone, part>>
        => QueueInv' /\ WokenTyped'
  <2>1. [ClientsNext]_<<vars, browser, phone, part>> => [Browser!Next]_Browser!vars
    BY DEF ClientsNext, browser, Browser!vars, Browser!shown
  <2> QED
    BY <2>1, BrowserStep, WokenStep
<1> QED
  BY <1>1, <1>2, PTL DEF ClientsSpec

LEMMA QueueSays == QueueInv /\ WokenTyped => Browser!TypeOK /\ QueueKeeps
<1> SUFFICES ASSUME QueueInv, WokenTyped PROVE Browser!TypeOK /\ QueueKeeps
  OBVIOUS
<1> USE DEF QueueInv
<1>1. ASSUME NEW q PROVE \A r : r \in Browser!ToSet(q) <=> In(q, r)
  BY DEF Browser!ToSet, In
<1>2. Browser!KeptUntilAnswered
  BY <1>1 DEF Browser!KeptUntilAnswered, Kept
<1>3. Browser!EarlierFirst
  <2> SUFFICES ASSUME NEW i \in 1..Len(queue), queue[i] \in Browser!ToSet(ended),
                      NEW j \in 1..(i - 1)
               PROVE  queue[j] \in Browser!ToSet(ended)
    BY DEF Browser!EarlierFirst
  <2>1. queue \in Seq(Writes) /\ DOMAIN queue = 1..Len(queue) /\ j \in DOMAIN queue /\ j < i
        /\ queue[i] \in Writes /\ queue[j] \in Writes
    BY DEF QueueTyped
  <2>2. Ahead(queue, queue[j], queue[i])
    BY <2>1 DEF Ahead
  <2> QED
    BY <1>1, <2>1, <2>2 DEF EndsInOrder
<1>4. Browser!TypeOK
  <2>1. Browser!IsInjective(queue) /\ Browser!IsInjective(ended)
    BY DEF QueueTyped, Once, Browser!IsInjective
  <2>2. Browser!ToSet(queue) \subseteq Writes /\ Browser!ToSet(ended) \subseteq Writes
    BY <1>1, Elements
  <2>3. \A t \in Tabs : Browser!ToSet(flow[t].left) \subseteq Writes
    BY <1>1, Elements
  <2>4. \A t \in Tabs : page[t].at \in Browser!Stages /\ flow[t].at \in Browser!Stages
    BY DEF QueueTyped, RunOK, Run
  <2> QED
    BY <2>1, <2>2, <2>3, <2>4 DEF Browser!TypeOK, QueueTyped, RunOK, Says, WokenTyped
<1> QED
  BY <1>2, <1>3, <1>4 DEF QueueKeeps

\* However tabs replay the store (flush), whatever answers are lost and wherever pages are
\* left: what the page called queued stays in it until it was answered (delQueue), and
\* nothing is answered before what was queued earlier.
THEOREM QueueIsKept == ClientsSpec => [](Browser!TypeOK /\ QueueKeeps)
BY QueueHolds, QueueSays, PTL
=================================================================================
