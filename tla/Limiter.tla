-------------------------------- MODULE Limiter --------------------------------
(* The limit of attempts (services/rate_limit.py): logins, forgotten passwords and       *)
(* verifications of badges and documents are counted by address or name, in the memory   *)
(* of the process or in a Redis that processes share.  A thread reads the clock before   *)
(* it has the lock of the memory, so that the attempts of a key need not come in the     *)
(* order of their times; Redis reads its own.  In the memory the key that was seen       *)
(* longest ago makes room for a new one.                                                 *)
EXTENDS Integers, Sequences, FiniteSets

CONSTANTS Requests, Keys, Limit, Window,
  MaxKeys,    \* _max_keys
  MaxTime     \* bound of the clock

LimiterConstants ==
  /\ {Limit, Window, MaxKeys} \subseteq Nat \ {0} /\ MaxTime \in Nat
  /\ IsFiniteSet(Requests) /\ IsFiniteSet(Keys)

VARIABLES
  shared,      \* a RATE_LIMIT_REDIS_URL is set, and answers
  clock,
  events,      \* _events
  lastSeen,    \* _last_seen
  work,
  passed,      \* history: the attempts of a key that passed since it had its bucket
  late,        \* history: keys that a thread came to with a time before the key's last one
  unjust       \* history: a key, never late, was refused below its limit

vars == <<shared, clock, events, lastSeen, work, passed, late, unjust>>

Idle == [key |-> "none"]
Known == DOMAIN events

Init ==
  /\ shared \in BOOLEAN /\ clock = 0 /\ late = {} /\ unjust = FALSE
  /\ events = [k \in {} |-> <<>>] /\ lastSeen = [k \in {} |-> 0] /\ passed = events
  /\ work = [r \in Requests |-> Idle]

Within(s, from, to) == {i \in DOMAIN s : s[i] > from /\ s[i] <= to}

\* The bucket from the left, without the times up to the cutoff: a later one hides those
\* behind it.
Popped(bucket, cutoff) ==
  LET old == {n \in 1..Len(bucket) : \A i \in 1..n : bucket[i] <= cutoff}
  IN SubSeq(bucket, Cardinality(old) + 1, Len(bucket))

With(f, k, x) == [q \in DOMAIN f \union {k} |-> IF q = k THEN x ELSE f[q]]
Of(f, k) == IF k \in DOMAIN f THEN f[k] ELSE <<>>
Only(f, S) == [q \in S |-> f[q]]

\* The keys that stay when there are more than MaxKeys in memory: all but the one seen
\* longest ago.
Staying(seen) ==
  IF shared \/ Cardinality(DOMAIN seen) <= MaxKeys THEN {DOMAIN seen}
  ELSE {DOMAIN seen \ {k} : k \in {q \in DOMAIN seen : \A p \in DOMAIN seen : seen[q] <= seen[p]}}

Arrive(r) ==
  /\ work[r] = Idle
  /\ \E k \in Keys : work' = [work EXCEPT ![r] = [key |-> k, now |-> IF shared THEN 0 ELSE clock]]
  /\ UNCHANGED <<shared, clock, events, lastSeen, passed, late, unjust>>

Time(r) == IF shared THEN clock ELSE work[r].now
IsLate(k, now) == k \in Known /\ now < lastSeen[k]

Refuse(r) ==
  LET k == work[r].key
      now == Time(r)
      bucket == Popped(Of(events, k), now - Window) IN
  /\ work[r] # Idle /\ Len(bucket) >= Limit
  /\ events' = With(events, k, bucket) /\ lastSeen' = With(lastSeen, k, now)
  /\ late' = late \union {q \in {k} : IsLate(q, now)}
  /\ unjust' = (unjust \/ /\ k \notin late'
                          /\ Cardinality(Within(Of(passed, k), now - Window, now)) < Limit)
  /\ work' = [work EXCEPT ![r] = Idle]
  /\ UNCHANGED <<shared, clock, passed>>

Pass(r) ==
  LET k == work[r].key
      now == Time(r)
      bucket == Popped(Of(events, k), now - Window)
      seen == With(lastSeen, k, now) IN
  /\ work[r] # Idle /\ Len(bucket) < Limit
  /\ \E S \in Staying(seen) :
       /\ events' = Only(With(events, k, Append(bucket, now)), S) /\ lastSeen' = Only(seen, S)
       /\ passed' = Only(With(passed, k, Append(Of(passed, k), now)), S)
       /\ late' = S \intersect (late \union {q \in {k} : IsLate(q, now)})
  /\ work' = [work EXCEPT ![r] = Idle]
  /\ UNCHANGED <<shared, clock, unjust>>

Tick ==
  /\ clock < MaxTime /\ clock' = clock + 1
  /\ UNCHANGED <<shared, events, lastSeen, work, passed, late, unjust>>

Next == Tick \/ \E r \in Requests : Arrive(r) \/ Refuse(r) \/ Pass(r)

Spec == Init /\ [][Next]_vars

----------------------------------------------------------------------------------
(* Properties                                                                     *)

TypeOK ==
  /\ Known \subseteq Keys /\ DOMAIN lastSeen = Known /\ DOMAIN passed = Known
  /\ \A k \in Known : lastSeen[k] \in 0..clock
  /\ late \subseteq Known

\* In no Window do more than Limit attempts of a key pass while it keeps its bucket, and
\* beside threads that came to it late, not more than one for each of them.
WindowHolds ==
  \A k \in Known : \A t \in 0..clock :
    Cardinality(Within(passed[k], t - Window, t))
      <= Limit + (IF k \in late THEN Cardinality(Requests) - 1 ELSE 0)

\* Nobody is refused before Limit attempts of his key passed in the Window before his own.
RefusedForCause == ~unjust

\* The table in memory does not grow beyond its bound, whatever keys come and whatever
\* threads are late.
TableBounded == ~shared => Cardinality(Known) <= MaxKeys
================================================================================
