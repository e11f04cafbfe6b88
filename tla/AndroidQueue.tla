------------------------------ MODULE AndroidQueue ------------------------------
(* The Android application's encrypted queue (SecureOfflineQueue.java) behind the   *)
(* bridge that it offers to the pages (SigmaMobileBridge.java).                     *)
(*                                                                                  *)
(* Every operation reads and writes the whole list under one monitor.  The list is  *)
(* kept by SharedPreferences.apply: memory at once, the disk some time later, so    *)
(* that a killed application comes back with an earlier list.  The page that calls  *)
(* the bridge peeks, sends and acknowledges, as the queue's comments ask of it.     *)
EXTENDS Integers, Sequences, SequencesExt, FiniteSets

CONSTANTS
  Operations,
  Sizes,             \* [Operations -> Nat], against the limits that follow
  MAX_OPERATIONS, MAX_OPERATION_BYTES, MAX_QUEUE_BYTES,
  MaxKills           \* bound

VARIABLES
  memory,            \* the list, as this process sees it
  unsaved,           \* the lists that apply has not written yet, oldest first
  disk,              \* the list on disk
  peeked,            \* what the page read last and has not acknowledged
  asked,             \* the operations that the page has given to the bridge
  acked,             \* history: acknowledged, after the server had it
  drained,           \* history: handed out by the destructive call
  reverted,          \* history: in a list that a kill undid
  kills

vars == <<memory, unsaved, disk, peeked, asked, acked, drained, reverted, kills>>

AndroidConstants ==
  /\ IsFiniteSet(Operations) /\ Sizes \in [Operations -> Nat]
  /\ {MAX_OPERATIONS, MAX_OPERATION_BYTES, MAX_QUEUE_BYTES, MaxKills} \subseteq Nat

Bytes(q) == FoldLeft(LAMBDA total, o : total + Sizes[o], 0, q)
Lists == {q \in SeqOf(Operations, MAX_OPERATIONS) : IsInjective(q)}

TypeOK ==
  /\ memory \in Lists /\ disk \in Lists /\ unsaved \in Seq(Lists)
  /\ {peeked, asked, acked, drained, reverted} \subseteq SUBSET Operations
  /\ Bytes(memory) <= MAX_QUEUE_BYTES

Init ==
  /\ memory = <<>> /\ unsaved = <<>> /\ disk = <<>>
  /\ peeked = {} /\ asked = {} /\ acked = {} /\ drained = {} /\ reverted = {}
  /\ kills = 0

\* write, with apply
Write(q) == memory' = q /\ unsaved' = Append(unsaved, q)

Fits_Count(o) == Sizes[o] <= MAX_OPERATION_BYTES /\ Len(memory) < MAX_OPERATIONS
Fits(o) ==
  /\ Sizes[o] <= MAX_OPERATION_BYTES
  /\ Len(memory) < MAX_OPERATIONS
  /\ Bytes(Append(memory, o)) <= MAX_QUEUE_BYTES

\* enqueueSyncOperation: the bridge swallows the exception of a full queue.
Enqueue(o) ==
  /\ o \notin asked
  /\ asked' = asked \cup {o}
  /\ IF Fits(o) THEN Write(Append(memory, o)) ELSE UNCHANGED <<memory, unsaved>>
  /\ UNCHANGED <<disk, peeked, acked, drained, reverted, kills>>

Peek ==
  /\ memory # <<>>
  /\ peeked' = ToSet(memory)
  /\ UNCHANGED <<memory, unsaved, disk, asked, acked, drained, reverted, kills>>

\* ackJson, for the operations that the server confirmed
Remaining_None(S) == <<>>
Remaining(S) == SelectSeq(memory, LAMBDA o : o \notin S)
Ack(S) ==
  /\ S # {} /\ S \subseteq peeked
  /\ Write(Remaining(S))
  /\ acked' = acked \cup S /\ peeked' = peeked \ S
  /\ UNCHANGED <<disk, asked, drained, reverted, kills>>

\* drainJson
Drain ==
  /\ memory # <<>>
  /\ drained' = drained \cup ToSet(memory)
  /\ Write(<<>>)
  /\ UNCHANGED <<disk, peeked, asked, acked, reverted, kills>>

\* What apply has queued reaches the disk, in order.
Save ==
  /\ unsaved # <<>>
  /\ disk' = Head(unsaved) /\ unsaved' = Tail(unsaved)
  /\ UNCHANGED <<memory, peeked, asked, acked, drained, reverted, kills>>

Kill ==
  /\ kills < MaxKills /\ kills' = kills + 1
  /\ memory' = disk /\ unsaved' = <<>> /\ peeked' = {}
  /\ reverted' = reverted \cup UNION {ToSet(unsaved[i]) : i \in DOMAIN unsaved}
  /\ UNCHANGED <<disk, asked, acked, drained>>

Next ==
  \/ \E o \in Operations : Enqueue(o)
  \/ Peek \/ Drain \/ Save \/ Kill
  \/ \E S \in SUBSET Operations : Ack(S)

Spec == Init /\ [][Next]_vars

\* An operation that the queue took leaves it by an acknowledgement of this operation,
\* by the destructive call, or by a kill before the disk had it: operations that were
\* added between a peek and its acknowledgement stay.
LeavesWhenConfirmed ==
  [][\A o \in ToSet(memory) \ ToSet(memory') : o \in acked' \cup drained' \cup reverted']_vars
================================================================================
