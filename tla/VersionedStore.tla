----------------------------- MODULE VersionedStore -----------------------------
(* What the synchronisation journal promises, whatever the interleaving of the  *)
(* server's requests: each submitted operation is settled once, and an applied  *)
(* operation is one write, made on the state that every earlier write of its    *)
(* entity produced (docs/RELEASE_1.7.md, docs/RELEASE_1.8.md).  SyncServer is    *)
(* shown to implement this specification.                                        *)
EXTENDS Naturals, Sequences

CONSTANTS
  Ops,        \* operation identifiers
  Entities,   \* synchronised records
  OpEntity    \* OpEntity[o]: the record operation o is about

VARIABLES
  outcome,    \* outcome[o]: "absent", "open", "applied" or "failed"
  log         \* log[e]: the writes of e, oldest first; a write carries its base

storeVars == <<outcome, log>>

Outcomes == {"absent", "open", "applied", "failed"}

\* A write that saw exactly the n writes before it has base n.
Write(e, who) == [op |-> who, base |-> Len(log[e])]

StoreInit ==
  /\ outcome = [o \in Ops |-> "absent"]
  /\ log = [e \in Entities |-> <<>>]

Submit(o) ==
  /\ outcome[o] = "absent"
  /\ outcome' = [outcome EXCEPT ![o] = "open"]
  /\ UNCHANGED log

Accept(o) ==
  /\ outcome[o] = "open"
  /\ outcome' = [outcome EXCEPT ![o] = "applied"]
  /\ log' = [log EXCEPT ![OpEntity[o]] = Append(@, Write(OpEntity[o], o))]

Refuse(o) ==
  /\ outcome[o] = "open"
  /\ outcome' = [outcome EXCEPT ![o] = "failed"]
  /\ UNCHANGED log

StoreNext == \E o \in Ops : Submit(o) \/ Accept(o) \/ Refuse(o)

StoreSpec == StoreInit /\ [][StoreNext]_storeVars
=================================================================================
