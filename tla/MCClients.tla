------------------------------- MODULE MCClients -------------------------------
(* Instances of Clients for TLC: one station that writes and one that reads, on a  *)
(* server that commits rows in the order of their ids; or two that write one       *)
(* record in turn, which one of them creates, and users who rebase; or the queues  *)
(* of two tabs and of a telephone.                                                 *)
EXTENDS Clients, TLC

CONSTANTS d1, d2, e1, o1, o2, o3, o4

OneWriter == [o \in Ops |-> d1]
TwoWriters == [o \in Ops |-> IF o % 2 = 1 THEN d1 ELSE d2]

\* What is not a creation names e1 by its server identifier.
OneEntity == [o \in Ops |-> e1]
ServerRefs == [o \in Ops |-> "server"]
Refs == [o \in Ops |-> IF o \in Made THEN "client" ELSE "server"]

\* Two small operations, one that fills the queue's bytes, one that is too large.
Weights == (o1 :> 1) @@ (o2 :> 1) @@ (o3 :> 3) @@ (o4 :> 4)
================================================================================
