------------------------------ MODULE MCSyncServer ------------------------------
(* Instances of SyncServers for TLC: one record created offline (e1), one that the *)
(* server has from the start (e2), and a few operations on them; stations that     *)
(* create records of the same names; and one station between two accounts.        *)
EXTENDS SyncServers, TLC

CONSTANTS e1, e2, o1, o2, o3, o4,
          s1, s2, g1, g2, g3, g4, l1, l2, m1, m2, n1, ida, idb, idc, idn, id1, anyone, dupont, durand, k1, k2, exam

\* PostgreSQL: o3 creates e1, o1 and o2 update it by its server identifier, and o4
\* updates e2.
UpdatesEntity == [o \in Ops |-> IF o = o4 THEN e2 ELSE e1]
UpdatesKind == [o \in Ops |-> IF o = o3 THEN "create" ELSE "update"]
UpdatesRef == [o \in Ops |-> IF o = o3 THEN "client" ELSE "server"]

\* SQLite: o3 creates e1, o2 updates it by its client identifier, and o1 updates e2.
PairEntity == (o1 :> e2) @@ (o2 :> e1) @@ (o3 :> e1)
PairRef == (o1 :> "server") @@ (o2 :> "client") @@ (o3 :> "client")
PairKind == (o1 :> "update") @@ (o2 :> "update") @@ (o3 :> "create")

\* Students, guardians, links, memberships and a mark; two operations of each type.  g3 and
\* g4 have no phone.  m2 refers to row 1 by its number, and l2 to the guardian g3 by the
\* digits that a station named it by, which read as 2.
CreatedType == [o \in Records |->
  CASE o \in {s1, s2} -> "student" [] o \in {g1, g2, g3, g4} -> "guardian"
    [] o \in {l1, l2} -> "student_guardian" [] o \in {m1, m2} -> "class_membership"
    [] o = n1 -> "grade"]
CreatedName == [o \in Records |->
  CASE o \in {g2, l2, m2} -> idb [] o = g3 -> idn [] o = g4 -> idc [] OTHER -> ida]
CreatedContent == [o \in Records |->
  CASE o \in {g1, g2} -> dupont [] o \in {g3, g4} -> durand
    [] o = m1 -> k1 [] o = m2 -> k2 [] o = n1 -> exam
    [] OTHER -> anyone]
OfStudent == [o \in Records |-> IF o = m2 THEN id1 ELSE ida]
OfGuardian == [o \in Records |-> IF o = l2 THEN idn ELSE ida]
ReadAs == [n \in {ida, id1, idn} |-> CASE n = ida -> 0 [] n = id1 -> 1 [] n = idn -> 2]
ExamClass == exam :> k1
=================================================================================
