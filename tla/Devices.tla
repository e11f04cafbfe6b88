---------------------------------- MODULE Devices ---------------------------------
(* The stations of a school and the accounts that may use them: registration,          *)
(* heartbeat, and the right to push, acknowledge and resolve in app/api/sync.py.  What *)
(* the operations do is SyncServer's.  A registration reads the row of the station in  *)
(* one step and commits in another.                                                    *)
CONSTANTS
  Users, Stations, Requests,
  Nobody,   \* owner_user_id NULL: a row from before ownership was kept
  Absent,   \* no row
  Ops       \* operations that may be pushed

Owners == Users \union {Nobody, Absent}
DevicesConstants ==
  /\ {Nobody, Absent} \intersect Users = {} /\ Nobody # Absent
  /\ Absent \notin (Stations \X Users) \union (Stations \X Users \X Owners)

VARIABLES
  admins,      \* users with administration.settings.modify; it is not taken back
  owner,       \* per station: its owner, Nobody or Absent
  status,      \* last_sync_status, "never" before
  op,          \* per operation: its station and its author, or Absent
  conflict,    \* operations in conflict
  used,        \* history: <<station, user>> where the user was no administrator
  registering  \* per request: the station, the user and the owner it has read

vars == <<admins, owner, status, op, conflict, used, registering>>

TypeOK ==
  /\ admins \subseteq Users /\ owner \in [Stations -> Owners]
  /\ status \in [Stations -> {"never", "synchronized", "pending", "conflict"}]
  /\ op \in [Ops -> (Stations \X Users) \union {Absent}] /\ conflict \subseteq Ops
  /\ used \subseteq Stations \X Users
  /\ registering \in [Requests -> (Stations \X Users \X Owners) \union {Absent}]

Init ==
  /\ admins \in SUBSET Users /\ owner \in [Stations -> {Nobody, Absent}]
  /\ status = [d \in Stations |-> "never"]
  /\ op = [o \in Ops |-> Absent] /\ conflict = {} /\ used = {}
  /\ registering = [r \in Requests |-> Absent]

\* _device_access, _operation_access: the owner or the author, or an administrator
Access(u, whose) == whose = u \/ u \in admins
Known(d) == owner[d] # Absent
Using(d, u) == used' = IF u \in admins THEN used ELSE used \union {<<d, u>>}
\* _update_device_sync_state
Report(d, s) == status' = IF Known(d) THEN [status EXCEPT ![d] = s] ELSE status

\* register_device: a station without an owner is an administrator's to give to himself.
MayRegister_Unclaimed(d, u) == Known(d) /\ owner[d] # Nobody => Access(u, owner[d])
MayRegister(d, u) ==
  Known(d) => IF owner[d] = Nobody THEN u \in admins ELSE Access(u, owner[d])
Read(r, d, u) ==
  /\ registering[r] = Absent /\ MayRegister(d, u)
  /\ registering' = [registering EXCEPT ![r] = <<d, u, owner[d]>>]
  /\ UNCHANGED <<admins, owner, status, op, conflict, used>>
Commit(r) ==
  /\ registering[r] # Absent
  /\ LET d == registering[r][1]  u == registering[r][2]  read == registering[r][3]
     IN IF read = Absent /\ Known(d)
        THEN UNCHANGED <<owner, used>>      \* the unique constraint refuses the row
        ELSE /\ owner' = IF read \in {Absent, Nobody} THEN [owner EXCEPT ![d] = u] ELSE owner
             /\ Using(d, u)
  /\ registering' = [registering EXCEPT ![r] = Absent]
  /\ UNCHANGED <<admins, status, op, conflict>>
Heartbeat(d, u) ==
  /\ Known(d) /\ Access(u, owner[d]) /\ Using(d, u)
  /\ UNCHANGED <<admins, owner, status, op, conflict, registering>>
Push(d, u, o, s) ==
  /\ Known(d) /\ Access(u, owner[d]) /\ op[o] = Absent
  /\ op' = [op EXCEPT ![o] = <<d, u>>]
  /\ conflict' = IF s = "conflict" THEN conflict \union {o} ELSE conflict
  /\ Report(d, s) /\ Using(d, u)
  /\ UNCHANGED <<admins, owner, registering>>
\* Push answers "failed" to an account without access, and reports all the same.
PushRefused(d, u) ==
  /\ Known(d) /\ ~Access(u, owner[d])
  /\ Report(d, "pending")
  /\ UNCHANGED <<admins, owner, op, conflict, used, registering>>
Acknowledge(d, u) ==
  /\ Known(d) /\ Access(u, owner[d])
  /\ Report(d, "synchronized") /\ Using(d, u)
  /\ UNCHANGED <<admins, owner, op, conflict, registering>>
\* apply_operation and resolve_conflict look at the author, not at the station.
Decide(u, o, s) ==
  /\ op[o] # Absent /\ Access(u, op[o][2]) /\ (s = "pending") = (o \in conflict)
  /\ conflict' = conflict \ {o} /\ Report(op[o][1], s) /\ Using(op[o][1], u)
  /\ UNCHANGED <<admins, owner, op, registering>>
Next ==
  \/ \E r \in Requests : Commit(r) \/ \E d \in Stations, u \in Users : Read(r, d, u)
  \/ \E d \in Stations, u \in Users :
       \/ Heartbeat(d, u) \/ PushRefused(d, u) \/ Acknowledge(d, u)
       \/ \E o \in Ops, s \in {"pending", "conflict"} : Push(d, u, o, s)
  \/ \E u \in Users, o \in Ops, s \in {"pending", "synchronized"} : Decide(u, o, s)

Spec == Init /\ [][Next]_vars

\* An account that ever used a station without being an administrator is its owner, or
\* was one when it pushed the operation that it decided: however registrations cross, a
\* station does not pass from one such account to another.
OneAccount ==
  \A d \in Stations : \A u \in Users :
    <<d, u>> \in used => owner[d] = u \/ \E o \in Ops : op[o] = <<d, u>>
===================================================================================
