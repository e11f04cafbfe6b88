----------------------------- MODULE OfflineCreation -----------------------------
(* Records made offline: what apply_operation of app/api/sync.py does with operations *)
(* of type create, with the business rules of app/services/sync.py                    *)
(* (_create_business_entity) that SyncServer leaves open.  A station names its records*)
(* by identifiers of its own; the server remembers which row each of them stands for. *)
(* A request checks, then writes in one commit; others commit in between.             *)
EXTENDS Integers, Sequences, FiniteSets

CONSTANTS
  Requests, Ops,
  Type,             \* [Ops -> Types]
  ClientId,         \* [Ops -> ...]: entity_id, chosen by the station
  Content,          \* [Ops -> ...]: matricule, person, class, assessment or activity
  StudentRef, GuardianRef,  \* [Ops -> ...]: what an operation calls its student, its guardian
  IntOf,            \* what int() reads in a reference; 0 where it reads none
  Unphoned,         \* contents of guardians without a phone
  ClassOf,          \* the class of an assessment or an activity
  MaxStudents,      \* the quota of the subscription
  MaxStarts         \* bound: requests

VARIABLES
  rows,             \* the records made, by server identifier (of one numbering here)
  identity,         \* identity[t, n]: server identifier of the t that a station calls n
  status, base,     \* the journal rows
  closed,           \* classes whose period was closed
  crossed,          \* history: what two requests were creating at the same time
  starts, work

vars == <<rows, identity, status, base, closed, crossed, starts, work>>

Marks == {"grade", "evaluation_result"}
Types == {"student", "guardian", "student_guardian", "class_membership"} \cup Marks
Names == {<<Type[o], ClientId[o]>> : o \in Ops}
Idle == [op |-> "none"]

OfflineConstants ==
  /\ Type \in [Ops -> Types]
  /\ \A o \in Ops : Type[o] \in Marks => Content[o] \in DOMAIN ClassOf
  /\ \A o \in Ops : IntOf[StudentRef[o]] \in Nat /\ IntOf[GuardianRef[o]] \in Nat
  /\ MaxStudents \in Nat /\ MaxStarts \in Nat

TypeOK ==
  /\ \A i \in DOMAIN rows : rows[i].type \in Types /\ rows[i].by \in Ops
  /\ identity \in [Names -> 0..Len(rows)]
  /\ status \in [Ops -> {"pending", "applied", "conflict", "failed"}]
  /\ base \in [Ops -> Nat] /\ starts \in 0..MaxStarts

\* The stations have pushed their operations; none is applied yet.
Init ==
  /\ rows = <<>> /\ identity = [n \in Names |-> 0]
  /\ status = [o \in Ops |-> "pending"] /\ base = [o \in Ops |-> 0]
  /\ closed = {} /\ crossed = {} /\ starts = 0
  /\ work = [r \in Requests |-> Idle]

----------------------------------------------------------------------------------
(* Names                                                                          *)

\* The server row that a name given by a station stands for; 0 when it is not known.
Resolved(t, n) == IF <<t, n>> \in Names THEN identity[<<t, n>>] ELSE 0

\* A reference that reads as a number is the identifier of a server row, before any name:
\* so a station refers to what it has pulled.  One that calls a record of its own by
\* digits ("00000002") is taken for another row's.
Referred(t, n) == IF IntOf[n] # 0 THEN IntOf[n] ELSE Resolved(t, n)

NeedsStudent(t) == t \notin {"student", "guardian"}
StudentOf(o) == IF NeedsStudent(Type[o]) THEN Referred("student", StudentRef[o]) ELSE 0
GuardianOf(o) ==
  IF Type[o] = "student_guardian" THEN Referred("guardian", GuardianRef[o]) ELSE 0

RowsOf(t) == {i \in DOMAIN rows : rows[i].type = t}
RefersToUnknown_Unchecked(o) ==
  \/ NeedsStudent(Type[o]) /\ StudentOf(o) \notin DOMAIN rows
  \/ Type[o] = "student_guardian" /\ GuardianOf(o) \notin DOMAIN rows
RefersToUnknown(o) ==
  \/ NeedsStudent(Type[o]) /\ StudentOf(o) \notin RowsOf("student")
  \/ Type[o] = "student_guardian" /\ GuardianOf(o) \notin RowsOf("guardian")

\* The row that an operation makes.
RowOf(o) ==
  [type |-> Type[o], student |-> StudentOf(o), guardian |-> GuardianOf(o),
   content |-> Content[o], open |-> TRUE, version |-> 1, by |-> o]

----------------------------------------------------------------------------------
(* Business rules                                                                 *)

SameRecord(a, b) ==
  /\ a.type = b.type /\ a.student = b.student
  /\ a.guardian = b.guardian /\ a.content = b.content

Enrolled_AnyClass(s, c) ==
  \E i \in RowsOf("class_membership") : rows[i].student = s /\ rows[i].open
Enrolled(s, c) ==
  \E i \in RowsOf("class_membership") :
    rows[i].student = s /\ rows[i].content = c /\ rows[i].open

\* A record of the same content; for an enrolment, any active one of the year.  Guardians
\* are compared by name and phone, and not at all without a phone.
Exists_NotLinks(row) ==
  row.type # "student_guardian" /\ \E i \in RowsOf(row.type) : SameRecord(rows[i], row)
Compared(row) == row.type = "guardian" => row.content \notin Unphoned
Exists(row) ==
  /\ Compared(row)
  /\ \E i \in RowsOf(row.type) :
       IF row.type = "class_membership" THEN rows[i].student = row.student /\ rows[i].open
       ELSE SameRecord(rows[i], row)

MayBeMarked(row) ==
  /\ ClassOf[row.content] \notin closed
  /\ Enrolled(row.student, ClassOf[row.content])

Accepted(row) ==
  /\ row.type = "student" => Cardinality(RowsOf("student")) < MaxStudents
  /\ row.type \in Marks => MayBeMarked(row)
  /\ ~Exists(row)

----------------------------------------------------------------------------------
(* apply_operation                                                                *)

\* What a creation must be alone with: a record, or the enrolments of a student.
Scope(row) ==
  IF row.type = "class_membership" THEN <<row.type, row.student>>
  ELSE <<row.type, row.student, row.guardian, row.content>>

Making == {r \in Requests : work[r].op # "none" /\ work[r].verdict = "make"}
Ends(r) == work' = [work EXCEPT ![r] = Idle]

\* with_for_update on the version row of a record that is there
VersionFree(i) == i = 0 \/ ~ \E r \in Requests : work[r].op # "none" /\ work[r].known = i

\* The version row and the business rules are read.  A record that is known already is
\* answered as it is; the creation of it that was made offline says version 0, though,
\* and conflicts until someone rebases it.
Begin(r, o) ==
  LET known == Resolved(Type[o], ClientId[o])
      seen == IF known = 0 THEN 0 ELSE rows[known].version
      row == RowOf(o)
      verdict == CASE base[o] # seen -> "conflict"
                   [] base[o] = seen /\ known # 0 -> "known"
                   [] base[o] = seen /\ known = 0 ->
                        IF ~RefersToUnknown(o) /\ Accepted(row) THEN "make" ELSE "refuse"
      rivals == {q \in Making : Scope(work[q].row) = Scope(row)}
  IN /\ work[r] = Idle /\ starts < MaxStarts /\ starts' = starts + 1
     /\ status[o] = "pending"
     /\ VersionFree(known)
     /\ work' = [work EXCEPT ![r] =
          [op |-> o, known |-> known, row |-> row, verdict |-> verdict]]
     /\ crossed' = IF verdict = "make" /\ rivals # {} THEN crossed \cup {Scope(row)} ELSE crossed
     /\ UNCHANGED <<rows, identity, status, base, closed>>

\* uq_sync_identity_client, and the unique constraints of the records themselves.
NameIsFree_Unchecked(o) == TRUE
NameIsFree(o) == identity[<<Type[o], ClientId[o]>>] = 0
Unique == {"student", "class_membership"} \cup Marks
RecordIsFree(row) ==
  row.type \in Unique => ~ \E i \in RowsOf(row.type) : SameRecord(rows[i], row)

\* The record, its identity, its version and the verdict are one commit.
Make(r) ==
  LET w == work[r] IN
  /\ w.op # "none" /\ w.verdict = "make"
  /\ NameIsFree(w.op) /\ RecordIsFree(w.row)
  /\ rows' = Append(rows, w.row)
  /\ identity' = [identity EXCEPT ![<<Type[w.op], ClientId[w.op]>>] = Len(rows) + 1]
  /\ status' = [status EXCEPT ![w.op] = "applied"]
  /\ Ends(r) /\ UNCHANGED <<base, closed, crossed, starts>>

\* An IntegrityError: nothing is written and the operation stays as it was.
Fail(r) ==
  LET w == work[r] IN
  /\ w.op # "none" /\ w.verdict = "make"
  /\ ~(NameIsFree(w.op) /\ RecordIsFree(w.row))
  /\ Ends(r) /\ UNCHANGED <<rows, identity, status, base, closed, crossed, starts>>

AnswerKnown(r) ==
  LET w == work[r] IN
  /\ w.op # "none" /\ w.verdict = "known"
  /\ rows' = [rows EXCEPT ![w.known].version = @ + 1]
  /\ status' = [status EXCEPT ![w.op] = "applied"]
  /\ Ends(r) /\ UNCHANGED <<identity, base, closed, crossed, starts>>

\* A conflict can still be rebased; a failure is final, also when the student that the
\* operation names arrives later.
Settle(r) ==
  LET w == work[r] IN
  /\ w.op # "none" /\ w.verdict \in {"conflict", "refuse"}
  /\ status' = [status EXCEPT ![w.op] = IF w.verdict = "conflict" THEN "conflict" ELSE "failed"]
  /\ Ends(r) /\ UNCHANGED <<rows, identity, base, closed, crossed, starts>>

\* resolve_conflict
Rebase(o) ==
  LET known == Resolved(Type[o], ClientId[o]) IN
  /\ status[o] = "conflict"
  /\ status' = [status EXCEPT ![o] = "pending"]
  /\ base' = [base EXCEPT ![o] = IF known = 0 THEN 0 ELSE rows[known].version]
  /\ UNCHANGED <<rows, identity, closed, crossed, starts, work>>
Discard(o) ==
  /\ status[o] = "conflict"
  /\ status' = [status EXCEPT ![o] = "failed"]
  /\ UNCHANGED <<rows, identity, base, closed, crossed, starts, work>>

----------------------------------------------------------------------------------
(* What the rules look at, as the school changes it                               *)

Leave(i) ==
  /\ i \in RowsOf("class_membership") /\ rows[i].open
  /\ rows' = [rows EXCEPT ![i].open = FALSE]
  /\ UNCHANGED <<identity, status, base, closed, crossed, starts, work>>
Close(c) ==
  /\ c \notin closed /\ closed' = closed \cup {c}
  /\ UNCHANGED <<rows, identity, status, base, crossed, starts, work>>

Next ==
  \/ \E r \in Requests :
       \/ \E o \in Ops : Begin(r, o)
       \/ Make(r) \/ Fail(r) \/ AnswerKnown(r) \/ Settle(r)
  \/ \E o \in Ops : Rebase(o) \/ Discard(o)
  \/ \E i \in DOMAIN rows : Leave(i)
  \/ \E c \in {ClassOf[x] : x \in DOMAIN ClassOf} : Close(c)

Spec == Init /\ [][Next]_vars

----------------------------------------------------------------------------------
\* However often a station sends a record, on however many operations and whatever runs
\* at the same time, the server has it once, and under its name.
NamedOnce ==
  \A i, j \in DOMAIN rows :
    LET a == rows[i].by
        b == rows[j].by
    IN /\ identity[<<Type[a], ClientId[a]>>] # 0
       /\ Type[a] = Type[b] /\ ClientId[a] = ClientId[b] => i = j

\* What was made for a student or a guardian hangs on the row of the one that the station
\* meant: that of the number, where it referred by a number, and otherwise that of the
\* record that goes by the name, whatever other records are called.
Meant(t, n, i) ==
  /\ i \in RowsOf(t)
  /\ IF IntOf[n] # 0 THEN i = IntOf[n] ELSE ClientId[rows[i].by] = n
HangsOnTheNamed ==
  \A i \in DOMAIN rows :
    LET o == rows[i].by IN
    /\ NeedsStudent(Type[o]) => Meant("student", StudentRef[o], rows[i].student)
    /\ Type[o] = "student_guardian" => Meant("guardian", GuardianRef[o], rows[i].guardian)

\* A guardian with a phone twice, a link twice, two active enrolments of a student: only
\* out of two requests that made them at the same time (the database has no constraint on
\* them).  Of a guardian without a phone there are as many rows as creations of it.
TwinsOnlyWhenCrossed ==
  \A i, j \in DOMAIN rows :
    (i # j /\ rows[i].open /\ rows[j].open /\ Compared(rows[i])
       /\ Scope(rows[i]) = Scope(rows[j]))
      => Scope(rows[i]) \in crossed

\* Whoever has a mark in a class was enrolled in it.
MarkedWereEnrolled ==
  \A i \in DOMAIN rows :
    rows[i].type \in Marks =>
      \E j \in RowsOf("class_membership") :
        rows[j].student = rows[i].student /\ rows[j].content = ClassOf[rows[i].content]
==================================================================================
