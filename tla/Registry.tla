--------------------------------- MODULE Registry ---------------------------------
(* Students, their classes and their cards: app/api/students.py, app/api/cards.py, *)
(* app/services/matricule.py, app/services/badge_engine.py, the students' quota of *)
(* app/services/cloud.py, and what the synchronisation creates of them             *)
(* (app/services/sync.py).                                                         *)
(*                                                                                 *)
(* A request loads, checks, and commits once; others run between its statements.   *)
(* The sequences of matricules and card numbers are advanced by an UPDATE of the   *)
(* school's row, which stays locked until the request ends.  A commit writes the   *)
(* columns that differ from what was loaded, and fails on a unique index.          *)
(*                                                                                 *)
(* The properties follow the specification.                                        *)
EXTENDS Integers, FiniteSets, Sequences

CONSTANTS
  Requests,
  Students, Classes, Levels,    \* rows, of which some exist from the start
  Cards,
  Schools, Home,                \* [Students -> Schools]
  Given,                        \* matricules that a secretary may type
  Limit,                        \* max_students of the subscription, by school
  Capacities,
  Services,                     \* schools, by the functions that they use
  MaxCalls,                     \* [Services -> Nat], bound: requests
  NoRow

Functions == {"enrolment", "offline", "classes", "cards"}
Live == {"active", "printed", "delivered"}
Dead == {"lost", "revoked"}     \* or damaged, or replaced

VARIABLES
  uses,        \* the functions that this school uses
  student,     \* student[s]: status, matricule
  place,       \* place[s][c]: the enrolment of s in class c
  class,       \* class[c]
  level,       \* level[l]: is_active of a level, or a stream
  seq,         \* seq[h]: matricule_next_sequence of school h
  card,        \* card[k]
  badge,       \* badge[h]: badge_next_sequence
  widest,      \* history: the largest capacity of each class
  calls,       \* requests so far
  overlapped,  \* history: two requests have been under way at once
  work         \* work[r]: what request r has in its session

rows == <<student, place, class, level, card>>
vars == <<uses, rows, seq, badge, widest, calls, overlapped, work>>

Members == [status : {"active", "gone"}, mat : Nat \ {0}, typed : BOOLEAN]
Rooms == [open : BOOLEAN, capacity : Capacities, level : Levels]
Badges == [holder : Students, number : Nat, live : BOOLEAN, status : Live \cup Dead]

ASSUME RegistryAssumption ==
  /\ IsFiniteSet(Students) /\ IsFiniteSet(Requests) /\ Requests # {}
  /\ Home \in [Students -> Schools]
  /\ Given \subseteq Nat \ {0} /\ Limit \in [Services -> Nat]
  /\ Capacities \subseteq Nat \ {0}
  /\ Services \subseteq SUBSET Functions
  /\ MaxCalls \in [Services -> Nat]
  /\ NoRow \notin Members \cup Rooms \cup Badges

Idle == [op |-> "none"]

TypeOK ==
  /\ uses \in Services
  /\ student \in [Students -> Members \cup {NoRow}]
  /\ place \in [Students -> [Classes -> {"none", "in", "left"}]]
  /\ class \in [Classes -> Rooms \cup {NoRow}]
  /\ level \in [Levels -> BOOLEAN]
  /\ seq \in [Schools -> Nat] /\ badge \in [Schools -> Nat]
  /\ card \in [Cards -> Badges \cup {NoRow}]
  /\ widest \in [Classes -> Nat]
  /\ calls \in 0..MaxCalls[uses]
  /\ \A s \in Students : student[s] = NoRow => \A c \in Classes : place[s][c] = "none"

Exist(table) == {x \in DOMAIN table : table[x] # NoRow}
In(c) == {s \in Students : place[s][c] = "in"}
ClassesOf(s) == {c \in Classes : place[s][c] = "in"}
Of(S, h) == {s \in S : Home[s] = h}
ActiveStudents(h) == {s \in Of(Exist(student), h) : student[s].status = "active"}
Matricules(h) == {student[s].mat : s \in Of(Exist(student), h)}

\* A school that starts, or one that has its pupils in a first class.
Init ==
  /\ uses \in Services
  /\ \E first \in Classes, cap \in Capacities, l \in Levels, pupils \in SUBSET Students :
       /\ "cards" \in uses <=> pupils # {}
       /\ \A h \in Schools : Cardinality(Of(pupils, h)) <= Limit[uses]
       /\ Cardinality(pupils) <= cap
       /\ class = [c \in Classes |-> IF c = first
                     THEN [open |-> TRUE, capacity |-> cap, level |-> l] ELSE NoRow]
       /\ widest = [c \in Classes |-> IF c = first THEN cap ELSE 0]
       /\ place = [s \in Students |-> [c \in Classes |->
                     IF c = first /\ s \in pupils THEN "in" ELSE "none"]]
       /\ \E mat \in [pupils -> 1..Cardinality(pupils)] :
            /\ \A h \in Schools :
                 {mat[s] : s \in Of(pupils, h)} = 1..Cardinality(Of(pupils, h))
            /\ student = [s \in Students |-> IF s \in pupils
                  THEN [status |-> "active", mat |-> mat[s], typed |-> FALSE] ELSE NoRow]
       /\ seq = [h \in Schools |-> Cardinality(Of(pupils, h))]
  /\ level = [l \in Levels |-> TRUE]
  /\ card = [k \in Cards |-> NoRow]
  /\ badge = [h \in Schools |-> 0]
  /\ calls = 0
  /\ overlapped = FALSE
  /\ work = [r \in Requests |-> Idle]

---------------------------------------------------------------------------------
(* Sessions                                                                      *)

Ready(r, op) == work[r].op = op

Begin(r, session) ==
  /\ Ready(r, "none")
  /\ calls < MaxCalls[uses]
  /\ calls' = calls + 1
  /\ work' = [work EXCEPT ![r] = session]
  /\ overlapped' = (overlapped \/ \E q \in Requests : ~Ready(q, "none"))
  /\ UNCHANGED <<uses, rows, seq, badge, widest>>

Continue(r, session) ==
  /\ work' = [work EXCEPT ![r] = session]
  /\ UNCHANGED <<uses, rows, seq, badge, widest, calls, overlapped>>

\* The request ends with its commit; what it does to the rows is beside.
End(r) ==
  /\ work' = [work EXCEPT ![r] = Idle]
  /\ UNCHANGED <<uses, calls, overlapped>>

\* Ids are given by the database.
Fresh(table, field) ==
  {x \in DOMAIN table \ Exist(table) :
     \A q \in Requests : field \in DOMAIN work[q] => work[q][field] # x}

\* The row of a school that a request has advanced a sequence of.
Advanced(r, h) == "school" \in DOMAIN work[r] /\ work[r].school = h
RowFree_Always(h) == TRUE
RowFree(h) == \A r \in Requests : ~Advanced(r, h)

\* Columns that differ from what was loaded are written, the others are not.
Merged_Whole(row, old, new) == new
Merged(row, old, new) ==
  [f \in DOMAIN row |-> IF new[f] # old[f] THEN new[f] ELSE row[f]]

---------------------------------------------------------------------------------
(* Students                                                                      *)

\* enforce_subscription_capacity
HasQuota_OffByOne(h) == Cardinality(ActiveStudents(h)) <= Limit[uses]
HasQuota(h) == Cardinality(ActiveStudents(h)) < Limit[uses]

HasRoom_OffByOne(c) == Cardinality(In(c)) <= class[c].capacity
HasRoom(c) == Cardinality(In(c)) < class[c].capacity

\* create_student: the quota, and a matricule that was typed (0: none).  A student may
\* be created in a class, or in none.
CreateRead(r, mat, C) ==
  /\ "enrolment" \in uses
  /\ \E s \in Fresh(student, "student") :
       /\ HasQuota(Home[s])
       /\ mat \notin Matricules(Home[s])
       /\ Begin(r, [op |-> "create", student |-> s, mat |-> mat, classes |-> C])

\* next_matricule: the sequence moves on past the matricules that exist.
NextNumber(h) == CHOOSE n \in seq[h] + 1 .. seq[h] + 1 + Cardinality(Students) :
                   /\ n \notin Matricules(h)
                   /\ \A m \in seq[h] + 1 .. n - 1 : m \in Matricules(h)

\* It holds the school's row from here on; then the class is checked.
CreateNumber(r) ==
  LET w == work[r] h == Home[w.student] IN
  /\ Ready(r, "create")
  /\ w.mat = 0 => RowFree(h)
  /\ \A c \in w.classes : HasRoom(c)
  /\ Continue(r, IF w.mat = 0
                 THEN [op |-> "insert", student |-> w.student, mat |-> NextNumber(h),
                       classes |-> w.classes, school |-> h]
                 ELSE [w EXCEPT !.op = "insert"])

\* The student and the enrolment; two students with a matricule are refused.
CreateCommit(r) ==
  LET w == work[r] h == Home[w.student] IN
  /\ Ready(r, "insert")
  /\ w.mat \notin Matricules(h)
  /\ student' = [student EXCEPT ![w.student] = [status |-> "active", mat |-> w.mat,
                                                typed |-> ~Advanced(r, h)]]
  /\ place' = [place EXCEPT ![w.student] =
                 [c \in Classes |-> IF c \in w.classes THEN "in" ELSE "none"]]
  /\ seq' = IF Advanced(r, h) THEN [seq EXCEPT ![h] = w.mat] ELSE seq
  /\ End(r)
  /\ UNCHANGED <<class, level, card, badge, widest>>

\* The synchronisation creates a student with the matricule of the station, in no class.
SyncCreateRead(r, mat) ==
  /\ "offline" \in uses
  /\ mat # 0
  /\ \E s \in Fresh(student, "student") :
       /\ mat \notin Matricules(Home[s])
       /\ HasQuota(Home[s])
       /\ Begin(r, [op |-> "insert", student |-> s, mat |-> mat, classes |-> {}])

StatusSession(s, to, C) ==
  [op |-> "status", of |-> s, old |-> student[s].status, new |-> to, leaves |-> C]

\* change_student_status: who leaves the school leaves its classes.
StatusRead(r, s, to) ==
  /\ "enrolment" \in uses
  /\ s \in Exist(student)
  /\ to = "active" /\ student[s].status # "active" => HasQuota(Home[s])
  /\ Begin(r, StatusSession(s, to, IF to = "active" THEN {} ELSE ClassesOf(s)))

WithdrawRead(r, s) ==
  /\ "enrolment" \in uses
  /\ s \in Exist(student)
  /\ Begin(r, StatusSession(s, "gone", ClassesOf(s)))

\* The synchronised update of a status leaves the classes as they are.
SyncStatusRead(r, s, to) ==
  /\ "offline" \in uses
  /\ s \in Exist(student)
  /\ to = "active" /\ student[s].status # "active" => HasQuota(Home[s])
  /\ Begin(r, StatusSession(s, to, {}))

StatusCommit(r) ==
  LET w == work[r] IN
  /\ Ready(r, "status")
  /\ student' = [student EXCEPT ![w.of].status = IF w.new # w.old THEN w.new ELSE @]
  /\ place' = [place EXCEPT ![w.of] =
                 [c \in Classes |-> IF c \in w.leaves THEN "left" ELSE @[c]]]
  /\ End(r)
  /\ UNCHANGED <<class, level, card, seq, badge, widest>>

---------------------------------------------------------------------------------
(* Enrolments                                                                    *)

MayEnrol_SameClass(s, c) == c \notin ClassesOf(s)
MayEnrol(s, c) == ClassesOf(s) = {}

\* create_enrollment: one enrolment a year.
EnrolRead(r, s, c) ==
  /\ "enrolment" \in uses
  /\ s \in Exist(student) /\ c \in Exist(class)
  /\ MayEnrol(s, c)
  /\ HasRoom(c)
  /\ Begin(r, [op |-> "enrol", of |-> s, leaves |-> {}, to |-> c])

\* Offline, the capacity of the class is not looked at.
SyncEnrolRead(r, s, c) ==
  /\ "offline" \in uses
  /\ s \in Exist(student) /\ c \in Exist(class)
  /\ MayEnrol(s, c)
  /\ Begin(r, [op |-> "enrol", of |-> s, leaves |-> {}, to |-> c])

\* transfer_enrollment: from the class where the student is.
TransferRead(r, s, c) ==
  /\ "enrolment" \in uses
  /\ s \in Exist(student) /\ c \in Exist(class)
  /\ c \notin ClassesOf(s)
  /\ HasRoom(c)
  /\ \E from \in ClassesOf(s) :
       Begin(r, [op |-> "enrol", of |-> s, leaves |-> {from}, to |-> c])

\* An enrolment is never opened again: a class that was left is refused by the index.
EnrolCommit(r) ==
  LET w == work[r] IN
  /\ Ready(r, "enrol")
  /\ place[w.of][w.to] = "none"
  /\ place' = [place EXCEPT ![w.of] =
                 [c \in Classes |-> IF c = w.to THEN "in"
                                    ELSE IF c \in w.leaves THEN "left" ELSE @[c]]]
  /\ End(r)
  /\ UNCHANGED <<student, class, level, card, seq, badge, widest>>

---------------------------------------------------------------------------------
(* Classes and levels                                                            *)

ClassSession(c, old, new) == [op |-> "class", class |-> c, old |-> old, new |-> new]

\* create_class takes a level as it is, update_class one that is active.
MakeClassRead(r, l, cap) ==
  /\ "classes" \in uses
  /\ \E c \in Fresh(class, "class") :
       Begin(r, ClassSession(c, NoRow, [open |-> TRUE, capacity |-> cap, level |-> l]))

UpdateClassRead(r, c, l, cap) ==
  /\ "classes" \in uses
  /\ c \in Exist(class)
  /\ level[l] \/ l = class[c].level
  /\ Begin(r, ClassSession(c, class[c], [class[c] EXCEPT !.level = l, !.capacity = cap]))

\* deactivate_class, refused while a student is in it; restore_class.
CloseClassRead(r, c) ==
  /\ "classes" \in uses
  /\ c \in Exist(class)
  /\ In(c) = {}
  /\ Begin(r, ClassSession(c, class[c], [class[c] EXCEPT !.open = FALSE]))

ReopenClassRead(r, c) ==
  /\ "classes" \in uses
  /\ c \in Exist(class)
  /\ Begin(r, ClassSession(c, class[c], [class[c] EXCEPT !.open = TRUE]))

ClassCommit(r) ==
  LET w == work[r]
      row == IF w.old = NoRow THEN w.new ELSE Merged(class[w.class], w.old, w.new)
  IN
  /\ Ready(r, "class")
  /\ class' = [class EXCEPT ![w.class] = row]
  /\ widest' = [widest EXCEPT ![w.class] = IF row.capacity > @ THEN row.capacity ELSE @]
  /\ End(r)
  /\ UNCHANGED <<student, place, level, card, seq, badge>>

\* deactivate_level and deactivate_stream, refused while a class that is open uses it.
CloseLevelRead(r, l) ==
  /\ "classes" \in uses
  /\ \A c \in Exist(class) : class[c].level = l => ~class[c].open
  /\ Begin(r, [op |-> "level", level |-> l, new |-> FALSE])

ReopenLevelRead(r, l) ==
  /\ "classes" \in uses
  /\ Begin(r, [op |-> "level", level |-> l, new |-> TRUE])

LevelCommit(r) ==
  /\ Ready(r, "level")
  /\ level' = [level EXCEPT ![work[r].level] = work[r].new]
  /\ End(r)
  /\ UNCHANGED <<student, place, class, card, seq, badge, widest>>

---------------------------------------------------------------------------------
(* Cards                                                                         *)

CardsOf(s) == {k \in Exist(card) : card[k].holder = s}
HasLiveCard(s) == \E k \in CardsOf(s) : card[k].live

\* issue_card: for one holder.  bulk_issue_class_cards: for the members of a class who
\* have none that is active; it looks at each in turn.
IssueRead(r, s) ==
  /\ "cards" \in uses
  /\ s \in Exist(student)
  /\ Begin(r, [op |-> "issue", todo |-> {s}, cards |-> <<>>, bulk |-> FALSE])

BulkRead(r, c, h) ==
  LET S == {s \in In(c) : Home[s] = h} IN
  /\ "cards" \in uses
  /\ c \in Exist(class)
  /\ S # {}
  /\ Begin(r, [op |-> "issue", todo |-> S, cards |-> <<>>, bulk |-> TRUE])

\* next_card_number advances the school's sequence, and the card is inserted.
Number(r, h) == IF Advanced(r, h) THEN work[r].number + 1 ELSE badge[h] + 1
IssueOne(r, s) ==
  LET w == work[r] h == Home[s] IN
  /\ Ready(r, "issue")
  /\ s \in w.todo
  /\ IF w.bulk /\ HasLiveCard(s) THEN Continue(r, [w EXCEPT !.todo = @ \ {s}])
     ELSE /\ Advanced(r, h) \/ RowFree(h)
          /\ Continue(r, [op |-> "issue", todo |-> w.todo \ {s}, bulk |-> w.bulk,
                          school |-> h, number |-> Number(r, h),
                          cards |-> Append(w.cards, [holder |-> s, number |-> Number(r, h),
                                                     live |-> TRUE, status |-> "active"])])

\* The number of a card is unique among the cards of all schools.
NumberTaken(n) == \E k \in Exist(card) : card[k].number = n
Clashes(r) == \E i \in DOMAIN work[r].cards : NumberTaken(work[r].cards[i].number)

IssueCommit(r) ==
  LET w == work[r] IN
  /\ Ready(r, "issue") /\ w.todo = {}
  /\ ~Clashes(r)
  /\ \E new \in [DOMAIN w.cards -> Cards \ Exist(card)] :
       /\ \A i, j \in DOMAIN new : new[i] = new[j] => i = j
       /\ card' = [k \in Cards |-> IF \E i \in DOMAIN new : new[i] = k
                                   THEN w.cards[CHOOSE i \in DOMAIN new : new[i] = k]
                                   ELSE card[k]]
  /\ badge' = [h \in Schools |-> IF Advanced(r, h) THEN w.number ELSE badge[h]]
  /\ End(r)
  /\ UNCHANGED <<student, place, class, level, seq, widest>>

CardSession(k, to) ==
  [op |-> "card", card |-> k, old |-> card[k],
   new |-> [card[k] EXCEPT !.status = to, !.live = to \in Live]]

RevokeRead(r, k) ==
  /\ k \in Exist(card)
  /\ Begin(r, CardSession(k, "revoked"))

\* update_card_lifecycle takes any status to any other.
LifecycleRead(r, k, to) ==
  /\ k \in Exist(card)
  /\ Begin(r, CardSession(k, to))

MoveCardCommit(r) ==
  LET w == work[r] IN
  /\ Ready(r, "card")
  /\ card' = [card EXCEPT ![w.card] = Merged(@, w.old, w.new)]
  /\ End(r)
  /\ UNCHANGED <<student, place, class, level, seq, badge, widest>>

---------------------------------------------------------------------------------

\* Refused by a check, an index, or a failure: the transaction is rolled back.
Abort(r) ==
  /\ ~Ready(r, "none")
  /\ End(r)
  /\ UNCHANGED <<rows, seq, badge, widest>>

Read(r) ==
  \/ \E mat \in Given \cup {0}, C \in {{}} \cup {{c} : c \in Exist(class)} :
       CreateRead(r, mat, C)
  \/ \E mat \in Given : SyncCreateRead(r, mat)
  \/ \E s \in Students : WithdrawRead(r, s) \/ IssueRead(r, s)
  \/ \E s \in Students, to \in {"active", "gone"} :
       StatusRead(r, s, to) \/ SyncStatusRead(r, s, to)
  \/ \E s \in Students, c \in Classes :
       EnrolRead(r, s, c) \/ SyncEnrolRead(r, s, c) \/ TransferRead(r, s, c)
  \/ \E l \in Levels, cap \in Capacities : MakeClassRead(r, l, cap)
  \/ \E c \in Classes, l \in Levels, cap \in Capacities : UpdateClassRead(r, c, l, cap)
  \/ \E c \in Classes : CloseClassRead(r, c) \/ ReopenClassRead(r, c)
  \/ \E l \in Levels : CloseLevelRead(r, l) \/ ReopenLevelRead(r, l)
  \/ \E c \in Classes, h \in Schools : BulkRead(r, c, h)
  \/ \E k \in Cards : RevokeRead(r, k)
  \/ \E k \in Cards, to \in Live \cup Dead : LifecycleRead(r, k, to)

Write(r) ==
  \/ CreateNumber(r)
  \/ CreateCommit(r)
  \/ StatusCommit(r)
  \/ EnrolCommit(r)
  \/ ClassCommit(r)
  \/ LevelCommit(r)
  \/ \E s \in Students : IssueOne(r, s)
  \/ IssueCommit(r)
  \/ MoveCardCommit(r)

Next == \E r \in Requests : Read(r) \/ Write(r) \/ Abort(r)

Spec == Init /\ [][Next]_vars

---------------------------------------------------------------------------------
(* Properties                                                                    *)

Excess == Cardinality(Requests) - 1

\* Each check of the quota is of a count that other requests are about to change: the
\* school has never more active students than its subscription allows and, beyond it,
\* the requests that were under way beside one.
QuotaHolds == \A h \in Schools : Cardinality(ActiveStudents(h)) <= Limit[uses] + Excess

\* So with the classes of a school that enrols online: never more than the largest
\* capacity that the class had, and the requests under way.
ClassHolds ==
  "offline" \notin uses =>
    \A c \in Classes : Cardinality(In(c)) <= widest[c] + Excess

\* If requests do not cross, a student is in one class at most, whichever way the
\* student came into it.
OneClass == ~overlapped => \A s \in Students : Cardinality(ClassesOf(s)) <= 1

\* The subscription's number of students and a class's capacity are exceeded at most by the
\* requests that were under way, and no student is in two classes unless requests crossed.
Limits == QuotaHolds /\ ClassHolds /\ OneClass

\* However the calls cross, the matricule that was generated for a request is refused by
\* the index only if someone typed the same one meanwhile.
GeneratedIsFree ==
  \A r \in Requests :
    Ready(r, "insert") /\ "school" \in DOMAIN work[r] =>
      \A s \in Of(Exist(student), work[r].school) :
        student[s].mat = work[r].mat => student[s].typed

\* However the calls cross, a card that was struck off is put back only by a change of
\* status that had found it so: a slow "delivered" does not bring back a card that was
\* revoked meanwhile.
RevivedKnowingly ==
  [][\A k \in Exist(card) : card[k].live' /\ ~card[k].live =>
       \E r \in Requests : Ready(r, "card") /\ work[r].card = k /\ ~work[r].old.live]_vars

\* If requests do not cross, the number of the next card of a school is free.
NextCardIsFree ==
  ~overlapped => \A r \in Requests : Ready(r, "issue") => ~Clashes(r)
=================================================================================
