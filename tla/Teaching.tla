--------------------------------- MODULE Teaching ---------------------------------
(* Teachers, what they are assigned to, the marks they enter, and the screens that say *)
(* what is missing, in a period that stays open: app/api/academic.py (assignments,     *)
(* assessments, entry), app/api/evaluation.py (activities, workspace),                 *)
(* app/services/teacher_portal.py and the alerts of app/api/dashboard.py.  A request   *)
(* that enters marks reads who is in the class before it commits.                      *)
EXTENDS Integers, FiniteSets

CONSTANTS
  Teachers, Students, Classes, Subjects,
  Tests,      \* assessments that may be set
  Activities, \* the evaluation activities among them
  Scopes,     \* the sets of <<subject, class>> that academic.grades.create may cover
  Requests,
  None

TeachingConstants ==
  /\ Activities \subseteq Tests
  /\ Scopes \subseteq SUBSET (Subjects \X Classes)
  /\ None \notin Classes \union Teachers

VARIABLES
  elevated,  \* users with settings, users or report cards to manage
  scope,     \* per teacher: where the posts let him create assessments; the other
             \* academic permissions are held for the whole school, as the routes ask
  assigned,  \* TeacherAssignment: <<teacher, subject, class>>
  home,      \* the class of a student whose membership is open, or None
  left,      \* memberships with left_at: <<student, class>>
  test,      \* per test: who created it, for which subject and class
  mark,      \* per test and student: no row, a draft, or further
  entering   \* per request: the test and the students without a row that it has read

vars == <<elevated, scope, assigned, home, left, test, mark, entering>>

NoTest == [by |-> None, subject |-> None, class |-> None]
Nothing == [test |-> None, new |-> {}]

TypeOK ==
  /\ elevated \subseteq Teachers /\ scope \in [Teachers -> Scopes]
  /\ assigned \subseteq Teachers \X Subjects \X Classes
  /\ home \in [Students -> Classes \union {None}] /\ left \subseteq Students \X Classes
  /\ \A t \in Tests : test[t] # NoTest =>
       test[t] \in [by : Teachers, subject : Subjects, class : Classes]
  /\ mark \in [Tests -> [Students -> {"none", "draft", "sent"}]]
  /\ entering \in [Requests -> [test : Tests \union {None}, new : SUBSET Students]]

Init ==
  /\ elevated \in SUBSET Teachers /\ scope \in [Teachers -> Scopes]
  /\ assigned = {} /\ left = {}
  /\ home = [s \in Students |-> None]
  /\ test = [t \in Tests |-> NoTest]
  /\ mark = [t \in Tests |-> [s \in Students |-> "none"]]
  /\ entering = [r \in Requests |-> Nothing]
----------------------------------------------------------------------------
(* Guards *)

Open(c) == {s \in Students : home[s] = c}
Set == {t \in Tests : test[t] # NoTest}
Covers(u, x, c) == <<x, c>> \in scope[u]
\* _teacher_academic_guard, _teacher_assignment_guard
Assigned(u, x, c) == u \in elevated \/ <<u, x, c>> \in assigned

\* upsert_grades does not ask for an assignment, upsert_results does.
MayMark(u, t) == t \in Activities => Assigned(u, test[t].subject, test[t].class)
Enrolled(s, c) == home[s] = c
----------------------------------------------------------------------------
(* Screens *)

Rows(t) == {s \in Students : mark[t][s] # "none"}
\* teacher_overview: the tests of the teacher, in a class of his, with fewer marks than
\* open memberships; evaluation activities are not looked at
HisClass(u, c) == \E x \in Subjects : <<u, x, c>> \in assigned
Pending_InOneSubject(u) ==
  {t \in Set \ Activities :
     /\ test[t].by = u /\ <<u, test[t].subject, test[t].class>> \in assigned
     /\ Cardinality(Rows(t)) < Cardinality(Open(test[t].class))}
Pending(u) ==
  {t \in Set \ Activities :
     /\ test[t].by = u /\ HisClass(u, test[t].class)
     /\ Cardinality(Rows(t)) < Cardinality(Open(test[t].class))}
\* dashboard_alerts: the creators of the assessments with a draft
Alerted == {test[t].by : t \in {a \in Set \ Activities : \E s \in Students : mark[a][s] = "draft"}}
\* teacher_workspace: the activities of a class with as many marks as it has students
Complete(c) ==
  {t \in Set \intersect Activities :
     test[t].class = c /\ Cardinality(Rows(t)) >= Cardinality(Open(c))}
\* list_assessments, activities
Listed(u, c) == {t \in Set : test[t].class = c /\ Assigned(u, test[t].subject, c)}
\* list_assessment_grades, activity_results: the students of the class, with their marks
Sheet(t) == [s \in Open(test[t].class) |-> mark[t][s]]
Remaining(t) == Cardinality(Open(test[t].class)) - Cardinality(Rows(t))
----------------------------------------------------------------------------
(* What changes it *)

\* assign_teacher: a second time is refused by the unique constraint.  There is no
\* operation that takes an assignment back.
Assign(u, x, c) ==
  /\ <<u, x, c>> \notin assigned
  /\ assigned' = assigned \union {<<u, x, c>>}
  /\ UNCHANGED <<elevated, scope, home, left, test, mark, entering>>
Enrol(s, c) ==
  /\ home[s] = None /\ <<s, c>> \notin left
  /\ home' = [home EXCEPT ![s] = c]
  /\ UNCHANGED <<elevated, scope, assigned, left, test, mark, entering>>
Leave(s) ==
  /\ home[s] # None
  /\ left' = left \union {<<s, home[s]>>} /\ home' = [home EXCEPT ![s] = None]
  /\ UNCHANGED <<elevated, scope, assigned, test, mark, entering>>
\* create_assessment looks at the posts only, create_activity at the assignment too.
SetTest(u, t, x, c) ==
  /\ test[t] = NoTest
  /\ IF t \in Activities THEN Assigned(u, x, c) ELSE Covers(u, x, c)
  /\ test' = [test EXCEPT ![t] = [by |-> u, subject |-> x, class |-> c]]
  /\ UNCHANGED <<elevated, scope, assigned, home, left, mark, entering>>
\* The two upserts: every student of the batch is in the class, or none is marked.
Read(r, u, t, batch) ==
  /\ entering[r] = Nothing /\ t \in Set /\ MayMark(u, t)
  /\ \A s \in batch : Enrolled(s, test[t].class)
  /\ entering' = [entering EXCEPT ![r] = [test |-> t, new |-> batch \ Rows(t)]]
  /\ UNCHANGED <<elevated, scope, assigned, home, left, test, mark>>
\* The unique constraint refuses a row that another request has made meanwhile.
Commit(r) ==
  LET e == entering[r] IN
  /\ e # Nothing
  /\ e.new \intersect Rows(e.test) = {}
  /\ mark' = [mark EXCEPT ![e.test] = [s \in Students |-> IF s \in e.new THEN "draft" ELSE @[s]]]
  /\ entering' = [entering EXCEPT ![r] = Nothing]
  /\ UNCHANGED <<elevated, scope, assigned, home, left, test>>
Refuse(r) ==
  /\ entering[r] # Nothing /\ entering[r].new \intersect Rows(entering[r].test) # {}
  /\ entering' = [entering EXCEPT ![r] = Nothing]
  /\ UNCHANGED <<elevated, scope, assigned, home, left, test, mark>>
\* transition_grades, transition_evaluation_results
Submit(u, t, s) ==
  /\ mark[t][s] = "draft" /\ Assigned(u, test[t].subject, test[t].class)
  /\ mark' = [mark EXCEPT ![t][s] = "sent"]
  /\ UNCHANGED <<elevated, scope, assigned, home, left, test, entering>>

Next ==
  \/ \E u \in Teachers, x \in Subjects, c \in Classes :
       Assign(u, x, c) \/ \E t \in Tests : SetTest(u, t, x, c)
  \/ \E s \in Students : Leave(s) \/ \E c \in Classes : Enrol(s, c)
  \/ \E r \in Requests :
       \/ Commit(r) \/ Refuse(r)
       \/ \E u \in Teachers, t \in Tests, batch \in SUBSET Students \ {{}} : Read(r, u, t, batch)
  \/ \E u \in Teachers, t \in Tests, s \in Students : Submit(u, t, s)

Spec == Init /\ [][Next]_vars
----------------------------------------------------------------------------
(* Correctness *)

Missing(t) == {s \in DOMAIN Sheet(t) : Sheet(t)[s] # "sent"}
Gone(t) == {s \in Rows(t) : home[s] # test[t].class}

\* Between them the screens forget no one: an assessment that lacks a mark of a student
\* of the class, or has it as a draft, is in the overview of its teacher, listed to him
\* when the subject is his, with as many marks remaining as its sheet has empty lines, or
\* the alerts count him; an activity that lacks a mark is not shown as complete.  Except
\* where a student with a mark has left: the screens count rows, his too.
NothingForgotten ==
  \A t \in Set : Gone(t) = {} =>
    LET u == test[t].by  c == test[t].class
        empty == {s \in DOMAIN Sheet(t) : Sheet(t)[s] = "none"}
    IN IF t \in Activities
       THEN empty # {} => t \notin Complete(c)
       ELSE /\ Missing(t) # {} /\ HisClass(u, c) => t \in Pending(u) \/ u \in Alerted
            /\ t \in Pending(u) => Remaining(t) = Cardinality(empty)
            /\ t \in Pending(u) /\ <<u, test[t].subject, c>> \in assigned => t \in Listed(u, c)

\* "Toutes les saisies sont à jour": what the overview says when nothing is pending.
AllEntered ==
  \A u \in Teachers : Pending(u) = {} =>
    \A t \in Set \ Activities :
      test[t].by = u /\ HisClass(u, test[t].class) => Open(test[t].class) \subseteq Rows(t)
===================================================================================
