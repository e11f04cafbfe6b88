---------------------------------- MODULE Grading ---------------------------------
(* What the school computes from the results of one student in a period: the bulletin, *)
(* the calculation of the period, the summary of the class and the student's, with     *)
(* subject averages, grades and GPA (services/evaluation_engine.py, api/evaluation.py).*)
(* Averages, percentages and points are in hundredths.  Decimal's quotients are exact  *)
(* here: the maxima divide a power of ten.                                             *)
EXTENDS Integers, Sequences, FiniteSets, FiniteSetsExt

CONSTANTS
  Activities,
  SubjectOf, ClassOf,  \* [Activities -> ...]: a subject or NoSubject; a class
  MaxOf, Coefficient,  \* [Activities -> Nat \ {0}]
  OwnMaxima, Scores,   \* what an entry may bring: a maximum or None, a score or None
  Scales,              \* the rating scales the school may set, in display order
  NoSubject, None

Unit == 10000   \* every maximum divides it

\* A band of a scale, of which any limit and the point may be missing
Bands == [min : Nat \union {None}, max : Nat \union {None}, point : Nat \union {None}]

GradingConstants ==
  /\ MaxOf \in [Activities -> Nat \ {0}] /\ Coefficient \in [Activities -> Nat \ {0}]
  /\ DOMAIN SubjectOf = Activities /\ DOMAIN ClassOf = Activities
  /\ \A m \in {MaxOf[a] : a \in Activities} \union (OwnMaxima \ {None, 0}) : Unit % m = 0
  /\ None \notin Nat /\ OwnMaxima \ {None} \subseteq Nat /\ Scores \ {None} \subseteq Nat
  /\ \A scale \in Scales : scale \in Seq(Bands)

VARIABLES
  result,  \* per activity: the row of the student, or NoResult
  home,    \* the student's class
  closed   \* classes whose period is closed

vars == <<result, home, closed>>

Classes == {ClassOf[a] : a \in Activities}
\* "final": validated, locked or published; the three states before count alike.
\* gpa_mode of the framework
Modes == {"overall_scale", "subject_weighted"}
NoResult == [score |-> None, max |-> None, absent |-> FALSE, final |-> FALSE, made |-> FALSE]

TypeOK ==
  /\ result \in [Activities -> [score : Scores, max : OwnMaxima \union {None},
                                absent : BOOLEAN, final : BOOLEAN, made : BOOLEAN]]
  /\ home \in Classes /\ closed \subseteq Classes

Init ==
  /\ result = [a \in Activities |-> NoResult]
  /\ home \in Classes /\ closed = {}
----------------------------------------------------------------------------
(* The engine *)

HalfUp(n, d) == (2 * n + d) \div (2 * d)

\* `r.max_score or a.max_score`
Maximum(res, a) == IF res[a].max \notin {None, 0} THEN res[a].max ELSE MaxOf[a]
Scored_NotZero(res, A) == {a \in A : res[a].made /\ res[a].score \notin {None, 0}}
Scored(res, A) == {a \in A : res[a].made /\ res[a].score # None}
\* calculate_period_results, build_bulletin: final, and not absent
Usable(res, A) == {a \in Scored(res, A) : res[a].final /\ ~res[a].absent}

SumOf(f, A) == MapThenSumSet(LAMBDA x : f[x], A)
CoefficientSum(A) == SumOf(Coefficient, A)
\* A mark out of 20, in parts of Unit
Mark(res, a) == res[a].score * 20 * (Unit \div Maximum(res, a))
Weighted(res, A) == SumOf([a \in A |-> Mark(res, a) * Coefficient[a]], A)
Average(res, A) ==
  IF A = {} THEN None ELSE HalfUp(Weighted(res, A) * 100, CoefficientSum(A) * Unit)

\* The subjects of the marks, each with its average.
Subjects(A) == {SubjectOf[a] : a \in A} \ {NoSubject}
Of(A, s) == {a \in A : SubjectOf[a] = s}
SubjectAverage_Unweighted(res, A, s) ==
  HalfUp(Weighted(res, Of(A, s)) * 100, Cardinality(Of(A, s)) * Unit)
SubjectAverage(res, A, s) == Average(res, Of(A, s))

\* The first band of the scale that holds a percentage; 0 for none.
Holds(band, p) == (band.min = None \/ p >= band.min) /\ (band.max = None \/ p <= band.max)
Band(scale, p) ==
  LET fits == {i \in DOMAIN scale : Holds(scale[i], p)}
  IN IF p = None \/ fits = {} THEN 0 ELSE Min(fits)
Percent(average) == IF average = None THEN None ELSE average * 5
Point(scale, average) ==
  LET band == Band(scale, Percent(average))
  IN IF band = 0 THEN None ELSE scale[band].point
\* rating_for_score, the code kept with the result when it is entered
Rating(scale, score, max) == Band(scale, HalfUp(score * 10000, max))

\* Subjects whose grade has no point do not count; without any the overall grade does.
Gpa(mode, scale, res, A) ==
  LET point(s) == Point(scale, SubjectAverage(res, A, s))
      pointed == {s \in Subjects(A) : point(s) # None}
  IN IF mode = "subject_weighted" /\ pointed # {}
     THEN HalfUp(SumOf([s \in pointed |-> point(s) * CoefficientSum(Of(A, s))], pointed),
                 SumOf([s \in pointed |-> CoefficientSum(Of(A, s))], pointed))
     ELSE Point(scale, Average(res, A))

\* student_risk, on the marks of a class in any state, each out of 20 and with no weight;
\* absences and sanctions have no operation that records them
Risk(res, A) ==
  LET B == {a \in Scored(res, A) : ~res[a].absent}
      total == SumOf([a \in B |-> Mark(res, a)], B)
      below(x) == total < x * Cardinality(B) * Unit
  IN CASE B = {} -> 10 [] B # {} /\ below(10) -> 45
       [] B # {} /\ below(12) /\ ~below(10) -> 25 [] OTHER -> 0
----------------------------------------------------------------------------
(* What is shown *)

InClass(c) == {a \in Activities : ClassOf[a] = c}
\* bulletin-preview of a class, and what finalize_class_period keeps
Bulletin(c) == Average(result, Usable(result, InClass(c)))
\* period-calculation: the results of the student wherever they come from
Calculation == Average(result, Usable(result, Activities))
\* period-summary, which does not look at absences
ClassSummary(c) ==
  Average(result, {a \in Scored(result, InClass(c)) : result[a].final})
----------------------------------------------------------------------------
(* What changes it *)

\* upsert_results
Entry_AbsentScored(score, max, absent, a) ==
  LET m == IF max # None THEN max ELSE MaxOf[a]
  IN score # None => m > 0 /\ score <= m
Entry(score, max, absent, a) ==
  LET m == IF max # None THEN max ELSE MaxOf[a]
  IN score # None => m > 0 /\ score <= m /\ ~absent
Enter(a) ==
  /\ ClassOf[a] = home /\ home \notin closed
  /\ \E score \in Scores, max \in OwnMaxima, absent \in BOOLEAN :
       /\ Entry(score, max, absent, a)
       /\ result' = [result EXCEPT ![a] = [score |-> score, max |-> max, absent |-> absent,
                                           final |-> @.final, made |-> TRUE]]
  /\ UNCHANGED <<home, closed>>
\* transition_evaluation_results, as far as "validated" or beyond
Move(a) ==
  /\ result[a].made /\ ~result[a].final /\ ClassOf[a] \notin closed
  /\ result' = [result EXCEPT ![a].final = TRUE]
  /\ UNCHANGED <<home, closed>>
Close(c) ==
  /\ c \notin closed /\ closed' = closed \union {c}
  /\ UNCHANGED <<result, home>>
\* The student leaves the class for another one of the year.
ChangeClass(c) ==
  /\ c # home /\ home' = c
  /\ UNCHANGED <<result, closed>>
Next ==
  \/ \E a \in Activities : Enter(a) \/ Move(a)
  \/ \E c \in Classes : Close(c) \/ ChangeClass(c)

Spec == Init /\ [][Next]_vars
----------------------------------------------------------------------------
(* Correctness *)

\* The average of a student in a class is the same one wherever it is read, though the
\* three views select the results each in its own way, whatever was entered, corrected
\* and moved before; the calculation of the period counts those of another class too.
ViewsAgree ==
  \A c \in Classes :
    LET elsewhere == Usable(result, Activities \ InClass(c))
    IN /\ ClassSummary(c) = Bulletin(c)
       /\ elsewhere = {} => Calculation = Bulletin(c)

\* The overall average lies between the lowest and the highest subject average, roundings
\* included, whenever every result that counts belongs to a subject.
WithinSubjects ==
  LET A == Usable(result, Activities)
      averages == {SubjectAverage(result, A, s) : s \in Subjects(A)}
  IN A # {} /\ Of(A, NoSubject) = {} =>
       Average(result, A) \in Min(averages) .. Max(averages)

\* A better score lowers neither the average nor its own rating nor the GPA, under either
\* mode, on a scale without holes or overlaps whose points grow with the percentage, and
\* does not raise the risk that the teacher is shown.  (A subject that rose into its first
\* band with a point, after bands without any, could lower the GPA.)
SoundScales ==
  {s \in Scales : /\ s # <<>>
                  /\ \A i \in DOMAIN s : {s[i].min, s[i].max, s[i].point} \subseteq Nat
                  /\ s[1].max = 10000 /\ s[Len(s)].min = 0
                  /\ \A i \in 1 .. Len(s) - 1 :
                       s[i].min = s[i + 1].max + 1 /\ s[i].point >= s[i + 1].point}
BetterIsNotLower ==
  \A a \in {x \in Activities : result[x].score # None} :
  \A b \in {s \in Scores \ {None} : s > result[a].score /\ s <= Maximum(result, a)} :
    LET better == [result EXCEPT ![a].score = b]
        before == Usable(result, Activities)  after == Usable(better, Activities)
    IN /\ Risk(better, InClass(ClassOf[a])) <= Risk(result, InClass(ClassOf[a]))
       /\ before # {} =>
            /\ Average(better, after) >= Average(result, before)
            /\ \A scale \in SoundScales :
                 /\ \A mode \in Modes :
                      Gpa(mode, scale, better, after) >= Gpa(mode, scale, result, before)
                 /\ Rating(scale, b, Maximum(result, a))
                      <= Rating(scale, result[a].score, Maximum(result, a))
===================================================================================
