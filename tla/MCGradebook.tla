------------------------------ MODULE MCGradebook -------------------------------
(* Instances of Grades for TLC: of the life of the marks, with two students and two *)
(* activities, and of the calculations, the catalogue and the teachers' lists.      *)
EXTENDS Grades, TLC

CONSTANTS a1, a2, a3, maths, french, c1, c2, y1, y2, l1, d1, k1, k2, g1, own, u1,
          s1, s2, t1, t2, q1, q2

\* Averages of 6, 18 with these weights are integers.
Weights == [a \in Activities |-> a]

\* A whole class, or the one student of a correction.
ClassOrOne == {Students, {1}}

Entries18 == {18}
ByActivity == {"results"}
ByNote == {"notes", "board"}
FourOrThree == (ByActivity :> 4) @@ (ByNote :> 3)

Row(score, state) == [score |-> score, state |-> state]
Nothing == [s \in Students |-> NoRow]

\* The period from its beginning, or with a first activity that was validated and a
\* second one is checked, without the absent student 2: equal averages until it is
\* validated.
BeginOrMiddle ==
  {[sheet \in Sheets |-> Nothing],
   [sheet \in Sheets |->
      IF sheet[2] = 1 THEN [s \in Students |-> Row(18, Validated)]
      ELSE [s \in Students |-> Row(IF s = 1 THEN 6 ELSE None, Validated - 1)]]}

Callers == Permutations(Requests) \cup Permutations({q1, q2}) \cup Permutations({s1, s2})

\* Two subjects; a3 is of another class than a1 and a2.  A scale of five bands without
\* holes, and one with a hole.
Band_(min, max, point) == [min |-> min, max |-> max, point |-> point]
SubjectsOf == (a1 :> maths @@ a2 :> french @@ a3 :> maths)
ClassesOf == (a1 :> c1 @@ a2 :> c1 @@ a3 :> c2)
Maxima == (a1 :> 20 @@ a2 :> 40 @@ a3 :> 20)
Coefficients == (a1 :> 1 @@ a2 :> 2 @@ a3 :> 3)
SchoolScales ==
  {<<Band_(9000, 10000, 400), Band_(8000, 8999, 300), Band_(7000, 7999, 200),
     Band_(6000, 6999, 100), Band_(0, 5999, 0)>>,
   <<Band_(5000, 10000, 100), Band_(2000, 4900, 0)>>}

\* Two posts: for every subject, and for one.
Posts == {{maths, french} \X {c1}, {<<maths, c1>>}}

\* The minimum of a board matters where there is one, and the beginnings of a part to it.
Beginnings ==
  /\ part # "book" =>
       uses = {"results"} /\ rule.min = 0 /\ \A sheet \in Sheets : mark[sheet] = Nothing
  /\ "board" \notin uses => rule.min = 0
  /\ part # "teachers" => elevated = {} /\ scope[u1] = {<<maths, c1>>}
  /\ part # "marks" => class = c1
  /\ part # "content" => catalogue = Content!Empty
FromThere == GradesInit /\ Beginnings
GradesFromThere == FromThere /\ [][GradesNext]_<<vars, marks, content, teachers, part>>
==================================================================================
