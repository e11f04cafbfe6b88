--------------------------------- MODULE MCOffice ---------------------------------
(* Instances of Office for TLC: the register alone, of three students, two classes and *)
(* one school (Registry.cfg), and the other parts with one student (Office.cfg).       *)
EXTENDS Office, TLC

CONSTANTS h1, u1, direction, library, modify, users, MaxEnrol, MaxClasses, MaxCards

HomeOf == [s \in Students |-> h1]

Enrolment == {"enrolment"}
Offline == {"enrolment", "offline"}
Directory == {"enrolment", "classes"}
Badging == {"cards"}
AllServices == {Enrolment, Offline, Directory, Badging}
Bounds == [u \in Services |-> IF u = Badging THEN MaxCards
                              ELSE IF u = Directory THEN MaxClasses ELSE MaxEnrol]
OneOrTwo == [u \in Services |-> IF u = Badging THEN 2 ELSE 1]

Alike == Permutations(Requests) \cup Permutations(Students) \cup Permutations(Cards)

\* One permission stands for those on users and on settings.
Profiled == direction :> {modify, users}

\* A school without posts, or one where the centre has made three calls: u1 holds a post
\* that may hand rights on, but those on users in one class only.
TwoSchools ==
  {[links |-> {}, holders |-> {}],
   [links |-> {<<library, modify, "school">>, <<library, users, "class">>},
    holders |-> {<<u1, library>>}]}
===================================================================================
