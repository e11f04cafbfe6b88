-------------------------------- MODULE Grades --------------------------------
(* The marks of a school: their life (Gradebook), and what rests on them or they rest   *)
(* on: the calculations (Grading), the catalogue of evaluations (Catalogue) and what    *)
(* teachers have to enter (Teaching).  They share nothing here; a behaviour is one of   *)
(* one of them.  Theorems about them follow, for any students, activities, weights,     *)
(* marks, years and teachers, and any number of requests that cross.                    *)
EXTENDS Gradebook, Sequences, FiniteSetTheorems, WellFoundedInduction, TLAPS

CONSTANTS
  Tasks, NoSubject, NoScore, SubjectOf, ClassOf, MaxOf, Coefficient, OwnMaxima, MarksEntered,
  Scales,                                                         \* Grading's
  Years, FirstYear, FrameworkKinds, StarterDomains, StarterCompetencies, StarterScales,
  OwnCode,
  MaxFrameworks, MaxEdits,                                        \* Catalogue's
  Staff, Pupils, Rooms, Courses, Tests, Evaluated, Scopes, Recorders, Nobody  \* Teaching's

VARIABLES part
VARIABLES result, class, shut
VARIABLES catalogue, used, years, current, opening, running, edits
VARIABLES elevated, scope, assigned, home, left, test, marked, entering

Marks_ == INSTANCE Grading WITH
  Activities <- Tasks, None <- NoScore, Scores <- MarksEntered, home <- class, closed <- shut
Content == INSTANCE Catalogue WITH Kinds <- FrameworkKinds
Teachers == INSTANCE Teaching WITH
  Teachers <- Staff, Students <- Pupils, Classes <- Rooms, Subjects <- Courses,
      Activities <- Evaluated,
  Requests <- Recorders, None <- Nobody, mark <- marked

marks == <<result, class, shut>>
content == <<catalogue, used, years, current, opening, running, edits>>
teachers == <<elevated, scope, assigned, home, left, test, marked, entering>>

ASSUME GradesAssumption ==
  /\ Marks_!GradingConstants /\ Content!CatalogueConstants /\ Teachers!TeachingConstants
  /\ IsFiniteSet(Tasks) /\ IsFiniteSet(Pupils)

GradesInit ==
  /\ Init /\ Marks_!Init /\ Content!Init /\ Teachers!Init
  /\ part \in {"book", "marks", "content", "teachers"}
GradesNext ==
  /\ part' = part
  /\ \/ part = "book" /\ Next /\ UNCHANGED <<marks, content, teachers>>
     \/ part = "marks" /\ Marks_!Next /\ UNCHANGED <<vars, content, teachers>>
     \/ part = "content" /\ Content!Next /\ UNCHANGED <<vars, marks, teachers>>
     \/ part = "teachers" /\ Teachers!Next /\ UNCHANGED <<vars, marks, content>>
GradesSpec == GradesInit /\ [][GradesNext]_<<vars, marks, content, teachers, part>>

\* Averages are the same ones wherever they are read, lie between the subjects' and do not
\* fall when a score rises (Grading).
MarksAddUp ==
  part = "marks" => Marks_!ViewsAgree /\ Marks_!WithinSubjects /\ Marks_!BetterIsNotLower

\* A criterion that was marked stays, and a start that follows a start changes nothing
\* (Catalogue).
CatalogueSettles == part = "content" => Content!MarkedCriteriaStay /\ Content!StartsSettle

\* A teacher is shown what he has still to enter, and nothing more (Teaching).
NothingForgotten == part = "teachers" => Teachers!NothingForgotten

\* "Toutes les saisies sont à jour", which the overview of a teacher says when it lists no
\* assessment: every student of the class has a mark (Teaching).
AllEntered == part = "teachers" => Teachers!AllEntered

----------------------------------------------------------------------------------
(* Sums.  A sum folds numbers over a finite set, in an order that CHOOSE gives: it   *)
(* is a number, and positive when they are.                                        *)

LEMMA SmallestSet ==
  ASSUME NEW K, IsFiniteSet(K), NEW Bad \in SUBSET SUBSET K, Bad # {}
  PROVE  \E T \in Bad : \A U \in SUBSET T : U # T => U \notin Bad
<1>1. Bad \subseteq FiniteSubsetsOf(K)
  BY FS_Subset DEF FiniteSubsetsOf
<1>2. PICK T \in Bad : \A U \in Bad : ~(<<U, T>> \in StrictSubsetOrdering(K))
  BY <1>1, FS_StrictSubsetOrderingWellFounded, WFMin
<1>3. ASSUME NEW U \in SUBSET T, U # T, U \in Bad PROVE FALSE
  BY <1>2, <1>3 DEF StrictSubsetOrdering
<1> QED
  BY <1>3

Taken(T) == CHOOSE x \in T : TRUE

\* f gives the sum of each subset of K.
Sums(a, K, f) ==
  /\ f = [T \in SUBSET K |-> f[T]]
  /\ \A T \in SUBSET K : f[T] = IF T = {} THEN 0 ELSE a[Taken(T)] + f[T \ {Taken(T)}]

LEMMA TakenIs ==
  ASSUME NEW T, T # {}
  PROVE  Taken(T) \in T /\ T \ {Taken(T)} # T
BY DEF Taken

LEMMA SumsAt ==
  ASSUME NEW K, NEW a, NEW f, Sums(a, K, f), NEW T \in SUBSET K
  PROVE  f[T] = IF T = {} THEN 0 ELSE a[Taken(T)] + f[T \ {Taken(T)}]
BY DEF Sums

LEMMA SumsOnce ==
  ASSUME NEW K, IsFiniteSet(K), NEW a, NEW f, NEW g, Sums(a, K, f), Sums(a, K, g)
  PROVE  f = g
<1> DEFINE Bad == {T \in SUBSET K : f[T] # g[T]}
<1>1. SUFFICES ASSUME Bad # {} PROVE FALSE
  <2>1. f = [T \in SUBSET K |-> f[T]] /\ g = [T \in SUBSET K |-> g[T]]
    BY DEF Sums
  <2>2. Bad = {} => \A T \in SUBSET K : f[T] = g[T]
    OBVIOUS
  <2> HIDE DEF Bad
  <2> QED
    BY <2>1, <2>2
<1>2. PICK T \in SUBSET K : f[T] # g[T] /\ \A U \in SUBSET T : U # T => f[U] = g[U]
  <2>1. Bad \in SUBSET SUBSET K
    OBVIOUS
  <2>2. PICK T \in Bad : \A U \in SUBSET T : U # T => U \notin Bad
    <3> HIDE DEF Bad
    <3> QED
      BY <1>1, <2>1, SmallestSet
  <2> QED
    BY <2>2
<1> HIDE DEF Bad
<1>3. CASE T = {}
  BY <1>2, <1>3, SumsAt
<1>4. CASE T # {}
  <2>1. PICK x \in T : x = Taken(T) /\ T \ {x} # T
    BY <1>4, TakenIs
  <2>2. f[T \ {x}] = g[T \ {x}]
    BY <1>2, <2>1
  <2>3. f[T] = a[x] + f[T \ {x}]
    BY <1>4, <2>1, SumsAt
  <2>4. g[T] = a[x] + g[T \ {x}]
    BY <1>4, <2>1, SumsAt
  <2> QED
    BY <1>2, <2>2, <2>3, <2>4
<1> QED
  BY <1>3, <1>4

\* The sums of the subsets of a part of K
LEMMA SumsOfPart ==
  ASSUME NEW K, NEW a, NEW f, Sums(a, K, f), NEW L \in SUBSET K,
         NEW g, g = [T \in SUBSET L |-> f[T]]
  PROVE  Sums(a, L, g)
<1>1. \A T \in SUBSET L : g[T] = f[T] /\ T \in SUBSET K /\ T \ {Taken(T)} \in SUBSET L
  OBVIOUS
<1>2. ASSUME NEW T \in SUBSET L
      PROVE  g[T] = IF T = {} THEN 0 ELSE a[Taken(T)] + g[T \ {Taken(T)}]
  <2>1. f[T] = IF T = {} THEN 0 ELSE a[Taken(T)] + f[T \ {Taken(T)}]
    BY <1>1 DEF Sums
  <2> QED
    BY <1>1, <2>1
<1>3. g = [T \in SUBSET L |-> g[T]]
  OBVIOUS
<1> QED
  BY <1>2, <1>3 DEF Sums

\* Over the smallest set that has no sums, the sums of its parts give them.
LEMMA SumsExist ==
  ASSUME NEW K, IsFiniteSet(K), NEW a
  PROVE  \E f : Sums(a, K, f)
<1> DEFINE Has(L) == \E f : Sums(a, L, f)
           Bad == {L \in SUBSET K : ~Has(L)}
<1>1. SUFFICES ASSUME Bad # {} PROVE FALSE
  BY DEF Bad
<1>2. PICK L \in SUBSET K : ~Has(L) /\ \A U \in SUBSET L : U # L => Has(U)
  <2>1. Bad \in SUBSET SUBSET K
    OBVIOUS
  <2>2. PICK T \in Bad : \A U \in SUBSET T : U # T => U \notin Bad
    <3> HIDE DEF Bad
    <3> QED
      BY <1>1, <2>1, SmallestSet
  <2> HIDE DEF Has
  <2> QED
    BY <2>2
<1> HIDE DEF Bad
<1>3. PICK v : v = [U \in SUBSET L |-> CHOOSE n : \E f : Sums(a, U, f) /\ f[U] = n]
  OBVIOUS
<1>4. ASSUME NEW U \in SUBSET L, U # L, NEW f, Sums(a, U, f) PROVE v[U] = f[U]
  <2>1. \A g : Sums(a, U, g) => g = f
    <3>1. IsFiniteSet(U)
      BY <1>2, FS_Subset
    <3> QED
      BY <1>4, <3>1, SumsOnce
  <2>2. v[U] = CHOOSE n : \E g : Sums(a, U, g) /\ g[U] = n
    BY <1>3
  <2> QED
    BY <1>4, <2>1, <2>2
<1>5. ASSUME NEW U \in SUBSET L, U # L
      PROVE  v[U] = IF U = {} THEN 0 ELSE a[Taken(U)] + v[U \ {Taken(U)}]
  <2>1. PICK f : Sums(a, U, f)
    BY <1>2, <1>5
  <2>2. v[U] = f[U]
    BY <1>4, <1>5, <2>1
  <2>3. U \in SUBSET U
    OBVIOUS
  <2>4. f[U] = IF U = {} THEN 0 ELSE a[Taken(U)] + f[U \ {Taken(U)}]
    BY <2>1, <2>3, SumsAt
  <2>5. CASE U = {}
    BY <2>2, <2>4, <2>5
  <2>6. CASE U # {}
    <3>1. PICK M \in SUBSET U : M = U \ {Taken(U)} /\ M # U
      <4>1. U \ {Taken(U)} # U /\ U \ {Taken(U)} \in SUBSET U
        BY <2>6, TakenIs
      <4> QED
        BY <4>1
    <3>2. M \in SUBSET L /\ M # L
      BY <3>1
    <3>3. PICK g : g = [T \in SUBSET M |-> f[T]]
      OBVIOUS
    <3>4. Sums(a, M, g)
      BY <2>1, <3>1, <3>3, SumsOfPart
    <3>5. g[M] = f[M]
      BY <3>3
    <3>6. v[M] = f[M]
      BY <1>4, <3>2, <3>4, <3>5
    <3> QED
      BY <2>2, <2>4, <2>6, <3>1, <3>6
  <2> QED
    BY <2>5, <2>6
<1>6. PICK top : top = IF L = {} THEN 0 ELSE a[Taken(L)] + v[L \ {Taken(L)}]
  OBVIOUS
<1>7. PICK g : g = [U \in SUBSET L |-> IF U = L THEN top ELSE v[U]]
  OBVIOUS
<1>8. g[L] = top /\ \A U \in SUBSET L : U # L => g[U] = v[U]
  BY <1>7
<1>9. ASSUME NEW U \in SUBSET L
      PROVE  g[U] = IF U = {} THEN 0 ELSE a[Taken(U)] + g[U \ {Taken(U)}]
  <2>1. U # {} => g[U \ {Taken(U)}] = v[U \ {Taken(U)}]
    <3>1. U # {} => U \ {Taken(U)} \in SUBSET L /\ U \ {Taken(U)} # L
      BY TakenIs
    <3> QED
      BY <1>8, <3>1
  <2>2. CASE U = L
    BY <1>6, <1>8, <2>1, <2>2
  <2>3. CASE U # L
    BY <1>5, <1>8, <2>1, <2>3
  <2> QED
    BY <2>2, <2>3
<1>10. g = [U \in SUBSET L |-> g[U]]
  BY <1>7
<1>11. Sums(a, L, g)
  BY <1>9, <1>10 DEF Sums
<1> QED
  BY <1>2, <1>11

\* A sum is a number.
LEMMA SumsAreNat ==
  ASSUME NEW K, IsFiniteSet(K), NEW a \in [K -> Nat], NEW f, Sums(a, K, f)
  PROVE  \A T \in SUBSET K : f[T] \in Nat
<1> DEFINE Bad == {T \in SUBSET K : f[T] \notin Nat}
<1>1. SUFFICES ASSUME Bad # {} PROVE FALSE
  OBVIOUS
<1>2. PICK T \in SUBSET K : f[T] \notin Nat /\ \A U \in SUBSET T : U # T => f[U] \in Nat
  <2>1. Bad \in SUBSET SUBSET K
    OBVIOUS
  <2>2. PICK T \in Bad : \A U \in SUBSET T : U # T => U \notin Bad
    <3> HIDE DEF Bad
    <3> QED
      BY <1>1, <2>1, SmallestSet
  <2> QED
    BY <2>2
<1> HIDE DEF Bad
<1>3. CASE T = {}
  <2>1. f[T] = 0
    BY <1>3, SumsAt
  <2> QED
    BY <1>2, <2>1
<1>4. CASE T # {}
  <2>1. PICK x \in T : x = Taken(T) /\ T \ {x} # T
    BY <1>4, TakenIs
  <2>2. f[T \ {x}] \in Nat /\ a[x] \in Nat
    BY <1>2, <2>1
  <2>3. f[T] = a[x] + f[T \ {x}]
    BY <1>4, <2>1, SumsAt
  <2> QED
    BY <1>2, <2>2, <2>3
<1> QED
  BY <1>3, <1>4

LEMMA SumOfIs ==
  ASSUME NEW K, IsFiniteSet(K), NEW a, NEW b, \A k \in K : a[k] = b[k],
         NEW f, Sums(b, K, f)
  PROVE  SumOf(a, K) = f[K]
<1> DEFINE Chosen == CHOOSE g : g = [T \in SUBSET K |->
             IF T = {} THEN 0
             ELSE a[CHOOSE x \in T : TRUE] + g[T \ {CHOOSE x \in T : TRUE}]]
<1>1. ASSUME NEW g
      PROVE  Sums(b, K, g) <=> g = [T \in SUBSET K |->
               IF T = {} THEN 0
               ELSE a[CHOOSE x \in T : TRUE] + g[T \ {CHOOSE x \in T : TRUE}]]
  <2>1. \A T \in SUBSET K : T # {} => b[CHOOSE x \in T : TRUE] = a[CHOOSE x \in T : TRUE]
    OBVIOUS
  <2> QED
    BY <2>1 DEF Sums, Taken
<1>2. \A g : Sums(b, K, g) => g = f
  BY SumsOnce
<1>3. Chosen = f
  BY <1>1, <1>2
<1>4. SumOf(a, K) = Chosen[K]
  BY DEF SumOf, MapThenSumSet, MapThenFoldSet
<1> QED
  BY <1>3, <1>4

LEMMA SumOfNat ==
  ASSUME NEW K, IsFiniteSet(K), NEW a, \A k \in K : a[k] \in Nat
  PROVE  /\ SumOf(a, K) \in Nat
         /\ K # {} /\ (\A k \in K : a[k] > 0) => SumOf(a, K) > 0
<1>1. PICK b \in [K -> Nat] : \A k \in K : a[k] = b[k]
  <2>1. [k \in K |-> a[k]] \in [K -> Nat]
    OBVIOUS
  <2> QED
    BY <2>1
<1>2. PICK f : Sums(b, K, f)
  BY SumsExist
<1>3. SumOf(a, K) = f[K]
  BY <1>1, <1>2, SumOfIs
<1>4. \A T \in SUBSET K : f[T] \in Nat
  BY <1>2, SumsAreNat
<1>5. ASSUME K # {}, \A k \in K : a[k] > 0 PROVE f[K] > 0
  <2>1. PICK x \in K : x = Taken(K)
    BY <1>5, TakenIs
  <2>2. K \in SUBSET K /\ K \ {x} \in SUBSET K
    OBVIOUS
  <2>3. f[K] = b[x] + f[K \ {x}]
    BY <1>2, <1>5, <2>1, <2>2, SumsAt
  <2>4. b[x] \in Nat /\ b[x] > 0 /\ f[K \ {x}] \in Nat
    BY <1>1, <1>4, <1>5, <2>1, <2>2
  <2> QED
    BY <2>3, <2>4
<1>6. f[K] \in Nat
  BY <1>4
<1> QED
  BY <1>3, <1>5, <1>6

----------------------------------------------------------------------------------
(* Averages and ranks                                                              *)

LEMMA MeanIs ==
  ASSUME NEW row, \A a \in Activities : row[a] \in Marks \cup {NoRow}
  PROVE  Mean(row) \in Averages
<1> DEFINE counted == {a \in Activities : Final(row[a])}
           points == [a \in counted |-> row[a].score * Weight[a]]
<1>1. IsFiniteSet(counted)
  BY GradebookAssumption, FS_Subset
<1>2. \A a \in counted : row[a].score \in Nat /\ Weight[a] \in Nat /\ Weight[a] > 0
  <2>1. Weight \in [Activities -> Nat \ {0}]
    BY GradebookAssumption
  <2> QED
    BY <2>1 DEF Final, Marks
<1>3. \A a \in counted : points[a] \in Nat
  <2>1. \A m, n \in Nat : m * n \in Nat
    OBVIOUS
  <2> QED
    BY <1>2, <2>1
<1> DEFINE total == SumOf(points, counted)
           weight == SumOf(Weight, counted)
<1> HIDE DEF points
<1>4. total \in Nat
  BY <1>1, <1>3, SumOfNat
<1>5. weight \in Nat /\ (counted # {} => weight > 0)
  BY <1>1, <1>2, SumOfNat
<1>6. Mean(row) = IF counted = {} THEN None ELSE total \div weight
  BY DEF Mean, points
<1> HIDE DEF total, weight, counted
<1>7. \A m, n \in Nat : n > 0 => m \div n \in Nat
  OBVIOUS
<1> QED
  BY <1>4, <1>5, <1>6, <1>7 DEF Averages

Above(k, S, s) == {t \in S : Average(k, t) > Average(k, s)}

\* Higher averages rank first and equal averages alike; no rank is beyond the class.
LEMMA SharedRanks ==
  ASSUME NEW k, NEW S, IsFiniteSet(S), \A t \in S : Average(k, t) \in Int,
         NEW s \in S, NEW t \in S
  PROVE  SharedRank(k, S, s) < SharedRank(k, S, t) <=> Average(k, s) > Average(k, t)
<1>1. /\ IsFiniteSet(Above(k, S, s)) /\ IsFiniteSet(Above(k, S, t))
      /\ Cardinality(Above(k, S, s)) \in Nat /\ Cardinality(Above(k, S, t)) \in Nat
  BY FS_Subset, FS_CardinalityType DEF Above
<1>2. CASE Average(k, s) > Average(k, t)
  <2>1. Above(k, S, s) \subseteq Above(k, S, t) /\ s \in Above(k, S, t)
            /\ s \notin Above(k, S, s)
    BY <1>2 DEF Above
  <2>2. Cardinality(Above(k, S, s)) < Cardinality(Above(k, S, t))
    BY <1>1, <2>1, FS_Subset
  <2> QED
    BY <1>1, <1>2, <2>2 DEF SharedRank, Above
<1>3. CASE ~(Average(k, s) > Average(k, t))
  <2>1. Above(k, S, t) \subseteq Above(k, S, s)
    BY <1>3 DEF Above
  <2>2. Cardinality(Above(k, S, t)) <= Cardinality(Above(k, S, s))
    BY <1>1, <2>1, FS_Subset
  <2> QED
    BY <1>1, <1>3, <2>2 DEF SharedRank, Above
<1> QED
  BY <1>2, <1>3

\* Who is ranked is not above himself.
LEMMA RankBound ==
  ASSUME NEW S \in SUBSET Students, NEW s \in S, NEW T \in SUBSET S, s \notin T
  PROVE  1 + Cardinality(T) \in 1..Cardinality(Students)
<1>1. IsFiniteSet(Students) /\ IsFiniteSet(T) /\ Cardinality(T) \in Nat
      /\ Cardinality(Students) \in Nat
  BY GradebookAssumption, FS_Subset, FS_CardinalityType
<1>2. T \subseteq Students /\ T # Students
  OBVIOUS
<1>3. Cardinality(T) < Cardinality(Students)
  BY <1>1, <1>2, FS_Subset
<1> QED
  BY <1>1, <1>3

----------------------------------------------------------------------------------
(* The inductive invariant                                                         *)

Closures == {"open", "closed", "published"}
Entering == {"enter", "sync", "move"}
Showing == {"publish", "hide", "show"}
OnCards == {"close", "generate"} \cup Showing
Others == {"none", "update", "deactivate"}

\* What a session loaded and will write: rows, none of which was removed since.
Fits(w, Rows, table) ==
  /\ DOMAIN w.old = DOMAIN w.new /\ DOMAIN w.new \subseteq Students
  /\ \A x \in DOMAIN w.new :
       /\ w.old[x] \in Rows \cup {NoRow} /\ w.new[x] \in Rows
       /\ w.old[x] # NoRow => table[x] # NoRow

OnlyShows(w) ==
  \A x \in DOMAIN w.new :
    w.old[x] # NoRow /\ w.new[x].avg = w.old[x].avg /\ w.new[x].rank = w.old[x].rank
FirstClosing(w) ==
  /\ \A x \in DOMAIN w.new : w.old[x] = NoRow
  /\ \A s, t \in {s \in DOMAIN w.new : w.new[s].rank > 0} :
       w.new[s].rank < w.new[t].rank <=> w.new[s].avg > w.new[t].avg
OneComputation(w) ==
  /\ w.old = Empty /\ DOMAIN w.new \subseteq Students
  /\ \A x \in DOMAIN w.new : w.new[x] \in Entries
  /\ \A s, t \in DOMAIN w.new : w.new[s].rank < w.new[t].rank
       <=> w.new[s].score > w.new[t].score
\* The entry n is the entry o validated.
Validates(n, o) ==
  /\ DOMAIN n = {"edition", "score", "rank", "valid"} /\ n.valid = TRUE
  /\ n.edition = o.edition /\ n.score = o.score /\ n.rank = o.rank
OnlyValidates(w) ==
  /\ DOMAIN w.old = DOMAIN w.new /\ DOMAIN w.new \subseteq Students
  /\ \A x \in DOMAIN w.new :
       w.old[x] \in Entries /\ Validates(w.new[x], w.old[x])

\* A session in a school that uses tools u, beside marks m and bulletins c
Sound(w, u, m, c) ==
  /\ w.op \in Entering \cup OnCards \cup Others \cup {"board", "validate"}
  /\ w.op \in Entering => w.sheet \in Sheets /\ Fits(w, Marks, m[w.sheet])
  /\ w.op \notin Entering => w.sheet = NoRow
  /\ w.op \in OnCards => Fits(w, Cards, c)
  /\ w.op \in Showing => OnlyShows(w)
  /\ w.op = "generate" => "notes" \in u
  /\ w.op = "close" => w.seen = "open" /\ (u = {"results"} => FirstClosing(w))
  /\ w.op = "board" => OneComputation(w)
  /\ w.op = "validate" => OnlyValidates(w)
  /\ w.op \in Others => w.old = Empty /\ w.new = Empty

\* The average of s in marks m
Avg(m, k, s) == Mean([a \in Activities |-> m[<<k, a>>][s]])

\* What it relies on as long as no other runs, with closure k and honor board b
Solo(w, u, m, k, b) ==
  /\ w.op \in Entering /\ w.sheet[1] = "result" => k = "open"
  /\ w.op = "close" /\ u = {"results"} =>
       \A x \in DOMAIN w.new : w.new[x].avg = Avg(m, "result", x)
  /\ w.op = "board" => \A s \in Students : b[s] # NoRow => ~b[s].valid

SessionsOK ==
  /\ DOMAIN work = Requests
  /\ \A r \in Requests : Sound(work[r], uses, mark, card)
  /\ ~overlapped =>
       /\ \A q, r \in Requests : work[q].op # "none" /\ work[r].op # "none" => q = r
       /\ \A r \in Requests : Solo(work[r], uses, mark, closure, board)

Tables ==
  /\ uses \in Schools
  /\ mark \in [Sheets -> [Students -> Marks \cup {NoRow}]]
  /\ strayVersion \in BOOLEAN
  /\ closure \in Closures
  /\ member \subseteq Students
  /\ card \in [Students -> Cards \cup {NoRow}]
  /\ board \in [Students -> Entries \cup {NoRow}]
  /\ rule \in [min : Minima, active : BOOLEAN]
  /\ edition \in Nat /\ calls \in 0..MaxCalls[uses]
  /\ overlapped \in BOOLEAN

\* The bulletins of a school that evaluates by activities come from one closing.
CardsOK ==
  uses = {"results"} =>
    /\ closure = "open" => HasCard = {}
    /\ RanksFollowAverages
    /\ ~overlapped => \A s \in HasCard : card[s].avg = Average("result", s)

IInv == Tables /\ SessionsOK /\ CardsOK /\ BoardIsOneList

LEMMA AverageTyped ==
  ASSUME Tables, NEW k \in Kinds, NEW s \in Students
  PROVE  Average(k, s) \in Averages /\ Average(k, s) \in Int /\ Average(k, s) = Avg(mark, k, s)
<1> DEFINE row == [a \in Activities |-> mark[<<k, a>>][s]]
<1>1. \A a \in Activities : row[a] \in Marks \cup {NoRow}
  BY DEF Tables, Sheets
<1>2. Average(k, s) = Mean(row) /\ Avg(mark, k, s) = Mean(row)
  BY DEF Average, Avg
<1> HIDE DEF row
<1>3. Average(k, s) \in Averages
  BY <1>1, <1>2, MeanIs
<1> QED
  BY <1>2, <1>3 DEF Averages, None

\* The average in marks of which the row of s is the same
LEMMA AverageSame ==
  ASSUME NEW k, NEW s, \A a \in Activities : mark'[<<k, a>>][s] = mark[<<k, a>>][s]
  PROVE  Average(k, s)' = Average(k, s) /\ Average(k, s)' = Avg(mark', k, s)
<1>1. [a \in Activities |-> mark'[<<k, a>>][s]] = [a \in Activities |-> mark[<<k, a>>][s]]
  OBVIOUS
<1> QED
  BY <1>1 DEF Average, Avg

----------------------------------------------------------------------------------
(* Rows that are written                                                           *)

LEMMA WrittenIs ==
  ASSUME NEW table, NEW old, NEW new, NEW T, T = Written(table, old, new),
         NEW x \in DOMAIN table
  PROVE  /\ DOMAIN T = DOMAIN table
         /\ x \notin DOMAIN new => T[x] = table[x]
         /\ x \in DOMAIN new /\ old[x] = NoRow => T[x] = new[x]
         /\ x \in DOMAIN new /\ old[x] # NoRow => T[x] = MergeRow(table[x], old[x], new[x])
BY DEF Written

LEMMA MergeMark ==
  ASSUME NEW row \in Marks, NEW old \in Marks, NEW new \in Marks
  PROVE  MergeRow(row, old, new) \in Marks
<1>1. DOMAIN new = {"score", "state"}
  BY DEF Marks
<1>2. MergeRow(row, old, new) =
        [score |-> IF new.score # old.score THEN new.score ELSE row.score,
         state |-> IF new.state # old.state THEN new.state ELSE row.state]
  BY <1>1 DEF MergeRow
<1> QED
  BY <1>2 DEF Marks

LEMMA MergeCard ==
  ASSUME NEW row \in Cards, NEW old \in Cards, NEW new \in Cards
  PROVE  /\ MergeRow(row, old, new) \in Cards
         /\ new.avg = old.avg => MergeRow(row, old, new).avg = row.avg
         /\ new.rank = old.rank => MergeRow(row, old, new).rank = row.rank
<1>1. DOMAIN new = {"avg", "rank", "shown"}
  BY DEF Cards
<1>2. MergeRow(row, old, new) =
        [avg |-> IF new.avg # old.avg THEN new.avg ELSE row.avg,
         rank |-> IF new.rank # old.rank THEN new.rank ELSE row.rank,
         shown |-> IF new.shown # old.shown THEN new.shown ELSE row.shown]
  BY <1>1 DEF MergeRow
<1> QED
  BY <1>2 DEF Cards

LEMMA MergeColumns ==
  ASSUME NEW row, NEW old, NEW new, DOMAIN new = {"edition", "score", "rank", "valid"},
         new.edition = old.edition, new.score = old.score, new.rank = old.rank
  PROVE  \E v \in {row.valid, new.valid} : MergeRow(row, old, new) =
           [edition |-> row.edition, score |-> row.score, rank |-> row.rank, valid |-> v]
<1>1. PICK v : v = IF new.valid # old.valid THEN new.valid ELSE row.valid
  OBVIOUS
<1>2. MergeRow(row, old, new) =
        [edition |-> row.edition, score |-> row.score, rank |-> row.rank, valid |-> v]
  BY <1>1 DEF MergeRow
<1> QED
  BY <1>1, <1>2

LEMMA ValidatedIs ==
  ASSUME NEW old \in Entries
  PROVE  Validates([old EXCEPT !.valid = TRUE], old)
BY DEF Entries, Validates

\* The validation of an entry changes nothing else, and nothing of a validated one.
LEMMA MergeEntry ==
  ASSUME NEW row \in Entries, NEW old, NEW new, Validates(new, old)
  PROVE  /\ MergeRow(row, old, new) \in Entries
         /\ MergeRow(row, old, new).rank = row.rank
         /\ MergeRow(row, old, new).score = row.score
         /\ MergeRow(row, old, new).edition = row.edition
         /\ row.valid => MergeRow(row, old, new) = row
<1>1. PICK v \in {row.valid, new.valid} : MergeRow(row, old, new) =
        [edition |-> row.edition, score |-> row.score, rank |-> row.rank, valid |-> v]
  BY MergeColumns DEF Validates
<1>2. row.valid \in BOOLEAN
  BY DEF Entries
<1>3. row = [edition |-> row.edition, score |-> row.score, rank |-> row.rank,
             valid |-> row.valid]
  BY DEF Entries
<1>4. v \in BOOLEAN /\ (row.valid => v = row.valid)
  BY <1>1, <1>2 DEF Validates
<1>5. MergeRow(row, old, new) \in Entries
  BY <1>1, <1>4 DEF Entries
<1> QED
  BY <1>1, <1>3, <1>4, <1>5

----------------------------------------------------------------------------------
(* Sessions                                                                        *)

\* No row of a session is removed by who adds and changes rows.
LEMMA SoundStays ==
  ASSUME NEW w, NEW u, NEW m, NEW n, NEW c, NEW d, Sound(w, u, m, c),
         \A sheet \in Sheets, s \in Students : m[sheet][s] # NoRow => n[sheet][s] # NoRow,
         \A s \in Students : c[s] # NoRow => d[s] # NoRow
  PROVE  Sound(w, u, n, d)
<1>1. w.op \in Entering => Fits(w, Marks, n[w.sheet])
  BY DEF Sound, Fits
<1>2. w.op \in OnCards => Fits(w, Cards, d)
  BY DEF Sound, Fits
<1> QED
  BY <1>1, <1>2 DEF Sound

LEMMA IdleIsSound == \A u, m, c, k, b : Sound(Idle, u, m, c) /\ Solo(Idle, u, m, k, b)
BY DEF Sound, Solo, Idle, Entering, OnCards, Showing, Others

\* A request ends: no row was removed.
LEMMA EndKeeps ==
  ASSUME IInv, NEW r \in Requests, work[r].op # "none", End(r), uses' = uses,
         overlapped' = overlapped,
         \A sheet \in Sheets, s \in Students : mark[sheet][s] # NoRow
             => mark'[sheet][s] # NoRow,
         \A s \in Students : card[s] # NoRow => card'[s] # NoRow
  PROVE  SessionsOK'
<1>1. DOMAIN work' = Requests /\ work'[r] = Idle
      /\ \A q \in Requests : q # r => work'[q] = work[q]
  BY DEF IInv, SessionsOK, End
<1>2. ASSUME NEW q \in Requests PROVE Sound(work'[q], uses', mark', card')
  <2>1. CASE q = r
    BY <1>1, <2>1, IdleIsSound
  <2>2. CASE q # r
    <3>1. Sound(work[q], uses, mark, card)
      BY DEF IInv, SessionsOK
    <3>2. Sound(work[q], uses, mark', card')
      BY <3>1, SoundStays
    <3> QED
      BY <1>1, <2>2, <3>2
  <2> QED
    BY <2>1, <2>2
<1>3. ASSUME ~overlapped', NEW q \in Requests
      PROVE  work'[q].op = "none" /\ Solo(work'[q], uses', mark', closure', board')
  <2>1. work'[q].op = "none"
    BY <1>1, <1>3 DEF IInv, SessionsOK, Idle
  <2> QED
    BY <2>1 DEF Solo, Entering
<1> QED
  BY <1>1, <1>2, <1>3 DEF SessionsOK

LEMMA BeginKeeps ==
  ASSUME IInv, NEW r \in Requests, NEW session, Begin(r, session),
         Sound(session, uses, mark, card), Solo(session, uses, mark, closure, board)
  PROVE  IInv'
<1>1. /\ DOMAIN work' = Requests /\ work'[r] = session /\ work[r].op = "none"
      /\ \A q \in Requests : q # r => work'[q] = work[q]
      /\ calls < MaxCalls[uses] /\ calls' = calls + 1
      /\ UNCHANGED <<uses, mark, strayVersion, closure, member, card, board, rule, edition>>
      /\ overlapped' = (overlapped \/ \E q \in Requests : work[q].op # "none")
  BY DEF IInv, SessionsOK, Begin
<1>2. Tables'
  <2>1. MaxCalls[uses] \in Nat
    BY GradebookAssumption DEF IInv, Tables
  <2>2. calls' \in 0..MaxCalls[uses']
    BY <1>1, <2>1 DEF IInv, Tables
  <2>3. overlapped' \in BOOLEAN
    BY <1>1
  <2> QED
    BY <1>1, <2>2, <2>3 DEF IInv, Tables
<1>3. SessionsOK'
  <2>1. ASSUME NEW q \in Requests PROVE Sound(work'[q], uses', mark', card')
    BY <1>1 DEF IInv, SessionsOK
  <2>2. ASSUME ~overlapped', NEW p \in Requests, NEW q \in Requests, work'[p].op # "none",
               work'[q].op # "none"
        PROVE  p = q
    BY <1>1, <2>2
  <2>3. ASSUME ~overlapped', NEW q \in Requests
        PROVE  Solo(work'[q], uses', mark', closure', board')
    BY <1>1, <2>3 DEF IInv, SessionsOK
  <2> QED
    BY <1>1, <2>1, <2>2, <2>3 DEF SessionsOK
<1>4. CardsOK'
  <2>1. \A s \in Students : Average("result", s)' = Average("result", s)
    BY <1>1, AverageSame
  <2>2. HasCard' = HasCard /\ HasCard \subseteq Students
    BY <1>1 DEF HasCard
  <2>3. CASE uses = {"results"}
    <3>1. closure' = "open" => HasCard' = {}
      BY <1>1, <2>2, <2>3 DEF IInv, CardsOK
    <3>2. RanksFollowAverages'
      BY <1>1, <2>2, <2>3 DEF IInv, CardsOK, RanksFollowAverages
    <3>3. ~overlapped' => \A s \in HasCard' : card'[s].avg = Average("result", s)'
      BY <1>1, <2>1, <2>2, <2>3 DEF IInv, CardsOK
    <3> QED
      BY <3>1, <3>2, <3>3 DEF CardsOK
  <2>4. CASE uses # {"results"}
    BY <1>1, <2>4 DEF CardsOK
  <2> QED
    BY <2>3, <2>4
<1>5. BoardIsOneList'
  BY <1>1 DEF IInv, BoardIsOneList, OnBoard
<1> QED
  BY <1>2, <1>3, <1>4, <1>5 DEF IInv

----------------------------------------------------------------------------------
(* Requests that read                                                              *)

LEMMA SessionIs ==
  ASSUME NEW op, NEW sheet, NEW old, NEW new
  PROVE  \E w : /\ w = Session(op, sheet, old, new)
                /\ w.op = op /\ w.sheet = sheet /\ w.old = old /\ w.new = new
                /\ w.seen = closure
<1>1. PICK w : w = Session(op, sheet, old, new)
  OBVIOUS
<1>2. w.op = op /\ w.sheet = sheet /\ w.old = old /\ w.new = new /\ w.seen = closure
  BY <1>1 DEF Session
<1> QED
  BY <1>1, <1>2

LEMMA EnterReadKeeps ==
  ASSUME IInv, NEW r \in Requests, NEW sheet \in Sheets, NEW b \in Batches,
         NEW score \in Scores, NEW state \in {0, 1}, NEW online \in BOOLEAN,
         EnterRead(r, sheet, b, score, state, online)
  PROVE  IInv'
<1> DEFINE op == IF online THEN "enter" ELSE "sync"
           old == Loaded(mark[sheet], b)
           new == [s \in b |-> [score |-> score,
                                state |-> IF s \in Entered(sheet, b) THEN mark[sheet][s].state
                                          ELSE state]]
<1>1. b \subseteq Students /\ mark[sheet] \in [Students -> Marks \cup {NoRow}]
      /\ score \in Nat \cup {None} /\ closure \in Closures
  BY GradebookAssumption DEF EnterRead, IInv, Tables
<1>2. DOMAIN old = b /\ DOMAIN new = b /\ \A x \in b : old[x] = mark[sheet][x]
  BY DEF Loaded
<1>3. ASSUME NEW x \in b PROVE old[x] \in Marks \cup {NoRow} /\ new[x] \in Marks
  <2>1. x \in Students /\ mark[sheet][x] \in Marks \cup {NoRow}
    BY <1>1
  <2>2. x \in Entered(sheet, b) => mark[sheet][x].state \in States
    BY <2>1 DEF Entered, Marks
  <2>3. PICK to \in States : new[x] = [score |-> score, state |-> to]
    BY <1>2, <2>2 DEF States
  <2>4. new[x] \in Marks
    BY <1>1, <2>3 DEF Marks
  <2> QED
    BY <1>2, <2>1, <2>4
<1>4. sheet[1] = "result" => closure = "open"
  BY <1>1 DEF EnterRead, MayEnterOnline, MayEnterOffline, Closed, Closures
<1>5. Begin(r, Session(op, sheet, old, new)) /\ op \in {"enter", "sync"}
  BY DEF EnterRead
<1> HIDE DEF op, old, new
<1>6. PICK w : /\ w = Session(op, sheet, old, new)
               /\ w.op = op /\ w.sheet = sheet /\ w.old = old /\ w.new = new
  BY SessionIs
<1>7. Fits(w, Marks, mark[sheet])
  BY <1>1, <1>2, <1>3, <1>6 DEF Fits
<1>8. Sound(w, uses, mark, card)
  BY <1>5, <1>6, <1>7 DEF Sound, Entering, OnCards, Showing, Others
<1>9. Solo(w, uses, mark, closure, board)
  BY <1>4, <1>5, <1>6 DEF Solo
<1> QED
  BY <1>5, <1>6, <1>8, <1>9, BeginKeeps

LEMMA MoveReadKeeps ==
  ASSUME IInv, NEW r \in Requests, NEW sheet \in Sheets, NEW S \in Batches, NEW to \in States,
         MoveRead(r, sheet, S, to)
  PROVE  IInv'
<1> DEFINE b == Entered(sheet, S)
           old == Loaded(mark[sheet], b)
           new == [s \in b |-> [mark[sheet][s] EXCEPT !.state = to]]
<1>1. b \subseteq Students /\ mark[sheet] \in [Students -> Marks \cup {NoRow}]
      /\ closure \in Closures
  BY GradebookAssumption DEF IInv, Tables, Entered
<1>2. DOMAIN old = b /\ DOMAIN new = b /\ \A x \in b : old[x] = mark[sheet][x]
  BY DEF Loaded
<1>3. ASSUME NEW x \in b PROVE old[x] \in Marks /\ new[x] \in Marks
  <2>1. mark[sheet][x] \in Marks
    BY <1>1 DEF Entered
  <2>2. [mark[sheet][x] EXCEPT !.state = to] \in Marks
    BY <2>1 DEF Marks
  <2> QED
    BY <1>2, <2>1, <2>2
<1>4. closure = "open"
  BY <1>1 DEF MoveRead, MayMove, Closed, Closures
<1>5. Begin(r, Session("move", sheet, old, new))
  BY DEF MoveRead
<1> HIDE DEF old, new, b
<1>6. PICK w : /\ w = Session("move", sheet, old, new)
               /\ w.op = "move" /\ w.sheet = sheet /\ w.old = old /\ w.new = new
  BY SessionIs
<1>7. Fits(w, Marks, mark[sheet])
  BY <1>1, <1>2, <1>3, <1>6 DEF Fits
<1>8. Sound(w, uses, mark, card)
  BY <1>6, <1>7 DEF Sound, Entering, OnCards, Showing, Others
<1>9. Solo(w, uses, mark, closure, board)
  BY <1>4, <1>6 DEF Solo
<1> QED
  BY <1>5, <1>6, <1>8, <1>9, BeginKeeps

LEMMA CloseReadKeeps ==
  ASSUME IInv, NEW r \in Requests, NEW withRank \in BOOLEAN, CloseRead(r, withRank)
  PROVE  IInv'
<1> DEFINE S == Ranked("result", member)
           rank(s) == IF withRank /\ s \in S THEN SharedRank("result", S, s) ELSE 0
           old == Loaded(card, member)
           new == [s \in member |-> [avg |-> Average("result", s), shown |-> FALSE,
                                     rank |-> rank(s)]]
<1>1. member \subseteq Students /\ card \in [Students -> Cards \cup {NoRow}]
      /\ closure \in Closures
  BY DEF IInv, Tables
<1>2. closure = "open" /\ \A s \in S : s \in member
  BY <1>1 DEF CloseRead, MayClose, Closed, Closures, Ranked
<1>3. \A s \in member : Average("result", s) \in Averages /\ Average("result", s) \in Int
                        /\ Average("result", s) = Avg(mark, "result", s)
  BY <1>1, AverageTyped DEF IInv, Kinds
<1>4. ASSUME NEW s \in S
      PROVE  SharedRank("result", S, s) \in 1..Cardinality(Students)
  <2>1. S \in SUBSET Students /\ Above("result", S, s) \in SUBSET S
        /\ s \notin Above("result", S, s)
    BY <1>1, <1>2, <1>3 DEF Above
  <2>2. SharedRank("result", S, s) = 1 + Cardinality(Above("result", S, s))
    BY DEF SharedRank, Above
  <2> QED
    BY <2>1, <2>2, RankBound
<1>5. ASSUME NEW s \in S, NEW t \in S
      PROVE  SharedRank("result", S, s) < SharedRank("result", S, t)
               <=> Average("result", s) > Average("result", t)
  <2>1. IsFiniteSet(S) /\ \A u \in S : Average("result", u) \in Int
    BY <1>1, <1>2, <1>3, GradebookAssumption, FS_Subset
  <2> QED
    BY <2>1, SharedRanks
<1> HIDE DEF S
<1>6. ASSUME NEW s \in member
      PROVE  rank(s) \in 0..Cardinality(Students) /\ (rank(s) > 0 => s \in S /\ withRank)
  <2>1. Cardinality(Students) \in Nat
    BY GradebookAssumption, FS_CardinalityType
  <2> QED
    BY <1>4, <2>1
<1>7. \A s \in member :
          new[s] = [avg |-> Average("result", s), shown |-> FALSE, rank |-> rank(s)]
  OBVIOUS
<1>8. \A s \in member : new[s].avg = Average("result", s) /\ new[s].rank = rank(s)
  BY <1>7
<1>9. \A s, t \in {s \in member : new[s].rank > 0} :
        new[s].rank < new[t].rank <=> new[s].avg > new[t].avg
  BY <1>5, <1>6, <1>8
<1>10. \A x \in member : old[x] = card[x] /\ old[x] \in Cards \cup {NoRow}
  BY <1>1 DEF Loaded
<1>11. \A x \in member : new[x] \in Cards
  BY <1>3, <1>6, <1>7 DEF Cards
<1>12. DOMAIN old = member /\ DOMAIN new = member
  BY DEF Loaded
<1>13. Begin(r, Session("close", NoRow, old, new))
  BY DEF CloseRead, S
<1>14. uses = {"results"} => \A x \in member : old[x] = NoRow
  BY <1>1, <1>2, <1>10 DEF IInv, CardsOK, HasCard
<1> HIDE DEF old, new, rank
<1>15. PICK w : /\ w = Session("close", NoRow, old, new)
                /\ w.op = "close" /\ w.sheet = NoRow /\ w.old = old /\ w.new = new
                /\ w.seen = closure
  BY SessionIs
<1>16. Fits(w, Cards, card)
  BY <1>1, <1>10, <1>11, <1>12, <1>15 DEF Fits
<1>17. uses = {"results"} => FirstClosing(w)
  BY <1>9, <1>12, <1>14, <1>15 DEF FirstClosing
<1>18. Sound(w, uses, mark, card)
  BY <1>2, <1>15, <1>16, <1>17 DEF Sound, Entering, OnCards, Showing, Others
<1>19. Solo(w, uses, mark, closure, board)
  BY <1>3, <1>8, <1>12, <1>15 DEF Solo, Entering
<1> QED
  BY <1>13, <1>15, <1>18, <1>19, BeginKeeps

\* Bulletins are shown or hidden by who finds them: nothing else of them changes.
LEMMA ShowingKeeps ==
  ASSUME IInv, NEW r \in Requests, NEW op \in Showing, NEW S \in SUBSET HasCard,
         NEW shown \in BOOLEAN,
         Begin(r, Session(op, NoRow, Loaded(card, S),
             [s \in S |-> [card[s] EXCEPT !.shown = shown]]))
  PROVE  IInv'
<1> DEFINE old == Loaded(card, S)
           new == [s \in S |-> [card[s] EXCEPT !.shown = shown]]
<1>1. S \subseteq Students /\ DOMAIN old = S /\ DOMAIN new = S
  BY DEF HasCard, Loaded
<1>2. ASSUME NEW x \in S
      PROVE  /\ old[x] = card[x] /\ old[x] \in Cards /\ new[x] \in Cards /\ old[x] # NoRow
             /\ new[x].avg = old[x].avg /\ new[x].rank = old[x].rank
  <2>1. card[x] \in Cards /\ card[x] # NoRow /\ old[x] = card[x]
    BY DEF IInv, Tables, HasCard, Loaded
  <2>2. PICK c \in Cards : c = card[x]
    BY <2>1
  <2>3. PICK d : d = [c EXCEPT !.shown = shown]
    OBVIOUS
  <2>4. d \in Cards /\ d.avg = c.avg /\ d.rank = c.rank
    BY <2>3 DEF Cards
  <2>5. new[x] = d
    BY <2>2, <2>3
  <2> QED
    BY <2>1, <2>2, <2>4, <2>5
<1> HIDE DEF old, new
<1>3. PICK w : /\ w = Session(op, NoRow, old, new)
               /\ w.op = op /\ w.sheet = NoRow /\ w.old = old /\ w.new = new
  BY SessionIs
<1>4. Fits(w, Cards, card) /\ OnlyShows(w)
  BY <1>1, <1>2, <1>3 DEF Fits, OnlyShows
<1>5. Sound(w, uses, mark, card)
  BY <1>3, <1>4 DEF Sound, Entering, OnCards, Showing, Others
<1>6. Solo(w, uses, mark, closure, board)
  BY <1>3 DEF Solo, Entering, Showing
<1>7. Begin(r, w)
  BY <1>3 DEF old, new
<1> QED
  BY <1>5, <1>6, <1>7, BeginKeeps

LEMMA GenerateReadKeeps ==
  ASSUME IInv, NEW r \in Requests, GenerateRead(r)
  PROVE  IInv'
<1> DEFINE S == Ranked("note", member)
           old == Loaded(card, S)
           new == [s \in S |-> [avg |-> Average("note", s), rank |-> PlainRank("note", S, s),
                                shown |-> card[s] # NoRow /\ card[s].shown]]
<1>1. S \subseteq Students /\ member \subseteq Students /\ DOMAIN old = S /\ DOMAIN new = S
  BY DEF IInv, Tables, Ranked, Loaded
<1>2. ASSUME NEW x \in S PROVE old[x] = card[x] /\ old[x] \in Cards \cup {NoRow}
  BY <1>1 DEF IInv, Tables, Loaded
<1>3. \A x \in S : Average("note", x) \in Averages /\ Average("note", x) \in Int
  BY <1>1, AverageTyped DEF IInv, Kinds
<1>4. ASSUME NEW x \in S PROVE PlainRank("note", S, x) \in 0..Cardinality(Students)
  <2> DEFINE T == {t \in S : \/ Average("note", t) > Average("note", x)
                             \/ Average("note", t) = Average("note", x) /\ t < x}
  <2>1. S \in SUBSET Students /\ T \in SUBSET S
    BY <1>1
  <2>2. x \in Int
    <3>1. Students \subseteq Nat
      BY GradebookAssumption
    <3>2. x \in Students
      BY <1>1
    <3> QED
      BY <3>1, <3>2
  <2>3. ~(x < x) /\ ~(Average("note", x) > Average("note", x))
    BY <1>3, <2>2
  <2>4. x \notin T
    BY <2>3
  <2>5. PlainRank("note", S, x) = 1 + Cardinality(T)
    BY DEF PlainRank
  <2> HIDE DEF T
  <2>6. 1 + Cardinality(T) \in 1..Cardinality(Students)
    BY <2>1, <2>4, RankBound
  <2>7. Cardinality(Students) \in Nat
    BY GradebookAssumption, FS_CardinalityType
  <2> QED
    BY <2>5, <2>6, <2>7
<1>5. ASSUME NEW x \in S PROVE new[x] \in Cards
  <2>1. PICK shown \in BOOLEAN : shown = (card[x] # NoRow /\ card[x].shown)
    OBVIOUS
  <2>2. new[x] = [avg |-> Average("note", x), rank |-> PlainRank("note", S, x),
            shown |-> shown]
    BY <2>1
  <2> QED
    BY <1>3, <1>4, <2>2 DEF Cards
<1>6. Begin(r, Session("generate", NoRow, old, new)) /\ "notes" \in uses
  BY DEF GenerateRead
<1> HIDE DEF old, new, S
<1>7. PICK w : /\ w = Session("generate", NoRow, old, new)
               /\ w.op = "generate" /\ w.sheet = NoRow /\ w.old = old /\ w.new = new
  BY SessionIs
<1>8. Fits(w, Cards, card)
  BY <1>1, <1>2, <1>5, <1>7 DEF Fits
<1>9. Sound(w, uses, mark, card)
  BY <1>6, <1>7, <1>8 DEF Sound, Entering, OnCards, Showing, Others
<1>10. Solo(w, uses, mark, closure, board)
  BY <1>7 DEF Solo, Entering
<1> QED
  BY <1>6, <1>7, <1>9, <1>10, BeginKeeps

LEMMA BoardReadKeeps ==
  ASSUME IInv, NEW r \in Requests, BoardRead(r)
  PROVE  IInv'
<1> DEFINE new == [s \in HonorList |-> [edition |-> 0, score |-> Average("note", s),
                     rank |-> SharedRank("note", HonorList, s), valid |-> FALSE]]
<1>1. HonorList \subseteq Students /\ DOMAIN new = HonorList
  BY DEF HonorList
<1>2. \A s \in HonorList : Average("note", s) \in Nat
  <2>1. \A s \in HonorList : Average("note", s) \in Averages /\ Average("note", s) # None
    BY <1>1, AverageTyped DEF IInv, Kinds, HonorList, Honored
  <2> QED
    BY <2>1 DEF Averages
<1>3. ASSUME NEW s \in HonorList
      PROVE  SharedRank("note", HonorList, s) \in 1..Cardinality(Students)
  <2>1. HonorList \in SUBSET Students /\ Above("note", HonorList, s) \in SUBSET HonorList
        /\ s \notin Above("note", HonorList, s)
    BY <1>1, <1>2 DEF Above
  <2>2. SharedRank("note", HonorList, s) = 1 + Cardinality(Above("note", HonorList, s))
    BY DEF SharedRank, Above
  <2> QED
    BY <2>1, <2>2, RankBound
<1>4. ASSUME NEW s \in HonorList, NEW t \in HonorList
      PROVE  SharedRank("note", HonorList, s) < SharedRank("note", HonorList, t)
               <=> Average("note", s) > Average("note", t)
  <2>1. IsFiniteSet(HonorList)
    BY <1>1, GradebookAssumption, FS_Subset
  <2>2. \A u \in HonorList : Average("note", u) \in Int
    BY <1>2
  <2> QED
    BY <2>1, <2>2, SharedRanks
<1>5. ASSUME NEW s \in HonorList
      PROVE  /\ new[s] \in Entries /\ new[s].score = Average("note", s)
             /\ new[s].rank = SharedRank("note", HonorList, s)
  <2>1. new[s] = [edition |-> 0, score |-> Average("note", s),
                  rank |-> SharedRank("note", HonorList, s), valid |-> FALSE]
    OBVIOUS
  <2> QED
    BY <1>2, <1>3, <2>1 DEF Entries
<1>6. Begin(r, Session("board", NoRow, Empty, new)) /\ ValidEntries = {}
  BY DEF BoardRead, MayGenerate
<1> HIDE DEF new
<1>7. PICK w : /\ w = Session("board", NoRow, Empty, new)
               /\ w.op = "board" /\ w.sheet = NoRow /\ w.old = Empty /\ w.new = new
  BY SessionIs
<1>8. OneComputation(w)
  BY <1>1, <1>4, <1>5, <1>7 DEF OneComputation
<1>9. Sound(w, uses, mark, card)
  BY <1>7, <1>8 DEF Sound, Entering, OnCards, Showing, Others
<1>10. Solo(w, uses, mark, closure, board)
  BY <1>6, <1>7 DEF Solo, Entering, ValidEntries, OnBoard
<1> QED
  BY <1>6, <1>7, <1>9, <1>10, BeginKeeps

LEMMA ValidateReadKeeps ==
  ASSUME IInv, NEW r \in Requests, NEW S \in SUBSET Students, ValidateRead(r, S)
  PROVE  IInv'
<1> DEFINE old == Loaded(board, S)
           new == [s \in S |-> [board[s] EXCEPT !.valid = TRUE]]
<1>1. DOMAIN old = S /\ DOMAIN new = S
  BY DEF Loaded
<1>2. \A x \in S : old[x] \in Entries /\ Validates(new[x], old[x])
  <2>1. \A x \in S : old[x] \in Entries /\ new[x] = [old[x] EXCEPT !.valid = TRUE]
    BY DEF ValidateRead, IInv, Tables, OnBoard, Loaded
  <2> HIDE DEF old, new
  <2> QED
    BY <2>1, ValidatedIs
<1>3. Begin(r, Session("validate", NoRow, old, new))
  BY DEF ValidateRead
<1> HIDE DEF old, new
<1>4. PICK w : /\ w = Session("validate", NoRow, old, new)
               /\ w.op = "validate" /\ w.sheet = NoRow /\ w.old = old /\ w.new = new
  BY SessionIs
<1>5. OnlyValidates(w)
  BY <1>1, <1>2, <1>4 DEF OnlyValidates
<1>6. Sound(w, uses, mark, card)
  BY <1>4, <1>5 DEF Sound, Entering, OnCards, Showing, Others
<1>7. Solo(w, uses, mark, closure, board)
  BY <1>4 DEF Solo, Entering
<1> QED
  BY <1>3, <1>4, <1>6, <1>7, BeginKeeps

LEMMA RuleReadKeeps ==
  ASSUME IInv, NEW r \in Requests, NEW op \in {"update", "deactivate"}, RuleRead(r, op)
  PROVE  IInv'
<1>1. Begin(r, Session(op, NoRow, Empty, Empty))
  BY DEF RuleRead
<1>2. PICK w : /\ w = Session(op, NoRow, Empty, Empty)
               /\ w.op = op /\ w.sheet = NoRow /\ w.old = Empty /\ w.new = Empty
  BY SessionIs
<1>3. Sound(w, uses, mark, card)
  BY <1>2 DEF Sound, Entering, OnCards, Showing, Others
<1>4. Solo(w, uses, mark, closure, board)
  BY <1>2 DEF Solo, Entering
<1> QED
  BY <1>1, <1>2, <1>3, <1>4, BeginKeeps

LEMMA ReadKeeps ==
  ASSUME IInv, NEW r \in Requests, Read(r)
  PROVE  IInv'
<1>1. ASSUME NEW shown \in BOOLEAN, PublishRead(r, shown) PROVE IInv'
  <2>1. (IF shown THEN "publish" ELSE "hide") \in Showing
    BY DEF Showing
  <2> QED
    BY <1>1, <2>1, ShowingKeeps DEF PublishRead
<1>2. ASSUME NEW s \in Students, ShowRead(r, s) PROVE IInv'
  <2>1. {s} \in SUBSET HasCard /\ "show" \in Showing
        /\ [t \in {s} |-> [card[s] EXCEPT !.shown = TRUE]]
             = [t \in {s} |-> [card[t] EXCEPT !.shown = TRUE]]
    BY <1>2 DEF ShowRead, Showing
  <2>2. Begin(r, Session("show", NoRow, Loaded(card, {s}),
                         [t \in {s} |-> [card[t] EXCEPT !.shown = TRUE]]))
    BY <1>2, <2>1 DEF ShowRead
  <2> QED
    BY <2>1, <2>2, ShowingKeeps
<1> QED
  BY <1>1, <1>2, EnterReadKeeps, MoveReadKeeps, CloseReadKeeps, GenerateReadKeeps,
     BoardReadKeeps, ValidateReadKeeps, RuleReadKeeps DEF Read

----------------------------------------------------------------------------------
(* Requests that commit                                                            *)

LEMMA SessionOf ==
  ASSUME IInv, NEW r \in Requests
  PROVE  /\ Sound(work[r], uses, mark, card)
         /\ ~overlapped => Solo(work[r], uses, mark, closure, board)
BY DEF IInv, SessionsOK

LEMMA MarksKeep ==
  ASSUME IInv, NEW r \in Requests, work[r].op \in Entering,
         mark' = [mark EXCEPT ![work[r].sheet] = Save(mark[work[r].sheet], r)], End(r),
         strayVersion' \in BOOLEAN,
         UNCHANGED <<uses, closure, member, card, board, rule, edition, calls, overlapped>>
  PROVE  IInv'
<1>1. PICK w, sheet : w = work[r] /\ sheet = w.sheet
  OBVIOUS
<1>2. sheet \in Sheets /\ Fits(w, Marks, mark[sheet]) /\ w.op \in Entering
      /\ (~overlapped => Solo(w, uses, mark, closure, board))
  BY <1>1, SessionOf DEF Sound
<1>3. mark \in [Sheets -> [Students -> Marks \cup {NoRow}]]
  BY DEF IInv, Tables
<1>4. PICK old, new : old = w.old /\ new = w.new
  OBVIOUS
<1>5. PICK T : T = Written(mark[sheet], old, new) /\ mark' = [mark EXCEPT ![sheet] = T]
  BY <1>1, <1>4 DEF Save
<1>6. ASSUME NEW s \in Students
      PROVE  T[s] \in Marks \cup {NoRow} /\ (mark[sheet][s] # NoRow => T[s] \in Marks)
  <2>1. mark[sheet][s] \in Marks \cup {NoRow} /\ s \in DOMAIN mark[sheet]
    BY <1>2, <1>3
  <2>2. CASE s \notin DOMAIN new
    BY <1>5, <2>1, <2>2, WrittenIs
  <2>3. CASE s \in DOMAIN new /\ old[s] = NoRow
    <3>1. new[s] \in Marks
      BY <1>2, <1>4, <2>3 DEF Fits
    <3> QED
      BY <1>5, <2>1, <2>3, <3>1, WrittenIs
  <2>4. CASE s \in DOMAIN new /\ old[s] # NoRow
    <3>1. new[s] \in Marks /\ old[s] \in Marks /\ mark[sheet][s] \in Marks
      BY <1>2, <1>4, <2>1, <2>4 DEF Fits
    <3>2. MergeRow(mark[sheet][s], old[s], new[s]) \in Marks
      BY <3>1, MergeMark
    <3> QED
      BY <1>5, <2>1, <2>4, <3>2, WrittenIs
  <2> QED
    BY <2>2, <2>3, <2>4
<1>7. T \in [Students -> Marks \cup {NoRow}]
  <2>1. T = [s \in Students |-> T[s]]
    BY <1>2, <1>3, <1>5 DEF Written
  <2> QED
    BY <1>6, <2>1
<1>8. mark' \in [Sheets -> [Students -> Marks \cup {NoRow}]]
  BY <1>3, <1>5, <1>7
<1>9. \A k \in Sheets, s \in Students : mark[k][s] # NoRow => mark'[k][s] # NoRow
  <2>1. NoRow \notin Marks
    BY GradebookAssumption
  <2> QED
    BY <1>2, <1>3, <1>5, <1>6, <2>1
<1>10. Tables'
  BY <1>8 DEF IInv, Tables
<1>11. SessionsOK'
  <2>1. work[r].op # "none"
    BY DEF Entering
  <2> QED
    BY <1>9, <2>1, EndKeeps
<1>12. CardsOK'
  <2>1. HasCard' = HasCard /\ HasCard \subseteq Students
    BY DEF HasCard
  <2>2. SUFFICES ASSUME uses = {"results"} PROVE CardsOK'
    BY DEF CardsOK
  <2>3. closure' = "open" => HasCard' = {}
    BY <2>1, <2>2 DEF IInv, CardsOK
  <2>4. RanksFollowAverages'
    BY <2>1, <2>2 DEF IInv, CardsOK, RanksFollowAverages
  <2>5. ASSUME ~overlapped', NEW s \in HasCard' PROVE card'[s].avg = Average("result", s)'
    <3>1. sheet[1] # "result"
      <4>1. closure # "open" /\ ~overlapped
        BY <2>1, <2>2, <2>5 DEF IInv, CardsOK
      <4>2. w.sheet[1] = "result" => closure = "open"
        BY <1>2, <4>1 DEF Solo
      <4> QED
        BY <1>1, <4>1, <4>2
    <3>2. \A a \in Activities : <<"result", a>> # sheet /\ <<"result", a>> \in Sheets
      BY <3>1 DEF Sheets, Kinds
    <3>3. \A a \in Activities : mark'[<<"result", a>>][s] = mark[<<"result", a>>][s]
      BY <1>3, <1>5, <3>2
    <3>4. Average("result", s)' = Average("result", s)
      BY <3>3, AverageSame
    <3> QED
      BY <2>1, <2>2, <2>5, <3>4 DEF IInv, CardsOK
  <2> QED
    BY <2>3, <2>4, <2>5 DEF CardsOK
<1>13. BoardIsOneList'
  BY DEF IInv, BoardIsOneList, OnBoard
<1> QED
  BY <1>10, <1>11, <1>12, <1>13 DEF IInv

\* What the commit of a session on bulletins leaves
LEMMA CardsWritten ==
  ASSUME IInv, NEW r \in Requests, NEW w, w = work[r], w.op \in OnCards,
         card' = Save(card, r), NEW s \in Students
  PROVE  /\ card' = [t \in Students |-> card'[t]]
         /\ card'[s] \in Cards \cup {NoRow}
         /\ card[s] # NoRow => card'[s] \in Cards
         /\ s \notin DOMAIN w.new => card'[s] = card[s]
         /\ s \in DOMAIN w.new /\ w.old[s] = NoRow => card'[s] = w.new[s]
         /\ w.op \in Showing =>
              /\ card[s] = NoRow => card'[s] = NoRow
              /\ card[s] # NoRow => card'[s].avg = card[s].avg /\ card'[s].rank = card[s].rank
<1>1. Fits(w, Cards, card) /\ (w.op \in Showing => OnlyShows(w))
  BY SessionOf DEF Sound
<1>2. card \in [Students -> Cards \cup {NoRow}]
  BY DEF IInv, Tables
<1>3. PICK old, new : old = w.old /\ new = w.new
  OBVIOUS
<1>4. PICK T : T = Written(card, old, new) /\ card' = T
  BY <1>3 DEF Save
<1>5. T = [t \in Students |-> T[t]]
  BY <1>2, <1>4 DEF Written
<1>6. card[s] \in Cards \cup {NoRow} /\ s \in DOMAIN card
  BY <1>2
<1>7. CASE s \notin DOMAIN new
  <2>1. T[s] = card[s]
    BY <1>4, <1>6, <1>7, WrittenIs
  <2> QED
    BY <1>3, <1>4, <1>5, <1>6, <1>7, <2>1
<1>8. CASE s \in DOMAIN new /\ old[s] = NoRow
  <2>1. new[s] \in Cards /\ w.op \notin Showing
    BY <1>1, <1>3, <1>8 DEF Fits, OnlyShows
  <2>2. T[s] = new[s]
    BY <1>4, <1>6, <1>8, WrittenIs
  <2> QED
    BY <1>3, <1>4, <1>5, <1>8, <2>1, <2>2
<1>9. CASE s \in DOMAIN new /\ old[s] # NoRow
  <2>1. new[s] \in Cards /\ old[s] \in Cards /\ card[s] \in Cards /\ card[s] # NoRow
    BY <1>1, <1>3, <1>6, <1>9 DEF Fits
  <2>2. T[s] = MergeRow(card[s], old[s], new[s])
    BY <1>4, <1>6, <1>9, WrittenIs
  <2>3. T[s] \in Cards
    BY <2>1, <2>2, MergeCard
  <2>4. ASSUME w.op \in Showing PROVE T[s].avg = card[s].avg /\ T[s].rank = card[s].rank
    <3>1. new[s].avg = old[s].avg /\ new[s].rank = old[s].rank
      BY <1>1, <1>3, <1>9, <2>4 DEF OnlyShows
    <3> QED
      BY <2>1, <2>2, <3>1, MergeCard
  <2> QED
    BY <1>3, <1>4, <1>5, <1>9, <2>1, <2>3, <2>4
<1> QED
  BY <1>7, <1>8, <1>9

\* A commit of bulletins, up to what it does to those of a closed period
LEMMA CardsKeep ==
  ASSUME IInv, NEW r \in Requests, work[r].op \in OnCards, card' = Save(card, r), End(r),
         closure' \in Closures,
         UNCHANGED <<uses, mark, strayVersion, member, board, rule, edition, calls,
             overlapped>>,
         CardsOK'
  PROVE  IInv'
<1>1. \A s \in Students : /\ card' = [t \in Students |-> card'[t]]
                          /\ card'[s] \in Cards \cup {NoRow}
                          /\ card[s] # NoRow => card'[s] \in Cards
  BY CardsWritten
<1>2. card' \in [Students -> Cards \cup {NoRow}]
  <2>1. CASE Students = {}
    <3>1. card \in [Students -> Cards \cup {NoRow}]
      BY DEF IInv, Tables
    <3>2. card' = [t \in Students |-> card'[t]]
      BY <3>1 DEF Save, Written
    <3> QED
      BY <2>1, <3>2
  <2>2. CASE Students # {}
    BY <1>1, <2>2
  <2> QED
    BY <2>1, <2>2
<1>3. Tables'
  BY <1>2 DEF IInv, Tables
<1>4. SessionsOK'
  <2>1. work[r].op # "none" /\ NoRow \notin Cards
    BY GradebookAssumption DEF OnCards, Showing
  <2>2. \A s \in Students : card[s] # NoRow => card'[s] # NoRow
    BY <1>1, <2>1
  <2> QED
    BY <2>1, <2>2, EndKeeps
<1>5. BoardIsOneList'
  BY DEF IInv, BoardIsOneList, OnBoard
<1> QED
  BY <1>3, <1>4, <1>5 DEF IInv

LEMMA AveragesSame ==
  ASSUME mark' = mark, NEW k, NEW s
  PROVE  Average(k, s)' = Average(k, s)
BY AverageSame

LEMMA CloseCommitKeeps ==
  ASSUME IInv, NEW r \in Requests, CloseCommit(r)
  PROVE  IInv'
<1>1. PICK w : w = work[r] /\ w.op = "close"
  BY DEF CloseCommit, Ready
<1>2. Sound(w, uses, mark, card) /\ (~overlapped => Solo(w, uses, mark, closure, board))
  BY <1>1, SessionOf
<1>3. w.seen = "open" /\ closure = "open" /\ closure' = "closed" /\ w.op \in OnCards
  BY <1>1, <1>2 DEF Sound, CloseCommit, SecondClosure, OnCards
<1>4. CardsOK'
  <2>1. SUFFICES ASSUME uses = {"results"} PROVE CardsOK'
    BY DEF CardsOK, CloseCommit
  <2>2. FirstClosing(w)
    BY <1>1, <1>2, <2>1 DEF Sound
  <2>3. \A s \in Students : card[s] = NoRow
    BY <1>3, <2>1 DEF IInv, CardsOK, HasCard
  <2>4. \A s \in Students : card'[s] = IF s \in DOMAIN w.new THEN w.new[s] ELSE NoRow
    <3>1. ASSUME NEW s \in Students
          PROVE  /\ s \notin DOMAIN w.new => card'[s] = card[s]
                 /\ s \in DOMAIN w.new /\ w.old[s] = NoRow => card'[s] = w.new[s]
      <4>1. card' = Save(card, r) /\ w = work[r] /\ w.op \in OnCards
        BY <1>1, <1>3 DEF CloseCommit
      <4> QED
        BY <4>1, CardsWritten
    <3> QED
      BY <2>2, <2>3, <3>1 DEF FirstClosing
  <2>5. \A s \in HasCard' : s \in Students /\ s \in DOMAIN w.new /\ card'[s] = w.new[s]
    BY <2>4 DEF HasCard
  <2>6. RanksFollowAverages'
    BY <2>2, <2>5 DEF RanksFollowAverages, FirstClosing
  <2>7. ASSUME ~overlapped', NEW s \in HasCard' PROVE card'[s].avg = Average("result", s)'
    <3>1. card'[s].avg = Avg(mark, "result", s)
      BY <1>1, <1>2, <2>1, <2>5, <2>7 DEF Solo, CloseCommit
    <3>2. Average("result", s)' = Average("result", s)
              /\ Average("result", s) = Avg(mark, "result", s)
      BY AveragesSame DEF CloseCommit, Average, Avg
    <3> QED
      BY <3>1, <3>2
  <2> QED
    BY <1>3, <2>6, <2>7 DEF CardsOK
<1> QED
  BY <1>1, <1>3, <1>4, CardsKeep DEF CloseCommit, Closures

\* Who shows or hides bulletins leaves averages and ranks, and no period open.
LEMMA ShowingCommitKeeps ==
  ASSUME IInv, NEW r \in Requests, work[r].op \in Showing, card' = Save(card, r), End(r),
         closure' \in Closures, closure' = "open" => closure = "open",
         UNCHANGED <<uses, mark, strayVersion, member, board, rule, edition, calls,
             overlapped>>
  PROVE  IInv'
<1>1. PICK w : w = work[r] /\ w.op \in Showing /\ w.op \in OnCards
  BY DEF OnCards
<1>2. \A s \in Students :
        /\ card[s] = NoRow => card'[s] = NoRow
        /\ card[s] # NoRow => card'[s] # NoRow /\ card'[s].avg = card[s].avg
                              /\ card'[s].rank = card[s].rank
  <2>1. NoRow \notin Cards
    BY GradebookAssumption
  <2> QED
    BY <1>1, <2>1, CardsWritten
<1>3. HasCard' = HasCard /\ HasCard \subseteq Students
      /\ \A s \in HasCard : card'[s].avg = card[s].avg /\ card'[s].rank = card[s].rank
  BY <1>2 DEF HasCard
<1>4. CardsOK'
  <2>1. SUFFICES ASSUME uses = {"results"} PROVE CardsOK'
    BY DEF CardsOK
  <2>2. closure' = "open" => HasCard' = {}
    BY <1>3, <2>1 DEF IInv, CardsOK
  <2>3. RanksFollowAverages'
    <3>1. RanksFollowAverages
      BY <2>1 DEF IInv, CardsOK
    <3> QED
      BY <1>3, <2>1, <3>1 DEF RanksFollowAverages
  <2>4. ASSUME ~overlapped', NEW s \in HasCard' PROVE card'[s].avg = Average("result", s)'
    BY <1>3, <2>1, <2>4, AveragesSame DEF IInv, CardsOK
  <2> QED
    BY <2>2, <2>3, <2>4 DEF CardsOK
<1> QED
  BY <1>1, <1>4, CardsKeep

LEMMA PublishCommitKeeps ==
  ASSUME IInv, NEW r \in Requests, PublishCommit(r)
  PROVE  IInv'
<1>1. work[r].op \in Showing /\ closure' \in {"published", "closed", closure}
  BY DEF PublishCommit, Showing
<1>2. closure' \in Closures /\ (closure' = "open" => closure = "open")
  BY <1>1 DEF IInv, Tables, Closures
<1> QED
  BY <1>1, <1>2, ShowingCommitKeeps DEF PublishCommit

LEMMA GenerateCommitKeeps ==
  ASSUME IInv, NEW r \in Requests, GenerateCommit(r)
  PROVE  IInv'
<1>1. closure' = closure /\ closure \in Closures
  BY DEF GenerateCommit, IInv, Tables
<1>2. CASE work[r].op = "show"
  BY <1>1, <1>2, ShowingCommitKeeps DEF GenerateCommit, Showing
<1>3. CASE work[r].op = "generate"
  <2>1. "notes" \in uses
    BY <1>3, SessionOf DEF Sound
  <2>2. uses' # {"results"}
    BY <2>1 DEF GenerateCommit
  <2>3. CardsOK'
    BY <2>2 DEF CardsOK
  <2> QED
    BY <1>1, <1>3, <2>3, CardsKeep DEF GenerateCommit, OnCards
<1> QED
  BY <1>2, <1>3 DEF GenerateCommit

\* Commits that leave marks and bulletins
LEMMA RestKeeps ==
  ASSUME IInv, NEW r \in Requests, work[r].op # "none", End(r), Tables', BoardIsOneList',
         UNCHANGED <<uses, mark, closure, card, overlapped>>
  PROVE  IInv'
<1>1. SessionsOK'
  BY EndKeeps
<1>2. CardsOK'
  <2>1. HasCard' = HasCard
    BY DEF HasCard
  <2>2. SUFFICES ASSUME uses = {"results"} PROVE CardsOK'
    BY DEF CardsOK
  <2>3. RanksFollowAverages'
    <3>1. RanksFollowAverages
      BY <2>2 DEF IInv, CardsOK
    <3> QED
      BY <2>1, <3>1 DEF RanksFollowAverages
  <2>4. ASSUME ~overlapped', NEW s \in HasCard' PROVE card'[s].avg = Average("result", s)'
    BY <2>1, <2>2, <2>4, AveragesSame DEF IInv, CardsOK
  <2> QED
    BY <2>1, <2>2, <2>3, <2>4 DEF IInv, CardsOK
<1> QED
  BY <1>1, <1>2 DEF IInv

LEMMA BoardCommitKeeps ==
  ASSUME IInv, NEW r \in Requests, BoardCommit(r)
  PROVE  IInv'
<1>1. PICK w, new : w = work[r] /\ w.op = "board" /\ new = w.new
  BY DEF BoardCommit, Ready
<1>2. OneComputation(w) /\ (~overlapped => Solo(w, uses, mark, closure, board))
  BY <1>1, SessionOf DEF Sound
<1>3. board \in [Students -> Entries \cup {NoRow}] /\ edition \in Nat
  BY DEF IInv, Tables
<1>4. board' = [s \in Students |-> CASE s
          \in DOMAIN new -> [new[s] EXCEPT !.edition = edition + 1]
                                     [] s \in Kept -> board[s]
                                     [] OTHER -> NoRow]
      /\ DOMAIN new \cap Kept = {}
  BY <1>1 DEF BoardCommit
<1>5. ASSUME NEW s \in DOMAIN new
      PROVE  /\ [new[s] EXCEPT !.edition = edition + 1] \in Entries
             /\ [new[s] EXCEPT !.edition = edition + 1].rank = new[s].rank
             /\ [new[s] EXCEPT !.edition = edition + 1].score = new[s].score
  <2>1. PICK e \in Entries : e = new[s]
    BY <1>1, <1>2 DEF OneComputation
  <2>2. PICK n \in Nat : n = edition + 1
    BY <1>3
  <2>3. [e EXCEPT !.edition = n] \in Entries /\ [e EXCEPT !.edition = n].rank = e.rank
        /\ [e EXCEPT !.edition = n].score = e.score
    BY DEF Entries
  <2> QED
    BY <2>1, <2>2, <2>3
<1>6. board' \in [Students -> Entries \cup {NoRow}]
  BY <1>3, <1>4, <1>5
<1>7. Tables'
  BY <1>3, <1>6 DEF BoardCommit, IInv, Tables
<1>8. BoardIsOneList'
  <2>1. SUFFICES ASSUME ~overlapped, NEW s \in OnBoard', NEW t \in OnBoard'
                 PROVE  board'[s].rank < board'[t].rank <=> board'[s].score > board'[t].score
    BY DEF BoardIsOneList, BoardCommit
  <2>2. Kept = {}
    BY <1>1, <1>2, <2>1 DEF Solo, Kept, ValidEntries, OnBoard
  <2>3. \A x \in OnBoard' : x \in DOMAIN new
            /\ board'[x] = [new[x] EXCEPT !.edition = edition + 1]
    BY <1>4, <2>2 DEF OnBoard
  <2>4. \A x \in OnBoard' : board'[x].rank = new[x].rank /\ board'[x].score = new[x].score
    BY <1>5, <2>3
  <2> QED
    BY <1>1, <1>2, <2>1, <2>3, <2>4 DEF OneComputation
<1> QED
  BY <1>1, <1>7, <1>8, RestKeeps DEF BoardCommit

\* A validation changes valid, and not that of an entry which is valid.
LEMMA ValidateWrites ==
  ASSUME IInv, NEW r \in Requests, ValidateCommit(r), NEW s \in Students
  PROVE  /\ board' = [t \in Students |-> board'[t]]
         /\ board[s] = NoRow => board'[s] = NoRow
         /\ board[s] # NoRow =>
              /\ board'[s] \in Entries
              /\ board'[s].rank = board[s].rank /\ board'[s].score = board[s].score
              /\ board[s].valid => board'[s] = board[s]
<1>1. PICK w, old, new : w = work[r] /\ old = w.old /\ new = w.new
  OBVIOUS
<1>2. OnlyValidates(w)
  BY <1>1, SessionOf DEF Sound, ValidateCommit, Ready
<1>3. board \in [Students -> Entries \cup {NoRow}] /\ NoRow \notin Entries
  BY GradebookAssumption DEF IInv, Tables
<1>4. PICK T : T = Written(board, old, new) /\ board' = T
  BY <1>1 DEF ValidateCommit, Save
<1>5. T = [t \in Students |-> T[t]]
  BY <1>3, <1>4 DEF Written
<1>6. board[s] \in Entries \cup {NoRow} /\ s \in DOMAIN board
  BY <1>3
<1>7. CASE s \notin DOMAIN new
  <2>1. T[s] = board[s]
    BY <1>4, <1>6, <1>7, WrittenIs
  <2> QED
    BY <1>4, <1>5, <1>6, <2>1
<1>8. CASE s \in DOMAIN new
  <2>1. PICK o, n : o = old[s] /\ n = new[s]
    OBVIOUS
  <2>2. o \in Entries /\ Validates(n, o) /\ s \in DOMAIN old
    BY <1>1, <1>2, <1>8, <2>1 DEF OnlyValidates
  <2>3. board[s] \in Entries
    BY <1>1, <1>6, <2>2 DEF ValidateCommit
  <2>4. T[s] = MergeRow(board[s], o, n)
    <3>1. old[s] # NoRow
      BY <1>3, <2>1, <2>2
    <3> QED
      BY <1>4, <1>6, <1>8, <2>1, <3>1, WrittenIs
  <2>5. /\ MergeRow(board[s], o, n) \in Entries
        /\ MergeRow(board[s], o, n).rank = board[s].rank
        /\ MergeRow(board[s], o, n).score = board[s].score
        /\ board[s].valid => MergeRow(board[s], o, n) = board[s]
    BY <2>2, <2>3, MergeEntry
  <2> QED
    BY <1>3, <1>4, <1>5, <2>3, <2>4, <2>5
<1> QED
  BY <1>7, <1>8

LEMMA ValidateCommitKeeps ==
  ASSUME IInv, NEW r \in Requests, ValidateCommit(r)
  PROVE  IInv'
<1>1. board \in [Students -> Entries \cup {NoRow}]
  BY DEF IInv, Tables
<1>2. board' = [t \in Students |-> board'[t]]
  BY <1>1 DEF ValidateCommit, Save, Written
<1>3. board' \in [Students -> Entries \cup {NoRow}]
  <2>1. \A s \in Students : board'[s] \in Entries \cup {NoRow}
    BY <1>1, ValidateWrites
  <2> QED
    BY <1>2, <2>1
<1>4. Tables'
  BY <1>3 DEF ValidateCommit, IInv, Tables
<1>5. \A s \in OnBoard' : s \in OnBoard /\ board'[s].rank = board[s].rank
                          /\ board'[s].score = board[s].score
  BY ValidateWrites DEF OnBoard
<1>6. BoardIsOneList'
  BY <1>5 DEF IInv, BoardIsOneList, ValidateCommit
<1>7. work[r].op # "none"
  BY DEF ValidateCommit, Ready
<1> QED
  BY <1>4, <1>6, <1>7, RestKeeps DEF ValidateCommit

LEMMA RuleCommitKeeps ==
  ASSUME IInv, NEW r \in Requests, NEW min \in Minima, RuleCommit(r, min)
  PROVE  IInv'
<1>1. rule' \in [min : Minima, active : BOOLEAN]
  BY DEF RuleCommit, IInv, Tables
<1>2. Tables'
  BY <1>1 DEF RuleCommit, IInv, Tables
<1>3. BoardIsOneList'
  BY DEF RuleCommit, IInv, BoardIsOneList, OnBoard
<1>4. work[r].op # "none"
  BY DEF RuleCommit
<1> QED
  BY <1>2, <1>3, <1>4, RestKeeps DEF RuleCommit

LEMMA AbortKeeps ==
  ASSUME IInv, NEW r \in Requests, Abort(r)
  PROVE  IInv'
<1>1. Tables'
  BY DEF Abort, IInv, Tables
<1>2. BoardIsOneList'
  BY DEF Abort, IInv, BoardIsOneList, OnBoard
<1> QED
  BY <1>1, <1>2, RestKeeps DEF Abort

LEMMA CommitKeeps ==
  ASSUME IInv, NEW r \in Requests, Commit(r)
  PROVE  IInv'
<1>1. ASSUME EnterCommit(r) PROVE IInv'
  <2>1. work[r].op \in Entering /\ strayVersion' \in BOOLEAN
    BY <1>1 DEF EnterCommit, Entering, IInv, Tables
  <2> QED
    BY <1>1, <2>1, MarksKeep DEF EnterCommit
<1>2. ASSUME MoveCommit(r) PROVE IInv'
  <2>1. work[r].op \in Entering /\ strayVersion' \in BOOLEAN
    BY <1>2 DEF MoveCommit, Ready, Entering, IInv, Tables
  <2> QED
    BY <1>2, <2>1, MarksKeep DEF MoveCommit
<1> QED
  BY <1>1, <1>2, CloseCommitKeeps, PublishCommitKeeps, GenerateCommitKeeps, BoardCommitKeeps,
     ValidateCommitKeeps, RuleCommitKeeps DEF Commit


----------------------------------------------------------------------------------
(* The theorems                                                                    *)

LEMMA LeaveKeeps ==
  ASSUME IInv, NEW s \in Students, Leave(s)
  PROVE  IInv'
<1>1. UNCHANGED <<uses, mark, strayVersion, closure, card, board, rule, edition, calls,
                  overlapped, work>>
      /\ member' \subseteq member
  BY DEF Leave
<1>2. Tables'
  BY <1>1 DEF IInv, Tables
<1>3. SessionsOK'
  BY <1>1 DEF IInv, SessionsOK
<1>4. CardsOK'
  <2>1. HasCard' = HasCard
    BY <1>1 DEF HasCard
  <2>2. SUFFICES ASSUME uses = {"results"} PROVE CardsOK'
    BY <1>1 DEF CardsOK
  <2>3. RanksFollowAverages'
    <3>1. RanksFollowAverages
      BY <2>2 DEF IInv, CardsOK
    <3> QED
      BY <1>1, <2>1, <3>1 DEF RanksFollowAverages
  <2>4. ASSUME ~overlapped', NEW t \in HasCard' PROVE card'[t].avg = Average("result", t)'
    BY <1>1, <2>1, <2>2, <2>4, AveragesSame DEF IInv, CardsOK
  <2> QED
    BY <1>1, <2>1, <2>2, <2>3, <2>4 DEF IInv, CardsOK
<1>5. BoardIsOneList'
  BY <1>1 DEF IInv, BoardIsOneList, OnBoard
<1> QED
  BY <1>2, <1>3, <1>4, <1>5 DEF IInv

LEMMA StutterKeeps ==
  ASSUME IInv, UNCHANGED vars
  PROVE  IInv'
<1>1. Tables'
  BY DEF vars, IInv, Tables
<1>2. SessionsOK'
  BY DEF vars, IInv, SessionsOK
<1>3. CardsOK'
  <2>1. HasCard' = HasCard
    BY DEF HasCard, vars
  <2>2. SUFFICES ASSUME uses = {"results"} PROVE CardsOK'
    BY DEF CardsOK, vars
  <2>3. RanksFollowAverages'
    <3>1. RanksFollowAverages
      BY <2>2 DEF IInv, CardsOK
    <3> QED
      BY <2>1, <3>1 DEF RanksFollowAverages, vars
  <2>4. ASSUME ~overlapped', NEW t \in HasCard' PROVE card'[t].avg = Average("result", t)'
    BY <2>1, <2>2, <2>4, AveragesSame DEF IInv, CardsOK, vars
  <2> QED
    BY <2>1, <2>2, <2>3, <2>4 DEF IInv, CardsOK, vars
<1>4. BoardIsOneList'
  BY DEF vars, IInv, BoardIsOneList, OnBoard
<1> QED
  BY <1>1, <1>2, <1>3, <1>4 DEF IInv

LEMMA InitHolds ==
  ASSUME Init
  PROVE  IInv
<1>1. Tables
  <2>1. mark \in [Sheets -> [Students -> Marks \cup {NoRow}]] /\ MaxCalls[uses] \in Nat
    BY GradebookAssumption DEF Init
  <2>2. rule \in [min : Minima, active : BOOLEAN]
    BY DEF Init
  <2>3. card \in [Students -> Cards \cup {NoRow}]
            /\ board \in [Students -> Entries \cup {NoRow}]
    BY DEF Init
  <2>4. calls \in 0..MaxCalls[uses] /\ edition \in Nat
    BY <2>1 DEF Init
  <2>5. closure \in Closures /\ strayVersion \in BOOLEAN /\ overlapped \in BOOLEAN
        /\ member \subseteq Students /\ uses \in Schools
    BY DEF Init, Closures
  <2> QED
    BY <2>1, <2>2, <2>3, <2>4, <2>5 DEF Tables
<1>2. SessionsOK
  <2>1. DOMAIN work = Requests /\ \A r \in Requests : work[r] = Idle
    BY DEF Init
  <2>2. Idle.op = "none"
    BY DEF Idle
  <2> QED
    BY <2>1, <2>2, IdleIsSound DEF SessionsOK
<1>3. CardsOK
  BY DEF Init, CardsOK, HasCard, RanksFollowAverages
<1>4. BoardIsOneList
  BY DEF Init, BoardIsOneList, OnBoard
<1> QED
  BY <1>1, <1>2, <1>3, <1>4 DEF IInv

LEMMA NextKeeps ==
  ASSUME IInv, [Next]_vars
  PROVE  IInv'
<1>1. CASE Next
  <2>1. ASSUME NEW r \in Requests, Read(r) \/ Commit(r) \/ Abort(r) PROVE IInv'
    BY <2>1, ReadKeeps, CommitKeeps, AbortKeeps
  <2>2. ASSUME NEW s \in Students, Leave(s) PROVE IInv'
    BY <2>2, LeaveKeeps
  <2> QED
    BY <1>1, <2>1, <2>2 DEF Next
<1>2. CASE UNCHANGED vars
  BY <1>2, StutterKeeps
<1> QED
  BY <1>1, <1>2

\* The sessions are what their steps rely on, in every state.
THEOREM Invariant == Spec => []IInv
BY InitHolds, NextKeeps, PTL DEF Spec

\* The tables hold rows of their kind, and a session writes rows that it loaded.
THEOREM TypeCorrect == Spec => []TypeOK
<1>1. IInv => TypeOK
  <2>1. SUFFICES ASSUME IInv, NEW r \in Requests
                 PROVE  /\ work[r].sheet \in Sheets \cup {NoRow}
                        /\ DOMAIN work[r].old \subseteq DOMAIN work[r].new
                        /\ DOMAIN work[r].new \subseteq Students
    BY DEF IInv, Tables, TypeOK, Closures
  <2>2. PICK w : w = work[r]
    OBVIOUS
  <2>3. Sound(w, uses, mark, card)
    BY <2>1, <2>2, SessionOf
  <2>4. w.sheet \in Sheets \cup {NoRow}
    BY <2>3 DEF Sound
  <2>5. DOMAIN Empty = {}
    BY DEF Empty
  <2>6. DOMAIN w.old \subseteq DOMAIN w.new /\ DOMAIN w.new \subseteq Students
    BY <2>3, <2>5 DEF Sound, Fits, OneComputation, OnlyValidates
  <2> QED
    BY <2>2, <2>4, <2>6
<1> QED
  BY <1>1, Invariant, PTL

\* In a school that evaluates by activities and whose requests do not cross, a published
\* bulletin shows the average of the results that are validated now: finalize_class_period
\* computes it once, and no way into the results is left once the period is closed.
THEOREM PublishedIsRight == Spec => []PublishedBulletinIsRight
<1>1. IInv => PublishedBulletinIsRight
  BY DEF IInv, CardsOK, PublishedBulletinIsRight
<1> QED
  BY <1>1, Invariant, PTL

\* However the calls cross, the ranks of a closing follow its averages; if they do not,
\* the honor board is one list in the order of its scores.
THEOREM ListsInOrder == Spec => []ListsAgree
<1>1. IInv => ListsAgree
  BY DEF IInv, CardsOK, BoardIsOneList, RanksFollowAverages, ListsAgree
<1> QED
  BY <1>1, Invariant, PTL

\* Who changes the bulletins or the honor board
LEMMA Writers ==
  ASSUME [Next]_vars
  PROVE  /\ card' # card =>
              \E r \in Requests : CloseCommit(r) \/ PublishCommit(r) \/ GenerateCommit(r)
         /\ board' # board => \E r \in Requests : BoardCommit(r) \/ ValidateCommit(r)
<1>1. ASSUME NEW r \in Requests, Read(r) PROVE card' = card /\ board' = board
  <2>1. PICK session : Begin(r, session)
    BY <1>1 DEF Read, EnterRead, MoveRead, CloseRead, PublishRead, GenerateRead, ShowRead,
       BoardRead, ValidateRead, RuleRead
  <2> QED
    BY <2>1 DEF Begin
<1>2. ASSUME NEW r \in Requests, Commit(r)
      PROVE  /\ card' # card => CloseCommit(r) \/ PublishCommit(r) \/ GenerateCommit(r)
             /\ board' # board => BoardCommit(r) \/ ValidateCommit(r)
  <2>1. EnterCommit(r) => card' = card /\ board' = board
    BY DEF EnterCommit
  <2>2. MoveCommit(r) => card' = card /\ board' = board
    BY DEF MoveCommit
  <2>3. CloseCommit(r) \/ PublishCommit(r) \/ GenerateCommit(r) => board' = board
    BY DEF CloseCommit, PublishCommit, GenerateCommit
  <2>4. BoardCommit(r) \/ ValidateCommit(r) => card' = card
    BY DEF BoardCommit, ValidateCommit
  <2>5. \A min \in Minima : RuleCommit(r, min) => card' = card /\ board' = board
    BY DEF RuleCommit
  <2> QED
    BY <1>2, <2>1, <2>2, <2>3, <2>4, <2>5 DEF Commit
<1>3. \A r \in Requests : Abort(r) => card' = card /\ board' = board
  BY DEF Abort
<1>4. \A s \in Students : Leave(s) => card' = card /\ board' = board
  BY DEF Leave
<1>5. UNCHANGED vars => card' = card /\ board' = board
  BY DEF vars
<1> QED
  BY <1>1, <1>2, <1>3, <1>4, <1>5 DEF Next

\* No step computes the bulletins of a closed period again.
LEMMA ClosedStep ==
  ASSUME IInv, [Next]_vars, uses = {"results"}, Closed, NEW s \in HasCard
  PROVE  card'[s] # NoRow /\ card'[s].avg = card[s].avg /\ card'[s].rank = card[s].rank
<1>1. SUFFICES ASSUME card' # card
               PROVE  card'[s] # NoRow /\ card'[s].avg = card[s].avg
                        /\ card'[s].rank = card[s].rank
  BY DEF HasCard
<1>2. PICK r \in Requests : CloseCommit(r) \/ PublishCommit(r) \/ GenerateCommit(r)
  BY <1>1, Writers
<1>3. PICK w : w = work[r]
  OBVIOUS
<1>4. Sound(w, uses, mark, card) /\ closure # "open"
  BY <1>3, SessionOf DEF Closed
<1>5. ~CloseCommit(r)
  BY <1>3, <1>4 DEF CloseCommit, Ready, SecondClosure, Sound
<1>6. w.op # "generate"
  BY <1>4 DEF Sound
<1>7. w.op \in Showing /\ w.op \in OnCards /\ card' = Save(card, r)
  BY <1>2, <1>3, <1>5, <1>6 DEF PublishCommit, GenerateCommit, Showing, OnCards
<1>8. NoRow \notin Cards /\ s \in Students /\ card[s] # NoRow
  BY GradebookAssumption DEF HasCard
<1> QED
  BY <1>3, <1>7, <1>8, CardsWritten

LEMMA ValidatedStep ==
  ASSUME IInv, [Next]_vars, NEW s \in ValidEntries
  PROVE  board'[s] = board[s]
<1>1. s \in Students /\ board[s] # NoRow /\ board[s].valid
  BY DEF ValidEntries, OnBoard
<1>2. SUFFICES ASSUME board' # board PROVE board'[s] = board[s]
  OBVIOUS
<1>3. PICK r \in Requests : BoardCommit(r) \/ ValidateCommit(r)
  BY <1>2, Writers
<1>4. CASE BoardCommit(r)
  <2>1. s \in Kept
    BY DEF Kept
  <2>2. s \notin DOMAIN work[r].new
    BY <1>4, <2>1 DEF BoardCommit
  <2> QED
    BY <1>1, <1>4, <2>1, <2>2 DEF BoardCommit
<1>5. CASE ValidateCommit(r)
  BY <1>1, <1>5, ValidateWrites
<1> QED
  BY <1>3, <1>4, <1>5

\* However the calls cross, what was made final stays: one closure row per class and period
\* refuses a second closing, and neither a generation nor a validation of the honor board
\* touches an entry that is validated.
THEOREM FinalHolds == Spec => FinalStays
<1>1. IInv /\ [Next]_vars => [uses = {"results"} /\ Closed =>
        \A s \in HasCard : card'[s] # NoRow /\ card'[s].avg = card[s].avg
                             /\ card'[s].rank = card[s].rank]_vars
  BY ClosedStep
<1>2. IInv /\ [Next]_vars => [\A s \in ValidEntries : board'[s] = board[s]]_vars
  BY ValidatedStep
<1> QED
  BY <1>1, <1>2, Invariant, PTL DEF Spec, FinalStays, ClosedOnce, ValidatedKept

----------------------------------------------------------------------------------
(* The parts of the sum                                                             *)

LEMMA GradesSteps ==
  ASSUME [GradesNext]_<<vars, marks, content, teachers, part>>
  PROVE  /\ [Next]_vars
         /\ [Marks_!Next]_Marks_!vars
         /\ [Content!Next]_Content!vars
         /\ [Teachers!Next]_Teachers!vars
BY DEF GradesNext, vars, marks, content, teachers, Marks_!vars, Content!vars, Teachers!vars

----------------------------------------------------------------------------------
(* The catalogue                                                                    *)

\* The instances count as the module does.
LEMMA PartsCount ==
  \A S : Content!Cardinality(S) = Cardinality(S) /\ Teachers!Cardinality(S) = Cardinality(S)
BY DEF Content!Cardinality, Teachers!Cardinality, Cardinality

\* An edit leaves the rows of the other kinds.
LEMMA EditsOne ==
  ASSUME NEW field \in {"frameworks", "domains", "competencies", "scales", "rules"},
         NEW rows, Content!Edit(field, rows), DOMAIN catalogue = DOMAIN Content!Empty
  PROVE  catalogue'.criteria = catalogue.criteria /\ DOMAIN catalogue' = DOMAIN catalogue
BY DEF Content!Edit, Content!Empty

\* What is left of the competencies, and which domains have then none.
Framed(pick) == {pick[k] : k \in FrameworkKinds}
Left(c, F) == c.competencies \ Content!OldStarter(c, F)
Bare(c, F) ==
  {fd \in F \X StarterDomains :
     ~\E x \in Left(c, F) : x.framework = fd[1] /\ x.domain = fd[2]}

\* A seeded catalogue has no competency of the old starter data: what is left had others
\* beside it, or criteria, and has them still.
LEMMA SeededHasNoOld ==
  ASSUME NEW c, NEW y, NEW pick
  PROVE  Content!OldStarter(Content!Seeded(c, y, pick), Framed(pick)) = {}
<1> DEFINE F == Framed(pick)
           once == Content!Seeded(c, y, pick)
           old == Content!OldStarter(c, F)
           fresh == Bare(c, F) \X StarterCompetencies
<1>1. /\ once.competencies
            = Left(c, F) \union {[framework |-> x[1][1], domain |-> x[1][2], code |-> x[2],
                                  name |-> "starter"] : x \in fresh}
      /\ once.criteria
            = (c.criteria \ UNION {Content!CriteriaOf(c, o) : o \in old})
                \union {[framework |-> x[1][1], domain |-> x[1][2],
                         competency |-> x[2], code |-> "starter"] : x \in fresh}
  BY DEF Content!Seeded, Left, Bare, Framed
<1>2. SUFFICES ASSUME NEW o \in Content!OldStarter(once, F) PROVE FALSE
  OBVIOUS
<1> HIDE DEF F, once
<1>3. /\ o \in once.competencies /\ o.framework \in F /\ o.domain \in StarterDomains
      /\ Content!Siblings(once, o) = {o} /\ o.name = "label"
      /\ Cardinality(Content!CriteriaOf(once, o)) <= 1
  BY <1>2, PartsCount DEF Content!OldStarter
<1>4. o \in Left(c, F) /\ o \in c.competencies /\ o \notin old
  <2>1. \A x : [framework |-> x[1][1], domain |-> x[1][2], code |-> x[2],
                name |-> "starter"].name # "label"
    OBVIOUS
  <2> QED
    BY <1>1, <1>3, <2>1 DEF Left
<1>5. ASSUME NEW p \in old PROVE ~(p.framework = o.framework /\ p.domain = o.domain)
  <2>1. SUFFICES ASSUME p.framework = o.framework, p.domain = o.domain PROVE FALSE
    OBVIOUS
  <2>2. o \in Content!Siblings(c, p) /\ Content!Siblings(c, p) = {p}
    BY <1>4, <1>5, <2>1 DEF Content!Siblings, Content!OldStarter
  <2> QED
    BY <1>4, <1>5, <2>2
<1>6. Content!Siblings(c, o) = {o}
  <2>1. o \in Content!Siblings(c, o)
    BY <1>4 DEF Content!Siblings
  <2>2. ASSUME NEW p \in Content!Siblings(c, o) PROVE p = o
    <3>1. p \in c.competencies /\ p.framework = o.framework /\ p.domain = o.domain
      BY <2>2 DEF Content!Siblings
    <3>2. p \in Left(c, F)
      BY <1>5, <3>1 DEF Left
    <3>3. p \in Content!Siblings(once, o)
      BY <1>1, <3>1, <3>2 DEF Content!Siblings
    <3> QED
      BY <1>3, <3>3
  <2> QED
    BY <2>1, <2>2
<1>7. Content!CriteriaOf(once, o) = Content!CriteriaOf(c, o)
  <2>1. ASSUME NEW k \in Content!CriteriaOf(once, o) PROVE k \in c.criteria
    <3>1. k \in once.criteria /\ k.framework = o.framework /\ k.domain = o.domain
      BY <2>1 DEF Content!CriteriaOf
    <3>2. SUFFICES ASSUME NEW x \in fresh,
                          k = [framework |-> x[1][1], domain |-> x[1][2],
                               competency |-> x[2], code |-> "starter"]
                   PROVE  FALSE
      BY <1>1, <3>1
    <3>3. x[1] \in Bare(c, F) /\ x[1][1] = o.framework /\ x[1][2] = o.domain
      BY <3>1, <3>2
    <3> QED
      BY <1>4, <3>3 DEF Bare
  <2>2. ASSUME NEW k \in Content!CriteriaOf(c, o) PROVE k \in once.criteria
    <3>1. k \in c.criteria /\ k.framework = o.framework /\ k.domain = o.domain
      BY <2>2 DEF Content!CriteriaOf
    <3>2. \A p \in old : k \notin Content!CriteriaOf(c, p)
      BY <1>5, <3>1 DEF Content!CriteriaOf
    <3> QED
      BY <1>1, <3>1, <3>2
  <2>3. \A k : k \in Content!CriteriaOf(once, o) <=> k \in Content!CriteriaOf(c, o)
    BY <2>1, <2>2 DEF Content!CriteriaOf
  <2> QED
    BY <2>3
<1>8. o \in old
  BY <1>3, <1>4, <1>6, <1>7, PartsCount DEF Content!OldStarter
<1> QED
  BY <1>4, <1>8

\* Loading the starter content twice is loading it once.
LEMMA SeededTwice ==
  ASSUME NEW c, NEW y, NEW pick
  PROVE  Content!Seeded(Content!Seeded(c, y, pick), y, pick) = Content!Seeded(c, y, pick)
<1> DEFINE F == Framed(pick)
           once == Content!Seeded(c, y, pick)
           fresh == Bare(c, F) \X StarterCompetencies
           again == Bare(once, F) \X StarterCompetencies
           made == {[id |-> pick[k], year |-> y, kind |-> k, edited |-> FALSE] : k
               \in FrameworkKinds}
           domains == [framework : F, code : StarterDomains, edited : {FALSE}]
           scales == [framework : F, code : StarterScales, edited : {FALSE}]
           Ruled(z) == {r.framework : r \in z.rules}
           Dated(z) == {g.id : g \in {h \in z.frameworks : h.year = y}}
           rules(z) == {[framework |-> f, code |-> "default"] : f \in
                          (Dated(z) \union F) \ Ruled(z)}
<1>1. /\ once.frameworks = {f \in c.frameworks : f.id \notin F} \union made
      /\ once.domains = {d \in c.domains : d.framework \notin F \/ d.code = OwnCode}
                          \union domains
      /\ once.competencies
            = Left(c, F) \union {[framework |-> x[1][1], domain |-> x[1][2], code |-> x[2],
                                  name |-> "starter"] : x \in fresh}
      /\ once.scales = {s \in c.scales : s.framework \notin F} \union scales
      /\ once.rules = c.rules \union rules(c)
      /\ once = [frameworks |-> once.frameworks, domains |-> once.domains,
                 competencies |-> once.competencies, criteria |-> once.criteria,
                 scales |-> once.scales, rules |-> once.rules]
  BY DEF Content!Seeded, Left, Bare, Framed
<1>2. Content!OldStarter(once, F) = {} /\ Left(once, F) = once.competencies
  BY SeededHasNoOld DEF Left
<1>3. Content!Seeded(once, y, pick)
        = [frameworks |-> {f \in once.frameworks : f.id \notin F} \union made,
           domains |-> {d \in once.domains : d.framework \notin F \/ d.code = OwnCode}
                          \union domains,
           competencies |-> once.competencies
                              \union {[framework |-> x[1][1], domain |-> x[1][2],
                                       code |-> x[2], name |-> "starter"] : x \in again},
           criteria |-> once.criteria
                          \union {[framework |-> x[1][1], domain |-> x[1][2],
                                   competency |-> x[2], code |-> "starter"] : x \in again},
           scales |-> {s \in once.scales : s.framework \notin F} \union scales,
           rules |-> once.rules \union rules(once)]
  <2> HIDE DEF once
  <2>1. UNION {Content!CriteriaOf(once, o) : o \in Content!OldStarter(once, F)} = {}
    BY <1>2
  <2> QED
    BY <1>2, <2>1 DEF Content!Seeded, Left, Bare, Framed
<1> HIDE DEF once, F
<1>4. again = {}
  <2>1. SUFFICES ASSUME NEW fd \in Bare(once, F), NEW k \in StarterCompetencies PROVE FALSE
    OBVIOUS
  <2>2. fd \in F \X StarterDomains
        /\ ~\E x \in once.competencies : x.framework = fd[1] /\ x.domain = fd[2]
    BY <1>2, <2>1 DEF Bare
  <2>3. fd \in Bare(c, F)
    BY <1>1, <2>2 DEF Bare
  <2>4. <<fd, k>> \in fresh
    BY <2>1, <2>3
  <2>5. [framework |-> fd[1], domain |-> fd[2], code |-> k, name |-> "starter"]
          \in once.competencies
    BY <1>1, <2>4
  <2> QED
    BY <2>2, <2>5
<1>5. {f \in once.frameworks : f.id \notin F} \union made = once.frameworks
  <2>1. \A f \in made : f.id \in F
    BY DEF F, Framed
  <2> QED
    BY <1>1, <2>1
<1>6. /\ {d \in once.domains : d.framework \notin F \/ d.code = OwnCode} \union domains
           = once.domains
      /\ {s \in once.scales : s.framework \notin F} \union scales = once.scales
  BY <1>1
<1>7. rules(once) = {}
  <2>1. Dated(once) \subseteq Dated(c) \union F
    <3>1. \A f \in made : f.id \in F
      BY DEF F, Framed
    <3> QED
      BY <1>1, <3>1
  <2>2. Dated(c) \union F \subseteq Ruled(once)
    <3>1. SUFFICES ASSUME NEW f \in Dated(c) \union F, f \notin Ruled(c)
                   PROVE  f \in Ruled(once)
      BY <1>1
    <3>2. [framework |-> f, code |-> "default"] \in once.rules
      BY <1>1, <3>1
    <3> QED
      BY <3>2
  <2> QED
    BY <2>1, <2>2
<1>8. /\ once.competencies \union {[framework |-> x[1][1], domain |-> x[1][2],
                                    code |-> x[2], name |-> "starter"] : x \in again}
           = once.competencies
      /\ once.criteria \union {[framework |-> x[1][1], domain |-> x[1][2],
                                competency |-> x[2], code |-> "starter"] : x \in again}
           = once.criteria
  BY <1>4
<1>9. once.rules \union rules(once) = once.rules
  BY <1>7
<1>10. Content!Seeded(once, y, pick)
         = [frameworks |-> once.frameworks, domains |-> once.domains,
            competencies |-> once.competencies, criteria |-> once.criteria,
            scales |-> once.scales, rules |-> once.rules]
  <2> HIDE DEF made, domains, scales, rules, again
  <2> QED
    BY <1>3, <1>5, <1>6, <1>8, <1>9
<1> QED
  BY <1>1, <1>10 DEF once

\* What holds of the catalogue: whatever was marked is there, and rows are of their kinds.
ContentInv ==
  /\ used \subseteq catalogue.criteria
  /\ DOMAIN catalogue = DOMAIN Content!Empty

LEMMA ContentStarts == Content!Init => ContentInv
<1>1. \A pick : DOMAIN Content!Old(pick) = DOMAIN Content!Empty
  BY DEF Content!Old, Content!Empty
<1> QED
  BY <1>1 DEF Content!Init, ContentInv

LEMMA ContentStep ==
  ASSUME ContentInv, [Content!Next]_Content!vars
  PROVE  ContentInv'
<1>1. CASE UNCHANGED Content!vars
  BY <1>1 DEF ContentInv, Content!vars
<1>2. ASSUME Content!Start PROVE ContentInv'
  <2>1. PICK y, pick :
          catalogue' = IF Content!Refused(catalogue, Framed(pick)) THEN catalogue
                       ELSE Content!Seeded(catalogue, y, pick)
    BY <1>2 DEF Content!Start, Framed
  <2>2. UNCHANGED used
    BY <1>2 DEF Content!Start
  <2>3. CASE Content!Refused(catalogue, Framed(pick))
    BY <2>1, <2>2, <2>3 DEF ContentInv
  <2>4. CASE ~Content!Refused(catalogue, Framed(pick))
    <3>1. DOMAIN catalogue' = DOMAIN Content!Empty
      BY <2>1, <2>4 DEF Content!Seeded, Content!Empty
    <3>2. used \subseteq catalogue.criteria
                           \ UNION {Content!CriteriaOf(catalogue, o)
                                    : o \in Content!OldStarter(catalogue, Framed(pick))}
      BY <2>4 DEF Content!Refused, ContentInv
    <3>3. catalogue.criteria
            \ UNION {Content!CriteriaOf(catalogue, o)
                     : o \in Content!OldStarter(catalogue, Framed(pick))}
            \subseteq catalogue'.criteria
      BY <2>1, <2>4 DEF Content!Seeded, Framed
    <3> QED
      BY <2>2, <3>1, <3>2, <3>3 DEF ContentInv
  <2> QED
    BY <2>3, <2>4
<1>3. ASSUME NEW field \in {"frameworks", "domains", "competencies", "scales", "rules"},
             NEW rows, Content!Edit(field, rows)
      PROVE  ContentInv'
  BY <1>3, EditsOne DEF Content!Edit, ContentInv
<1>4. ASSUME NEW rows, catalogue.criteria \subseteq rows, Content!Edit("criteria", rows)
      PROVE  ContentInv'
  <2>1. catalogue'.criteria = rows /\ DOMAIN catalogue' = DOMAIN catalogue
    BY <1>4 DEF Content!Edit, Content!Empty, ContentInv
  <2> QED
    BY <1>4, <2>1 DEF Content!Edit, ContentInv
<1>5. ASSUME Content!Stop PROVE ContentInv'
  BY <1>5 DEF Content!Stop, ContentInv
<1>6. ASSUME \/ Content!CreateFramework \/ Content!CreateDomain \/ Content!CreateCompetency
             \/ Content!CreateScale \/ Content!CreateRule
      PROVE  ContentInv'
  BY <1>3, <1>6 DEF Content!CreateFramework, Content!CreateDomain,
     Content!CreateCompetency, Content!CreateScale, Content!CreateRule
<1>7. ASSUME Content!CreateCriterion PROVE ContentInv'
  BY <1>4, <1>7 DEF Content!CreateCriterion
<1>8. ASSUME Content!PatchRow PROVE ContentInv'
  BY <1>3, <1>8 DEF Content!PatchRow, Content!Patch
<1>9. ASSUME Content!CreateActivity PROVE ContentInv'
  BY <1>9 DEF Content!CreateActivity, ContentInv
<1>10. ASSUME NEW y \in Years, Content!ClearYears(y) \/ Content!CommitYear(y)
       PROVE  ContentInv'
  BY <1>10 DEF Content!ClearYears, Content!CommitYear, ContentInv
<1> QED
  BY <1>1, <1>2, <1>5, <1>6, <1>7, <1>8, <1>9, <1>10 DEF Content!Next

\* Whatever the school had made of its catalogue, and on whichever frameworks, the start
\* loads what a second start finds there, and no criterion that an activity refers to is ever
\* deleted (seed.py, seed_evaluation_frameworks and seed_appreciation_rules).
THEOREM StartsAndMarks == GradesSpec => []CatalogueSettles
<1>1. GradesInit => ContentInv
  BY ContentStarts DEF GradesInit
<1>2. ContentInv /\ [GradesNext]_<<vars, marks, content, teachers, part>> => ContentInv'
  BY ContentStep, GradesSteps
<1>3. Content!StartsSettle
  BY SeededHasNoOld, SeededTwice DEF Content!StartsSettle, Framed
<1>4. ContentInv => CatalogueSettles
  BY <1>3 DEF ContentInv, CatalogueSettles, Content!MarkedCriteriaStay
<1> QED
  BY <1>1, <1>2, <1>4, PTL DEF GradesSpec

----------------------------------------------------------------------------------
(* What teachers have to enter                                                      *)

EntryStates == {"none", "draft", "sent"}
\* The students of the class of a test, and those of them without a mark.
There(t) == Teachers!Open(test[t].class)
Lines(t) == {s \in There(t) : marked[t][s] = "none"}
TeachInv == marked \in [Tests -> [Pupils -> EntryStates]]

LEMMA TeachStep ==
  ASSUME TeachInv, [Teachers!Next]_Teachers!vars
  PROVE  TeachInv'
<1>1. CASE UNCHANGED marked
  BY <1>1 DEF TeachInv
<1>2. ASSUME NEW r \in Recorders, Teachers!Commit(r) PROVE TeachInv'
  BY <1>2 DEF Teachers!Commit, TeachInv, EntryStates
<1>3. ASSUME NEW u \in Staff, NEW t \in Tests, NEW s \in Pupils, Teachers!Submit(u, t, s)
      PROVE  TeachInv'
  BY <1>3 DEF Teachers!Submit, TeachInv, EntryStates
<1>4. CASE UNCHANGED Teachers!vars
  BY <1>1, <1>4 DEF Teachers!vars
<1>5. CASE Teachers!Next
  BY <1>1, <1>2, <1>3, <1>5
  DEF Teachers!Next, Teachers!Assign, Teachers!SetTest, Teachers!Leave, Teachers!Enrol,
      Teachers!Refuse, Teachers!Read
<1> QED
  BY <1>4, <1>5

\* Where nobody who has a mark has left the class, the students of a class without one are
\* those by whom the marks are fewer than the class.
LEMMA EmptyLines ==
  ASSUME TeachInv, NEW t \in Tests, Teachers!Gone(t) = {}
  PROVE  /\ Cardinality(There(t)) \in Nat /\ Cardinality(Teachers!Rows(t)) \in Nat
         /\ Cardinality(There(t)) = Cardinality(Teachers!Rows(t)) + Cardinality(Lines(t))
         /\ Cardinality(Lines(t)) \in Nat /\ (Lines(t) # {} => Cardinality(Lines(t)) > 0)
<1> DEFINE there == There(t)
           rows == Teachers!Rows(t)
           empty == Lines(t)
<1>1. there \subseteq Pupils /\ rows \subseteq Pupils /\ empty \subseteq Pupils
  BY DEF There, Lines, Teachers!Open, Teachers!Rows
<1>2. IsFiniteSet(there) /\ IsFiniteSet(rows) /\ IsFiniteSet(empty)
  BY <1>1, FS_Subset, GradesAssumption
<1>3. rows \intersect empty = {}
  BY DEF Teachers!Rows, Lines
<1>4. there = rows \union empty
  BY DEF Teachers!Gone, Teachers!Rows, Teachers!Open, There, Lines
<1> HIDE DEF there, rows, empty
<1>5. Cardinality(rows \intersect empty) = 0
  BY <1>3, FS_EmptySet
<1>6. Cardinality(rows \union empty)
        = Cardinality(rows) + Cardinality(empty) - Cardinality(rows \intersect empty)
  BY <1>2, FS_Union
<1>7. /\ Cardinality(there) \in Nat /\ Cardinality(rows) \in Nat
      /\ Cardinality(empty) \in Nat
  BY <1>2, FS_CardinalityType
<1>8. empty # {} => Cardinality(empty) > 0
  BY <1>2, <1>7, FS_EmptySet
<1> QED
  BY <1>4, <1>5, <1>6, <1>7, <1>8 DEF there, rows, empty

LEMMA NobodyIsForgotten ==
  ASSUME TeachInv
  PROVE  Teachers!NothingForgotten
<1> SUFFICES ASSUME NEW t \in Teachers!Set, Teachers!Gone(t) = {}
             PROVE  LET u == test[t].by
                        c == test[t].class
                        sheet == Teachers!Sheet(t)
                        empty == {s \in DOMAIN sheet : sheet[s] = "none"}
                    IN IF t \in Evaluated
                       THEN empty # {} => t \notin Teachers!Complete(c)
                       ELSE /\ Teachers!Missing(t) # {} /\ Teachers!HisClass(u, c)
                                 => t \in Teachers!Pending(u) \/ u \in Teachers!Alerted
                            /\ t \in Teachers!Pending(u)
                                 => Teachers!Remaining(t) = Teachers!Cardinality(empty)
                            /\ t \in Teachers!Pending(u)
                                 /\ <<u, test[t].subject, c>> \in assigned
                                 => t \in Teachers!Listed(u, c)
  BY DEF Teachers!NothingForgotten
<1> DEFINE u == test[t].by
           c == test[t].class
           there == There(t)
           empty == Lines(t)
<1>1. t \in Tests /\ there \subseteq Pupils
  BY DEF Teachers!Set, There, Teachers!Open
<1>2. /\ Cardinality(there) \in Nat /\ Cardinality(Teachers!Rows(t)) \in Nat
      /\ Cardinality(there) = Cardinality(Teachers!Rows(t)) + Cardinality(empty)
      /\ Cardinality(empty) \in Nat /\ (empty # {} => Cardinality(empty) > 0)
  BY <1>1, EmptyLines
<1>3. /\ DOMAIN Teachers!Sheet(t) = there
      /\ \A s \in there : Teachers!Sheet(t)[s] = marked[t][s]
  BY DEF Teachers!Sheet, There
<1>4. {s \in DOMAIN Teachers!Sheet(t) : Teachers!Sheet(t)[s] = "none"} = empty
  BY <1>3 DEF Lines
<1> HIDE DEF there, empty
<1>5. t \in Evaluated => (empty # {} => t \notin Teachers!Complete(c))
  BY <1>2, PartsCount DEF Teachers!Complete, There, there
<1>6. t \notin Evaluated /\ Teachers!Missing(t) # {} /\ Teachers!HisClass(u, c)
        => t \in Teachers!Pending(u) \/ u \in Teachers!Alerted
  <2>1. SUFFICES ASSUME t \notin Evaluated, NEW s \in Teachers!Missing(t),
                        Teachers!HisClass(u, c)
                 PROVE  t \in Teachers!Pending(u) \/ u \in Teachers!Alerted
    OBVIOUS
  <2>2. s \in there /\ marked[t][s] # "sent"
    BY <1>3, <2>1 DEF Teachers!Missing
  <2>3. marked[t][s] \in EntryStates
    BY <1>1, <2>2 DEF TeachInv
  <2>4. CASE marked[t][s] = "none"
    <3>1. Cardinality(Teachers!Rows(t)) < Cardinality(there)
      BY <1>2, <2>2, <2>4 DEF empty, Lines, there
    <3> QED
      BY <2>1, <3>1, PartsCount DEF Teachers!Pending, there, There
  <2>5. CASE marked[t][s] = "draft"
    BY <1>1, <2>1, <2>2, <2>5 DEF Teachers!Alerted
  <2> QED
    BY <2>2, <2>3, <2>4, <2>5 DEF EntryStates
<1>7. Teachers!Remaining(t) = Cardinality(empty)
  BY <1>2, PartsCount DEF Teachers!Remaining, there, There
<1>8. <<u, test[t].subject, c>> \in assigned => t \in Teachers!Listed(u, c)
  BY DEF Teachers!Listed, Teachers!Assigned
<1> QED
  BY <1>4, <1>5, <1>6, <1>7, <1>8, PartsCount

\* For any teachers, classes, assignments and requests that cross while they enter marks:
\* as long as nobody who has a mark left the class, an assessment that lacks one is pending for
\* its teacher, with as many remaining as there are empty lines, or the alerts count him
\* (teacher_portal.teacher_overview, dashboard_alerts).
THEOREM ScreensShowAll == GradesSpec => []NothingForgotten
<1>1. GradesInit => TeachInv
  BY DEF GradesInit, Teachers!Init, TeachInv, EntryStates
<1>2. TeachInv /\ [GradesNext]_<<vars, marks, content, teachers, part>> => TeachInv'
  BY TeachStep, GradesSteps
<1>3. TeachInv => NothingForgotten
  BY NobodyIsForgotten DEF NothingForgotten
<1> QED
  BY <1>1, <1>2, <1>3, PTL DEF GradesSpec

----------------------------------------------------------------------------------
(* Sums over the parts of a set *)

\* A sum of a set is that of the others and of any of its members.
LEMMA SumsAdd ==
  ASSUME NEW K, IsFiniteSet(K), NEW a \in [K -> Nat], NEW f, Sums(a, K, f)
  PROVE  \A T \in SUBSET K : \A x \in K \ T : f[T \cup {x}] = f[T] + a[x]
<1> DEFINE Adds(T) == \A x \in K \ T : f[T \cup {x}] = f[T] + a[x]
           Bad == {T \in SUBSET K : ~Adds(T)}
<1>1. SUFFICES ASSUME Bad # {} PROVE FALSE
  OBVIOUS
<1>2. PICK T \in SUBSET K : ~Adds(T) /\ \A U \in SUBSET T : U # T => Adds(U)
  <2>1. Bad \in SUBSET SUBSET K
    OBVIOUS
  <2>2. PICK T \in Bad : \A U \in SUBSET T : U # T => U \notin Bad
    <3> HIDE DEF Bad
    <3> QED
      BY <1>1, <2>1, SmallestSet
  <2> HIDE DEF Adds
  <2> QED
    BY <2>2
<1> HIDE DEF Bad
<1>3. PICK x \in K \ T : f[T \cup {x}] # f[T] + a[x]
  BY <1>2
<1>4. \A U \in SUBSET K : f[U] \in Nat
  BY SumsAreNat
<1>5. PICK U \in SUBSET K : U = T \cup {x}
  OBVIOUS
<1>6. PICK y \in U : y = Taken(U) /\ f[U] = a[y] + f[U \ {y}]
  BY <1>5, TakenIs, SumsAt
<1>7. CASE y = x
  <2>1. U \ {y} = T
    BY <1>3, <1>5, <1>7
  <2>2. f[U] = a[x] + f[T] /\ a[x] \in Nat /\ f[T] \in Nat
    BY <1>4, <1>6, <1>7, <2>1
  <2>3. f[U] = f[T] + a[x]
    BY <2>2
  <2> QED
    BY <1>3, <1>5, <2>3
<1>8. CASE y # x
  <2>1. PICK M : M = T \ {y}
    OBVIOUS
  <2>2. y \in T /\ M \in SUBSET T /\ M # T /\ x \in K \ M /\ y \in K \ M
    BY <1>3, <1>5, <1>6, <1>8, <2>1
  <2>3. M \cup {y} = T /\ M \cup {x} = U \ {y}
    BY <1>3, <1>5, <1>8, <2>1, <2>2
  <2>4. f[M \cup {y}] = f[M] + a[y] /\ f[M \cup {x}] = f[M] + a[x]
    BY <1>2, <2>2
  <2>5. f[M] \in Nat /\ a[x] \in Nat /\ a[y] \in Nat
    BY <1>4, <2>2
  <2>6. f[T] = f[M] + a[y] /\ f[U] = a[y] + (f[M] + a[x])
    BY <1>6, <2>3, <2>4
  <2>7. f[U] = f[T] + a[x]
    BY <2>5, <2>6
  <2> QED
    BY <1>3, <1>5, <2>7
<1> QED
  BY <1>7, <1>8

\* The sum of two sets that share nothing
LEMMA SumsJoin ==
  ASSUME NEW K, IsFiniteSet(K), NEW a \in [K -> Nat], NEW f, Sums(a, K, f)
  PROVE  \A R, T \in SUBSET K : R \cap T = {} => f[R \cup T] = f[R] + f[T]
<1>a. ASSUME NEW W \in SUBSET K, NEW y \in K \ W PROVE f[W \cup {y}] = f[W] + a[y]
  BY SumsAdd
<1> SUFFICES ASSUME NEW R \in SUBSET K
             PROVE  \A T \in SUBSET K : R \cap T = {} => f[R \cup T] = f[R] + f[T]
  OBVIOUS
<1> DEFINE Bad == {T \in SUBSET K : R \cap T = {} /\ f[R \cup T] # f[R] + f[T]}
<1>1. SUFFICES ASSUME Bad # {} PROVE FALSE
  OBVIOUS
<1>2. PICK T \in SUBSET K : /\ R \cap T = {} /\ f[R \cup T] # f[R] + f[T]
                            /\ \A U \in SUBSET T : U # T => f[R \cup U] = f[R] + f[U]
  <2>1. Bad \in SUBSET SUBSET K
    OBVIOUS
  <2>2. PICK T \in Bad : \A U \in SUBSET T : U # T => U \notin Bad
    <3> HIDE DEF Bad
    <3> QED
      BY <1>1, <2>1, SmallestSet
  <2>3. ASSUME NEW U \in SUBSET T, U # T PROVE f[R \cup U] = f[R] + f[U]
    <3>1. U \notin Bad /\ U \in SUBSET K /\ R \cap U = {}
      BY <2>2, <2>3
    <3> QED
      BY <3>1
  <2>4. T \in SUBSET K /\ R \cap T = {} /\ f[R \cup T] # f[R] + f[T]
    OBVIOUS
  <2> HIDE DEF Bad
  <2> QED
    BY <2>3, <2>4
<1> HIDE DEF Bad
<1>3. \A U \in SUBSET K : f[U] \in Nat
  BY SumsAreNat
<1>4. CASE T = {}
  <2>1. f[T] = 0
    BY <1>4, SumsAt
  <2>2. R \cup T = R
    BY <1>4
  <2>3. f[R \cup T] = f[R] /\ f[R] \in Nat
    BY <1>3, <2>2
  <2>4. f[R] + f[T] = f[R]
    BY <2>1, <2>3
  <2> QED
    BY <1>2, <2>3, <2>4
<1>5. CASE T # {}
  <2>1. PICK x \in T : TRUE
    BY <1>5
  <2>2. PICK U \in SUBSET T : U = T \ {x}
    OBVIOUS
  <2>3. /\ U # T /\ x \in K \ U /\ x \in K \ (R \cup U) /\ R \cup U \in SUBSET K
        /\ U \cup {x} = T /\ (R \cup U) \cup {x} = R \cup T
    BY <1>2, <2>2
  <2>4. f[U \cup {x}] = f[U] + a[x] /\ f[(R \cup U) \cup {x}] = f[R \cup U] + a[x]
    <3>1. U \in SUBSET K
      BY <2>2
    <3>2. f[U \cup {x}] = f[U] + a[x]
      BY <2>3, <3>1, <1>a
    <3>3. f[(R \cup U) \cup {x}] = f[R \cup U] + a[x]
      BY <2>3, <1>a
    <3> QED
      BY <3>2, <3>3
  <2>5. f[R \cup U] = f[R] + f[U]
    BY <1>2, <2>3
  <2>6. f[R] \in Nat /\ f[U] \in Nat /\ a[x] \in Nat
    BY <1>3, <2>3
  <2>7. f[T] = f[U] + a[x] /\ f[R \cup T] = (f[R] + f[U]) + a[x]
    BY <2>3, <2>4, <2>5
  <2>8. f[R \cup T] = f[R] + f[T]
    BY <2>6, <2>7
  <2> QED
    BY <1>2, <2>8
<1> QED
  BY <1>4, <1>5

\* The sums of numbers over the parts of a set: of nothing, of two parts, of one element
LEMMA SumOfParts ==
  ASSUME NEW K, IsFiniteSet(K), NEW a, \A k \in K : a[k] \in Nat
  PROVE  /\ \A T \in SUBSET K : SumOf(a, T) \in Nat
         /\ SumOf(a, {}) = 0
         /\ \A R, T \in SUBSET K :
              R \cap T = {} => SumOf(a, R \cup T) = SumOf(a, R) + SumOf(a, T)
         /\ \A k \in K : SumOf(a, {k}) = a[k]
<1>1. PICK b \in [K -> Nat] : \A k \in K : a[k] = b[k]
  <2>1. [k \in K |-> a[k]] \in [K -> Nat]
    OBVIOUS
  <2> QED
    BY <2>1
<1>2. PICK f : Sums(b, K, f)
  BY SumsExist
<1>3. ASSUME NEW T \in SUBSET K PROVE SumOf(a, T) = f[T]
  <2>1. PICK g : g = [U \in SUBSET T |-> f[U]]
    OBVIOUS
  <2>2. Sums(b, T, g)
    BY <1>2, <2>1, SumsOfPart
  <2>3. IsFiniteSet(T)
    BY FS_Subset
  <2>4. SumOf(a, T) = g[T]
    BY <1>1, <2>2, <2>3, SumOfIs
  <2> QED
    BY <2>1, <2>4
<1>4. \A T \in SUBSET K : f[T] \in Nat
  BY <1>1, <1>2, SumsAreNat
<1>5. f[{}] = 0
  BY <1>2, SumsAt
<1>6. \A R, T \in SUBSET K : R \cap T = {} => f[R \cup T] = f[R] + f[T]
  BY <1>2, SumsJoin
<1>7. ASSUME NEW k \in K PROVE f[{k}] = a[k]
  <2>1. f[{} \cup {k}] = f[{}] + b[k]
    <3>1. {} \in SUBSET K /\ k \in K \ {}
      OBVIOUS
    <3> QED
      BY <1>1, <1>2, <3>1, SumsAdd
  <2>2. {} \cup {k} = {k} /\ b[k] \in Nat
    BY <1>1
  <2> QED
    BY <1>1, <1>5, <2>1, <2>2
<1>8. \A R, T \in SUBSET K : R \cup T \in SUBSET K
  OBVIOUS
<1>9. {} \in SUBSET K /\ \A k \in K : {k} \in SUBSET K
  OBVIOUS
<1>10. \A T \in SUBSET K : SumOf(a, T) \in Nat
  BY <1>3, <1>4
<1>11. SumOf(a, {}) = 0
  BY <1>3, <1>5, <1>9
<1>12. ASSUME NEW R \in SUBSET K, NEW T \in SUBSET K, R \cap T = {}
       PROVE  SumOf(a, R \cup T) = SumOf(a, R) + SumOf(a, T)
  BY <1>3, <1>6, <1>8, <1>12
<1>13. \A k \in K : SumOf(a, {k}) = a[k]
  BY <1>3, <1>7, <1>9
<1> QED
  BY <1>10, <1>11, <1>12, <1>13

\* Term by term at most k times another, a sum is too.
LEMMA SumOfBelow ==
  ASSUME NEW K, IsFiniteSet(K), NEW a, NEW b, NEW k \in Nat,
         \A x \in K : a[x] \in Nat /\ b[x] \in Nat
  PROVE  (\A x \in K : a[x] <= k * b[x]) => SumOf(a, K) <= k * SumOf(b, K)
<1>a. /\ \A T \in SUBSET K : SumOf(a, T) \in Nat
      /\ SumOf(a, {}) = 0
      /\ \A R, T \in SUBSET K :
           R \cap T = {} => SumOf(a, R \cup T) = SumOf(a, R) + SumOf(a, T)
      /\ \A x \in K : SumOf(a, {x}) = a[x]
  BY SumOfParts
<1>b. /\ \A T \in SUBSET K : SumOf(b, T) \in Nat
      /\ SumOf(b, {}) = 0
      /\ \A R, T \in SUBSET K :
           R \cap T = {} => SumOf(b, R \cup T) = SumOf(b, R) + SumOf(b, T)
      /\ \A x \in K : SumOf(b, {x}) = b[x]
  BY SumOfParts
<1> SUFFICES ASSUME \A x \in K : a[x] <= k * b[x] PROVE SumOf(a, K) <= k * SumOf(b, K)
  OBVIOUS
<1> DEFINE Bad == {T \in SUBSET K : ~(SumOf(a, T) <= k * SumOf(b, T))}
<1>1. SUFFICES ASSUME Bad # {} PROVE FALSE
  OBVIOUS
<1>2. PICK T \in SUBSET K : /\ ~(SumOf(a, T) <= k * SumOf(b, T))
                            /\ \A U \in SUBSET T : U # T => SumOf(a, U) <= k * SumOf(b, U)
  <2>1. Bad \in SUBSET SUBSET K
    OBVIOUS
  <2>2. PICK T \in Bad : \A U \in SUBSET T : U # T => U \notin Bad
    <3> HIDE DEF Bad
    <3> QED
      BY <1>1, <2>1, SmallestSet
  <2> QED
    BY <2>2
<1> HIDE DEF Bad
<1>3. T # {}
  BY <1>2, <1>a, <1>b
<1>4. PICK x \in T : TRUE
  BY <1>3
<1>5. PICK U \in SUBSET T : U = T \ {x}
  OBVIOUS
<1>6. U # T /\ x \in K /\ {x} \in SUBSET K /\ U \in SUBSET K /\ U \cap {x} = {}
        /\ U \cup {x} = T
  BY <1>5
<1>7. SumOf(a, T) = SumOf(a, U) + a[x] /\ SumOf(b, T) = SumOf(b, U) + b[x]
  <2>1. SumOf(a, U \cup {x}) = SumOf(a, U) + SumOf(a, {x}) /\ SumOf(a, {x}) = a[x]
    BY <1>6, <1>a
  <2>2. SumOf(b, U \cup {x}) = SumOf(b, U) + SumOf(b, {x}) /\ SumOf(b, {x}) = b[x]
    BY <1>6, <1>b
  <2> QED
    BY <1>6, <2>1, <2>2
<1>8. /\ SumOf(a, U) <= k * SumOf(b, U) /\ a[x] <= k * b[x]
      /\ SumOf(a, U) \in Nat /\ SumOf(b, U) \in Nat /\ a[x] \in Nat /\ b[x] \in Nat
  BY <1>2, <1>6, <1>a, <1>b
<1>9. \A m, n, p, q \in Nat : m <= k * n /\ p <= k * q => m + p <= k * (n + q)
  OBVIOUS
<1> QED
  BY <1>2, <1>7, <1>8, <1>9

----------------------------------------------------------------------------------
(* Means, and their rounding *)

\* The mean of a whole is no less than that of one of its parts, and no more than that of
\* one of them: a sum n over another sum d, with parts that a function tells apart.
Part(K, of, s) == {x \in K : of[x] = s}

LEMMA PartsOutweigh ==
  ASSUME NEW K, IsFiniteSet(K), K # {}, NEW of, NEW n, NEW d, NEW p \in Int, NEW q \in Int,
         \A x \in K : n[x] \in Nat /\ d[x] \in Nat
  PROVE  (\A x \in K : p * SumOf(n, Part(K, of, of[x])) + q * SumOf(d, Part(K, of, of[x])) > 0)
           => p * SumOf(n, K) + q * SumOf(d, K) > 0
<1>n. /\ \A T \in SUBSET K : SumOf(n, T) \in Nat
      /\ \A R, T \in SUBSET K :
           R \cap T = {} => SumOf(n, R \cup T) = SumOf(n, R) + SumOf(n, T)
  BY SumOfParts
<1>d. /\ \A T \in SUBSET K : SumOf(d, T) \in Nat
      /\ \A R, T \in SUBSET K :
           R \cap T = {} => SumOf(d, R \cup T) = SumOf(d, R) + SumOf(d, T)
  BY SumOfParts
<1> DEFINE Heavy(T) == p * SumOf(n, T) + q * SumOf(d, T) > 0
           Whole(T) == \A x \in T : Part(K, of, of[x]) \subseteq T
           Bad == {T \in SUBSET K : T # {} /\ Whole(T) /\ ~Heavy(T)}
<1> SUFFICES ASSUME \A x \in K : Heavy(Part(K, of, of[x])) PROVE Heavy(K)
  OBVIOUS
<1>1. SUFFICES ASSUME Bad # {} PROVE FALSE
  <2>1. Whole(K)
    BY DEF Part
  <2> HIDE DEF Heavy, Whole
  <2> QED
    BY <2>1
<1>2. PICK T \in SUBSET K : /\ T # {} /\ Whole(T) /\ ~Heavy(T)
                            /\ \A U \in SUBSET T : U # T => U \notin Bad
  <2>1. Bad \in SUBSET SUBSET K
    OBVIOUS
  <2>2. PICK T \in Bad : \A U \in SUBSET T : U # T => U \notin Bad
    <3> HIDE DEF Bad
    <3> QED
      BY <1>1, <2>1, SmallestSet
  <2>3. T \in SUBSET K /\ T # {} /\ Whole(T) /\ ~Heavy(T)
    <3> HIDE DEF Heavy, Whole
    <3> QED
      OBVIOUS
  <2> HIDE DEF Bad, Heavy, Whole
  <2> QED
    BY <2>2, <2>3
<1>3. PICK x \in T : TRUE
  BY <1>2
<1>4. PICK F \in SUBSET K : F = Part(K, of, of[x])
  BY DEF Part
<1>5. PICK U \in SUBSET T : U = T \ F
  OBVIOUS
<1>6. x \in F /\ F \subseteq T /\ U # T /\ U \in SUBSET K /\ F \cap U = {} /\ F \cup U = T
  <2>1. F \subseteq T
    BY <1>2, <1>4
  <2>2. x \in F
    BY <1>4 DEF Part
  <2> QED
    BY <1>5, <2>1, <2>2
<1>7. Whole(U)
  <2>1. ASSUME NEW y \in U, NEW z \in Part(K, of, of[y]) PROVE z \in U
    <3>1. z \in T
      BY <1>2
    <3>2. z \notin F
      BY <1>4, <1>5 DEF Part
    <3> QED
      BY <1>5, <3>1, <3>2
  <2> QED
    BY <2>1
<1>8. Heavy(F)
  BY <1>4
<1>9. CASE U = {}
  <2>1. T = F
    BY <1>6, <1>9
  <2> QED
    BY <1>2, <1>8, <2>1
<1>10. CASE U # {}
  <2>1. Heavy(U)
    <3> HIDE DEF Heavy, Whole
    <3> QED
      BY <1>2, <1>6, <1>7, <1>10
  <2>2. SumOf(n, T) = SumOf(n, F) + SumOf(n, U) /\ SumOf(d, T) = SumOf(d, F) + SumOf(d, U)
    BY <1>6, <1>n, <1>d
  <2>3. \A i, j, k, l \in Nat : p * i + q * j > 0 /\ p * k + q * l > 0
                                  => p * (i + k) + q * (j + l) > 0
    OBVIOUS
  <2>4. /\ SumOf(n, F) \in Nat /\ SumOf(n, U) \in Nat
        /\ SumOf(d, F) \in Nat /\ SumOf(d, U) \in Nat
    BY <1>6, <1>n, <1>d
  <2>5. /\ p * SumOf(n, F) + q * SumOf(d, F) > 0 /\ p * SumOf(n, U) + q * SumOf(d, U) > 0
        /\ ~(p * SumOf(n, T) + q * SumOf(d, T) > 0)
    BY <1>2, <1>8, <2>1
  <2> QED
    BY <2>2, <2>3, <2>4, <2>5
<1> QED
  BY <1>9, <1>10

LEMMA Mediant ==
  ASSUME NEW K, IsFiniteSet(K), K # {}, NEW of, NEW n, NEW d,
         \A x \in K : n[x] \in Nat /\ d[x] \in Nat
  PROVE  /\ \E x \in K : SumOf(n, Part(K, of, of[x])) * SumOf(d, K)
                           <= SumOf(n, K) * SumOf(d, Part(K, of, of[x]))
         /\ \E x \in K : SumOf(n, K) * SumOf(d, Part(K, of, of[x]))
                           <= SumOf(n, Part(K, of, of[x])) * SumOf(d, K)
<1>1. PICK N \in Nat, D \in Nat : N = SumOf(n, K) /\ D = SumOf(d, K)
  BY SumOfNat
<1>2. \A x \in K : SumOf(n, Part(K, of, of[x])) \in Nat /\ SumOf(d, Part(K, of, of[x])) \in Nat
  <2>1. \A x \in K : IsFiniteSet(Part(K, of, of[x]))
    BY FS_Subset DEF Part
  <2>2. ASSUME NEW x \in K
        PROVE  SumOf(n, Part(K, of, of[x])) \in Nat /\ SumOf(d, Part(K, of, of[x])) \in Nat
    <3>1. \A y \in Part(K, of, of[x]) : n[y] \in Nat /\ d[y] \in Nat
      BY DEF Part
    <3> QED
      BY <2>1, <3>1, SumOfNat
  <2> QED
    BY <2>2
<1>3. ~(\A x \in K : D * SumOf(n, Part(K, of, of[x])) + (-N) * SumOf(d,
          Part(K, of, of[x])) > 0)
  <2>1. D \in Int /\ -N \in Int /\ ~(D * N + (-N) * D > 0)
    BY <1>1
  <2>2. (\A x \in K : D * SumOf(n, Part(K, of, of[x]))
                        + (-N) * SumOf(d, Part(K, of, of[x])) > 0)
          => D * SumOf(n, K) + (-N) * SumOf(d, K) > 0
    BY <2>1, PartsOutweigh
  <2> QED
    BY <1>1, <2>1, <2>2
<1>4. ~(\A x \in K : (-D) * SumOf(n, Part(K, of, of[x])) + N * SumOf(d,
          Part(K, of, of[x])) > 0)
  <2>1. -D \in Int /\ N \in Int /\ ~((-D) * N + N * D > 0)
    BY <1>1
  <2>2. (\A x \in K : (-D) * SumOf(n, Part(K, of, of[x]))
                        + N * SumOf(d, Part(K, of, of[x])) > 0)
          => (-D) * SumOf(n, K) + N * SumOf(d, K) > 0
    BY <2>1, PartsOutweigh
  <2> QED
    BY <1>1, <2>1, <2>2
<1>5. \A i, j \in Nat : /\ ~(D * i + (-N) * j > 0) => i * D <= N * j
                        /\ ~((-D) * i + N * j > 0) => N * j <= i * D
  BY <1>1
<1>6. PICK x \in K : ~(D * SumOf(n, Part(K, of, of[x]))
                         + (-N) * SumOf(d, Part(K, of, of[x])) > 0)
  BY <1>3
<1>7. PICK y \in K : ~((-D) * SumOf(n, Part(K, of, of[y]))
                         + N * SumOf(d, Part(K, of, of[y])) > 0)
  BY <1>4
<1>8. SumOf(n, Part(K, of, of[x])) * D <= N * SumOf(d, Part(K, of, of[x]))
  BY <1>2, <1>5, <1>6
<1>9. N * SumOf(d, Part(K, of, of[y])) <= SumOf(n, Part(K, of, of[y])) * D
  BY <1>2, <1>5, <1>7
<1> QED
  BY <1>1, <1>8, <1>9

\* Rounding half up keeps the order of quotients.
LEMMA HalfUpInOrder ==
  /\ \A n \in Nat, d \in Nat \ {0} : Marks_!HalfUp(n, d) \in Nat
  /\ \A n, m \in Nat, d, e \in Nat \ {0} :
       n * e <= m * d => Marks_!HalfUp(n, d) <= Marks_!HalfUp(m, e)
  /\ \A n, m \in Nat, d \in Nat \ {0} : n <= m => Marks_!HalfUp(n, d) <= Marks_!HalfUp(m, d)
  /\ \A n, k \in Nat, d \in Nat \ {0} : n <= k * d => Marks_!HalfUp(n, d) <= k
<1>1. \A n \in Nat, d \in Nat \ {0} :
        /\ Marks_!HalfUp(n, d) \in Nat
        /\ 2 * d * Marks_!HalfUp(n, d) <= 2 * n + d
        /\ 2 * n + d < 2 * d * (Marks_!HalfUp(n, d) + 1)
  <2>1. \A i \in Nat, j \in Nat \ {0} :
          i \div j \in Nat /\ j * (i \div j) <= i /\ i < j * (i \div j + 1)
    OBVIOUS
  <2>2. \A n \in Nat, d \in Nat \ {0} : 2 * n + d \in Nat /\ 2 * d \in Nat \ {0}
    OBVIOUS
  <2> QED
    BY <2>1, <2>2 DEF Marks_!HalfUp
<1>2. ASSUME NEW n \in Nat, NEW m \in Nat, NEW d \in Nat \ {0}, NEW e \in Nat \ {0},
             n * e <= m * d
      PROVE  Marks_!HalfUp(n, d) <= Marks_!HalfUp(m, e)
  <2>1. PICK h \in Nat, k \in Nat : h = Marks_!HalfUp(n, d) /\ k = Marks_!HalfUp(m, e)
    BY <1>1
  <2>2. 2 * d * h <= 2 * n + d /\ 2 * m + e < 2 * e * (k + 1)
    BY <1>1, <2>1
  <2>3. 2 * d * h * e <= (2 * n + d) * e
    BY <2>2
  <2>4. (2 * m + e) * d < 2 * e * (k + 1) * d
    BY <2>2
  <2>5. (2 * n + d) * e <= (2 * m + e) * d
    <3>1. (2 * n + d) * e = 2 * (n * e) + d * e /\ (2 * m + e) * d = 2 * (m * d) + d * e
      OBVIOUS
    <3> QED
      BY <1>2, <3>1
  <2>6. (2 * d * e) * h < (2 * d * e) * (k + 1)
    BY <2>3, <2>4, <2>5
  <2>7. \A c \in Nat, i, j \in Nat : c * i < c * j => i < j
    OBVIOUS
  <2>8. h < k + 1
    <3>1. 2 * d * e \in Nat /\ k + 1 \in Nat
      OBVIOUS
    <3> QED
      BY <2>6, <2>7, <3>1
  <2> QED
    BY <2>1, <2>8
<1>3. ASSUME NEW n \in Nat, NEW k \in Nat, NEW d \in Nat \ {0}, n <= k * d
      PROVE  Marks_!HalfUp(n, d) <= k
  <2>1. PICK h \in Nat : h = Marks_!HalfUp(n, d) /\ 2 * d * h <= 2 * n + d
    BY <1>1
  <2>2. 2 * d * h <= 2 * k * d + d
    BY <1>3, <2>1
  <2>3. h >= k + 1 => 2 * d * h >= 2 * d * (k + 1)
    OBVIOUS
  <2>4. 2 * d * (k + 1) = 2 * k * d + 2 * d
    OBVIOUS
  <2> QED
    BY <2>1, <2>2, <2>3, <2>4
<1>4. ASSUME NEW n \in Nat, NEW m \in Nat, NEW d \in Nat \ {0}, n <= m
      PROVE  Marks_!HalfUp(n, d) <= Marks_!HalfUp(m, d)
  <2>1. n * d <= m * d
    BY <1>4
  <2> QED
    BY <1>2, <2>1
<1> QED
  BY <1>1, <1>2, <1>3, <1>4

----------------------------------------------------------------------------------
(* Averages: never out of those of the subjects *)

\* The marks of a student: a score is a number within its maximum.
Sheet == [score : Nat \union {NoScore}, max : Nat \union {NoScore},
          absent : BOOLEAN, final : BOOLEAN, made : BOOLEAN]
WithinMaximum(res) ==
  /\ res \in [Tasks -> Sheet]
  /\ \A a \in Tasks : res[a].score # NoScore => res[a].score <= Marks_!Maximum(res, a)

\* What a mark brings to an average
Worth(res) ==
  [a \in Tasks |-> IF res[a].score = NoScore THEN 0 ELSE Marks_!Mark(res, a) * Coefficient[a]]
AllScored(res, A) == A \in SUBSET Tasks /\ \A a \in A : res[a].score # NoScore

LEMMA LeastNumber ==
  ASSUME NEW T \in SUBSET Nat, T # {}
  PROVE  \E n \in T : \A m \in T : n <= m
<1>1. PICK n \in T : \A m \in T : ~(<<m, n>> \in OpToRel(<, Nat))
  BY NatLessThanWellFounded, WFMin
<1>2. \A m \in T : ~(m < n)
  BY <1>1 DEF OpToRel
<1> QED
  BY <1>2

LEMMA MinimumIs ==
  ASSUME NEW T \in SUBSET Nat, T # {}
  PROVE  Marks_!Min(T) \in T /\ \A m \in T : Marks_!Min(T) <= m
BY LeastNumber DEF Marks_!Min

LEMMA MinimumOf ==
  ASSUME NEW T \in SUBSET Nat, NEW n \in T, \A m \in T : n <= m
  PROVE  Marks_!Min(T) = n
<1>1. ASSUME NEW x \in T, \A m \in T : x <= m PROVE x = n
  <2>1. x <= n /\ n <= x /\ x \in Nat /\ n \in Nat
    BY <1>1
  <2> QED
    BY <2>1
<1>2. T # {}
  OBVIOUS
<1>3. Marks_!Min(T) \in T
  BY <1>2, MinimumIs
<1>4. \A m \in T : Marks_!Min(T) <= m
  BY <1>2, MinimumIs
<1> QED
  BY <1>1, <1>3, <1>4

LEMMA MaximumIs ==
  ASSUME NEW k \in Nat, NEW T \in SUBSET Nat, T # {}, \A m \in T : m <= k
  PROVE  Marks_!Max(T) \in T /\ \A m \in T : m <= Marks_!Max(T)
<1>1. PICK D \in SUBSET Nat : D = {k - m : m \in T}
  <2>1. \A m \in T : k - m \in Nat
    OBVIOUS
  <2>2. {k - m : m \in T} \in SUBSET Nat
    BY <2>1
  <2> QED
    BY <2>2
<1>2. D # {}
  BY <1>1
<1>3. PICK n \in D : \A m \in D : n <= m
  BY <1>2, LeastNumber
<1>4. PICK x \in T : n = k - x
  BY <1>1, <1>3
<1>5. ASSUME NEW m \in T PROVE x >= m
  <2>1. k - m \in D
    BY <1>1
  <2>2. k - x <= k - m /\ x \in Nat /\ m \in Nat
    BY <1>3, <1>4, <2>1
  <2> QED
    BY <2>2
<1>6. Marks_!Max(T) \in T /\ \A m \in T : Marks_!Max(T) >= m
  BY <1>5 DEF Marks_!Max
<1> QED
  BY <1>6

LEMMA SameSum == \A f, T : Marks_!SumOf(f, T) = SumOf(f, T)
BY DEF Marks_!SumOf, SumOf, Marks_!MapThenSumSet, MapThenSumSet,
       Marks_!MapThenFoldSet, MapThenFoldSet

LEMMA SumOfSame ==
  ASSUME NEW K, IsFiniteSet(K), NEW a, NEW b, \A k \in K : a[k] = b[k]
  PROVE  SumOf(a, K) = SumOf(b, K)
<1>1. PICK f : Sums(b, K, f)
  BY SumsExist
<1>2. SumOf(a, K) = f[K] /\ SumOf(b, K) = f[K]
  BY <1>1, SumOfIs
<1> QED
  BY <1>2

LEMMA MarksAreTyped ==
  /\ NoScore \notin Nat /\ IsFiniteSet(Tasks)
  /\ \A a \in Tasks : MaxOf[a] \in Nat \ {0} /\ Coefficient[a] \in Nat \ {0}
  /\ OwnMaxima \ {NoScore} \subseteq Nat /\ MarksEntered \ {NoScore} \subseteq Nat
<1>1. /\ MaxOf \in [Tasks -> Nat \ {0}] /\ Coefficient \in [Tasks -> Nat \ {0}]
      /\ NoScore \notin Nat
      /\ OwnMaxima \ {NoScore} \subseteq Nat /\ MarksEntered \ {NoScore} \subseteq Nat
  <2>1. Marks_!GradingConstants
    BY GradesAssumption
  <2> QED
    BY Zenon, <2>1 DEF Marks_!GradingConstants
<1>2. IsFiniteSet(Tasks)
  BY GradesAssumption
<1> QED
  BY <1>1, <1>2

\* A mark is out of 20.
LEMMA MarkIs ==
  ASSUME NEW res, WithinMaximum(res), NEW a \in Tasks
  PROVE  /\ Marks_!Maximum(res, a) \in Nat \ {0}
         /\ res[a].score # NoScore =>
              /\ res[a].score \in Nat /\ res[a].score <= Marks_!Maximum(res, a)
              /\ Marks_!Mark(res, a) \in Nat /\ Marks_!Mark(res, a) <= 20 * Marks_!Unit
<1>1. res[a].max \in Nat \union {NoScore} /\ res[a].score \in Nat \union {NoScore}
  BY DEF WithinMaximum, Sheet
<1>2. Marks_!Maximum(res, a) \in Nat \ {0}
  BY <1>1, MarksAreTyped DEF Marks_!Maximum
<1>3. ASSUME NEW m \in Nat \ {0}, NEW s \in Nat, s <= m
      PROVE  /\ s * 20 * (Marks_!Unit \div m) \in Nat
             /\ s * 20 * (Marks_!Unit \div m) <= 20 * Marks_!Unit
  <2>1. PICK q \in Nat : q = 10000 \div m /\ q * m <= 10000
    OBVIOUS
  <2>2. s * q <= m * q
    BY <1>3
  <2>3. s * 20 * q = 20 * (s * q) /\ m * q = q * m /\ s * q \in Nat
    OBVIOUS
  <2> QED
    BY <2>1, <2>2, <2>3 DEF Marks_!Unit
<1>4. ASSUME res[a].score # NoScore
      PROVE  /\ res[a].score \in Nat /\ res[a].score <= Marks_!Maximum(res, a)
             /\ Marks_!Mark(res, a) \in Nat /\ Marks_!Mark(res, a) <= 20 * Marks_!Unit
  <2>1. res[a].score \in Nat /\ res[a].score <= Marks_!Maximum(res, a)
    BY <1>1, <1>4 DEF WithinMaximum
  <2> QED
    BY <1>2, <1>3, <2>1 DEF Marks_!Mark
<1> QED
  BY <1>2, <1>4

LEMMA WorthIs ==
  ASSUME NEW res, WithinMaximum(res)
  PROVE  /\ \A a \in Tasks : Worth(res)[a] \in Nat
         /\ \A a \in Tasks : Worth(res)[a] <= (20 * Marks_!Unit) * Coefficient[a]
<1>1. ASSUME NEW a \in Tasks
      PROVE  Worth(res)[a] \in Nat /\ Worth(res)[a] <= (20 * Marks_!Unit) * Coefficient[a]
  <2>1. Worth(res)[a] = IF res[a].score = NoScore THEN 0
                        ELSE Marks_!Mark(res, a) * Coefficient[a]
    BY DEF Worth
  <2>2. \A i, j, k \in Nat : i <= k => i * j \in Nat /\ i * j <= k * j
    OBVIOUS
  <2>3. Coefficient[a] \in Nat /\ 20 * Marks_!Unit \in Nat /\ 0 <= 20 * Marks_!Unit
    BY MarksAreTyped DEF Marks_!Unit
  <2>4. CASE res[a].score = NoScore
    <3>1. Worth(res)[a] = 0 * Coefficient[a]
      BY <2>1, <2>3, <2>4
    <3> QED
      BY <2>2, <2>3, <3>1
  <2>5. CASE res[a].score # NoScore
    BY <2>1, <2>2, <2>3, <2>5, MarkIs
  <2> QED
    BY <2>4, <2>5
<1> QED
  BY <1>1

\* An average is the rounded quotient of two sums, and no more than 20.
LEMMA AverageIs ==
  ASSUME NEW res, WithinMaximum(res), NEW A, AllScored(res, A), A # {}
  PROVE  /\ IsFiniteSet(A)
         /\ SumOf(Worth(res), A) \in Nat /\ SumOf(Coefficient, A) \in Nat \ {0}
         /\ Marks_!CoefficientSum(A) = SumOf(Coefficient, A)
         /\ Marks_!Average(res, A)
              = Marks_!HalfUp(SumOf(Worth(res), A) * 100, SumOf(Coefficient, A) * Marks_!Unit)
         /\ Marks_!Average(res, A) \in Nat /\ Marks_!Average(res, A) <= 2000
<1>1. IsFiniteSet(A) /\ A \in SUBSET Tasks
  BY MarksAreTyped, FS_Subset DEF AllScored
<1>2. \A a \in A : Worth(res)[a] \in Nat
          /\ Worth(res)[a] <= (20 * Marks_!Unit) * Coefficient[a]
  BY <1>1, WorthIs
<1>3. \A a \in A : Coefficient[a] \in Nat /\ Coefficient[a] > 0
  BY <1>1, MarksAreTyped
<1>4. SumOf(Worth(res), A) \in Nat
  BY <1>1, <1>2, SumOfNat
<1>5. SumOf(Coefficient, A) \in Nat /\ SumOf(Coefficient, A) > 0
  BY <1>1, <1>3, SumOfNat
<1>6. SumOf(Worth(res), A) <= (20 * Marks_!Unit) * SumOf(Coefficient, A)
  <2>1. 20 * Marks_!Unit \in Nat
    BY DEF Marks_!Unit
  <2> QED
    BY <1>1, <1>2, <1>3, <2>1, SumOfBelow
<1>7. Marks_!CoefficientSum(A) = SumOf(Coefficient, A)
  BY SameSum DEF Marks_!CoefficientSum
<1>8. Marks_!Weighted(res, A) = SumOf(Worth(res), A)
  <2>1. PICK terms : terms = [a \in A |-> Marks_!Mark(res, a) * Coefficient[a]]
    OBVIOUS
  <2>2. \A a \in A : terms[a] = Worth(res)[a]
    BY <1>1, <2>1 DEF Worth, AllScored
  <2>3. SumOf(terms, A) = SumOf(Worth(res), A)
    BY <1>1, <2>2, SumOfSame
  <2>4. Marks_!Weighted(res, A) = Marks_!SumOf(terms, A)
    BY <2>1 DEF Marks_!Weighted
  <2> QED
    BY <2>3, <2>4, SameSum
<1>9. Marks_!Average(res, A)
        = Marks_!HalfUp(SumOf(Worth(res), A) * 100, SumOf(Coefficient, A) * Marks_!Unit)
  BY <1>7, <1>8 DEF Marks_!Average
<1>10. Marks_!Average(res, A) \in Nat /\ Marks_!Average(res, A) <= 2000
  <2>1. \A w \in Nat, c \in Nat \ {0} : w <= 200000 * c =>
          w * 100 \in Nat /\ c * 10000 \in Nat \ {0} /\ w * 100 <= 2000 * (c * 10000)
    OBVIOUS
  <2>2. SumOf(Worth(res), A) <= 200000 * SumOf(Coefficient, A)
    BY <1>6 DEF Marks_!Unit
  <2>3. /\ SumOf(Worth(res), A) * 100 \in Nat
        /\ SumOf(Coefficient, A) * Marks_!Unit \in Nat \ {0}
        /\ SumOf(Worth(res), A) * 100 <= 2000 * (SumOf(Coefficient, A) * Marks_!Unit)
    BY <1>4, <1>5, <2>1, <2>2 DEF Marks_!Unit
  <2>4. \A n \in Nat, d \in Nat \ {0} :
          n <= 2000 * d => Marks_!HalfUp(n, d) \in Nat /\ Marks_!HalfUp(n, d) <= 2000
    <3>1. 2000 \in Nat
      OBVIOUS
    <3> QED
      BY <3>1, HalfUpInOrder
  <2>5. /\ Marks_!Average(res, A) \in Nat /\ Marks_!Average(res, A) <= 2000
    BY <1>9, <2>3, <2>4
  <2> QED
    BY <2>5
<1> QED
  BY <1>1, <1>4, <1>5, <1>7, <1>9, <1>10

\* Averages are in the order of their quotients.
LEMMA AveragesInOrder ==
  ASSUME NEW res, WithinMaximum(res), NEW A, AllScored(res, A), A # {},
         NEW other, WithinMaximum(other), NEW B, AllScored(other, B), B # {},
         SumOf(Worth(res), A) * SumOf(Coefficient, B)
           <= SumOf(Worth(other), B) * SumOf(Coefficient, A)
  PROVE  Marks_!Average(res, A) <= Marks_!Average(other, B)
<1>1. PICK n \in Nat, d \in Nat \ {0} :
        /\ n = SumOf(Worth(res), A) /\ d = SumOf(Coefficient, A)
        /\ Marks_!Average(res, A) = Marks_!HalfUp(n * 100, d * Marks_!Unit)
  BY AverageIs
<1>2. PICK m \in Nat, e \in Nat \ {0} :
        /\ m = SumOf(Worth(other), B) /\ e = SumOf(Coefficient, B)
        /\ Marks_!Average(other, B) = Marks_!HalfUp(m * 100, e * Marks_!Unit)
  BY AverageIs
<1>3. n * e <= m * d
  BY <1>1, <1>2
<1>4. /\ n * 100 \in Nat /\ m * 100 \in Nat
      /\ d * 10000 \in Nat \ {0} /\ e * 10000 \in Nat \ {0}
      /\ (n * 100) * (e * 10000) <= (m * 100) * (d * 10000)
  <2>1. (n * 100) * (e * 10000) = 1000000 * (n * e)
    OBVIOUS
  <2>2. (m * 100) * (d * 10000) = 1000000 * (m * d)
    OBVIOUS
  <2>3. n * e \in Nat /\ m * d \in Nat
    OBVIOUS
  <2> QED
    BY <1>3, <2>1, <2>2, <2>3
<1>5. Marks_!HalfUp(n * 100, d * 10000) <= Marks_!HalfUp(m * 100, e * 10000)
  BY <1>4, HalfUpInOrder
<1> QED
  BY <1>1, <1>2, <1>5 DEF Marks_!Unit

LEMMA UsableIs ==
  ASSUME NEW res, NEW A \in SUBSET Tasks
  PROVE  AllScored(res, Marks_!Usable(res, A))
BY DEF AllScored, Marks_!Usable, Marks_!Scored

LEMMA Enclosed ==
  ASSUME NEW k \in Nat, NEW T \in SUBSET Nat, \A m \in T : m <= k,
         NEW u \in T, NEW v \in T, NEW w \in Nat, u <= w, w <= v
  PROVE  w \in Marks_!Min(T) .. Marks_!Max(T)
<1>1. T # {}
  OBVIOUS
<1>2. Marks_!Min(T) \in T /\ \A m \in T : Marks_!Min(T) <= m
  BY <1>1, MinimumIs
<1>3. Marks_!Max(T) \in T /\ \A m \in T : m <= Marks_!Max(T)
  BY <1>1, MaximumIs
<1>4. Marks_!Min(T) \in Nat /\ Marks_!Max(T) \in Nat
  BY <1>2, <1>3
<1>5. u \in Nat /\ v \in Nat /\ Marks_!Min(T) <= u /\ v <= Marks_!Max(T)
  BY <1>2, <1>3
<1> QED
  BY <1>4, <1>5

\* The average of a whole lies between those of its subjects.
LEMMA BetweenSubjects ==
  ASSUME NEW res, WithinMaximum(res), NEW A, AllScored(res, A), A # {},
         Marks_!Of(A, NoSubject) = {}
  PROVE  LET averages == {Marks_!SubjectAverage(res, A, s) : s \in Marks_!Subjects(A)}
         IN Marks_!Average(res, A) \in Marks_!Min(averages) .. Marks_!Max(averages)
<1> DEFINE averages == {Marks_!SubjectAverage(res, A, s) : s \in Marks_!Subjects(A)}
<1>1. \A a \in A : /\ SubjectOf[a] \in Marks_!Subjects(A)
                   /\ Marks_!Of(A, SubjectOf[a]) = Part(A, SubjectOf, SubjectOf[a])
  BY DEF Marks_!Subjects, Marks_!Of, Part
<1>2. \A s \in Marks_!Subjects(A) : Marks_!Of(A, s) # {} /\ AllScored(res, Marks_!Of(A, s))
  BY DEF Marks_!Subjects, Marks_!Of, AllScored
<1>0. PICK k \in Nat : k = 2000
  OBVIOUS
<1>3. averages \in SUBSET Nat /\ \A m \in averages : m <= k
  <2>1. ASSUME NEW s \in Marks_!Subjects(A)
        PROVE  /\ Marks_!SubjectAverage(res, A, s) \in Nat
               /\ Marks_!SubjectAverage(res, A, s) <= k
    <3>1. PICK P : P = Marks_!Of(A, s) /\ P # {} /\ AllScored(res, P)
      BY <1>2
    <3>2. Marks_!Average(res, P) \in Nat /\ Marks_!Average(res, P) <= 2000
      BY <3>1, AverageIs
    <3>3. Marks_!SubjectAverage(res, A, s) = Marks_!Average(res, P)
      BY <3>1 DEF Marks_!SubjectAverage
    <3>4. Marks_!Average(res, P) \in Nat /\ Marks_!Average(res, P) <= k
      BY <1>0, <3>2
    <3> QED
      BY <3>3, <3>4
  <2> QED
    BY <2>1
<1>6. \A a \in A : Worth(res)[a] \in Nat /\ Coefficient[a] \in Nat
  BY WorthIs, MarksAreTyped DEF AllScored
<1>7. IsFiniteSet(A) /\ Marks_!Average(res, A) \in Nat
  BY AverageIs
<1>8. PICK x \in A :
          SumOf(Worth(res), Part(A, SubjectOf, SubjectOf[x])) * SumOf(Coefficient, A)
          <= SumOf(Worth(res), A) * SumOf(Coefficient, Part(A, SubjectOf, SubjectOf[x]))
  BY <1>6, <1>7, Mediant
<1>9. PICK y \in A :
          SumOf(Worth(res), A) * SumOf(Coefficient, Part(A, SubjectOf, SubjectOf[y]))
          <= SumOf(Worth(res), Part(A, SubjectOf, SubjectOf[y])) * SumOf(Coefficient, A)
  BY <1>6, <1>7, Mediant
<1>10. Marks_!SubjectAverage(res, A, SubjectOf[x]) <= Marks_!Average(res, A)
  <2>1. PICK P : P = Marks_!Of(A, SubjectOf[x]) /\ P # {} /\ AllScored(res, P)
    BY <1>1, <1>2
  <2>2. SumOf(Worth(res), P) * SumOf(Coefficient, A)
          <= SumOf(Worth(res), A) * SumOf(Coefficient, P)
    BY <1>1, <1>8, <2>1
  <2>3. Marks_!Average(res, P) <= Marks_!Average(res, A)
    BY <2>1, <2>2, AveragesInOrder
  <2> QED
    BY <2>1, <2>3 DEF Marks_!SubjectAverage
<1>11. Marks_!Average(res, A) <= Marks_!SubjectAverage(res, A, SubjectOf[y])
  <2>1. PICK P : P = Marks_!Of(A, SubjectOf[y]) /\ P # {} /\ AllScored(res, P)
    BY <1>1, <1>2
  <2>2. SumOf(Worth(res), A) * SumOf(Coefficient, P)
          <= SumOf(Worth(res), P) * SumOf(Coefficient, A)
    BY <1>1, <1>9, <2>1
  <2>3. Marks_!Average(res, A) <= Marks_!Average(res, P)
    BY <2>1, <2>2, AveragesInOrder
  <2> QED
    BY <2>1, <2>3 DEF Marks_!SubjectAverage
<1>12. PICK u : u = Marks_!SubjectAverage(res, A, SubjectOf[x])
  OBVIOUS
<1>13. PICK v : v = Marks_!SubjectAverage(res, A, SubjectOf[y])
  OBVIOUS
<1>14. u \in averages /\ v \in averages
  BY <1>1, <1>12, <1>13
<1> HIDE DEF averages
<1>15. PICK w \in Nat : w = Marks_!Average(res, A) /\ u <= w /\ w <= v
  BY <1>7, <1>10, <1>11, <1>12, <1>13
<1>16. w \in Marks_!Min(averages) .. Marks_!Max(averages)
  BY <1>3, <1>14, <1>15, Enclosed
<1> QED
  BY <1>15, <1>16 DEF averages

----------------------------------------------------------------------------------
(* A better mark: neither the average nor the GPA is lower, nor the risk higher *)

\* One sheet of marks improves on another: of the same activities, with no mark below.
Improves(bet, res) ==
  /\ WithinMaximum(res) /\ WithinMaximum(bet)
  /\ \A x \in Tasks :
       /\ bet[x].made = res[x].made /\ bet[x].final = res[x].final
       /\ bet[x].absent = res[x].absent
       /\ bet[x].score = NoScore <=> res[x].score = NoScore
       /\ res[x].score # NoScore => Marks_!Mark(res, x) <= Marks_!Mark(bet, x)

LEMMA BetterImproves ==
  ASSUME NEW res, WithinMaximum(res), NEW a \in Tasks, res[a].score # NoScore,
         NEW b \in Nat, b > res[a].score, b <= Marks_!Maximum(res, a),
         NEW bet, bet = [res EXCEPT ![a].score = b]
  PROVE  Improves(bet, res)
<1>1. res \in [Tasks -> Sheet]
  BY DEF WithinMaximum
<1>2. /\ bet \in [Tasks -> Sheet]
      /\ \A x \in Tasks : x # a => bet[x] = res[x]
      /\ bet[a].score = b /\ bet[a].max = res[a].max /\ bet[a].made = res[a].made
      /\ bet[a].final = res[a].final /\ bet[a].absent = res[a].absent
  <2>1. bet = [res EXCEPT ![a] = [res[a] EXCEPT !.score = b]]
    OBVIOUS
  <2>2. \A r \in Sheet : LET n == [r EXCEPT !.score = b] IN
          /\ n \in Sheet /\ n.score = b /\ n.max = r.max /\ n.made = r.made
          /\ n.final = r.final /\ n.absent = r.absent
    BY DEF Sheet
  <2> QED
    BY <1>1, <2>1, <2>2
<1>3. \A x \in Tasks : Marks_!Maximum(bet, x) = Marks_!Maximum(res, x)
  BY <1>2 DEF Marks_!Maximum
<1>4. WithinMaximum(bet)
  BY <1>2, <1>3 DEF WithinMaximum
<1>5. \A x \in Tasks : x # a => Marks_!Mark(bet, x) = Marks_!Mark(res, x)
  BY <1>2, <1>3 DEF Marks_!Mark
<1>6. Marks_!Mark(res, a) <= Marks_!Mark(bet, a)
  <2>1. PICK m \in Nat \ {0} : m = Marks_!Maximum(res, a)
    BY MarkIs
  <2>2. PICK s \in Nat : s = res[a].score
    BY MarkIs
  <2>3. PICK q \in Nat : q = Marks_!Unit \div m
    <3>1. Marks_!Unit \div m \in Nat
      BY DEF Marks_!Unit
    <3> QED
      BY <3>1
  <2>4. Marks_!Mark(res, a) = s * 20 * q /\ Marks_!Mark(bet, a) = b * 20 * q
    BY <1>2, <1>3, <2>1, <2>2, <2>3 DEF Marks_!Mark
  <2>5. s * 20 * q <= b * 20 * q
    BY <2>2
  <2> QED
    BY <2>4, <2>5
<1>7. ASSUME NEW x \in Tasks, x # a, res[x].score # NoScore
      PROVE  Marks_!Mark(res, x) <= Marks_!Mark(bet, x)
  <2>1. PICK i \in Nat : i = Marks_!Mark(res, x)
    BY <1>7, MarkIs
  <2>2. Marks_!Mark(bet, x) = Marks_!Mark(res, x)
    BY <1>5, <1>7
  <2>3. i <= i
    OBVIOUS
  <2> QED
    BY <2>1, <2>2, <2>3
<1>8. b # NoScore
  BY MarksAreTyped
<1> QED
  BY <1>2, <1>4, <1>6, <1>7, <1>8 DEF Improves

LEMMA SameActivities ==
  ASSUME NEW res, NEW bet, Improves(bet, res), NEW A \in SUBSET Tasks
  PROVE  /\ Marks_!Usable(bet, A) = Marks_!Usable(res, A)
         /\ Marks_!Scored(bet, A) = Marks_!Scored(res, A)
         /\ \A x \in A : bet[x].absent = res[x].absent
BY DEF Improves, Marks_!Usable, Marks_!Scored

\* A better sheet has no lower average.
LEMMA AverageRises ==
  ASSUME NEW res, NEW bet, Improves(bet, res), NEW A, AllScored(res, A), A # {}
  PROVE  AllScored(bet, A) /\ Marks_!Average(res, A) <= Marks_!Average(bet, A)
<1>1. WithinMaximum(res) /\ WithinMaximum(bet) /\ AllScored(bet, A)
  BY DEF Improves, AllScored
<1>2. ASSUME NEW x \in A PROVE Worth(res)[x] <= 1 * Worth(bet)[x]
  <2>1. x \in Tasks /\ res[x].score # NoScore /\ bet[x].score # NoScore
    BY <1>1 DEF AllScored
  <2>2. PICK i \in Nat, j \in Nat :
          i = Marks_!Mark(res, x) /\ j = Marks_!Mark(bet, x) /\ i <= j
    BY <1>1, <2>1, MarkIs DEF Improves
  <2>3. PICK c \in Nat : c = Coefficient[x]
    BY <2>1, MarksAreTyped
  <2>4. Worth(res)[x] = i * c /\ Worth(bet)[x] = j * c
    BY <2>1, <2>2, <2>3 DEF Worth
  <2>5. i * c <= j * c /\ j * c \in Nat
    BY <2>2
  <2> QED
    BY <2>4, <2>5
<1>3. \A x \in A : Worth(res)[x] \in Nat /\ Worth(bet)[x] \in Nat
  BY <1>1, WorthIs DEF AllScored
<1>4. PICK w \in Nat, v \in Nat, c \in Nat :
        w = SumOf(Worth(res), A) /\ v = SumOf(Worth(bet), A) /\ c = SumOf(Coefficient, A)
  BY <1>1, AverageIs
<1>5. IsFiniteSet(A)
  BY <1>1, AverageIs
<1>6. w <= 1 * v
  <2>1. 1 \in Nat
    OBVIOUS
  <2>2. SumOf(Worth(res), A) <= 1 * SumOf(Worth(bet), A)
    BY <1>2, <1>3, <1>5, <2>1, SumOfBelow
  <2> QED
    BY <1>4, <2>2
<1>7. w * c <= v * c
  BY <1>6
<1> QED
  BY <1>1, <1>4, <1>7, AveragesInOrder

\* Nor a higher risk.
Counted(res, A) == {a \in Marks_!Scored(res, A) : ~res[a].absent}
Total(res, A) == SumOf([a \in Counted(res, A) |-> Marks_!Mark(res, a)], Counted(res, A))
RiskOf(total, number) ==
  IF total < 10 * number * Marks_!Unit THEN 45
  ELSE IF total < 12 * number * Marks_!Unit THEN 25 ELSE 0

LEMMA RiskIs ==
  ASSUME NEW res, NEW A
  PROVE  Marks_!Risk(res, A)
           = IF Counted(res, A) = {} THEN 10
             ELSE RiskOf(Total(res, A), Cardinality(Counted(res, A)))
<1>1. Marks_!SumOf([a \in Counted(res, A) |-> Marks_!Mark(res, a)], Counted(res, A))
        = Total(res, A)
  BY SameSum DEF Total
<1>2. Marks_!Cardinality(Counted(res, A)) = Cardinality(Counted(res, A))
  BY DEF Marks_!Cardinality, Cardinality
<1> QED
  BY <1>1, <1>2 DEF Marks_!Risk, RiskOf, Counted

LEMMA RiskFalls ==
  ASSUME NEW res, NEW bet, Improves(bet, res), NEW A \in SUBSET Tasks
  PROVE  Marks_!Risk(bet, A) <= Marks_!Risk(res, A)
<1>1. PICK B \in SUBSET Tasks : /\ B = Counted(res, A) /\ B = Counted(bet, A)
                                /\ \A x \in B : res[x].score # NoScore
  <2>1. Counted(res, A) = Counted(bet, A)
    BY SameActivities DEF Counted, Marks_!Scored
  <2>2. Counted(res, A) \in SUBSET Tasks /\ \A x \in Counted(res, A) : res[x].score # NoScore
    BY DEF Counted, Marks_!Scored
  <2> QED
    BY <2>1, <2>2
<1>2. IsFiniteSet(B)
  BY MarksAreTyped, FS_Subset
<1>3. PICK k \in Nat : k = Cardinality(B)
  BY <1>2, FS_CardinalityType
<1>4. PICK f,
          g : /\ f = [x \in B |-> Marks_!Mark(res, x)] /\ g = [x \in B |-> Marks_!Mark(bet, x)]
  OBVIOUS
<1>5. \A x \in B : f[x] \in Nat /\ g[x] \in Nat /\ f[x] <= 1 * g[x]
  <2>1. ASSUME NEW x \in B PROVE f[x] \in Nat /\ g[x] \in Nat /\ f[x] <= 1 * g[x]
    <3>1. x \in Tasks /\ res[x].score # NoScore /\ bet[x].score # NoScore
      BY <1>1 DEF Improves
    <3>2. Marks_!Mark(res, x) \in Nat /\ Marks_!Mark(bet, x) \in Nat
      BY <3>1, MarkIs DEF Improves
    <3>3. Marks_!Mark(res, x) <= Marks_!Mark(bet, x)
      BY <3>1 DEF Improves
    <3> QED
      BY <1>4, <3>2, <3>3
  <2> QED
    BY <2>1
<1>6. PICK t \in Nat, u \in Nat : t = Total(res, A) /\ u = Total(bet, A) /\ t <= u
  <2>1. SumOf(f, B) \in Nat /\ SumOf(g, B) \in Nat
    BY <1>2, <1>5, SumOfNat
  <2>2. 1 \in Nat
    OBVIOUS
  <2>3. SumOf(f, B) <= 1 * SumOf(g, B)
    BY <1>2, <1>5, <2>2, SumOfBelow
  <2>4. SumOf(f, B) = Total(res, A) /\ SumOf(g, B) = Total(bet, A)
    BY <1>1, <1>4 DEF Total
  <2> QED
    BY <2>1, <2>3, <2>4
<1>7. RiskOf(u, k) <= RiskOf(t, k)
  <2>1. PICK i \in Nat, j \in Nat : i = 10 * k * 10000 /\ j = 12 * k * 10000
    OBVIOUS
  <2>2. RiskOf(u, k) = IF u < i THEN 45 ELSE IF u < j THEN 25 ELSE 0
    BY <2>1 DEF RiskOf, Marks_!Unit
  <2>3. RiskOf(t, k) = IF t < i THEN 45 ELSE IF t < j THEN 25 ELSE 0
    BY <2>1 DEF RiskOf, Marks_!Unit
  <2> QED
    BY <1>6, <2>2, <2>3
<1>8. Marks_!Risk(bet, A) = IF B = {} THEN 10 ELSE RiskOf(u, k)
  BY <1>1, <1>3, <1>6, RiskIs
<1>9. Marks_!Risk(res, A) = IF B = {} THEN 10 ELSE RiskOf(t, k)
  BY <1>1, <1>3, <1>6, RiskIs
<1> QED
  BY <1>7, <1>8, <1>9

\* A scale without holes or overlaps has one band for each percentage, the first that begins
\* no higher, and its points are in its order.
FirstBand(scale, p, i) ==
  /\ i \in DOMAIN scale /\ scale[i].min <= p
  /\ \A j \in DOMAIN scale : scale[j].min <= p => i <= j

LEMMA SoundScaleIs ==
  ASSUME NEW scale \in Marks_!SoundScales
  PROVE  /\ DOMAIN scale = 1 .. Len(scale) /\ Len(scale) \in Nat \ {0}
         /\ \A i \in DOMAIN scale :
              scale[i].min \in Nat /\ scale[i].max \in Nat /\ scale[i].point \in Nat
         /\ scale[1].max = 10000 /\ scale[Len(scale)].min = 0
         /\ \A i \in 1 .. Len(scale) - 1 :
              scale[i].min = scale[i + 1].max + 1 /\ scale[i].point >= scale[i + 1].point
<1>1. scale \in Seq(Marks_!Bands)
  <2>1. Marks_!GradingConstants
    BY GradesAssumption
  <2>2. scale \in Scales
    BY DEF Marks_!SoundScales
  <2> QED
    BY Zenon, <2>1, <2>2 DEF Marks_!GradingConstants
<1>2. /\ scale # <<>>
      /\ \A i \in DOMAIN scale : {scale[i].min, scale[i].max, scale[i].point} \subseteq Nat
      /\ scale[1].max = 10000 /\ scale[Len(scale)].min = 0
      /\ \A i \in 1 .. Len(scale) - 1 :
           scale[i].min = scale[i + 1].max + 1 /\ scale[i].point >= scale[i + 1].point
  BY DEF Marks_!SoundScales
<1>3. DOMAIN scale = 1 .. Len(scale) /\ Len(scale) \in Nat \ {0}
  BY <1>1, <1>2
<1> QED
  BY <1>2, <1>3

LEMMA BandIs ==
  ASSUME NEW scale \in Marks_!SoundScales, NEW p \in Nat, p <= 10000
  PROVE  FirstBand(scale, p, Marks_!Band(scale, p))
<1>1. PICK n \in Nat \ {0} : /\ n = Len(scale) /\ DOMAIN scale = 1 .. n
  BY SoundScaleIs
<1>2. /\ \A i \in 1 .. n : scale[i].min \in Nat /\ scale[i].max \in Nat
      /\ scale[1].max = 10000 /\ scale[n].min = 0
      /\ \A i \in 1 .. n - 1 : scale[i].min = scale[i + 1].max + 1
  BY <1>1, SoundScaleIs
<1>3. PICK Low \in SUBSET Nat : Low = {i \in 1 .. n : scale[i].min <= p}
  <2> DEFINE L == {i \in 1 .. n : scale[i].min <= p}
  <2>1. L \in SUBSET Nat
    OBVIOUS
  <2>2. \E Low \in SUBSET Nat : Low = L
    <3> HIDE DEF L
    <3> QED
      BY <2>1
  <2> QED
    BY <2>2
<1>4. n \in Low
  BY <1>2, <1>3
<1>5. PICK i \in Low : \A j \in Low : i <= j
  BY <1>4, LeastNumber
<1>6. i \in 1 .. n /\ scale[i].min <= p
  BY <1>3
<1>7. p <= scale[i].max
  <2>1. CASE i = 1
    BY <1>2, <2>1
  <2>2. CASE i # 1
    <3>1. i - 1 \in 1 .. n - 1 /\ (i - 1) + 1 = i /\ i - 1 \in 1 .. n
      BY <1>6, <2>2
    <3>2. i - 1 \notin Low
      BY <1>5, <1>6
    <3>3. ~(scale[i - 1].min <= p)
      BY <1>3, <3>1, <3>2
    <3>4. scale[i - 1].min = scale[i].max + 1 /\ scale[i - 1].min \in Nat
              /\ scale[i].max \in Nat
      BY <1>2, <1>6, <3>1
    <3> QED
      BY <3>3, <3>4
  <2> QED
    BY <2>1, <2>2
<1>8. PICK fits \in SUBSET Nat : fits = {j \in DOMAIN scale : Marks_!Holds(scale[j], p)}
  <2>1. DOMAIN scale \in SUBSET Nat
    BY <1>1
  <2> DEFINE F == {j \in DOMAIN scale : Marks_!Holds(scale[j], p)}
  <2>2. F \in SUBSET Nat
    BY <2>1
  <2>3. \E fits \in SUBSET Nat : fits = F
    <3> HIDE DEF F
    <3> QED
      BY <2>2
  <2> QED
    BY <2>3
<1>9. i \in fits
  BY <1>1, <1>6, <1>7, <1>8 DEF Marks_!Holds
<1>10. fits \subseteq Low
  <2>1. ASSUME NEW j \in fits PROVE j \in Low
    <3>1. j \in 1 .. n /\ Marks_!Holds(scale[j], p)
      BY <1>1, <1>8
    <3>2. scale[j].min # NoScore
      BY <1>2, <3>1, MarksAreTyped
    <3>3. scale[j].min <= p
      BY <1>2, <3>1, <3>2 DEF Marks_!Holds
    <3> QED
      BY <1>3, <3>1, <3>3
  <2> QED
    BY <2>1
<1>11. Marks_!Min(fits) = i
  <2>1. \A j \in fits : i <= j
    BY <1>5, <1>10
  <2> QED
    BY <1>9, <2>1, MinimumOf
<1>12. Marks_!Band(scale, p) = i
  <2>1. p # NoScore
    BY MarksAreTyped
  <2> QED
    BY <1>8, <1>9, <1>11, <2>1 DEF Marks_!Band
<1> QED
  BY <1>1, <1>3, <1>5, <1>6, <1>12 DEF FirstBand

LEMMA PointsInOrder ==
  ASSUME NEW scale \in Marks_!SoundScales, NEW i \in DOMAIN scale, NEW j \in DOMAIN scale,
      i <= j
  PROVE  scale[j].point <= scale[i].point
<1>1. PICK n \in Nat \ {0} : /\ n = Len(scale) /\ DOMAIN scale = 1 .. n
  BY SoundScaleIs
<1>2. /\ \A k \in 1 .. n : scale[k].point \in Nat
      /\ \A k \in 1 .. n - 1 : scale[k].point >= scale[k + 1].point
  <2>1. \A k \in DOMAIN scale : scale[k].point \in Nat
    BY SoundScaleIs
  <2>2. \A k \in 1 .. Len(scale) - 1 : scale[k].point >= scale[k + 1].point
    BY SoundScaleIs
  <2> QED
    BY <1>1, <2>1, <2>2
<1>3. PICK Bad \in SUBSET Nat :
        Bad = {k \in 1 .. n : i <= k /\ ~(scale[k].point <= scale[i].point)}
  <2>1. {k \in 1 .. n : i <= k /\ ~(scale[k].point <= scale[i].point)} \in SUBSET Nat
    OBVIOUS
  <2> QED
    BY <2>1
<1>4. SUFFICES ASSUME Bad # {} PROVE FALSE
  BY <1>1, <1>3
<1>5. PICK k \in Bad : \A l \in Bad : k <= l
  BY <1>4, LeastNumber
<1>6. k \in 1 .. n /\ i \in 1 .. n /\ i <= k /\ ~(scale[k].point <= scale[i].point)
  BY <1>1, <1>3
<1>7. k # i
  BY <1>2, <1>6
<1>8. k - 1 \in 1 .. n - 1 /\ k - 1 \in 1 .. n /\ i <= k - 1 /\ (k - 1) + 1 = k
  BY <1>6, <1>7
<1>9. k - 1 \notin Bad
  BY <1>5, <1>6
<1>10. scale[k - 1].point <= scale[i].point
  BY <1>3, <1>8, <1>9
<1>11. scale[k - 1].point >= scale[k].point
  BY <1>2, <1>8
<1>12. scale[k - 1].point \in Nat /\ scale[k].point \in Nat /\ scale[i].point \in Nat
  BY <1>2, <1>6, <1>8
<1> QED
  BY <1>6, <1>10, <1>11, <1>12

\* A higher percentage has no later band, and a higher average no lower point.
LEMMA BandsInOrder ==
  ASSUME NEW scale \in Marks_!SoundScales, NEW p \in Nat, NEW q \in Nat, p <= q, q <= 10000
  PROVE  /\ Marks_!Band(scale, p) \in DOMAIN scale /\ Marks_!Band(scale, q) \in DOMAIN scale
         /\ Marks_!Band(scale, q) <= Marks_!Band(scale, p)
<1>1. PICK i : i = Marks_!Band(scale, p) /\ FirstBand(scale, p, i)
  BY BandIs
<1>2. PICK j : j = Marks_!Band(scale, q) /\ FirstBand(scale, q, j)
  BY BandIs
<1>3. scale[i].min \in Nat /\ scale[i].min <= p
  BY <1>1, SoundScaleIs DEF FirstBand
<1>4. scale[i].min <= q
  BY <1>3
<1> QED
  BY <1>1, <1>2, <1>4 DEF FirstBand

LEMMA PointIs ==
  ASSUME NEW scale \in Marks_!SoundScales, NEW v \in Nat, v <= 2000
  PROVE  /\ Marks_!Point(scale, v) = scale[Marks_!Band(scale, v * 5)].point
         /\ Marks_!Point(scale, v) \in Nat
<1>1. PICK p \in Nat : p = v * 5 /\ p <= 10000
  OBVIOUS
<1>2. Marks_!Percent(v) = p
  BY <1>1, MarksAreTyped DEF Marks_!Percent
<1>3. PICK i : i = Marks_!Band(scale, p) /\ i \in DOMAIN scale
  BY <1>1, BandIs DEF FirstBand
<1>4. i # 0 /\ scale[i].point \in Nat
  BY <1>3, SoundScaleIs
<1> QED
  BY <1>1, <1>2, <1>3, <1>4 DEF Marks_!Point

LEMMA PointRises ==
  ASSUME NEW scale \in Marks_!SoundScales, NEW u \in Nat, NEW v \in Nat, u <= v, v <= 2000
  PROVE  Marks_!Point(scale, u) <= Marks_!Point(scale, v)
<1>1. PICK p \in Nat, q \in Nat : p = u * 5 /\ q = v * 5 /\ p <= q /\ q <= 10000
  OBVIOUS
<1>2. PICK i \in DOMAIN scale, j \in DOMAIN scale :
        i = Marks_!Band(scale, p) /\ j = Marks_!Band(scale, q) /\ j <= i
  BY <1>1, BandsInOrder
<1>3. scale[i].point <= scale[j].point
  BY <1>2, PointsInOrder
<1>4. u <= 2000
  OBVIOUS
<1>5. Marks_!Point(scale, u) = scale[i].point
  BY <1>1, <1>2, <1>4, PointIs
<1>6. Marks_!Point(scale, v) = scale[j].point
  BY <1>1, <1>2, PointIs
<1> QED
  BY <1>3, <1>5, <1>6

LEMMA RatingRises ==
  ASSUME NEW scale \in Marks_!SoundScales, NEW m \in Nat \ {0}, NEW s \in Nat, NEW b \in Nat,
         s <= b, b <= m
  PROVE  Marks_!Rating(scale, b, m) <= Marks_!Rating(scale, s, m)
<1>1. PICK i \in Nat, j \in Nat, k \in Nat : i = s * 10000 /\ j = b * 10000 /\ k = 10000
  OBVIOUS
<1>2. i * m <= j * m /\ j <= k * m
  <2>1. i <= j
    BY <1>1
  <2>2. b * 10000 <= m * 10000 /\ 10000 * m = m * 10000
    OBVIOUS
  <2> QED
    BY <1>1, <2>1, <2>2
<1>3. PICK p \in Nat, q \in Nat : p = Marks_!HalfUp(i, m) /\ q = Marks_!HalfUp(j, m)
  BY HalfUpInOrder
<1>4. p <= q
  BY <1>2, <1>3, HalfUpInOrder
<1>5. q <= k
  BY <1>2, <1>3, HalfUpInOrder
<1>6. Marks_!Band(scale, q) <= Marks_!Band(scale, p)
  BY <1>1, <1>4, <1>5, BandsInOrder
<1> QED
  BY <1>1, <1>3, <1>6 DEF Marks_!Rating

\* On such a scale every subject has a point, and counts.
Credits(A) == [s \in Marks_!Subjects(A) |-> Marks_!CoefficientSum(Marks_!Of(A, s))]
Points(scale, res, A) ==
  [s \in Marks_!Subjects(A) |->
     Marks_!Point(scale,
         Marks_!SubjectAverage(res, A, s)) * Marks_!CoefficientSum(Marks_!Of(A, s))]

LEMMA SubjectIs ==
  ASSUME NEW res, WithinMaximum(res), NEW A, AllScored(res, A), NEW s \in Marks_!Subjects(A),
         NEW scale \in Marks_!SoundScales
  PROVE  /\ AllScored(res, Marks_!Of(A, s)) /\ Marks_!Of(A, s) # {}
         /\ Marks_!SubjectAverage(res, A, s) \in Nat
              /\ Marks_!SubjectAverage(res, A, s) <= 2000
         /\ Marks_!Point(scale, Marks_!SubjectAverage(res, A, s)) \in Nat
         /\ Credits(A)[s] \in Nat \ {0}
         /\ Points(scale, res, A)[s]
              = Marks_!Point(scale, Marks_!SubjectAverage(res, A, s)) * Credits(A)[s]
         /\ Points(scale, res, A)[s] \in Nat
<1>1. AllScored(res, Marks_!Of(A, s)) /\ Marks_!Of(A, s) # {}
  BY DEF Marks_!Subjects, Marks_!Of, AllScored
<1>2. /\ Marks_!SubjectAverage(res, A, s) \in Nat /\ Marks_!SubjectAverage(res, A, s) <= 2000
      /\ Marks_!CoefficientSum(Marks_!Of(A, s)) \in Nat \ {0}
  <2>1. PICK P : P = Marks_!Of(A, s) /\ P # {} /\ AllScored(res, P)
    BY <1>1
  <2>2. Marks_!Average(res, P) \in Nat /\ Marks_!Average(res, P) <= 2000
    BY <2>1, AverageIs
  <2>3. Marks_!CoefficientSum(P) \in Nat \ {0}
    BY <2>1, AverageIs
  <2>4. Marks_!SubjectAverage(res, A, s) = Marks_!Average(res, P)
    BY <2>1 DEF Marks_!SubjectAverage
  <2>5. Marks_!CoefficientSum(Marks_!Of(A, s)) \in Nat \ {0}
    BY <2>1, <2>3
  <2> QED
    BY <2>2, <2>4, <2>5
<1>4. Marks_!Point(scale, Marks_!SubjectAverage(res, A, s)) \in Nat
  BY <1>2, PointIs
<1>5. /\ Credits(A)[s] = Marks_!CoefficientSum(Marks_!Of(A, s))
      /\ Points(scale, res, A)[s]
           = Marks_!Point(scale, Marks_!SubjectAverage(res, A, s))
               * Marks_!CoefficientSum(Marks_!Of(A, s))
  BY DEF Credits, Points
<1>6. \A i, j \in Nat : i * j \in Nat
  OBVIOUS
<1> QED
  BY <1>1, <1>2, <1>4, <1>5, <1>6

LEMMA GpaIs ==
  ASSUME NEW res, WithinMaximum(res), NEW A, AllScored(res, A),
         NEW scale \in Marks_!SoundScales, NEW mode
  PROVE  Marks_!Gpa(mode, scale, res, A)
           = IF mode = "subject_weighted" /\ Marks_!Subjects(A) # {}
             THEN Marks_!HalfUp(SumOf(Points(scale, res, A), Marks_!Subjects(A)),
                                SumOf(Credits(A), Marks_!Subjects(A)))
             ELSE Marks_!Point(scale, Marks_!Average(res, A))
<1> DEFINE point(s) == Marks_!Point(scale, Marks_!SubjectAverage(res, A, s))
           pointed == {s \in Marks_!Subjects(A) : point(s) # NoScore}
<1>1. pointed = Marks_!Subjects(A)
  <2>1. \A s \in Marks_!Subjects(A) : point(s) # NoScore
    BY SubjectIs, MarksAreTyped
  <2> QED
    BY <2>1
<1>2. [s \in pointed |-> point(s) * Marks_!CoefficientSum(Marks_!Of(A, s))]
        = Points(scale, res, A)
  BY <1>1 DEF Points
<1>3. [s \in pointed |-> Marks_!CoefficientSum(Marks_!Of(A, s))] = Credits(A)
  BY <1>1 DEF Credits
<1>4. Marks_!Gpa(mode, scale, res, A)
        = IF mode = "subject_weighted" /\ pointed # {}
          THEN Marks_!HalfUp(
                 Marks_!SumOf([s \in pointed |->
                                 point(s) * Marks_!CoefficientSum(Marks_!Of(A, s))], pointed),
                 Marks_!SumOf([s \in pointed |-> Marks_!CoefficientSum(Marks_!Of(A, s))],
                     pointed))
          ELSE Marks_!Point(scale, Marks_!Average(res, A))
  BY DEF Marks_!Gpa
<1> HIDE DEF pointed, point
<1>5. Marks_!Gpa(mode, scale, res, A)
        = IF mode = "subject_weighted" /\ Marks_!Subjects(A) # {}
          THEN Marks_!HalfUp(Marks_!SumOf(Points(scale, res, A), Marks_!Subjects(A)),
                             Marks_!SumOf(Credits(A), Marks_!Subjects(A)))
          ELSE Marks_!Point(scale, Marks_!Average(res, A))
  BY <1>1, <1>2, <1>3, <1>4
<1> QED
  BY <1>5, SameSum

\* Nor a lower GPA.
LEMMA GpaRises ==
  ASSUME NEW res, NEW bet, Improves(bet, res), NEW A, AllScored(res, A), A # {},
         NEW scale \in Marks_!SoundScales, NEW mode
  PROVE  Marks_!Gpa(mode, scale, res, A) <= Marks_!Gpa(mode, scale, bet, A)
<1>1. WithinMaximum(res) /\ WithinMaximum(bet) /\ AllScored(bet, A)
  BY AverageRises DEF Improves
<1>2. PICK S : S = Marks_!Subjects(A)
  OBVIOUS
<1>3. IsFiniteSet(S)
  <2>1. IsFiniteSet(A)
    BY <1>1, AverageIs
  <2>2. PICK T : T = {SubjectOf[a] : a \in A}
    OBVIOUS
  <2>3. [a \in A |-> SubjectOf[a]] \in Surjection(A, T)
    BY <2>2 DEF Surjection
  <2>4. IsFiniteSet(T)
    BY <2>1, <2>3, FS_Surjection
  <2>5. S \subseteq T
    BY <1>2, <2>2 DEF Marks_!Subjects
  <2> QED
    BY <2>4, <2>5, FS_Subset
<1>4. PICK f, g, h : f = Points(scale, res, A) /\ g = Points(scale, bet, A) /\ h = Credits(A)
  OBVIOUS
<1>5. ASSUME NEW s \in S
      PROVE  /\ f[s] \in Nat /\ g[s] \in Nat /\ f[s] <= 1 * g[s]
             /\ h[s] \in Nat /\ h[s] > 0
  <2>1. PICK u \in Nat, i \in Nat, c \in Nat \ {0} :
          /\ u = Marks_!SubjectAverage(res, A, s) /\ i = Marks_!Point(scale, u)
          /\ c = h[s] /\ f[s] = i * c
    BY <1>1, <1>2, <1>4, SubjectIs
  <2>2. PICK v \in Nat, j \in Nat :
          /\ v = Marks_!SubjectAverage(bet, A, s) /\ v <= 2000 /\ j = Marks_!Point(scale, v)
          /\ g[s] = j * c
    BY <1>1, <1>2, <1>4, <2>1, SubjectIs
  <2>3. u <= v
    <3>1. AllScored(res, Marks_!Of(A, s)) /\ Marks_!Of(A, s) # {}
      BY <1>1, <1>2, SubjectIs
    <3>2. Marks_!Average(res, Marks_!Of(A, s)) <= Marks_!Average(bet, Marks_!Of(A, s))
      BY <3>1, AverageRises
    <3> QED
      BY <2>1, <2>2, <3>2 DEF Marks_!SubjectAverage
  <2>4. i <= j
    BY <2>1, <2>2, <2>3, PointRises
  <2>5. i * c \in Nat /\ j * c \in Nat /\ i * c <= 1 * (j * c)
    BY <2>4
  <2> QED
    BY <2>1, <2>2, <2>5
<1>6. PICK u \in Nat : u = Marks_!Average(res, A)
  BY <1>1, AverageIs
<1>0. PICK v \in Nat : v = Marks_!Average(bet, A) /\ v <= 2000
  BY <1>1, AverageIs
<1>7. Marks_!Point(scale, u) <= Marks_!Point(scale, v)
  <2>1. u <= v
    BY <1>6, <1>0, AverageRises
  <2> QED
    BY <1>0, <2>1, PointRises
<1>8. CASE mode = "subject_weighted" /\ S # {}
  <2>1. PICK p \in Nat, q \in Nat, d \in Nat \ {0} :
          p = SumOf(f, S) /\ q = SumOf(g, S) /\ d = SumOf(h, S) /\ p <= q
    <3>1. SumOf(f, S) \in Nat /\ SumOf(g, S) \in Nat
      BY <1>3, <1>5, SumOfNat
    <3>2. SumOf(h, S) \in Nat /\ SumOf(h, S) > 0
      BY <1>3, <1>5, <1>8, SumOfNat
    <3>3. 1 \in Nat
      OBVIOUS
    <3>4. SumOf(f, S) <= 1 * SumOf(g, S)
      BY <1>3, <1>5, <3>3, SumOfBelow
    <3> QED
      BY <3>1, <3>2, <3>4
  <2>3. Marks_!HalfUp(p, d) <= Marks_!HalfUp(q, d)
    BY <2>1, HalfUpInOrder
  <2>4. Marks_!Gpa(mode, scale, res, A) = Marks_!HalfUp(p, d)
    BY <1>1, <1>2, <1>4, <1>8, <2>1, GpaIs
  <2>5. Marks_!Gpa(mode, scale, bet, A) = Marks_!HalfUp(q, d)
    BY <1>1, <1>2, <1>4, <1>8, <2>1, GpaIs
  <2> QED
    BY <2>3, <2>4, <2>5
<1>9. CASE ~(mode = "subject_weighted" /\ S # {})
  <2>1. Marks_!Gpa(mode, scale, res, A) = Marks_!Point(scale, u)
    BY <1>1, <1>2, <1>6, <1>9, GpaIs
  <2>2. Marks_!Gpa(mode, scale, bet, A) = Marks_!Point(scale, v)
    BY <1>1, <1>2, <1>0, <1>9, GpaIs
  <2> QED
    BY <1>7, <2>1, <2>2
<1> QED
  BY <1>8, <1>9

LEMMA NoneLowers == WithinMaximum(result) => Marks_!BetterIsNotLower
<1> SUFFICES ASSUME WithinMaximum(result),
                    NEW a \in Tasks, result[a].score # NoScore,
                    NEW b \in MarksEntered \ {NoScore}, b > result[a].score,
                    b <= Marks_!Maximum(result, a),
                    NEW bet, bet = [result EXCEPT ![a].score = b],
                    NEW before, before = Marks_!Usable(result, Tasks),
                    NEW after, after = Marks_!Usable(bet, Tasks)
             PROVE  /\ Marks_!Risk(bet, Marks_!InClass(ClassOf[a]))
                         <= Marks_!Risk(result, Marks_!InClass(ClassOf[a]))
                    /\ before # {} =>
                         /\ Marks_!Average(bet, after) >= Marks_!Average(result, before)
                         /\ \A scale \in Marks_!SoundScales :
                              /\ \A mode \in Marks_!Modes :
                                   Marks_!Gpa(mode, scale, bet, after)
                                     >= Marks_!Gpa(mode, scale, result, before)
                              /\ Marks_!Rating(scale, b, Marks_!Maximum(result, a))
                                   <= Marks_!Rating(scale, result[a].score,
                                                    Marks_!Maximum(result, a))
  BY DEF Marks_!BetterIsNotLower
<1>1. b \in Nat
  BY MarksAreTyped
<1>2. Improves(bet, result)
  BY <1>1, BetterImproves
<1>3. Marks_!InClass(ClassOf[a]) \in SUBSET Tasks
  BY DEF Marks_!InClass
<1>4. Marks_!Risk(bet, Marks_!InClass(ClassOf[a]))
        <= Marks_!Risk(result, Marks_!InClass(ClassOf[a]))
  BY <1>2, <1>3, RiskFalls
<1>5. after = before /\ AllScored(result, before)
  <2>1. Tasks \in SUBSET Tasks
    OBVIOUS
  <2> QED
    BY <1>2, <2>1, SameActivities, UsableIs
<1>6. ASSUME before # {}
      PROVE  Marks_!Average(bet, after) >= Marks_!Average(result, before)
  <2>1. Marks_!Average(result, before) <= Marks_!Average(bet, before)
    BY <1>2, <1>5, <1>6, AverageRises
  <2> QED
    BY <1>5, <2>1
<1>7. ASSUME before # {}, NEW scale \in Marks_!SoundScales, NEW mode \in Marks_!Modes
      PROVE  Marks_!Gpa(mode, scale, bet, after) >= Marks_!Gpa(mode, scale, result, before)
  <2>1. Marks_!Gpa(mode, scale, result, before) <= Marks_!Gpa(mode, scale, bet, before)
    BY <1>2, <1>5, <1>7, GpaRises
  <2> QED
    BY <1>5, <2>1
<1>8. ASSUME NEW scale \in Marks_!SoundScales
      PROVE  Marks_!Rating(scale, b, Marks_!Maximum(result, a))
               <= Marks_!Rating(scale, result[a].score, Marks_!Maximum(result, a))
  <2>1. PICK m \in Nat \ {0}, s \in Nat : m = Marks_!Maximum(result, a) /\ s = result[a].score
    BY MarkIs
  <2>2. s <= b /\ b <= m
    BY <1>1, <2>1
  <2> QED
    BY <1>1, <2>1, <2>2, RatingRises
<1> QED
  BY <1>4, <1>6, <1>7, <1>8

----------------------------------------------------------------------------------
(* The marks: every score is within its maximum, and nobody absent has one *)

\* The entry refuses the score of an absent student.
MarksInv ==
  /\ WithinMaximum(result)
  /\ \A a \in Tasks : result[a].made /\ result[a].score # NoScore => ~result[a].absent

LEMMA MarksStep ==
  ASSUME MarksInv, [Marks_!Next]_Marks_!vars
  PROVE  MarksInv'
<1>0. result \in [Tasks -> Sheet]
  BY DEF MarksInv, WithinMaximum
<1>1. CASE UNCHANGED result
  BY <1>1 DEF MarksInv, WithinMaximum, Marks_!Maximum
<1>2. ASSUME NEW a \in Tasks, Marks_!Enter(a) PROVE MarksInv'
  <2>1. PICK score \in MarksEntered, max \in OwnMaxima, absent \in BOOLEAN :
          /\ Marks_!Entry(score, max, absent, a)
          /\ result' = [result EXCEPT ![a] = [score |-> score, max |-> max,
                          absent |-> absent, final |-> result[a].final, made |-> TRUE]]
    BY <1>2 DEF Marks_!Enter
  <2>2. PICK r \in Sheet : r = [score |-> score, max |-> max, absent |-> absent,
                               final |-> result[a].final, made |-> TRUE]
    BY <1>0, MarksAreTyped DEF Sheet
  <2>3. /\ result' \in [Tasks -> Sheet] /\ result'[a] = r
        /\ \A x \in Tasks : x # a => result'[x] = result[x]
    BY <1>0, <2>1, <2>2
  <2>4. \A x \in Tasks : x # a => Marks_!Maximum(result', x) = Marks_!Maximum(result, x)
    BY <2>3 DEF Marks_!Maximum
  <2>5. score # NoScore => ~absent /\ score <= Marks_!Maximum(result', a)
    <3>1. ASSUME score # NoScore
          PROVE  ~absent /\ score <= Marks_!Maximum(result', a)
      <4>1. /\ ~absent /\ score \in Nat
            /\ max # NoScore => max > 0 /\ score <= max
            /\ max = NoScore => score <= MaxOf[a]
        BY <2>1, <3>1, MarksAreTyped DEF Marks_!Entry
      <4>2. result'[a].max = max
        BY <2>2, <2>3
      <4>3. max # NoScore => max # 0
        BY <4>1, MarksAreTyped
      <4>4. Marks_!Maximum(result', a) = IF max # NoScore THEN max ELSE MaxOf[a]
        BY <4>2, <4>3 DEF Marks_!Maximum
      <4> QED
        BY <4>1, <4>4
    <3> QED
      BY <3>1
  <2>6. r.score = score /\ r.absent = absent
    BY <2>2
  <2>7. \A x \in Tasks : result'[x].score # NoScore =>
          result'[x].score <= Marks_!Maximum(result', x)
    BY <2>3, <2>4, <2>5, <2>6 DEF MarksInv, WithinMaximum
  <2>8. \A x \in Tasks : result'[x].made /\ result'[x].score # NoScore => ~result'[x].absent
    BY <2>3, <2>5, <2>6 DEF MarksInv
  <2> QED
    BY <2>3, <2>7, <2>8 DEF MarksInv, WithinMaximum, Marks_!Maximum
<1>3. ASSUME NEW a \in Tasks, Marks_!Move(a) PROVE MarksInv'
  <2>1. result' = [result EXCEPT ![a] = [result[a] EXCEPT !.final = TRUE]]
    BY <1>3 DEF Marks_!Move
  <2>2. \A r \in Sheet : LET n == [r EXCEPT !.final = TRUE] IN
          /\ n \in Sheet /\ n.made = r.made /\ n.score = r.score
          /\ n.absent = r.absent /\ n.max = r.max
    BY DEF Sheet
  <2>3. /\ result' \in [Tasks -> Sheet]
        /\ \A x \in Tasks : /\ result'[x].made = result[x].made
                             /\ result'[x].score = result[x].score
                             /\ result'[x].absent = result[x].absent
                             /\ result'[x].max = result[x].max
    BY <1>0, <2>1, <2>2
  <2>4. \A x \in Tasks : Marks_!Maximum(result', x) = Marks_!Maximum(result, x)
    BY <2>3 DEF Marks_!Maximum
  <2> QED
    BY <2>3, <2>4 DEF MarksInv, WithinMaximum, Marks_!Maximum
<1>4. CASE UNCHANGED Marks_!vars
  BY <1>1, <1>4 DEF Marks_!vars
<1> QED
  BY <1>1, <1>2, <1>3, <1>4 DEF Marks_!Next, Marks_!Close, Marks_!ChangeClass

LEMMA OneAverage == MarksInv => Marks_!ViewsAgree
<1> SUFFICES ASSUME MarksInv, NEW c \in Marks_!Classes
             PROVE  LET elsewhere == Marks_!Usable(result, Tasks \ Marks_!InClass(c))
                    IN /\ Marks_!ClassSummary(c) = Marks_!Bulletin(c)
                       /\ elsewhere = {} => Marks_!Calculation = Marks_!Bulletin(c)
  BY DEF Marks_!ViewsAgree
<1>1. Marks_!InClass(c) \subseteq Tasks
  BY DEF Marks_!InClass
<1>2. {a \in Marks_!Scored(result, Marks_!InClass(c)) : result[a].final}
        = Marks_!Usable(result, Marks_!InClass(c))
  BY <1>1 DEF Marks_!Usable, Marks_!Scored, MarksInv, WithinMaximum
<1>3. Marks_!Usable(result, Tasks \ Marks_!InClass(c)) = {}
        => Marks_!Usable(result, Tasks) = Marks_!Usable(result, Marks_!InClass(c))
  BY <1>1 DEF Marks_!Usable, Marks_!Scored
<1> QED
  BY <1>2, <1>3 DEF Marks_!ClassSummary, Marks_!Bulletin, Marks_!Calculation

LEMMA AllWithin == MarksInv => Marks_!WithinSubjects
<1> SUFFICES ASSUME MarksInv, NEW A, A = Marks_!Usable(result, Tasks),
                    A # {}, Marks_!Of(A, NoSubject) = {}
             PROVE  LET averages == {Marks_!SubjectAverage(result, A, s) :
                                       s \in Marks_!Subjects(A)}
                    IN Marks_!Average(result, A)
                        \in Marks_!Min(averages) .. Marks_!Max(averages)
  BY DEF Marks_!WithinSubjects
<1>1. AllScored(result, A)
  <2>1. Tasks \in SUBSET Tasks
    OBVIOUS
  <2> QED
    BY <2>1, UsableIs
<1> QED
  BY <1>1, BetweenSubjects DEF MarksInv

\* Whatever was entered, corrected and moved, in any order, for any activities, weights,
\* maxima and scales: the bulletin, the summary of a class and the calculation of the period
\* show one average of a student; it lies between those of the subjects; and a better score
\* lowers neither it nor the GPA nor its rating, and does not raise the risk
\* (services/evaluation_engine.py, services/pedagogy_engine.py, api/evaluation.py).
THEOREM MarksHold == GradesSpec => []MarksAddUp
<1>1. GradesInit => MarksInv
  <2>1. ASSUME GradesInit PROVE MarksInv
    <3>1. /\ result \in [Tasks -> Sheet]
          /\ \A a \in Tasks : result[a].score = NoScore
      BY <2>1 DEF GradesInit, Marks_!Init, Marks_!NoResult, Sheet
    <3> QED
      BY <3>1 DEF MarksInv, WithinMaximum
  <2> QED
    BY <2>1
<1>2. MarksInv /\ [GradesNext]_<<vars, marks, content, teachers, part>>
        => MarksInv'
  BY MarksStep, GradesSteps
<1>3. MarksInv => MarksAddUp
  BY OneAverage, AllWithin, NoneLowers DEF MarksAddUp, MarksInv
<1> QED
  BY <1>1, <1>2, <1>3, PTL DEF GradesSpec
=================================================================================
