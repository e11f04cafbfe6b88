-------------------------------- MODULE Catalogue ---------------------------------
(* The school's evaluation catalogue: the frameworks of a school year with their       *)
(* domains, competencies, criteria, rating scales and appreciation rules.  The school  *)
(* edits it (api/evaluation.py) while the server runs; at every start seed.py brings   *)
(* it up to the starter content of the product before the server serves.               *)
EXTENDS Naturals, FiniteSets, FiniteSetsExt

CONSTANTS
  Years,               \* the school years there may be
  FirstYear,           \* the one seed.py creates
  Kinds,               \* (section, cycle) pairs of the starter content
  StarterDomains,      \* domain codes of the starter content, with one label each
  StarterCompetencies, \* competency codes of a starter domain
  StarterScales,       \* scale codes of the starter content
  OwnCode,             \* a code the school invents, for any row
  MaxFrameworks,       \* bound: frameworks
  MaxEdits             \* bound: calls

CatalogueConstants ==
  /\ FirstYear \in Years
  /\ OwnCode \notin StarterDomains \union StarterCompetencies \union StarterScales
  /\ MaxFrameworks \in Nat /\ MaxEdits \in Nat

VARIABLES
  catalogue,  \* the committed rows
  used,       \* criteria an activity refers to (a foreign key)
  years,      \* school years
  current,    \* those marked current
  opening,    \* for each year being created: the years its update has seen, once made
  running,    \* the server serves
  edits       \* calls made

vars == <<catalogue, used, years, current, opening, running, edits>>

Ids == 1 .. MaxFrameworks
\* "label": the name is the starter label of its domain (the one-criterion data of old).
Names == {"starter", "label", "own"}
FrameworkRow  == [id : Ids, year : Years, kind : Kinds, edited : BOOLEAN]
DomainRow     == [framework : Ids, code : StarterDomains \union {OwnCode}, edited : BOOLEAN]
CompetencyRow == [framework : Ids, domain : StarterDomains \union {OwnCode},
                  code : StarterCompetencies \union {OwnCode}, name : Names]
CriterionRow  == [framework : Ids, domain : StarterDomains \union {OwnCode},
                  competency : StarterCompetencies \union {OwnCode},
                  code : {"old", "starter", "own"}]
ScaleRow      == [framework : Ids, code : StarterScales \union {OwnCode}, edited : BOOLEAN]
RuleRow       == [framework : Ids, code : {"default", "own"}]

TypeOK ==
  /\ catalogue.frameworks \subseteq FrameworkRow
  /\ catalogue.domains \subseteq DomainRow
  /\ catalogue.competencies \subseteq CompetencyRow
  /\ catalogue.criteria \subseteq CriterionRow
  /\ catalogue.scales \subseteq ScaleRow
  /\ catalogue.rules \subseteq RuleRow
  /\ used \subseteq CriterionRow
  /\ years \subseteq Years /\ current \subseteq years
  /\ opening \in [Years -> SUBSET SUBSET Years]
  /\ running \in BOOLEAN /\ edits \in 0 .. MaxEdits

\* A new database, or one that an older version filled with one competency and one
\* criterion per domain, perhaps with activities on them.
Empty == [frameworks |-> {}, domains |-> {}, competencies |-> {},
          criteria |-> {}, scales |-> {}, rules |-> {}]
Old(pick) ==
  LET F == {pick[k] : k \in Kinds}
      code == CHOOSE c \in StarterCompetencies : TRUE
  IN [Empty EXCEPT
        !.frameworks   = {[id |-> pick[k], year |-> FirstYear, kind |-> k, edited |-> FALSE]
                            : k \in Kinds},
        !.domains      = [framework : F, code : StarterDomains, edited : {FALSE}],
        !.competencies = [framework : F, domain : StarterDomains, code : {code},
                          name : {"label"}],
        !.criteria     = [framework : F, domain : StarterDomains, competency : {code},
                          code : {"old"}]]

Init ==
  /\ \/ catalogue = Empty
     \/ \E pick \in [Kinds -> Ids] :
          /\ \A k, l \in Kinds : pick[k] = pick[l] => k = l
          /\ catalogue = Old(pick)
  /\ used \in SUBSET catalogue.criteria
  /\ years = {FirstYear} /\ current = {FirstYear}
  /\ opening = [y \in Years |-> {}]
  /\ running = FALSE /\ edits = 0

Siblings(c, row) ==
  {o \in c.competencies : o.framework = row.framework /\ o.domain = row.domain}
CriteriaOf(c, row) ==
  {k \in c.criteria : /\ k.framework = row.framework /\ k.domain = row.domain
                      /\ k.competency = row.code}
----------------------------------------------------------------------------
(* The start: seed_evaluation_frameworks and seed_appreciation_rules *)

\* The framework of each kind for year y: one of the rows there are (first() orders
\* nothing), or a new one.
Picks(c, y) ==
  {pick \in [Kinds -> Ids] :
     /\ \A k, l \in Kinds : pick[k] = pick[l] => k = l
     /\ \A k \in Kinds :
          LET rows == {f \in c.frameworks : f.year = y /\ f.kind = k}
          IN IF rows = {} THEN \A f \in c.frameworks : f.id # pick[k]
             ELSE \E f \in rows : f.id = pick[k]}

\* The old competency is recognised by its label alone.
OldStarter_LabelOnly(c, F) ==
  {row \in c.competencies : row.framework \in F /\ row.domain \in StarterDomains
                            /\ row.name = "label"}
\* "Upgrade the old one-criterion starter data": the lone competency of a starter
\* domain that bears its domain's label and has at most one criterion.
OldStarter(c, F) ==
  {row \in c.competencies :
     /\ row.framework \in F /\ row.domain \in StarterDomains
     /\ Siblings(c, row) = {row} /\ row.name = "label"
     /\ Cardinality(CriteriaOf(c, row)) <= 1}

\* The rows once the starter content has been loaded into the picked frameworks.
Seeded(c, y, pick) ==
  LET F    == {pick[k] : k \in Kinds}
      old  == OldStarter(c, F)
      left == c.competencies \ old
      bare == {fd \in F \X StarterDomains :
                 ~\E row \in left : row.framework = fd[1] /\ row.domain = fd[2]}
      fresh == bare \X StarterCompetencies
  IN [frameworks   |-> {f \in c.frameworks : f.id \notin F}
                         \union {[id |-> pick[k], year |-> y, kind |-> k, edited |-> FALSE]
                                 : k \in Kinds},
      domains      |-> {d \in c.domains : d.framework \notin F \/ d.code = OwnCode}
                         \union [framework : F, code : StarterDomains, edited : {FALSE}],
      competencies |-> left
                         \union {[framework |-> x[1][1], domain |-> x[1][2], code |-> x[2],
                                  name |-> "starter"] : x \in fresh},
      criteria     |-> (c.criteria \ UNION {CriteriaOf(c, row) : row \in old})
                         \union {[framework |-> x[1][1], domain |-> x[1][2],
                                  competency |-> x[2], code |-> "starter"] : x \in fresh},
      scales       |-> {s \in c.scales : s.framework \notin F}
                         \union [framework : F, code : StarterScales, edited : {FALSE}],
      rules        |-> c.rules
                         \union {[framework |-> f, code |-> "default"] : f \in
                                   ({g.id : g \in {h \in c.frameworks : h.year = y}} \union F)
                                     \ {r.framework : r \in c.rules}}]

\* Foreign keys are off, as SQLite leaves them.
Refused_NoForeignKeys(c, F) == FALSE
\* A criterion that an activity refers to cannot go: the whole seeding is rolled back.
Refused(c, F) ==
  \E row \in OldStarter(c, F) : CriteriaOf(c, row) \intersect used # {}

\* run_server.py: seed.run(), whose failure is a warning, then the server.
Start ==
  /\ ~running
  /\ \E y \in current : \E pick \in Picks(catalogue, y) :
       catalogue' = IF Refused(catalogue, {pick[k] : k \in Kinds}) THEN catalogue
                    ELSE Seeded(catalogue, y, pick)
  /\ running' = TRUE
  /\ UNCHANGED <<used, years, current, opening, edits>>

\* The service stops; a year that was not committed is rolled back.
Stop ==
  /\ running /\ running' = FALSE
  /\ opening' = [y \in Years |-> {}]
  /\ UNCHANGED <<catalogue, used, years, current, edits>>
----------------------------------------------------------------------------
(* The school's own edits: one committed call each *)

Edit(field, rows) ==
  /\ running /\ edits < MaxEdits /\ edits' = edits + 1
  /\ catalogue' = [catalogue EXCEPT ![field] = rows]
  /\ UNCHANGED <<used, years, current, opening, running>>

\* No constraint keeps a second framework of a kind and a year away.
CreateFramework ==
  \E id \in Ids \ {f.id : f \in catalogue.frameworks}, y \in years, k \in Kinds :
    Edit("frameworks", catalogue.frameworks
                         \union {[id |-> id, year |-> y, kind |-> k, edited |-> TRUE]})

\* _commit_config: the unique constraints answer 409.
CreateDomain ==
  \E f \in catalogue.frameworks, code \in StarterDomains \union {OwnCode} :
    /\ ~\E d \in catalogue.domains : d.framework = f.id /\ d.code = code
    /\ Edit("domains", catalogue.domains
                         \union {[framework |-> f.id, code |-> code, edited |-> TRUE]})
CreateCompetency ==
  \E d \in catalogue.domains, code \in StarterCompetencies \union {OwnCode},
     name \in {"label", "own"} :
    /\ ~\E c \in catalogue.competencies :
          c.framework = d.framework /\ c.domain = d.code /\ c.code = code
    /\ Edit("competencies", catalogue.competencies
              \union {[framework |-> d.framework, domain |-> d.code, code |-> code,
                       name |-> name]})
CreateCriterion ==
  \E c \in catalogue.competencies :
    LET row == [framework |-> c.framework, domain |-> c.domain, competency |-> c.code,
                code |-> "own"]
    IN row \notin catalogue.criteria /\ Edit("criteria", catalogue.criteria \union {row})
CreateScale ==
  \E f \in catalogue.frameworks, code \in StarterScales \union {OwnCode} :
    /\ ~\E s \in catalogue.scales : s.framework = f.id /\ s.code = code
    /\ Edit("scales", catalogue.scales
                        \union {[framework |-> f.id, code |-> code, edited |-> TRUE]})
CreateRule ==
  \E f \in catalogue.frameworks :
    LET row == [framework |-> f.id, code |-> "own"]
    IN row \notin catalogue.rules /\ Edit("rules", catalogue.rules \union {row})

Patch(field, row, new) == Edit(field, (catalogue[field] \ {row}) \union {new})
PatchRow ==
  \/ \E field \in {"frameworks", "domains", "scales"} : \E row \in catalogue[field] :
       ~row.edited /\ Patch(field, row, [row EXCEPT !.edited = TRUE])
  \/ \E row \in catalogue.competencies, name \in {"label", "own"} :
       name # row.name /\ Patch("competencies", row, [row EXCEPT !.name = name])

\* create_activity on a criterion of a framework of the class's year.
CreateActivity ==
  /\ running /\ edits < MaxEdits /\ edits' = edits + 1
  /\ \E k \in catalogue.criteria \ used : used' = used \union {k}
  /\ UNCHANGED <<catalogue, years, current, opening, running>>

\* create_academic_year(is_current): the update covers the rows it sees; on PostgreSQL
\* a year that another request commits in between keeps its mark.
ClearYears(y) ==
  /\ running /\ y \notin years /\ opening[y] = {}
  /\ opening' = [opening EXCEPT ![y] = {years}]
  /\ UNCHANGED <<catalogue, used, years, current, running, edits>>
CommitYear(y) ==
  /\ running /\ opening[y] # {}
  /\ years' = years \union {y}
  /\ current' = (current \ UNION opening[y]) \union {y}
  /\ opening' = [opening EXCEPT ![y] = {}]
  /\ UNCHANGED <<catalogue, used, running, edits>>

Next ==
  \/ Start \/ Stop
  \/ CreateFramework \/ CreateDomain \/ CreateCompetency \/ CreateCriterion
  \/ CreateScale \/ CreateRule \/ PatchRow \/ CreateActivity
  \/ \E y \in Years : ClearYears(y) \/ CommitYear(y)

Spec == Init /\ [][Next]_vars
----------------------------------------------------------------------------
(* Correctness *)

\* What a teacher has marked against keeps its criterion: no start of the server, and no
\* sequence of the school's edits before it, removes a criterion an activity refers to
\* (seed.py deletes competencies; the foreign keys of core/database.py stand behind it).
MarkedCriteriaStay == used \subseteq catalogue.criteria

\* A start settles the catalogue: whatever the school had made of it, a second start
\* right after would change nothing (seed.py runs at every start of the service).
StartsSettle ==
  \A y \in current : \A pick \in Picks(catalogue, y) :
    LET once == Seeded(catalogue, y, pick)
    IN /\ OldStarter(once, {pick[k] : k \in Kinds}) = {}
       /\ Seeded(once, y, pick) = once

\* "Une école peut adapter les seuils/points dans l'administration sans modifier le
\* code" (seed.py:214-215): a rating scale the school has adapted stays as adapted.
EditsSurvive ==
  [][\A s \in catalogue.scales : s.edited => s \in catalogue'.scales]_vars
===================================================================================
