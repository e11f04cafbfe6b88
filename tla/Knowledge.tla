-------------------------------- MODULE Knowledge --------------------------------
(* The documents that the assistant answers from: app/services/ai_knowledge.py and   *)
(* app/api/ai_knowledge.py, in one school.  A text is kept once; documents of one     *)
(* title are versions of each other.  A request loads the document and its versions,  *)
(* and commits the columns that it has changed; others run in between.                *)
EXTENDS Integers, FiniteSets

CONSTANTS
  Requests,
  Texts, Titles,       \* what may be indexed, and under which titles
  NoRow,
  MaxCalls             \* bound: requests

VARIABLES
  document,            \* document[x]: the row of text x: title, status, active
  ingested,            \* history: texts of a title that came since one was last published by hand
  crossed,             \* history: crossed[t], two requests on title t were under way at once
  calls, work          \* work[r]: what request r has loaded

vars == <<document, ingested, crossed, calls, work>>

KnowledgeConstants == IsFiniteSet(Texts) /\ MaxCalls \in Nat

Statuses == {"draft", "review", "published", "archived"}
Documents == [title : Titles, status : Statuses, active : BOOLEAN]
Idle == [op |-> "none"]

TypeOK ==
  /\ document \in [Texts -> Documents \cup {NoRow}]
  /\ ingested \in [Titles -> Nat] /\ crossed \in [Titles -> BOOLEAN]
  /\ calls \in 0..MaxCalls

Init ==
  /\ document = [x \in Texts |-> NoRow]
  /\ ingested = [t \in Titles |-> 0] /\ crossed = [t \in Titles |-> FALSE]
  /\ calls = 0 /\ work = [r \in Requests |-> Idle]

----------------------------------------------------------------------------------
Indexed == {x \in Texts : document[x] # NoRow}
Versions(t) == {x \in Indexed : document[x].title = t}
Busy(t) == \E r \in Requests : work[r] # Idle /\ work[r].title = t

Begin(r, request) ==
  /\ work[r] = Idle /\ calls < MaxCalls /\ calls' = calls + 1
  /\ work' = [work EXCEPT ![r] = request]
  /\ crossed' = [crossed EXCEPT ![request.title] = @ \/ Busy(request.title)]
  /\ UNCHANGED <<document, ingested>>
Ends(r) == work' = [work EXCEPT ![r] = Idle]

\* What search reads: a document that is active and published.
Served(t) ==
  {x \in Versions(t) : document[x].active /\ document[x].status = "published"}

----------------------------------------------------------------------------------
\* ingest_document: a text that is there already is answered as it is.
\* Neither endpoint gives a status: the document is published.
BeginIngest(r, x, t) ==
  /\ x \notin Indexed
  /\ Begin(r, [op |-> "ingest", text |-> x, title |-> t])

\* uq_ai_knowledge_school_hash: of two that cross, the second fails.
Ingest(r) ==
  /\ work[r].op = "ingest" /\ Ends(r)
  /\ LET w == work[r] IN
     IF w.text \in Indexed THEN UNCHANGED <<document, ingested>>
     ELSE /\ document' = [document EXCEPT ![w.text] =
                            [title |-> w.title, status |-> "published", active |-> TRUE]]
          /\ ingested' = [ingested EXCEPT ![w.title] = @ + 1]
  /\ UNCHANGED <<crossed, calls>>

\* set_status, and set_active with what it makes of the status
BeginSet(r, x, change) ==
  /\ x \in Indexed
  /\ Begin(r, [op |-> "set", text |-> x, title |-> document[x].title, change |-> change,
               loaded |-> document])

Siblings_None(w) == {}
Siblings(w) == {y \in Texts : w.loaded[y] # NoRow /\ w.loaded[y].title = w.title} \ {w.text}

\* The rows as the request would have them.
Changed(w) ==
  [y \in Texts |->
     IF y = w.text THEN [w.loaded[y] EXCEPT !.status = w.change.status, !.active = w.change.active]
     ELSE IF w.change.active /\ y \in Siblings(w)
          THEN [w.loaded[y] EXCEPT !.active = FALSE,
                  !.status = IF w.change.archives THEN "archived" ELSE @]
          ELSE w.loaded[y]]

\* A commit writes the columns that differ from what was loaded.
Written(old, new, now) == [c \in DOMAIN now |-> IF new[c] # old[c] THEN new[c] ELSE now[c]]

Set(r) ==
  /\ work[r].op = "set" /\ Ends(r)
  /\ LET w == work[r]
         new == Changed(w)
     IN /\ document' = [y \in Texts |->
              IF w.loaded[y] = NoRow THEN document[y]
              ELSE Written(w.loaded[y], new[y], document[y])]
        /\ ingested' = IF w.change.active THEN [ingested EXCEPT ![w.title] = 0] ELSE ingested
  /\ UNCHANGED <<crossed, calls>>

\* set_status archives the other versions that it replaces, set_active leaves their status.
Changes ==
  {[status |-> s, active |-> s = "published", archives |-> TRUE] : s \in Statuses}
  \cup {[status |-> IF a THEN "published" ELSE "archived", active |-> a, archives |-> FALSE]
          : a \in BOOLEAN}

Next ==
  \E r \in Requests :
    \/ \E x \in Texts, t \in Titles : BeginIngest(r, x, t)
    \/ \E x \in Texts, c \in Changes : BeginSet(r, x, c)
    \/ Ingest(r) \/ Set(r)

Spec == Init /\ [][Next]_vars

----------------------------------------------------------------------------------
\* Once a version was published by hand, with no other request on its title at the time,
\* it is alone: what the assistant answers from besides came into the index after it.
AloneButForNew ==
  \A t \in Titles : ~crossed[t] => Cardinality(Served(t)) <= 1 + ingested[t]

\* «une seule version publiée/active par titre et établissement»; «Les anciennes versions
\* sont [...] automatiquement archivées lors de la publication d'une nouvelle version».
\* Without any crossing of requests.
OneVersion == \A t \in Titles : ~crossed[t] => Cardinality(Served(t)) <= 1
=================================================================================
