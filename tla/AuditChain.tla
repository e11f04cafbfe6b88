-------------------------------- MODULE AuditChain --------------------------------
(* The audit log of a school as a chain: log_action of app/services/audit.py and      *)
(* audit_chain_digest and verify_audit_chain of app/services/cloud.py.  A digest is   *)
(* modelled by what it is computed from: two are equal when these are.  A writer reads*)
(* the last committed line, its own is given an identifier, then committed.           *)
EXTENDS Integers, FiniteSets

CONSTANTS
  Writers,
  Schools,
  Actions,          \* what a line says
  Checked,          \* the number of lines that a verification reads
  MaxLines          \* bound: lines ever written

VARIABLES
  lines,            \* lines[i]: the committed line i, or NoLine
  nextId,
  writer,           \* writer[w]: the line that w is making
  crossed,          \* history: schools of which two writers were at work at once
  touched,          \* history: schools in whose lines someone changed something by hand
  altered, removed  \* history: lines changed; <<taken out, the line that followed it>>

vars == <<lines, nextId, writer, crossed, touched, altered, removed>>

AuditConstants == Checked \in Nat \ {0} /\ MaxLines \in Nat

Ids == 1..MaxLines
NoLine == [school |-> "none"]
Idle == [at |-> "idle"]

\* A line of before the chain was introduced has no digest.
Legacy(s, a) == [school |-> s, action |-> a, previous |-> <<>>, digest |-> <<>>]

TypeOK ==
  /\ nextId \in 1..(MaxLines + 1)
  /\ \A i \in Ids : lines[i] = NoLine \/ (lines[i].school \in Schools /\ i < nextId)
  /\ crossed \subseteq Schools /\ touched \subseteq Schools
  /\ altered \subseteq Ids /\ removed \subseteq Ids \X Ids

Init ==
  /\ \E old \in [{1} -> {NoLine} \cup {Legacy(s, a) : s \in Schools, a \in Actions}] :
       lines = [i \in Ids |-> IF i = 1 THEN old[i] ELSE NoLine]
  /\ nextId = 2
  /\ writer = [w \in Writers |-> Idle]
  /\ crossed = {} /\ touched = {} /\ altered = {} /\ removed = {}

----------------------------------------------------------------------------------
LinesOf(s) == {i \in Ids : lines[i] # NoLine /\ lines[i].school = s}
Before(s, i) == {j \in LinesOf(s) : j < i}
Last(S) == CHOOSE i \in S : \A j \in S : j <= i
First(S) == CHOOSE i \in S : \A j \in S : i <= j

\* What the next line refers to: the digest of the last one, or its number, or nothing.
LinkTo_NoLegacy(S) ==
  IF S = {} \/ lines[Last(S)].digest = <<>> THEN <<"GENESIS">> ELSE lines[Last(S)].digest
LinkTo(S) ==
  IF S = {} THEN <<"GENESIS">>
  ELSE IF lines[Last(S)].digest = <<>> THEN <<"LEGACY", Last(S)>>
  ELSE lines[Last(S)].digest

\* audit_chain_digest
Digest_NoContent(i, s, a, previous) == <<i, s, previous>>
Digest(i, s, a, previous) == <<i, s, a, previous>>

\* log_action: the last committed line is read ...
Read(w, s, a) ==
  /\ writer[w] = Idle /\ nextId <= MaxLines
  /\ writer' = [writer EXCEPT ![w] =
       [at |-> "read", school |-> s, action |-> a, previous |-> LinkTo(LinesOf(s))]]
  /\ crossed' = IF \E v \in Writers : writer[v] # Idle /\ writer[v].school = s
                THEN crossed \cup {s} ELSE crossed
  /\ UNCHANGED <<lines, nextId, touched, altered, removed>>

\* ... flush gives the new one its identifier ...
Flush(w) ==
  /\ writer[w].at = "read" /\ nextId <= MaxLines
  /\ nextId' = nextId + 1
  /\ writer' = [writer EXCEPT ![w] =
       [at |-> "flushed", school |-> @.school, action |-> @.action, previous |-> @.previous,
        id |-> nextId]]
  /\ UNCHANGED <<lines, crossed, touched, altered, removed>>

\* ... and the digest is committed with it.
Commit(w) ==
  LET r == writer[w] IN
  /\ r.at = "flushed"
  /\ lines' = [lines EXCEPT ![r.id] =
       [school |-> r.school, action |-> r.action, previous |-> r.previous,
        digest |-> Digest(r.id, r.school, r.action, r.previous)]]
  /\ writer' = [writer EXCEPT ![w] = Idle]
  /\ UNCHANGED <<nextId, crossed, touched, altered, removed>>

\* The transaction is rolled back: the identifier is lost.
RollBack(w) ==
  /\ writer[w] # Idle /\ writer' = [writer EXCEPT ![w] = Idle]
  /\ UNCHANGED <<lines, nextId, crossed, touched, altered, removed>>

\* Someone changes the table by hand.
Touch(i) == lines[i] # NoLine /\ touched' = touched \cup {lines[i].school}
Alter(i, a) ==
  /\ Touch(i) /\ lines[i].action # a
  /\ i \notin altered /\ altered' = altered \cup {i}
  /\ lines' = [lines EXCEPT ![i].action = a]
  /\ UNCHANGED <<nextId, writer, crossed, removed>>
After(i) == {j \in LinesOf(lines[i].school) : j > i}
Remove(i) ==
  /\ Touch(i)
  /\ lines' = [lines EXCEPT ![i] = NoLine]
  /\ removed' = IF After(i) = {} THEN removed ELSE removed \cup {<<i, First(After(i))>>}
  /\ UNCHANGED <<nextId, writer, crossed, altered>>

Next ==
  \/ \E w \in Writers :
       \/ \E s \in Schools, a \in Actions : Read(w, s, a)
       \/ Flush(w) \/ Commit(w) \/ RollBack(w)
  \/ \E i \in Ids : Remove(i) \/ \E a \in Actions : Alter(i, a)

Spec == Init /\ [][Next]_vars

----------------------------------------------------------------------------------
(* verify_audit_chain: the first lines by number, each against the one before it      *)
Verified(s) == {i \in LinesOf(s) : Cardinality(Before(s, i)) < Checked}
Sound(s, i) ==
  LET l == lines[i] IN
  \/ l.digest = <<>>
  \/ /\ l.previous = LinkTo(Before(s, i))
     /\ l.digest = Digest(i, s, l.action, LinkTo(Before(s, i)))
Valid(s) == \A i \in Verified(s) : Sound(s, i)

\* The verification finds nothing in a log that nobody touched, as long as no two lines of
\* the school were being written at once; what other schools do, what is rolled back and
\* what was written before the chain makes no difference.
UntouchedIsValid == \A s \in Schools \ (crossed \cup touched) : Valid(s)

\* Among the lines that it reads, and but for those before the chain, it finds one that was
\* changed, and one that is missing before one that is there.
TouchingShows ==
  \A s \in Schools \ crossed :
    \A i \in Verified(s) :
      (lines[i].digest # <<>> /\ (i \in altered \/ \E g \in Ids : <<g, i>> \in removed))
        => ~Valid(s)
===================================================================================
