------------------------------- MODULE Incidents -------------------------------
(* Incidents of the platform: the automation that opens and closes them from the      *)
(* server's alerts (services/incident_automation.py), the administrators who open and  *)
(* close them (services/operations_v4.py), the script that runs the automation in a    *)
(* process of its own (scripts/incident_watch.py), and the minutes of a month that     *)
(* services/sla.py counts from them.  A process remembers what it opened lately.       *)
EXTENDS Integers, Sequences, FiniteSets, FiniteSetsExt

CONSTANTS
  Requests,
  Codes,         \* of alerts, all of them of a high or critical severity
  MaxActions,    \* INCIDENT_AUTOMATION_MAX_ACTIONS
  PerMinute,     \* ticks of the clock in a minute
  Cooldown,      \* INCIDENT_AUTOMATION_COOLDOWN_SECONDS, in ticks
  Month,         \* ticks in a month
  NoCode,        \* of an incident that a person opened
  MaxTime, MaxIncidents, MaxReports, MaxStarts   \* bounds

IncidentConstants ==
  /\ NoCode \notin Codes /\ {MaxActions, PerMinute, Cooldown, Month} \subseteq Nat \ {0}
  /\ {MaxTime, MaxIncidents, MaxReports, MaxStarts} \subseteq Nat

VARIABLES
  clock,
  incident,      \* the rows: code, from, to (None while open)
  recent,        \* _last_actions[c]: the incidents of code c opened lately, and when
  work,
  born,          \* the last row there was when the process of the server started
  starts

vars == <<clock, incident, recent, work, born, starts>>

None == -1
Idle == [op |-> "none"]
Rows == DOMAIN incident
Open == {i \in Rows : incident[i].to = None}
Automatic == {i \in Rows : incident[i].code # NoCode}

TypeOK ==
  /\ clock \in 0..MaxTime /\ born \in 0..Cardinality(Rows)
  /\ Rows = 1..Cardinality(Rows)
  /\ \A i \in Rows : /\ incident[i].code \in Codes \union {NoCode}
                     /\ incident[i].from \in 0..clock /\ incident[i].to \in {None} \union 0..clock

Init ==
  /\ clock = 0 /\ born = 0 /\ starts = 0
  /\ incident = <<>>
  /\ recent = [c \in Codes |-> {}]
  /\ work = [r \in Requests |-> Idle]

\* create_incident
Row(c) == [code |-> c, from |-> clock, to |-> None]

----------------------------------------------------------------------------------
(* One call of reconcile_alerts                                                     *)

Ready(r, op) == work[r].op = op
Continue(r, session) == work' = [work EXCEPT ![r] = session]

Session(over, seen) ==
  [op |-> "open", over |-> over, seen |-> seen, left |-> over, row |-> 0,
   committed |-> FALSE]
\* When no code is left, the incidents of other codes among those that were read are closed,
\* and when none of these is left the call ends.
Closing(session) == IF session.seen = {} THEN Idle ELSE session
Opening(session) ==
  IF session.left # {} THEN session
  ELSE Closing([session EXCEPT !.op = "close", !.over = {}, !.row = 0,
                  !.seen = {i \in @ : incident[i].code \notin session.over}])

\* alert_state: which of the metrics are above their threshold is free.
Reconcile(r) ==
  /\ Ready(r, "none")
  /\ \E over \in SUBSET Codes : Continue(r, Opening(Session(over, Open \intersect Automatic)))
  /\ UNCHANGED <<clock, incident, recent, born, starts>>

\* A code without an open incident: what was opened long ago is forgotten, and a new one
\* is committed unless there are MaxActions left; then it is remembered.
Matches(r, c) == \E i \in work[r].seen : incident[i].code = c
Late(c) == {x \in recent[c] : x.at >= clock - Cooldown}
OpenAutomatic(r) ==
  /\ Ready(r, "open")
  /\ \E c \in work[r].left :
       LET session == [work[r] EXCEPT !.left = @ \ {c}] IN
       \/ /\ Matches(r, c)
          /\ Continue(r, Opening(session)) /\ UNCHANGED <<incident, recent>>
       \/ /\ ~Matches(r, c)
          /\ recent' = [recent EXCEPT ![c] = Late(c)]
          /\ \/ Cardinality(Late(c)) >= MaxActions /\ Continue(r, Opening(session)) /\ UNCHANGED incident
             \/ /\ Cardinality(Late(c)) < MaxActions /\ Cardinality(Rows) < MaxIncidents
                /\ incident' = Append(incident, Row(c))
                /\ Continue(r, [session EXCEPT !.op = "remember", !.row = Len(incident) + 1,
                                             !.committed = TRUE])
  /\ UNCHANGED <<clock, born, starts>>

Remember(r) ==
  /\ Ready(r, "remember")
  /\ LET i == work[r].row IN
       recent' = [recent EXCEPT ![incident[i].code] = @ \cup {[row |-> i, at |-> clock]}]
  /\ Continue(r, Opening([work[r] EXCEPT !.op = "open"]))
  /\ UNCHANGED <<clock, incident, born, starts>>

\* resolve_incident: a session that has committed reads the row again, any other has it as
\* it was, and closes it a second time.
Closed(S) == [i \in Rows |-> IF i \in S THEN [incident[i] EXCEPT !.to = clock] ELSE incident[i]]
Close(r) ==
  /\ Ready(r, "close")
  /\ \E i \in work[r].seen :
       /\ incident' = IF work[r].committed /\ i \notin Open THEN incident ELSE Closed({i})
       /\ Continue(r, Closing([work[r] EXCEPT !.seen = @ \ {i}, !.committed = TRUE]))
  /\ UNCHANGED <<clock, recent, born, starts>>

\* An exception in the call; none comes between the commit of an incident and the line that
\* remembers it.
Leave(r) ==
  /\ work[r].op \notin {"none", "remember"}
  /\ Continue(r, Idle)
  /\ UNCHANGED <<clock, incident, recent, born, starts>>

----------------------------------------------------------------------------------
(* What else changes incidents                                                     *)

\* POST /incidents, of a high or critical severity: the minutes of others are not counted.
Report ==
  /\ Cardinality(Rows) < MaxIncidents /\ Cardinality(Rows \ Automatic) < MaxReports
  /\ incident' = Append(incident, Row(NoCode))
  /\ UNCHANGED <<clock, recent, work, born, starts>>

\* POST /incidents/{incident_id}/resolve
ResolveRead(r, i) ==
  /\ work[r] = Idle /\ i \in Open
  /\ Continue(r, [Session({}, {i}) EXCEPT !.op = "close"])
  /\ UNCHANGED <<clock, incident, recent, born, starts>>

\* scripts/incident_watch.py: its process has served no request, so that no metric is high.
Watch ==
  /\ Open \intersect Automatic # {}
  /\ incident' = Closed(Open \intersect Automatic)
  /\ UNCHANGED <<clock, recent, work, born, starts>>

Tick ==
  /\ clock < MaxTime /\ clock' = clock + 1
  /\ UNCHANGED <<incident, recent, work, born, starts>>

Restart ==
  /\ starts < MaxStarts /\ starts' = starts + 1
  /\ recent' = [c \in Codes |-> {}]
  /\ work' = [r \in Requests |-> Idle] /\ born' = Cardinality(Rows)
  /\ UNCHANGED <<clock, incident>>

Next ==
  \/ \E r \in Requests :
       \/ Reconcile(r) \/ OpenAutomatic(r) \/ Remember(r)
       \/ Close(r) \/ Leave(r) \/ \E i \in Open : ResolveRead(r, i)
  \/ Report \/ Watch \/ Tick \/ Restart

Spec == Init /\ [][Next]_vars

----------------------------------------------------------------------------------
(* Properties                                                                     *)

\* «deduplication»: though an incident is looked for long before another is opened, there
\* are never more of one code open than requests that may look at once.
Deduplicated ==
  \A c \in Codes : Cardinality({i \in Open : incident[i].code = c}) <= Cardinality(Requests)

\* «a bounded circuit breaker»: in any Cooldown ticks a process opens MaxActions incidents
\* of a code, and beyond them those of the requests that were under way beside one.
BreakerHolds ==
  \A c \in Codes :
    Cardinality({i \in Rows : /\ i > born /\ incident[i].code = c
                              /\ incident[i].from >= clock - Cooldown})
      <= MaxActions + Cardinality(Requests) - 1

(* _incident_minutes of services/sla.py, in the month that begins at start          *)
Until(i) == IF incident[i].to = None THEN clock ELSE incident[i].to
Least(a, b) == IF a < b THEN a ELSE b
Most(a, b) == IF a < b THEN b ELSE a
InMonth(i, start) ==
  Most(0, Least(Until(i), start + Month) - Most(incident[i].from, start))
Spent(start) ==
  MapThenSumSet(LAMBDA i : InMonth(i, start), {i \in Rows : incident[i].from < start + Month})
\* round: to the nearest minute, and from the middle between two to the even one
Rounded(ticks) ==
  LET down == ticks \div PerMinute
      rest == 2 * (ticks % PerMinute)
  IN  IF rest > PerMinute \/ (rest = PerMinute /\ down % 2 = 1) THEN down + 1 ELSE down
Minutes(start) == Rounded(Spent(start))

Months == {m \in 0..MaxTime : m % Month = 0}
Counted == MapThenSumSet(Minutes, Months)
Lasted == MapThenSumSet(LAMBDA i : Until(i) - incident[i].from, Rows)

\* However incidents lie across the end of months, and whether or not they are closed, the
\* minutes of the months together are as long as the incidents lasted, but for half a minute
\* at most in each month that had any: each is rounded for itself.
MonthsAddUp ==
  LET slack == PerMinute * Cardinality({m \in Months : Spent(m) > 0})
  IN  2 * (PerMinute * Counted - Lasted) \in -slack..slack
================================================================================
