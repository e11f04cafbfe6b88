-------------------------------- MODULE Messaging --------------------------------
(* Messages to guardians: campaigns and single messages (api/communication_v3.py,   *)
(* services/communication_engine.py), actions that the assistant proposes and an    *)
(* administrator approves (services/ai_actions.py), and the other background task,  *)
(* the export of a class's bulletins (api/evaluation.py).                           *)
(*                                                                                  *)
(* A message leaves by a call to a provider; only later is its delivery committed,  *)
(* and later still what its campaign or proposal says of it.  Background tasks run  *)
(* in the server: when it stops, nothing takes them up again.                       *)
EXTENDS Integers, FiniteSets, Sequences

CONSTANTS
  Workers,                     \* threads of the server
  Campaigns, Proposals, Sends, Exports,
  Guardians, Students, NoStudent,
  Invoices, Billed,            \* [Invoices -> Students]
  Linked, Primary,             \* [Students -> SUBSET Guardians]
  Reach,                       \* [Guardians -> SUBSET {"phone", "account", "subscribed"}]
  Requested,                   \* channels that are asked for
  Wishes,                      \* preferences that a guardian may have
  Services,                    \* schools, by the functions that they use
  MaxRecipients,               \* AI_ACTION_MAX_RECIPIENTS
  MaxWishes, MaxDecisions, MaxFaults,  \* bounds
  NoRow

ChannelOrder == <<"push", "portal", "whatsapp", "sms">>
Functions == {"campaigns", "proposals", "exports"}
Letters == Guardians \X (Students \cup Invoices \cup {NoStudent})
Owners == Campaigns \cup Proposals \cup Sends

VARIABLES
  uses,        \* the functions that this school uses
  wish,        \* wish[g]: what guardian g accepts
  campaign,    \* campaign[c]: status, channel, sent_count, failed_count
  recipient,   \* recipient[c][x]
  proposal,    \* proposal[p]: status, who decided, past its expiry, result
  job,         \* job[j]: status, progress, total
  row,         \* row[o][x]: committed deliveries of letter x, by their status
  got,         \* history: got[o][x], how often letter x of o arrived
  tasks,       \* background tasks that have not begun
  begun,       \* single messages that have been asked for
  work,        \* work[w]: what thread w is doing
  hitch,       \* history: hitch[o], what went wrong or crossed for o
  wishes, decisions, faults

store == <<campaign, recipient, proposal, job, row>>
count == <<wishes, decisions, faults>>
vars == <<uses, wish, store, got, tasks, begun, work, hitch, count>>

Everything == {"transactional", "push", "whatsapp", "sms"}
Undecided(P, channel) ==
  [status |-> "proposed", letters |-> P.letters, nobody |-> P.nobody, channel |-> channel,
   approved |-> FALSE, rejected |-> FALSE, late |-> FALSE, sent |-> 0, failed |-> 0]

CampaignRow == [status : {"queued", "sending", "completed", "failed"}, channel : Requested,
                sent_count : Nat, failed_count : Nat]
ProposalRow == [status : {"proposed", "approved", "rejected", "expired", "executed"},
                letters : SUBSET Letters, nobody : Nat, channel : Requested,
                approved : BOOLEAN, rejected : BOOLEAN, late : BOOLEAN,
                sent : Nat, failed : Nat]
JobRow == [status : {"queued", "running", "completed", "failed"}, progress : Nat, total : Nat]

ASSUME MessagingAssumption ==
  /\ IsFiniteSet(Guardians) /\ IsFiniteSet(Students) /\ IsFiniteSet(Workers)
  /\ IsFiniteSet(Invoices) /\ Billed \in [Invoices -> Students]
  /\ Linked \in [Students -> SUBSET Guardians]
  /\ Primary \in [Students -> SUBSET Guardians]
  /\ Reach \in [Guardians -> SUBSET {"phone", "account", "subscribed"}]
  /\ Everything \in Wishes /\ Wishes \subseteq SUBSET Everything
  /\ Services \subseteq SUBSET Functions
  /\ MaxRecipients \in Nat \ {0}
  /\ {MaxWishes, MaxDecisions, MaxFaults} \subseteq Nat
  /\ Campaigns \cap (Proposals \cup Sends \cup Exports) = {}
  /\ Proposals \cap (Sends \cup Exports) = {} /\ Sends \cap Exports = {}
  /\ NoRow \notin CampaignRow \cup ProposalRow \cup JobRow

Idle == [op |-> "none"]
Busy(w) == work[w].op # "none"

TypeOK ==
  /\ uses \in Services
  /\ wish \in [Guardians -> Wishes]
  /\ campaign \in [Campaigns -> CampaignRow \cup {NoRow}]
  /\ recipient \in [Campaigns -> [Letters -> {"none", "pending", "sent", "failed"}]]
  /\ proposal \in [Proposals -> ProposalRow \cup {NoRow}]
  /\ job \in [Exports -> JobRow \cup {NoRow}]
  /\ \A j \in Exports : job[j] = NoRow \/ job[j].progress <= job[j].total
  /\ row \in [Owners -> [Letters -> [sent : Nat, failed : Nat]]]
  /\ got \in [Owners -> [Letters -> Nat]]
  /\ tasks \subseteq Campaigns \cup Exports /\ begun \subseteq Sends
  /\ hitch \in [Owners \cup Exports -> SUBSET {"lost", "stopped", "crossed"}]
  /\ wishes \in 0..MaxWishes /\ decisions \in 0..MaxDecisions /\ faults \in 0..MaxFaults

Init ==
  /\ uses \in Services
  /\ wish = [g \in Guardians |-> Everything]
  /\ campaign = [c \in Campaigns |-> NoRow]
  /\ recipient = [c \in Campaigns |-> [x \in Letters |-> "none"]]
  /\ proposal = [p \in Proposals |-> NoRow]
  /\ job = [j \in Exports |-> NoRow]
  /\ row = [o \in Owners |-> [x \in Letters |-> [sent |-> 0, failed |-> 0]]]
  /\ got = [o \in Owners |-> [x \in Letters |-> 0]]
  /\ tasks = {}
  /\ begun = {}
  /\ work = [w \in Workers |-> Idle]
  /\ hitch = [o \in Owners \cup Exports |-> {}]
  /\ wishes = 0 /\ decisions = 0 /\ faults = 0

----------------------------------------------------------------------------------
(* Who is written to, and by which channels                                       *)

\* _guardians_for_target: the primary contacts of each student, or all contacts.
Selected(s) == IF Primary[s] # {} THEN Primary[s] ELSE Linked[s]
Targets(S) == {x \in Guardians \X S : x[1] \in Selected(x[2])}

\* _channel_enabled, available_channels
Enabled(g, channel) ==
  /\ "transactional" \in wish[g]
  /\ channel = "portal" \/ channel \in wish[g]
Reachable(g, channel) ==
  CASE channel \in {"whatsapp", "sms"} -> "phone" \in Reach[g]
    [] channel = "push" -> {"account", "subscribed"} \subseteq Reach[g]
    [] OTHER -> TRUE
AvailableChannels(g, requested) ==
  SelectSeq(IF requested = "auto" THEN ChannelOrder ELSE <<requested>>,
            LAMBDA channel : Enabled(g, channel) /\ Reachable(g, channel))

\* The preferences are read when a delivery begins, and never again.
UpdatePreferences(g, W) ==
  /\ "campaigns" \in uses
  /\ wishes < MaxWishes /\ W # wish[g]
  /\ wish' = [wish EXCEPT ![g] = W]
  /\ wishes' = wishes + 1
  /\ UNCHANGED <<uses, store, got, tasks, begun, work, hitch, decisions, faults>>

----------------------------------------------------------------------------------
(* The delivery of one letter, by thread w for owner o                            *)

Continue(w, session) == work' = [work EXCEPT ![w] = session]

Letter(op, o, T, requested) ==
  [op |-> op, of |-> o, todo |-> T, requested |-> requested, at |-> "next",
   letter |-> NoRow, channels |-> <<>>, status |-> "failed", sent |-> 0, failed |-> 0]

At(w, place) == Busy(w) /\ work[w].op # "decide" /\ work[w].at = place

\* create_delivery: the delivery is queued in the session, not in the database.
CreateDelivery(w, x) ==
  LET channels == AvailableChannels(x[1], work[w].requested) IN
  /\ At(w, "next") /\ work[w].op # "export"
  /\ x \in work[w].todo
  /\ Continue(w, [work[w] EXCEPT !.at = IF channels = <<>> THEN "keep" ELSE "try",
                                 !.letter = x, !.channels = channels])
  /\ UNCHANGED <<uses, wish, store, got, tasks, begun, hitch, count>>

Remaining(w) == Tail(work[w].channels)
Accepted(w, status) == [work[w] EXCEPT !.at = "keep", !.status = status]
NextChannel(w) == [work[w] EXCEPT !.channels = Remaining(w),
                                  !.at = IF Remaining(w) = <<>> THEN "keep" ELSE "try"]
Arrives(w) == [got EXCEPT ![work[w].of][work[w].letter] = @ + 1]

\* _deliver_portal: a notification in the session, for those who have an account.
TryPortal(w) ==
  /\ At(w, "try") /\ Head(work[w].channels) = "portal"
  /\ Continue(w, IF "account" \in Reach[work[w].letter[1]] THEN Accepted(w, "delivered")
                 ELSE NextChannel(w))
  /\ UNCHANGED <<uses, wish, store, got, tasks, begun, hitch, count>>

\* _deliver_whatsapp: no provider yet.
TryWhatsapp(w) ==
  /\ At(w, "try") /\ Head(work[w].channels) = "whatsapp"
  /\ Continue(w, NextChannel(w))
  /\ UNCHANGED <<uses, wish, store, got, tasks, begun, hitch, count>>

\* _deliver_push, _deliver_sms: the provider accepts or refuses.
TryProvider(w) ==
  /\ At(w, "try") /\ Head(work[w].channels) \in {"push", "sms"}
  /\ \/ got' = Arrives(w) /\ Continue(w, Accepted(w, "sent"))
     \/ got' = got /\ Continue(w, NextChannel(w))
  /\ UNCHANGED <<uses, wish, store, tasks, begun, hitch, count>>

\* The call times out, but the message has left: the code takes it for a failure.
AnswerLost(w) ==
  /\ At(w, "try") /\ Head(work[w].channels) \in {"push", "sms"}
  /\ faults < MaxFaults
  /\ got' = Arrives(w)
  /\ Continue(w, NextChannel(w))
  /\ hitch' = [hitch EXCEPT ![work[w].of] = @ \cup {"lost"}]
  /\ faults' = faults + 1
  /\ UNCHANGED <<uses, wish, store, tasks, begun, wishes, decisions>>

Done_NotQueued(w) == work[w].status # "queued"
Done(w) == work[w].status \in {"sent", "delivered"}

Counting(deliveries, w) ==
  IF Done(w) THEN [deliveries EXCEPT !.sent = @ + 1] ELSE [deliveries EXCEPT !.failed = @ + 1]

\* deliver commits; what the proposal counts stays in memory, a campaign counts next.
KeepDelivery(w) ==
  LET o == work[w].of
      x == work[w].letter IN
  /\ At(w, "keep")
  /\ row' = [row EXCEPT ![o][x] = Counting(@, w)]
  /\ got' = IF work[w].status = "delivered" THEN Arrives(w) ELSE got
  /\ Continue(w, IF work[w].op = "campaign" THEN [work[w] EXCEPT !.at = "mark"]
                 ELSE [Letter(work[w].op, o, work[w].todo \ {x}, work[w].requested)
                         EXCEPT !.sent = work[w].sent + IF Done(w) THEN 1 ELSE 0,
                                !.failed = work[w].failed + IF Done(w) THEN 0 ELSE 1])
  /\ UNCHANGED <<uses, wish, campaign, recipient, proposal, job, tasks, begun, hitch, count>>

----------------------------------------------------------------------------------
(* Campaigns and single messages                                                  *)

\* create_campaign.  The task is lost when the audit line that follows fails.
CreateCampaign(c, S, channel, kept) ==
  /\ "campaigns" \in uses
  /\ campaign[c] = NoRow
  /\ Targets(S) # {}
  /\ campaign' = [campaign EXCEPT ![c] = [status |-> "queued", channel |-> channel,
                                          sent_count |-> 0, failed_count |-> 0]]
  /\ recipient' = [recipient EXCEPT ![c] =
                     [x \in Letters |-> IF x \in Targets(S) THEN "pending" ELSE "none"]]
  /\ kept \/ faults < MaxFaults
  /\ tasks' = IF kept THEN tasks \cup {c} ELSE tasks
  /\ hitch' = IF kept THEN hitch ELSE [hitch EXCEPT ![c] = {"stopped"}]
  /\ faults' = IF kept THEN faults ELSE faults + 1
  /\ UNCHANGED <<uses, wish, proposal, job, row, got, begun, work, wishes, decisions>>

\* _run_campaign, up to its loop
RunCampaign(w, c) ==
  /\ ~Busy(w) /\ c \in tasks /\ c \in Campaigns
  /\ tasks' = tasks \ {c}
  /\ campaign' = [campaign EXCEPT ![c].status = "sending"]
  /\ Continue(w, Letter("campaign", c, {x \in Letters : recipient[c][x] # "none"},
                        campaign[c].channel))
  /\ UNCHANGED <<uses, wish, recipient, proposal, job, row, got, begun, hitch, count>>

Rest_Whole(w) == work[w].todo
Rest(w) == work[w].todo \ {work[w].letter}

MarkRecipient(w) ==
  LET c == work[w].of
      x == work[w].letter IN
  /\ At(w, "mark")
  /\ recipient' = [recipient EXCEPT ![c][x] = IF Done(w) THEN "sent" ELSE "failed"]
  /\ campaign' = [campaign EXCEPT
       ![c].sent_count = IF Done(w) THEN @ + 1 ELSE @,
       ![c].failed_count = IF Done(w) THEN @ ELSE @ + 1]
  /\ Continue(w, Letter("campaign", c, Rest(w), work[w].requested))
  /\ UNCHANGED <<uses, wish, proposal, job, row, got, tasks, begun, hitch, count>>

Finished_AllSent(w) == work[w].todo = {} /\ campaign[work[w].of].failed_count = 0
Finished(w) == work[w].todo = {}

EndCampaign(w) ==
  /\ At(w, "next") /\ work[w].op = "campaign" /\ Finished(w)
  /\ campaign' = [campaign EXCEPT ![work[w].of].status = "completed"]
  /\ Continue(w, Idle)
  /\ UNCHANGED <<uses, wish, recipient, proposal, job, row, got, tasks, begun, hitch, count>>

\* send_message
SendMessage(w, m, x, channel) ==
  /\ "campaigns" \in uses
  /\ ~Busy(w) /\ m \notin begun
  /\ begun' = begun \cup {m}
  /\ Continue(w, Letter("send", m, {x}, channel))
  /\ UNCHANGED <<uses, wish, store, got, tasks, hitch, count>>

EndSend(w) ==
  /\ At(w, "next") /\ work[w].op = "send" /\ work[w].todo = {}
  /\ Continue(w, Idle)
  /\ UNCHANGED <<uses, wish, store, got, tasks, begun, hitch, count>>

----------------------------------------------------------------------------------
(* Proposals                                                                      *)

\* The letters of a proposal, and how many of its invoices have nobody to write to
Payload(T, n) == [letters |-> T, nobody |-> n]

\* _execute_communication: any guardians of the school
Communications == {Payload(G \X {NoStudent}, 0) : G \in SUBSET Guardians \ {{}}}

\* _execute_finance_reminder: for each invoice a letter, to one guardian of its student,
\* who can be reached if any can.  Two invoices of a student are two letters.
Payer(i, g) ==
  LET linked == Linked[Billed[i]] IN
  /\ g \in linked
  /\ \/ Reach[g] \cap {"phone", "account"} # {}
     \/ \A h \in linked : Reach[h] \cap {"phone", "account"} = {}
Nobody(I) == {i \in I : Linked[Billed[i]] = {}}
RemindersOf(I) ==
  LET J == I \ Nobody(I) IN
  {Payload({<<payer[i], i>> : i \in J}, Cardinality(Nobody(I))) :
     payer \in {f \in [J -> Guardians] : \A i \in J : Payer(i, f[i])}}
Reminders == UNION {RemindersOf(I) : I \in SUBSET Invoices \ {{}}}

\* _execute_pedagogy, _execute_report: a notification to oneself, or a file; no letter
Inside == {Payload({}, 0)}

Payloads == Communications \cup Reminders \cup Inside

\* create_proposal, with its payload
Propose(p, P, channel) ==
  /\ "proposals" \in uses
  /\ proposal[p] = NoRow
  /\ proposal' = [proposal EXCEPT ![p] = Undecided(P, channel)]
  /\ UNCHANGED <<uses, wish, campaign, recipient, job, row, got, tasks, begun, work,
                 hitch, count>>

\* expires_at goes by.
ExpiryPasses(p) ==
  /\ proposal[p] # NoRow /\ ~proposal[p].late
  /\ proposal' = [proposal EXCEPT ![p].late = TRUE]
  /\ UNCHANGED <<uses, wish, campaign, recipient, job, row, got, tasks, begun, work,
                 hitch, count>>

Others(w, p) == {v \in Workers \ {w} : Busy(v) /\ work[v].of = p}
Crosses(w, p) == IF Others(w, p) = {} THEN hitch
                 ELSE [hitch EXCEPT ![p] = @ \cup {"crossed"}]

Decide(w, p, to) ==
  /\ ~Busy(w) /\ decisions < MaxDecisions
  /\ decisions' = decisions + 1
  /\ Continue(w, [op |-> "decide", of |-> p, status |-> to])
  /\ hitch' = Crosses(w, p)
  /\ UNCHANGED <<uses, wish, store, got, tasks, begun, wishes, faults>>

\* _expire_if_needed
Expires(p) == proposal[p].status = "proposed" /\ proposal[p].late

StillOpen_Any(p) == proposal[p].status # "executed"
StillOpen(p) == proposal[p].status = "proposed"

\* approve, reject: the status that was read decides, what is written comes later.
ApproveRead(w, p) ==
  /\ proposal[p] # NoRow /\ StillOpen(p)
  /\ Decide(w, p, IF Expires(p) THEN "expired" ELSE "approved")

RejectRead(w, p) ==
  /\ proposal[p] # NoRow /\ StillOpen(p)
  /\ Decide(w, p, IF Expires(p) THEN "expired" ELSE "rejected")

\* list_proposals and control_center write what they find expired.
ListRead(w, p) ==
  /\ proposal[p] # NoRow /\ Expires(p)
  /\ Decide(w, p, "expired")

DecideCommit(w) ==
  LET to == work[w].status IN
  /\ work[w].op = "decide"
  /\ proposal' = [proposal EXCEPT
       ![work[w].of].status = to,
       ![work[w].of].approved = (@ \/ to = "approved"),
       ![work[w].of].rejected = (@ \/ to = "rejected")]
  /\ Continue(w, Idle)
  /\ UNCHANGED <<uses, wish, campaign, recipient, job, row, got, tasks, begun, hitch, count>>

MayExecute_Open(p) == proposal[p].status \in {"proposed", "approved"}
MayExecute(p) == proposal[p].status = "approved"

\* execute, up to its executor.  An invoice with nobody to write to counts as failed.
Execute(w, p) ==
  /\ ~Busy(w) /\ decisions < MaxDecisions
  /\ proposal[p] # NoRow /\ MayExecute(p) /\ ~proposal[p].late
  /\ Cardinality(proposal[p].letters) + proposal[p].nobody <= MaxRecipients
  /\ decisions' = decisions + 1
  /\ Continue(w, [Letter("execute", p, proposal[p].letters, proposal[p].channel)
                    EXCEPT !.failed = proposal[p].nobody])
  /\ hitch' = Crosses(w, p)
  /\ UNCHANGED <<uses, wish, store, got, tasks, begun, wishes, faults>>

\* What was approved is not executed after its expiry.
ExecuteLate(w, p) ==
  /\ proposal[p] # NoRow /\ MayExecute(p) /\ proposal[p].late
  /\ Decide(w, p, "expired")

\* The end of execute: the result and the status, in one commit
EndExecute(w) ==
  LET p == work[w].of IN
  /\ At(w, "next") /\ work[w].op = "execute" /\ work[w].todo = {}
  /\ proposal' = [proposal EXCEPT ![p].status = "executed", ![p].sent = work[w].sent,
                                  ![p].failed = work[w].failed]
  /\ Continue(w, Idle)
  /\ UNCHANGED <<uses, wish, campaign, recipient, job, row, got, tasks, begun, hitch, count>>

----------------------------------------------------------------------------------
(* The export of the bulletins of a class                                         *)

\* queue_class_bulletin_export, with n bulletins published
QueueExport(j, n) ==
  /\ "exports" \in uses
  /\ job[j] = NoRow /\ n > 0
  /\ job' = [job EXCEPT ![j] = [status |-> "queued", progress |-> 0, total |-> n]]
  /\ tasks' = tasks \cup {j}
  /\ UNCHANGED <<uses, wish, campaign, recipient, proposal, row, got, begun, work, hitch, count>>

\* _run_class_bulletin_export: some bulletins may have been withdrawn since.
RunExport(w, j, n) ==
  /\ ~Busy(w) /\ j \in tasks /\ j \in Exports
  /\ n <= job[j].total
  /\ tasks' = tasks \ {j}
  /\ job' = [job EXCEPT ![j].status = "running", ![j].total = n]
  /\ Continue(w, [op |-> "export", of |-> j, at |-> "next", done |-> 0])
  /\ UNCHANGED <<uses, wish, campaign, recipient, proposal, row, got, begun, hitch, count>>

More_FromZero(w) == work[w].done <= job[work[w].of].total
More(w) == work[w].done < job[work[w].of].total

\* The bulletin of a student who left the class is passed over.
ExportOne(w, present) ==
  LET j == work[w].of
      n == work[w].done + 1 IN
  /\ work[w].op = "export" /\ More(w)
  /\ job' = IF present THEN [job EXCEPT ![j].progress = n] ELSE job
  /\ Continue(w, [work[w] EXCEPT !.done = n])
  /\ UNCHANGED <<uses, wish, campaign, recipient, proposal, row, got, tasks, begun, hitch, count>>

EndExport(w) ==
  LET j == work[w].of IN
  /\ work[w].op = "export" /\ ~More(w)
  /\ job' = [job EXCEPT ![j].progress = job[j].total, ![j].status = "completed"]
  /\ Continue(w, Idle)
  /\ UNCHANGED <<uses, wish, campaign, recipient, proposal, row, got, tasks, begun, hitch, count>>

----------------------------------------------------------------------------------
(* Failures                                                                       *)

Stopped(W) == [o \in DOMAIN hitch |->
  IF o \in tasks \/ \E w \in W : Busy(w) /\ work[w].of = o
  THEN hitch[o] \cup {"stopped"} ELSE hitch[o]]

\* A statement of thread w is refused: what it had not committed is undone.  A task
\* writes that it failed, a request only answers it.
Refused(w) ==
  LET o == work[w].of IN
  /\ Busy(w) /\ faults < MaxFaults
  /\ faults' = faults + 1
  /\ campaign' = IF work[w].op = "campaign"
                 THEN [campaign EXCEPT ![o].status = "failed"] ELSE campaign
  /\ job' = IF work[w].op = "export" THEN [job EXCEPT ![o].status = "failed"] ELSE job
  /\ Continue(w, Idle)
  /\ hitch' = [hitch EXCEPT ![o] = @ \cup {"stopped"}]
  /\ UNCHANGED <<uses, wish, recipient, proposal, row, got, tasks, begun, wishes, decisions>>

\* The server stops, and starts again.
Stop ==
  /\ faults < MaxFaults
  /\ faults' = faults + 1
  /\ work' = [w \in Workers |-> Idle]
  /\ tasks' = {}
  /\ hitch' = Stopped(Workers)
  /\ UNCHANGED <<uses, wish, store, got, begun, wishes, decisions>>

Delivery(w) ==
  \/ \E x \in Letters : CreateDelivery(w, x)
  \/ TryPortal(w) \/ TryWhatsapp(w) \/ TryProvider(w)
  \/ KeepDelivery(w) \/ MarkRecipient(w)
  \/ EndCampaign(w) \/ EndSend(w) \/ EndExecute(w)

Exporting(w) == EndExport(w) \/ \E present \in BOOLEAN : ExportOne(w, present)

Begin(w, o) ==
  \/ RunCampaign(w, o)
  \/ o \in Exports /\ \E n \in 0..Cardinality(Students) : RunExport(w, o, n)

Next ==
  \/ \E g \in Guardians, W \in Wishes : UpdatePreferences(g, W)
  \/ \E c \in Campaigns, S \in SUBSET Students, channel \in Requested, kept \in BOOLEAN :
       CreateCampaign(c, S, channel, kept)
  \/ \E j \in Exports, n \in 1..Cardinality(Students) : QueueExport(j, n)
  \/ \E p \in Proposals :
       \/ ExpiryPasses(p)
       \/ \E P \in Payloads, channel \in Requested : Propose(p, P, channel)
  \/ \E w \in Workers :
       \/ Delivery(w) \/ Exporting(w) \/ DecideCommit(w)
       \/ AnswerLost(w) \/ Refused(w)
       \/ \E o \in tasks : Begin(w, o)
       \/ \E m \in Sends, g \in Guardians, channel \in Requested :
            SendMessage(w, m, <<g, NoStudent>>, channel)
       \/ \E p \in Proposals :
            \/ ApproveRead(w, p) \/ RejectRead(w, p) \/ ListRead(w, p)
            \/ Execute(w, p) \/ ExecuteLate(w, p)
  \/ Stop

\* Threads go on, and a thread that is free takes up a task.
Fairness ==
  /\ \A w \in Workers : WF_vars(Delivery(w) \/ Exporting(w) \/ DecideCommit(w))
  /\ \A o \in Campaigns \cup Exports : WF_vars(\E w \in Workers : o \in tasks /\ Begin(w, o))

Spec == Init /\ [][Next]_vars /\ Fairness

----------------------------------------------------------------------------------
(* Properties                                                                     *)

Handling(o, x) ==
  \E w \in Workers : /\ Busy(w) /\ work[w].of = o
                     /\ "letter" \in DOMAIN work[w] /\ work[w].letter = x

Marked(c, status) == {x \in Letters : recipient[c][x] = status}

\* What is reported is what happened.  A message that left has a delivery that says so
\* once its thread has gone on, unless that was interrupted or did not get the answer
\* (deliver).  The counts of a campaign are those of its recipients, who were written to
\* when it says so (_run_campaign).  An executed proposal counts every letter it had to
\* send and every invoice that had nobody to write to, and counts as sent those that
\* arrived (_execute_communication, _execute_finance_reminder).
ReportIsTrue ==
  /\ \A o \in Owners, x \in Letters :
       got[o][x] > row[o][x].sent => Handling(o, x) \/ hitch[o] \cap {"lost", "stopped"} # {}
  /\ \A c \in Campaigns : campaign[c] # NoRow =>
       /\ campaign[c].sent_count = Cardinality(Marked(c, "sent"))
       /\ campaign[c].failed_count = Cardinality(Marked(c, "failed"))
       /\ campaign[c].status = "completed" => Marked(c, "pending") = {}
       /\ \A x \in Marked(c, "sent") : got[c][x] > 0
       /\ \A x \in Marked(c, "failed") : got[c][x] = 0 \/ "lost" \in hitch[c]
  /\ \A p \in Proposals : proposal[p] # NoRow /\ proposal[p].status = "executed" =>
       /\ proposal[p].sent + proposal[p].failed
            = Cardinality(proposal[p].letters) + proposal[p].nobody
       /\ hitch[p] = {} => proposal[p].sent = Cardinality({x \in Letters : got[p][x] > 0})

\* A letter of a campaign, or a single message, arrives twice only when a provider's
\* answer was lost and another channel was tried.  A letter of a proposal also when
\* two executions crossed, or one was interrupted: execute begins again with the first.
\* A reminder has a letter for each invoice, in the same words: the guardian of a student
\* with two invoices gets both, and this counts each of them once.
NoDoubles ==
  \A o \in Owners, x \in Letters : got[o][x] > 1 =>
    "lost" \in hitch[o] \/ (o \in Proposals /\ hitch[o] # {})

\* No message of a proposal leaves before an administrator approved it, and one that
\* was rejected sends nothing unless its two decisions crossed (approve, reject, execute).
NothingUnapproved ==
  \A p \in Proposals : (\E x \in Letters : got[p][x] > 0) =>
    proposal[p].approved /\ (proposal[p].rejected => "crossed" \in hitch[p])

\* Nobody receives a letter (of a reminder: for an invoice) twice unless a provider's answer was lost or executions of its
\* proposal crossed, and no message of a proposal leaves before it was approved.
OnceAndApproved == NoDoubles /\ NothingUnapproved

\* A proposal that was rejected, executed or expired stays so, unless requests crossed.
DecidedOnce ==
  [][\A p \in Proposals :
       proposal[p] # NoRow /\ proposal[p].status \in {"rejected", "executed", "expired"}
       => proposal'[p].status = proposal[p].status \/ "crossed" \in hitch'[p]]_vars

Queued(o) == IF o \in Campaigns THEN campaign[o] # NoRow ELSE job[o] # NoRow
Ended(o) ==
  /\ Queued(o)
  /\ IF o \in Campaigns THEN campaign[o].status \in {"completed", "failed"}
     ELSE job[o].status \in {"completed", "failed"}

\* Every campaign and every export ends, completed or failed, unless the server stopped.
TasksEnd ==
  \A o \in Campaigns \cup Exports : Queued(o) ~> (Ended(o) \/ "stopped" \in hitch[o])
==================================================================================
