------------------------------ MODULE Subscriptions ------------------------------
(* The subscription of a school, its invoices and what pays them:                  *)
(* services/billing_v4.py, services/payment_gateway.py, the licences of             *)
(* services/cloud.py, and their endpoints (api/billing_v4.py, api/cloud.py).       *)
(*                                                                                 *)
(* Every request loads rows without a lock, decides, and commits the columns that  *)
(* it changed.  A payment of a provider commits three times: the payment, the      *)
(* event's identity on it, and the state of the event that the webhook received.   *)
EXTENDS Integers, FiniteSets, FiniteSetsExt

CONSTANTS
  Requests,
  Invoices, Payments, Events,  \* rows that may be created
  Amounts,                     \* that may be paid
  Price, Length,               \* [{"monthly", "annual"} -> Nat], length in days
  DueDays, Grace,
  Services,                    \* centres, by the functions that they use
  Terms,                       \* days of a licence that is given by hand
  Dates,                       \* days other than today that a reconciliation is asked for
  MaxDay, MaxCalls, MaxStops,  \* bounds; MaxCalls depends on the functions
  NoRow, NoEvent

Functions == {"payments", "webhooks", "lifecycle"}
Kinds == {"monthly", "annual"}

VARIABLES
  uses, today,
  sub,         \* the subscription: status, ends_on, whether there is a key
  invoice, payment,
  event,       \* event[e]: the inbox of the webhook
  work, calls, stops,
  blurred,     \* history: rows that a request wrote after another had changed them
  torn,        \* history: events whose payment was interrupted
  promised,    \* history: the last day that is paid since the licence was last set
  asked        \* history: the last day of a reconciliation since it was paid or set

rows == <<sub, invoice, payment, event>>
history == <<blurred, torn, promised, asked>>
vars == <<uses, today, rows, work, calls, stops, history>>

Idle == [op |-> "none"]
SubRow == [status : {"trial", "active", "suspended", "expired"}, ends : Nat, key : BOOLEAN]
InvoiceRow == [status : {"issued", "overdue", "paid"}, from : Nat, to : Nat, amount : Nat,
               due : Nat]
PaymentRow == [invoice : Invoices, amount : Amounts, ref : Events \cup {NoEvent},
               ext : Events \cup {NoEvent}, by : {"manual", "provider", "webhook"}]

ASSUME SubscriptionsAssumption ==
  /\ IsFiniteSet(Invoices) /\ IsFiniteSet(Payments) /\ IsFiniteSet(Requests)
  /\ Amounts \subseteq Nat \ {0}
  /\ Price \in [Kinds -> Nat \ {0}] /\ Length \in [Kinds -> Nat \ {0}]
  /\ {DueDays, Grace, MaxDay, MaxStops} \cup Terms \cup Dates \subseteq Nat
  /\ Services \subseteq SUBSET Functions /\ MaxCalls \in [Services -> Nat]
  /\ NoRow \notin InvoiceRow \cup PaymentRow /\ NoEvent \notin Events
  /\ "sub" \notin Invoices

TypeOK ==
  /\ uses \in Services /\ today \in 0..MaxDay
  /\ sub \in SubRow
  /\ invoice \in [Invoices -> InvoiceRow \cup {NoRow}]
  /\ payment \in [Payments -> PaymentRow \cup {NoRow}]
  /\ event \in [Events -> {"none", "received", "processed", "ignored", "failed"}]
  /\ calls \in 0..MaxCalls[uses] /\ stops \in 0..MaxStops
  /\ asked \in Nat /\ promised \in Nat /\ (promised <= sub.ends \/ "sub" \in blurred)

Issued == {i \in Invoices : invoice[i] # NoRow}
Paid(i) == {k \in Payments : payment[k] # NoRow /\ payment[k].invoice = i}
Total(K) == FoldSet(LAMBDA k, sum : payment[k].amount + sum, 0, K)

\* A school on trial, or with a licence.
Init ==
  /\ uses \in Services
  /\ today = 0
  /\ \E status \in {"trial", "active"} :
       sub = [status |-> status, ends |-> 1, key |-> status = "active"]
  /\ invoice = [i \in Invoices |-> NoRow]
  /\ payment = [k \in Payments |-> NoRow]
  /\ event = [e \in Events |-> "none"]
  /\ work = [r \in Requests |-> Idle]
  /\ calls = 0 /\ stops = 0
  /\ blurred = {} /\ torn = {} /\ promised = 0 /\ asked = 0

----------------------------------------------------------------------------------
(* Sessions                                                                       *)

Ready(r, op) == work[r].op = op

\* A request begins: it has loaded the rows that its session names.
Begin(r, session) ==
  /\ Ready(r, "none") /\ calls < MaxCalls[uses]
  /\ calls' = calls + 1
  /\ work' = [work EXCEPT ![r] = session]
  /\ UNCHANGED <<uses, today, rows, stops, history>>

\* It commits what it wrote, and ends or goes on; who had loaded that is out of date.
Commit(r, written, then) ==
  /\ work' = [q \in Requests |->
       IF q = r THEN then
       ELSE IF Ready(q, "none") THEN Idle
       ELSE [work[q] EXCEPT !.stale = @ \cup (written \cap work[q].rows)]]
  /\ blurred' = blurred \cup (written \cap work[r].stale)
  /\ UNCHANGED <<uses, today, calls, stops>>

\* Columns that differ from what was loaded are written, the others are not.
Merged(row, old, new) ==
  [f \in DOMAIN row |-> IF new[f] # old[f] THEN new[f] ELSE row[f]]

----------------------------------------------------------------------------------
(* Invoices                                                                       *)

Issuing(from, kind) ==
  [op |-> "issue", rows |-> {}, from |-> from, stale |-> {}, kind |-> kind]

\* issue_invoice: from today on
IssueRead(r, kind) ==
  /\ "payments" \in uses \/ "webhooks" \in uses
  /\ ~\E i \in Issued : invoice[i].from = today /\ invoice[i].to = today + Length[kind] - 1
  /\ Begin(r, Issuing(today, kind))

\* issue_renewal_invoice: from the end of what is paid
RenewalStart == IF sub.ends >= today THEN sub.ends + 1 ELSE today
RenewRead(r, kind) ==
  /\ "lifecycle" \in uses
  /\ ~\E i \in Issued : /\ invoice[i].from = RenewalStart
                        /\ invoice[i].to = RenewalStart + Length[kind] - 1
  /\ Begin(r, Issuing(RenewalStart, kind))

\* Two invoices of the same period are refused by the database.
IssueCommit(r, i) ==
  LET w == work[r]
      to == w.from + Length[w.kind] - 1 IN
  /\ Ready(r, "issue") /\ i \notin Issued
  /\ ~\E j \in Issued : invoice[j].from = w.from /\ invoice[j].to = to
  /\ invoice' = [invoice EXCEPT ![i] = [status |-> "issued", from |-> w.from, to |-> to,
                                        amount |-> Price[w.kind], due |-> today + DueDays]]
  /\ Commit(r, {}, Idle)
  /\ UNCHANGED <<sub, payment, event, torn, promised, asked>>

----------------------------------------------------------------------------------
(* Payments                                                                       *)

\* register_payment, up to its insert
Balance(i, amount) == Total(Paid(i)) + amount <= invoice[i].amount
MayPay(i, amount, ref) ==
  /\ i \in Issued
  /\ invoice[i].status \in {"issued", "overdue"}
  /\ \A k \in Payments : payment[k] # NoRow /\ payment[k].ref = ref /\ ref # NoEvent
                           => payment[k].invoice = i
  /\ Balance(i, amount)

Settles_Beyond(i, amount) == Total(Paid(i)) + amount > invoice[i].amount
Settles(i, amount) == Total(Paid(i)) + amount >= invoice[i].amount
Paying(i, amount, e, by) ==
  [op |-> "pay", invoice |-> i, rows |-> {i, "sub"}, amount |-> amount, ref |-> e, by |-> by,
   stale |-> {}, old |-> sub, writes |-> IF Settles(i, amount) THEN {i, "sub"} ELSE {i}]

PayRead(r, i, amount) ==
  /\ "payments" \in uses \/ "lifecycle" \in uses
  /\ MayPay(i, amount, NoEvent)
  /\ Begin(r, Paying(i, amount, NoEvent, "manual"))

\* register_provider_payment, by the central service
Recorded(e, by) ==
  \E k \in Payments : payment[k] # NoRow /\ payment[k].ext = e /\ payment[k].by = by
ProviderRead(r, e, i, amount) ==
  /\ "payments" \in uses
  /\ ~Recorded(e, "provider")
  /\ MayPay(i, amount, e)
  /\ Begin(r, Paying(i, amount, e, "provider"))

Extended_Back(w) == [w.old EXCEPT !.status = "active", !.ends = invoice[w.invoice].to]
Extended(w) == [w.old EXCEPT !.status = "active",
                             !.ends = IF @ < invoice[w.invoice].to
                                      THEN invoice[w.invoice].to ELSE @]

Later(a, b) == IF a < b THEN b ELSE a

\* What becomes of the event with the first commit of its payment
FirstState_Processed == "processed"
FirstState == "received"

\* The payment, the invoice and the subscription; with them the event that was received.
PayCommit(r, k) ==
  LET w == work[r]
      i == w.invoice
      settles == "sub" \in w.writes IN
  /\ Ready(r, "pay") /\ payment[k] = NoRow
  /\ payment' = [payment EXCEPT ![k] =
       [invoice |-> i, amount |-> w.amount, ref |-> w.ref, ext |-> NoEvent, by |-> w.by]]
  /\ invoice' = IF settles THEN [invoice EXCEPT ![i].status = "paid"] ELSE invoice
  /\ sub' = IF settles THEN Merged(sub, w.old, Extended(w)) ELSE sub
  /\ event' = IF w.by = "webhook" THEN [event EXCEPT ![w.ref] = FirstState] ELSE event
  /\ promised' = IF settles THEN Later(promised, invoice[i].to) ELSE promised
  /\ asked' = IF settles THEN 0 ELSE asked
  /\ Commit(r, w.writes,
            IF w.by = "manual" THEN Idle
            ELSE [op |-> "tag", payment |-> k, rows |-> {}, ref |-> w.ref, by |-> w.by,
                  stale |-> {}])
  /\ UNCHANGED torn

\* The identity of the event, unique in the database, is written on the payment.
TagCommit(r) ==
  LET w == work[r] IN
  /\ Ready(r, "tag")
  /\ ~Recorded(w.ref, w.by)
  /\ payment' = [payment EXCEPT ![w.payment].ext = w.ref]
  /\ Commit(r, {}, IF w.by = "webhook" THEN [w EXCEPT !.op = "processed"] ELSE Idle)
  /\ UNCHANGED <<sub, invoice, event, torn, promised, asked>>

----------------------------------------------------------------------------------
(* The webhook                                                                    *)

\* The handler is a coroutine that never waits: one webhook at a time.
InWebhook(q) == ~Ready(q, "none") /\ "by" \in DOMAIN work[q] /\ work[q].by = "webhook"
Received_Processed(e) == event[e] \in {"processed", "ignored"}
Received(e) == event[e] # "none"

WebhookRead(r, e, session) ==
  /\ "webhooks" \in uses
  /\ ~Received(e)
  /\ \A q \in Requests : ~InWebhook(q)
  /\ Begin(r, session)

WebhookPays(r, e, i, amount) ==
  /\ MayPay(i, amount, e)
  /\ WebhookRead(r, e, Paying(i, amount, e, "webhook"))

\* A payment that is not finished is ignored; one that cannot be made fails for good.
WebhookEnds(r, e, to) ==
  WebhookRead(r, e, [op |-> "event", rows |-> {}, to |-> to, ref |-> e, by |-> "webhook",
                     stale |-> {}])

WebhookFails(r, e, i, amount) == ~MayPay(i, amount, e) /\ WebhookEnds(r, e, "failed")

EventCommit(r) ==
  /\ Ready(r, "event")
  /\ event' = [event EXCEPT ![work[r].ref] = work[r].to]
  /\ Commit(r, {}, Idle)
  /\ UNCHANGED <<sub, invoice, payment, torn, promised, asked>>

ProcessedCommit(r) ==
  /\ Ready(r, "processed")
  /\ event' = [event EXCEPT ![work[r].ref] = "processed"]
  /\ Commit(r, {}, Idle)
  /\ UNCHANGED <<sub, invoice, payment, torn, promised, asked>>

----------------------------------------------------------------------------------
(* The life of the subscription                                                   *)

PastDue(day) == {i \in Issued : invoice[i].status = "issued" /\ invoice[i].due < day}

\* list_invoices: any reader of the list writes what is overdue.
ListRead(r) ==
  /\ PastDue(today) # {}
  /\ Begin(r, [op |-> "list", rows |-> PastDue(today), stale |-> {}, late |-> PastDue(today)])

Overdue(late) == [i \in Invoices |->
  IF i \in late THEN [invoice[i] EXCEPT !.status = "overdue"] ELSE invoice[i]]

ListCommit(r) ==
  /\ Ready(r, "list")
  /\ invoice' = Overdue(work[r].late)
  /\ Commit(r, work[r].late, Idle)
  /\ UNCHANGED <<sub, payment, event, torn, promised, asked>>

PaidRenewals(day) == {i \in Issued : invoice[i].status = "paid" /\ invoice[i].to >= day}
LastPaidDay(day) == CHOOSE d \in {invoice[i].to : i \in PaidRenewals(day)} :
                      \A i \in PaidRenewals(day) : invoice[i].to <= d

GraceOver_Early(day) == day > sub.ends - Grace
GraceOver(day) == day > sub.ends + Grace

Reconciled(day) ==
  IF sub.status = "suspended" /\ PaidRenewals(day) # {}
  THEN [sub EXCEPT !.status = "active", !.ends = Later(@, LastPaidDay(day))]
  ELSE IF sub.status \in {"active", "trial"} /\ GraceOver(day)
  THEN [sub EXCEPT !.status = "suspended"] ELSE sub

\* reconcile_subscriptions: for today, or for the day that the request names, past or future
ReconcileRead(r, day) ==
  /\ "lifecycle" \in uses
  /\ PastDue(day) # {} \/ Reconciled(day) # sub
  /\ Begin(r, [op |-> "reconcile", rows |-> PastDue(day) \cup {"sub"}, stale |-> {}, old |-> sub,
               new |-> Reconciled(day), late |-> PastDue(day), day |-> day])

ReconcileCommit(r) ==
  LET w == work[r] IN
  /\ Ready(r, "reconcile")
  /\ invoice' = Overdue(w.late)
  /\ sub' = Merged(sub, w.old, w.new)
  /\ asked' = Later(asked, w.day)
  /\ Commit(r, w.late \cup IF w.new # w.old THEN {"sub"} ELSE {}, Idle)
  /\ UNCHANGED <<payment, event, torn, promised>>

Setting(op, new) ==
  [op |-> op, rows |-> {"sub"}, stale |-> {}, old |-> sub, new |-> new]

\* issue_license_key: a new key and a new end, also an earlier one
LicenceRead(r, days) ==
  /\ "lifecycle" \in uses
  /\ Begin(r, Setting("licence", [status |-> "active", ends |-> today + days, key |-> TRUE]))

\* activate_license: with the last key, the school lifts its suspension itself.
ActivateRead(r) ==
  /\ "lifecycle" \in uses
  /\ sub.key /\ sub.ends >= today /\ sub.status # "active"
  /\ Begin(r, Setting("activate", [sub EXCEPT !.status = "active"]))

\* update_subscription
UpdateRead(r, status, ends) ==
  /\ "lifecycle" \in uses
  /\ Begin(r, Setting("licence", [sub EXCEPT !.status = status, !.ends = ends]))

\* What is set by hand takes the place of what was paid before.
SubCommit(r) ==
  LET w == work[r] IN
  /\ w.op \in {"licence", "activate"}
  /\ sub' = Merged(sub, w.old, w.new)
  /\ promised' = IF Ready(r, "licence") THEN 0 ELSE promised
  /\ asked' = IF Ready(r, "licence") THEN 0 ELSE asked
  /\ Commit(r, {"sub"}, Idle)
  /\ UNCHANGED <<invoice, payment, event, torn>>

----------------------------------------------------------------------------------

\* A request fails, or the server stops, between two commits.
Abort(r) ==
  /\ ~Ready(r, "none") /\ stops < MaxStops
  /\ stops' = stops + 1
  /\ work' = [work EXCEPT ![r] = Idle]
  /\ torn' = IF work[r].op = "tag" THEN torn \cup {work[r].ref} ELSE torn
  /\ UNCHANGED <<uses, today, rows, calls, blurred, promised, asked>>

Tomorrow ==
  /\ today < MaxDay
  /\ \A r \in Requests : Ready(r, "none")
  /\ today' = today + 1
  /\ UNCHANGED <<uses, rows, work, calls, stops, history>>

Read(r) ==
  \/ \E kind \in Kinds : IssueRead(r, kind) \/ RenewRead(r, kind)
  \/ \E i \in Invoices, amount \in Amounts :
       \/ PayRead(r, i, amount)
       \/ \E e \in Events :
            \/ ProviderRead(r, e, i, amount)
            \/ WebhookPays(r, e, i, amount) \/ WebhookFails(r, e, i, amount)
  \/ \E e \in Events : WebhookEnds(r, e, "ignored")
  \/ ListRead(r)
  \/ \E day \in Dates \cup {today} : ReconcileRead(r, day)
  \/ \E days \in Terms : LicenceRead(r, days)
  \/ ActivateRead(r)
  \/ \E status \in {"active", "suspended", "expired"}, days \in Terms :
       UpdateRead(r, status, today + days)

Write(r) ==
  \/ \E i \in Invoices : IssueCommit(r, i)
  \/ \E k \in Payments : PayCommit(r, k)
  \/ TagCommit(r) \/ EventCommit(r) \/ ProcessedCommit(r)
  \/ ListCommit(r) \/ ReconcileCommit(r) \/ SubCommit(r)

Next ==
  \/ \E r \in Requests : Read(r) \/ Write(r) \/ Abort(r)
  \/ Tomorrow

Spec == Init /\ [][Next]_vars

----------------------------------------------------------------------------------
(* Properties                                                                     *)

\* An invoice is paid when and only when its payments make its amount, and never
\* beyond it, but for an invoice that a request wrote after another had changed it
\* (register_payment sums without a lock, list_invoices and reconcile_subscriptions
\* write the status that they read).
InvoiceSettled ==
  \A i \in Issued \ blurred :
    /\ Total(Paid(i)) <= invoice[i].amount
    /\ invoice[i].status = "paid" <=> Total(Paid(i)) = invoice[i].amount

By(e, by) == {k \in Payments : payment[k] # NoRow /\ payment[k].ref = e /\ payment[k].by = by}

\* An event that the webhook receives pays once, whatever stops and however often it
\* is sent again (process_webhook).
EventPaidOnce == \A e \in Events : Cardinality(By(e, "webhook")) <= 1

\* The inbox tells what became of an event: processed when its payment carries its
\* identity, failed or ignored when there is no payment.
EventTellsTruth ==
  \A e \in Events :
    /\ event[e] = "processed" => Recorded(e, "webhook")
    /\ event[e] \in {"none", "failed", "ignored"} => By(e, "webhook") = {}

\* An event of the provider is paid once, and its row tells what became of it.
EventsTellTruth == EventPaidOnce /\ EventTellsTruth

\* A subscription that is paid up to a day is neither suspended nor expired before a
\* reconciliation is asked for a day beyond the grace that follows, unless the centre
\* set it otherwise or two requests wrote it at once (register_payment extends it,
\* reconcile_subscriptions suspends it).  Asked for today, as by default, none is while
\* the paid days and the grace last; asked for a later date, one may be.
PaidIsServed ==
  "sub" \notin blurred /\ promised > 0 /\ asked <= promised + Grace =>
    sub.status = "active" /\ sub.ends >= promised

\* What the central service records for a provider is idempotent (RELEASE_4.2.md); a
\* payment that was interrupted before it carried its event is made again.
ProviderPaidOnce ==
  \A e \in Events : Cardinality(By(e, "provider")) <= 1 \/ blurred # {}
==================================================================================
