-------------------------------- MODULE Payments --------------------------------
(* Invoices and payments of a school: app/api/finance.py (create_invoice,          *)
(* record_payment, cancel_payment, finance_overview, overdue_invoices) and         *)
(* app/services/finance_engine.py.                                                 *)
(*                                                                                *)
(* A request reads and computes in its own session and writes with one commit;     *)
(* other requests run in between.  The status of an invoice is a stored value: the *)
(* handlers compute it from SUM(amount), and write it if it differs from the one   *)
(* they loaded.  The line of the audit log is a second commit.                     *)
EXTENDS Integers, FiniteSets

CONSTANTS
  Invoices,
  Workers,      \* request threads
  Requests,     \* payments that cashiers ask to record
  Keys, NoKey,  \* idempotency keys, and the absence of one
  None,         \* no request
  ReqInvoice,   \* [Requests -> Invoices]
  ReqAmount,    \* [Requests -> Nat \ {0}]
  ReqKey,       \* [Requests -> Keys \cup {NoKey}]
  Net,          \* [Invoices -> Nat]: amount_due - discount_amount
  RowLocks,     \* TRUE: PostgreSQL; FALSE: SQLite, where FOR UPDATE does nothing
  Cancels,      \* TRUE: payments are cancelled
  Refreshes,    \* TRUE: the overview or the list of overdue invoices is opened
  MaxPayments   \* bound: ids of the payments table

Ids == 1..MaxPayments
Statuses == {"pending", "partially_paid", "paid", "overdue"}
Unpaid == {"pending", "partially_paid", "overdue"}

PaymentConstants ==
  /\ ReqInvoice \in [Requests -> Invoices]
  /\ ReqAmount \in [Requests -> Nat \ {0}]
  /\ ReqKey \in [Requests -> Keys \cup {NoKey}]
  /\ NoKey \notin Keys /\ None \notin Requests
  /\ Net \in [Invoices -> Nat]
  /\ RowLocks \in BOOLEAN /\ Cancels \in BOOLEAN /\ Refreshes \in BOOLEAN
  /\ MaxPayments \in Nat

VARIABLES
  status,     \* status[i] of the invoice row, "absent" before it is created
  pastDue,    \* invoices whose due date is over
  payment,    \* payment[p]: the request that row p records, None without a row
  cancelled,  \* rows with is_cancelled
  paid,       \* paid[i]: SUM(amount) over the rows of i that are not cancelled
  lastId,     \* last id of the table
  audited,    \* audit log: <<"create" or "cancel", p>>
  answers,    \* history: answers[r], the rows that r was answered with
  work        \* work[w]: what request thread w has in memory

vars == <<status, pastDue, payment, cancelled, paid, lastId, audited, answers, work>>

\* loaded and new are defined on the invoices that the request has in its session.
StatusMaps == UNION {[S -> Statuses \cup {"absent"}] : S \in SUBSET Invoices}
NoStatus == [i \in {} |-> "absent"]
IdleWork == [kind |-> "none", pc |-> "idle", r |-> None, p |-> 0,
             loaded |-> NoStatus, new |-> NoStatus]

Work == [kind : {"none", "record", "cancel", "refresh"},
         pc : {"idle", "asked", "loaded", "checked", "flushed", "summed", "committed"},
         r : Requests \cup {None}, p : 0..MaxPayments, loaded : StatusMaps, new : StatusMaps]

TypeOK ==
  /\ status \in [Invoices -> Statuses \cup {"absent"}]
  /\ pastDue \subseteq Invoices
  /\ payment \in [Ids -> Requests \cup {None}]
  /\ cancelled \subseteq Ids
  /\ paid \in [Invoices -> Int]
  /\ lastId \in 0..MaxPayments
  /\ audited \subseteq {"create", "cancel"} \X Ids
  /\ answers \in [Requests -> SUBSET Ids]
  /\ work \in [Workers -> Work]

Init ==
  /\ status = [i \in Invoices |-> "absent"]
  /\ pastDue = {}
  /\ payment = [p \in Ids |-> None]
  /\ cancelled = {}
  /\ paid = [i \in Invoices |-> 0]
  /\ lastId = 0
  /\ audited = {}
  /\ answers = [r \in Requests |-> {}]
  /\ work = [w \in Workers |-> IdleWork]

---------------------------------------------------------------------------------
(* Helpers                                                                       *)

\* refresh_invoice_status: the status for what SUM(amount) returns.
Refreshed_Misspelt(i, amount) == IF amount >= Net[i] THEN "paid" ELSE "partial"
Refreshed(i, amount) ==
  CASE amount >= Net[i] -> "paid"
    [] amount < Net[i] /\ amount > 0 -> "partially_paid"
    [] amount < Net[i] /\ amount <= 0 /\ i \in pastDue -> "overdue"
    [] OTHER -> "pending"

\* SUM(amount) after the flush of a new row.
SumWith_Unflushed(i, r) == paid[i]
SumWith(i, r) == paid[i] + ReqAmount[r]

\* invoice_balance, and the test of record_payment against it.
Balance(i) == IF Net[i] > paid[i] THEN Net[i] - paid[i] ELSE 0
Affordable(r) == ReqAmount[r] <= Balance(ReqInvoice[r])

InvoiceOf(p) == ReqInvoice[payment[p]]
Created == {i \in Invoices : status[i] # "absent"}
Rows == {p \in Ids : payment[p] # None}
RowsWithKey(k) == {p \in Rows : ReqKey[payment[p]] = k /\ k # NoKey}

Idle(w) == work[w].pc = "idle"
Finish(w) == work' = [work EXCEPT ![w] = IdleWork]

\* Record_payment holds the row of its invoice from the SELECT FOR UPDATE on.
Holds(w, i) ==
  /\ work[w].kind = "record"
  /\ work[w].pc \in {"loaded", "checked", "flushed"}
  /\ ReqInvoice[work[w].r] = i

RowFree_NoForUpdate(i) == TRUE
RowFree(i) == RowLocks => \A w \in Workers : ~Holds(w, i)

\* On SQLite a transaction that wrote keeps every other one from writing.
CanWrite == RowLocks \/ \A w \in Workers : work[w].pc # "flushed"

\* The unique index makes a flush wait for another transaction with the same key.
KeyFree_NoIndex(k) == TRUE
KeyFree(k) ==
  /\ RowsWithKey(k) = {}
  /\ k # NoKey => \A w \in Workers : work[w].pc = "flushed" => ReqKey[work[w].r] # k

\* The unit of work writes the statuses that are not what the session had loaded.
Changed(w) == {i \in DOMAIN work[w].new : work[w].new[i] # work[w].loaded[i]}
StatusAfter(w) == [i \in Invoices |-> IF i \in Changed(w) THEN work[w].new[i] ELSE status[i]]

---------------------------------------------------------------------------------

CreateInvoice(i) ==
  /\ status[i] = "absent"
  /\ CanWrite
  /\ status' = [status EXCEPT ![i] = "pending"]
  /\ UNCHANGED <<pastDue, payment, cancelled, paid, lastId, audited, answers, work>>

DueDatePasses(i) ==
  /\ i \in Created \ pastDue
  /\ pastDue' = pastDue \cup {i}
  /\ UNCHANGED <<status, payment, cancelled, paid, lastId, audited, answers, work>>

---------------------------------------------------------------------------------
(* record_payment                                                                *)

\* A key that is known for the same payment: the row is the answer.  For another
\* payment it is a 409.
AnswerKnownKey(r) ==
  /\ \E p \in RowsWithKey(ReqKey[r]) :
       /\ ReqInvoice[payment[p]] = ReqInvoice[r] /\ ReqAmount[payment[p]] = ReqAmount[r]
       /\ answers' = [answers EXCEPT ![r] = @ \cup {p}]
  /\ UNCHANGED <<status, pastDue, payment, cancelled, paid, lastId, audited, work>>

AskPayment(w, r) ==
  /\ Idle(w)
  /\ ReqInvoice[r] \in Created
  /\ RowsWithKey(ReqKey[r]) = {}
  /\ work' = [work EXCEPT ![w] = [IdleWork EXCEPT !.kind = "record", !.pc = "asked", !.r = r]]
  /\ UNCHANGED <<status, pastDue, payment, cancelled, paid, lastId, audited, answers>>

\* SELECT ... FOR UPDATE of the invoice.
LoadInvoice(w) ==
  LET i == ReqInvoice[work[w].r] IN
  /\ work[w].pc = "asked"
  /\ RowFree(i)
  /\ work' = [work EXCEPT ![w].pc = "loaded", ![w].loaded = [j \in {i} |-> status[j]]]
  /\ UNCHANGED <<status, pastDue, payment, cancelled, paid, lastId, audited, answers>>

CheckBalance(w) ==
  /\ work[w].kind = "record" /\ work[w].pc = "loaded"
  /\ IF Affordable(work[w].r) THEN work' = [work EXCEPT ![w].pc = "checked"]
     ELSE Finish(w)
  /\ UNCHANGED <<status, pastDue, payment, cancelled, paid, lastId, audited, answers>>

\* db.flush: the row gets its id, and the status is computed with it.
InsertPayment(w) ==
  LET r == work[w].r
      i == ReqInvoice[r]
  IN /\ work[w].pc = "checked"
     /\ CanWrite /\ KeyFree(ReqKey[r])
     /\ lastId < MaxPayments
     /\ lastId' = lastId + 1
     /\ work' = [work EXCEPT ![w].pc = "flushed", ![w].p = lastId + 1,
                   ![w].new = [j \in {i} |-> Refreshed(i, SumWith(i, r))]]
     /\ UNCHANGED <<status, pastDue, payment, cancelled, paid, audited, answers>>

\* The flush finds the key of a row that was committed since: whatever it is for, it
\* is the answer.
AnswerClash(w) ==
  LET r == work[w].r IN
  /\ work[w].pc = "checked"
  /\ \E p \in RowsWithKey(ReqKey[r]) : answers' = [answers EXCEPT ![r] = @ \cup {p}]
  /\ Finish(w)
  /\ UNCHANGED <<status, pastDue, payment, cancelled, paid, lastId, audited>>

CommitPayment(w) ==
  LET r == work[w].r IN
  /\ work[w].pc = "flushed"
  /\ payment' = [payment EXCEPT ![work[w].p] = r]
  /\ paid' = [paid EXCEPT ![ReqInvoice[r]] = @ + ReqAmount[r]]
  /\ status' = StatusAfter(w)
  /\ work' = [work EXCEPT ![w].pc = "committed"]
  /\ UNCHANGED <<pastDue, cancelled, lastId, audited, answers>>

---------------------------------------------------------------------------------
(* cancel_payment, finance_overview, overdue_invoices                            *)

LoadCancel(w, p) ==
  /\ Cancels
  /\ Idle(w)
  /\ p \in Rows \ cancelled
  /\ work' = [work EXCEPT ![w] = [IdleWork EXCEPT !.kind = "cancel", !.pc = "loaded", !.p = p,
                                    !.loaded = [i \in {InvoiceOf(p)} |-> status[i]]]]
  /\ UNCHANGED <<status, pastDue, payment, cancelled, paid, lastId, audited, answers>>

LoadAll(w) ==
  /\ Refreshes
  /\ Idle(w)
  /\ Created # {}
  /\ work' = [work EXCEPT ![w] = [IdleWork EXCEPT !.kind = "refresh", !.pc = "loaded",
                                    !.loaded = [i \in Created |-> status[i]]]]
  /\ UNCHANGED <<status, pastDue, payment, cancelled, paid, lastId, audited, answers>>

\* SUM(amount) sees what is committed.  The session does not flush before it queries:
\* the payment that is being cancelled is still counted.
SumPayments(w) ==
  /\ work[w].kind \in {"cancel", "refresh"} /\ work[w].pc = "loaded"
  /\ work' = [work EXCEPT ![w].pc = "summed",
                ![w].new = [i \in DOMAIN work[w].loaded |-> Refreshed(i, paid[i])]]
  /\ UNCHANGED <<status, pastDue, payment, cancelled, paid, lastId, audited, answers>>

\* An UPDATE of an invoice waits for the request that holds its row.
CommitCancel(w) ==
  LET p == work[w].p IN
  /\ work[w].kind = "cancel" /\ work[w].pc = "summed"
  /\ CanWrite /\ \A i \in Changed(w) : RowFree(i)
  /\ cancelled' = cancelled \cup {p}
  /\ paid' = IF p \in cancelled THEN paid
             ELSE [paid EXCEPT ![InvoiceOf(p)] = @ - ReqAmount[payment[p]]]
  /\ status' = StatusAfter(w)
  /\ work' = [work EXCEPT ![w].pc = "committed"]
  /\ UNCHANGED <<pastDue, payment, lastId, audited, answers>>

CommitRefresh(w) ==
  /\ work[w].kind = "refresh" /\ work[w].pc = "summed"
  /\ Changed(w) # {} => CanWrite
  /\ \A i \in Changed(w) : RowFree(i)
  /\ status' = StatusAfter(w)
  /\ Finish(w)
  /\ UNCHANGED <<pastDue, payment, cancelled, paid, lastId, audited, answers>>

---------------------------------------------------------------------------------

\* log_action, in a transaction of its own, and then the answer.
LogAction(w) ==
  LET p == work[w].p IN
  /\ work[w].pc = "committed"
  /\ CanWrite
  /\ audited' = audited \cup {<<IF work[w].kind = "record" THEN "create" ELSE "cancel", p>>}
  /\ answers' = IF work[w].kind = "record"
                THEN [answers EXCEPT ![work[w].r] = @ \cup {p}] ELSE answers
  /\ Finish(w)
  /\ UNCHANGED <<status, pastDue, payment, cancelled, paid, lastId>>

\* The request fails or the server stops: what was not committed is undone.
Abort(w) ==
  /\ ~Idle(w)
  /\ Finish(w)
  /\ UNCHANGED <<status, pastDue, payment, cancelled, paid, lastId, audited, answers>>

WorkStep(w) ==
  \/ LoadInvoice(w)
  \/ CheckBalance(w)
  \/ InsertPayment(w)
  \/ AnswerClash(w)
  \/ CommitPayment(w)
  \/ LoadAll(w)
  \/ SumPayments(w)
  \/ CommitCancel(w)
  \/ CommitRefresh(w)
  \/ LogAction(w)
  \/ Abort(w)

Next ==
  \/ \E i \in Invoices : CreateInvoice(i) \/ DueDatePasses(i)
  \/ \E r \in Requests : AnswerKnownKey(r)
  \/ \E w \in Workers, r \in Requests : AskPayment(w, r)
  \/ \E w \in Workers, p \in Ids : LoadCancel(w, p)
  \/ \E w \in Workers : WorkStep(w)

Spec == Init /\ [][Next]_vars

---------------------------------------------------------------------------------
(* Properties                                                                    *)

Quiet == \A w \in Workers : Idle(w)

\* However many cashiers are at work, what an invoice has received never exceeds what
\* was due (the balance that record_payment checks under the row lock).
NoOverpayment == \A i \in Invoices : paid[i] <= Net[i]

\* A payment with a key is charged once, although its request is sent again while the
\* first one still runs, after it was committed, or after its answer was lost.
ChargedOnce ==
  \A p, q \in Rows :
    ReqKey[payment[p]] = ReqKey[payment[q]] /\ ReqKey[payment[p]] # NoKey => p = q

\* A cashier who repeats a payment with its key is always shown the same row.
SameAnswer ==
  \A r \in Requests : ReqKey[r] # NoKey => \A p, q \in answers[r] : p = q

\* When no request runs, an invoice that is not settled is listed among the unpaid.
UnpaidIsListed ==
  Quiet => \A i \in Created : paid[i] < Net[i] => status[i] \in Unpaid

\* When no request runs, an invoice that received a payment and is settled is not.
PaidIsNotListed ==
  Quiet => \A i \in Created : paid[i] > 0 /\ paid[i] >= Net[i] => status[i] = "paid"
=================================================================================
