--------------------------------- MODULE Finance ---------------------------------
(* The money of a school: Payments, the fees of its students, and Subscriptions,   *)
(* what the school itself pays.  They share nothing: a behaviour is one of one of  *)
(* them.  Theorems about both follow, for any requests, threads, invoices,         *)
(* payments, keys and events: an invoice of fees never receives more than is due   *)
(* and a key is charged once; a day of the subscription that was paid for is       *)
(* served, an event of the provider pays once and its row tells the truth, and an  *)
(* invoice is paid when its payments make its amount.                              *)
EXTENDS Subscriptions, FiniteSetTheorems, WellFoundedInduction, TLAPS

CONSTANTS
  Parts,                                      \* of {"fees", "subscription"}: those of a run
  Bills, Workers, Asked, Keys, NoKey, None,   \* Payments'
  ReqInvoice, ReqAmount, ReqKey, Net, RowLocks, Cancels, Refreshes, MaxPayments

VARIABLES part
VARIABLES standing, pastDue, fee, cancelled, paid, lastId, audited, answers, serving

Fees == INSTANCE Payments WITH
  Invoices <- Bills, Requests <- Asked,
  status <- standing, payment <- fee, work <- serving

ASSUME FeesAssumption == Fees!PaymentConstants

fees == <<standing, pastDue, fee, cancelled, paid, lastId, audited, answers, serving>>

FinanceInit ==
  /\ Init /\ Fees!Init
  /\ part \in Parts
  /\ part = "fees" => uses = {"payments"} /\ ~sub.key
FinanceNext ==
  /\ part' = part
  /\ \/ part = "fees" /\ Fees!Next /\ UNCHANGED vars
     \/ part = "subscription" /\ Next /\ UNCHANGED fees
FinanceSpec == FinanceInit /\ [][FinanceNext]_<<vars, fees, part>>

----------------------------------------------------------------------------------
(* Properties                                                                     *)

\* However many cashiers are at work, what an invoice has received never exceeds what
\* was due (Payments: the balance that record_payment checks under the row lock).
NoOverpayment == part = "fees" => Fees!NoOverpayment

\* A payment with a key is charged once, although its request is sent again while the
\* first one still runs, after it was committed, or after its answer was lost (Payments).
ChargedOnce == part = "fees" => Fees!ChargedOnce

----------------------------------------------------------------------------------
(* The subscription.  The inductive invariant                                     *)

Row == Invoices \cup {"sub"}

\* What a request has in its session, by what it is doing.
Issuings == [op : {"issue"}, rows : SUBSET Row, from : Nat, stale : SUBSET Row, kind : Kinds]
Payings == [op : {"pay"}, invoice : Invoices, rows : SUBSET Row, amount : Amounts,
            ref : Events \cup {NoEvent}, by : {"manual", "provider", "webhook"},
            stale : SUBSET Row, old : SubRow, writes : SUBSET Row]
Taggings == [op : {"tag", "processed"}, payment : Payments, rows : SUBSET Row, ref : Events,
             by : {"provider", "webhook"}, stale : SUBSET Row]
Endings == [op : {"event"}, rows : SUBSET Row, to : {"ignored", "failed"}, ref : Events,
            by : {"webhook"}, stale : SUBSET Row]
Listings == [op : {"list"}, rows : SUBSET Row, stale : SUBSET Row, late : SUBSET Invoices]
Reconcilings == [op : {"reconcile"}, rows : SUBSET Row, stale : SUBSET Row, old : SubRow,
                 new : SubRow, late : SUBSET Invoices, day : Nat]
Settings == [op : {"licence", "activate"}, rows : SUBSET Row, stale : SUBSET Row,
             old : SubRow, new : SubRow]
Session == {Idle} \cup Issuings \cup Payings \cup Taggings \cup Endings \cup Listings
             \cup Reconcilings \cup Settings

\* A request works on invoices that are there: none is ever deleted.
OnIssued(w) ==
  /\ w.op = "pay" => w.invoice \in Issued
  /\ w.op \in {"list", "reconcile"} => w.late \subseteq Issued

\* A request that writes the subscription has the row as it is, or is known to be stale.
KnowsSub(w) ==
  w.op \in {"pay", "reconcile", "licence", "activate"} =>
    "sub" \in w.rows /\ (w.old = sub \/ "sub" \in w.stale)

\* What reconcile_subscriptions and activate_license are about to write: they suspend only
\* when the day asked for is past the grace after the end that was read, and take no day away.
Keeps(w) ==
  /\ w.op = "reconcile" =>
       /\ w.new.ends >= w.old.ends
       /\ w.new.status \in {"active", w.old.status} \/ w.day > w.old.ends + Grace
  /\ w.op = "activate" => w.new.ends = w.old.ends /\ w.new.status = "active"

\* Where the webhook stands with the event that it received.
Webhook(w) == w.op \in {"pay", "tag", "processed", "event"} /\ w.by = "webhook"
Carries(w) ==
  /\ w.op = "pay" => w.by = "manual" \/ w.ref \in Events
  /\ w.op \in {"tag", "processed"} =>
       /\ payment[w.payment] # NoRow
       /\ payment[w.payment].ref = w.ref /\ payment[w.payment].by = w.by
       /\ w.op = "processed" => payment[w.payment].ext = w.ref /\ w.by = "webhook"
  /\ Webhook(w) =>
       /\ w.ref \in Events
       /\ w.op \in {"pay", "event"} => event[w.ref] = "none"
       /\ w.op \in {"tag", "processed"} => event[w.ref] = "received"

Sound(w) == OnIssued(w) /\ KnowsSub(w) /\ Keeps(w) /\ Carries(w)

SessionsOK ==
  /\ work \in [Requests -> Session]
  /\ \A r \in Requests : Sound(work[r])
  /\ \A q, r \in Requests : Webhook(work[q]) /\ Webhook(work[r]) => q = r

EventsOK ==
  /\ \A k \in Payments : payment[k] # NoRow => payment[k].ext \in {NoEvent, payment[k].ref}
  /\ \A e \in Events :
       /\ \A j, k \in By(e, "webhook") : j = k
       /\ event[e] \in {"none", "failed", "ignored"} => By(e, "webhook") = {}
       /\ event[e] = "processed" => Recorded(e, "webhook")

IInv == TypeOK /\ SessionsOK /\ PaidIsServed /\ EventsOK

----------------------------------------------------------------------------------
(* Finite sets: by the smallest that fails                                        *)

LEMMA SmallestSet ==
  ASSUME NEW K, IsFiniteSet(K), NEW Bad \in SUBSET SUBSET K, Bad # {}
  PROVE  \E T \in Bad : \A U \in SUBSET T : U # T => U \notin Bad
<1>1. Bad \subseteq FiniteSubsetsOf(K)
  BY FS_Subset DEF FiniteSubsetsOf
<1>2. PICK T \in Bad : \A U \in Bad : ~(<<U, T>> \in StrictSubsetOrdering(K))
  BY <1>1, FS_StrictSubsetOrderingWellFounded, WFMin
<1>3. ASSUME NEW U \in SUBSET T, U # T, U \in Bad PROVE FALSE
  BY <1>2, <1>3 DEF StrictSubsetOrdering
<1> QED
  BY <1>3

\* By the smallest subset that has no last day
LEMMA LastOfFinite ==
  ASSUME NEW S, IsFiniteSet(S), S \subseteq Nat, S # {}
  PROVE  \E d \in S : \A e \in S : e <= d
<1> DEFINE Endless == {T \in SUBSET S : T # {} /\ ~\E d \in T : \A e \in T : e <= d}
<1>1. SUFFICES ASSUME S \in Endless PROVE FALSE
  OBVIOUS
<1>2. PICK T \in Endless : \A U \in SUBSET T : U # T => U \notin Endless
  <2>1. Endless \in SUBSET SUBSET S /\ Endless # {}
    BY <1>1
  <2> HIDE DEF Endless
  <2> QED
    BY <2>1, SmallestSet
<1>3. PICK x \in T : TRUE
  BY <1>2
<1>4. T \subseteq Nat /\ ~\E d \in T : \A e \in T : e <= d
  BY <1>2
<1>5. PICK d \in T : \A e \in T \ {x} : e <= d
  <2>1. CASE T \ {x} = {}
    BY <1>3, <2>1
  <2>2. CASE T \ {x} # {}
    BY <1>2, <2>2
  <2> QED
    BY <2>1, <2>2
<1>6. \A e \in T : e <= x \/ ~(x <= d)
  BY <1>3, <1>4, <1>5
<1>7. CASE x <= d
  BY <1>4, <1>5, <1>7
<1>8. CASE ~(x <= d)
  <2>1. \A e \in T : e <= x
    BY <1>3, <1>4, <1>5, <1>8
  <2> QED
    BY <1>3, <1>4, <2>1
<1> QED
  BY <1>7, <1>8

----------------------------------------------------------------------------------
(* What is written of the subscription                                            *)

\* A row that nobody changed meanwhile becomes what was meant.
LEMMA MergedIs ==
  ASSUME NEW row \in SubRow, NEW old \in SubRow, NEW new \in SubRow
  PROVE  /\ Merged(row, old, new) \in SubRow
         /\ row = old => Merged(row, old, new) = new
         /\ new = old => Merged(row, old, new) = row
BY DEF Merged, SubRow

LEMMA ExtendedIs ==
  ASSUME NEW w, w.old \in SubRow, invoice[w.invoice].to \in Nat
  PROVE  /\ Extended(w) \in SubRow
         /\ Extended(w).status = "active"
         /\ Extended(w).ends >= w.old.ends /\ Extended(w).ends >= invoice[w.invoice].to
<1>1. PICK old \in SubRow, to \in Nat : old = w.old /\ to = invoice[w.invoice].to
  OBVIOUS
<1>2. PICK last \in Nat : /\ last = IF old.ends < to THEN to ELSE old.ends
                          /\ last >= old.ends /\ last >= to
  <2>1. old.ends \in Nat
    BY DEF SubRow
  <2> QED
    BY <2>1
<1>3. Extended(w) = [old EXCEPT !.status = "active", !.ends = last]
  BY <1>1, <1>2 DEF Extended
<1> QED
  BY <1>1, <1>2, <1>3 DEF SubRow

LEMMA IssuedRows ==
  ASSUME TypeOK, NEW i \in Issued
  PROVE  i \in Invoices /\ invoice[i] \in InvoiceRow
BY DEF TypeOK, Issued

LEMMA LastPaidDayIs ==
  ASSUME TypeOK, NEW day, PaidRenewals(day) # {}
  PROVE  LastPaidDay(day) \in Nat
<1> DEFINE D == {invoice[i].to : i \in PaidRenewals(day)}
<1>1. \A i \in PaidRenewals(day) : i \in Invoices /\ invoice[i].to \in Nat
  BY IssuedRows DEF PaidRenewals, InvoiceRow
<1>2. IsFiniteSet(PaidRenewals(day))
  <2>1. PaidRenewals(day) \subseteq Invoices
    BY <1>1
  <2> QED
    BY <2>1, FS_Subset, SubscriptionsAssumption
<1>3. IsFiniteSet(D)
  <2> DEFINE f == [i \in PaidRenewals(day) |-> invoice[i].to]
  <2>1. f \in Surjection(PaidRenewals(day), D)
    BY DEF Surjection
  <2> HIDE DEF f, D
  <2> QED
    BY <1>2, <2>1, FS_Surjection
<1>4. D \subseteq Nat /\ D # {}
  BY <1>1
<1>5. \E d \in D : \A e \in D : e <= d
  <2> HIDE DEF D
  <2> QED
    BY <1>3, <1>4, LastOfFinite
<1>6. \E d \in D : \A i \in PaidRenewals(day) : invoice[i].to <= d
  BY <1>5
<1>7. LastPaidDay(day) \in D
  BY <1>6 DEF LastPaidDay
<1> QED
  BY <1>4, <1>7

LEMMA ReconciledIs ==
  ASSUME TypeOK, NEW day \in Nat
  PROVE  /\ Reconciled(day) \in SubRow
         /\ Reconciled(day).ends >= sub.ends
         /\ Reconciled(day).status \in {"active", sub.status} \/ day > sub.ends + Grace
<1>1. sub \in SubRow /\ sub.ends \in Nat
  BY DEF TypeOK, SubRow
<1>2. CASE sub.status = "suspended" /\ PaidRenewals(day) # {}
  <2>1. PICK d \in Nat : d = LastPaidDay(day)
    BY <1>2, LastPaidDayIs
  <2>2. PICK last \in Nat : last = Later(sub.ends, d) /\ last >= sub.ends
    BY <1>1 DEF Later
  <2>3. Reconciled(day) = [sub EXCEPT !.status = "active", !.ends = last]
    BY <1>2, <2>1, <2>2 DEF Reconciled
  <2> QED
    BY <1>1, <2>2, <2>3 DEF SubRow
<1>3. CASE ~(sub.status = "suspended" /\ PaidRenewals(day) # {})
  BY <1>1, <1>3 DEF Reconciled, GraceOver, SubRow
<1> QED
  BY <1>2, <1>3


----------------------------------------------------------------------------------
(* Sessions                                                                       *)

\* What a session is of, from what it is doing
LEMMA SessionIs ==
  ASSUME NEW w \in Session
  PROVE  /\ w.op = "none" => w = Idle
         /\ w.op = "issue" => w \in Issuings
         /\ w.op = "pay" => w \in Payings
         /\ w.op \in {"tag", "processed"} => w \in Taggings
         /\ w.op = "event" => w \in Endings
         /\ w.op = "list" => w \in Listings
         /\ w.op = "reconcile" => w \in Reconcilings
         /\ w.op \in {"licence", "activate"} => w \in Settings
         /\ w.op \in {"none", "issue", "pay", "tag", "processed", "event", "list", "reconcile",
                      "licence", "activate"}
         /\ w.op # "none" => w.rows \subseteq Row /\ w.stale \subseteq Row
BY DEF Session, Idle, Issuings, Payings, Taggings, Endings, Listings, Reconcilings, Settings

\* A session that learns that it is stale is otherwise the same.
LEMMA StaleIs ==
  ASSUME NEW w \in Session, w.op # "none", NEW S, S \subseteq Row
  PROVE  LET v == [w EXCEPT !.stale = S] IN
         /\ v \in Session
         /\ v.op = w.op /\ v.rows = w.rows /\ v.stale = S
         /\ w.op = "pay" => /\ v.invoice = w.invoice /\ v.amount = w.amount
                            /\ v.writes = w.writes
         /\ w.op \in {"list", "reconcile"} => v.late = w.late
         /\ w.op \in {"pay", "reconcile", "licence", "activate"} => v.old = w.old
         /\ w.op \in {"reconcile", "licence", "activate"} => v.new = w.new
         /\ w.op = "reconcile" => v.day = w.day
         /\ w.op \in {"tag", "processed"} => v.payment = w.payment
         /\ w.op \in {"pay", "tag", "processed", "event"} => v.ref = w.ref /\ v.by = w.by
<1>1. CASE w.op = "issue"
  BY <1>1, SessionIs DEF Session, Issuings
<1>2. CASE w.op = "pay"
  BY <1>2, SessionIs DEF Session, Payings
<1>3. CASE w.op \in {"tag", "processed"}
  BY <1>3, SessionIs DEF Session, Taggings
<1>4. CASE w.op = "event"
  BY <1>4, SessionIs DEF Session, Endings
<1>5. CASE w.op = "list"
  BY <1>5, SessionIs DEF Session, Listings
<1>6. CASE w.op = "reconcile"
  BY <1>6, SessionIs DEF Session, Reconcilings
<1>7. CASE w.op \in {"licence", "activate"}
  BY <1>7, SessionIs DEF Session, Settings
<1> QED
  BY <1>1, <1>2, <1>3, <1>4, <1>5, <1>6, <1>7, SessionIs

\* What the others do when request r commits
LEMMA CommitIs ==
  ASSUME work \in [Requests -> Session], NEW r \in Requests, NEW written, NEW then \in Session,
         Commit(r, written, then)
  PROVE  /\ work' \in [Requests -> Session]
         /\ work'[r] = then
         /\ \A q \in Requests \ {r} : work[q].op = "none" => work'[q] = Idle
         /\ \A q \in Requests \ {r} : work[q].op # "none" =>
              \E S \in SUBSET Row : /\ work'[q] = [work[q] EXCEPT !.stale = S]
                                    /\ S = work[q].stale \cup (written \cap work[q].rows)
         /\ blurred' = blurred \cup (written \cap work[r].stale)
         /\ UNCHANGED <<uses, today, calls, stops>>
<1> DEFINE Told(q) == work[q].stale \cup (written \cap work[q].rows)
<1>1. \A q \in Requests : work[q] \in Session
  OBVIOUS
<1>2. work' = [q \in Requests |-> IF q = r THEN then ELSE IF work[q].op = "none" THEN Idle
                                  ELSE [work[q] EXCEPT !.stale = Told(q)]]
  BY DEF Commit, Ready
<1>3. \A q \in Requests : work[q].op # "none" => Told(q) \in SUBSET Row
  BY <1>1, SessionIs
<1>4. \A q \in Requests : work[q].op # "none" => [work[q] EXCEPT !.stale = Told(q)] \in Session
  BY <1>1, <1>3, StaleIs
<1>5. Idle \in Session
  BY DEF Session
<1>6. \A q \in Requests \ {r} : work[q].op # "none" =>
        work'[q] = [work[q] EXCEPT !.stale = Told(q)]
  BY <1>2
<1>7. work' \in [Requests -> Session]
  <2> HIDE DEF Told
  <2> QED
    BY <1>2, <1>4, <1>5
<1> QED
  <2> HIDE DEF Told
  <2>1. \A q \in Requests \ {r} : work[q].op # "none" =>
          \E S \in SUBSET Row : work'[q] = [work[q] EXCEPT !.stale = S] /\ S = Told(q)
    BY <1>3, <1>6
  <2>2. work'[r] = then /\ \A q \in Requests \ {r} : work[q].op = "none" => work'[q] = Idle
    BY <1>2
  <2> QED
    BY <1>7, <2>1, <2>2 DEF Commit, Told

----------------------------------------------------------------------------------
(* A request begins                                                               *)

\* A session that the invariant allows
Fits(s) ==
  /\ s \in Session /\ s.op # "none"
  /\ Sound(s)
  /\ Webhook(s) => \A q \in Requests : ~Webhook(work[q])

LEMMA IssuingFits ==
  ASSUME NEW from \in Nat, NEW kind \in Kinds
  PROVE  Fits(Issuing(from, kind))
BY DEF Fits, Sound, Issuing, Session, Issuings, Row, OnIssued, KnowsSub, Keeps, Carries,
   Webhook

\* A webhook begins only where no other is under way.
LEMMA NoOtherWebhook ==
  ASSUME work \in [Requests -> Session], \A q \in Requests : ~InWebhook(q)
  PROVE  \A q \in Requests : ~Webhook(work[q])
<1>1. SUFFICES ASSUME NEW q \in Requests, Webhook(work[q]) PROVE FALSE
  OBVIOUS
<1>2. PICK w \in Session : w = work[q]
  OBVIOUS
<1>3. w.op # "none" /\ w.by = "webhook" /\ "by" \in DOMAIN w
  <2>1. CASE w.op = "pay"
    BY <1>1, <1>2, <2>1, SessionIs DEF Webhook, Payings
  <2>2. CASE w.op \in {"tag", "processed"}
    BY <1>1, <1>2, <2>2, SessionIs DEF Webhook, Taggings
  <2>3. CASE w.op = "event"
    BY <1>1, <1>2, <2>3, SessionIs DEF Webhook, Endings
  <2> QED
    BY <1>1, <1>2, <2>1, <2>2, <2>3 DEF Webhook
<1> QED
  BY <1>1, <1>2, <1>3 DEF InWebhook, Ready

LEMMA PayingFits ==
  ASSUME TypeOK, NEW i \in Issued, NEW amount \in Amounts, NEW e \in Events \cup {NoEvent},
         NEW by \in {"manual", "provider", "webhook"},
         by = "manual" \/ e \in Events,
         by = "webhook" => ~Received(e) /\ \A q \in Requests : ~Webhook(work[q])
  PROVE  Fits(Paying(i, amount, e, by))
<1>1. i \in Invoices /\ sub \in SubRow
  BY IssuedRows DEF TypeOK
<1>2. PICK W \in SUBSET Row : W = IF Settles(i, amount) THEN {i, "sub"} ELSE {i}
  BY <1>1 DEF Row
<1>3. PICK s : s = Paying(i, amount, e, by)
  OBVIOUS
<1>4. s = [op |-> "pay", invoice |-> i, rows |-> {i, "sub"}, amount |-> amount, ref |-> e,
           by |-> by, stale |-> {}, old |-> sub, writes |-> W]
  BY <1>2, <1>3 DEF Paying
<1>5. s \in Payings
  BY <1>1, <1>4 DEF Payings, Row
<1>6. OnIssued(s) /\ KnowsSub(s) /\ Keeps(s)
  BY <1>4 DEF OnIssued, KnowsSub, Keeps
<1>7. Carries(s) /\ (Webhook(s) => \A q \in Requests : ~Webhook(work[q]))
  BY <1>4 DEF Carries, Webhook, Received
<1> QED
  BY <1>3, <1>4, <1>5, <1>6, <1>7 DEF Fits, Sound, Session

LEMMA EndingFits ==
  ASSUME NEW e \in Events, NEW to \in {"ignored", "failed"}, ~Received(e),
         \A q \in Requests : ~Webhook(work[q])
  PROVE  Fits([op |-> "event", rows |-> {}, to |-> to, ref |-> e, by |-> "webhook",
               stale |-> {}])
BY DEF Fits, Sound, Session, Endings, Row, OnIssued, KnowsSub, Keeps, Carries, Webhook,
   Received

LEMMA SettingFits ==
  ASSUME TypeOK, NEW op \in {"licence", "activate"}, NEW new \in SubRow,
         op = "activate" => new.ends = sub.ends /\ new.status = "active"
  PROVE  Fits(Setting(op, new))
<1>1. sub \in SubRow
  BY DEF TypeOK
<1> QED
  BY <1>1 DEF Fits, Sound, Setting, Session, Settings, Row, OnIssued, KnowsSub, Keeps,
              Carries, Webhook

LEMMA ListingFits ==
  ASSUME NEW late \in SUBSET Issued
  PROVE  Fits([op |-> "list", rows |-> late, stale |-> {}, late |-> late])
<1>1. late \subseteq Invoices
  BY DEF Issued
<1> QED
  BY <1>1 DEF Fits, Sound, Session, Listings, Row, OnIssued, KnowsSub, Keeps, Carries, Webhook

LEMMA ReconcilingFits ==
  ASSUME TypeOK, NEW late \in SUBSET Issued, NEW new \in SubRow, new.ends >= sub.ends,
         NEW day \in Nat,
         new.status \in {"active", sub.status} \/ day > sub.ends + Grace
  PROVE  Fits([op |-> "reconcile", rows |-> late \cup {"sub"}, stale |-> {}, old |-> sub,
               new |-> new, late |-> late, day |-> day])
<1>1. PICK s : s = [op |-> "reconcile", rows |-> late \cup {"sub"}, stale |-> {}, old |-> sub,
                    new |-> new, late |-> late, day |-> day]
  OBVIOUS
<1>2. /\ s.op = "reconcile" /\ s.late = late /\ s.old = sub /\ s.new = new /\ s.day = day
      /\ s.rows = late \cup {"sub"}
  BY <1>1
<1>3. s \in Reconcilings
  <2>1. late \subseteq Invoices /\ sub \in SubRow
    BY DEF Issued, TypeOK
  <2> QED
    BY <1>1, <2>1 DEF Reconcilings, Row
<1>4. OnIssued(s) /\ KnowsSub(s)
  BY <1>2 DEF OnIssued, KnowsSub
<1>5. Keeps(s)
  <2>1. s.new.ends >= s.old.ends
    BY <1>2
  <2>2. s.new.status \in {"active", s.old.status} \/ s.day > s.old.ends + Grace
    BY <1>2
  <2> QED
    BY <1>2, <2>1, <2>2 DEF Keeps
<1>6. Carries(s) /\ ~Webhook(s)
  BY <1>2 DEF Carries, Webhook
<1>7. Fits(s)
  BY <1>2, <1>3, <1>4, <1>5, <1>6 DEF Fits, Sound, Session
<1> QED
  BY <1>1, <1>7

LEMMA ReadIs ==
  ASSUME TypeOK, SessionsOK, NEW r \in Requests, Read(r)
  PROVE  \E s : Fits(s) /\ Begin(r, s)
<1>1. /\ today \in Nat /\ sub \in SubRow /\ sub.ends \in Nat
      /\ \A kind \in Kinds : Length[kind] \in Nat
      /\ Terms \subseteq Nat /\ Dates \cup {today} \subseteq Nat
  BY SubscriptionsAssumption DEF TypeOK, SubRow
<1>2. ASSUME NEW kind \in Kinds, IssueRead(r, kind) \/ RenewRead(r, kind)
      PROVE  \E s : Fits(s) /\ Begin(r, s)
  <2>1. RenewalStart \in Nat
    BY <1>1 DEF RenewalStart
  <2> QED
    BY <1>1, <1>2, <2>1, IssuingFits DEF IssueRead, RenewRead
<1>3. ASSUME NEW i \in Invoices, NEW amount \in Amounts, PayRead(r, i, amount)
      PROVE  \E s : Fits(s) /\ Begin(r, s)
  BY <1>3, PayingFits DEF PayRead, MayPay
<1>4. ASSUME NEW e \in Events, NEW i \in Invoices, NEW amount \in Amounts,
             ProviderRead(r, e, i, amount)
      PROVE  \E s : Fits(s) /\ Begin(r, s)
  BY <1>4, PayingFits DEF ProviderRead, MayPay
<1>5. ASSUME NEW e \in Events, NEW s, WebhookRead(r, e, s)
      PROVE  ~Received(e) /\ Begin(r, s) /\ \A q \in Requests : ~Webhook(work[q])
  BY <1>5, NoOtherWebhook DEF WebhookRead, SessionsOK
<1>6. ASSUME NEW e \in Events, NEW i \in Invoices, NEW amount \in Amounts,
             WebhookPays(r, e, i, amount)
      PROVE  \E s : Fits(s) /\ Begin(r, s)
  BY <1>5, <1>6, PayingFits DEF WebhookPays, MayPay
<1>7. ASSUME NEW e \in Events, NEW to \in {"ignored", "failed"}, WebhookEnds(r, e, to)
      PROVE  \E s : Fits(s) /\ Begin(r, s)
  BY <1>5, <1>7, EndingFits DEF WebhookEnds
<1>8. ASSUME NEW day \in Dates \cup {today}, ListRead(r) \/ ReconcileRead(r, day)
      PROVE  \E s : Fits(s) /\ Begin(r, s)
  <2>1. PastDue(day) \subseteq Issued /\ PastDue(today) \subseteq Issued /\ day \in Nat
    BY <1>1 DEF PastDue
  <2>2. CASE ListRead(r)
    BY <2>1, <2>2, ListingFits DEF ListRead
  <2>3. CASE ReconcileRead(r, day)
    BY <2>1, <2>3, ReconciledIs, ReconcilingFits DEF ReconcileRead
  <2> QED
    BY <1>8, <2>2, <2>3
<1>9. ASSUME NEW days \in Terms, LicenceRead(r, days) PROVE \E s : Fits(s) /\ Begin(r, s)
  <2>1. [status |-> "active", ends |-> today + days, key |-> TRUE] \in SubRow
    BY <1>1 DEF SubRow
  <2> QED
    BY <1>9, <2>1, SettingFits DEF LicenceRead
<1>10. ASSUME ActivateRead(r) PROVE \E s : Fits(s) /\ Begin(r, s)
  <2>1. PICK new : new = [sub EXCEPT !.status = "active"]
    OBVIOUS
  <2>2. new \in SubRow /\ new.ends = sub.ends /\ new.status = "active"
    BY <1>1, <2>1 DEF SubRow
  <2> QED
    BY <1>10, <2>1, <2>2, SettingFits DEF ActivateRead
<1>11. ASSUME NEW status \in {"active", "suspended", "expired"}, NEW days \in Terms,
              UpdateRead(r, status, today + days)
       PROVE  \E s : Fits(s) /\ Begin(r, s)
  <2>1. PICK new : new = [sub EXCEPT !.status = status, !.ends = today + days]
    OBVIOUS
  <2>2. today + days \in Nat
    BY <1>1
  <2>3. new \in SubRow
    BY <1>1, <2>1, <2>2 DEF SubRow
  <2> QED
    BY <1>11, <2>1, <2>3, SettingFits DEF UpdateRead
<1> QED
  BY <1>2, <1>3, <1>4, <1>6, <1>7, <1>8, <1>9, <1>10, <1>11 DEF Read, WebhookFails

LEMMA BeginKeeps ==
  ASSUME IInv, NEW r \in Requests, NEW s, Fits(s), Begin(r, s)
  PROVE  IInv'
<1>1. /\ UNCHANGED <<uses, today, sub, invoice, payment, event, stops, blurred, torn, promised,
                  asked>>
      /\ work' = [work EXCEPT ![r] = s]
      /\ calls' = calls + 1 /\ calls < MaxCalls[uses]
  BY DEF Begin, rows, history
<1>2. TypeOK'
  <2>1. MaxCalls[uses] \in Nat /\ calls \in Nat
    BY SubscriptionsAssumption DEF IInv, TypeOK
  <2>2. calls' \in 0..MaxCalls[uses]
    BY <1>1, <2>1
  <2> QED
    BY <1>1, <2>2 DEF IInv, TypeOK
<1>3. SessionsOK'
  <2>1. work' \in [Requests -> Session] /\ work'[r] = s
    BY <1>1 DEF IInv, SessionsOK, Fits
  <2>2. ASSUME NEW q \in Requests PROVE Sound(work[q])'
    <3>1. PICK w : w = work'[q]
      OBVIOUS
    <3>2. Sound(w)
      BY <1>1, <2>1, <3>1 DEF IInv, SessionsOK, Fits
    <3>3. Sound(w)'
      BY <1>1, <3>2 DEF Sound, OnIssued, KnowsSub, Keeps, Carries, Webhook, Issued
    <3> QED
      BY <3>1, <3>3 DEF Sound, OnIssued, KnowsSub, Keeps, Carries, Webhook, Issued
  <2>3. ASSUME NEW p \in Requests, NEW q \in Requests, Webhook(work[p])', Webhook(work[q])'
        PROVE  p = q
    <3>1. PICK v, w : v = work'[p] /\ w = work'[q] /\ Webhook(v) /\ Webhook(w)
      BY <2>3 DEF Webhook
    <3>2. CASE p = r /\ q # r
      BY <1>1, <2>1, <3>1, <3>2 DEF Fits
    <3>3. CASE p # r /\ q = r
      BY <1>1, <2>1, <3>1, <3>3 DEF Fits
    <3>4. CASE p # r /\ q # r
      BY <1>1, <3>1, <3>4 DEF IInv, SessionsOK
    <3> QED
      BY <3>2, <3>3, <3>4
  <2> QED
    BY <2>1, <2>2, <2>3 DEF SessionsOK
<1>4. PaidIsServed'
  BY <1>1 DEF IInv, PaidIsServed
<1>5. EventsOK'
  BY <1>1 DEF IInv, EventsOK, By, Recorded
<1> QED
  BY <1>2, <1>3, <1>4, <1>5 DEF IInv

----------------------------------------------------------------------------------
(* A request commits: what becomes of the sessions                                *)

\* The sessions of the others
LEMMA OthersAreSound ==
  ASSUME NEW w \in Session, Sound(w), w.op # "none", NEW S \in SUBSET Row, w.stale \subseteq S,
         Issued \subseteq Issued', today' = today,
         sub' = sub \/ ("sub" \in w.rows => "sub" \in S),
         \A k \in Payments : payment[k] # NoRow =>
           /\ payment'[k] # NoRow
           /\ payment'[k].ref = payment[k].ref /\ payment'[k].by = payment[k].by
           /\ payment[k].ext = NoEvent \/ payment'[k].ext = payment[k].ext,
         Webhook(w) => event'[w.ref] = event[w.ref],
         NEW v, v = [w EXCEPT !.stale = S]
  PROVE  v \in Session /\ Sound(v)' /\ (Webhook(v) <=> Webhook(w))
<1>1. /\ v \in Session
      /\ v.op = w.op /\ v.rows = w.rows /\ v.stale = S
      /\ w.op = "pay" => v.invoice = w.invoice
      /\ w.op \in {"list", "reconcile"} => v.late = w.late
      /\ w.op \in {"pay", "reconcile", "licence", "activate"} => v.old = w.old
      /\ w.op \in {"reconcile", "licence", "activate"} => v.new = w.new
      /\ w.op = "reconcile" => v.day = w.day
      /\ w.op \in {"tag", "processed"} => v.payment = w.payment
      /\ w.op \in {"pay", "tag", "processed", "event"} => v.ref = w.ref /\ v.by = w.by
  BY StaleIs
<1>2. Webhook(v) <=> Webhook(w)
  BY <1>1 DEF Webhook
<1>3. OnIssued(v)'
  BY <1>1 DEF Sound, OnIssued
<1>4. KnowsSub(v)'
  BY <1>1 DEF Sound, KnowsSub
<1>5. Keeps(v)'
  BY <1>1 DEF Sound, Keeps
<1>6. Carries(v)'
  <2>1. w.op \in {"tag", "processed"} => w.payment \in Payments /\ w.ref \in Events
    BY SessionIs DEF Taggings
  <2>2. CASE w.op \in {"tag", "processed"}
    BY <1>1, <1>2, <2>1, <2>2, SubscriptionsAssumption DEF Sound, Carries, Webhook
  <2>3. CASE w.op \notin {"tag", "processed"}
    BY <1>1, <1>2, <2>3 DEF Sound, Carries, Webhook
  <2> QED
    BY <2>2, <2>3
<1> QED
  BY <1>1, <1>2, <1>3, <1>4, <1>5, <1>6 DEF Sound

\* What a commit does to the rows, as far as the sessions depend on it
Respects(r, written) ==
  /\ Issued \subseteq Issued'
  /\ sub' = sub \/ "sub" \in written
  /\ \A k \in Payments : payment[k] # NoRow =>
       /\ payment'[k] # NoRow
       /\ payment'[k].ref = payment[k].ref /\ payment'[k].by = payment[k].by
       /\ payment[k].ext = NoEvent \/ payment'[k].ext = payment[k].ext
  /\ \A e \in Events : event'[e] = event[e] \/ (Webhook(work[r]) /\ work[r].ref = e)

LEMMA CommitKeepsSessions ==
  ASSUME SessionsOK, NEW r \in Requests, NEW written, NEW then \in Session,
         Commit(r, written, then), Respects(r, written),
         Sound(then)', Webhook(then) => Webhook(work[r])
  PROVE  SessionsOK'
<1>1. /\ work' \in [Requests -> Session]
      /\ work'[r] = then
      /\ \A q \in Requests \ {r} : work[q].op = "none" => work'[q] = Idle
      /\ \A q \in Requests \ {r} : work[q].op # "none" =>
           \E S \in SUBSET Row : /\ work'[q] = [work[q] EXCEPT !.stale = S]
                                 /\ S = work[q].stale \cup (written \cap work[q].rows)
      /\ today' = today
  BY CommitIs DEF SessionsOK
<1>2. ASSUME NEW q \in Requests, q # r
      PROVE  \E v : v = work'[q] /\ Sound(v)' /\ (Webhook(v) => Webhook(work[q]))
  <2>1. CASE work[q].op = "none"
    <3>1. Sound(Idle)' /\ ~Webhook(Idle)
      BY DEF Idle, Sound, OnIssued, KnowsSub, Keeps, Carries, Webhook
    <3> QED
      BY <1>1, <1>2, <2>1, <3>1
  <2>2. CASE work[q].op # "none"
    <3>1. PICK S \in SUBSET Row : /\ work'[q] = [work[q] EXCEPT !.stale = S]
                                  /\ S = work[q].stale \cup (written \cap work[q].rows)
      BY <1>1, <1>2, <2>2
    <3>2. PICK w \in Session : w = work[q] /\ Sound(w)
      BY DEF SessionsOK
    <3>3. PICK v : v = [w EXCEPT !.stale = S]
      OBVIOUS
    <3>4. w.stale \subseteq S /\ (sub' = sub \/ ("sub" \in w.rows => "sub" \in S))
      BY <3>1, <3>2 DEF Respects
    <3>5. Webhook(w) => event'[w.ref] = event[w.ref]
      BY <1>2, <3>2 DEF Respects, SessionsOK, Sound, Carries
    <3>6. Sound(v)' /\ (Webhook(v) <=> Webhook(w))
      BY <1>1, <2>2, <3>2, <3>3, <3>4, <3>5, OthersAreSound DEF Respects
    <3> QED
      BY <3>1, <3>2, <3>3, <3>6
  <2> QED
    BY <2>1, <2>2
<1>3. ASSUME NEW q \in Requests PROVE Sound(work[q])'
  <2>1. PICK v : v = work'[q] /\ Sound(v)'
    BY <1>1, <1>2
  <2> QED
    BY <2>1 DEF Sound, OnIssued, KnowsSub, Keeps, Carries, Webhook
<1>4. ASSUME NEW q \in Requests, Webhook(work[q])' PROVE Webhook(work[q])
  <2>1. PICK v : v = work'[q] /\ (Webhook(v) => Webhook(work[q]))
    BY <1>1, <1>2
  <2> QED
    BY <1>4, <2>1 DEF Webhook
<1> QED
  BY <1>1, <1>3, <1>4 DEF SessionsOK

----------------------------------------------------------------------------------
(* A request commits: what becomes of the rows                                    *)

LEMMA IdleIsSound == Idle \in Session /\ Sound(Idle)' /\ ~Webhook(Idle)
BY DEF Session, Idle, Sound, OnIssued, KnowsSub, Keeps, Carries, Webhook

LEMMA RowsAre ==
  ASSUME IInv, NEW r \in Requests
  PROVE  /\ work \in [Requests -> Session] /\ work[r] \in Session /\ Sound(work[r])
         /\ today \in Nat /\ promised \in Nat /\ asked \in Nat /\ sub \in SubRow /\ sub.ends \in Nat
         /\ Grace \in Nat
         /\ invoice \in [Invoices -> InvoiceRow \cup {NoRow}]
         /\ payment \in [Payments -> PaymentRow \cup {NoRow}]
         /\ event \in [Events -> {"none", "received", "processed", "ignored", "failed"}]
         /\ NoRow \notin InvoiceRow \cup PaymentRow /\ NoEvent \notin Events
BY SubscriptionsAssumption DEF IInv, TypeOK, SessionsOK, SubRow

LEMMA IssueCommitKeeps ==
  ASSUME IInv, NEW r \in Requests, NEW i \in Invoices, IssueCommit(r, i)
  PROVE  IInv'
<1>1. PICK w \in Issuings : w = work[r]
  BY RowsAre, SessionIs DEF IssueCommit, Ready
<1>2. PICK row \in InvoiceRow : invoice' = [invoice EXCEPT ![i] = row]
  <2>1. /\ w.from \in Nat /\ w.kind \in Kinds
        /\ Length[w.kind] \in Nat \ {0} /\ Price[w.kind] \in Nat /\ DueDays \in Nat
        /\ today \in Nat
    BY <1>1, RowsAre, SubscriptionsAssumption DEF Issuings
  <2>2. w.from + Length[w.kind] - 1 \in Nat /\ today + DueDays \in Nat
    BY <2>1
  <2>3. [status |-> "issued", from |-> w.from, to |-> w.from + Length[w.kind] - 1,
         amount |-> Price[w.kind], due |-> today + DueDays] \in InvoiceRow
    BY <2>1, <2>2 DEF InvoiceRow
  <2> QED
    BY <1>1, <2>3 DEF IssueCommit
<1>3. UNCHANGED <<sub, payment, event, torn, promised, asked>> /\ Commit(r, {}, Idle)
  BY DEF IssueCommit
<1>4. /\ UNCHANGED <<uses, today, calls, stops>> /\ blurred' = blurred
  BY <1>3 DEF Commit
<1>5. TypeOK'
  BY <1>2, <1>3, <1>4 DEF IInv, TypeOK
<1>6. Issued \subseteq Issued'
  BY <1>2, RowsAre DEF Issued
<1>7. SessionsOK'
  <2>1. Respects(r, {})
    BY <1>3, <1>6 DEF Respects
  <2> QED
    BY <1>3, <2>1, IdleIsSound, CommitKeepsSessions DEF IInv
<1>8. PaidIsServed' /\ EventsOK'
  BY <1>3, <1>4 DEF IInv, PaidIsServed, EventsOK, By, Recorded
<1> QED
  BY <1>5, <1>7, <1>8 DEF IInv

\* What is still true of the subscription when a request that is not stale writes it
LEMMA SubWritten ==
  ASSUME IInv, NEW r \in Requests, NEW w \in Session, w = work[r],
         w.op \in {"pay", "reconcile", "licence", "activate"},
         NEW new \in SubRow, sub' = Merged(sub, w.old, new),
         NEW written, new # w.old => "sub" \in written,
         blurred' = blurred \cup (written \cap w.stale)
  PROVE  /\ sub' \in SubRow
         /\ sub' = sub \/ "sub" \in written
         /\ "sub" \notin blurred' => (w.old = sub /\ sub' = new) \/ (sub' = sub /\ new = w.old)
<1>1. sub \in SubRow /\ w.old \in SubRow
  <2>1. sub \in SubRow
    BY RowsAre
  <2>2. CASE w.op = "pay"
    BY <2>1, <2>2, SessionIs DEF Payings
  <2>3. CASE w.op = "reconcile"
    BY <2>1, <2>3, SessionIs DEF Reconcilings
  <2>4. CASE w.op \in {"licence", "activate"}
    BY <2>1, <2>4, SessionIs DEF Settings
  <2> QED
    BY <2>2, <2>3, <2>4
<1>2. w.old = sub \/ "sub" \in w.stale
  BY RowsAre DEF Sound, KnowsSub
<1>3. /\ sub' \in SubRow
      /\ sub = w.old => sub' = new
      /\ new = w.old => sub' = sub
  BY <1>1, MergedIs
<1> QED
  BY <1>2, <1>3

LEMMA PayCommitIs ==
  ASSUME IInv, NEW r \in Requests, NEW k \in Payments, PayCommit(r, k)
  PROVE  \E w \in Payings :
           /\ w = work[r] /\ w.invoice \in Issued /\ invoice[w.invoice] \in InvoiceRow
           /\ payment[k] = NoRow
           /\ \E row \in PaymentRow :
                /\ payment' = [payment EXCEPT ![k] = row]
                /\ row.ref = w.ref /\ row.by = w.by /\ row.ext = NoEvent
                /\ row.invoice = w.invoice /\ row.amount = w.amount
           /\ \/ /\ "sub" \in w.writes
                 /\ invoice' = [invoice EXCEPT ![w.invoice].status = "paid"]
                 /\ sub' = Merged(sub, w.old, Extended(w))
                 /\ promised' = Later(promised, invoice[w.invoice].to) /\ asked' = 0
              \/ /\ "sub" \notin w.writes
                 /\ invoice' = invoice /\ sub' = sub /\ promised' = promised
                 /\ asked' = asked
           /\ event' = IF w.by = "webhook" THEN [event EXCEPT ![w.ref] = "received"] ELSE event
           /\ Commit(r, w.writes, IF w.by = "manual" THEN Idle
                                  ELSE [op |-> "tag", payment |-> k, rows |-> {},
                                        ref |-> w.ref, by |-> w.by, stale |-> {}])
           /\ UNCHANGED torn
<1>1. PICK w \in Payings : w = work[r]
  BY RowsAre, SessionIs DEF PayCommit, Ready
<1>2. w.invoice \in Issued /\ invoice[w.invoice] \in InvoiceRow
  <2>1. w.op = "pay" /\ OnIssued(w) /\ TypeOK
    BY <1>1, RowsAre DEF Payings, Sound, IInv
  <2> QED
    BY <2>1, IssuedRows DEF OnIssued
<1>3. PICK row : row = [invoice |-> w.invoice, amount |-> w.amount, ref |-> w.ref,
                        ext |-> NoEvent, by |-> w.by]
  OBVIOUS
<1>4. /\ row \in PaymentRow /\ row.ref = w.ref /\ row.by = w.by /\ row.ext = NoEvent
      /\ row.invoice = w.invoice /\ row.amount = w.amount
  BY <1>3 DEF PaymentRow, Payings
<1>5. payment' = [payment EXCEPT ![k] = row]
  BY <1>1, <1>3 DEF PayCommit
<1> QED
  BY <1>1, <1>2, <1>4, <1>5 DEF PayCommit, FirstState

LEMMA PayCommitKeeps ==
  ASSUME IInv, NEW r \in Requests, NEW k \in Payments, PayCommit(r, k)
  PROVE  IInv'
<1>1. PICK w \in Payings :
        /\ w = work[r] /\ w.invoice \in Issued /\ invoice[w.invoice] \in InvoiceRow
        /\ payment[k] = NoRow
        /\ \E row \in PaymentRow :
             /\ payment' = [payment EXCEPT ![k] = row]
             /\ row.ref = w.ref /\ row.by = w.by /\ row.ext = NoEvent
             /\ row.invoice = w.invoice /\ row.amount = w.amount
        /\ \/ /\ "sub" \in w.writes
              /\ invoice' = [invoice EXCEPT ![w.invoice].status = "paid"]
              /\ sub' = Merged(sub, w.old, Extended(w))
              /\ promised' = Later(promised, invoice[w.invoice].to) /\ asked' = 0
           \/ /\ "sub" \notin w.writes
              /\ invoice' = invoice /\ sub' = sub /\ promised' = promised
              /\ asked' = asked
        /\ event' = IF w.by = "webhook" THEN [event EXCEPT ![w.ref] = "received"] ELSE event
        /\ Commit(r, w.writes, IF w.by = "manual" THEN Idle
                               ELSE [op |-> "tag", payment |-> k, rows |-> {}, ref |-> w.ref,
                                     by |-> w.by, stale |-> {}])
        /\ UNCHANGED torn
  BY PayCommitIs
<1>2. PICK row \in PaymentRow :
        /\ payment' = [payment EXCEPT ![k] = row]
        /\ row.ref = w.ref /\ row.by = w.by /\ row.ext = NoEvent
  BY <1>1
<1>3. /\ UNCHANGED <<uses, today, calls, stops>>
      /\ blurred' = blurred \cup (w.writes \cap w.stale)
  BY <1>1 DEF Commit
<1>4. w \in Session /\ w.op = "pay" /\ w.old \in SubRow /\ w.ref \in Events \cup {NoEvent}
  BY DEF Payings, Session
<1>5. PICK to \in Nat : to = invoice[w.invoice].to
  BY <1>1 DEF InvoiceRow
<1>6. /\ sub' \in SubRow /\ promised' \in Nat /\ asked' \in Nat
      /\ sub' = sub \/ "sub" \in w.writes
      /\ "sub" \notin blurred' =>
           \/ sub' = sub /\ promised' = promised /\ asked' = asked
           \/ /\ sub'.status = "active" /\ sub'.ends >= sub.ends /\ sub'.ends >= to
              /\ promised' = Later(promised, to)
  <2>1. CASE sub' = sub /\ promised' = promised /\ asked' = asked
    BY <2>1, RowsAre
  <2>2. CASE /\ "sub" \in w.writes
             /\ sub' = Merged(sub, w.old, Extended(w))
             /\ promised' = Later(promised, invoice[w.invoice].to) /\ asked' = 0
    <3>1. PICK new \in SubRow : /\ new = Extended(w) /\ new.status = "active"
                               /\ new.ends >= w.old.ends /\ new.ends >= to
      BY <1>4, <1>5, ExtendedIs
    <3>2. /\ sub' \in SubRow
          /\ "sub" \notin blurred' => (w.old = sub /\ sub' = new) \/ (sub' = sub /\ new = w.old)
      BY <1>1, <1>3, <1>4, <2>2, <3>1, SubWritten
    <3>3. promised' \in Nat
      BY <1>5, <2>2, RowsAre DEF Later
    <3>4. ASSUME "sub" \notin blurred'
          PROVE  sub'.status = "active" /\ sub'.ends >= sub.ends /\ sub'.ends >= to
      <4>1. sub' = new
        BY <1>4, <1>3, <2>2, <3>2, <3>4, <1>1, RowsAre DEF Sound, KnowsSub
      <4>2. w.old = sub
        BY <1>4, <1>3, <2>2, <3>4, <1>1, RowsAre DEF Sound, KnowsSub
      <4> QED
        BY <3>1, <4>1, <4>2
    <3> QED
      BY <1>5, <2>2, <3>2, <3>3, <3>4
  <2> QED
    BY <1>1, <2>1, <2>2
<1>7. Issued \subseteq Issued' /\ invoice' \in [Invoices -> InvoiceRow \cup {NoRow}]
  <2>1. CASE invoice' = invoice
    BY <2>1, RowsAre DEF Issued
  <2>2. CASE invoice' = [invoice EXCEPT ![w.invoice].status = "paid"]
    <3>1. [invoice[w.invoice] EXCEPT !.status = "paid"] \in InvoiceRow
      BY <1>1 DEF InvoiceRow
    <3> QED
      BY <2>2, <3>1, RowsAre DEF Issued
  <2> QED
    BY <1>1, <2>1, <2>2
<1>8. TypeOK'
  <2>1. payment' \in [Payments -> PaymentRow \cup {NoRow}]
    BY <1>2, RowsAre
  <2>2. event' \in [Events -> {"none", "received", "processed", "ignored", "failed"}]
    BY <1>1, RowsAre
  <2>3. promised' <= sub'.ends \/ "sub" \in blurred'
    <3>1. SUFFICES ASSUME "sub" \notin blurred' PROVE promised' <= sub'.ends
      OBVIOUS
    <3>2. promised <= sub.ends
      BY <1>3, <3>1 DEF IInv, TypeOK
    <3>3. promised \in Nat /\ sub.ends \in Nat /\ sub'.ends \in Nat
      BY <1>6, RowsAre DEF SubRow
    <3> QED
      BY <1>6, <3>1, <3>2, <3>3 DEF Later
  <2> QED
    BY <1>3, <1>6, <1>7, <2>1, <2>2, <2>3 DEF IInv, TypeOK
<1>9. PaidIsServed'
  <2>1. SUFFICES ASSUME "sub" \notin blurred', asked' <= promised' + Grace, promised' > 0
                 PROVE  sub'.status = "active" /\ sub'.ends >= promised'
    BY <1>3 DEF PaidIsServed
  <2>2. sub'.ends >= promised'
    BY <1>6, <1>8, <2>1, RowsAre DEF TypeOK, SubRow
  <2>3. CASE sub' = sub /\ promised' = promised /\ asked' = asked
    BY <1>3, <2>1, <2>2, <2>3 DEF IInv, PaidIsServed
  <2> QED
    BY <1>6, <2>1, <2>2, <2>3
<1>10. SessionsOK'
  <2>1. Respects(r, w.writes)
    <3>1. \A j \in Payments : payment[j] # NoRow => payment'[j] = payment[j]
      BY <1>1, <1>2, RowsAre
    <3>2. \A e \in Events : event'[e] = event[e] \/ (Webhook(work[r]) /\ work[r].ref = e)
      BY <1>1, <1>4, RowsAre DEF Webhook
    <3> QED
      BY <1>6, <1>7, <3>1, <3>2 DEF Respects
  <2>2. CASE w.by = "manual"
    BY <1>1, <2>1, <2>2, IdleIsSound, CommitKeepsSessions DEF IInv
  <2>3. CASE w.by # "manual"
    <3>1. w.by \in {"provider", "webhook"} /\ w.ref \in Events
      <4>1. w.by \in {"manual", "provider", "webhook"}
        BY DEF Payings
      <4>2. w.ref \in Events
        BY <1>1, <1>4, <2>3, RowsAre DEF Sound, Carries
      <4> QED
        BY <2>3, <4>1, <4>2
    <3>2. PICK s : s = [op |-> "tag", payment |-> k, rows |-> {}, ref |-> w.ref, by |-> w.by,
                        stale |-> {}]
      OBVIOUS
    <3>3. s \in Session /\ (Webhook(s) => Webhook(work[r]))
      BY <1>1, <1>4, <3>1, <3>2 DEF Session, Taggings, Webhook
    <3>4. Sound(s)'
      BY <1>1, <1>2, <3>1, <3>2, RowsAre
         DEF Sound, OnIssued, KnowsSub, Keeps, Carries, Webhook
    <3> QED
      BY <1>1, <2>1, <2>3, <3>2, <3>3, <3>4, CommitKeepsSessions DEF IInv
  <2> QED
    BY <2>2, <2>3
<1>11. EventsOK'
  <2>1. payment'[k] = row /\ \A j \in Payments \ {k} : payment'[j] = payment[j]
    BY <1>2, RowsAre
  <2>2. \A j \in Payments : payment'[j] # NoRow => payment'[j].ext \in {NoEvent, payment'[j].ref}
    BY <1>2, <2>1 DEF IInv, EventsOK
  <2>3. ASSUME NEW e \in Events
        PROVE  /\ \A i, j \in By(e, "webhook")' : i = j
               /\ event'[e] \in {"none", "failed", "ignored"} => By(e, "webhook")' = {}
               /\ event'[e] = "processed" => Recorded(e, "webhook")'
    <3>1. CASE w.by = "webhook" /\ e = w.ref
      <4>1. event[e] = "none"
        BY <1>1, <1>4, <3>1, RowsAre DEF Sound, Carries, Webhook
      <4>2. By(e, "webhook") = {}
        BY <4>1 DEF IInv, EventsOK
      <4>3. By(e, "webhook")' \subseteq {k}
        BY <2>1, <4>2 DEF By
      <4>4. event'[e] = "received"
        BY <1>1, <3>1, RowsAre
      <4> QED
        BY <4>3, <4>4
    <3>2. CASE ~(w.by = "webhook" /\ e = w.ref)
      <4>1. event'[e] = event[e]
        BY <1>1, <3>2, RowsAre
      <4>2. By(e, "webhook")' = By(e, "webhook")
        BY <1>1, <1>2, <2>1, <3>2 DEF By
      <4>3. Recorded(e, "webhook") => Recorded(e, "webhook")'
        BY <1>1, <2>1 DEF Recorded
      <4> QED
        BY <4>1, <4>2, <4>3 DEF IInv, EventsOK
    <3> QED
      BY <3>1, <3>2
  <2> QED
    BY <2>2, <2>3 DEF EventsOK
<1> QED
  BY <1>8, <1>9, <1>10, <1>11 DEF IInv

LEMMA TagCommitKeeps ==
  ASSUME IInv, NEW r \in Requests, TagCommit(r)
  PROVE  IInv'
<1>1. PICK w \in Taggings : w = work[r]
  BY RowsAre, SessionIs DEF TagCommit, Ready
<1>2. /\ w \in Session /\ w.op = "tag" /\ w.payment \in Payments /\ w.ref \in Events
      /\ w.by \in {"provider", "webhook"}
  BY <1>1 DEF Session, Taggings, TagCommit, Ready
<1>3. PICK old \in PaymentRow : /\ old = payment[w.payment] /\ old.ref = w.ref /\ old.by = w.by
                                /\ old.ext \in {NoEvent, w.ref}
  BY <1>1, <1>2, RowsAre DEF Sound, Carries, IInv, EventsOK
<1>4. PICK new \in PaymentRow : /\ new = [old EXCEPT !.ext = w.ref]
                                /\ new.ref = w.ref /\ new.by = w.by /\ new.ext = w.ref
  <2>1. PICK new : new = [old EXCEPT !.ext = w.ref]
    OBVIOUS
  <2>2. new \in PaymentRow /\ new.ref = old.ref /\ new.by = old.by /\ new.ext = w.ref
    BY <1>2, <2>1 DEF PaymentRow
  <2> QED
    BY <1>3, <2>1, <2>2
<1>5. /\ payment' = [payment EXCEPT ![w.payment] = new]
      /\ UNCHANGED <<sub, invoice, event, torn, promised, asked>>
  BY <1>1, <1>3, <1>4 DEF TagCommit
<1>6. Commit(r, {}, IF w.by = "webhook" THEN [w EXCEPT !.op = "processed"] ELSE Idle)
  BY <1>1 DEF TagCommit
<1>7. UNCHANGED <<uses, today, calls, stops>> /\ blurred' = blurred
  BY <1>6 DEF Commit
<1>8. TypeOK'
  <2>1. payment' \in [Payments -> PaymentRow \cup {NoRow}]
    BY <1>5, RowsAre
  <2> QED
    BY <1>5, <1>7, <2>1 DEF IInv, TypeOK
<1>9. payment'[w.payment] = new /\ \A j \in Payments \ {w.payment} : payment'[j] = payment[j]
  BY <1>2, <1>5, RowsAre
<1>10. SessionsOK'
  <2>1. Respects(r, {})
    <3>1. \A j \in Payments : payment[j] # NoRow =>
            /\ payment'[j] # NoRow
            /\ payment'[j].ref = payment[j].ref /\ payment'[j].by = payment[j].by
            /\ payment[j].ext = NoEvent \/ payment'[j].ext = payment[j].ext
      BY <1>3, <1>4, <1>9, RowsAre
    <3> QED
      BY <1>5, <3>1 DEF Respects, Issued
  <2>2. CASE w.by = "webhook"
    <3>1. PICK s : s = [w EXCEPT !.op = "processed"]
      OBVIOUS
    <3>2. /\ s \in Session /\ s.op = "processed" /\ s.payment = w.payment /\ s.ref = w.ref
          /\ s.by = "webhook"
      BY <2>2, <3>1 DEF Session, Taggings
    <3>3. event[w.ref] = "received" /\ Webhook(work[r])
      BY <1>1, <1>2, <2>2, RowsAre DEF Sound, Carries, Webhook
    <3>4. Sound(s)'
      <4>1. OnIssued(s)' /\ KnowsSub(s)' /\ Keeps(s)'
        BY <3>2 DEF OnIssued, KnowsSub, Keeps
      <4>2. Carries(s)'
        BY <1>2, <1>4, <1>5, <1>9, <2>2, <3>2, <3>3, RowsAre DEF Carries, Webhook
      <4> QED
        BY <4>1, <4>2 DEF Sound
    <3> QED
      BY <1>6, <2>1, <2>2, <3>1, <3>2, <3>3, <3>4, CommitKeepsSessions DEF IInv
  <2>3. CASE w.by # "webhook"
    BY <1>6, <2>1, <2>3, IdleIsSound, CommitKeepsSessions DEF IInv
  <2> QED
    BY <2>2, <2>3
<1>11. PaidIsServed'
  BY <1>5, <1>7 DEF IInv, PaidIsServed
<1>12. EventsOK'
  <2>1. \A j \in Payments : payment'[j] # NoRow =>
          /\ payment[j] # NoRow
          /\ payment'[j].ref = payment[j].ref /\ payment'[j].by = payment[j].by
    BY <1>3, <1>4, <1>9, RowsAre
  <2>2. \A j \in Payments : payment'[j] # NoRow => payment'[j].ext \in {NoEvent, payment'[j].ref}
    BY <1>4, <1>9 DEF IInv, EventsOK
  <2>3. ASSUME NEW e \in Events PROVE By(e, "webhook")' \subseteq By(e, "webhook")
    BY <2>1 DEF By
  <2>4. ASSUME NEW e \in Events, Recorded(e, "webhook") PROVE Recorded(e, "webhook")'
    <3>1. PICK j \in Payments : payment[j] # NoRow /\ payment[j].ext = e
                                /\ payment[j].by = "webhook"
      BY <2>4 DEF Recorded
    <3>2. CASE j = w.payment
      BY <1>3, <1>4, <1>9, <3>1, <3>2, RowsAre DEF Recorded
    <3>3. CASE j # w.payment
      BY <1>9, <3>1, <3>3 DEF Recorded
    <3> QED
      BY <3>2, <3>3
  <2>5. \A e \in Events : /\ \A i, j \in By(e, "webhook")' : i = j
                          /\ event'[e] \in {"none", "failed", "ignored"} =>
                               By(e, "webhook")' = {}
                          /\ event'[e] = "processed" => Recorded(e, "webhook")'
    BY <1>5, <2>3, <2>4 DEF IInv, EventsOK
  <2> QED
    BY <2>2, <2>5 DEF EventsOK
<1> QED
  BY <1>8, <1>10, <1>11, <1>12 DEF IInv

LEMMA InboxCommitKeeps ==
  ASSUME IInv, NEW r \in Requests, EventCommit(r) \/ ProcessedCommit(r)
  PROVE  IInv'
<1>1. PICK w \in Session : w = work[r]
  BY RowsAre
<1>2. PICK to : /\ event' = [event EXCEPT ![w.ref] = to]
                /\ \/ w.op = "event" /\ to \in {"ignored", "failed"}
                   \/ w.op = "processed" /\ to = "processed"
  <2>1. CASE EventCommit(r)
    BY <1>1, <2>1, SessionIs DEF EventCommit, Ready, Endings
  <2>2. CASE ProcessedCommit(r)
    BY <1>1, <2>2 DEF ProcessedCommit, Ready
  <2> QED
    BY <2>1, <2>2
<1>3. Commit(r, {}, Idle) /\ UNCHANGED <<sub, invoice, payment, torn, promised, asked>>
  BY DEF EventCommit, ProcessedCommit
<1>4. UNCHANGED <<uses, today, calls, stops>> /\ blurred' = blurred
  BY <1>3 DEF Commit
<1>5. /\ w.ref \in Events /\ Webhook(w)
      /\ w.op = "event" => event[w.ref] = "none"
      /\ w.op = "processed" => Recorded(w.ref, "webhook")
  <2>1. CASE w.op = "event"
    <3>1. Webhook(w)
      BY <2>1, SessionIs DEF Webhook, Endings
    <3> QED
      BY <1>1, <2>1, <3>1, RowsAre DEF Sound, Carries
  <2>2. CASE w.op = "processed"
    <3>1. w.payment \in Payments /\ w.by = "webhook" /\ Carries(w)
      BY <1>1, <2>2, SessionIs, RowsAre DEF Sound, Carries, Taggings
    <3>2. Webhook(w)
      BY <2>2, <3>1 DEF Webhook
    <3> QED
      BY <2>2, <3>1, <3>2 DEF Carries, Recorded
  <2> QED
    BY <1>2, <2>1, <2>2
<1>6. TypeOK'
  BY <1>2, <1>3, <1>4, <1>5 DEF IInv, TypeOK
<1>7. SessionsOK'
  <2>1. Respects(r, {})
    BY <1>1, <1>2, <1>3, <1>5, RowsAre DEF Respects, Issued
  <2> QED
    BY <1>3, <2>1, IdleIsSound, CommitKeepsSessions DEF IInv
<1>8. PaidIsServed'
  BY <1>3, <1>4 DEF IInv, PaidIsServed
<1>9. EventsOK'
  <2>1. ASSUME NEW e \in Events
        PROVE  /\ By(e, "webhook")' = By(e, "webhook")
               /\ Recorded(e, "webhook")' <=> Recorded(e, "webhook")
    BY <1>3 DEF By, Recorded
  <2>2. ASSUME NEW e \in Events
        PROVE  /\ event'[e] \in {"none", "failed", "ignored"} => By(e, "webhook") = {}
               /\ event'[e] = "processed" => Recorded(e, "webhook")
    <3>1. CASE e = w.ref
      BY <1>2, <1>5, <3>1, RowsAre DEF IInv, EventsOK
    <3>2. CASE e # w.ref
      BY <1>2, <3>2, RowsAre DEF IInv, EventsOK
    <3> QED
      BY <3>1, <3>2
  <2> QED
    BY <1>3, <2>1, <2>2 DEF IInv, EventsOK
<1> QED
  BY <1>6, <1>7, <1>8, <1>9 DEF IInv

\* The invoices that became overdue
LEMMA OverdueIs ==
  ASSUME IInv, NEW late \in SUBSET Invoices, invoice' = Overdue(late), late \subseteq Issued
  PROVE  invoice' \in [Invoices -> InvoiceRow \cup {NoRow}] /\ Issued \subseteq Issued'
<1>1. \A i \in late : [invoice[i] EXCEPT !.status = "overdue"] \in InvoiceRow
  <2>1. \A i \in late : invoice[i] \in InvoiceRow
    BY IssuedRows DEF IInv
  <2> QED
    BY <2>1 DEF InvoiceRow
<1>2. \A i \in Invoices : invoice'[i] = IF i \in late THEN [invoice[i] EXCEPT !.status = "overdue"]
                                        ELSE invoice[i]
  BY DEF Overdue
<1>3. invoice' \in [Invoices -> InvoiceRow \cup {NoRow}]
  BY <1>1, RowsAre DEF Overdue, IInv, TypeOK
<1>4. ASSUME NEW i \in Issued PROVE i \in Issued'
  <2>1. CASE i \in late
    BY <1>1, <1>2, <2>1, SubscriptionsAssumption DEF Issued
  <2>2. CASE i \notin late
    BY <1>2, <2>2 DEF Issued
  <2> QED
    BY <2>1, <2>2
<1> QED
  BY <1>3, <1>4

LEMMA ListCommitKeeps ==
  ASSUME IInv, NEW r \in Requests, ListCommit(r)
  PROVE  IInv'
<1>1. PICK w \in Listings : w = work[r]
  BY RowsAre, SessionIs DEF ListCommit, Ready
<1>2. /\ Commit(r, w.late, Idle) /\ invoice' = Overdue(w.late)
      /\ UNCHANGED <<sub, payment, event, torn, promised, asked>>
      /\ w.op = "list" /\ w.late \in SUBSET Invoices
  BY <1>1 DEF ListCommit, Listings
<1>3. UNCHANGED <<uses, today, calls, stops>> /\ blurred \subseteq blurred'
  BY <1>2 DEF Commit
<1>4. invoice' \in [Invoices -> InvoiceRow \cup {NoRow}] /\ Issued \subseteq Issued'
  BY <1>1, <1>2, RowsAre, OverdueIs DEF Sound, OnIssued
<1>5. TypeOK'
  BY <1>2, <1>3, <1>4 DEF IInv, TypeOK
<1>6. SessionsOK'
  <2>1. Respects(r, w.late)
    BY <1>2, <1>4 DEF Respects
  <2> QED
    BY <1>2, <2>1, IdleIsSound, CommitKeepsSessions DEF IInv
<1>7. PaidIsServed' /\ EventsOK'
  BY <1>2, <1>3 DEF IInv, PaidIsServed, EventsOK, By, Recorded
<1> QED
  BY <1>5, <1>6, <1>7 DEF IInv

LEMMA ReconcileCommitKeeps ==
  ASSUME IInv, NEW r \in Requests, ReconcileCommit(r)
  PROVE  IInv'
<1>1. PICK w \in Reconcilings : w = work[r]
  BY RowsAre, SessionIs DEF ReconcileCommit, Ready
<1>2. PICK written : written = w.late \cup IF w.new # w.old THEN {"sub"} ELSE {}
  OBVIOUS
<1>3. /\ Commit(r, written, Idle) /\ invoice' = Overdue(w.late)
      /\ sub' = Merged(sub, w.old, w.new)
      /\ UNCHANGED <<payment, event, torn, promised>> /\ asked' = Later(asked, w.day)
  BY <1>1, <1>2 DEF ReconcileCommit
<1>4. /\ w \in Session /\ w.op = "reconcile" /\ w.late \in SUBSET Invoices
      /\ w.old \in SubRow /\ w.new \in SubRow
  BY DEF Session, Reconcilings
<1>0. asked \in Nat /\ w.day \in Nat /\ asked' \in Nat /\ asked' >= asked /\ asked' >= w.day
  BY <1>3, RowsAre DEF Reconcilings, Later
<1>5. UNCHANGED <<uses, today, calls, stops>> /\ blurred' = blurred \cup (written \cap w.stale)
  BY <1>1, <1>3 DEF Commit
<1>6. invoice' \in [Invoices -> InvoiceRow \cup {NoRow}] /\ Issued \subseteq Issued'
  BY <1>1, <1>3, <1>4, RowsAre, OverdueIs DEF Sound, OnIssued
<1>7. /\ sub' \in SubRow
      /\ sub' = sub \/ "sub" \in written
      /\ "sub" \notin blurred' =>
           (w.old = sub /\ sub' = w.new) \/ (sub' = sub /\ w.new = w.old)
  BY <1>1, <1>2, <1>3, <1>4, <1>5, SubWritten
<1>8. /\ w.new.ends >= w.old.ends
      /\ w.new.status \in {"active", w.old.status} \/ w.day > w.old.ends + Grace
  BY <1>1, <1>4, RowsAre DEF Sound, Keeps
<1>9. /\ promised \in Nat /\ w.day \in Nat /\ Grace \in Nat
      /\ sub.ends \in Nat /\ sub'.ends \in Nat /\ w.new.ends \in Nat
  BY <1>0, <1>4, <1>7, RowsAre DEF SubRow
<1>10. "sub" \notin blurred' =>
         /\ sub'.ends >= sub.ends
         /\ sub'.status \in {"active", sub.status} \/ w.day > sub.ends + Grace
  BY <1>7, <1>8, <1>9
<1>11. "sub" \notin blurred' => promised <= sub.ends
  BY <1>5 DEF IInv, TypeOK
<1>12. TypeOK'
  <2>1. promised' <= sub'.ends \/ "sub" \in blurred'
    BY <1>3, <1>9, <1>10, <1>11
  <2> QED
    BY <1>0, <1>3, <1>5, <1>6, <1>7, <2>1 DEF IInv, TypeOK
<1>13. PaidIsServed'
  <2>1. SUFFICES ASSUME "sub" \notin blurred', asked' <= promised + Grace, promised > 0
                 PROVE  sub'.status = "active" /\ sub'.ends >= promised
    BY <1>3, <1>5 DEF PaidIsServed
  <2>2. sub.status = "active"
    BY <1>0, <1>5, <1>9, <2>1 DEF IInv, PaidIsServed
  <2>3. ~(w.day > sub.ends + Grace)
    BY <1>0, <1>9, <1>11, <2>1
  <2>4. sub'.ends >= promised
    BY <1>9, <1>10, <1>11, <2>1
  <2> QED
    BY <1>10, <2>1, <2>2, <2>3, <2>4
<1>14. SessionsOK'
  <2>1. Respects(r, written)
    BY <1>3, <1>6, <1>7 DEF Respects
  <2> QED
    BY <1>3, <2>1, IdleIsSound, CommitKeepsSessions DEF IInv
<1>15. EventsOK'
  BY <1>3 DEF IInv, EventsOK, By, Recorded
<1> QED
  BY <1>12, <1>13, <1>14, <1>15 DEF IInv

LEMMA SubCommitKeeps ==
  ASSUME IInv, NEW r \in Requests, SubCommit(r)
  PROVE  IInv'
<1>1. PICK w \in Settings : w = work[r]
  BY RowsAre, SessionIs DEF SubCommit
<1>2. /\ Commit(r, {"sub"}, Idle)
      /\ sub' = Merged(sub, w.old, w.new)
      /\ promised' = IF w.op = "licence" THEN 0 ELSE promised
      /\ asked' = IF w.op = "licence" THEN 0 ELSE asked
      /\ UNCHANGED <<invoice, payment, event, torn>>
  BY <1>1 DEF SubCommit, Ready
<1>3. /\ w \in Session /\ w.op \in {"licence", "activate"}
      /\ w.old \in SubRow /\ w.new \in SubRow
  BY DEF Session, Settings
<1>4. UNCHANGED <<uses, today, calls, stops>> /\ blurred' = blurred \cup ({"sub"} \cap w.stale)
  BY <1>1, <1>2 DEF Commit
<1>5. /\ sub' \in SubRow
      /\ "sub" \notin blurred' =>
           (w.old = sub /\ sub' = w.new) \/ (sub' = sub /\ w.new = w.old)
  BY <1>1, <1>2, <1>3, <1>4, SubWritten
<1>6. w.op = "activate" => w.new.ends = w.old.ends /\ w.new.status = "active"
  BY <1>1, RowsAre DEF Sound, Keeps
<1>7. /\ promised \in Nat /\ asked' \in Nat /\ sub.ends \in Nat /\ sub'.ends \in Nat
  BY <1>2, <1>5, RowsAre DEF SubRow
<1>8. "sub" \notin blurred' /\ w.op = "activate" =>
        sub'.ends = sub.ends /\ sub'.status \in {"active", sub.status}
  BY <1>5, <1>6
<1>9. TypeOK'
  <2>1. CASE w.op = "licence"
    <3>1. promised' = 0 /\ promised' <= sub'.ends
      BY <1>2, <1>7, <2>1
    <3> QED
      BY <1>2, <1>4, <1>5, <1>7, <3>1 DEF IInv, TypeOK
  <2>2. CASE w.op = "activate"
    <3>1. promised' = promised /\ (promised' <= sub'.ends \/ "sub" \in blurred')
      BY <1>2, <1>4, <1>7, <1>8, <2>2 DEF IInv, TypeOK
    <3> QED
      BY <1>2, <1>4, <1>5, <1>7, <3>1 DEF IInv, TypeOK
  <2> QED
    BY <1>3, <2>1, <2>2
<1>10. PaidIsServed'
  <2>1. CASE w.op = "licence"
    BY <1>2, <2>1 DEF PaidIsServed
  <2>2. CASE w.op = "activate"
    BY <1>2, <1>4, <1>8, <2>2 DEF IInv, PaidIsServed
  <2> QED
    BY <1>3, <2>1, <2>2
<1>11. SessionsOK'
  <2>1. Respects(r, {"sub"})
    BY <1>2 DEF Respects, Issued
  <2> QED
    BY <1>2, <2>1, IdleIsSound, CommitKeepsSessions DEF IInv
<1>12. EventsOK'
  BY <1>2 DEF IInv, EventsOK, By, Recorded
<1> QED
  BY <1>9, <1>10, <1>11, <1>12 DEF IInv

----------------------------------------------------------------------------------
(* A request is interrupted, and a day goes by                                    *)

LEMMA AbortKeeps ==
  ASSUME IInv, NEW r \in Requests, Abort(r)
  PROVE  IInv'
<1>1. /\ UNCHANGED <<uses, today, sub, invoice, payment, event, calls, blurred, promised, asked>>
      /\ work' = [work EXCEPT ![r] = Idle]
      /\ stops' = stops + 1 /\ stops < MaxStops
  BY DEF Abort, rows
<1>2. TypeOK'
  <2>1. stops' \in 0..MaxStops
    <3>1. stops \in 0..MaxStops /\ MaxStops \in Nat
      BY SubscriptionsAssumption DEF IInv, TypeOK
    <3> QED
      BY <1>1, <3>1
  <2> QED
    BY <1>1, <2>1 DEF IInv, TypeOK
<1>3. SessionsOK'
  <2>1. work' \in [Requests -> Session] /\ work'[r] = Idle
    BY <1>1, RowsAre, IdleIsSound
  <2>2. ASSUME NEW q \in Requests PROVE Sound(work[q])'
    <3>1. PICK w : w = work'[q]
      OBVIOUS
    <3>2. Sound(w)'
      <4>1. CASE q = r
        BY <2>1, <3>1, <4>1, IdleIsSound
      <4>2. CASE q # r
        BY <1>1, <3>1, <4>2, RowsAre
           DEF IInv, SessionsOK, Sound, OnIssued, KnowsSub, Keeps, Carries, Webhook, Issued
      <4> QED
        BY <4>1, <4>2
    <3> QED
      BY <3>1, <3>2 DEF Sound, OnIssued, KnowsSub, Keeps, Carries, Webhook, Issued
  <2>3. ASSUME NEW q \in Requests, Webhook(work[q])' PROVE Webhook(work[q])
    <3>1. PICK w : w = work'[q] /\ Webhook(w)
      BY <2>3 DEF Webhook
    <3> QED
      BY <1>1, <3>1, RowsAre, IdleIsSound
  <2> QED
    BY <2>1, <2>2, <2>3 DEF IInv, SessionsOK
<1>4. PaidIsServed' /\ EventsOK'
  BY <1>1 DEF IInv, PaidIsServed, EventsOK, By, Recorded
<1> QED
  BY <1>2, <1>3, <1>4 DEF IInv

LEMMA TomorrowKeeps ==
  ASSUME IInv, Tomorrow
  PROVE  IInv'
<1>1. /\ UNCHANGED <<uses, sub, invoice, payment, event, work, calls, stops, blurred, promised,
                  asked>>
      /\ today' = today + 1 /\ today < MaxDay
  BY DEF Tomorrow, rows, history
<1>2. today \in Nat /\ MaxDay \in Nat /\ promised \in Nat
  BY RowsAre, SubscriptionsAssumption DEF IInv, TypeOK
<1>3. TypeOK'
  <2>1. today' \in 0..MaxDay
    BY <1>1, <1>2
  <2> QED
    BY <1>1, <2>1 DEF IInv, TypeOK
<1>4. SessionsOK'
  <2>1. \A q \in Requests : work[q] = Idle
    BY SessionIs DEF Tomorrow, Ready, IInv, SessionsOK
  <2>2. Sound(Idle)'
    BY IdleIsSound
  <2>3. \A q \in Requests : Sound(work[q])'
    BY <1>1, <2>1, <2>2 DEF Sound, OnIssued, KnowsSub, Keeps, Carries, Webhook, Issued
  <2> QED
    BY <1>1, <2>3 DEF IInv, SessionsOK, Webhook
<1>5. PaidIsServed'
  BY <1>1 DEF IInv, PaidIsServed
<1>6. EventsOK'
  BY <1>1 DEF IInv, EventsOK, By, Recorded
<1> QED
  BY <1>3, <1>4, <1>5, <1>6 DEF IInv

----------------------------------------------------------------------------------
(* The invariant, and the theorems                                                *)

LEMMA InitIInv == Init => IInv
<1>1. SUFFICES ASSUME Init PROVE IInv
  OBVIOUS
<1>2. TypeOK
  <2>1. /\ MaxDay \in Nat /\ MaxStops \in Nat /\ MaxCalls[uses] \in Nat
        /\ today = 0 /\ calls = 0 /\ stops = 0 /\ promised = 0 /\ asked = 0
    BY <1>1, SubscriptionsAssumption DEF Init
  <2>2. sub \in SubRow /\ sub.ends = 1
    BY <1>1 DEF Init, SubRow
  <2> QED
    BY <1>1, <2>1, <2>2 DEF Init, TypeOK
<1>3. SessionsOK
  <2>1. \A r \in Requests : work[r] = Idle
    BY <1>1 DEF Init
  <2>2. Sound(Idle) /\ ~Webhook(Idle) /\ Idle \in Session
    BY DEF Session, Idle, Sound, OnIssued, KnowsSub, Keeps, Carries, Webhook
  <2>3. work \in [Requests -> Session]
    BY <1>1, <2>2 DEF Init
  <2> QED
    BY <2>1, <2>2, <2>3 DEF SessionsOK
<1>4. PaidIsServed
  BY <1>1 DEF Init, PaidIsServed
<1>5. EventsOK
  BY <1>1 DEF Init, EventsOK, By, Recorded
<1> QED
  BY <1>2, <1>3, <1>4, <1>5 DEF IInv

LEMMA NextIInv == IInv /\ [Next]_vars => IInv'
<1>1. SUFFICES ASSUME IInv, [Next]_vars PROVE IInv'
  OBVIOUS
<1>2. ASSUME NEW r \in Requests, Read(r) PROVE IInv'
  <2>1. PICK s : Fits(s) /\ Begin(r, s)
    BY <1>1, <1>2, ReadIs DEF IInv
  <2> QED
    BY <1>1, <2>1, BeginKeeps
<1>3. ASSUME NEW r \in Requests, Write(r) PROVE IInv'
  BY <1>1, <1>3, IssueCommitKeeps, PayCommitKeeps, TagCommitKeeps, InboxCommitKeeps,
     ListCommitKeeps, ReconcileCommitKeeps, SubCommitKeeps DEF Write
<1>4. CASE UNCHANGED vars
  BY <1>1, <1>4
     DEF vars, rows, history, IInv, TypeOK, SessionsOK, Sound, OnIssued, KnowsSub, Keeps,
         Carries, Webhook, Issued, PaidIsServed, EventsOK, By, Recorded
<1> QED
  BY <1>1, <1>2, <1>3, <1>4, AbortKeeps, TomorrowKeeps DEF Next

LEMMA SpecIInv == Spec => []IInv
BY InitIInv, NextIInv, PTL DEF Spec

\* Every row is what its columns may hold, and what was paid is never beyond the end of
\* the subscription unless two requests wrote it at once.
LEMMA SubscriptionTyped == Spec => []TypeOK
<1>1. IInv => TypeOK
  BY DEF IInv
<1> QED
  BY <1>1, SpecIInv, PTL

\* What was paid for is served: however register_payment, reconcile_subscriptions,
\* list_invoices and activate_license cross, no suspension comes before a reconciliation
\* is asked for a day beyond the grace that follows the last one that is paid.
THEOREM PaidServed == Spec => []PaidIsServed
<1>1. IInv => PaidIsServed
  BY DEF IInv
<1> QED
  BY <1>1, SpecIInv, PTL

\* An event of the provider pays once, however often it is sent again and wherever the
\* server stops, and its row says what became of it (process_webhook).
THEOREM EventsAreTrue == Spec => []EventsTellTruth
<1>1. IInv => EventsTellTruth
  <2>1. SUFFICES ASSUME IInv PROVE EventPaidOnce /\ EventTellsTruth
    BY DEF EventsTellTruth
  <2>2. ASSUME NEW e \in Events PROVE Cardinality(By(e, "webhook")) <= 1
    <3>1. CASE By(e, "webhook") = {}
      BY <3>1, FS_EmptySet
    <3>2. CASE By(e, "webhook") # {}
      <4>1. PICK k \in By(e, "webhook") : By(e, "webhook") = {k}
        BY <2>1, <3>2 DEF IInv, EventsOK
      <4>2. Cardinality({k}) = 1
        BY FS_Singleton
      <4> QED
        BY <4>1, <4>2
    <3> QED
      BY <3>1, <3>2
  <2> QED
    BY <2>1, <2>2 DEF IInv, EventsOK, EventPaidOnce, EventTellsTruth
<1> QED
  BY <1>1, SpecIInv, PTL

----------------------------------------------------------------------------------
(* Sums.  Total folds the amounts of a set of payments, in an order that CHOOSE     *)
(* gives: the sum does not depend on it.                                           *)

Taken(T) == CHOOSE x \in T : TRUE

\* f gives the sum of each subset of K.
Sums(a, K, f) ==
  /\ f = [T \in SUBSET K |-> f[T]]
  /\ \A T \in SUBSET K : f[T] = IF T = {} THEN 0 ELSE a[Taken(T)] + f[T \ {Taken(T)}]

LEMMA TakenIs ==
  ASSUME NEW T, T # {}
  PROVE  Taken(T) \in T /\ T \ {Taken(T)} # T
BY DEF Taken

LEMMA SumsAt ==
  ASSUME NEW K, NEW a, NEW f, Sums(a, K, f), NEW T \in SUBSET K
  PROVE  f[T] = IF T = {} THEN 0 ELSE a[Taken(T)] + f[T \ {Taken(T)}]
BY DEF Sums

LEMMA SumsOnce ==
  ASSUME NEW K, IsFiniteSet(K), NEW a, NEW f, NEW g, Sums(a, K, f), Sums(a, K, g)
  PROVE  f = g
<1> DEFINE Bad == {T \in SUBSET K : f[T] # g[T]}
<1>1. SUFFICES ASSUME Bad # {} PROVE FALSE
  <2>1. f = [T \in SUBSET K |-> f[T]] /\ g = [T \in SUBSET K |-> g[T]]
    BY DEF Sums
  <2>2. Bad = {} => \A T \in SUBSET K : f[T] = g[T]
    OBVIOUS
  <2> HIDE DEF Bad
  <2> QED
    BY <2>1, <2>2
<1>2. PICK T \in SUBSET K : f[T] # g[T] /\ \A U \in SUBSET T : U # T => f[U] = g[U]
  <2>1. Bad \in SUBSET SUBSET K
    OBVIOUS
  <2>2. PICK T \in Bad : \A U \in SUBSET T : U # T => U \notin Bad
    <3> HIDE DEF Bad
    <3> QED
      BY <1>1, <2>1, SmallestSet
  <2> QED
    BY <2>2
<1> HIDE DEF Bad
<1>3. CASE T = {}
  BY <1>2, <1>3, SumsAt
<1>4. CASE T # {}
  <2>1. PICK x \in T : x = Taken(T) /\ T \ {x} # T
    BY <1>4, TakenIs
  <2>2. f[T \ {x}] = g[T \ {x}]
    BY <1>2, <2>1
  <2>3. f[T] = a[x] + f[T \ {x}]
    BY <1>4, <2>1, SumsAt
  <2>4. g[T] = a[x] + g[T \ {x}]
    BY <1>4, <2>1, SumsAt
  <2> QED
    BY <1>2, <2>2, <2>3, <2>4
<1> QED
  BY <1>3, <1>4

\* The sums of the subsets of a part of K
LEMMA SumsOfPart ==
  ASSUME NEW K, NEW a, NEW f, Sums(a, K, f), NEW L \in SUBSET K,
         NEW g, g = [T \in SUBSET L |-> f[T]]
  PROVE  Sums(a, L, g)
<1>1. \A T \in SUBSET L : g[T] = f[T] /\ T \in SUBSET K /\ T \ {Taken(T)} \in SUBSET L
  OBVIOUS
<1>2. ASSUME NEW T \in SUBSET L
      PROVE  g[T] = IF T = {} THEN 0 ELSE a[Taken(T)] + g[T \ {Taken(T)}]
  <2>1. f[T] = IF T = {} THEN 0 ELSE a[Taken(T)] + f[T \ {Taken(T)}]
    BY <1>1 DEF Sums
  <2> QED
    BY <1>1, <2>1
<1>3. g = [T \in SUBSET L |-> g[T]]
  OBVIOUS
<1> QED
  BY <1>2, <1>3 DEF Sums

\* Over the smallest set that has no sums, the sums of its parts give them.
LEMMA SumsExist ==
  ASSUME NEW K, IsFiniteSet(K), NEW a
  PROVE  \E f : Sums(a, K, f)
<1> DEFINE Has(L) == \E f : Sums(a, L, f)
           Bad == {L \in SUBSET K : ~Has(L)}
<1>1. SUFFICES ASSUME Bad # {} PROVE FALSE
  BY DEF Bad
<1>2. PICK L \in SUBSET K : ~Has(L) /\ \A U \in SUBSET L : U # L => Has(U)
  <2>1. Bad \in SUBSET SUBSET K
    OBVIOUS
  <2>2. PICK T \in Bad : \A U \in SUBSET T : U # T => U \notin Bad
    <3> HIDE DEF Bad
    <3> QED
      BY <1>1, <2>1, SmallestSet
  <2> HIDE DEF Has
  <2> QED
    BY <2>2
<1> HIDE DEF Bad
<1>3. PICK v : v = [U \in SUBSET L |-> CHOOSE n : \E f : Sums(a, U, f) /\ f[U] = n]
  OBVIOUS
<1>4. ASSUME NEW U \in SUBSET L, U # L, NEW f, Sums(a, U, f) PROVE v[U] = f[U]
  <2>1. \A g : Sums(a, U, g) => g = f
    <3>1. IsFiniteSet(U)
      BY <1>2, FS_Subset
    <3> QED
      BY <1>4, <3>1, SumsOnce
  <2>2. v[U] = CHOOSE n : \E g : Sums(a, U, g) /\ g[U] = n
    BY <1>3
  <2> QED
    BY <1>4, <2>1, <2>2
<1>5. ASSUME NEW U \in SUBSET L, U # L
      PROVE  v[U] = IF U = {} THEN 0 ELSE a[Taken(U)] + v[U \ {Taken(U)}]
  <2>1. PICK f : Sums(a, U, f)
    BY <1>2, <1>5
  <2>2. v[U] = f[U]
    BY <1>4, <1>5, <2>1
  <2>3. U \in SUBSET U
    OBVIOUS
  <2>4. f[U] = IF U = {} THEN 0 ELSE a[Taken(U)] + f[U \ {Taken(U)}]
    BY <2>1, <2>3, SumsAt
  <2>5. CASE U = {}
    BY <2>2, <2>4, <2>5
  <2>6. CASE U # {}
    <3>1. PICK M \in SUBSET U : M = U \ {Taken(U)} /\ M # U
      <4>1. U \ {Taken(U)} # U /\ U \ {Taken(U)} \in SUBSET U
        BY <2>6, TakenIs
      <4> QED
        BY <4>1
    <3>2. M \in SUBSET L /\ M # L
      BY <3>1
    <3>3. PICK g : g = [T \in SUBSET M |-> f[T]]
      OBVIOUS
    <3>4. Sums(a, M, g)
      BY <2>1, <3>1, <3>3, SumsOfPart
    <3>5. g[M] = f[M]
      BY <3>3
    <3>6. v[M] = f[M]
      BY <1>4, <3>2, <3>4, <3>5
    <3> QED
      BY <2>2, <2>4, <2>6, <3>1, <3>6
  <2> QED
    BY <2>5, <2>6
<1>6. PICK top : top = IF L = {} THEN 0 ELSE a[Taken(L)] + v[L \ {Taken(L)}]
  OBVIOUS
<1>7. PICK g : g = [U \in SUBSET L |-> IF U = L THEN top ELSE v[U]]
  OBVIOUS
<1>8. g[L] = top /\ \A U \in SUBSET L : U # L => g[U] = v[U]
  BY <1>7
<1>9. ASSUME NEW U \in SUBSET L
      PROVE  g[U] = IF U = {} THEN 0 ELSE a[Taken(U)] + g[U \ {Taken(U)}]
  <2>1. U # {} => g[U \ {Taken(U)}] = v[U \ {Taken(U)}]
    <3>1. U # {} => U \ {Taken(U)} \in SUBSET L /\ U \ {Taken(U)} # L
      BY TakenIs
    <3> QED
      BY <1>8, <3>1
  <2>2. CASE U = L
    BY <1>6, <1>8, <2>1, <2>2
  <2>3. CASE U # L
    BY <1>5, <1>8, <2>1, <2>3
  <2> QED
    BY <2>2, <2>3
<1>10. g = [U \in SUBSET L |-> g[U]]
  BY <1>7
<1>11. Sums(a, L, g)
  BY <1>9, <1>10 DEF Sums
<1> QED
  BY <1>2, <1>11

\* A sum is a number.
LEMMA SumsAreNat ==
  ASSUME NEW K, IsFiniteSet(K), NEW a \in [K -> Nat], NEW f, Sums(a, K, f)
  PROVE  \A T \in SUBSET K : f[T] \in Nat
<1> DEFINE Bad == {T \in SUBSET K : f[T] \notin Nat}
<1>1. SUFFICES ASSUME Bad # {} PROVE FALSE
  OBVIOUS
<1>2. PICK T \in SUBSET K : f[T] \notin Nat /\ \A U \in SUBSET T : U # T => f[U] \in Nat
  <2>1. Bad \in SUBSET SUBSET K
    OBVIOUS
  <2>2. PICK T \in Bad : \A U \in SUBSET T : U # T => U \notin Bad
    <3> HIDE DEF Bad
    <3> QED
      BY <1>1, <2>1, SmallestSet
  <2> QED
    BY <2>2
<1> HIDE DEF Bad
<1>3. CASE T = {}
  <2>1. f[T] = 0
    BY <1>3, SumsAt
  <2> QED
    BY <1>2, <2>1
<1>4. CASE T # {}
  <2>1. PICK x \in T : x = Taken(T) /\ T \ {x} # T
    BY <1>4, TakenIs
  <2>2. f[T \ {x}] \in Nat /\ a[x] \in Nat
    BY <1>2, <2>1
  <2>3. f[T] = a[x] + f[T \ {x}]
    BY <1>4, <2>1, SumsAt
  <2> QED
    BY <1>2, <2>2, <2>3
<1> QED
  BY <1>3, <1>4

\* A sum of a set is that of the others and of any of its members.
LEMMA SumsAdd ==
  ASSUME NEW K, IsFiniteSet(K), NEW a \in [K -> Nat], NEW f, Sums(a, K, f)
  PROVE  \A T \in SUBSET K : \A x \in K \ T : f[T \cup {x}] = f[T] + a[x]
<1> DEFINE Adds(T) == \A x \in K \ T : f[T \cup {x}] = f[T] + a[x]
           Bad == {T \in SUBSET K : ~Adds(T)}
<1>1. SUFFICES ASSUME Bad # {} PROVE FALSE
  OBVIOUS
<1>2. PICK T \in SUBSET K : ~Adds(T) /\ \A U \in SUBSET T : U # T => Adds(U)
  <2>1. Bad \in SUBSET SUBSET K
    OBVIOUS
  <2>2. PICK T \in Bad : \A U \in SUBSET T : U # T => U \notin Bad
    <3> HIDE DEF Bad
    <3> QED
      BY <1>1, <2>1, SmallestSet
  <2> HIDE DEF Adds
  <2> QED
    BY <2>2
<1> HIDE DEF Bad
<1>3. PICK x \in K \ T : f[T \cup {x}] # f[T] + a[x]
  BY <1>2
<1>4. \A U \in SUBSET K : f[U] \in Nat
  BY SumsAreNat
<1>5. PICK U \in SUBSET K : U = T \cup {x}
  OBVIOUS
<1>6. PICK y \in U : y = Taken(U) /\ f[U] = a[y] + f[U \ {y}]
  BY <1>5, TakenIs, SumsAt
<1>7. CASE y = x
  <2>1. U \ {y} = T
    BY <1>3, <1>5, <1>7
  <2>2. f[U] = a[x] + f[T] /\ a[x] \in Nat /\ f[T] \in Nat
    BY <1>4, <1>6, <1>7, <2>1
  <2>3. f[U] = f[T] + a[x]
    BY <2>2
  <2> QED
    BY <1>3, <1>5, <2>3
<1>8. CASE y # x
  <2>1. PICK M : M = T \ {y}
    OBVIOUS
  <2>2. y \in T /\ M \in SUBSET T /\ M # T /\ x \in K \ M /\ y \in K \ M
    BY <1>3, <1>5, <1>6, <1>8, <2>1
  <2>3. M \cup {y} = T /\ M \cup {x} = U \ {y}
    BY <1>3, <1>5, <1>8, <2>1, <2>2
  <2>4. f[M \cup {y}] = f[M] + a[y] /\ f[M \cup {x}] = f[M] + a[x]
    BY <1>2, <2>2
  <2>5. f[M] \in Nat /\ a[x] \in Nat /\ a[y] \in Nat
    BY <1>4, <2>2
  <2>6. f[T] = f[M] + a[y] /\ f[U] = a[y] + (f[M] + a[x])
    BY <1>6, <2>3, <2>4
  <2>7. f[U] = f[T] + a[x]
    BY <2>5, <2>6
  <2> QED
    BY <1>3, <1>5, <2>7
<1> QED
  BY <1>7, <1>8

TotalOf(p, K) == FoldSet(LAMBDA k, sum : p[k].amount + sum, 0, K)

LEMMA TotalOfs ==
  ASSUME NEW i
  PROVE  /\ Total(Paid(i)) = TotalOf(payment, Paid(i))
         /\ Total(Paid(i))' = TotalOf(payment', Paid(i)')
BY DEF Total, TotalOf, FoldSet, MapThenFoldSet

LEMMA TotalOfIs ==
  ASSUME NEW p, NEW K, IsFiniteSet(K), NEW a, \A k \in K : a[k] = p[k].amount,
         NEW f, Sums(a, K, f)
  PROVE  TotalOf(p, K) = f[K]
<1> DEFINE Chosen == CHOOSE g : g = [T \in SUBSET K |->
             IF T = {} THEN 0
             ELSE p[CHOOSE x \in T : TRUE].amount + g[T \ {CHOOSE x \in T : TRUE}]]
<1>1. ASSUME NEW g
      PROVE  Sums(a, K, g) <=> g = [T \in SUBSET K |->
               IF T = {} THEN 0
               ELSE p[CHOOSE x \in T : TRUE].amount + g[T \ {CHOOSE x \in T : TRUE}]]
  <2>1. \A T \in SUBSET K :
          T # {} => a[CHOOSE x \in T : TRUE] = p[CHOOSE x \in T : TRUE].amount
    OBVIOUS
  <2> QED
    BY <2>1 DEF Sums, Taken
<1>2. \A g : Sums(a, K, g) => g = f
  BY SumsOnce
<1>3. Chosen = f
  BY <1>1, <1>2
<1>4. TotalOf(p, K) = Chosen[K]
  BY DEF TotalOf, FoldSet, MapThenFoldSet
<1> QED
  BY <1>3, <1>4

\* The total of nothing, the total without a payment, and the total of the same amounts
LEMMA TotalsAre ==
  ASSUME NEW p, NEW K, IsFiniteSet(K), \A k \in K : p[k].amount \in Nat
  PROVE  /\ TotalOf(p, K) \in Nat
         /\ K = {} => TotalOf(p, K) = 0
         /\ \A x \in K : TotalOf(p, K) = TotalOf(p, K \ {x}) + p[x].amount
         /\ \A q : (\A k \in K : q[k].amount = p[k].amount) => TotalOf(q, K) = TotalOf(p, K)
<1>1. PICK a \in [K -> Nat] : \A k \in K : a[k] = p[k].amount
  <2>1. [k \in K |-> p[k].amount] \in [K -> Nat]
    OBVIOUS
  <2> QED
    BY <2>1
<1>2. PICK f : Sums(a, K, f)
  BY SumsExist
<1>3. TotalOf(p, K) = f[K]
  BY <1>1, <1>2, TotalOfIs
<1>4. f[K] \in Nat
  BY <1>2, SumsAreNat
<1>5. K = {} => f[K] = 0
  <2>1. K \in SUBSET K
    OBVIOUS
  <2> QED
    BY <1>2, <2>1, SumsAt
<1>6. ASSUME NEW x \in K PROVE TotalOf(p, K) = TotalOf(p, K \ {x}) + p[x].amount
  <2>1. PICK L \in SUBSET K : L = K \ {x}
    OBVIOUS
  <2>2. IsFiniteSet(L) /\ \A k \in L : a[k] = p[k].amount
    BY <1>1, FS_Subset
  <2>3. PICK g : g = [T \in SUBSET L |-> f[T]]
    OBVIOUS
  <2>4. Sums(a, L, g)
    BY <1>2, <2>3, SumsOfPart
  <2>5. TotalOf(p, L) = g[L]
    BY <2>2, <2>4, TotalOfIs
  <2>6. g[L] = f[L]
    BY <2>3
  <2>7. x \in K \ L /\ L \cup {x} = K
    BY <2>1
  <2>8. f[L \cup {x}] = f[L] + a[x]
    BY <1>2, <2>7, SumsAdd
  <2> QED
    BY <1>1, <1>3, <2>1, <2>5, <2>6, <2>7, <2>8
<1>7. ASSUME NEW q, \A k \in K : q[k].amount = p[k].amount PROVE TotalOf(q, K) = TotalOf(p, K)
  <2>1. \A k \in K : a[k] = q[k].amount
    BY <1>1, <1>7
  <2>2. TotalOf(q, K) = f[K]
    BY <1>2, <2>1, TotalOfIs
  <2> QED
    BY <1>3, <2>2
<1> QED
  BY <1>3, <1>4, <1>5, <1>6, <1>7

----------------------------------------------------------------------------------
(* What an invoice is owed.  A second invariant, on top of the first: a request     *)
(* that is about to pay knows what the invoice still takes, and one that writes it  *)
(* overdue knows that it is not paid, unless it is known to be stale.              *)

Funds(w) ==
  /\ w.op = "pay" =>
       /\ w.invoice \in w.rows /\ w.invoice \in w.writes
       /\ w.invoice \notin w.stale =>
            /\ invoice[w.invoice].status # "paid"
            /\ Total(Paid(w.invoice)) + w.amount <= invoice[w.invoice].amount
            /\ "sub" \in w.writes
                 <=> Total(Paid(w.invoice)) + w.amount = invoice[w.invoice].amount
  /\ w.op \in {"list", "reconcile"} =>
       /\ w.late \subseteq w.rows
       /\ \A i \in w.late \ w.stale : invoice[i].status = "issued"

PaidIsIssued == \A k \in Payments : payment[k] # NoRow => payment[k].invoice \in Issued

SettleInv == PaidIsIssued /\ InvoiceSettled /\ \A r \in Requests : Funds(work[r])

\* An invoice that a step leaves alone
Same(i) == invoice'[i] = invoice[i] /\ Total(Paid(i))' = Total(Paid(i))

LEMMA PaidRows ==
  ASSUME TypeOK, NEW i
  PROVE  /\ IsFiniteSet(Paid(i))
         /\ \A k \in Paid(i) : /\ k \in Payments /\ payment[k] \in PaymentRow
                              /\ payment[k].amount \in Nat
         /\ Total(Paid(i)) \in Nat
<1>1. \A k \in Paid(i) : k \in Payments
  BY DEF Paid
<1>2. IsFiniteSet(Paid(i))
  <2>1. Paid(i) \subseteq Payments
    BY <1>1
  <2> QED
    BY <2>1, FS_Subset, SubscriptionsAssumption
<1>3. \A k \in Paid(i) : payment[k] \in PaymentRow /\ payment[k].amount \in Nat
  BY SubscriptionsAssumption DEF TypeOK, Paid, PaymentRow
<1>4. Total(Paid(i)) \in Nat
  BY <1>2, <1>3, TotalOfs, TotalsAre
<1> QED
  BY <1>1, <1>2, <1>3, <1>4

\* No payment of the invoice is made or changed.
LEMMA TotalSame ==
  ASSUME TypeOK, NEW i, Paid(i)' = Paid(i),
         \A k \in Paid(i) : payment'[k].amount = payment[k].amount
  PROVE  Total(Paid(i))' = Total(Paid(i))
<1>1. TotalOf(payment', Paid(i)) = TotalOf(payment, Paid(i))
  BY PaidRows, TotalsAre
<1> QED
  BY <1>1, TotalOfs

\* The payment k is made.
LEMMA TotalMore ==
  ASSUME TypeOK, NEW k \in Payments, payment[k] = NoRow,
         NEW row \in PaymentRow, payment' = [payment EXCEPT ![k] = row]
  PROVE  /\ Total(Paid(row.invoice))' = Total(Paid(row.invoice)) + row.amount
         /\ \A i : i # row.invoice => Total(Paid(i))' = Total(Paid(i))
<1>1. /\ payment \in [Payments -> PaymentRow \cup {NoRow}] /\ row # NoRow
      /\ row.amount \in Nat
  <2>1. payment \in [Payments -> PaymentRow \cup {NoRow}] /\ row # NoRow
    BY SubscriptionsAssumption DEF TypeOK
  <2>2. row.amount \in Nat
    BY SubscriptionsAssumption DEF PaymentRow
  <2> QED
    BY <2>1, <2>2
<1>2. /\ payment'[k] = row
      /\ \A j \in Payments : j # k => payment'[j] = payment[j]
  BY <1>1
<1>3. ASSUME NEW i, i # row.invoice PROVE Total(Paid(i))' = Total(Paid(i))
  <2>1. Paid(i)' = Paid(i)
    BY <1>1, <1>2, <1>3 DEF Paid
  <2>2. \A j \in Paid(i) : payment'[j].amount = payment[j].amount
    BY <1>2 DEF Paid
  <2> QED
    BY <2>1, <2>2, TotalSame
<1>4. PICK i : i = row.invoice
  OBVIOUS
<1>5. PICK K : K = Paid(i)
  OBVIOUS
<1>6. Paid(i)' = K \cup {k} /\ k \notin K
  BY <1>1, <1>2, <1>4, <1>5 DEF Paid
<1>7. \A j \in K : payment'[j].amount = payment[j].amount
  BY <1>2, <1>5 DEF Paid
<1>8. IsFiniteSet(K) /\ \A j \in K : payment[j].amount \in Nat
  BY <1>5, PaidRows
<1>9. TotalOf(payment', K) = TotalOf(payment, K)
  BY <1>7, <1>8, TotalsAre
<1>10. TotalOf(payment', K \cup {k}) = TotalOf(payment', (K \cup {k}) \ {k}) + payment'[k].amount
  <2>1. IsFiniteSet(K \cup {k})
    BY <1>8, FS_AddElement
  <2>2. \A j \in K \cup {k} : payment'[j].amount \in Nat
    BY <1>1, <1>2, <1>7, <1>8
  <2> QED
    BY <2>1, <2>2, TotalsAre
<1>11. (K \cup {k}) \ {k} = K
  BY <1>6
<1>12. Total(Paid(i))' = Total(Paid(i)) + row.amount
  BY <1>2, <1>5, <1>6, <1>9, <1>10, <1>11, TotalOfs
<1> QED
  BY <1>3, <1>4, <1>12

\* The sessions, when a request commits
LEMMA CommitKeepsFunds ==
  ASSUME IInv, SettleInv, NEW r \in Requests, NEW written, NEW then \in Session,
         Commit(r, written, then), then.op \in {"none", "tag", "processed"},
         \A i \in Issued \ written : Same(i)
  PROVE  \A q \in Requests : Funds(work[q])'
<1>1. ASSUME NEW q \in Requests PROVE \E v : v = work'[q] /\ Funds(v)'
  <2>1. CASE q = r
    BY <2>1, CommitIs DEF IInv, SessionsOK, Funds
  <2>2. CASE q # r /\ work[q].op = "none"
    <3>1. work'[q] = Idle
      BY <2>2, CommitIs DEF IInv, SessionsOK
    <3>2. Funds(Idle)'
      BY DEF Funds, Idle
    <3> QED
      BY <3>1, <3>2
  <2>3. CASE q # r /\ work[q].op # "none"
    <3>1. PICK S \in SUBSET Row : /\ work'[q] = [work[q] EXCEPT !.stale = S]
                                  /\ S = work[q].stale \cup (written \cap work[q].rows)
      BY <2>3, CommitIs DEF IInv, SessionsOK
    <3>2. PICK w \in Session : w = work[q] /\ Sound(w) /\ Funds(w) /\ w.op # "none"
      BY <2>3 DEF IInv, SessionsOK, SettleInv
    <3>3. PICK v : v = [w EXCEPT !.stale = S]
      OBVIOUS
    <3>4. /\ v.op = w.op /\ v.rows = w.rows /\ v.stale = S
          /\ w.op = "pay" => /\ v.invoice = w.invoice /\ v.amount = w.amount
                             /\ v.writes = w.writes
          /\ w.op \in {"list", "reconcile"} => v.late = w.late
      BY <3>2, <3>3, StaleIs
    <3>5. ASSUME NEW i \in Issued, i \in w.rows \ S
          PROVE  invoice'[i] = invoice[i] /\ Total(Paid(i))' = Total(Paid(i)) /\ i \notin w.stale
      BY <3>1, <3>2, <3>5 DEF Same
    <3>6. Funds(v)'
      <4>1. CASE w.op = "pay"
        <5>1. w.invoice \in Issued /\ w.invoice \in w.rows
          BY <3>2, <4>1 DEF Sound, OnIssued, Funds
        <5> QED
          BY <3>2, <3>4, <3>5, <4>1, <5>1 DEF Funds
      <4>2. CASE w.op \in {"list", "reconcile"}
        <5>1. w.late \subseteq Issued /\ w.late \subseteq w.rows
          BY <3>2, <4>2 DEF Sound, OnIssued, Funds
        <5> QED
          BY <3>2, <3>4, <3>5, <4>2, <5>1 DEF Funds
      <4>3. CASE w.op \notin {"pay", "list", "reconcile"}
        BY <3>4, <4>3 DEF Funds
      <4> QED
        BY <4>1, <4>2, <4>3
    <3> QED
      BY <3>1, <3>2, <3>3, <3>6
  <2> QED
    BY <2>1, <2>2, <2>3
<1> QED
  BY <1>1 DEF Funds



\* A request begins: it knows what it read.
LEMMA ReadFunds ==
  ASSUME IInv, SettleInv, NEW r \in Requests, Read(r)
  PROVE  \E s : Funds(s) /\ Begin(r, s)
<1>1. ASSUME NEW i \in Issued, NEW amount \in Amounts, NEW e, NEW by, MayPay(i, amount, e)
      PROVE  Funds(Paying(i, amount, e, by))
  <2>1. PICK s : s = Paying(i, amount, e, by)
    OBVIOUS
  <2>2. PICK W : W = IF Settles(i, amount) THEN {i, "sub"} ELSE {i}
    OBVIOUS
  <2>3. s = [op |-> "pay", invoice |-> i, rows |-> {i, "sub"}, amount |-> amount, ref |-> e,
             by |-> by, stale |-> {}, old |-> sub, writes |-> W]
    BY <2>1, <2>2 DEF Paying
  <2>4. /\ s.op = "pay" /\ s.invoice = i /\ s.amount = amount /\ s.writes = W
        /\ s.rows = {i, "sub"} /\ s.stale = {}
    BY <2>3
  <2>5. PICK total \in Nat : total = Total(Paid(i))
    BY PaidRows DEF IInv
  <2>6. i # "sub" /\ amount \in Nat /\ invoice[i].amount \in Nat
    BY IssuedRows, SubscriptionsAssumption DEF IInv, Issued, InvoiceRow
  <2>7. invoice[i].status # "paid" /\ total + amount <= invoice[i].amount
    BY <1>1, <2>5 DEF MayPay, Balance
  <2>8. "sub" \in W <=> total + amount = invoice[i].amount
    <3>1. "sub" \in W <=> total + amount >= invoice[i].amount
      BY <2>2, <2>5, <2>6 DEF Settles
    <3> QED
      BY <2>5, <2>6, <2>7, <3>1
  <2>9. i \in s.rows /\ i \in s.writes
    BY <2>2, <2>4
  <2>10. Funds(s)
    BY <2>4, <2>5, <2>7, <2>8, <2>9 DEF Funds
  <2> QED
    BY <2>1, <2>10
<1>2. ASSUME NEW kind, NEW from PROVE Funds(Issuing(from, kind))
  BY DEF Funds, Issuing
<1>3. ASSUME NEW e, NEW to PROVE Funds([op |-> "event", rows |-> {}, to |-> to, ref |-> e,
                                        by |-> "webhook", stale |-> {}])
  BY DEF Funds
<1>4. ASSUME NEW op \in {"licence", "activate"}, NEW new PROVE Funds(Setting(op, new))
  BY DEF Funds, Setting
<1>5. ASSUME NEW day PROVE \A i \in PastDue(day) : invoice[i].status = "issued"
  BY DEF PastDue
<1>6. ASSUME NEW day, ListRead(r) \/ ReconcileRead(r, day) PROVE \E s : Funds(s) /\ Begin(r, s)
  <2>1. Funds([op |-> "list", rows |-> PastDue(today), stale |-> {}, late |-> PastDue(today)])
    BY <1>5 DEF Funds
  <2>2. Funds([op |-> "reconcile", rows |-> PastDue(day) \cup {"sub"}, stale |-> {}, old |-> sub,
               new |-> Reconciled(day), late |-> PastDue(day), day |-> day])
    BY <1>5 DEF Funds
  <2> QED
    BY <1>6, <2>1, <2>2 DEF ListRead, ReconcileRead
<1>7. ASSUME NEW i \in Invoices, NEW amount \in Amounts,
             \/ PayRead(r, i, amount)
             \/ \E e \in Events : ProviderRead(r, e, i, amount) \/ WebhookPays(r, e, i, amount)
      PROVE  \E s : Funds(s) /\ Begin(r, s)
  BY <1>1, <1>7 DEF PayRead, ProviderRead, WebhookPays, WebhookRead, MayPay
<1>8. ASSUME NEW e \in Events, NEW to, WebhookEnds(r, e, to)
      PROVE  \E s : Funds(s) /\ Begin(r, s)
  BY <1>3, <1>8 DEF WebhookEnds, WebhookRead
<1> QED
  BY <1>2, <1>4, <1>6, <1>7, <1>8
     DEF Read, IssueRead, RenewRead, WebhookFails, LicenceRead, ActivateRead, UpdateRead

\* A step that changes no row
LEMMA RowsKeepFunds ==
  ASSUME UNCHANGED <<invoice, payment>>, NEW w, Funds(w)
  PROVE  Funds(w)'
BY DEF Funds, Total, Paid, FoldSet, MapThenFoldSet

LEMMA RowsKeepSettled ==
  ASSUME SettleInv, UNCHANGED <<invoice, payment, blurred>>
  PROVE  PaidIsIssued' /\ InvoiceSettled'
<1>1. PaidIsIssued' /\ Issued' = Issued
  BY DEF SettleInv, PaidIsIssued, Issued
<1>2. \A i : Total(Paid(i))' = Total(Paid(i))
  BY DEF Total, Paid, FoldSet, MapThenFoldSet
<1> QED
  BY <1>1, <1>2 DEF SettleInv, InvoiceSettled

LEMMA BeginSettles ==
  ASSUME IInv, SettleInv, NEW r \in Requests, NEW s, Funds(s), Begin(r, s)
  PROVE  SettleInv'
<1>1. UNCHANGED <<invoice, payment, blurred>> /\ work' = [work EXCEPT ![r] = s]
  BY DEF Begin, rows, history
<1>2. \A q \in Requests : \E v : v = work'[q] /\ Funds(v)
  BY <1>1, RowsAre DEF SettleInv
<1>3. ASSUME NEW q \in Requests PROVE Funds(work[q])'
  <2>1. PICK v : v = work'[q] /\ Funds(v)'
    BY <1>1, <1>2, RowsKeepFunds
  <2> QED
    BY <2>1 DEF Funds
<1> QED
  BY <1>1, <1>3, RowsKeepSettled DEF SettleInv

LEMMA AbortSettles ==
  ASSUME IInv, SettleInv, NEW r \in Requests, Abort(r)
  PROVE  SettleInv'
<1>1. UNCHANGED <<invoice, payment, blurred>> /\ work' = [work EXCEPT ![r] = Idle]
  BY DEF Abort, rows
<1>2. Funds(Idle)
  BY DEF Funds, Idle
<1>3. \A q \in Requests : \E v : v = work'[q] /\ Funds(v)
  BY <1>1, <1>2, RowsAre DEF SettleInv
<1>4. ASSUME NEW q \in Requests PROVE Funds(work[q])'
  <2>1. PICK v : v = work'[q] /\ Funds(v)'
    BY <1>1, <1>3, RowsKeepFunds
  <2> QED
    BY <2>1 DEF Funds
<1> QED
  BY <1>1, <1>4, RowsKeepSettled DEF SettleInv

\* The invoices that a commit leaves alone stay settled as they were.
LEMMA OthersStaySettled ==
  ASSUME SettleInv, NEW written, blurred \subseteq blurred',
         \A i \in Issued \ written : Same(i),
         \A i \in (Issued' \ blurred') \ (Issued \ written) :
           /\ Total(Paid(i))' <= invoice'[i].amount
           /\ invoice'[i].status = "paid" <=> Total(Paid(i))' = invoice'[i].amount
  PROVE  InvoiceSettled'
BY DEF SettleInv, InvoiceSettled, Same


\* A commit that touches neither an invoice nor an amount
LEMMA CommitSettles ==
  ASSUME IInv, SettleInv, NEW r \in Requests, NEW written, NEW then \in Session,
         Commit(r, written, then), then.op \in {"none", "tag", "processed"},
         invoice' = invoice, \A i : Total(Paid(i))' = Total(Paid(i)), PaidIsIssued'
  PROVE  SettleInv'
<1>1. \A i : Same(i)
  BY DEF Same
<1>2. \A q \in Requests : Funds(work[q])'
  BY <1>1, CommitKeepsFunds
<1>3. blurred \subseteq blurred' /\ Issued' = Issued
  BY DEF Commit, Issued
<1>4. InvoiceSettled'
  <2>1. \A i \in (Issued' \ blurred') \ (Issued \ {}) :
          /\ Total(Paid(i))' <= invoice'[i].amount
          /\ invoice'[i].status = "paid" <=> Total(Paid(i))' = invoice'[i].amount
    BY <1>3
  <2> QED
    BY <1>1, <1>3, <2>1, OthersStaySettled
<1> QED
  BY <1>2, <1>4 DEF SettleInv

LEMMA InboxCommitSettles ==
  ASSUME IInv, SettleInv, NEW r \in Requests,
         EventCommit(r) \/ ProcessedCommit(r) \/ SubCommit(r)
  PROVE  SettleInv'
<1>1. \E written : Commit(r, written, Idle)
  BY DEF EventCommit, ProcessedCommit, SubCommit
<1>2. UNCHANGED <<invoice, payment>>
  BY DEF EventCommit, ProcessedCommit, SubCommit
<1>3. Idle \in Session /\ Idle.op = "none"
  BY DEF Session, Idle
<1>4. PaidIsIssued'
  BY <1>2 DEF SettleInv, PaidIsIssued, Issued
<1>5. \A i : Total(Paid(i))' = Total(Paid(i))
  BY <1>2 DEF Total, Paid, FoldSet, MapThenFoldSet
<1> QED
  BY <1>1, <1>2, <1>3, <1>4, <1>5, CommitSettles

LEMMA TagCommitSettles ==
  ASSUME IInv, SettleInv, NEW r \in Requests, TagCommit(r)
  PROVE  SettleInv'
<1>1. PICK w \in Taggings : w = work[r] /\ Sound(w) /\ w.op = "tag"
  BY RowsAre, SessionIs DEF TagCommit, Ready
<1>2. PICK then : then = IF w.by = "webhook" THEN [w EXCEPT !.op = "processed"] ELSE Idle
  OBVIOUS
<1>3. /\ payment' = [payment EXCEPT ![w.payment].ext = w.ref]
      /\ Commit(r, {}, then) /\ invoice' = invoice
  BY <1>1, <1>2 DEF TagCommit
<1>4. then \in Session /\ then.op \in {"none", "processed"}
  <2>1. CASE w.by = "webhook"
    BY <1>2, <2>1 DEF Session, Taggings
  <2>2. CASE w.by # "webhook"
    BY <1>2, <2>2 DEF Session, Idle
  <2> QED
    BY <2>1, <2>2
<1>5. w.payment \in Payments /\ payment[w.payment] # NoRow /\ payment[w.payment] \in PaymentRow
  <2>1. w.payment \in Payments /\ payment[w.payment] # NoRow
    BY <1>1 DEF Sound, Carries, Taggings
  <2> QED
    BY <2>1, RowsAre
<1>6. PICK row : row = [payment[w.payment] EXCEPT !.ext = w.ref]
  OBVIOUS
<1>7. row.invoice = payment[w.payment].invoice /\ row.amount = payment[w.payment].amount
      /\ row \in PaymentRow /\ row # NoRow
  <2>1. row.invoice = payment[w.payment].invoice /\ row.amount = payment[w.payment].amount
        /\ row \in PaymentRow
    BY <1>5, <1>6 DEF PaymentRow, Taggings
  <2> QED
    BY <2>1, SubscriptionsAssumption
<1>8. payment' = [payment EXCEPT ![w.payment] = row]
  BY <1>3, <1>6
<1>9. \A k \in Payments :
        /\ payment'[k] = NoRow <=> payment[k] = NoRow
        /\ payment[k] # NoRow => /\ payment'[k].invoice = payment[k].invoice
                                 /\ payment'[k].amount = payment[k].amount
  BY <1>5, <1>7, <1>8, RowsAre
<1>10. PaidIsIssued'
  BY <1>3, <1>9 DEF SettleInv, PaidIsIssued, Issued
<1>11. ASSUME NEW i PROVE Total(Paid(i))' = Total(Paid(i))
  <2>1. Paid(i)' = Paid(i) /\ \A k \in Paid(i) : payment'[k].amount = payment[k].amount
    BY <1>9 DEF Paid
  <2> QED
    BY <2>1, TotalSame DEF IInv
<1> QED
  BY <1>3, <1>4, <1>10, <1>11, CommitSettles

LEMMA IssueCommitSettles ==
  ASSUME IInv, SettleInv, NEW r \in Requests, NEW i \in Invoices, IssueCommit(r, i)
  PROVE  SettleInv'
<1>1. PICK w \in Issuings : w = work[r]
  BY RowsAre, SessionIs DEF IssueCommit, Ready
<1>2. PICK row : row = [status |-> "issued", from |-> w.from,
                        to |-> w.from + Length[w.kind] - 1, amount |-> Price[w.kind],
                        due |-> today + DueDays]
  OBVIOUS
<1>3. invoice' = [invoice EXCEPT ![i] = row] /\ i \notin Issued /\ Commit(r, {}, Idle)
      /\ payment' = payment
  BY <1>1, <1>2 DEF IssueCommit
<1>4. row.amount \in Nat \ {0} /\ row.status = "issued"
  BY <1>2, SubscriptionsAssumption DEF Issuings
<1>5. invoice'[i] = row /\ \A j \in Invoices : j # i => invoice'[j] = invoice[j]
  BY <1>3, RowsAre
<1>6. Issued \subseteq Issued' /\ Issued' \subseteq Issued \cup {i}
  BY <1>3, <1>5 DEF Issued
<1>7. \A j : Total(Paid(j))' = Total(Paid(j))
  BY <1>3 DEF Total, Paid, FoldSet, MapThenFoldSet
<1>8. \A j \in Issued \ {} : Same(j)
  BY <1>3, <1>5, <1>7 DEF Same, Issued
<1>9. Idle \in Session /\ Idle.op = "none" /\ blurred \subseteq blurred'
  BY <1>3 DEF Session, Idle, Commit
<1>10. \A q \in Requests : Funds(work[q])'
  BY <1>3, <1>8, <1>9, CommitKeepsFunds
<1>11. PaidIsIssued'
  BY <1>3, <1>6 DEF SettleInv, PaidIsIssued
<1>12. InvoiceSettled'
  <2>1. Total(Paid(i)) = 0
    <3>1. Paid(i) = {}
      BY <1>3 DEF SettleInv, PaidIsIssued, Paid
    <3>2. Total(Paid(i)) = TotalOf(payment, {})
      BY <3>1, TotalOfs
    <3>3. TotalOf(payment, {}) = 0
      BY FS_EmptySet, TotalsAre
    <3> QED
      BY <3>2, <3>3
  <2>2. /\ Total(Paid(i))' <= invoice'[i].amount
        /\ invoice'[i].status = "paid" <=> Total(Paid(i))' = invoice'[i].amount
    BY <1>4, <1>5, <1>7, <2>1
  <2>3. \A j \in (Issued' \ blurred') \ (Issued \ {}) :
          /\ Total(Paid(j))' <= invoice'[j].amount
          /\ invoice'[j].status = "paid" <=> Total(Paid(j))' = invoice'[j].amount
    BY <1>6, <2>2
  <2> QED
    BY <1>8, <1>9, <2>3, OthersStaySettled
<1> QED
  BY <1>10, <1>11, <1>12 DEF SettleInv

LEMMA PayCommitSettles ==
  ASSUME IInv, SettleInv, NEW r \in Requests, NEW k \in Payments, PayCommit(r, k)
  PROVE  SettleInv'
<1>1. PICK w \in Payings :
        /\ w = work[r] /\ w.invoice \in Issued /\ invoice[w.invoice] \in InvoiceRow
        /\ payment[k] = NoRow
        /\ \E row \in PaymentRow :
             /\ payment' = [payment EXCEPT ![k] = row]
             /\ row.ref = w.ref /\ row.by = w.by /\ row.ext = NoEvent
             /\ row.invoice = w.invoice /\ row.amount = w.amount
        /\ \/ /\ "sub" \in w.writes
              /\ invoice' = [invoice EXCEPT ![w.invoice].status = "paid"]
              /\ sub' = Merged(sub, w.old, Extended(w))
              /\ promised' = Later(promised, invoice[w.invoice].to) /\ asked' = 0
           \/ /\ "sub" \notin w.writes
              /\ invoice' = invoice /\ sub' = sub /\ promised' = promised
              /\ asked' = asked
        /\ event' = IF w.by = "webhook" THEN [event EXCEPT ![w.ref] = "received"] ELSE event
        /\ Commit(r, w.writes, IF w.by = "manual" THEN Idle
                               ELSE [op |-> "tag", payment |-> k, rows |-> {}, ref |-> w.ref,
                                     by |-> w.by, stale |-> {}])
        /\ UNCHANGED torn
  BY PayCommitIs
<1>2. PICK row \in PaymentRow :
        /\ payment' = [payment EXCEPT ![k] = row]
        /\ row.invoice = w.invoice /\ row.amount = w.amount
  BY <1>1
<1>3. PICK i \in Issued : i = w.invoice /\ invoice[i] \in InvoiceRow
  BY <1>1
<1>4. /\ Total(Paid(i))' = Total(Paid(i)) + w.amount
      /\ \A j : j # i => Total(Paid(j))' = Total(Paid(j))
  BY <1>1, <1>2, <1>3, TotalMore DEF IInv
<1>5. w.op = "pay" /\ w.amount \in Amounts /\ w.by \in {"manual", "provider", "webhook"}
      /\ w.ref \in Events \cup {NoEvent}
  BY DEF Payings
<1>6. Funds(w) /\ Sound(w)
  BY <1>1, RowsAre DEF SettleInv
<1>7. i \in w.rows /\ i \in w.writes
  BY <1>3, <1>5, <1>6 DEF Funds
<1>8. PICK last \in InvoiceRow : /\ last = IF "sub" \in w.writes
                                          THEN [invoice[i] EXCEPT !.status = "paid"]
                                          ELSE invoice[i]
                                /\ last.amount = invoice[i].amount
                                /\ last.status = IF "sub" \in w.writes THEN "paid"
                                                 ELSE invoice[i].status
  <2>1. PICK was \in InvoiceRow : was = invoice[i]
    BY <1>3
  <2>2. CASE "sub" \in w.writes
    <3>1. PICK last : last = [was EXCEPT !.status = "paid"]
      OBVIOUS
    <3>2. last \in InvoiceRow /\ last.amount = was.amount /\ last.status = "paid"
      BY <3>1 DEF InvoiceRow
    <3> QED
      BY <2>1, <2>2, <3>1, <3>2
  <2>3. CASE "sub" \notin w.writes
    BY <2>1, <2>3
  <2> QED
    BY <2>2, <2>3
<1>9. /\ invoice'[i] = last
      /\ \A j \in Invoices : j # i => invoice'[j] = invoice[j]
  BY <1>1, <1>3, <1>8, RowsAre DEF Issued
<1>10. Issued' = Issued
  BY <1>3, <1>8, <1>9, SubscriptionsAssumption DEF Issued
<1>11. \A j \in Issued \ w.writes : Same(j)
  BY <1>4, <1>7, <1>9 DEF Same, Issued
<1>12. PICK then \in Session : /\ Commit(r, w.writes, then)
                               /\ then.op \in {"none", "tag", "processed"}
  <2>1. CASE w.by = "manual"
    BY <1>1, <2>1 DEF Session, Idle
  <2>2. CASE w.by # "manual"
    <3>1. w.ref \in Events
      BY <1>5, <1>6, <2>2 DEF Sound, Carries
    <3>2. PICK then : then = [op |-> "tag", payment |-> k, rows |-> {}, ref |-> w.ref,
                              by |-> w.by, stale |-> {}]
      OBVIOUS
    <3>3. then \in Session /\ then.op = "tag"
      BY <1>5, <2>2, <3>1, <3>2 DEF Session, Taggings, Row
    <3> QED
      BY <1>1, <2>2, <3>2, <3>3
  <2> QED
    BY <2>1, <2>2
<1>13. \A q \in Requests : Funds(work[q])'
  BY <1>11, <1>12, CommitKeepsFunds
<1>14. blurred' = blurred \cup (w.writes \cap w.stale)
  BY <1>1 DEF Commit
<1>15. PaidIsIssued'
  BY <1>1, <1>2, <1>3, <1>10, RowsAre DEF SettleInv, PaidIsIssued
<1>16. InvoiceSettled'
  <2>1. \A j \in Issued \ {i} : Same(j)
    BY <1>4, <1>9 DEF Same, Issued
  <2>2. ASSUME i \notin blurred'
        PROVE  /\ Total(Paid(i))' <= invoice'[i].amount
               /\ invoice'[i].status = "paid" <=> Total(Paid(i))' = invoice'[i].amount
    <3>1. i \notin w.stale
      BY <1>7, <1>14, <2>2
    <3>2. PICK total : total = Total(Paid(i))
      OBVIOUS
    <3>3. /\ invoice[i].status # "paid"
          /\ total + w.amount <= invoice[i].amount
          /\ "sub" \in w.writes <=> total + w.amount = invoice[i].amount
      BY <1>3, <1>5, <1>6, <3>1, <3>2 DEF Funds
    <3> QED
      BY <1>4, <1>8, <1>9, <3>2, <3>3
  <2>3. \A j \in (Issued' \ blurred') \ (Issued \ {i}) :
          /\ Total(Paid(j))' <= invoice'[j].amount
          /\ invoice'[j].status = "paid" <=> Total(Paid(j))' = invoice'[j].amount
    BY <1>10, <2>2
  <2> QED
    BY <1>14, <2>1, <2>3, OthersStaySettled
<1> QED
  BY <1>13, <1>15, <1>16 DEF SettleInv

\* The invoices that list_invoices or reconcile_subscriptions writes overdue
LEMMA OverdueSettles ==
  ASSUME IInv, SettleInv, NEW r \in Requests, NEW w \in Session, w = work[r],
         w.op \in {"list", "reconcile"}, NEW written, w.late = written \cap Invoices,
         Commit(r, written, Idle), invoice' = Overdue(w.late), payment' = payment
  PROVE  SettleInv'
<1>1. w.late \subseteq Issued /\ w.late \subseteq Invoices
  BY RowsAre DEF Sound, OnIssued
<1>2. \A i \in w.late : i \in w.stale \/ invoice[i].status = "issued"
  BY DEF SettleInv, Funds
<1>3. Issued \subseteq Issued' /\ Issued' \subseteq Issued
  <2>1. Issued \subseteq Issued'
    BY <1>1, OverdueIs
  <2>2. \A i \in Invoices : i \notin w.late => invoice'[i] = invoice[i]
    BY DEF Overdue
  <2> QED
    BY <1>1, <2>1, <2>2 DEF Issued
<1>4. \A i : Total(Paid(i))' = Total(Paid(i))
  BY DEF Total, Paid, FoldSet, MapThenFoldSet
<1>5. \A i \in Issued \ written : Same(i)
  BY <1>4 DEF Same, Overdue, Issued
<1>6. Idle \in Session /\ Idle.op = "none" /\ blurred' = blurred \cup (written \cap w.stale)
  BY DEF Session, Idle, Commit
<1>7. \A q \in Requests : Funds(work[q])'
  BY <1>5, <1>6, CommitKeepsFunds
<1>8. PaidIsIssued'
  BY <1>3 DEF SettleInv, PaidIsIssued
<1>9. ASSUME NEW i \in (Issued' \ blurred') \ (Issued \ written)
      PROVE  /\ Total(Paid(i))' <= invoice'[i].amount
             /\ invoice'[i].status = "paid" <=> Total(Paid(i))' = invoice'[i].amount
  <2>1. i \in Issued /\ i \in Invoices /\ i \in w.late /\ i \notin blurred /\ i \notin w.stale
    BY <1>3, <1>6, <1>9 DEF Issued
  <2>2. invoice[i].status = "issued" /\ invoice[i] \in InvoiceRow
    BY <1>2, <2>1, IssuedRows DEF IInv
  <2>3. PICK row : row = [invoice[i] EXCEPT !.status = "overdue"]
    OBVIOUS
  <2>4. row.amount = invoice[i].amount /\ row.status = "overdue"
    BY <2>2, <2>3 DEF InvoiceRow
  <2>5. invoice'[i] = row
    BY <2>1, <2>3 DEF Overdue
  <2>6. /\ Total(Paid(i)) <= invoice[i].amount
        /\ invoice[i].status = "paid" <=> Total(Paid(i)) = invoice[i].amount
    BY <2>1 DEF SettleInv, InvoiceSettled
  <2> QED
    BY <1>4, <2>2, <2>4, <2>5, <2>6
<1>10. InvoiceSettled'
  BY <1>5, <1>6, <1>9, OthersStaySettled
<1> QED
  BY <1>7, <1>8, <1>10 DEF SettleInv

LEMMA LateCommitSettles ==
  ASSUME IInv, SettleInv, NEW r \in Requests, ListCommit(r) \/ ReconcileCommit(r)
  PROVE  SettleInv'
<1>1. PICK w \in Session : w = work[r]
  BY RowsAre
<1>2. CASE ListCommit(r)
  <2>1. w.op = "list" /\ w.late = w.late \cap Invoices
    BY <1>1, <1>2, SessionIs DEF ListCommit, Ready, Listings
  <2> QED
    BY <1>1, <1>2, <2>1, OverdueSettles DEF ListCommit
<1>3. CASE ReconcileCommit(r)
  <2>1. w.op = "reconcile" /\ w.late \subseteq Invoices
    BY <1>1, <1>3, SessionIs DEF ReconcileCommit, Ready, Reconcilings
  <2>2. PICK written : written = w.late \cup IF w.new # w.old THEN {"sub"} ELSE {}
    OBVIOUS
  <2>3. w.late = written \cap Invoices
    BY <2>1, <2>2, SubscriptionsAssumption
  <2>4. Commit(r, written, Idle) /\ invoice' = Overdue(w.late) /\ payment' = payment
    BY <1>1, <1>3, <2>2 DEF ReconcileCommit
  <2> QED
    BY <1>1, <2>1, <2>3, <2>4, OverdueSettles
<1> QED
  BY <1>2, <1>3

LEMMA InitSettles == Init => SettleInv
<1>1. SUFFICES ASSUME Init PROVE SettleInv
  OBVIOUS
<1>2. Issued = {} /\ PaidIsIssued
  BY <1>1 DEF Init, Issued, PaidIsIssued
<1>3. \A r \in Requests : Funds(work[r])
  BY <1>1 DEF Init, Idle, Funds
<1> QED
  BY <1>2, <1>3 DEF SettleInv, InvoiceSettled

LEMMA NextSettles == IInv /\ SettleInv /\ [Next]_vars => SettleInv'
<1>1. SUFFICES ASSUME IInv, SettleInv, [Next]_vars PROVE SettleInv'
  OBVIOUS
<1>2. ASSUME NEW r \in Requests, Read(r) PROVE SettleInv'
  <2>1. PICK s : Funds(s) /\ Begin(r, s)
    BY <1>1, <1>2, ReadFunds
  <2> QED
    BY <1>1, <2>1, BeginSettles
<1>3. ASSUME NEW r \in Requests, Write(r) PROVE SettleInv'
  BY <1>1, <1>3, IssueCommitSettles, PayCommitSettles, TagCommitSettles, InboxCommitSettles,
     LateCommitSettles DEF Write
<1>4. CASE Tomorrow \/ UNCHANGED vars
  <2>1. UNCHANGED <<invoice, payment, blurred>> /\ work' = work
    BY <1>4 DEF Tomorrow, vars, rows, history
  <2>2. ASSUME NEW q \in Requests PROVE Funds(work[q])'
    <3>1. PICK v : v = work[q] /\ Funds(v)'
      BY <1>1, <2>1, RowsKeepFunds DEF SettleInv
    <3> QED
      BY <2>1, <3>1 DEF Funds
  <2> QED
    BY <1>1, <2>1, <2>2, RowsKeepSettled DEF SettleInv
<1> QED
  BY <1>1, <1>2, <1>3, <1>4, AbortSettles DEF Next

\* The payments of an invoice make its amount when it is marked paid and only then, and
\* never go beyond it, unless two requests wrote it at once: register_payment, the
\* provider's payments and the webhook's, and the two readers that mark what is overdue.
THEOREM InvoicesSettle == Spec => []InvoiceSettled
<1>1. SettleInv => InvoiceSettled
  BY DEF SettleInv
<1> QED
  BY <1>1, InitSettles, NextSettles, SpecIInv, PTL DEF Spec

----------------------------------------------------------------------------------
(* The fees                                                                       *)

LEMMA FeesConstants ==
  /\ ReqInvoice \in [Asked -> Bills]
  /\ ReqAmount \in [Asked -> Nat \ {0}]
  /\ ReqKey \in [Asked -> Keys \cup {NoKey}]
  /\ NoKey \notin Keys /\ None \notin Asked
  /\ Net \in [Bills -> Nat]
  /\ RowLocks \in BOOLEAN /\ Cancels \in BOOLEAN /\ Refreshes \in BOOLEAN
  /\ MaxPayments \in Nat
BY FeesAssumption DEF Fees!PaymentConstants

----------------------------------------------------------------------------------
(* Types.  A thread that serves a request knows the payment it is about.          *)

JobOK(j) ==
  /\ j.pc \in {"asked", "checked", "flushed"} => j.kind = "record"
  /\ j.kind = "record" => j.r \in Asked
  /\ j.kind = "cancel" \/ j.pc \in {"flushed", "committed"} => j.p \in Fees!Ids

JobsOK == \A w \in Workers : JobOK(serving[w])

\* The row that is being cancelled is there.
CancelsRow == \A w \in Workers : serving[w].kind = "cancel" => fee[serving[w].p] \in Asked

DataTyped ==
  /\ standing \in [Bills -> Fees!Statuses \cup {"absent"}]
  /\ pastDue \subseteq Bills
  /\ fee \in [Fees!Ids -> Asked \cup {None}]
  /\ cancelled \subseteq Fees!Ids
  /\ paid \in [Bills -> Int]
  /\ lastId \in 0..MaxPayments
  /\ audited \subseteq {"create", "cancel"} \X Fees!Ids
  /\ answers \in [Asked -> SUBSET Fees!Ids]

Typed == DataTyped /\ serving \in [Workers -> Fees!Work] /\ JobsOK /\ CancelsRow

LEMMA IdleOK ==
  Fees!IdleWork \in Fees!Work /\ JobOK(Fees!IdleWork) /\ Fees!IdleWork.kind # "cancel"
<1>1. Fees!NoStatus \in [{} -> Fees!Statuses \cup {"absent"}]
  BY DEF Fees!NoStatus
<1>2. Fees!NoStatus \in Fees!StatusMaps
  BY <1>1 DEF Fees!StatusMaps
<1> QED BY <1>2, FeesConstants DEF Fees!IdleWork, Fees!Work, JobOK

\* One thread goes on with a well-formed job and no row disappears.
LEMMA JobTyped ==
  ASSUME Typed, NEW w \in Workers, NEW j \in Fees!Work, JobOK(j),
         serving' = [serving EXCEPT ![w] = j],
         \A p \in Fees!Ids : fee[p] \in Asked => fee'[p] \in Asked,
         j.kind = "cancel" => fee'[j.p] \in Asked
  PROVE  serving' \in [Workers -> Fees!Work] /\ JobsOK' /\ CancelsRow'
<1>1. serving' \in [Workers -> Fees!Work]
  BY DEF Typed
<1>2. JobsOK'
  BY DEF Typed, JobsOK, JobOK
<1>3. CancelsRow'
  BY DEF Typed, CancelsRow, JobsOK, JobOK
<1> QED BY <1>1, <1>2, <1>3

LEMMA FinishTyped ==
  ASSUME Typed, NEW w \in Workers, Fees!Finish(w), UNCHANGED fee
  PROVE  serving' \in [Workers -> Fees!Work] /\ JobsOK' /\ CancelsRow'
BY IdleOK, JobTyped DEF Fees!Finish

LEMMA OneStatus ==
  ASSUME NEW i \in Bills, NEW s \in Fees!Statuses \cup {"absent"}
  PROVE  [j \in {i} |-> s] \in Fees!StatusMaps
<1>1. [j \in {i} |-> s] \in [{i} -> Fees!Statuses \cup {"absent"}]
  OBVIOUS
<1> QED BY <1>1 DEF Fees!StatusMaps

LEMMA RefreshedTyped ==
  ASSUME NEW i, NEW n \in Int
  PROVE  Fees!Refreshed(i, n) \in Fees!Statuses
BY DEF Fees!Refreshed, Fees!Statuses

LEMMA MapTyped ==
  ASSUME NEW m \in Fees!StatusMaps
  PROVE  /\ DOMAIN m \subseteq Bills
         /\ \A i \in DOMAIN m : m[i] \in Fees!Statuses \cup {"absent"}
BY DEF Fees!StatusMaps

LEMMA StatusTyped ==
  ASSUME Typed, NEW w \in Workers
  PROVE  Fees!StatusAfter(w) \in [Bills -> Fees!Statuses \cup {"absent"}]
<1>1. serving[w].new \in Fees!StatusMaps
  BY DEF Typed, Fees!Work
<1> QED BY <1>1, MapTyped DEF Fees!StatusAfter, Fees!Changed, Typed, DataTyped

LEMMA InitTyped == Fees!Init => Typed
BY FeesConstants, IdleOK DEF Fees!Init, Typed, DataTyped, JobsOK, CancelsRow, Fees!Ids

----------------------------------------------------------------------------------
(* The requests that read.                                                        *)

LEMMA AskTyped ==
  ASSUME Typed, NEW w \in Workers, NEW r \in Asked, Fees!AskPayment(w, r)
  PROVE  Typed'
<1> DEFINE j == [Fees!IdleWork EXCEPT !.kind = "record", !.pc = "asked", !.r = r]
<1>1. j \in Fees!Work /\ JobOK(j) /\ j.kind # "cancel"
  BY IdleOK DEF Fees!IdleWork, Fees!Work, JobOK
<1>2. serving' = [serving EXCEPT ![w] = j] /\ DataTyped' /\ UNCHANGED fee
  BY DEF Fees!AskPayment, Typed, DataTyped
<1> QED BY <1>1, <1>2, JobTyped DEF Typed

LEMMA LoadTyped ==
  ASSUME Typed, NEW w \in Workers, Fees!LoadInvoice(w)
  PROVE  Typed'
<1> DEFINE i == ReqInvoice[serving[w].r]
           m == [x \in {i} |-> standing[x]]
           j == [serving[w] EXCEPT !.pc = "loaded", !.loaded = m]
<1>1. serving[w] \in Fees!Work /\ JobOK(serving[w]) /\ serving[w].pc = "asked"
  BY DEF Fees!LoadInvoice, Typed, JobsOK
<1>2. i \in Bills
  BY <1>1, FeesConstants DEF JobOK
<1>3. m \in Fees!StatusMaps
  BY <1>2, OneStatus DEF Typed, DataTyped
<1>4. j \in Fees!Work /\ JobOK(j) /\ j.kind # "cancel"
  BY <1>1, <1>3 DEF Fees!Work, JobOK
<1>5. serving' = [serving EXCEPT ![w] = j] /\ DataTyped' /\ UNCHANGED fee
  BY DEF Fees!LoadInvoice, Typed, DataTyped
<1> QED BY <1>4, <1>5, JobTyped DEF Typed

LEMMA CheckTyped ==
  ASSUME Typed, NEW w \in Workers, Fees!CheckBalance(w)
  PROVE  Typed'
<1> DEFINE j == [serving[w] EXCEPT !.pc = "checked"]
<1>1. DataTyped' /\ UNCHANGED fee
  BY DEF Fees!CheckBalance, Typed, DataTyped
<1>2. CASE Fees!Finish(w)
  BY <1>1, <1>2, FinishTyped DEF Typed
<1>3. CASE serving' = [serving EXCEPT ![w] = j]
  <2>1. serving[w] \in Fees!Work /\ JobOK(serving[w]) /\ serving[w].kind = "record"
    BY DEF Fees!CheckBalance, Typed, JobsOK
  <2>2. j \in Fees!Work /\ JobOK(j) /\ j.kind # "cancel"
    BY <2>1 DEF Fees!Work, JobOK
  <2> QED BY <1>1, <1>3, <2>2, JobTyped DEF Typed
<1> QED BY <1>2, <1>3 DEF Fees!CheckBalance

LEMMA LoadCancelTyped ==
  ASSUME Typed, NEW w \in Workers, NEW p \in Fees!Ids, Fees!LoadCancel(w, p)
  PROVE  Typed'
<1> DEFINE i == Fees!InvoiceOf(p)
           m == [x \in {i} |-> standing[x]]
           j == [Fees!IdleWork EXCEPT !.kind = "cancel", !.pc = "loaded", !.p = p,
                   !.loaded = m]
<1>1. fee[p] \in Asked
  BY DEF Fees!LoadCancel, Fees!Rows, Typed, DataTyped
<1>2. i \in Bills
  BY <1>1, FeesConstants DEF Fees!InvoiceOf
<1>3. m \in Fees!StatusMaps
  BY <1>2, OneStatus DEF Typed, DataTyped
<1>4. p \in 0..MaxPayments
  BY FeesConstants DEF Fees!Ids
<1>5. j \in Fees!Work /\ JobOK(j)
  BY <1>3, <1>4, IdleOK DEF Fees!IdleWork, Fees!Work, JobOK
<1>6. serving' = [serving EXCEPT ![w] = j] /\ DataTyped' /\ UNCHANGED fee
  BY DEF Fees!LoadCancel, Typed, DataTyped
<1>7. j.p = p
  BY DEF Fees!IdleWork
<1> QED BY <1>1, <1>5, <1>6, <1>7, JobTyped DEF Typed

LEMMA LoadAllTyped ==
  ASSUME Typed, NEW w \in Workers, Fees!LoadAll(w)
  PROVE  Typed'
<1> DEFINE m == [i \in Fees!Created |-> standing[i]]
           j == [Fees!IdleWork EXCEPT !.kind = "refresh", !.pc = "loaded", !.loaded = m]
<1>1. Fees!Created \in SUBSET Bills /\ m \in [Fees!Created -> Fees!Statuses \cup {"absent"}]
  BY DEF Typed, DataTyped, Fees!Created
<1>2. m \in Fees!StatusMaps
  BY <1>1 DEF Fees!StatusMaps
<1>3. j \in Fees!Work /\ JobOK(j) /\ j.kind # "cancel"
  BY <1>2, IdleOK DEF Fees!IdleWork, Fees!Work, JobOK
<1>4. serving' = [serving EXCEPT ![w] = j] /\ DataTyped' /\ UNCHANGED fee
  BY DEF Fees!LoadAll, Typed, DataTyped
<1> QED BY <1>3, <1>4, JobTyped DEF Typed

LEMMA SumTyped ==
  ASSUME Typed, NEW w \in Workers, Fees!SumPayments(w)
  PROVE  Typed'
<1> DEFINE D == DOMAIN serving[w].loaded
           m == [i \in D |-> Fees!Refreshed(i, paid[i])]
           j == [serving[w] EXCEPT !.pc = "summed", !.new = m]
<1>1. serving[w] \in Fees!Work /\ JobOK(serving[w]) /\ serving[w].kind \in {"cancel", "refresh"}
  BY DEF Fees!SumPayments, Typed, JobsOK
<1>2. serving[w].loaded \in Fees!StatusMaps
  BY <1>1 DEF Fees!Work
<1>3. D \subseteq Bills
  BY <1>2, MapTyped
<1>4. \A i \in D : Fees!Refreshed(i, paid[i]) \in Fees!Statuses
  BY <1>3, RefreshedTyped DEF Typed, DataTyped
<1>5. m \in [D -> Fees!Statuses \cup {"absent"}]
  BY <1>4
<1>6. m \in Fees!StatusMaps
  BY <1>3, <1>5 DEF Fees!StatusMaps
<1>7. j \in Fees!Work /\ JobOK(j) /\ j.kind = serving[w].kind /\ j.p = serving[w].p
  BY <1>1, <1>6 DEF Fees!Work, JobOK
<1>8. serving' = [serving EXCEPT ![w] = j] /\ DataTyped' /\ UNCHANGED fee
  BY DEF Fees!SumPayments, Typed, DataTyped
<1>9. j.kind = "cancel" => fee[j.p] \in Asked
  BY <1>7 DEF Typed, CancelsRow
<1> QED BY <1>7, <1>8, <1>9, JobTyped DEF Typed

----------------------------------------------------------------------------------
(* The requests that write.                                                       *)

LEMMA InsertTyped ==
  ASSUME Typed, NEW w \in Workers, Fees!InsertPayment(w)
  PROVE  Typed'
<1> DEFINE r == serving[w].r
           i == ReqInvoice[r]
           s == Fees!Refreshed(i, Fees!SumWith(i, r))
           m == [x \in {i} |-> s]
           j == [serving[w] EXCEPT !.pc = "flushed", !.p = lastId + 1, !.new = m]
<1>1. serving[w] \in Fees!Work /\ JobOK(serving[w]) /\ serving[w].pc = "checked"
  BY DEF Fees!InsertPayment, Typed, JobsOK
<1>2. serving[w].kind = "record" /\ r \in Asked /\ i \in Bills
  BY <1>1, FeesConstants DEF JobOK
<1>3. Fees!SumWith(i, r) \in Int
  BY <1>2, FeesConstants DEF Fees!SumWith, Typed, DataTyped
<1>4. m \in Fees!StatusMaps
  BY <1>2, <1>3, RefreshedTyped, OneStatus
<1>5. lastId + 1 \in Fees!Ids /\ lastId + 1 \in 0..MaxPayments
  BY FeesConstants DEF Fees!InsertPayment, Typed, DataTyped, Fees!Ids
<1>6. j \in Fees!Work /\ JobOK(j) /\ j.kind # "cancel"
  BY <1>1, <1>2, <1>4, <1>5 DEF Fees!Work, JobOK
<1>7. serving' = [serving EXCEPT ![w] = j]
  BY DEF Fees!InsertPayment
<1>8. DataTyped' /\ UNCHANGED fee
  BY <1>5 DEF Fees!InsertPayment, Typed, DataTyped
<1> QED BY <1>6, <1>7, <1>8, JobTyped DEF Typed

\* What a thread that committed goes on with.
LEMMA CommittedTyped ==
  ASSUME Typed, NEW w \in Workers, serving[w].kind \in {"record", "cancel"},
         serving[w].p \in Fees!Ids,
         serving' = [serving EXCEPT ![w].pc = "committed"],
         \A p \in Fees!Ids : fee[p] \in Asked => fee'[p] \in Asked
  PROVE  serving' \in [Workers -> Fees!Work] /\ JobsOK' /\ CancelsRow'
<1> DEFINE j == [serving[w] EXCEPT !.pc = "committed"]
<1>1. serving[w] \in Fees!Work /\ JobOK(serving[w])
  BY DEF Typed, JobsOK
<1>2. j \in Fees!Work /\ JobOK(j) /\ j.kind = serving[w].kind /\ j.p = serving[w].p
  BY <1>1 DEF Fees!Work, JobOK
<1>3. j.kind = "cancel" => fee'[j.p] \in Asked
  BY <1>2 DEF Typed, CancelsRow
<1>4. serving' = [serving EXCEPT ![w] = j]
  OBVIOUS
<1> QED BY <1>2, <1>3, <1>4, JobTyped

LEMMA CommitPaymentTyped ==
  ASSUME Typed, NEW w \in Workers, Fees!CommitPayment(w)
  PROVE  Typed'
<1> DEFINE r == serving[w].r
           p == serving[w].p
<1>1. JobOK(serving[w]) /\ serving[w].pc = "flushed"
  BY DEF Fees!CommitPayment, Typed, JobsOK
<1>2. serving[w].kind = "record" /\ r \in Asked /\ p \in Fees!Ids
  BY <1>1 DEF JobOK
<1>3. fee' = [fee EXCEPT ![p] = r]
  BY DEF Fees!CommitPayment
<1>4. fee' \in [Fees!Ids -> Asked \cup {None}]
  BY <1>2, <1>3 DEF Typed, DataTyped
<1>5. \A q \in Fees!Ids : fee[q] \in Asked => fee'[q] \in Asked
  BY <1>2, <1>3 DEF Typed, DataTyped
<1>6. paid' \in [Bills -> Int]
  <2>1. ReqInvoice[r] \in Bills /\ ReqAmount[r] \in Int
    BY <1>2, FeesConstants
  <2>2. paid' = [paid EXCEPT ![ReqInvoice[r]] = paid[ReqInvoice[r]] + ReqAmount[r]]
    BY DEF Fees!CommitPayment
  <2> QED BY <2>1, <2>2 DEF Typed, DataTyped
<1>7. serving' \in [Workers -> Fees!Work] /\ JobsOK' /\ CancelsRow'
  BY <1>2, <1>5, CommittedTyped DEF Fees!CommitPayment
<1>8. standing' \in [Bills -> Fees!Statuses \cup {"absent"}]
  BY StatusTyped DEF Fees!CommitPayment
<1> QED BY <1>4, <1>6, <1>7, <1>8 DEF Fees!CommitPayment, Typed, DataTyped

LEMMA CommitCancelTyped ==
  ASSUME Typed, NEW w \in Workers, Fees!CommitCancel(w)
  PROVE  Typed'
<1> DEFINE p == serving[w].p
<1>1. JobOK(serving[w]) /\ serving[w].kind = "cancel" /\ UNCHANGED fee
  BY DEF Fees!CommitCancel, Typed, JobsOK
<1>2. p \in Fees!Ids /\ fee[p] \in Asked
  BY <1>1 DEF JobOK, Typed, CancelsRow
<1>3. paid' \in [Bills -> Int]
  <2>1. Fees!InvoiceOf(p) \in Bills /\ ReqAmount[fee[p]] \in Int
    BY <1>2, FeesConstants DEF Fees!InvoiceOf
  <2>2. \/ paid' = paid
        \/ paid' = [paid EXCEPT ![Fees!InvoiceOf(p)] = paid[Fees!InvoiceOf(p)] - ReqAmount[fee[p]]]
    BY DEF Fees!CommitCancel
  <2> QED BY <2>1, <2>2 DEF Typed, DataTyped
<1>4. serving' \in [Workers -> Fees!Work] /\ JobsOK' /\ CancelsRow'
  BY <1>1, <1>2, CommittedTyped DEF Fees!CommitCancel
<1>5. standing' \in [Bills -> Fees!Statuses \cup {"absent"}]
  BY StatusTyped DEF Fees!CommitCancel
<1>6. cancelled' \subseteq Fees!Ids
  BY <1>2 DEF Fees!CommitCancel, Typed, DataTyped
<1> QED BY <1>3, <1>4, <1>5, <1>6 DEF Fees!CommitCancel, Typed, DataTyped

LEMMA LogTyped ==
  ASSUME Typed, NEW w \in Workers, Fees!LogAction(w)
  PROVE  Typed'
<1>1. JobOK(serving[w]) /\ serving[w].pc = "committed"
  BY DEF Fees!LogAction, Typed, JobsOK
<1>2. serving[w].p \in Fees!Ids
  BY <1>1 DEF JobOK
<1>3. audited' \subseteq {"create", "cancel"} \X Fees!Ids
  BY <1>2 DEF Fees!LogAction, Typed, DataTyped
<1>4. answers' \in [Asked -> SUBSET Fees!Ids]
  BY <1>2 DEF Fees!LogAction, Typed, DataTyped
<1> QED BY <1>3, <1>4, FinishTyped DEF Fees!LogAction, Typed, DataTyped

LEMMA StepTyped == Typed /\ [Fees!Next]_Fees!vars => Typed'
<1> SUFFICES ASSUME Typed, [Fees!Next]_Fees!vars PROVE Typed'
  OBVIOUS
<1>1. ASSUME NEW i \in Bills, Fees!CreateInvoice(i) \/ Fees!DueDatePasses(i) PROVE Typed'
  BY <1>1
  DEF Fees!CreateInvoice, Fees!DueDatePasses, Typed, DataTyped, JobsOK, CancelsRow,
      Fees!Statuses,
              Fees!Created
<1>2. ASSUME NEW r \in Asked, Fees!AnswerKnownKey(r) PROVE Typed'
  BY <1>2
  DEF Fees!AnswerKnownKey, Fees!RowsWithKey, Fees!Rows, Typed, DataTyped, JobsOK, CancelsRow
<1>3. ASSUME NEW w \in Workers, Fees!WorkStep(w) PROVE Typed'
  <2>1. CASE Fees!AnswerClash(w)
    <3>1. PICK p \in Fees!Ids :
            answers' = [answers EXCEPT ![serving[w].r] = answers[serving[w].r] \cup {p}]
      BY <2>1 DEF Fees!AnswerClash, Fees!RowsWithKey, Fees!Rows
    <3>2. answers' \in [Asked -> SUBSET Fees!Ids]
      BY <3>1 DEF Typed, DataTyped
    <3>3. Fees!Finish(w) /\ UNCHANGED <<standing, pastDue, fee, cancelled, paid, lastId, audited>>
      BY <2>1 DEF Fees!AnswerClash
    <3> QED BY <3>2, <3>3, FinishTyped DEF Typed, DataTyped
  <2>2. CASE Fees!CommitRefresh(w)
    BY <2>2, FinishTyped, StatusTyped DEF Fees!CommitRefresh, Typed, DataTyped
  <2>3. CASE Fees!Abort(w)
    BY <2>3, FinishTyped DEF Fees!Abort, Typed, DataTyped
  <2> QED
    BY <1>3, <2>1, <2>2, <2>3, LoadTyped, CheckTyped, InsertTyped, CommitPaymentTyped,
       LoadAllTyped, SumTyped, CommitCancelTyped, LogTyped
    DEF Fees!WorkStep
<1>4. CASE UNCHANGED Fees!vars
  BY <1>4 DEF Fees!vars, Typed, DataTyped, JobsOK, CancelsRow
<1> QED BY <1>1, <1>2, <1>3, <1>4, AskTyped, LoadCancelTyped DEF Fees!Next

----------------------------------------------------------------------------------
(* The balance.  The row lock of an invoice belongs to one request, and nobody else *)
(* adds to what the invoice received between the check and the commit.            *)

OneHolder == \A v, w \in Workers, i \in Bills : Fees!Holds(v, i) /\ Fees!Holds(w, i) => v = w

Covered ==
  \A w \in Workers :
    serving[w].pc \in {"checked", "flushed"} =>
      paid[ReqInvoice[serving[w].r]] + ReqAmount[serving[w].r] <= Net[ReqInvoice[serving[w].r]]

Balanced == OneHolder /\ Covered /\ Fees!NoOverpayment

LEMMA InitBalanced == Fees!Init => Balanced
BY FeesConstants
DEF Fees!Init, Balanced, OneHolder, Covered, Fees!NoOverpayment, Fees!Holds, Fees!IdleWork

\* A step of one request that takes no row, claims no balance and pays nothing.
LEMMA CalmStep ==
  ASSUME Typed, Balanced, NEW w \in Workers, NEW j, serving' = [serving EXCEPT ![w] = j],
         \A i \in Bills : paid'[i] <= paid[i] /\ paid'[i] \in Int,
         \/ j.pc \notin {"loaded", "checked", "flushed"}
         \/ j.kind # "record" /\ j.pc = "loaded"
         \/ /\ j.kind = serving[w].kind /\ j.r = serving[w].r
            /\ serving[w].pc \in {"checked", "flushed"}
  PROVE  Balanced'
<1>1. \A v \in Workers : v # w => serving'[v] = serving[v]
  BY DEF Typed
<1>2. serving'[w] = j
  BY DEF Typed
<1>3. \A v \in Workers, i \in Bills : Fees!Holds(v, i)' => Fees!Holds(v, i)
  BY <1>1, <1>2 DEF Fees!Holds, Typed, JobsOK, JobOK
<1>4. OneHolder'
  BY <1>3 DEF Balanced, OneHolder
<1>5. ASSUME NEW v \in Workers, serving'[v].pc \in {"checked", "flushed"}
      PROVE  paid'[ReqInvoice[serving'[v].r]] + ReqAmount[serving'[v].r]
               <= Net[ReqInvoice[serving'[v].r]]
  <2>1. serving'[v].r = serving[v].r /\ serving[v].pc \in {"checked", "flushed"}
    BY <1>1, <1>2, <1>5
  <2>2. serving[v].r \in Asked
    BY <2>1 DEF Typed, JobsOK, JobOK
  <2> DEFINE i == ReqInvoice[serving[v].r]
             a == ReqAmount[serving[v].r]
  <2>3. i \in Bills /\ a \in Int /\ Net[i] \in Int /\ paid[i] \in Int
    BY <2>2, FeesConstants DEF Typed, DataTyped
  <2>4. paid[i] + a <= Net[i] /\ paid'[i] <= paid[i] /\ paid'[i] \in Int
    BY <2>1, <2>3 DEF Balanced, Covered
  <2>5. paid'[i] + a <= Net[i]
    BY <2>3, <2>4
  <2> QED BY <2>1, <2>5
<1>6. Fees!NoOverpayment'
  BY FeesConstants DEF Balanced, Fees!NoOverpayment, Typed, DataTyped
<1> QED BY <1>4, <1>5, <1>6 DEF Balanced, Covered

LEMMA FinishBalanced ==
  ASSUME Typed, Balanced, NEW w \in Workers, Fees!Finish(w), UNCHANGED paid
  PROVE  Balanced'
<1>1. Fees!IdleWork.pc = "idle"
  BY DEF Fees!IdleWork
<1>2. serving' = [serving EXCEPT ![w] = Fees!IdleWork]
  BY DEF Fees!Finish
<1>3. \A i \in Bills : paid'[i] <= paid[i] /\ paid'[i] \in Int
  BY DEF Typed, DataTyped
<1> QED BY <1>1, <1>2, <1>3, CalmStep

LEMMA LoadBalanced ==
  ASSUME Typed, Balanced, RowLocks, NEW w \in Workers, Fees!LoadInvoice(w)
  PROVE  Balanced'
<1> DEFINE i == ReqInvoice[serving[w].r]
<1>1. serving'[w].pc = "loaded" /\ serving'[w].r = serving[w].r
      /\ \A v \in Workers : v # w => serving'[v] = serving[v]
  BY DEF Fees!LoadInvoice, Typed, Fees!Work
<1>2. \A v \in Workers : ~Fees!Holds(v, i)
  BY DEF Fees!LoadInvoice, Fees!RowFree
<1>3. \A v \in Workers, k \in Bills : Fees!Holds(v, k)' => Fees!Holds(v, k) \/ (v = w /\ k = i)
  BY <1>1 DEF Fees!Holds
<1>4. OneHolder'
  BY <1>2, <1>3 DEF Balanced, OneHolder
<1>5. UNCHANGED paid
  BY DEF Fees!LoadInvoice
<1>6. Covered'
  BY <1>1, <1>5 DEF Balanced, Covered
<1> QED BY <1>4, <1>5, <1>6 DEF Balanced, Fees!NoOverpayment

LEMMA CheckBalanced ==
  ASSUME Typed, Balanced, NEW w \in Workers, Fees!CheckBalance(w)
  PROVE  Balanced'
<1> DEFINE r == serving[w].r
           i == ReqInvoice[r]
<1>1. serving[w].kind = "record" /\ serving[w].pc = "loaded" /\ UNCHANGED paid
  BY DEF Fees!CheckBalance
<1>2. r \in Asked /\ i \in Bills /\ ReqAmount[r] \in Nat \ {0} /\ Net[i] \in Nat
      /\ paid[i] \in Int
  BY <1>1, FeesConstants DEF Typed, JobsOK, JobOK, DataTyped
<1>3. CASE Fees!Finish(w)
  BY <1>1, <1>3, FinishBalanced
<1>4. CASE Fees!Affordable(r) /\ serving' = [serving EXCEPT ![w].pc = "checked"]
  <2>1. paid[i] + ReqAmount[r] <= Net[i]
    BY <1>2, <1>4 DEF Fees!Affordable, Fees!Balance
  <2>2. serving'[w].pc = "checked" /\ serving'[w].r = r /\ serving'[w].kind = "record"
        /\ \A v \in Workers : v # w => serving'[v] = serving[v]
    BY <1>1, <1>4 DEF Typed, Fees!Work
  <2>3. \A v \in Workers, k \in Bills : Fees!Holds(v, k)' => Fees!Holds(v, k)
    BY <1>1, <2>2 DEF Fees!Holds
  <2>4. OneHolder'
    BY <2>3 DEF Balanced, OneHolder
  <2>5. Covered'
    BY <1>1, <2>1, <2>2 DEF Balanced, Covered
  <2> QED BY <1>1, <2>4, <2>5 DEF Balanced, Fees!NoOverpayment
<1> QED BY <1>3, <1>4 DEF Fees!CheckBalance

LEMMA CommitBalanced ==
  ASSUME Typed, Balanced, NEW w \in Workers, Fees!CommitPayment(w)
  PROVE  Balanced'
<1> DEFINE r == serving[w].r
           i == ReqInvoice[r]
           a == ReqAmount[r]
<1>1. serving[w].kind = "record" /\ serving[w].pc = "flushed" /\ r \in Asked
  BY DEF Fees!CommitPayment, Typed, JobsOK, JobOK
<1>2. i \in Bills /\ a \in Nat /\ Net[i] \in Nat /\ paid[i] \in Int
  BY <1>1, FeesConstants DEF Typed, DataTyped
<1>3. paid' = [paid EXCEPT ![i] = paid[i] + a]
  BY DEF Fees!CommitPayment
<1>4. serving'[w].pc = "committed" /\ \A v \in Workers : v # w => serving'[v] = serving[v]
  BY DEF Fees!CommitPayment, Typed, Fees!Work
<1>5. OneHolder'
  BY <1>4 DEF Balanced, OneHolder, Fees!Holds
<1>6. paid[i] + a <= Net[i]
  BY <1>1 DEF Balanced, Covered
<1>7. Fees!NoOverpayment'
  BY <1>2, <1>3, <1>6 DEF Balanced, Fees!NoOverpayment, Typed, DataTyped
<1>8. ASSUME NEW v \in Workers, serving'[v].pc \in {"checked", "flushed"}
      PROVE  paid'[ReqInvoice[serving'[v].r]] = paid[ReqInvoice[serving[v].r]]
             /\ serving'[v] = serving[v]
  <2>1. v # w /\ serving'[v] = serving[v]
    BY <1>4, <1>8
  <2>2. serving[v].kind = "record" /\ serving[v].r \in Asked
    BY <1>8, <2>1 DEF Typed, JobsOK, JobOK
  <2>3. ReqInvoice[serving[v].r] \in Bills
    BY <2>2, FeesConstants
  <2>4. Fees!Holds(v, ReqInvoice[serving[v].r]) /\ Fees!Holds(w, i)
    BY <1>1, <1>8, <2>1, <2>2 DEF Fees!Holds
  <2>5. ReqInvoice[serving[v].r] # i
    BY <1>2, <2>1, <2>4 DEF Balanced, OneHolder
  <2> QED BY <1>3, <2>1, <2>3, <2>5 DEF Typed, DataTyped
<1>9. Covered'
  BY <1>8 DEF Balanced, Covered
<1> QED BY <1>5, <1>7, <1>9 DEF Balanced

LEMMA CancelBalanced ==
  ASSUME Typed, Balanced, NEW w \in Workers, Fees!CommitCancel(w)
  PROVE  Balanced'
<1> DEFINE p == serving[w].p
           j == [serving[w] EXCEPT !.pc = "committed"]
<1>1. fee[p] \in Asked
  BY DEF Fees!CommitCancel, Typed, CancelsRow
<1>2. Fees!InvoiceOf(p) \in Bills /\ ReqAmount[fee[p]] \in Nat
  BY <1>1, FeesConstants DEF Fees!InvoiceOf
<1>3. \/ paid' = paid
      \/ paid' = [paid EXCEPT ![Fees!InvoiceOf(p)] = paid[Fees!InvoiceOf(p)] - ReqAmount[fee[p]]]
  BY DEF Fees!CommitCancel
<1>4. \A i \in Bills : paid'[i] <= paid[i] /\ paid'[i] \in Int
  BY <1>2, <1>3 DEF Typed, DataTyped
<1>5. serving' = [serving EXCEPT ![w] = j] /\ j.pc = "committed"
  BY DEF Fees!CommitCancel, Typed, Fees!Work
<1> QED BY <1>4, <1>5, CalmStep

\* The steps that change nothing but the job of the request.
LEMMA ReadBalanced ==
  ASSUME Typed, Balanced, NEW w \in Workers, UNCHANGED paid,
         \/ \E r \in Asked : Fees!AskPayment(w, r)
         \/ \E p \in Fees!Ids : Fees!LoadCancel(w, p)
         \/ Fees!LoadAll(w) \/ Fees!SumPayments(w) \/ Fees!InsertPayment(w)
  PROVE  Balanced'
<1>1. \A i \in Bills : paid'[i] <= paid[i] /\ paid'[i] \in Int
  BY DEF Typed, DataTyped
<1>2. serving \in [Workers -> Fees!Work]
  BY DEF Typed
\* The job that each of them leaves: asked, loaded by a cancellation or a refresh, summed
\* without a hold, or flushed by the request that was checked.
<1>3. ASSUME NEW r \in Asked, Fees!AskPayment(w, r)
      PROVE  \E j : serving' = [serving EXCEPT ![w] = j] /\ j.pc = "asked"
  <2> DEFINE j == [Fees!IdleWork EXCEPT !.kind = "record", !.pc = "asked", !.r = r]
  <2>1. serving' = [serving EXCEPT ![w] = j]
    BY <1>3 DEF Fees!AskPayment
  <2>2. j.pc = "asked"
    BY DEF Fees!IdleWork
  <2> QED BY <2>1, <2>2
<1>4. ASSUME NEW p \in Fees!Ids, Fees!LoadCancel(w, p)
      PROVE  \E j : serving' = [serving EXCEPT ![w] = j] /\ j.kind = "cancel" /\ j.pc = "loaded"
  <2> DEFINE j == [Fees!IdleWork EXCEPT !.kind = "cancel", !.pc = "loaded", !.p = p,
                     !.loaded = [i \in {Fees!InvoiceOf(p)} |-> standing[i]]]
  <2>1. serving' = [serving EXCEPT ![w] = j]
    BY <1>4 DEF Fees!LoadCancel
  <2>2. j.kind = "cancel" /\ j.pc = "loaded"
    BY DEF Fees!IdleWork
  <2> QED BY <2>1, <2>2
<1>5. ASSUME Fees!LoadAll(w)
      PROVE  \E j : serving' = [serving EXCEPT ![w] = j] /\ j.kind = "refresh" /\ j.pc = "loaded"
  <2> DEFINE j == [Fees!IdleWork EXCEPT !.kind = "refresh", !.pc = "loaded",
                     !.loaded = [i \in Fees!Created |-> standing[i]]]
  <2>1. serving' = [serving EXCEPT ![w] = j]
    BY <1>5 DEF Fees!LoadAll
  <2>2. j.kind = "refresh" /\ j.pc = "loaded"
    BY DEF Fees!IdleWork
  <2> QED BY <2>1, <2>2
<1>6. ASSUME Fees!SumPayments(w)
      PROVE  \E j : serving' = [serving EXCEPT ![w] = j] /\ j.pc = "summed"
  <2> DEFINE j == [serving[w] EXCEPT !.pc = "summed",
                     !.new = [i \in DOMAIN serving[w].loaded |-> Fees!Refreshed(i, paid[i])]]
  <2>1. serving' = [serving EXCEPT ![w] = j]
    BY <1>2, <1>6 DEF Fees!SumPayments
  <2>2. j.pc = "summed"
    BY <1>2 DEF Fees!Work
  <2> QED BY <2>1, <2>2
<1>7. ASSUME Fees!InsertPayment(w)
      PROVE  \E j : /\ serving' = [serving EXCEPT ![w] = j]
                    /\ j.kind = serving[w].kind /\ j.r = serving[w].r
                    /\ serving[w].pc \in {"checked", "flushed"}
  <2> DEFINE r == serving[w].r
             i == ReqInvoice[r]
             j == [serving[w] EXCEPT !.pc = "flushed", !.p = lastId + 1,
                     !.new = [n \in {i} |-> Fees!Refreshed(n, Fees!SumWith(n, r))]]
  <2>1. serving' = [serving EXCEPT ![w] = j] /\ serving[w].pc = "checked"
    BY <1>2, <1>7 DEF Fees!InsertPayment
  <2>2. j.kind = serving[w].kind /\ j.r = serving[w].r
    BY <1>2 DEF Fees!Work
  <2> QED BY <2>1, <2>2
<1>8. \E j : /\ serving' = [serving EXCEPT ![w] = j]
             /\ \/ j.pc \notin {"loaded", "checked", "flushed"}
                \/ j.kind # "record" /\ j.pc = "loaded"
                \/ /\ j.kind = serving[w].kind /\ j.r = serving[w].r
                   /\ serving[w].pc \in {"checked", "flushed"}
  <2>1. \A r \in Asked : Fees!AskPayment(w, r) =>
                               \E j : serving' = [serving EXCEPT ![w] = j] /\ j.pc = "asked"
    BY <1>3
  <2>2. \A p \in Fees!Ids : Fees!LoadCancel(w, p) =>
          \E j : serving' = [serving EXCEPT ![w] = j] /\ j.kind = "cancel" /\ j.pc = "loaded"
    BY <1>4
  <2> QED BY <2>1, <2>2, <1>5, <1>6, <1>7
<1> QED BY <1>1, <1>8, CalmStep

LEMMA StepBalanced == RowLocks /\ Typed /\ Balanced /\ [Fees!Next]_Fees!vars => Balanced'
<1> SUFFICES ASSUME RowLocks, Typed, Balanced, [Fees!Next]_Fees!vars PROVE Balanced'
  OBVIOUS
<1>1. CASE UNCHANGED <<serving, paid>>
  BY <1>1 DEF Balanced, OneHolder, Covered, Fees!NoOverpayment, Fees!Holds
<1>2. ASSUME NEW w \in Workers, Fees!WorkStep(w) PROVE Balanced'
  <2>1. CASE Fees!AnswerClash(w) \/ Fees!CommitRefresh(w) \/ Fees!LogAction(w) \/ Fees!Abort(w)
    BY <2>1, FinishBalanced
    DEF Fees!AnswerClash, Fees!CommitRefresh, Fees!LogAction, Fees!Abort
  <2>2. CASE Fees!LoadAll(w) \/ Fees!SumPayments(w) \/ Fees!InsertPayment(w)
    BY <2>2, ReadBalanced DEF Fees!LoadAll, Fees!SumPayments, Fees!InsertPayment
  <2> QED
    BY <1>2, <2>1, <2>2, LoadBalanced, CheckBalanced, CommitBalanced, CancelBalanced
    DEF Fees!WorkStep
<1>3. ASSUME NEW w \in Workers, NEW r \in Asked, Fees!AskPayment(w, r) PROVE Balanced'
  BY <1>3, ReadBalanced DEF Fees!AskPayment
<1>4. ASSUME NEW w \in Workers, NEW p \in Fees!Ids, Fees!LoadCancel(w, p) PROVE Balanced'
  BY <1>4, ReadBalanced DEF Fees!LoadCancel
<1> QED
  BY <1>1, <1>2, <1>3, <1>4
  DEF Fees!Next, Fees!vars, Fees!CreateInvoice, Fees!DueDatePasses, Fees!AnswerKnownKey

----------------------------------------------------------------------------------
(* The keys.  A row that is inserted and not committed has an id and a key of its   *)
(* own, because the unique index makes the second insertion wait.                 *)

Flushed == {w \in Workers : serving[w].pc = "flushed"}
KeyOf(w) == ReqKey[serving[w].r]

Fresh ==
  \A w \in Flushed :
    /\ serving[w].p <= lastId
    /\ fee[serving[w].p] = None
    /\ KeyOf(w) # NoKey => \A q \in Fees!Rows : ReqKey[fee[q]] # KeyOf(w)

Apart ==
  \A v, w \in Flushed :
    v # w => serving[v].p # serving[w].p /\ (KeyOf(v) = KeyOf(w) => KeyOf(v) = NoKey)

Numbered == \A q \in Fees!Rows : q <= lastId

Keyed == Fresh /\ Apart /\ Numbered /\ Fees!ChargedOnce

LEMMA InitKeyed == Fees!Init => Keyed
BY DEF Fees!Init, Keyed, Fresh, Apart, Numbered, Fees!ChargedOnce, Fees!Rows, Flushed,
   Fees!IdleWork

\* A step after which no other thread has a row in its session, and the table is as
\* before.
LEMMA SameRows ==
  ASSUME Typed, Keyed, UNCHANGED <<fee, lastId>>,
         \A w \in Workers : w \in Flushed' => w \in Flushed /\ serving'[w] = serving[w]
  PROVE  Keyed'
<1>1. UNCHANGED Fees!Rows
  BY DEF Fees!Rows
<1>2. Fresh'
  BY <1>1 DEF Keyed, Fresh, KeyOf, Flushed
<1>3. Apart'
  BY DEF Keyed, Apart, KeyOf, Flushed
<1>4. Numbered' /\ Fees!ChargedOnce'
  BY <1>1 DEF Keyed, Numbered, Fees!ChargedOnce
<1> QED BY <1>2, <1>3, <1>4 DEF Keyed

LEMMA InsertKeyed ==
  ASSUME Typed, Keyed, NEW w \in Workers, Fees!InsertPayment(w)
  PROVE  Keyed'
<1> DEFINE r == serving[w].r
<1>1. lastId \in Nat /\ lastId' = lastId + 1 /\ lastId' \in Fees!Ids /\ UNCHANGED fee
  BY FeesConstants DEF Fees!InsertPayment, Typed, DataTyped, Fees!Ids
<1>2. serving'[w].pc = "flushed" /\ serving'[w].r = r /\ serving'[w].p = lastId'
      /\ \A v \in Workers : v # w => serving'[v] = serving[v]
  BY DEF Fees!InsertPayment, Typed, Fees!Work
<1>3. UNCHANGED Fees!Rows /\ Flushed' = Flushed \cup {w} /\ w \notin Flushed
  BY <1>1, <1>2 DEF Fees!Rows, Flushed, Fees!InsertPayment
<1>4. /\ ReqKey[r] # NoKey => \A q \in Fees!Rows : ReqKey[fee[q]] # ReqKey[r]
      /\ ReqKey[r] # NoKey => \A v \in Flushed : KeyOf(v) # ReqKey[r]
  BY DEF Fees!InsertPayment, Fees!KeyFree, Fees!RowsWithKey, Flushed, KeyOf
<1>5. \A v \in Flushed : serving[v].p \in Nat /\ serving[v].p <= lastId
  BY DEF Keyed, Fresh, Typed, Fees!Work, Flushed
<1>6. \A q \in Fees!Rows : q \in Nat /\ q <= lastId
  BY DEF Keyed, Numbered, Fees!Rows, Fees!Ids
<1>7. fee[lastId'] = None
  BY <1>1, <1>6 DEF Fees!Rows
<1>8. Fresh'
  <2>1. ASSUME NEW v \in Flushed' PROVE
          /\ serving'[v].p <= lastId' /\ fee'[serving'[v].p] = None
          /\ KeyOf(v)' # NoKey => \A q \in Fees!Rows' : ReqKey[fee'[q]] # KeyOf(v)'
    <3>1. CASE v = w
      BY <1>1, <1>2, <1>3, <1>4, <1>7, <3>1 DEF KeyOf
    <3>2. CASE v # w
      <4>1. v \in Flushed /\ serving'[v] = serving[v]
        BY <1>2, <1>3, <3>2 DEF Flushed
      <4>2. serving[v].p <= lastId' /\ fee[serving[v].p] = None
        BY <1>1, <1>5, <4>1 DEF Keyed, Fresh
      <4> QED BY <1>1, <1>3, <4>1, <4>2 DEF Keyed, Fresh, KeyOf
    <3> QED BY <3>1, <3>2
  <2> QED BY <2>1 DEF Fresh
<1>9. Apart'
  <2>1. ASSUME NEW u \in Flushed', NEW v \in Flushed', u # v
        PROVE  serving'[u].p # serving'[v].p /\ (KeyOf(u)' = KeyOf(v)' => KeyOf(u)' = NoKey)
    <3>1. \A x \in Flushed : x # w /\ serving'[x] = serving[x] /\ serving[x].p # lastId'
      BY <1>1, <1>2, <1>3, <1>5 DEF Flushed
    <3>2. CASE u = w
      BY <1>2, <1>3, <1>4, <2>1, <3>1, <3>2 DEF KeyOf
    <3>3. CASE v = w
      BY <1>2, <1>3, <1>4, <2>1, <3>1, <3>3 DEF KeyOf
    <3>4. CASE u # w /\ v # w
      BY <1>3, <2>1, <3>1, <3>4 DEF Keyed, Apart, KeyOf
    <3> QED BY <3>2, <3>3, <3>4
  <2> QED BY <2>1 DEF Apart
<1>10. Numbered' /\ Fees!ChargedOnce'
  BY <1>1, <1>3, <1>6 DEF Keyed, Numbered, Fees!ChargedOnce
<1> QED BY <1>8, <1>9, <1>10 DEF Keyed

LEMMA CommitKeyed ==
  ASSUME Typed, Keyed, NEW w \in Workers, Fees!CommitPayment(w)
  PROVE  Keyed'
<1> DEFINE r == serving[w].r
           p == serving[w].p
<1>1. w \in Flushed /\ r \in Asked /\ p \in Fees!Ids
  BY DEF Fees!CommitPayment, Flushed, Typed, JobsOK, JobOK
<1>2. fee' = [fee EXCEPT ![p] = r] /\ UNCHANGED lastId
  BY DEF Fees!CommitPayment
<1>3. serving'[w].pc = "committed" /\ \A v \in Workers : v # w => serving'[v] = serving[v]
  BY DEF Fees!CommitPayment, Typed, Fees!Work
<1>4. Flushed' = Flushed \ {w}
  BY <1>3 DEF Flushed
<1>5. Fees!Rows' = Fees!Rows \cup {p} /\ \A q \in Fees!Rows : q # p /\ fee'[q] = fee[q]
  <2>1. fee[p] = None
    BY <1>1 DEF Keyed, Fresh
  <2> QED BY <1>1, <1>2, <2>1, FeesConstants DEF Fees!Rows, Typed, DataTyped
<1>6. fee'[p] = r
  BY <1>1, <1>2 DEF Typed, DataTyped
<1>7. ASSUME NEW v \in Flushed' PROVE
        /\ serving'[v].p <= lastId' /\ fee'[serving'[v].p] = None
        /\ KeyOf(v)' # NoKey => \A q \in Fees!Rows' : ReqKey[fee'[q]] # KeyOf(v)'
  <2>1. v \in Flushed /\ v # w /\ serving'[v] = serving[v] /\ KeyOf(v)' = KeyOf(v)
    BY <1>3, <1>4 DEF Flushed, KeyOf
  <2>2. serving[v].p # p /\ (KeyOf(v) = ReqKey[r] => KeyOf(v) = NoKey)
    BY <1>1, <2>1 DEF Keyed, Apart, KeyOf
  <2>3. serving[v].p \in Fees!Ids
    BY <2>1 DEF Flushed, Typed, JobsOK, JobOK
  <2>4. fee'[serving[v].p] = None /\ serving[v].p <= lastId
    BY <1>2, <2>1, <2>2, <2>3 DEF Keyed, Fresh, Typed, DataTyped
  <2>5. KeyOf(v) # NoKey => \A q \in Fees!Rows' : ReqKey[fee'[q]] # KeyOf(v)
    BY <1>5, <1>6, <2>1, <2>2 DEF Keyed, Fresh
  <2> QED BY <1>2, <2>1, <2>4, <2>5
<1>8. Fresh'
  BY <1>7 DEF Fresh
<1>9. Apart'
  BY <1>3, <1>4 DEF Keyed, Apart, KeyOf, Flushed
<1>10. Numbered'
  BY <1>1, <1>2, <1>5 DEF Keyed, Numbered, Fresh
<1>11. ReqKey[r] # NoKey => \A q \in Fees!Rows : ReqKey[fee[q]] # ReqKey[r]
  BY <1>1 DEF Keyed, Fresh, KeyOf
<1>12. Fees!ChargedOnce'
  BY <1>5, <1>6, <1>11 DEF Keyed, Fees!ChargedOnce
<1> QED BY <1>8, <1>9, <1>10, <1>12 DEF Keyed

LEMMA StepKeyed == Typed /\ Keyed /\ [Fees!Next]_Fees!vars => Keyed'
<1> SUFFICES ASSUME Typed, Keyed, [Fees!Next]_Fees!vars PROVE Keyed'
  OBVIOUS
<1>1. CASE UNCHANGED <<serving, fee, lastId>>
  BY <1>1, SameRows DEF Flushed
<1>2. ASSUME NEW w \in Workers, UNCHANGED <<fee, lastId>>,
             serving' = [serving EXCEPT ![w] = serving'[w]], serving'[w].pc # "flushed"
      PROVE  Keyed'
  <2>1. \A v \in Workers : v # w => serving'[v] = serving[v]
    BY <1>2 DEF Typed
  <2>2. \A v \in Workers : v \in Flushed' => v \in Flushed /\ serving'[v] = serving[v]
    BY <1>2, <2>1 DEF Flushed
  <2> QED BY <1>2, <2>2, SameRows
<1>3. ASSUME NEW w \in Workers, Fees!WorkStep(w) PROVE Keyed'
  <2>1. CASE Fees!AnswerClash(w) \/ Fees!CommitRefresh(w) \/ Fees!LogAction(w) \/ Fees!Abort(w)
    BY <1>2, <2>1
    DEF Fees!AnswerClash, Fees!CommitRefresh, Fees!LogAction, Fees!Abort, Fees!Finish,
        Fees!IdleWork, Typed
  <2>2. CASE Fees!LoadInvoice(w) \/ Fees!LoadAll(w) \/ Fees!SumPayments(w)
    BY <1>2, <2>2
    DEF Fees!LoadInvoice, Fees!LoadAll, Fees!SumPayments, Typed, Fees!Work, Fees!IdleWork
  <2>3. CASE Fees!CheckBalance(w) \/ Fees!CommitCancel(w)
    BY <1>2, <2>3
    DEF Fees!CheckBalance, Fees!CommitCancel, Fees!Finish, Typed, Fees!Work, Fees!IdleWork
  <2> QED BY <1>3, <2>1, <2>2, <2>3, InsertKeyed, CommitKeyed DEF Fees!WorkStep
<1>4. ASSUME NEW w \in Workers, NEW r \in Asked, Fees!AskPayment(w, r) PROVE Keyed'
  BY <1>2, <1>4 DEF Fees!AskPayment, Typed, Fees!IdleWork
<1>5. ASSUME NEW w \in Workers, NEW p \in Fees!Ids, Fees!LoadCancel(w, p) PROVE Keyed'
  BY <1>2, <1>5 DEF Fees!LoadCancel, Typed, Fees!IdleWork
<1> QED
  BY <1>1, <1>3, <1>4, <1>5
  DEF Fees!Next, Fees!vars, Fees!CreateInvoice, Fees!DueDatePasses, Fees!AnswerKnownKey

----------------------------------------------------------------------------------
(* Theorems                                                                       *)

LEMMA FinanceStarts == FinanceInit => Init /\ Fees!Init
BY DEF FinanceInit

LEMMA FinanceSteps ==
  [FinanceNext]_<<vars, fees, part>> => [Next]_vars /\ [Fees!Next]_Fees!vars
BY DEF FinanceNext, fees, Fees!vars

LEMMA FinanceIsSpec == FinanceSpec => Spec
BY FinanceStarts, FinanceSteps, PTL DEF FinanceSpec, Spec

\* Every variable keeps its type, whatever requests run.
THEOREM TypeCorrect == FinanceSpec => [](TypeOK /\ Fees!TypeOK)
<1>1. Typed => Fees!TypeOK
  BY DEF Typed, DataTyped, Fees!TypeOK
<1>2. FinanceSpec => []Typed
  BY FinanceStarts, FinanceSteps, InitTyped, StepTyped, PTL DEF FinanceSpec
<1> QED BY <1>1, <1>2, FinanceIsSpec, SubscriptionTyped, PTL

\* With row locks no invoice of fees receives more than it is due, however many cashiers
\* record and cancel payments at once.
THEOREM NeverOverpaid ==
  ASSUME RowLocks PROVE FinanceSpec => []NoOverpayment
<1>1. Balanced => NoOverpayment
  BY DEF Balanced, NoOverpayment
<1>2. Typed /\ Balanced /\ [Fees!Next]_Fees!vars => Typed' /\ Balanced'
  BY StepTyped, StepBalanced
<1>3. FinanceSpec => [](Typed /\ Balanced)
  BY <1>2, FinanceStarts, FinanceSteps, InitTyped, InitBalanced, PTL DEF FinanceSpec
<1> QED BY <1>1, <1>3, PTL

\* On both databases a payment of fees with a key is in the table at most once.
THEOREM OncePerKey == FinanceSpec => []ChargedOnce
<1>1. Keyed => ChargedOnce
  BY DEF Keyed, ChargedOnce
<1>2. Typed /\ Keyed /\ [Fees!Next]_Fees!vars => Typed' /\ Keyed'
  BY StepTyped, StepKeyed
<1>3. FinanceSpec => [](Typed /\ Keyed)
  BY <1>2, FinanceStarts, FinanceSteps, InitTyped, InitKeyed, PTL DEF FinanceSpec
<1> QED BY <1>1, <1>3, PTL

\* The subscription: the theorems about it hold of a school that also takes fees.
THEOREM SubscriptionHolds ==
  FinanceSpec => [](PaidIsServed /\ EventsTellTruth /\ InvoiceSettled)
BY FinanceIsSpec, PaidServed, EventsAreTrue, InvoicesSettle, PTL
==================================================================================
