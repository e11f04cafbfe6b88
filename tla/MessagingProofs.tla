---------------------------- MODULE MessagingProofs ----------------------------
(* Theorems about Messaging, for any threads, campaigns, proposals, messages and   *)
(* guardians, whatever is lost and wherever the server stops: what is reported is  *)
(* what happened, nobody receives a letter twice, and nothing leaves unapproved.   *)
EXTENDS Messaging, FiniteSetTheorems, TLAPS

----------------------------------------------------------------------------------
(* The inductive invariant                                                        *)

\* What a thread may have in hand
IsDecision(v) ==
  /\ v.op = "decide" /\ v = [op |-> "decide", of |-> v.of, status |-> v.status]
  /\ v.of \in Proposals /\ v.status \in {"approved", "rejected", "expired"}

IsExport(v) ==
  /\ v.op = "export" /\ v = [op |-> "export", of |-> v.of, at |-> "next", done |-> v.done]
  /\ v.of \in Exports /\ v.done \in Nat

IsDelivery(v) ==
  /\ v.op \in {"campaign", "send", "execute"}
  /\ v = [op |-> v.op, of |-> v.of, todo |-> v.todo, requested |-> v.requested, at |-> v.at,
          letter |-> v.letter, channels |-> v.channels, status |-> v.status, sent |-> v.sent,
          failed |-> v.failed]
  /\ v.op = "campaign" => v.of \in Campaigns
  /\ v.op = "send" => v.of \in Sends
  /\ v.op = "execute" => v.of \in Proposals
  /\ v.todo \subseteq Letters
  /\ v.at \in {"next", "try", "keep", "mark"}
  /\ v.at # "next" => v.letter \in v.todo
  /\ v.at = "mark" => v.op = "campaign"
  /\ v.status \in {"failed", "sent", "delivered"}
  /\ v.at \in {"next", "try"} => v.status = "failed"
  /\ v.sent \in Nat /\ v.failed \in Nat

\* What it works on is there, and a campaign, a message or an export is worked on once.
Refers(v) ==
  /\ v.op \in {"decide", "execute"} => proposal[v.of] # NoRow
  /\ v.op = "execute" => proposal[v.of].approved
  /\ v.op = "export" => job[v.of] # NoRow /\ v.of \notin tasks
  /\ v.op = "send" => v.of \in begun
  /\ v.op = "campaign" => /\ campaign[v.of] # NoRow /\ campaign[v.of].status = "sending"
                          /\ v.of \notin tasks /\ v.todo = Marked(v.of, "pending")

SessionsOK ==
  /\ DOMAIN work = Workers
  /\ \A w \in Workers : /\ work[w] = Idle \/ IsDecision(work[w]) \/ IsExport(work[w])
                             \/ IsDelivery(work[w])
                        /\ Refers(work[w])
  /\ \A v, w \in Workers : Busy(v) /\ Busy(w) /\ work[v].of = work[w].of =>
       v = w \/ work[v].of \in Proposals

TasksOK ==
  \A o \in tasks :
    /\ o \in Campaigns => /\ campaign[o] # NoRow /\ campaign[o].status = "queued"
                          /\ Marked(o, "sent") = {} /\ Marked(o, "failed") = {}
    /\ o \in Exports => job[o] # NoRow /\ job[o].progress = 0

TInv == TypeOK /\ SessionsOK /\ TasksOK

\* Threads that have sent letter x of o, and not yet kept that they did
Owes(v, o, x) ==
  v.op \in {"campaign", "send", "execute"} /\ v.of = o /\ v.at = "keep" /\ v.status = "sent"
    /\ v.letter = x
Owing(o, x) == {w \in Workers : Owes(work[w], o, x)}

\* A message that arrived is counted or owed, and nothing else is, unless it was interrupted.
Balanced(o, x) ==
  /\ got[o][x] >= row[o][x].sent + Cardinality(Owing(o, x))
  /\ hitch[o] \cap {"lost", "stopped"} = {} =>
       got[o][x] = row[o][x].sent + Cardinality(Owing(o, x))

CountsOK == \A o \in Owners, x \in Letters : Balanced(o, x)

\* Where a proposal stands, unless requests crossed for it
Standing(p) ==
  /\ proposal[p] = NoRow => \A x \in Letters : got[p][x] = 0
  /\ proposal[p] # NoRow =>
       /\ proposal[p].status \in {"approved", "executed"} => proposal[p].approved
       /\ (\E x \in Letters : got[p][x] > 0) => proposal[p].approved
       /\ "crossed" \notin hitch[p] =>
            /\ proposal[p].status = "proposed" => ~proposal[p].approved /\ ~proposal[p].rejected
            /\ ~(proposal[p].approved /\ proposal[p].rejected)

\* Unless requests crossed, one thread at a time decides or executes what may still be so.
InTurn(p) ==
  "crossed" \notin hitch[p] =>
    /\ \A v, w \in Workers : Busy(v) /\ Busy(w) /\ work[v].of = p /\ work[w].of = p => v = w
    /\ \A w \in Workers : Busy(w) /\ work[w].of = p =>
         /\ work[w].op = "decide" /\ work[w].status \in {"approved", "rejected"} =>
              proposal[p].status = "proposed"
         /\ work[w].op = "decide" => proposal[p].status \in {"proposed", "approved"}
         /\ work[w].op = "execute" => proposal[p].status = "approved"

DecisionsOK == \A p \in Proposals : Standing(p) /\ InTurn(p)

InHand(v, x) == v.at # "next" /\ v.letter = x
Follows(v) == \/ v.op \in {"campaign", "send"}
              \/ v.op = "execute" /\ hitch[v.of] = {}

\* What has arrived of what the thread does
Reached(v) ==
  Follows(v) =>
    /\ \A x \in v.todo : ~InHand(v, x) => got[v.of][x] = 0
    /\ v.at # "next" =>
         /\ v.at = "try" \/ v.status = "failed" \/ (v.at = "keep" /\ v.status = "delivered") =>
              got[v.of][v.letter] = 0 \/ "lost" \in hitch[v.of]
         /\ v.status = "sent" => got[v.of][v.letter] > 0
         /\ v.at = "mark" /\ v.status = "delivered" => got[v.of][v.letter] > 0
Arrived(o) == {x \in Letters : got[o][x] > 0}
Counted(v) ==
  v.op = "execute" /\ hitch[v.of] = {} =>
    v.sent = Cardinality({x \in Arrived(v.of) : ~InHand(v, x)})

Fresh(o) == \/ o \in Campaigns /\ (campaign[o] = NoRow \/ o \in tasks)
            \/ o \in Sends \ begun
            \/ /\ o \in Proposals /\ hitch[o] = {}
               /\ proposal[o] # NoRow => proposal[o].status # "executed"
               /\ \A w \in Workers : work[w].op = "execute" => work[w].of # o

ArrivalsOK ==
  /\ \A w \in Workers : Reached(work[w]) /\ Counted(work[w])
  /\ \A o \in Owners : Fresh(o) => Arrived(o) = {}
  /\ NoDoubles

\* What a campaign says of its recipients
CampaignOK(c) ==
  campaign[c] # NoRow =>
    /\ campaign[c].sent_count = Cardinality(Marked(c, "sent"))
    /\ campaign[c].failed_count = Cardinality(Marked(c, "failed"))
    /\ campaign[c].status = "completed" => Marked(c, "pending") = {}
    /\ \A x \in Marked(c, "sent") : got[c][x] > 0
    /\ \A x \in Marked(c, "failed") : got[c][x] = 0 \/ "lost" \in hitch[c]

CampaignsOK == \A c \in Campaigns : CampaignOK(c)

ExecutedOK ==
  \A p \in Proposals :
       proposal[p] # NoRow /\ proposal[p].status = "executed" /\ hitch[p] = {} =>
         proposal[p].sent = Cardinality(Arrived(p))

\* What an executed proposal has counted, and what an execution has still to count
Due(p) == Cardinality(proposal[p].letters) + proposal[p].nobody
CountsUp(v) ==
  v.op = "execute" => v.sent + v.failed + Cardinality(v.todo) = Due(v.of)

TotalsOK ==
  /\ \A w \in Workers : CountsUp(work[w])
  /\ \A p \in Proposals : proposal[p] # NoRow /\ proposal[p].status = "executed" =>
       proposal[p].sent + proposal[p].failed = Due(p)

IInv == TInv /\ CountsOK /\ DecisionsOK /\ ArrivalsOK /\ CampaignsOK /\ ExecutedOK /\ TotalsOK

----------------------------------------------------------------------------------
(* Facts                                                                          *)

Shaped(v) == v = Idle \/ IsDecision(v) \/ IsExport(v) \/ IsDelivery(v)

LEMMA Facts ==
  ASSUME TInv
  PROVE  /\ campaign \in [Campaigns -> CampaignRow \cup {NoRow}]
         /\ recipient \in [Campaigns -> [Letters -> {"none", "pending", "sent", "failed"}]]
         /\ proposal \in [Proposals -> ProposalRow \cup {NoRow}]
         /\ job \in [Exports -> JobRow \cup {NoRow}]
         /\ row \in [Owners -> [Letters -> [sent : Nat, failed : Nat]]]
         /\ got \in [Owners -> [Letters -> Nat]]
         /\ hitch \in [Owners \cup Exports -> SUBSET {"lost", "stopped", "crossed"}]
         /\ DOMAIN work = Workers
         /\ \A w \in Workers : Shaped(work[w]) /\ Refers(work[w])
         /\ NoRow \notin CampaignRow \cup ProposalRow \cup JobRow
BY MessagingAssumption DEF TInv, TypeOK, SessionsOK, Shaped

LEMMA Disjoint ==
  /\ Campaigns \cap (Proposals \cup Sends \cup Exports) = {}
  /\ Proposals \cap (Sends \cup Exports) = {} /\ Sends \cap Exports = {}
  /\ Owners = Campaigns \cup Proposals \cup Sends
BY MessagingAssumption DEF Owners

LEMMA LettersAreFinite == IsFiniteSet(Letters)
<1>0. IsFiniteSet(Students \cup Invoices)
  BY MessagingAssumption, FS_Union
<1>1. IsFiniteSet(Students \cup Invoices \cup {NoStudent})
  BY <1>0, FS_AddElement
<1> QED
  BY <1>1, MessagingAssumption, FS_Product DEF Letters

\* What is in hand, from what the thread is doing
LEMMA OpIs ==
  ASSUME NEW v, Shaped(v)
  PROVE  /\ v.op = "none" => v = Idle
         /\ v.op = "decide" => IsDecision(v)
         /\ v.op = "export" => IsExport(v)
         /\ v.op \in {"campaign", "send", "execute"} => IsDelivery(v)
         /\ v.op \in {"none", "decide", "export", "campaign", "send", "execute"}
         /\ v.op \in {"decide", "execute"} => v.of \in Proposals
         /\ v.op = "export" => v.of \in Exports
         /\ v.op = "campaign" => v.of \in Campaigns
         /\ v.op = "send" => v.of \in Sends
BY DEF Shaped, Idle, IsDecision, IsExport, IsDelivery

LEMMA AtIs ==
  ASSUME TInv, NEW w \in Workers, NEW place, At(w, place), place \in {"try", "keep", "mark"}
  PROVE  IsDelivery(work[w]) /\ work[w].at = place /\ Refers(work[w])
<1>1. Shaped(work[w]) /\ Refers(work[w])
  BY Facts
<1>2. CASE work[w].op = "export"
  BY <1>1, <1>2, OpIs DEF At, IsExport
<1> QED
  BY <1>1, <1>2, OpIs DEF At, Busy

\* The thread goes on with the same letters of the same owner.
SameJob(v, u) ==
  /\ u.op = v.op /\ u.of = v.of /\ u.todo = v.todo /\ u.sent = v.sent /\ u.failed = v.failed

LEMMA CreateIs ==
  ASSUME TInv, NEW w \in Workers, NEW x \in Letters, CreateDelivery(w, x)
  PROVE  \E v, u : /\ v = work[w] /\ IsDelivery(v) /\ v.at = "next" /\ v.status = "failed"
                   /\ work' = [work EXCEPT ![w] = u] /\ IsDelivery(u) /\ SameJob(v, u)
                   /\ x \in v.todo /\ u.letter = x /\ u.at \in {"try", "keep"}
                   /\ u.status = "failed"
<1>1. PICK v : v = work[w] /\ Shaped(v)
  BY Facts
<1>2. IsDelivery(v) /\ v.at = "next" /\ x \in v.todo
  BY <1>1, OpIs DEF CreateDelivery, At, Busy
<1>3. PICK channels : channels = AvailableChannels(x[1], v.requested)
  OBVIOUS
<1>4. PICK u : u = [v EXCEPT !.at = IF channels = <<>> THEN "keep" ELSE "try",
                             !.letter = x, !.channels = channels]
  OBVIOUS
<1>5. work' = [work EXCEPT ![w] = u]
  BY <1>1, <1>3, <1>4 DEF CreateDelivery, Continue
<1>6. PICK place \in {"try", "keep"} : place = IF channels = <<>> THEN "keep" ELSE "try"
  OBVIOUS
<1>7. u = [op |-> v.op, of |-> v.of, todo |-> v.todo, requested |-> v.requested, at |-> place,
           letter |-> x, channels |-> channels, status |-> v.status, sent |-> v.sent,
           failed |-> v.failed]
  BY <1>2, <1>4, <1>6 DEF IsDelivery
<1>8. IsDelivery(u) /\ SameJob(v, u) /\ u.letter = x /\ u.at \in {"try", "keep"}
      /\ u.status = "failed" /\ v.status = "failed"
  BY <1>2, <1>7 DEF IsDelivery, SameJob
<1> QED
  BY <1>1, <1>2, <1>5, <1>8

\* The message is accepted, or the next channel is tried.
Tries(w, v, u) ==
  /\ v = work[w] /\ IsDelivery(v) /\ v.at = "try" /\ v.status = "failed"
  /\ work' = [work EXCEPT ![w] = u] /\ IsDelivery(u) /\ SameJob(v, u) /\ u.letter = v.letter

LEMMA TryIs ==
  ASSUME TInv, NEW w \in Workers, At(w, "try")
  PROVE  /\ Continue(w, Accepted(w, "sent")) =>
              \E v, n : Tries(w, v, n) /\ n.at = "keep" /\ n.status = "sent"
         /\ Continue(w, Accepted(w, "delivered")) =>
              \E v, n : Tries(w, v, n) /\ n.at = "keep" /\ n.status = "delivered"
         /\ Continue(w, NextChannel(w)) =>
              \E v, n : Tries(w, v, n) /\ n.at \in {"try", "keep"} /\ n.status = "failed"
<1>1. PICK v : v = work[w] /\ IsDelivery(v) /\ v.at = "try"
  BY AtIs
<1>2. ASSUME NEW status \in {"sent", "delivered"}, Continue(w, Accepted(w, status))
      PROVE  \E n : Tries(w, v, n) /\ n.at = "keep" /\ n.status = status
  <2>1. PICK n : n = [v EXCEPT !.at = "keep", !.status = status]
    OBVIOUS
  <2>2. n = [op |-> v.op, of |-> v.of, todo |-> v.todo, requested |-> v.requested,
             at |-> "keep", letter |-> v.letter, channels |-> v.channels, status |-> status,
             sent |-> v.sent, failed |-> v.failed]
    BY <1>1, <2>1 DEF IsDelivery
  <2>3. IsDelivery(n) /\ SameJob(v, n) /\ n.letter = v.letter /\ n.at = "keep"
        /\ n.status = status /\ v.status = "failed"
    BY <1>1, <2>2 DEF IsDelivery, SameJob
  <2> QED
    BY <1>1, <1>2, <2>1, <2>3 DEF Tries, Continue, Accepted
<1>3. ASSUME Continue(w, NextChannel(w))
      PROVE  \E n : Tries(w, v, n) /\ n.at \in {"try", "keep"} /\ n.status = "failed"
  <2>1. PICK rest : rest = Tail(v.channels)
    OBVIOUS
  <2>2. PICK place \in {"try", "keep"} : place = IF rest = <<>> THEN "keep" ELSE "try"
    OBVIOUS
  <2>3. PICK n : n = [v EXCEPT !.channels = rest, !.at = place]
    OBVIOUS
  <2>4. n = [op |-> v.op, of |-> v.of, todo |-> v.todo, requested |-> v.requested,
             at |-> place, letter |-> v.letter, channels |-> rest, status |-> v.status,
             sent |-> v.sent, failed |-> v.failed]
    BY <1>1, <2>3 DEF IsDelivery
  <2>5. IsDelivery(n) /\ SameJob(v, n) /\ n.letter = v.letter /\ n.at \in {"try", "keep"}
        /\ n.status = "failed" /\ v.status = "failed"
    BY <1>1, <2>4 DEF IsDelivery, SameJob
  <2>6. work' = [work EXCEPT ![w] = n]
    BY <1>1, <1>3, <2>1, <2>2, <2>3 DEF Continue, NextChannel, Remaining
  <2> QED
    BY <1>1, <2>5, <2>6 DEF Tries
<1> QED
  BY <1>2, <1>3

\* A new session of letters
LEMMA LetterIs ==
  ASSUME NEW op, NEW o, NEW T \in SUBSET Letters, NEW requested, op \in {"campaign", "send", "execute"},
         op = "campaign" => o \in Campaigns, op = "send" => o \in Sends,
         op = "execute" => o \in Proposals
  PROVE  LET u == Letter(op, o, T, requested) IN
         /\ IsDelivery(u) /\ u.op = op /\ u.of = o /\ u.todo = T /\ u.at = "next"
         /\ u.status = "failed" /\ u.sent = 0 /\ u.failed = 0
BY DEF Letter, IsDelivery

\* The delivery is kept.
LEMMA KeepIs ==
  ASSUME TInv, NEW w \in Workers, KeepDelivery(w)
  PROVE  \E v, u : /\ v = work[w] /\ IsDelivery(v) /\ v.at = "keep"
                   /\ work' = [work EXCEPT ![w] = u] /\ IsDelivery(u)
                   /\ u.op = v.op /\ u.of = v.of
                   /\ \/ /\ v.op = "campaign" /\ SameJob(v, u) /\ u.at = "mark"
                         /\ u.letter = v.letter /\ u.status = v.status
                      \/ /\ v.op # "campaign" /\ u.todo = v.todo \ {v.letter} /\ u.at = "next"
                         /\ u.sent = v.sent + IF v.status = "failed" THEN 0 ELSE 1
                         /\ u.failed = v.failed + IF v.status = "failed" THEN 1 ELSE 0
<1>1. PICK v : v = work[w] /\ IsDelivery(v) /\ v.at = "keep"
  BY AtIs DEF KeepDelivery
<1>2. Done(w) <=> v.status # "failed"
  BY <1>1 DEF Done, IsDelivery
<1>3. CASE v.op = "campaign"
  <2>1. PICK u : u = [v EXCEPT !.at = "mark"]
    OBVIOUS
  <2>2. u = [op |-> v.op, of |-> v.of, todo |-> v.todo, requested |-> v.requested,
             at |-> "mark", letter |-> v.letter, channels |-> v.channels, status |-> v.status,
             sent |-> v.sent, failed |-> v.failed]
    BY <1>1, <2>1 DEF IsDelivery
  <2>3. IsDelivery(u) /\ SameJob(v, u) /\ u.at = "mark" /\ u.letter = v.letter
        /\ u.status = v.status
    BY <1>1, <1>3, <2>2 DEF IsDelivery, SameJob
  <2>4. work' = [work EXCEPT ![w] = u]
    BY <1>1, <1>3, <2>1 DEF KeepDelivery, Continue
  <2> QED
    BY <1>1, <1>3, <2>3, <2>4 DEF SameJob
<1>4. CASE v.op # "campaign"
  <2>1. PICK s \in Nat : s = v.sent + IF v.status = "failed" THEN 0 ELSE 1
    BY <1>1 DEF IsDelivery
  <2>2. PICK f \in Nat : f = v.failed + IF v.status = "failed" THEN 1 ELSE 0
    BY <1>1 DEF IsDelivery
  <2>3. PICK T \in SUBSET Letters : T = v.todo \ {v.letter}
    BY <1>1 DEF IsDelivery
  <2>4. PICK u : u = [Letter(v.op, v.of, T, v.requested) EXCEPT !.sent = s, !.failed = f]
    OBVIOUS
  <2>5. u = [op |-> v.op, of |-> v.of, todo |-> T, requested |-> v.requested, at |-> "next",
             letter |-> NoRow, channels |-> <<>>, status |-> "failed", sent |-> s, failed |-> f]
    BY <2>4 DEF Letter
  <2>6. IsDelivery(u) /\ u.op = v.op /\ u.of = v.of /\ u.todo = T /\ u.at = "next" /\ u.sent = s
        /\ u.failed = f
    BY <1>1, <2>5 DEF IsDelivery
  <2>7. work' = [work EXCEPT ![w] = u]
    BY <1>1, <1>2, <1>4, <2>1, <2>2, <2>3, <2>4 DEF KeepDelivery, Continue
  <2> QED
    BY <1>1, <1>4, <2>1, <2>2, <2>3, <2>6, <2>7
<1> QED
  BY <1>3, <1>4

----------------------------------------------------------------------------------
(* The types, the threads and the tasks                                           *)

\* A thread goes on with what it refers to.
LEMMA RefersKept ==
  ASSUME NEW v, Shaped(v), Refers(v),
         \A p \in Proposals : proposal[p] # NoRow =>
           proposal'[p] # NoRow /\ (proposal[p].approved => proposal'[p].approved),
         \A j \in Exports : job[j] # NoRow => job'[j] # NoRow,
         begun \subseteq begun',
         v.op \in {"campaign", "export"} => v.of \notin tasks',
         v.op = "campaign" => campaign'[v.of] = campaign[v.of] /\ recipient'[v.of] = recipient[v.of]
  PROVE  Refers(v)'
<1>1. v.op \in {"decide", "execute"} => v.of \in Proposals
  BY OpIs
<1>2. v.op = "export" => v.of \in Exports
  BY OpIs
<1> QED
  BY <1>1, <1>2 DEF Refers, Marked

LEMMA SessionsKept ==
  ASSUME TInv, NEW w \in Workers, NEW u, work' = [work EXCEPT ![w] = u],
         Shaped(u), Refers(u)',
         u.op # "none" /\ u.of \notin Proposals =>
           \A q \in Workers \ {w} : Busy(q) => work[q].of # u.of,
         \A q \in Workers \ {w} : \E v : v = work[q] /\ Refers(v)'
  PROVE  SessionsOK'
<1>1. DOMAIN work' = Workers /\ work'[w] = u /\ \A q \in Workers \ {w} : work'[q] = work[q]
  BY Facts
<1>2. ASSUME NEW q \in Workers PROVE Shaped(work'[q]) /\ Refers(work[q])'
  <2>1. PICK v : v = work'[q] /\ Shaped(v) /\ Refers(v)'
    <3>1. CASE q = w
      BY <1>1, <3>1
    <3>2. CASE q # w
      BY <1>1, <3>2, Facts
    <3> QED
      BY <3>1, <3>2
  <2> QED
    BY <2>1 DEF Refers
<1>3. ASSUME NEW p \in Workers, NEW q \in Workers, Busy(p)', Busy(q)', work'[p].of = work'[q].of,
             p # q
      PROVE  work'[p].of \in Proposals
  <2>1. CASE p = w
    BY <1>1, <1>3, <2>1 DEF Busy
  <2>2. CASE q = w
    BY <1>1, <1>3, <2>2 DEF Busy
  <2>3. CASE p # w /\ q # w
    BY <1>1, <1>3, <2>3 DEF Busy, TInv, SessionsOK
  <2> QED
    BY <2>1, <2>2, <2>3
<1> QED
  BY <1>1, <1>2, <1>3 DEF SessionsOK, Shaped

\* Nobody else works on the campaign, the message or the export that a thread works on.
LEMMA Alone ==
  ASSUME TInv, NEW w \in Workers, NEW q \in Workers \ {w}, Busy(w), Busy(q),
         work[w].of \notin Proposals
  PROVE  work[q].of # work[w].of
BY DEF TInv, SessionsOK

\* A step of a delivery that changes no row of what it refers to
LEMMA DeliveryGoesOn ==
  ASSUME TInv, NEW w \in Workers, NEW v, v = work[w], IsDelivery(v),
         NEW u, IsDelivery(u), work' = [work EXCEPT ![w] = u],
         u.op = v.op, u.of = v.of, u.op = "campaign" => u.todo = v.todo,
         UNCHANGED <<campaign, recipient, proposal, job, tasks, begun>>
  PROVE  SessionsOK' /\ TasksOK'
<1>1. \A q \in Workers : \E n : n = work[q] /\ Refers(n)'
  <2>1. SUFFICES ASSUME NEW q \in Workers PROVE \E n : n = work[q] /\ Refers(n)'
    OBVIOUS
  <2>2. PICK n : n = work[q] /\ Refers(n)
    BY Facts
  <2>3. Refers(n)'
    BY <2>2 DEF Refers, Marked
  <2> QED
    BY <2>2, <2>3
<1>2. Refers(u)'
  <2>1. Refers(v)
    BY Facts
  <2> QED
    BY <2>1 DEF Refers, Marked
<1>3. u.of \notin Proposals => \A q \in Workers \ {w} : Busy(q) => work[q].of # u.of
  <2>1. Busy(w)
    BY DEF Busy, IsDelivery
  <2> QED
    BY <2>1, Alone
<1>4. SessionsOK'
  BY <1>1, <1>2, <1>3, SessionsKept DEF Shaped
<1>5. TasksOK'
  BY DEF TInv, TasksOK, Marked
<1> QED
  BY <1>4, <1>5

\* A delivery is of an owner whose letters are counted.
LEMMA OfIs ==
  ASSUME NEW v, IsDelivery(v), v.at # "next"
  PROVE  v.of \in Owners /\ v.letter \in Letters
BY Disjoint DEF IsDelivery

LEMMA CreateTInv ==
  ASSUME TInv, NEW w \in Workers, NEW x \in Letters, CreateDelivery(w, x)
  PROVE  TInv'
<1>1. SessionsOK' /\ TasksOK'
  <2>1. UNCHANGED <<campaign, recipient, proposal, job, tasks, begun>>
    BY DEF CreateDelivery, store
  <2>2. PICK v, u : /\ v = work[w] /\ IsDelivery(v) /\ v.at = "next" /\ v.status = "failed"
                    /\ work' = [work EXCEPT ![w] = u] /\ IsDelivery(u) /\ SameJob(v, u)
                    /\ x \in v.todo /\ u.letter = x /\ u.at \in {"try", "keep"}
                    /\ u.status = "failed"
    BY CreateIs
  <2> QED
    BY <2>1, <2>2, DeliveryGoesOn DEF SameJob
<1>2. TypeOK'
  BY DEF TInv, TypeOK, CreateDelivery, store, count
<1> QED
  BY <1>1, <1>2 DEF TInv

LEMMA GotAdds ==
  ASSUME TInv, NEW o \in Owners, NEW x \in Letters, NEW g, g = [got EXCEPT ![o][x] = @ + 1]
  PROVE  /\ g \in [Owners -> [Letters -> Nat]]
         /\ got[o][x] \in Nat /\ g[o][x] = got[o][x] + 1
         /\ \A q \in Owners, y \in Letters : q # o \/ y # x => g[q][y] = got[q][y]
<1>1. got \in [Owners -> [Letters -> Nat]]
  BY Facts
<1>2. PICK f \in [Letters -> Nat] : f = got[o]
  BY <1>1
<1>3. PICK h : h = [f EXCEPT ![x] = @ + 1]
  OBVIOUS
<1>4. h \in [Letters -> Nat] /\ h[x] = f[x] + 1 /\ \A y \in Letters : y # x => h[y] = f[y]
  BY <1>2, <1>3
<1>5. g = [got EXCEPT ![o] = h]
  BY <1>2, <1>3
<1> QED
  BY <1>1, <1>2, <1>4, <1>5

\* What a step of a try does besides
LEMMA TryTInv ==
  ASSUME TInv, NEW w \in Workers, TryPortal(w) \/ TryWhatsapp(w) \/ TryProvider(w) \/ AnswerLost(w)
  PROVE  TInv'
<1>1. /\ At(w, "try")
      /\ \/ Continue(w, Accepted(w, "sent"))
         \/ Continue(w, Accepted(w, "delivered"))
         \/ Continue(w, NextChannel(w))
  BY DEF TryPortal, TryWhatsapp, TryProvider, AnswerLost
<1>2. UNCHANGED <<uses, wish, campaign, recipient, proposal, job, row, tasks, begun, wishes,
                  decisions>>
  BY DEF TryPortal, TryWhatsapp, TryProvider, AnswerLost, store, count
<1>3. PICK v, u : Tries(w, v, u)
  <2>1. At(w, "try")
    BY <1>1
  <2>2. CASE Continue(w, Accepted(w, "sent"))
    BY <2>1, <2>2, TryIs
  <2>3. CASE Continue(w, Accepted(w, "delivered"))
    BY <2>1, <2>3, TryIs
  <2>4. CASE Continue(w, NextChannel(w))
    BY <2>1, <2>4, TryIs
  <2> QED
    BY <1>1, <2>2, <2>3, <2>4
<1>4. SessionsOK' /\ TasksOK'
  BY <1>2, <1>3, DeliveryGoesOn DEF Tries, SameJob
<1>5. v.of \in Owners /\ v.letter \in Letters
  BY <1>3, OfIs DEF Tries
<1>6. got' \in [Owners -> [Letters -> Nat]]
  <2>1. got' = got \/ got' = Arrives(w)
    BY DEF TryPortal, TryWhatsapp, TryProvider, AnswerLost
  <2> QED
    BY <1>3, <1>5, <2>1, GotAdds, Facts DEF Arrives, Tries
<1>7. hitch' \in [Owners \cup Exports -> SUBSET {"lost", "stopped", "crossed"}]
  <2>1. hitch' = hitch \/ hitch' = [hitch EXCEPT ![v.of] = @ \cup {"lost"}]
    BY <1>3 DEF TryPortal, TryWhatsapp, TryProvider, AnswerLost, Tries
  <2> QED
    BY <1>5, <2>1, Facts
<1>8. faults' \in 0..MaxFaults
  <2>1. faults' = faults \/ (faults' = faults + 1 /\ faults < MaxFaults)
    BY DEF TryPortal, TryWhatsapp, TryProvider, AnswerLost, count
  <2>2. faults \in 0..MaxFaults /\ MaxFaults \in Nat
    BY MessagingAssumption DEF TInv, TypeOK
  <2> QED
    BY <2>1, <2>2
<1>9. TypeOK'
  BY <1>2, <1>6, <1>7, <1>8 DEF TInv, TypeOK
<1> QED
  BY <1>4, <1>9 DEF TInv

\* The row of a letter, when its delivery is kept
LEMMA RowAdds ==
  ASSUME TInv, NEW w \in Workers, KeepDelivery(w)
  PROVE  LET o == work[w].of
             x == work[w].letter IN
         /\ row' \in [Owners -> [Letters -> [sent : Nat, failed : Nat]]]
         /\ row[o][x].sent \in Nat
         /\ row'[o][x].sent = row[o][x].sent + IF work[w].status = "failed" THEN 0 ELSE 1
         /\ \A q \in Owners, y \in Letters : q # o \/ y # x => row'[q][y] = row[q][y]
<1>1. PICK v : v = work[w] /\ IsDelivery(v) /\ v.at = "keep"
  BY AtIs DEF KeepDelivery
<1>2. PICK o, x : o = v.of /\ x = v.letter /\ o \in Owners /\ x \in Letters
  BY <1>1, OfIs
<1>3. Done(w) <=> v.status # "failed"
  BY <1>1 DEF Done, IsDelivery
<1>4. row \in [Owners -> [Letters -> [sent : Nat, failed : Nat]]]
  BY Facts
<1>5. PICK f \in [Letters -> [sent : Nat, failed : Nat]] : f = row[o]
  BY <1>2, <1>4
<1>6. PICK d \in [sent : Nat, failed : Nat] : d = f[x]
  BY <1>2, <1>5
<1>7. PICK e \in [sent : Nat, failed : Nat] :
        e = Counting(d, w) /\ e.sent = d.sent + IF v.status = "failed" THEN 0 ELSE 1
  <2>1. CASE v.status # "failed"
    <3>1. PICK e : e = [d EXCEPT !.sent = @ + 1]
      OBVIOUS
    <3>2. e \in [sent : Nat, failed : Nat] /\ e.sent = d.sent + 1
      BY <3>1
    <3> QED
      BY <1>3, <2>1, <3>1, <3>2 DEF Counting
  <2>2. CASE v.status = "failed"
    <3>1. PICK e : e = [d EXCEPT !.failed = @ + 1]
      OBVIOUS
    <3>2. e \in [sent : Nat, failed : Nat] /\ e.sent = d.sent + 0
      BY <3>1
    <3> QED
      BY <1>3, <2>2, <3>1, <3>2 DEF Counting
  <2> QED
    BY <2>1, <2>2
<1>8. PICK h : h = [f EXCEPT ![x] = e]
  OBVIOUS
<1>9. row' = [row EXCEPT ![o] = h]
  BY <1>1, <1>2, <1>3, <1>5, <1>6, <1>7, <1>8 DEF KeepDelivery
<1>10. h \in [Letters -> [sent : Nat, failed : Nat]] /\ h[x] = e
       /\ \A y \in Letters : y # x => h[y] = f[y]
  BY <1>2, <1>5, <1>7, <1>8
<1>11. /\ row' \in [Owners -> [Letters -> [sent : Nat, failed : Nat]]]
       /\ row'[o][x].sent = row[o][x].sent + IF v.status = "failed" THEN 0 ELSE 1
       /\ \A q \in Owners, y \in Letters : q # o \/ y # x => row'[q][y] = row[q][y]
  BY <1>2, <1>4, <1>5, <1>6, <1>7, <1>9, <1>10
<1>12. row[o][x].sent \in Nat
  BY <1>5, <1>6
<1> QED
  BY <1>1, <1>2, <1>11, <1>12

LEMMA KeepTInv ==
  ASSUME TInv, NEW w \in Workers, KeepDelivery(w)
  PROVE  TInv'
<1>1. UNCHANGED <<uses, wish, campaign, recipient, proposal, job, tasks, begun, hitch, wishes,
                  decisions, faults>>
  BY DEF KeepDelivery, count
<1>2. SessionsOK' /\ TasksOK'
  BY <1>1, KeepIs, DeliveryGoesOn DEF SameJob
<1>3. got' \in [Owners -> [Letters -> Nat]]
  <2>1. IsDelivery(work[w]) /\ work[w].at = "keep"
    BY AtIs DEF KeepDelivery
  <2>2. got' = got \/ got' = Arrives(w)
    BY DEF KeepDelivery
  <2> QED
    BY <2>1, <2>2, OfIs, GotAdds, Facts DEF Arrives
<1>4. row' \in [Owners -> [Letters -> [sent : Nat, failed : Nat]]]
  BY RowAdds
<1>5. TypeOK'
  BY <1>1, <1>3, <1>4 DEF TInv, TypeOK
<1> QED
  BY <1>2, <1>5 DEF TInv

\* What was proposed, queued or asked for stays.
Grows ==
  /\ \A p \in Proposals : proposal[p] # NoRow =>
       proposal'[p] # NoRow /\ (proposal[p].approved => proposal'[p].approved)
  /\ \A j \in Exports : job[j] # NoRow => job'[j] # NoRow
  /\ begun \subseteq begun'

\* Threads that a step does not concern go on with what they refer to.
LEMMA OthersGoOn ==
  ASSUME TInv, NEW W \in SUBSET Workers, Grows,
         \A q \in W : work[q].op \in {"campaign", "export"} => work[q].of \notin tasks',
         \A q \in W : work[q].op = "campaign" =>
           campaign'[work[q].of] = campaign[work[q].of]
           /\ recipient'[work[q].of] = recipient[work[q].of]
  PROVE  \A q \in W : \E v : v = work[q] /\ Refers(v)'
<1>1. SUFFICES ASSUME NEW q \in W PROVE \E v : v = work[q] /\ Refers(v)'
  OBVIOUS
<1>2. PICK v : v = work[q] /\ Shaped(v) /\ Refers(v)
  BY Facts
<1>3. v.op \in {"campaign", "export"} => v.of \notin tasks'
  BY <1>2
<1>4. v.op = "campaign" => campaign'[v.of] = campaign[v.of] /\ recipient'[v.of] = recipient[v.of]
  BY <1>2
<1>5. Refers(v)'
  BY <1>2, <1>3, <1>4, RefersKept DEF Grows
<1> QED
  BY <1>2, <1>5

\* A thread that is done
LEMMA IdleIs == Shaped(Idle) /\ Idle.op = "none" /\ Refers(Idle)'
BY DEF Shaped, Idle, Refers

\* A letter is marked, and counted in its campaign.
Marks(w, v, u, status, k) ==
  /\ v = work[w] /\ IsDelivery(v) /\ v.at = "mark" /\ Refers(v) /\ v.op = "campaign"
  /\ v.of \in Campaigns /\ v.letter \in Letters /\ v.letter \in v.todo
  /\ status = IF v.status = "failed" THEN "failed" ELSE "sent"
  /\ recipient' = [recipient EXCEPT ![v.of][v.letter] = status]
  /\ campaign[v.of] \in CampaignRow /\ k \in CampaignRow /\ k.status = "sending"
  /\ k.sent_count = campaign[v.of].sent_count + IF status = "sent" THEN 1 ELSE 0
  /\ k.failed_count = campaign[v.of].failed_count + IF status = "sent" THEN 0 ELSE 1
  /\ campaign' = [campaign EXCEPT ![v.of] = k]
  /\ IsDelivery(u) /\ u.op = "campaign" /\ u.of = v.of /\ u.todo = v.todo \ {v.letter}
  /\ u.at = "next" /\ work' = [work EXCEPT ![w] = u]

LEMMA MarkIs ==
  ASSUME TInv, NEW w \in Workers, MarkRecipient(w)
  PROVE  \E v, u, status, k : Marks(w, v, u, status, k)
<1>1. PICK v : v = work[w] /\ IsDelivery(v) /\ v.at = "mark" /\ Refers(v)
  BY AtIs DEF MarkRecipient
<1>2. PICK c, x : c = v.of /\ x = v.letter /\ c \in Campaigns /\ x \in Letters /\ x \in v.todo
                  /\ v.op = "campaign"
  BY <1>1 DEF IsDelivery
<1>3. PICK status \in {"sent", "failed"} :
        /\ status = IF Done(w) THEN "sent" ELSE "failed"
        /\ status = IF v.status = "failed" THEN "failed" ELSE "sent"
  BY <1>1 DEF Done, IsDelivery
<1>4. recipient' = [recipient EXCEPT ![c][x] = status]
  BY <1>1, <1>2, <1>3 DEF MarkRecipient
<1>5. PICK r : r = campaign[c] /\ r \in CampaignRow /\ r.status = "sending"
  BY <1>1, <1>2, Facts DEF Refers
<1>6. PICK n \in Nat : /\ n = IF Done(w) THEN r.sent_count + 1 ELSE r.sent_count
                       /\ n = r.sent_count + IF status = "sent" THEN 1 ELSE 0
  BY <1>3, <1>5 DEF CampaignRow
<1>7. PICK m \in Nat : /\ m = IF Done(w) THEN r.failed_count ELSE r.failed_count + 1
                       /\ m = r.failed_count + IF status = "sent" THEN 0 ELSE 1
  BY <1>3, <1>5 DEF CampaignRow
<1>8. PICK k : k = [r EXCEPT !.sent_count = n, !.failed_count = m]
  OBVIOUS
<1>9. k \in CampaignRow /\ k.status = "sending" /\ k.sent_count = n /\ k.failed_count = m
  BY <1>5, <1>8 DEF CampaignRow
<1>10. campaign' = [campaign EXCEPT ![c] = k]
  <2>1. campaign' = [campaign EXCEPT ![c].sent_count = n, ![c].failed_count = m]
    BY <1>1, <1>2, <1>5, <1>6, <1>7 DEF MarkRecipient
  <2> QED
    BY <1>2, <1>5, <1>8, <2>1, Facts
<1>11. PICK u : u = Letter("campaign", c, v.todo \ {x}, v.requested) /\ IsDelivery(u)
               /\ u.op = "campaign" /\ u.of = c /\ u.todo = v.todo \ {x} /\ u.at = "next"
  <2>1. v.todo \ {x} \in SUBSET Letters
    BY <1>1 DEF IsDelivery
  <2> QED
    BY <1>2, <2>1, LetterIs
<1>12. work' = [work EXCEPT ![w] = u]
  BY <1>1, <1>2, <1>11 DEF MarkRecipient, Continue, Rest
<1>13. /\ k.sent_count = campaign[v.of].sent_count + IF status = "sent" THEN 1 ELSE 0
       /\ k.failed_count = campaign[v.of].failed_count + IF status = "sent" THEN 0 ELSE 1
  BY <1>2, <1>5, <1>6, <1>7, <1>9
<1>14. /\ recipient' = [recipient EXCEPT ![v.of][v.letter] = status]
       /\ campaign' = [campaign EXCEPT ![v.of] = k] /\ work' = [work EXCEPT ![w] = u]
       /\ u.of = v.of /\ u.todo = v.todo \ {v.letter}
  BY <1>2, <1>4, <1>10, <1>11, <1>12
<1>15. Marks(w, v, u, status, k)
  BY <1>1, <1>2, <1>3, <1>5, <1>9, <1>11, <1>13, <1>14 DEF Marks
<1> QED
  BY <1>15

LEMMA MarkTInv ==
  ASSUME TInv, NEW w \in Workers, MarkRecipient(w)
  PROVE  TInv'
<1>1. PICK v, u, status, k : Marks(w, v, u, status, k)
  BY MarkIs
<1>2. PICK c, x : c = v.of /\ x = v.letter /\ c \in Campaigns /\ x \in Letters /\ x \in v.todo
  BY <1>1 DEF Marks
<1>3. /\ v = work[w] /\ v.op = "campaign" /\ Refers(v)
      /\ status \in {"sent", "failed"} /\ recipient' = [recipient EXCEPT ![c][x] = status]
  BY <1>1, <1>2 DEF Marks
<1>4. k \in CampaignRow /\ k.status = "sending" /\ campaign' = [campaign EXCEPT ![c] = k]
  BY <1>1, <1>2 DEF Marks
<1>5. /\ IsDelivery(u) /\ u.op = "campaign" /\ u.of = c /\ u.todo = v.todo \ {x}
      /\ work' = [work EXCEPT ![w] = u]
  BY <1>1, <1>2 DEF Marks
<1>6. UNCHANGED <<uses, wish, proposal, job, row, got, tasks, begun, hitch, wishes, decisions, faults>>
  BY DEF MarkRecipient, count
<1>7. \A d \in Campaigns : d # c => campaign'[d] = campaign[d] /\ recipient'[d] = recipient[d]
  BY <1>2, <1>3, <1>4, Facts
<1>8. campaign' \in [Campaigns -> CampaignRow \cup {NoRow}] /\ campaign'[c] = k
  BY <1>2, <1>4, Facts
<1>9. /\ recipient' \in [Campaigns -> [Letters -> {"none", "pending", "sent", "failed"}]]
       /\ recipient'[c][x] = status /\ \A y \in Letters : y # x => recipient'[c][y] = recipient[c][y]
  BY <1>2, <1>3, Facts
<1>10. c \notin tasks
  BY <1>2, <1>3 DEF Refers
<1>11. Refers(u)'
  <2>1. Marked(c, "pending")' = Marked(c, "pending") \ {x}
    BY <1>2, <1>3, <1>9 DEF Marked
  <2>2. v.todo = Marked(c, "pending")
    BY <1>2, <1>3 DEF Refers
  <2>3. k # NoRow
    BY <1>4, Facts
  <2> QED
    BY <1>4, <1>5, <1>6, <1>8, <1>10, <2>1, <2>2, <2>3 DEF Refers
<1>12. \A q \in Workers \ {w} : Busy(q) => work[q].of # c
  <2>1. c \notin Proposals /\ Busy(w)
    BY <1>2, <1>3, Disjoint DEF Busy
  <2> QED
    BY <1>2, <1>3, <2>1, Alone
<1>13. \A q \in Workers \ {w} : \E n : n = work[q] /\ Refers(n)'
  <2>1. SUFFICES ASSUME NEW q \in Workers \ {w} PROVE \E n : n = work[q] /\ Refers(n)'
    OBVIOUS
  <2>2. PICK n : n = work[q] /\ Shaped(n) /\ Refers(n)
    BY Facts
  <2>3. n.op = "campaign" => n.of \in Campaigns /\ n.of # c
    BY <1>12, <2>2, OpIs DEF Busy
  <2>4. n.op = "campaign" =>
          campaign'[n.of] = campaign[n.of] /\ recipient'[n.of] = recipient[n.of]
    BY <1>7, <2>3
  <2>5. n.op \in {"campaign", "export"} => n.of \notin tasks'
    BY <1>6, <2>2 DEF Refers
  <2>6. Refers(n)'
    BY <1>6, <2>2, <2>4, <2>5, RefersKept
  <2> QED
    BY <2>2, <2>6
<1>14. SessionsOK'
  BY <1>5, <1>11, <1>12, <1>13, SessionsKept DEF Shaped
<1>15. TasksOK'
  BY <1>6, <1>7, <1>10 DEF TInv, TasksOK, Marked
<1>16. TypeOK'
  BY <1>6, <1>8, <1>9 DEF TInv, TypeOK
<1> QED
  BY <1>14, <1>15, <1>16 DEF TInv

\* A thread goes on to nothing.
LEMMA EndKeepsSessions ==
  ASSUME TInv, NEW w \in Workers, work' = [work EXCEPT ![w] = Idle],
         \A q \in Workers \ {w} : \E v : v = work[q] /\ Refers(v)'
  PROVE  SessionsOK'
BY IdleIs, SessionsKept

\* The row of campaign c is written, and its counts stay.
Restated(c, status) ==
  \E r \in CampaignRow, k \in CampaignRow :
    /\ r = campaign[c] /\ campaign' = [campaign EXCEPT ![c] = k] /\ k.status = status
    /\ k.sent_count = r.sent_count /\ k.failed_count = r.failed_count

LEMMA RestatedIs ==
  ASSUME NEW c \in Campaigns, campaign[c] \in CampaignRow,
         NEW status \in {"queued", "sending", "completed", "failed"},
         campaign' = [campaign EXCEPT ![c].status = status]
  PROVE  Restated(c, status)
<1>1. PICK r \in CampaignRow : r = campaign[c]
  OBVIOUS
<1>2. PICK k : k = [r EXCEPT !.status = status]
  OBVIOUS
<1>3. k \in CampaignRow /\ k.status = status /\ k.sent_count = r.sent_count
      /\ k.failed_count = r.failed_count
  BY <1>1, <1>2 DEF CampaignRow
<1>4. campaign' = [campaign EXCEPT ![c] = k]
  BY <1>1, <1>2
<1> QED
  BY <1>1, <1>3, <1>4 DEF Restated

LEMMA EndCampaignIs ==
  ASSUME TInv, NEW w \in Workers, EndCampaign(w)
  PROVE  \E c \in Campaigns : /\ c = work[w].of /\ work[w].op = "campaign"
                              /\ Marked(c, "pending") = {} /\ campaign[c] # NoRow
                              /\ c \notin tasks /\ Restated(c, "completed")
<1>1. PICK v : v = work[w] /\ Shaped(v) /\ Refers(v) /\ v.op = "campaign" /\ v.todo = {}
  BY Facts DEF EndCampaign, Finished
<1>2. PICK c \in Campaigns : c = v.of /\ campaign[c] # NoRow /\ c \notin tasks
                            /\ Marked(c, "pending") = {}
  BY <1>1, OpIs DEF Refers
<1>3. campaign[c] \in CampaignRow /\ campaign' = [campaign EXCEPT ![c].status = "completed"]
  BY <1>1, <1>2, Facts DEF EndCampaign
<1> QED
  BY <1>1, <1>2, <1>3, RestatedIs

LEMMA EndCampaignTInv ==
  ASSUME TInv, NEW w \in Workers, EndCampaign(w)
  PROVE  TInv'
<1>1. PICK c \in Campaigns : /\ c = work[w].of /\ work[w].op = "campaign"
                             /\ Marked(c, "pending") = {} /\ campaign[c] # NoRow
                             /\ c \notin tasks /\ Restated(c, "completed")
  BY EndCampaignIs
<1>2. c \in Campaigns /\ campaign[c] # NoRow /\ c \notin tasks
  BY <1>1
<1>3. PICK k \in CampaignRow : campaign' = [campaign EXCEPT ![c] = k]
  BY <1>1 DEF Restated
<1>4. UNCHANGED <<uses, wish, recipient, proposal, job, row, got, tasks, begun, hitch, wishes,
                  decisions, faults>> /\ work' = [work EXCEPT ![w] = Idle]
  BY DEF EndCampaign, count, Continue
<1>5. /\ campaign' \in [Campaigns -> CampaignRow \cup {NoRow}]
      /\ \A d \in Campaigns : d # c => campaign'[d] = campaign[d]
  BY <1>2, <1>3, Facts
<1>6. \A q \in Workers \ {w} : work[q].op = "campaign" => work[q].of \in Campaigns /\ work[q].of # c
  <2>1. c \notin Proposals /\ Busy(w)
    BY <1>1, <1>2, Disjoint DEF Busy
  <2> QED
    BY <1>1, <1>2, <2>1, Alone, OpIs, Facts DEF Busy
<1>7. \A q \in Workers \ {w} : work[q].op \in {"campaign", "export"} => work[q].of \notin tasks'
  BY <1>4, Facts DEF Refers
<1>8. \A q \in Workers \ {w} : \E n : n = work[q] /\ Refers(n)'
  <2> DEFINE W == Workers \ {w}
  <2>1. W \in SUBSET Workers /\ Grows
    BY <1>4 DEF Grows
  <2>2. \A q \in W : work[q].op = "campaign" =>
          campaign'[work[q].of] = campaign[work[q].of]
          /\ recipient'[work[q].of] = recipient[work[q].of]
    BY <1>4, <1>5, <1>6
  <2>3. \A q \in W : work[q].op \in {"campaign", "export"} => work[q].of \notin tasks'
    BY <1>7
  <2> HIDE DEF W
  <2>4. \A q \in W : \E n : n = work[q] /\ Refers(n)'
    BY <2>1, <2>2, <2>3, OthersGoOn
  <2> QED
    BY <2>4 DEF W
<1>9. SessionsOK'
  BY <1>4, <1>8, EndKeepsSessions
<1>10. TasksOK'
  BY <1>2, <1>4, <1>5 DEF TInv, TasksOK, Marked
<1>11. TypeOK'
  BY <1>4, <1>5 DEF TInv, TypeOK
<1> QED
  BY <1>9, <1>10, <1>11 DEF TInv

\* What the other threads work on does not change.
LEMMA OthersStay ==
  ASSUME TInv, NEW w \in Workers, Grows, UNCHANGED <<campaign, recipient>>, tasks' \subseteq tasks
  PROVE  \A q \in Workers \ {w} : \E v : v = work[q] /\ Refers(v)'
<1> DEFINE W == Workers \ {w}
<1>1. W \in SUBSET Workers
  OBVIOUS
<1>2. \A q \in W : work[q].op \in {"campaign", "export"} => work[q].of \notin tasks'
  BY Facts DEF Refers
<1> HIDE DEF W
<1>3. \A q \in W : \E v : v = work[q] /\ Refers(v)'
  BY <1>1, <1>2, OthersGoOn
<1> QED
  BY <1>3 DEF W

LEMMA EndSendTInv ==
  ASSUME TInv, NEW w \in Workers, EndSend(w)
  PROVE  TInv'
<1>1. UNCHANGED <<uses, wish, campaign, recipient, proposal, job, row, got, tasks, begun, hitch,
                  wishes, decisions, faults>> /\ work' = [work EXCEPT ![w] = Idle]
  BY DEF EndSend, store, count, Continue
<1>2. SessionsOK'
  BY <1>1, OthersStay, EndKeepsSessions DEF Grows
<1>3. TasksOK' /\ TypeOK'
  BY <1>1 DEF TInv, TasksOK, Marked, TypeOK
<1> QED
  BY <1>2, <1>3 DEF TInv

LEMMA EndExecuteTInv ==
  ASSUME TInv, NEW w \in Workers, EndExecute(w)
  PROVE  TInv'
<1>1. PICK v : v = work[w] /\ IsDelivery(v) /\ Refers(v) /\ v.op = "execute"
  BY Facts, OpIs DEF EndExecute
<1>2. PICK p : p = v.of /\ p \in Proposals /\ proposal[p] # NoRow
  BY <1>1 DEF Refers, IsDelivery
<1>3. PICK r \in ProposalRow : r = proposal[p]
  BY <1>2, Facts
<1>4. PICK k : k = [r EXCEPT !.status = "executed", !.sent = v.sent, !.failed = v.failed]
  OBVIOUS
<1>5. k \in ProposalRow /\ k.approved = r.approved
  BY <1>1, <1>4 DEF ProposalRow, IsDelivery
<1>6. proposal' = [proposal EXCEPT ![p] = k]
  BY <1>1, <1>2, <1>3, <1>4 DEF EndExecute
<1>7. UNCHANGED <<uses, wish, campaign, recipient, job, row, got, tasks, begun, hitch,
                  wishes, decisions, faults>> /\ work' = [work EXCEPT ![w] = Idle]
  BY DEF EndExecute, count, Continue
<1>8. /\ proposal' \in [Proposals -> ProposalRow \cup {NoRow}] /\ proposal'[p] = k /\ k # NoRow
      /\ \A q \in Proposals : q # p => proposal'[q] = proposal[q]
  BY <1>2, <1>5, <1>6, Facts
<1>9. Grows
  BY <1>3, <1>5, <1>7, <1>8 DEF Grows
<1>10. SessionsOK'
  BY <1>7, <1>9, OthersStay, EndKeepsSessions
<1>11. TasksOK' /\ TypeOK'
  BY <1>7, <1>8 DEF TInv, TasksOK, Marked, TypeOK
<1> QED
  BY <1>10, <1>11 DEF TInv

\* An export that is worked on has a row, whose progress goes no further than its total.
LEMMA JobIs ==
  ASSUME TInv, NEW j \in Exports, job[j] # NoRow
  PROVE  \E r \in JobRow : r = job[j] /\ r.progress <= r.total
<1>1. PICK r \in JobRow : r = job[j]
  BY Facts
<1> QED
  BY <1>1 DEF TInv, TypeOK

\* A step of the export of j: its row is written, and the thread goes on or ends.
LEMMA ExportStep ==
  ASSUME TInv, NEW w \in Workers, work[w].op = "export",
         NEW j, j = work[w].of, NEW k \in JobRow, k.progress <= k.total,
         job' = [job EXCEPT ![j] = k],
         NEW u, work' = [work EXCEPT ![w] = u], u = Idle \/ (IsExport(u) /\ u.of = j),
         UNCHANGED <<uses, wish, campaign, recipient, proposal, row, got, tasks, begun, hitch,
                     wishes, decisions, faults>>
  PROVE  TInv'
<1>1. j \in Exports /\ job[j] # NoRow /\ j \notin tasks /\ Busy(w)
  BY Facts, OpIs DEF Refers, Busy
<1>2. /\ job' \in [Exports -> JobRow \cup {NoRow}] /\ job'[j] = k /\ k # NoRow
      /\ \A i \in Exports : i # j => job'[i] = job[i]
  BY <1>1, Facts
<1>3. \A q \in Workers \ {w} : \E v : v = work[q] /\ Refers(v)'
  BY <1>2, OthersStay DEF Grows
<1>4. Refers(u)'
  <2>1. u = Idle => u.op = "none"
    BY DEF Idle
  <2>2. IsExport(u) => u.op = "export"
    BY DEF IsExport
  <2> QED
    BY <1>1, <1>2, <2>1, <2>2 DEF Refers
<1>5. u.op # "none" => \A q \in Workers \ {w} : Busy(q) => work[q].of # u.of
  <2>1. j \notin Proposals
    BY <1>1, Disjoint
  <2> QED
    BY <1>1, <2>1, Alone DEF Idle
<1>6. SessionsOK'
  BY <1>3, <1>4, <1>5, SessionsKept DEF Shaped
<1>7. TasksOK'
  BY <1>1, <1>2 DEF TInv, TasksOK, Marked
<1>8. TypeOK'
  BY <1>2 DEF TInv, TypeOK
<1> QED
  BY <1>6, <1>7, <1>8 DEF TInv

LEMMA ExportTInv ==
  ASSUME TInv, NEW w \in Workers, EndExport(w) \/ \E present \in BOOLEAN : ExportOne(w, present)
  PROVE  TInv'
<1>1. work[w].op = "export"
  BY DEF EndExport, ExportOne
<1>2. PICK v : v = work[w] /\ IsExport(v) /\ Refers(v)
  BY <1>1, Facts, OpIs
<1>3. PICK j : j = v.of /\ j \in Exports /\ job[j] # NoRow
  BY <1>2 DEF IsExport, Refers
<1>4. PICK r \in JobRow : r = job[j] /\ r.progress <= r.total
  BY <1>3, JobIs
<1>5. r.progress \in Nat /\ r.total \in Nat /\ v.done \in Nat
  BY <1>2, <1>4 DEF JobRow, IsExport
<1>6. UNCHANGED <<uses, wish, campaign, recipient, proposal, row, got, tasks, begun, hitch,
                  wishes, decisions, faults>>
  BY DEF EndExport, ExportOne, count
<1>7. CASE EndExport(w)
  <2>1. PICK k : k = [r EXCEPT !.progress = r.total, !.status = "completed"]
    OBVIOUS
  <2>2. k \in JobRow /\ k.progress <= k.total
    <3>1. k \in JobRow
      BY <1>5, <2>1 DEF JobRow
    <3>2. k.progress = r.total /\ k.total = r.total
      BY <1>5, <2>1 DEF JobRow
    <3> QED
      BY <1>5, <3>1, <3>2
  <2>3. job' = [job EXCEPT ![j] = k]
    <3>1. job' = [job EXCEPT ![j].progress = r.total, ![j].status = "completed"]
      BY <1>2, <1>3, <1>4, <1>7 DEF EndExport
    <3> QED
      BY <1>3, <1>4, <2>1, <3>1, Facts
  <2>4. work' = [work EXCEPT ![w] = Idle]
    BY <1>7 DEF EndExport, Continue
  <2> QED
    BY <1>1, <1>2, <1>3, <1>6, <2>2, <2>3, <2>4, ExportStep
<1>8. ASSUME NEW present \in BOOLEAN, ExportOne(w, present)
      PROVE  TInv'
  <2>1. PICK n \in Nat : n = v.done + 1 /\ n <= r.total
    BY <1>2, <1>3, <1>4, <1>5, <1>8 DEF ExportOne, More
  <2>2. PICK k \in JobRow : k.progress <= k.total /\ job' = [job EXCEPT ![j] = k]
    <3>1. CASE present
      <4>1. PICK k : k = [r EXCEPT !.progress = n]
        OBVIOUS
      <4>2. k \in JobRow /\ k.progress <= k.total
        BY <1>5, <2>1, <4>1 DEF JobRow
      <4>3. job' = [job EXCEPT ![j].progress = n]
        BY <1>2, <1>3, <1>8, <2>1, <3>1 DEF ExportOne
      <4> QED
        BY <1>3, <1>4, <4>1, <4>2, <4>3, Facts
    <3>2. CASE ~present
      <4>1. job' = job
        BY <1>8, <3>2 DEF ExportOne
      <4> QED
        BY <1>3, <1>4, <4>1, Facts
    <3> QED
      BY <3>1, <3>2
  <2>3. PICK u : u = [v EXCEPT !.done = n]
    OBVIOUS
  <2>4. u = [op |-> "export", of |-> v.of, at |-> "next", done |-> n]
    BY <1>2, <2>3 DEF IsExport
  <2>5. IsExport(u) /\ u.of = j
    BY <1>3, <2>4 DEF IsExport
  <2>6. work' = [work EXCEPT ![w] = u]
    BY <1>2, <1>8, <2>1, <2>3 DEF ExportOne, Continue
  <2> QED
    BY <1>1, <1>2, <1>3, <1>6, <2>2, <2>5, <2>6, ExportStep
<1> QED
  BY <1>7, <1>8

\* Somebody who is free takes something up.
LEMMA StartKeepsSessions ==
  ASSUME TInv, NEW w \in Workers, NEW u, work' = [work EXCEPT ![w] = u], Shaped(u), Refers(u)',
         u.of \notin Proposals => \A q \in Workers : Busy(q) => work[q].of # u.of,
         \A q \in Workers \ {w} : \E v : v = work[q] /\ Refers(v)'
  PROVE  SessionsOK'
BY SessionsKept

LEMMA RunCampaignIs ==
  ASSUME TInv, NEW w \in Workers, NEW c, RunCampaign(w, c)
  PROVE  c \in Campaigns /\ c \in tasks /\ tasks' = tasks \ {c} /\ Restated(c, "sending")
         /\ Marked(c, "sent") = {} /\ Marked(c, "failed") = {}
<1>1. c \in Campaigns /\ c \in tasks /\ tasks' = tasks \ {c}
  BY DEF RunCampaign
<1>2. campaign[c] \in CampaignRow /\ Marked(c, "sent") = {} /\ Marked(c, "failed") = {}
  BY <1>1, Facts DEF TInv, TasksOK
<1>3. campaign' = [campaign EXCEPT ![c].status = "sending"]
  BY DEF RunCampaign
<1> QED
  BY <1>1, <1>2, <1>3, RestatedIs

LEMMA RunCampaignTInv ==
  ASSUME TInv, NEW w \in Workers, NEW c, RunCampaign(w, c)
  PROVE  TInv'
<1>1. c \in Campaigns /\ c \in tasks /\ tasks' = tasks \ {c} /\ tasks' \subseteq tasks
  BY RunCampaignIs
<1>2. PICK r \in CampaignRow, k \in CampaignRow :
        /\ r = campaign[c] /\ campaign' = [campaign EXCEPT ![c] = k] /\ k.status = "sending"
        /\ k.sent_count = r.sent_count /\ k.failed_count = r.failed_count
  BY RunCampaignIs DEF Restated
<1>3. Marked(c, "sent") = {} /\ Marked(c, "failed") = {}
  BY RunCampaignIs
<1>4. k \in CampaignRow /\ k.status = "sending"
  BY <1>2
<1>5. campaign' = [campaign EXCEPT ![c] = k]
  BY <1>2
<1>6. UNCHANGED <<uses, wish, recipient, proposal, job, row, got, begun, hitch, wishes, decisions,
                  faults>>
  BY DEF RunCampaign, count
<1>7. /\ campaign' \in [Campaigns -> CampaignRow \cup {NoRow}] /\ campaign'[c] = k /\ k # NoRow
      /\ \A d \in Campaigns : d # c => campaign'[d] = campaign[d]
  BY <1>1, <1>4, <1>5, Facts
<1>8. PICK T \in SUBSET Letters : T = {x \in Letters : recipient[c][x] # "none"}
  OBVIOUS
<1>9. T = Marked(c, "pending")
  <2>1. recipient[c] \in [Letters -> {"none", "pending", "sent", "failed"}]
    BY <1>1, Facts
  <2> QED
    BY <1>3, <1>8, <2>1 DEF Marked
<1>10. PICK u : u = Letter("campaign", c, T, r.channel) /\ IsDelivery(u) /\ u.op = "campaign"
                /\ u.of = c /\ u.todo = T
  BY <1>1, LetterIs
<1>11. work' = [work EXCEPT ![w] = u]
  BY <1>2, <1>8, <1>10 DEF RunCampaign, Continue
<1>12. Refers(u)'
  BY <1>1, <1>4, <1>6, <1>7, <1>9, <1>10 DEF Refers, Marked
<1>13. \A q \in Workers : work[q].op \in {"campaign", "export"} => work[q].of \notin tasks
  BY Facts DEF Refers
<1>14. \A q \in Workers : Busy(q) => work[q].of # c
  <2>1. SUFFICES ASSUME NEW q \in Workers, Busy(q) PROVE work[q].of # c
    OBVIOUS
  <2>2. work[q].op \in {"decide", "execute"} => work[q].of \in Proposals
    BY Facts, OpIs
  <2>3. work[q].op = "send" => work[q].of \in Sends
    BY Facts, OpIs
  <2>4. work[q].op \in {"none", "decide", "export", "campaign", "send", "execute"}
    BY Facts, OpIs
  <2> QED
    BY <1>1, <1>13, <2>1, <2>2, <2>3, <2>4, Disjoint DEF Busy
<1>15. \A q \in Workers \ {w} : \E n : n = work[q] /\ Refers(n)'
  <2> DEFINE W == Workers \ {w}
  <2>1. W \in SUBSET Workers /\ Grows
    BY <1>6 DEF Grows
  <2>2. \A q \in W : work[q].op = "campaign" =>
          campaign'[work[q].of] = campaign[work[q].of]
          /\ recipient'[work[q].of] = recipient[work[q].of]
    <3>1. \A q \in W : work[q].op = "campaign" => work[q].of \in Campaigns /\ work[q].of # c
      BY <1>14, OpIs, Facts DEF Busy
    <3> QED
      BY <1>6, <1>7, <3>1
  <2>3. \A q \in W : work[q].op \in {"campaign", "export"} => work[q].of \notin tasks'
    BY <1>1, <1>13
  <2> HIDE DEF W
  <2>4. \A q \in W : \E n : n = work[q] /\ Refers(n)'
    BY <2>1, <2>2, <2>3, OthersGoOn
  <2> QED
    BY <2>4 DEF W
<1>16. SessionsOK'
  BY <1>10, <1>11, <1>12, <1>14, <1>15, StartKeepsSessions DEF Shaped
<1>17. TasksOK'
  BY <1>1, <1>6, <1>7 DEF TInv, TasksOK, Marked
<1>18. TypeOK'
  BY <1>1, <1>6, <1>7 DEF TInv, TypeOK
<1> QED
  BY <1>16, <1>17, <1>18 DEF TInv

LEMMA RunExportTInv ==
  ASSUME TInv, NEW w \in Workers, NEW j, NEW n \in Nat, RunExport(w, j, n)
  PROVE  TInv'
<1>1. j \in Exports /\ j \in tasks /\ tasks' = tasks \ {j} /\ tasks' \subseteq tasks
  BY DEF RunExport
<1>2. PICK r \in JobRow : r = job[j] /\ r.progress = 0
  BY <1>1, Facts DEF TInv, TasksOK
<1>3. PICK k : k = [r EXCEPT !.status = "running", !.total = n]
  OBVIOUS
<1>4. k \in JobRow /\ k.progress <= k.total
  <2>1. k \in JobRow
    BY <1>2, <1>3 DEF JobRow
  <2>2. k.progress = 0 /\ k.total = n
    BY <1>2, <1>3 DEF JobRow
  <2> QED
    BY <2>1, <2>2
<1>5. job' = [job EXCEPT ![j] = k]
  <2>1. job' = [job EXCEPT ![j].status = "running", ![j].total = n]
    BY DEF RunExport
  <2> QED
    BY <1>1, <1>2, <1>3, <2>1, Facts
<1>6. UNCHANGED <<uses, wish, campaign, recipient, proposal, row, got, begun, hitch, wishes, decisions,
                  faults>>
  BY DEF RunExport, count
<1>7. /\ job' \in [Exports -> JobRow \cup {NoRow}] /\ job'[j] = k /\ k # NoRow
      /\ \A i \in Exports : i # j => job'[i] = job[i]
  BY <1>1, <1>4, <1>5, Facts
<1>8. PICK u : u = [op |-> "export", of |-> j, at |-> "next", done |-> 0]
  OBVIOUS
<1>9. IsExport(u) /\ u.of = j /\ u.op = "export"
  BY <1>1, <1>8 DEF IsExport
<1>10. work' = [work EXCEPT ![w] = u]
  BY <1>8 DEF RunExport, Continue
<1>11. Refers(u)'
  BY <1>1, <1>7, <1>9 DEF Refers
<1>12. \A q \in Workers : Busy(q) => work[q].of # j
  <2>1. SUFFICES ASSUME NEW q \in Workers, Busy(q) PROVE work[q].of # j
    OBVIOUS
  <2>2. work[q].op = "export" => work[q].of \notin tasks
    BY Facts DEF Refers
  <2>3. work[q].op \in {"decide", "execute"} => work[q].of \in Proposals
    BY Facts, OpIs
  <2>4. /\ work[q].op = "send" => work[q].of \in Sends
        /\ work[q].op = "campaign" => work[q].of \in Campaigns
    BY Facts, OpIs
  <2>5. work[q].op \in {"none", "decide", "export", "campaign", "send", "execute"}
    BY Facts, OpIs
  <2> QED
    BY <1>1, <2>1, <2>2, <2>3, <2>4, <2>5, Disjoint DEF Busy
<1>13. \A q \in Workers \ {w} : \E v : v = work[q] /\ Refers(v)'
  BY <1>1, <1>6, <1>7, OthersStay DEF Grows
<1>14. SessionsOK'
  BY <1>9, <1>10, <1>11, <1>12, <1>13, StartKeepsSessions DEF Shaped
<1>15. TasksOK'
  BY <1>1, <1>6, <1>7 DEF TInv, TasksOK, Marked
<1>16. TypeOK'
  BY <1>1, <1>4, <1>6, <1>7 DEF TInv, TypeOK
<1> QED
  BY <1>14, <1>15, <1>16 DEF TInv

LEMMA SendTInv ==
  ASSUME TInv, NEW w \in Workers, NEW m \in Sends, NEW x \in Letters, NEW channel,
         SendMessage(w, m, x, channel)
  PROVE  TInv'
<1>1. UNCHANGED <<uses, wish, campaign, recipient, proposal, job, row, got, tasks, hitch, wishes,
                  decisions, faults>> /\ begun' = begun \cup {m} /\ m \notin begun
  BY DEF SendMessage, store, count
<1>2. PICK u : u = Letter("send", m, {x}, channel) /\ IsDelivery(u) /\ u.op = "send" /\ u.of = m
  <2>1. {x} \in SUBSET Letters
    OBVIOUS
  <2> QED
    BY <2>1, LetterIs
<1>3. work' = [work EXCEPT ![w] = u]
  BY <1>2 DEF SendMessage, Continue
<1>4. Refers(u)'
  BY <1>1, <1>2 DEF Refers
<1>5. \A q \in Workers : Busy(q) => work[q].of # m
  <2>1. SUFFICES ASSUME NEW q \in Workers, Busy(q) PROVE work[q].of # m
    OBVIOUS
  <2>2. PICK v : v = work[q] /\ Shaped(v) /\ Refers(v) /\ v.op # "none"
    BY <2>1, Facts DEF Busy
  <2>3. v.op = "send" => v.of \in begun
    BY <2>2 DEF Refers
  <2>4. /\ v.op \in {"decide", "execute"} => v.of \in Proposals
        /\ v.op = "export" => v.of \in Exports
        /\ v.op = "campaign" => v.of \in Campaigns
        /\ v.op \in {"none", "decide", "export", "campaign", "send", "execute"}
    BY <2>2, OpIs
  <2> QED
    BY <1>1, <2>2, <2>3, <2>4, Disjoint
<1>6. \A q \in Workers \ {w} : \E v : v = work[q] /\ Refers(v)'
  BY <1>1, OthersStay DEF Grows
<1>7. SessionsOK'
  BY <1>2, <1>3, <1>4, <1>5, <1>6, StartKeepsSessions DEF Shaped
<1>8. TasksOK' /\ TypeOK'
  BY <1>1 DEF TInv, TasksOK, Marked, TypeOK
<1> QED
  BY <1>7, <1>8 DEF TInv

\* What others do with the proposal is noted.
LEMMA CrossesIs ==
  ASSUME TInv, NEW w, NEW p \in Proposals, hitch' = Crosses(w, p)
  PROVE  /\ hitch' \in [Owners \cup Exports -> SUBSET {"lost", "stopped", "crossed"}]
         /\ \A q \in Owners \cup Exports : q # p => hitch'[q] = hitch[q]
         /\ hitch'[p] = hitch[p] \/ hitch'[p] = hitch[p] \cup {"crossed"}
         /\ Others(w, p) # {} => "crossed" \in hitch'[p]
         /\ Others(w, p) = {} => hitch'[p] = hitch[p]
<1>1. p \in Owners
  BY Disjoint
<1>2. CASE Others(w, p) = {}
  BY <1>2, Facts DEF Crosses
<1>3. CASE Others(w, p) # {}
  <2>1. PICK h : h = hitch' /\ h = [hitch EXCEPT ![p] = @ \cup {"crossed"}]
    BY <1>3 DEF Crosses
  <2>2. /\ h \in [Owners \cup Exports -> SUBSET {"lost", "stopped", "crossed"}]
        /\ h[p] = hitch[p] \cup {"crossed"}
        /\ \A q \in Owners \cup Exports : q # p => h[q] = hitch[q]
    BY <1>1, <2>1, Facts
  <2> QED
    BY <1>3, <2>1, <2>2
<1> QED
  BY <1>2, <1>3

\* A thread takes up a decision or an execution.
LEMMA TakesUp ==
  ASSUME TInv, NEW w \in Workers, NEW p \in Proposals, proposal[p] # NoRow,
         NEW u, work' = [work EXCEPT ![w] = u], u.of = p,
         IsDecision(u) \/ (IsDelivery(u) /\ u.op = "execute" /\ proposal[p].approved),
         hitch' = Crosses(w, p), decisions' = decisions + 1, decisions < MaxDecisions,
         UNCHANGED <<uses, wish, campaign, recipient, proposal, job, row, got, tasks, begun,
                     wishes, faults>>
  PROVE  TInv'
<1>1. Refers(u)'
  <2>1. IsDecision(u) => u.op = "decide"
    BY DEF IsDecision
  <2> QED
    BY <2>1 DEF Refers
<1>2. \A q \in Workers \ {w} : \E v : v = work[q] /\ Refers(v)'
  BY OthersStay DEF Grows
<1>3. SessionsOK'
  BY <1>1, <1>2, StartKeepsSessions DEF Shaped
<1>4. decisions' \in 0..MaxDecisions
  <2>1. decisions \in 0..MaxDecisions /\ MaxDecisions \in Nat
    BY MessagingAssumption DEF TInv, TypeOK
  <2> QED
    BY <2>1
<1>5. TasksOK' /\ TypeOK'
  BY <1>4, CrossesIs DEF TInv, TasksOK, Marked, TypeOK
<1> QED
  BY <1>3, <1>5 DEF TInv

LEMMA DecideIs ==
  ASSUME NEW w \in Workers, NEW p \in Proposals, NEW to \in {"approved", "rejected", "expired"},
         Decide(w, p, to)
  PROVE  \E u : /\ IsDecision(u) /\ u.op = "decide" /\ u.of = p /\ u.status = to
                /\ work' = [work EXCEPT ![w] = u]
<1>1. PICK u : u = [op |-> "decide", of |-> p, status |-> to]
  OBVIOUS
<1> QED
  BY <1>1 DEF Decide, Continue, IsDecision

LEMMA DecideTInv ==
  ASSUME TInv, NEW w \in Workers, NEW p \in Proposals, proposal[p] # NoRow,
         NEW to \in {"approved", "rejected", "expired"}, Decide(w, p, to)
  PROVE  TInv'
<1>1. PICK u : IsDecision(u) /\ u.op = "decide" /\ u.of = p /\ u.status = to
               /\ work' = [work EXCEPT ![w] = u]
  BY DecideIs
<1>2. /\ hitch' = Crosses(w, p) /\ decisions' = decisions + 1 /\ decisions < MaxDecisions
      /\ UNCHANGED <<uses, wish, campaign, recipient, proposal, job, row, got, tasks, begun,
                     wishes, faults>>
  BY DEF Decide, store
<1> QED
  BY <1>1, <1>2, TakesUp

\* The decisions that are read, with what they will write
LEMMA DecisionReads ==
  ASSUME NEW w \in Workers, NEW p \in Proposals,
         ApproveRead(w, p) \/ RejectRead(w, p) \/ ListRead(w, p) \/ ExecuteLate(w, p)
  PROVE  \E to \in {"approved", "rejected", "expired"} :
           /\ Decide(w, p, to) /\ proposal[p] # NoRow
           /\ to # "expired" => proposal[p].status = "proposed"
           /\ proposal[p].status \in {"proposed", "approved"}
<1>1. CASE ApproveRead(w, p)
  BY <1>1 DEF ApproveRead, StillOpen
<1>2. CASE RejectRead(w, p)
  BY <1>2 DEF RejectRead, StillOpen
<1>3. CASE ListRead(w, p)
  BY <1>3 DEF ListRead, Expires
<1>4. CASE ExecuteLate(w, p)
  BY <1>4 DEF ExecuteLate, MayExecute
<1> QED
  BY <1>1, <1>2, <1>3, <1>4

\* What execute takes up
LEMMA ExecuteIs ==
  ASSUME TInv, NEW w \in Workers, NEW p \in Proposals, Execute(w, p)
  PROVE  \E u : /\ IsDelivery(u) /\ u.op = "execute" /\ u.of = p /\ u.at = "next" /\ u.sent = 0
                /\ u.todo = proposal[p].letters /\ u.status = "failed"
                /\ work' = [work EXCEPT ![w] = u] /\ u.failed = proposal[p].nobody
<1>1. PICK r \in ProposalRow : r = proposal[p]
  BY Facts DEF Execute
<1>2. r.letters \in SUBSET Letters /\ r.nobody \in Nat
  BY <1>1 DEF ProposalRow
<1>3. PICK u : u = [Letter("execute", p, r.letters, r.channel) EXCEPT !.failed = r.nobody]
  OBVIOUS
<1>4. u = [op |-> "execute", of |-> p, todo |-> r.letters, requested |-> r.channel,
           at |-> "next", letter |-> NoRow, channels |-> <<>>, status |-> "failed",
           sent |-> 0, failed |-> r.nobody]
  BY <1>3 DEF Letter
<1>5. /\ IsDelivery(u) /\ u.op = "execute" /\ u.of = p /\ u.at = "next" /\ u.sent = 0
      /\ u.todo = r.letters /\ u.status = "failed" /\ u.failed = r.nobody
  BY <1>2, <1>4 DEF IsDelivery
<1> QED
  BY <1>1, <1>3, <1>5 DEF Execute, Continue

LEMMA ExecuteTInv ==
  ASSUME TInv, DecisionsOK, NEW w \in Workers, NEW p \in Proposals, Execute(w, p)
  PROVE  TInv'
<1>1. PICK u : /\ IsDelivery(u) /\ u.op = "execute" /\ u.of = p /\ u.at = "next" /\ u.sent = 0
               /\ u.todo = proposal[p].letters /\ u.status = "failed"
               /\ work' = [work EXCEPT ![w] = u]
  BY ExecuteIs
<1>2. /\ hitch' = Crosses(w, p) /\ decisions' = decisions + 1 /\ decisions < MaxDecisions
      /\ UNCHANGED <<uses, wish, campaign, recipient, proposal, job, row, got, tasks, begun,
                     wishes, faults>>
  BY DEF Execute, store
<1>3. proposal[p] # NoRow /\ proposal[p].approved
  BY DEF Execute, MayExecute, DecisionsOK, Standing
<1> QED
  BY <1>1, <1>2, <1>3, TakesUp

\* What a decision writes
LEMMA CommitIs ==
  ASSUME TInv, NEW w \in Workers, DecideCommit(w)
  PROVE  \E v, r, k :
           /\ v = work[w] /\ IsDecision(v) /\ v.of \in Proposals /\ r = proposal[v.of]
           /\ r \in ProposalRow /\ k \in ProposalRow /\ k.status = v.status
           /\ k.approved = (r.approved \/ v.status = "approved")
           /\ k.rejected = (r.rejected \/ v.status = "rejected")
           /\ k.letters = r.letters /\ k.nobody = r.nobody
           /\ proposal' = [proposal EXCEPT ![v.of] = k]
           /\ work' = [work EXCEPT ![w] = Idle]
<1>1. PICK v : v = work[w] /\ IsDecision(v) /\ Refers(v)
  BY Facts, OpIs DEF DecideCommit
<1>2. PICK p \in Proposals : p = v.of /\ proposal[p] # NoRow
  BY <1>1 DEF Refers, IsDecision
<1>3. PICK r \in ProposalRow : r = proposal[p]
  BY <1>2, Facts
<1>4. PICK a \in BOOLEAN : a = (r.approved \/ v.status = "approved")
  OBVIOUS
<1>5. PICK b \in BOOLEAN : b = (r.rejected \/ v.status = "rejected")
  OBVIOUS
<1>6. PICK k : k = [r EXCEPT !.status = v.status, !.approved = a, !.rejected = b]
  OBVIOUS
<1>7. k \in ProposalRow /\ k.status = v.status /\ k.approved = a /\ k.rejected = b
      /\ k.letters = r.letters /\ k.nobody = r.nobody
  BY <1>1, <1>3, <1>6 DEF ProposalRow, IsDecision
<1>8. proposal' = [proposal EXCEPT ![p].status = v.status, ![p].approved = a, ![p].rejected = b]
  BY <1>1, <1>2, <1>3, <1>4, <1>5, Facts DEF DecideCommit
<1>9. proposal' = [proposal EXCEPT ![p] = k]
  BY <1>2, <1>3, <1>6, <1>8, Facts
<1>10. work' = [work EXCEPT ![w] = Idle]
  BY DEF DecideCommit, Continue
<1>11. /\ v = work[w] /\ IsDecision(v) /\ v.of \in Proposals /\ r = proposal[v.of]
       /\ r \in ProposalRow /\ k \in ProposalRow /\ k.status = v.status
       /\ k.approved = (r.approved \/ v.status = "approved")
       /\ k.rejected = (r.rejected \/ v.status = "rejected")
       /\ k.letters = r.letters /\ k.nobody = r.nobody
       /\ proposal' = [proposal EXCEPT ![v.of] = k]
       /\ work' = [work EXCEPT ![w] = Idle]
  BY <1>1, <1>2, <1>3, <1>4, <1>5, <1>7, <1>9, <1>10
<1> QED
  BY <1>11

LEMMA CommitTInv ==
  ASSUME TInv, NEW w \in Workers, DecideCommit(w)
  PROVE  TInv'
<1>1. PICK v, r, k :
           /\ v = work[w] /\ IsDecision(v) /\ v.of \in Proposals /\ r = proposal[v.of]
           /\ r \in ProposalRow /\ k \in ProposalRow /\ k.status = v.status
           /\ k.approved = (r.approved \/ v.status = "approved")
           /\ k.rejected = (r.rejected \/ v.status = "rejected")
           /\ proposal' = [proposal EXCEPT ![v.of] = k]
           /\ work' = [work EXCEPT ![w] = Idle]
  BY CommitIs
<1>2. /\ proposal' \in [Proposals -> ProposalRow \cup {NoRow}] /\ proposal'[v.of] = k /\ k # NoRow
      /\ \A q \in Proposals : q # v.of => proposal'[q] = proposal[q]
  BY <1>1, Facts
<1>3. UNCHANGED <<uses, wish, campaign, recipient, job, row, got, tasks, begun, hitch,
                  wishes, decisions, faults>>
  BY DEF DecideCommit, count
<1>4. Grows
  BY <1>1, <1>2, <1>3 DEF Grows
<1>5. SessionsOK'
  BY <1>1, <1>3, <1>4, OthersStay, EndKeepsSessions
<1>6. TasksOK' /\ TypeOK'
  BY <1>2, <1>3 DEF TInv, TasksOK, Marked, TypeOK
<1> QED
  BY <1>5, <1>6 DEF TInv

LEMMA FaultsBound ==
  ASSUME TInv, faults' = faults + 1, faults < MaxFaults
  PROVE  faults' \in 0..MaxFaults
<1>1. faults \in 0..MaxFaults /\ MaxFaults \in Nat
  BY MessagingAssumption DEF TInv, TypeOK
<1> QED
  BY <1>1

\* What a thread works on has a history.
LEMMA OfHas ==
  ASSUME NEW v, Shaped(v), v.op # "none"
  PROVE  v.of \in Owners \cup Exports
BY OpIs, Disjoint

\* A thread that is refused leaves its task failed, and what it refers to as it is.
LEMMA RefusedIs ==
  ASSUME TInv, NEW w \in Workers, Refused(w)
  PROVE  LET o == work[w].of IN
         /\ o \in Owners \cup Exports
         /\ campaign' \in [Campaigns -> CampaignRow \cup {NoRow}]
         /\ \A d \in Campaigns : d # o => campaign'[d] = campaign[d]
         /\ \A d \in Campaigns : campaign[d] = NoRow <=> campaign'[d] = NoRow
         /\ \A d \in Campaigns : campaign[d] # NoRow =>
              /\ campaign'[d].sent_count = campaign[d].sent_count
              /\ campaign'[d].failed_count = campaign[d].failed_count
              /\ campaign'[d] = campaign[d] \/ campaign'[d].status = "failed"
         /\ job' \in [Exports -> JobRow \cup {NoRow}]
         /\ \A j \in Exports : j # o => job'[j] = job[j]
         /\ \A j \in Exports : job[j] # NoRow => job'[j] # NoRow /\ job'[j].progress = job[j].progress
              /\ job'[j].total = job[j].total
         /\ \A j \in Exports : job[j] = NoRow => job'[j] = NoRow
         /\ hitch' \in [Owners \cup Exports -> SUBSET {"lost", "stopped", "crossed"}]
         /\ hitch'[o] = hitch[o] \cup {"stopped"}
         /\ \A q \in Owners \cup Exports : q # o => hitch'[q] = hitch[q]
<1>1. PICK v : v = work[w] /\ Shaped(v) /\ Refers(v) /\ v.op # "none"
  BY Facts DEF Refused, Busy
<1>2. PICK o \in Owners \cup Exports : o = v.of
  BY <1>1, OfHas
<1>3. /\ campaign' \in [Campaigns -> CampaignRow \cup {NoRow}]
      /\ \A d \in Campaigns : d # o => campaign'[d] = campaign[d]
      /\ \A d \in Campaigns : campaign[d] = NoRow <=> campaign'[d] = NoRow
      /\ \A d \in Campaigns : campaign[d] # NoRow =>
           /\ campaign'[d].sent_count = campaign[d].sent_count
           /\ campaign'[d].failed_count = campaign[d].failed_count
           /\ campaign'[d] = campaign[d] \/ campaign'[d].status = "failed"
  <2>1. CASE v.op = "campaign"
    <3>1. PICK r \in CampaignRow : r = campaign[o]
      BY <1>1, <1>2, <2>1, Facts, OpIs DEF Refers
    <3>2. PICK k : k = [r EXCEPT !.status = "failed"]
      OBVIOUS
    <3>3. k \in CampaignRow /\ k.sent_count = r.sent_count /\ k.failed_count = r.failed_count
          /\ k.status = "failed"
      BY <3>1, <3>2 DEF CampaignRow
    <3>4. campaign' = [campaign EXCEPT ![o] = k]
      BY <1>1, <1>2, <2>1, <3>1, <3>2 DEF Refused
    <3>5. o \in Campaigns
      BY <1>1, <1>2, <2>1, OpIs
    <3>6. campaign' \in [Campaigns -> CampaignRow \cup {NoRow}] /\ campaign'[o] = k
          /\ \A d \in Campaigns : d # o => campaign'[d] = campaign[d]
      BY <3>3, <3>4, <3>5, Facts
    <3>7. k # NoRow /\ r # NoRow
      BY <3>3, Facts
    <3> QED
      BY <3>1, <3>3, <3>5, <3>6, <3>7
  <2>2. CASE v.op # "campaign"
    <3>1. campaign' = campaign
      BY <1>1, <2>2 DEF Refused
    <3> QED
      BY <3>1, Facts
  <2> QED
    BY <2>1, <2>2
<1>4. /\ job' \in [Exports -> JobRow \cup {NoRow}]
      /\ \A j \in Exports : j # o => job'[j] = job[j]
      /\ \A j \in Exports : job[j] # NoRow =>
           job'[j] # NoRow /\ job'[j].progress = job[j].progress /\ job'[j].total = job[j].total
      /\ \A j \in Exports : job[j] = NoRow => job'[j] = NoRow
  <2>1. CASE v.op = "export"
    <3>1. PICK r \in JobRow : r = job[o]
      BY <1>1, <1>2, <2>1, Facts, OpIs DEF Refers
    <3>2. PICK k : k = [r EXCEPT !.status = "failed"]
      OBVIOUS
    <3>3. k \in JobRow /\ k.progress = r.progress /\ k.total = r.total
      BY <3>1, <3>2 DEF JobRow
    <3>4. job' = [job EXCEPT ![o] = k]
      BY <1>1, <1>2, <2>1, <3>1, <3>2 DEF Refused
    <3>5. o \in Exports
      BY <1>1, <1>2, <2>1, OpIs
    <3>6. job' \in [Exports -> JobRow \cup {NoRow}] /\ job'[o] = k
          /\ \A j \in Exports : j # o => job'[j] = job[j]
      BY <3>3, <3>4, <3>5, Facts
    <3>7. k # NoRow /\ r # NoRow
      BY <3>3, Facts
    <3> QED
      BY <3>1, <3>3, <3>5, <3>6, <3>7
  <2>2. CASE v.op # "export"
    <3>1. job' = job
      BY <1>1, <2>2 DEF Refused
    <3> QED
      BY <3>1, Facts
  <2> QED
    BY <2>1, <2>2
<1>5. /\ hitch' \in [Owners \cup Exports -> SUBSET {"lost", "stopped", "crossed"}]
      /\ hitch'[o] = hitch[o] \cup {"stopped"}
      /\ \A q \in Owners \cup Exports : q # o => hitch'[q] = hitch[q]
  <2>1. PICK h : h = hitch' /\ h = [hitch EXCEPT ![o] = @ \cup {"stopped"}]
    BY <1>1, <1>2 DEF Refused
  <2>2. /\ h \in [Owners \cup Exports -> SUBSET {"lost", "stopped", "crossed"}]
        /\ h[o] = hitch[o] \cup {"stopped"}
        /\ \A q \in Owners \cup Exports : q # o => h[q] = hitch[q]
    BY <2>1, Facts
  <2> QED
    BY <2>1, <2>2
<1> QED
  BY <1>1, <1>2, <1>3, <1>4, <1>5

LEMMA RefusedTInv ==
  ASSUME TInv, NEW w \in Workers, Refused(w)
  PROVE  TInv'
<1>1. PICK o : o = work[w].of
  OBVIOUS
<1>2. /\ campaign' \in [Campaigns -> CampaignRow \cup {NoRow}]
      /\ \A d \in Campaigns : d # o => campaign'[d] = campaign[d]
      /\ job' \in [Exports -> JobRow \cup {NoRow}]
      /\ \A j \in Exports : j # o => job'[j] = job[j]
      /\ \A j \in Exports : job[j] # NoRow => job'[j] # NoRow /\ job'[j].progress = job[j].progress
           /\ job'[j].total = job[j].total
      /\ \A j \in Exports : job[j] = NoRow => job'[j] = NoRow
      /\ hitch' \in [Owners \cup Exports -> SUBSET {"lost", "stopped", "crossed"}]
  BY <1>1, RefusedIs
<1>3. /\ UNCHANGED <<uses, wish, recipient, proposal, row, got, tasks, begun, wishes, decisions>>
      /\ work' = [work EXCEPT ![w] = Idle] /\ Busy(w)
      /\ faults' = faults + 1 /\ faults < MaxFaults
  BY DEF Refused, Continue
<1>4. \A q \in Workers \ {w} : work[q].op = "campaign" => work[q].of \in Campaigns /\ work[q].of # o
  <2>1. SUFFICES ASSUME NEW q \in Workers \ {w}, work[q].op = "campaign"
                 PROVE  work[q].of \in Campaigns /\ work[q].of # o
    OBVIOUS
  <2>2. work[q].of \in Campaigns /\ Busy(q)
    BY <2>1, OpIs, Facts DEF Busy
  <2> QED
    BY <1>1, <1>3, <2>2, Disjoint DEF TInv, SessionsOK
<1>5. \A q \in Workers \ {w} : \E n : n = work[q] /\ Refers(n)'
  <2> DEFINE W == Workers \ {w}
  <2>1. W \in SUBSET Workers /\ Grows
    BY <1>2, <1>3 DEF Grows
  <2>2. \A q \in W : work[q].op = "campaign" =>
          campaign'[work[q].of] = campaign[work[q].of]
          /\ recipient'[work[q].of] = recipient[work[q].of]
    BY <1>2, <1>3, <1>4
  <2>3. \A q \in W : work[q].op \in {"campaign", "export"} => work[q].of \notin tasks'
    BY <1>3, Facts DEF Refers
  <2> HIDE DEF W
  <2>4. \A q \in W : \E n : n = work[q] /\ Refers(n)'
    BY <2>1, <2>2, <2>3, OthersGoOn
  <2> QED
    BY <2>4 DEF W
<1>6. SessionsOK'
  BY <1>3, <1>5, EndKeepsSessions
<1>7. TasksOK'
  <2>1. \A c \in tasks : c \in Campaigns => c # o
    <3>1. SUFFICES ASSUME NEW c \in tasks, c \in Campaigns, c = o PROVE FALSE
      OBVIOUS
    <3>2. Shaped(work[w]) /\ Refers(work[w]) /\ work[w].op # "none"
      BY <1>3, Facts DEF Busy
    <3>3. work[w].op = "campaign"
      BY <1>1, <3>1, <3>2, OpIs, Disjoint
    <3> QED
      BY <1>1, <3>1, <3>2, <3>3 DEF Refers
  <2>2. \A j \in tasks : j \in Exports => job'[j] # NoRow /\ job'[j].progress = 0
    BY <1>2 DEF TInv, TasksOK
  <2>3. \A c \in tasks : c \in Campaigns => campaign'[c] = campaign[c]
    BY <1>2, <2>1
  <2> QED
    BY <1>3, <2>2, <2>3 DEF TInv, TasksOK, Marked
<1>8. faults' \in 0..MaxFaults
  BY <1>3, FaultsBound
<1>9. \A j \in Exports : job'[j] = NoRow \/ job'[j].progress <= job'[j].total
  BY <1>2 DEF TInv, TypeOK
<1>10. TypeOK'
  BY <1>2, <1>3, <1>8, <1>9 DEF TInv, TypeOK
<1> QED
  BY <1>6, <1>7, <1>10 DEF TInv

\* When the server stops, every owner whose work or task is interrupted keeps that it was.
LEMMA StopIs ==
  ASSUME TInv, Stop
  PROVE  /\ hitch' \in [Owners \cup Exports -> SUBSET {"lost", "stopped", "crossed"}]
         /\ \A o \in Owners \cup Exports : hitch[o] \subseteq hitch'[o]
              /\ ("stopped" \in hitch'[o] \/ hitch'[o] = hitch[o])
              /\ hitch'[o] \subseteq hitch[o] \cup {"stopped"}
         /\ \A w \in Workers : Busy(w) => "stopped" \in hitch'[work[w].of]
         /\ \A o \in tasks : "stopped" \in hitch'[o]
         /\ \A w \in Workers : work'[w] = Idle
         /\ DOMAIN work' = Workers /\ tasks' = {}
<1>1. DOMAIN hitch = Owners \cup Exports
  BY Facts
<1>2. PICK S : S = {o \in Owners \cup Exports :
                      o \in tasks \/ \E w \in Workers : Busy(w) /\ work[w].of = o}
  OBVIOUS
<1>3. hitch' = [o \in Owners \cup Exports |-> IF o \in S THEN hitch[o] \cup {"stopped"} ELSE hitch[o]]
  BY <1>1, <1>2 DEF Stop, Stopped
<1>4. \A o \in Owners \cup Exports : hitch[o] \in SUBSET {"lost", "stopped", "crossed"}
  BY Facts
<1>5. \A w \in Workers : Busy(w) => work[w].of \in S
  BY <1>2, Facts, OfHas DEF Busy
<1>6. tasks \subseteq S
  <2>1. tasks \subseteq Owners \cup Exports
    BY Disjoint DEF TInv, TypeOK
  <2> QED
    BY <1>2, <2>1
<1>7. \A w \in Workers : work'[w] = Idle
  BY DEF Stop
<1>8. DOMAIN work' = Workers /\ tasks' = {}
  BY DEF Stop
<1>9. \A o \in S : "stopped" \in hitch'[o]
  BY <1>2, <1>3
<1>10. hitch' \in [Owners \cup Exports -> SUBSET {"lost", "stopped", "crossed"}]
  BY <1>3, <1>4
<1>11. \A o \in Owners \cup Exports : hitch[o] \subseteq hitch'[o]
              /\ ("stopped" \in hitch'[o] \/ hitch'[o] = hitch[o])
              /\ hitch'[o] \subseteq hitch[o] \cup {"stopped"}
  BY <1>3
<1> QED
  BY <1>5, <1>6, <1>7, <1>8, <1>9, <1>10, <1>11

LEMMA StopTInv ==
  ASSUME TInv, Stop
  PROVE  TInv'
<1>1. UNCHANGED <<uses, wish, campaign, recipient, proposal, job, row, got, begun, wishes,
                  decisions>> /\ faults' = faults + 1 /\ faults < MaxFaults
  BY DEF Stop, store
<1>2. SessionsOK'
  BY StopIs, IdleIs DEF SessionsOK, Busy
<1>3. TasksOK'
  BY StopIs DEF TasksOK
<1>4. faults' \in 0..MaxFaults
  BY <1>1, FaultsBound
<1>5. TypeOK'
  BY <1>1, <1>4, StopIs DEF TInv, TypeOK
<1> QED
  BY <1>2, <1>3, <1>5 DEF TInv

\* A campaign is created for its letters, none of which has been sent.
Created(c) ==
  /\ campaign' \in [Campaigns -> CampaignRow \cup {NoRow}]
  /\ campaign[c] = NoRow /\ campaign'[c] # NoRow /\ campaign'[c].status = "queued"
  /\ campaign'[c].sent_count = 0 /\ campaign'[c].failed_count = 0
  /\ \A d \in Campaigns : d # c => campaign'[d] = campaign[d] /\ recipient'[d] = recipient[d]
  /\ recipient' \in [Campaigns -> [Letters -> {"none", "pending", "sent", "failed"}]]
  /\ \A x \in Letters : recipient'[c][x] \in {"pending", "none"}
  /\ tasks' \subseteq tasks \cup {c}
  /\ hitch' \in [Owners \cup Exports -> SUBSET {"lost", "stopped", "crossed"}]
  /\ \A o \in Owners \cup Exports : o # c => hitch'[o] = hitch[o]
  /\ c \in tasks' \/ hitch'[c] = {"stopped"}
  /\ hitch'[c] \in {hitch[c], {"stopped"}}

LEMMA CreateCampaignIs ==
  ASSUME TInv, NEW c \in Campaigns, NEW S \in SUBSET Students, NEW channel \in Requested,
         NEW kept, CreateCampaign(c, S, channel, kept)
  PROVE  Created(c)
<1>1. PICK k : k = [status |-> "queued", channel |-> channel, sent_count |-> 0, failed_count |-> 0]
  OBVIOUS
<1>2. k \in CampaignRow /\ k.status = "queued" /\ k.sent_count = 0 /\ k.failed_count = 0
  BY <1>1 DEF CampaignRow
<1>3. campaign[c] = NoRow /\ campaign' = [campaign EXCEPT ![c] = k]
  BY <1>1 DEF CreateCampaign
<1>4. PICK f : f = [x \in Letters |-> IF x \in Targets(S) THEN "pending" ELSE "none"]
  OBVIOUS
<1>5. f \in [Letters -> {"pending", "none"}]
  BY <1>4
<1>6. recipient' = [recipient EXCEPT ![c] = f]
  BY <1>4 DEF CreateCampaign
<1>7. c \in Owners
  BY Disjoint
<1>8. /\ tasks' = IF kept THEN tasks \cup {c} ELSE tasks
      /\ hitch' = IF kept THEN hitch ELSE [hitch EXCEPT ![c] = {"stopped"}]
  BY DEF CreateCampaign
<1>9. /\ hitch' \in [Owners \cup Exports -> SUBSET {"lost", "stopped", "crossed"}]
      /\ \A o \in Owners \cup Exports : o # c => hitch'[o] = hitch[o]
      /\ tasks' \subseteq tasks \cup {c}
      /\ c \in tasks' \/ hitch'[c] = {"stopped"}
      /\ hitch'[c] \in {hitch[c], {"stopped"}}
  BY <1>7, <1>8, Facts
<1> QED
  BY <1>2, <1>3, <1>5, <1>6, <1>9, Facts DEF Created

LEMMA CreateCampaignTInv ==
  ASSUME TInv, NEW c \in Campaigns, NEW S \in SUBSET Students, NEW channel \in Requested,
         NEW kept, CreateCampaign(c, S, channel, kept)
  PROVE  TInv'
<1>0. Created(c)
  BY CreateCampaignIs
<1>1. UNCHANGED <<uses, wish, proposal, job, row, got, begun, work, wishes, decisions>>
  BY DEF CreateCampaign
<1>2. \A q \in Workers : Shaped(work[q]) /\ Refers(work[q])
  BY Facts
<1>3. \A q \in Workers : work[q].op = "campaign" => work[q].of \in Campaigns /\ work[q].of # c
  BY <1>2, <1>0, OpIs DEF Created, Refers
<1>4. \A q \in Workers : work[q].op = "export" => work[q].of # c
  BY <1>2, OpIs, Disjoint
<1>5. \A q \in Workers : \E n : n = work[q] /\ Refers(n)'
  <2>1. Grows
    BY <1>1 DEF Grows
  <2>2. \A q \in Workers : work[q].op = "campaign" =>
          campaign'[work[q].of] = campaign[work[q].of]
          /\ recipient'[work[q].of] = recipient[work[q].of]
    BY <1>0, <1>3 DEF Created
  <2>3. \A q \in Workers : work[q].op \in {"campaign", "export"} => work[q].of \notin tasks'
    BY <1>0, <1>2, <1>3, <1>4 DEF Created, Refers
  <2> QED
    BY <2>1, <2>2, <2>3, OthersGoOn
<1>6. SessionsOK'
  <2>1. \A q \in Workers : Refers(work[q])'
    <3>1. SUFFICES ASSUME NEW q \in Workers PROVE Refers(work[q])'
      OBVIOUS
    <3>2. PICK n : n = work[q] /\ Refers(n)'
      BY <1>5
    <3> QED
      BY <1>1, <3>2 DEF Refers
  <2> QED
    BY <1>1, <2>1 DEF TInv, SessionsOK, Busy, IsDecision, IsExport, IsDelivery
<1>7. TasksOK'
  <2>1. c \notin Exports
    BY Disjoint
  <2>2. Marked(c, "sent")' = {} /\ Marked(c, "failed")' = {}
    BY <1>0 DEF Created, Marked
  <2>3. \A d \in Campaigns : d # c =>
          Marked(d, "sent")' = Marked(d, "sent") /\ Marked(d, "failed")' = Marked(d, "failed")
    BY <1>0 DEF Created, Marked
  <2> QED
    BY <1>0, <1>1, <2>1, <2>2, <2>3 DEF Created, TInv, TasksOK
<1>8. faults' \in 0..MaxFaults
  <2>1. faults' = faults \/ (faults' = faults + 1 /\ faults < MaxFaults)
    BY DEF CreateCampaign
  <2>2. faults \in 0..MaxFaults
    BY DEF TInv, TypeOK
  <2> QED
    BY <2>1, <2>2, FaultsBound
<1>9. TypeOK'
  <2>1. tasks' \subseteq Campaigns \cup Exports
    BY <1>0 DEF Created, TInv, TypeOK
  <2> QED
    BY <1>0, <1>1, <1>8, <2>1 DEF Created, TInv, TypeOK
<1> QED
  BY <1>6, <1>7, <1>9 DEF TInv

\* The letters of a proposal are letters, and those that nobody can get are counted.
LEMMA ProposedLetters ==
  ASSUME NEW P \in Payloads
  PROVE  P.letters \in SUBSET Letters /\ P.nobody \in Nat
<1>1. CASE P \in Communications
  <2>1. PICK G \in SUBSET Guardians : P = Payload(G \X {NoStudent}, 0)
    BY <1>1 DEF Communications
  <2> QED
    BY <2>1 DEF Letters, Payload
<1>2. CASE P \in Reminders
  <2>1. PICK I \in SUBSET Invoices : P \in RemindersOf(I)
    BY <1>2 DEF Reminders
  <2>2. PICK J, n : J = I \ Nobody(I) /\ n = Cardinality(Nobody(I))
    OBVIOUS
  <2>3. PICK payer \in [J -> Guardians] : P = Payload({<<payer[i], i>> : i \in J}, n)
    BY <2>1, <2>2 DEF RemindersOf
  <2>4. \A i \in J : payer[i] \in Guardians /\ i \in Students \cup Invoices \cup {NoStudent}
    BY <2>2, <2>3
  <2>5. {<<payer[i], i>> : i \in J} \subseteq Letters
    BY <2>4 DEF Letters
  <2>6. Nobody(I) \subseteq Invoices
    BY DEF Nobody
  <2>7. n \in Nat
    BY <2>2, <2>6, MessagingAssumption, FS_Subset, FS_CardinalityType
  <2> QED
    BY <2>3, <2>5, <2>7 DEF Payload
<1>3. CASE P \in Inside
  BY <1>3 DEF Inside, Payload
<1> QED
  BY <1>1, <1>2, <1>3 DEF Payloads

\* A step in which no thread and no campaign takes part
LEMMA AsideTInv ==
  ASSUME TInv, Grows, UNCHANGED <<campaign, recipient, work, got, row, hitch>>,
         tasks' \subseteq tasks \cup {j \in Exports : job[j] = NoRow},
         \A j \in tasks' \cap Exports : job'[j] # NoRow /\ job'[j].progress = 0,
         TypeOK'
  PROVE  TInv'
<1>1. \A q \in Workers : \E n : n = work[q] /\ Refers(n)'
  <2>1. \A q \in Workers : work[q].op \in {"campaign", "export"} => work[q].of \notin tasks'
    <3>1. SUFFICES ASSUME NEW q \in Workers, work[q].op \in {"campaign", "export"}
                   PROVE  work[q].of \notin tasks'
      OBVIOUS
    <3>2. work[q].of \notin tasks
      BY <3>1, Facts DEF Refers
    <3>3. work[q].op = "export" => job[work[q].of] # NoRow
      BY Facts DEF Refers
    <3>4. work[q].op = "campaign" => work[q].of \notin Exports
      BY Facts, OpIs, Disjoint
    <3> QED
      BY <3>1, <3>2, <3>3, <3>4
  <2> QED
    BY <2>1, OthersGoOn
<1>2. SessionsOK'
  <2>1. \A q \in Workers : Refers(work[q])'
    <3>1. SUFFICES ASSUME NEW q \in Workers PROVE Refers(work[q])'
      OBVIOUS
    <3>2. PICK n : n = work[q] /\ Refers(n)'
      BY <1>1
    <3> QED
      BY <3>2 DEF Refers
  <2> QED
    BY <2>1 DEF TInv, SessionsOK, Busy, IsDecision, IsExport, IsDelivery
<1>3. TasksOK'
  <2>1. \A c \in tasks' : c \in Campaigns => c \in tasks
    BY Disjoint
  <2> QED
    BY <2>1 DEF TInv, TasksOK, Marked
<1> QED
  BY <1>2, <1>3 DEF TInv

LEMMA QueueTInv ==
  ASSUME TInv, NEW j \in Exports, NEW n \in Nat, QueueExport(j, n)
  PROVE  TInv'
<1>1. PICK k : k = [status |-> "queued", progress |-> 0, total |-> n]
  OBVIOUS
<1>2. k \in JobRow /\ k.progress = 0 /\ k.total = n
  BY <1>1 DEF JobRow
<1>3. job[j] = NoRow /\ job' = [job EXCEPT ![j] = k] /\ tasks' = tasks \cup {j}
  BY <1>1 DEF QueueExport
<1>4. /\ job' \in [Exports -> JobRow \cup {NoRow}] /\ job'[j] = k /\ k # NoRow
      /\ \A i \in Exports : i # j => job'[i] = job[i]
  BY <1>2, <1>3, Facts
<1>5. UNCHANGED <<uses, wish, campaign, recipient, proposal, row, got, begun, work, hitch, wishes,
                  decisions, faults>>
  BY DEF QueueExport, count
<1>6. TypeOK'
  <2>1. k.progress <= k.total
    BY <1>2
  <2>2. \A i \in Exports : job[i] = NoRow \/ job[i].progress <= job[i].total
    BY DEF TInv, TypeOK
  <2>3. \A i \in Exports : job'[i] = NoRow \/ job'[i].progress <= job'[i].total
    <3>1. ASSUME NEW i \in Exports PROVE job'[i] = NoRow \/ job'[i].progress <= job'[i].total
      <4>1. CASE i = j
        BY <1>4, <2>1, <4>1
      <4>2. CASE i # j
        BY <1>4, <2>2, <4>2
      <4> QED
        BY <4>1, <4>2
    <3> QED
      BY <3>1
  <2> QED
    BY <1>3, <1>4, <1>5, <2>3 DEF TInv, TypeOK
<1>7. \A i \in tasks' \cap Exports : job'[i] # NoRow /\ job'[i].progress = 0
  BY <1>2, <1>3, <1>4 DEF TInv, TasksOK
<1> QED
  BY <1>3, <1>4, <1>5, <1>6, <1>7, AsideTInv DEF Grows

LEMMA ProposeTInv ==
  ASSUME TInv, NEW p \in Proposals,
         NEW P \in Payloads,
         NEW channel \in Requested, Propose(p, P, channel)
  PROVE  TInv'
<1>1. PICK k : k = Undecided(P, channel)
  OBVIOUS
<1>2. k \in ProposalRow
  BY <1>1, ProposedLetters DEF Undecided, ProposalRow
<1>3. proposal[p] = NoRow /\ proposal' = [proposal EXCEPT ![p] = k]
  BY <1>1 DEF Propose
<1>4. /\ proposal' \in [Proposals -> ProposalRow \cup {NoRow}]
      /\ \A q \in Proposals : q # p => proposal'[q] = proposal[q]
  BY <1>2, <1>3, Facts
<1>5. UNCHANGED <<uses, wish, campaign, recipient, job, row, got, tasks, begun, work, hitch,
                  wishes, decisions, faults>>
  BY DEF Propose, count
<1>6. TypeOK'
  BY <1>4, <1>5 DEF TInv, TypeOK
<1>7. \A i \in tasks' \cap Exports : job'[i] # NoRow /\ job'[i].progress = 0
  BY <1>5 DEF TInv, TasksOK
<1>8. Grows
  BY <1>3, <1>4, <1>5 DEF Grows
<1> QED
  BY <1>5, <1>6, <1>7, <1>8, AsideTInv

\* What changes of a proposal when it expires: nothing but that it is late
LEMMA ExpiryIs ==
  ASSUME TInv, NEW p \in Proposals, ExpiryPasses(p)
  PROVE  \E r \in ProposalRow, k \in ProposalRow :
           /\ r = proposal[p] /\ proposal' = [proposal EXCEPT ![p] = k]
           /\ k.status = r.status /\ k.approved = r.approved /\ k.rejected = r.rejected
           /\ k.sent = r.sent /\ k.letters = r.letters
           /\ k.failed = r.failed /\ k.nobody = r.nobody
<1>1. PICK r \in ProposalRow : r = proposal[p]
  BY Facts DEF ExpiryPasses
<1>2. PICK k : k = [r EXCEPT !.late = TRUE]
  OBVIOUS
<1>3. k \in ProposalRow
  BY <1>1, <1>2 DEF ProposalRow
<1>4. k.status = r.status /\ k.approved = r.approved /\ k.rejected = r.rejected
      /\ k.sent = r.sent /\ k.letters = r.letters
      /\ k.failed = r.failed /\ k.nobody = r.nobody
  BY <1>1, <1>2 DEF ProposalRow
<1>5. proposal' = [proposal EXCEPT ![p] = k]
  BY <1>1, <1>2 DEF ExpiryPasses
<1> QED
  BY <1>1, <1>3, <1>4, <1>5

LEMMA ExpiryTInv ==
  ASSUME TInv, NEW p \in Proposals, ExpiryPasses(p)
  PROVE  TInv'
<1>1. PICK r \in ProposalRow, k \in ProposalRow :
           /\ r = proposal[p] /\ proposal' = [proposal EXCEPT ![p] = k]
           /\ k.status = r.status /\ k.approved = r.approved /\ k.rejected = r.rejected
           /\ k.sent = r.sent /\ k.letters = r.letters
  BY ExpiryIs
<1>2. /\ proposal' \in [Proposals -> ProposalRow \cup {NoRow}] /\ proposal'[p] = k /\ k # NoRow
      /\ \A q \in Proposals : q # p => proposal'[q] = proposal[q]
  BY <1>1, Facts
<1>3. UNCHANGED <<uses, wish, campaign, recipient, job, row, got, tasks, begun, work, hitch,
                  wishes, decisions, faults>>
  BY DEF ExpiryPasses, count
<1>4. TypeOK'
  BY <1>2, <1>3 DEF TInv, TypeOK
<1>5. \A i \in tasks' \cap Exports : job'[i] # NoRow /\ job'[i].progress = 0
  BY <1>3 DEF TInv, TasksOK
<1>6. Grows
  BY <1>1, <1>2, <1>3 DEF Grows
<1> QED
  BY <1>3, <1>4, <1>5, <1>6, AsideTInv

LEMMA PreferencesTInv ==
  ASSUME TInv, NEW g \in Guardians, NEW W \in Wishes, UpdatePreferences(g, W)
  PROVE  TInv'
<1>1. UNCHANGED <<uses, campaign, recipient, proposal, job, row, got, tasks, begun, work, hitch,
                  decisions, faults>>
  BY DEF UpdatePreferences, store
<1>2. wishes' \in 0..MaxWishes
  <2>1. wishes' = wishes + 1 /\ wishes < MaxWishes /\ wishes \in 0..MaxWishes /\ MaxWishes \in Nat
    BY MessagingAssumption DEF TInv, TypeOK, UpdatePreferences
  <2> QED
    BY <2>1
<1>3. wish' \in [Guardians -> Wishes]
  BY DEF TInv, TypeOK, UpdatePreferences
<1>4. TypeOK'
  BY <1>1, <1>2, <1>3 DEF TInv, TypeOK
<1>5. \A i \in tasks' \cap Exports : job'[i] # NoRow /\ job'[i].progress = 0
  BY <1>1 DEF TInv, TasksOK
<1>6. Grows
  BY <1>1 DEF Grows
<1> QED
  BY <1>1, <1>4, <1>5, <1>6, AsideTInv

\* The steps of the program, one by one
LEMMA StepIs ==
  ASSUME Next
  PROVE  \/ \E g \in Guardians, W \in Wishes : UpdatePreferences(g, W)
         \/ \E c \in Campaigns, S \in SUBSET Students, channel \in Requested, kept \in BOOLEAN :
              CreateCampaign(c, S, channel, kept)
         \/ \E j \in Exports, n \in Nat : QueueExport(j, n)
         \/ \E p \in Proposals : ExpiryPasses(p)
         \/ \E p \in Proposals, P \in Payloads,
               channel \in Requested : Propose(p, P, channel)
         \/ \E w \in Workers, x \in Letters : CreateDelivery(w, x)
         \/ \E w \in Workers : TryPortal(w) \/ TryWhatsapp(w) \/ TryProvider(w) \/ AnswerLost(w)
         \/ \E w \in Workers : KeepDelivery(w)
         \/ \E w \in Workers : MarkRecipient(w)
         \/ \E w \in Workers : EndCampaign(w)
         \/ \E w \in Workers : EndSend(w)
         \/ \E w \in Workers : EndExecute(w)
         \/ \E w \in Workers : EndExport(w) \/ \E present \in BOOLEAN : ExportOne(w, present)
         \/ \E w \in Workers : DecideCommit(w)
         \/ \E w \in Workers : Refused(w)
         \/ \E w \in Workers, c \in tasks : RunCampaign(w, c)
         \/ \E w \in Workers, j \in Exports, n \in Nat : RunExport(w, j, n)
         \/ \E w \in Workers, m \in Sends, x \in Letters, channel \in Requested :
              SendMessage(w, m, x, channel)
         \/ \E w \in Workers, p \in Proposals :
              ApproveRead(w, p) \/ RejectRead(w, p) \/ ListRead(w, p) \/ ExecuteLate(w, p)
         \/ \E w \in Workers, p \in Proposals : Execute(w, p)
         \/ Stop
<1>1. 1..Cardinality(Students) \subseteq Nat /\ 0..Cardinality(Students) \subseteq Nat
  BY MessagingAssumption, FS_CardinalityType
<1>2. \A g \in Guardians : <<g, NoStudent>> \in Letters
  BY DEF Letters
<1>3. CASE \E g \in Guardians, W \in Wishes : UpdatePreferences(g, W)
  BY <1>3
<1>4. CASE \E c \in Campaigns, S \in SUBSET Students, channel \in Requested, kept \in BOOLEAN :
              CreateCampaign(c, S, channel, kept)
  BY <1>4
<1>5. CASE \E j \in Exports, n \in 1..Cardinality(Students) : QueueExport(j, n)
  BY <1>1, <1>5
<1>6. ASSUME NEW p \in Proposals,
             \/ ExpiryPasses(p)
             \/ \E P \in Payloads,
                   channel \in Requested : Propose(p, P, channel)
      PROVE  \/ \E q \in Proposals : ExpiryPasses(q)
             \/ \E q \in Proposals, P \in Payloads,
                   channel \in Requested : Propose(q, P, channel)
  BY <1>6
<1>7. ASSUME NEW w \in Workers, Delivery(w)
      PROVE  \/ \E x \in Letters : CreateDelivery(w, x)
             \/ TryPortal(w) \/ TryWhatsapp(w) \/ TryProvider(w)
             \/ KeepDelivery(w) \/ MarkRecipient(w)
             \/ EndCampaign(w) \/ EndSend(w) \/ EndExecute(w)
  BY <1>7 DEF Delivery
<1>8. ASSUME NEW w \in Workers, NEW o \in tasks, Begin(w, o)
      PROVE  RunCampaign(w, o) \/ (o \in Exports /\ \E n \in Nat : RunExport(w, o, n))
  BY <1>1, <1>8 DEF Begin
<1>9. ASSUME NEW w \in Workers,
             \E m \in Sends, g \in Guardians, channel \in Requested :
               SendMessage(w, m, <<g, NoStudent>>, channel)
      PROVE  \E m \in Sends, x \in Letters, channel \in Requested : SendMessage(w, m, x, channel)
  BY <1>2, <1>9
<1>10. ASSUME NEW w \in Workers, NEW p \in Proposals,
              \/ ApproveRead(w, p) \/ RejectRead(w, p) \/ ListRead(w, p)
              \/ Execute(w, p) \/ ExecuteLate(w, p)
       PROVE  \/ ApproveRead(w, p) \/ RejectRead(w, p) \/ ListRead(w, p) \/ ExecuteLate(w, p)
              \/ Execute(w, p)
  BY <1>10
<1>11. CASE \E w \in Workers :
       \/ Delivery(w) \/ Exporting(w) \/ DecideCommit(w)
       \/ AnswerLost(w) \/ Refused(w)
       \/ \E o \in tasks : Begin(w, o)
       \/ \E m \in Sends, g \in Guardians, channel \in Requested :
            SendMessage(w, m, <<g, NoStudent>>, channel)
       \/ \E p \in Proposals :
            \/ ApproveRead(w, p) \/ RejectRead(w, p) \/ ListRead(w, p)
            \/ Execute(w, p) \/ ExecuteLate(w, p)
  <2>1. PICK w \in Workers :
       \/ Delivery(w) \/ Exporting(w) \/ DecideCommit(w)
       \/ AnswerLost(w) \/ Refused(w)
       \/ \E o \in tasks : Begin(w, o)
       \/ \E m \in Sends, g \in Guardians, channel \in Requested :
            SendMessage(w, m, <<g, NoStudent>>, channel)
       \/ \E p \in Proposals :
            \/ ApproveRead(w, p) \/ RejectRead(w, p) \/ ListRead(w, p)
            \/ Execute(w, p) \/ ExecuteLate(w, p)
    BY <1>11
  <2>2. CASE Delivery(w)
    BY <1>7, <2>2
  <2>3. CASE Exporting(w)
    BY <2>3 DEF Exporting
  <2>4. CASE DecideCommit(w) \/ AnswerLost(w) \/ Refused(w)
    BY <2>4
  <2>5. CASE \E o \in tasks : Begin(w, o)
    BY <1>8, <2>5
  <2>6. CASE \E m \in Sends, g \in Guardians, channel \in Requested :
            SendMessage(w, m, <<g, NoStudent>>, channel)
    BY <1>9, <2>6
  <2>7. CASE \E p \in Proposals :
            \/ ApproveRead(w, p) \/ RejectRead(w, p) \/ ListRead(w, p)
            \/ Execute(w, p) \/ ExecuteLate(w, p)
    BY <1>10, <2>7
  <2> QED
    BY <2>1, <2>2, <2>3, <2>4, <2>5, <2>6, <2>7
<1> QED
  BY <1>3, <1>4, <1>5, <1>6, <1>11 DEF Next

LEMMA StepTInv ==
  ASSUME TInv, DecisionsOK, Next
  PROVE  TInv'
<1>1. ASSUME NEW w \in Workers, NEW p \in Proposals,
             ApproveRead(w, p) \/ RejectRead(w, p) \/ ListRead(w, p) \/ ExecuteLate(w, p)
      PROVE  TInv'
  <2>1. PICK to \in {"approved", "rejected", "expired"} :
           /\ Decide(w, p, to) /\ proposal[p] # NoRow
           /\ to # "expired" => proposal[p].status = "proposed"
           /\ proposal[p].status \in {"proposed", "approved"}
    BY <1>1, DecisionReads
  <2> QED
    BY <2>1, DecideTInv
<1> QED
  BY <1>1, StepIs, PreferencesTInv, CreateCampaignTInv, QueueTInv, ExpiryTInv, ProposeTInv,
     CreateTInv, TryTInv, KeepTInv, MarkTInv, EndCampaignTInv, EndSendTInv, EndExecuteTInv,
     ExportTInv, CommitTInv, RefusedTInv, RunCampaignTInv, RunExportTInv, SendTInv, ExecuteTInv,
     StopTInv

LEMMA StutterTInv ==
  ASSUME TInv, UNCHANGED vars
  PROVE  TInv'
BY DEF TInv, TypeOK, SessionsOK, TasksOK, vars, store, count, Marked, Refers, Busy,
       IsDecision, IsExport, IsDelivery

----------------------------------------------------------------------------------
(* Decisions                                                                      *)

\* A step that writes no proposal, and takes none up
LEMMA DecisionsKept ==
  ASSUME TInv, DecisionsOK, proposal' = proposal,
         \A p \in Proposals : "crossed" \in hitch[p] => "crossed" \in hitch'[p],
         \A p \in Proposals, x \in Letters :
           got'[p][x] = got[p][x] \/ (proposal[p] # NoRow /\ proposal[p].approved),
         \A w \in Workers :
           \/ work'[w].op = "none"
           \/ work'[w].of \notin Proposals
           \/ /\ work'[w].op = work[w].op /\ work'[w].of = work[w].of
              /\ work[w].op = "decide" => work'[w].status = work[w].status
  PROVE  DecisionsOK'
<1>1. SUFFICES ASSUME NEW p \in Proposals PROVE Standing(p)' /\ InTurn(p)'
  BY DEF DecisionsOK
<1>2. Standing(p) /\ InTurn(p)
  BY DEF DecisionsOK
<1>3. Standing(p)'
  BY <1>2 DEF Standing
<1>4. InTurn(p)'
  <2>1. SUFFICES ASSUME ("crossed" \notin hitch[p])' PROVE InTurn(p)'
    BY DEF InTurn
  <2>2. "crossed" \notin hitch[p]
    BY <2>1
  <2>3. \A w \in Workers : Busy(w)' /\ work'[w].of = p =>
          /\ Busy(w) /\ work[w].of = p /\ work'[w].op = work[w].op
          /\ work[w].op = "decide" => work'[w].status = work[w].status
    BY DEF Busy
  <2> QED
    BY <1>2, <2>2, <2>3 DEF InTurn
<1> QED
  BY <1>3, <1>4

\* A thread takes up a decision, or an execution, of p.
LEMMA DecisionsTakenUp ==
  ASSUME TInv, DecisionsOK, NEW w \in Workers, ~Busy(w), NEW p \in Proposals,
         NEW u, work' = [work EXCEPT ![w] = u], u.of = p, hitch' = Crosses(w, p),
         UNCHANGED <<proposal, got>>,
         u.op = "decide" /\ u.status \in {"approved", "rejected"} => proposal[p].status = "proposed",
         u.op = "decide" => proposal[p].status \in {"proposed", "approved"},
         u.op = "execute" => proposal[p].status = "approved"
  PROVE  DecisionsOK'
<1>1. SUFFICES ASSUME NEW q \in Proposals PROVE Standing(q)' /\ InTurn(q)'
  BY DEF DecisionsOK
<1>2. Standing(q) /\ InTurn(q)
  BY DEF DecisionsOK
<1>3. q \in Owners \cup Exports
  BY Disjoint
<1>4. /\ "crossed" \in hitch[q] => "crossed" \in hitch'[q]
      /\ "crossed" \notin hitch'[p] => Others(w, p) = {}
  BY <1>3, CrossesIs
<1>5. Standing(q)'
  BY <1>2, <1>4 DEF Standing
<1>6. DOMAIN work = Workers /\ work'[w] = u /\ \A v \in Workers : v # w => work'[v] = work[v]
  BY Facts
<1>7. CASE q # p
  <2>1. \A v \in Workers : Busy(v)' /\ work'[v].of = q => Busy(v) /\ work'[v] = work[v]
    BY <1>6, <1>7 DEF Busy
  <2> QED
    BY <1>2, <1>4, <1>5, <2>1 DEF InTurn
<1>8. CASE q = p
  <2>1. SUFFICES ASSUME "crossed" \notin hitch'[p] PROVE InTurn(p)'
    BY <1>5, <1>8 DEF InTurn
  <2>2. Others(w, p) = {}
    BY <1>4, <2>1
  <2>3. \A v \in Workers : Busy(v)' /\ work'[v].of = p => v = w
    BY <1>6, <2>2 DEF Others, Busy
  <2> QED
    BY <1>6, <2>3 DEF InTurn
<1> QED
  BY <1>7, <1>8

\* A thread writes a proposal, and is done with it.
LEMMA DecisionsWritten ==
  ASSUME TInv, DecisionsOK, NEW w \in Workers, Busy(w), NEW p \in Proposals, work[w].of = p,
         work' = [work EXCEPT ![w] = Idle], proposal[p] # NoRow,
         NEW k \in ProposalRow, proposal' = [proposal EXCEPT ![p] = k], UNCHANGED <<got, hitch>>,
         k.status \in {"approved", "executed"} => k.approved,
         proposal[p].approved => k.approved,
         "crossed" \notin hitch[p] => k.status # "proposed" /\ ~(k.approved /\ k.rejected)
  PROVE  DecisionsOK'
<1>1. SUFFICES ASSUME NEW q \in Proposals PROVE Standing(q)' /\ InTurn(q)'
  BY DEF DecisionsOK
<1>2. Standing(q) /\ InTurn(q)
  BY DEF DecisionsOK
<1>3. DOMAIN work = Workers /\ work'[w] = Idle /\ \A v \in Workers : v # w => work'[v] = work[v]
  BY Facts
<1>4. proposal'[p] = k /\ k # NoRow /\ \A r \in Proposals : r # p => proposal'[r] = proposal[r]
  BY Facts
<1>5. \A v \in Workers : Busy(v)' => Busy(v) /\ v # w /\ work'[v] = work[v]
  BY <1>3 DEF Busy, Idle
<1>6. CASE q # p
  <2>1. Standing(q)'
    BY <1>2, <1>4, <1>6 DEF Standing
  <2> QED
    BY <1>2, <1>4, <1>5, <1>6, <2>1 DEF InTurn
<1>7. CASE q = p
  <2>1. Standing(p)'
    BY <1>2, <1>4, <1>7 DEF Standing
  <2>2. InTurn(p)'
    <3>1. "crossed" \notin hitch[p] => \A v \in Workers : ~(Busy(v)' /\ work'[v].of = p)
      BY <1>2, <1>5, <1>7 DEF InTurn
    <3> QED
      BY <3>1 DEF InTurn
  <2> QED
    BY <1>7, <2>1, <2>2
<1> QED
  BY <1>6, <1>7

\* What a letter's arrival and a lost answer change
Gets(o, x) ==
  /\ got'[o][x] = got[o][x] + 1
  /\ \A q \in Owners, y \in Letters : q # o \/ y # x => got'[q][y] = got[q][y]
Loses(o) ==
  /\ hitch'[o] = hitch[o] \cup {"lost"}
  /\ \A q \in Owners \cup Exports : q # o => hitch'[q] = hitch[q]

LEMMA ArrivesIs ==
  ASSUME TInv, NEW w \in Workers, NEW v, v = work[w], IsDelivery(v), v.at # "next",
         got' = Arrives(w)
  PROVE  Gets(v.of, v.letter)
<1>1. v.of \in Owners /\ v.letter \in Letters
  BY OfIs
<1>2. PICK g : g = got' /\ g = [got EXCEPT ![v.of][v.letter] = @ + 1]
  BY DEF Arrives
<1>3. /\ g[v.of][v.letter] = got[v.of][v.letter] + 1
      /\ \A q \in Owners, y \in Letters : q # v.of \/ y # v.letter => g[q][y] = got[q][y]
  BY <1>1, <1>2, GotAdds
<1> QED
  BY <1>2, <1>3 DEF Gets

\* A try: the provider takes the message, the notification is written, nothing
\* happens, or the message leaves although no answer says so.
Accepts(v, u) == Gets(v.of, v.letter) /\ hitch' = hitch /\ u.at = "keep" /\ u.status = "sent"
Notifies(u) == UNCHANGED <<got, hitch>> /\ u.at = "keep" /\ u.status = "delivered"
Refuses(u) == UNCHANGED <<got, hitch>> /\ u.at \in {"try", "keep"} /\ u.status = "failed"
Misses(v, u) == Gets(v.of, v.letter) /\ Loses(v.of) /\ u.at \in {"try", "keep"} /\ u.status = "failed"

LEMMA TryDoes ==
  ASSUME TInv, NEW w \in Workers, TryPortal(w) \/ TryWhatsapp(w) \/ TryProvider(w) \/ AnswerLost(w)
  PROVE  \E v, u : Tries(w, v, u)
                   /\ (Accepts(v, u) \/ Notifies(u) \/ Refuses(u) \/ Misses(v, u))
<1>1. At(w, "try")
  BY DEF TryPortal, TryWhatsapp, TryProvider, AnswerLost
<1>2. CASE UNCHANGED <<got, hitch>> /\ Continue(w, Accepted(w, "delivered"))
  <2>1. PICK v, u : Tries(w, v, u) /\ u.at = "keep" /\ u.status = "delivered"
    BY <1>1, <1>2, TryIs
  <2> QED
    BY <1>2, <2>1 DEF Notifies
<1>3. CASE UNCHANGED <<got, hitch>> /\ Continue(w, NextChannel(w))
  <2>1. PICK v, u : Tries(w, v, u) /\ u.at \in {"try", "keep"} /\ u.status = "failed"
    BY <1>1, <1>3, TryIs
  <2> QED
    BY <1>3, <2>1 DEF Refuses
<1>4. CASE got' = Arrives(w) /\ hitch' = hitch /\ Continue(w, Accepted(w, "sent"))
  <2>1. PICK v, u : Tries(w, v, u) /\ u.at = "keep" /\ u.status = "sent"
    BY <1>1, <1>4, TryIs
  <2>2. Gets(v.of, v.letter)
    BY <1>4, <2>1, ArrivesIs DEF Tries
  <2> QED
    BY <1>4, <2>1, <2>2 DEF Accepts
<1>5. CASE AnswerLost(w)
  <2>1. got' = Arrives(w) /\ Continue(w, NextChannel(w))
    BY <1>5 DEF AnswerLost
  <2>2. PICK v, u : Tries(w, v, u) /\ u.at \in {"try", "keep"} /\ u.status = "failed"
    BY <1>1, <2>1, TryIs
  <2>3. Gets(v.of, v.letter)
    BY <2>1, <2>2, ArrivesIs DEF Tries
  <2>4. PICK h : h = hitch' /\ h = [hitch EXCEPT ![v.of] = @ \cup {"lost"}]
    BY <1>5, <2>2 DEF AnswerLost, Tries
  <2>5. v.of \in Owners \cup Exports
    BY <2>2, OfIs DEF Tries
  <2>6. /\ h[v.of] = hitch[v.of] \cup {"lost"}
        /\ \A q \in Owners \cup Exports : q # v.of => h[q] = hitch[q]
    BY <2>4, <2>5, Facts
  <2> QED
    BY <2>2, <2>3, <2>4, <2>6 DEF Misses, Loses
<1>6. TryPortal(w) => UNCHANGED <<got, hitch>> /\ (Continue(w, Accepted(w, "delivered"))
                                                  \/ Continue(w, NextChannel(w)))
  BY DEF TryPortal
<1>7. TryWhatsapp(w) => UNCHANGED <<got, hitch>> /\ Continue(w, NextChannel(w))
  BY DEF TryWhatsapp
<1>8. TryProvider(w) => hitch' = hitch /\ ((got' = Arrives(w) /\ Continue(w, Accepted(w, "sent")))
                                          \/ (got' = got /\ Continue(w, NextChannel(w))))
  BY DEF TryProvider
<1> QED
  BY <1>2, <1>3, <1>4, <1>5, <1>6, <1>7, <1>8

\* A delivery that is kept: the message that was sent before, or the notification now
Keeps(w, v, u) ==
  /\ v = work[w] /\ IsDelivery(v) /\ v.at = "keep"
  /\ work' = [work EXCEPT ![w] = u] /\ IsDelivery(u) /\ u.op = v.op /\ u.of = v.of
  /\ \/ /\ v.op = "campaign" /\ SameJob(v, u) /\ u.at = "mark"
        /\ u.letter = v.letter /\ u.status = v.status
     \/ /\ v.op # "campaign" /\ u.todo = v.todo \ {v.letter} /\ u.at = "next"
        /\ u.sent = v.sent + IF v.status = "failed" THEN 0 ELSE 1
  /\ IF v.status = "delivered" THEN Gets(v.of, v.letter) ELSE got' = got

LEMMA KeepDoes ==
  ASSUME TInv, NEW w \in Workers, KeepDelivery(w)
  PROVE  \E v, u : Keeps(w, v, u)
<1>1. PICK v, u : /\ v = work[w] /\ IsDelivery(v) /\ v.at = "keep"
                   /\ work' = [work EXCEPT ![w] = u] /\ IsDelivery(u)
                   /\ u.op = v.op /\ u.of = v.of
                   /\ \/ /\ v.op = "campaign" /\ SameJob(v, u) /\ u.at = "mark"
                         /\ u.letter = v.letter /\ u.status = v.status
                      \/ /\ v.op # "campaign" /\ u.todo = v.todo \ {v.letter} /\ u.at = "next"
                         /\ u.sent = v.sent + IF v.status = "failed" THEN 0 ELSE 1
  BY KeepIs
<1>2. v.status = "delivered" => Gets(v.of, v.letter)
  <2>1. v.status = "delivered" => got' = Arrives(w)
    BY <1>1 DEF KeepDelivery
  <2> QED
    BY <1>1, <2>1, ArrivesIs
<1>3. v.status # "delivered" => got' = got
  BY <1>1 DEF KeepDelivery
<1> QED
  BY <1>1, <1>2, <1>3 DEF Keeps

\* A step of a delivery
LEMMA DecisionsDelivered ==
  ASSUME TInv, DecisionsOK, NEW w \in Workers, NEW v, v = work[w], IsDelivery(v),
         NEW u, work' = [work EXCEPT ![w] = u], u = Idle \/ (u.op = v.op /\ u.of = v.of),
         proposal' = proposal, \A p \in Proposals : "crossed" \in hitch[p] => "crossed" \in hitch'[p],
         got' = got \/ Gets(v.of, v.letter)
  PROVE  DecisionsOK'
<1>1. Refers(v) /\ v.op \in {"campaign", "send", "execute"} /\ v.of \in Owners
  BY Facts, Disjoint DEF IsDelivery
<1>2. v.of \in Proposals => proposal[v.of] # NoRow /\ proposal[v.of].approved
  BY <1>1, Disjoint DEF Refers, IsDelivery
<1>3. \A p \in Proposals, x \in Letters :
        got'[p][x] = got[p][x] \/ (proposal[p] # NoRow /\ proposal[p].approved)
  BY <1>1, <1>2, Disjoint DEF Gets
<1>4. \A q \in Workers :
           \/ work'[q].op = "none"
           \/ work'[q].of \notin Proposals
           \/ /\ work'[q].op = work[q].op /\ work'[q].of = work[q].of
              /\ work[q].op = "decide" => work'[q].status = work[q].status
  <2>1. work'[w] = u /\ \A q \in Workers : q # w => work'[q] = work[q]
    BY Facts
  <2>2. u = Idle => u.op = "none"
    BY DEF Idle
  <2> QED
    BY <1>1, <2>1, <2>2
<1> QED
  BY <1>3, <1>4, DecisionsKept

LEMMA StepDecisions ==
  ASSUME TInv, DecisionsOK, Next
  PROVE  DecisionsOK'
<1>1. DOMAIN work = Workers /\ \A w \in Workers : Shaped(work[w]) /\ Refers(work[w])
  BY Facts
<1>2. ASSUME UNCHANGED <<proposal, work, got>>,
             \A p \in Proposals : "crossed" \in hitch[p] => "crossed" \in hitch'[p]
      PROVE  DecisionsOK'
  BY <1>2, DecisionsKept
<1>3. ASSUME UNCHANGED <<proposal, got>>, hitch' = hitch, NEW w \in Workers, NEW u,
             work' = [work EXCEPT ![w] = u], u.op = "none" \/ u.of \notin Proposals
      PROVE  DecisionsOK'
  <2>1. \A q \in Workers : q # w => work'[q] = work[q]
    BY <1>3
  <2>2. work'[w] = u
    BY <1>1, <1>3
  <2> QED
    BY <1>3, <2>1, <2>2, DecisionsKept
<1>4. ASSUME NEW g \in Guardians, NEW W \in Wishes, UpdatePreferences(g, W)
      PROVE  DecisionsOK'
  BY <1>2, <1>4 DEF UpdatePreferences, store
<1>5. ASSUME NEW c \in Campaigns, NEW S \in SUBSET Students, NEW channel \in Requested,
             NEW kept \in BOOLEAN, CreateCampaign(c, S, channel, kept)
      PROVE  DecisionsOK'
  <2>1. Created(c)
    BY <1>5, CreateCampaignIs
  <2>2. \A p \in Proposals : hitch'[p] = hitch[p]
    BY <2>1, Disjoint DEF Created
  <2> QED
    BY <1>2, <1>5, <2>2 DEF CreateCampaign
<1>6. ASSUME NEW j \in Exports, NEW n \in Nat, QueueExport(j, n)
      PROVE  DecisionsOK'
  BY <1>2, <1>6 DEF QueueExport
<1>7. ASSUME NEW p \in Proposals, ExpiryPasses(p)
      PROVE  DecisionsOK'
  <2>1. PICK r \in ProposalRow, k \in ProposalRow :
           /\ r = proposal[p] /\ proposal' = [proposal EXCEPT ![p] = k]
           /\ k.status = r.status /\ k.approved = r.approved /\ k.rejected = r.rejected
           /\ k.sent = r.sent /\ k.letters = r.letters
    BY <1>7, ExpiryIs
  <2>2. proposal'[p] = k /\ k # NoRow /\ r # NoRow
        /\ \A q \in Proposals : q # p => proposal'[q] = proposal[q]
    BY <2>1, Facts
  <2>3. UNCHANGED <<got, hitch, work>>
    BY <1>7 DEF ExpiryPasses
  <2>4. SUFFICES ASSUME NEW q \in Proposals PROVE Standing(q)' /\ InTurn(q)'
    BY DEF DecisionsOK
  <2>5. Standing(q) /\ InTurn(q)
    BY DEF DecisionsOK
  <2>6. CASE q = p
    <3>1. Standing(p)'
      BY <2>1, <2>2, <2>3, <2>5, <2>6 DEF Standing
    <3>2. InTurn(p)'
      BY <2>1, <2>2, <2>3, <2>5, <2>6 DEF InTurn, Busy
    <3> QED
      BY <2>6, <3>1, <3>2
  <2>7. CASE q # p
    BY <2>2, <2>3, <2>5, <2>7 DEF Standing, InTurn, Busy
  <2> QED
    BY <2>6, <2>7
<1>8. ASSUME NEW p \in Proposals,
             NEW P \in Payloads,
             NEW channel \in Requested, Propose(p, P, channel)
      PROVE  DecisionsOK'
  <2>1. PICK k : k = Undecided(P, channel)
    OBVIOUS
  <2>2. k \in ProposalRow /\ k.status = "proposed" /\ k.approved = FALSE /\ k.rejected = FALSE
    BY <2>1, ProposedLetters DEF Undecided, ProposalRow
  <2>3. proposal[p] = NoRow /\ proposal' = [proposal EXCEPT ![p] = k]
        /\ UNCHANGED <<got, hitch, work>>
    BY <1>8, <2>1 DEF Propose
  <2>4. proposal'[p] = k /\ k # NoRow /\ \A q \in Proposals : q # p => proposal'[q] = proposal[q]
    BY <2>2, <2>3, Facts
  <2>5. SUFFICES ASSUME NEW q \in Proposals PROVE Standing(q)' /\ InTurn(q)'
    BY DEF DecisionsOK
  <2>6. Standing(q) /\ InTurn(q)
    BY DEF DecisionsOK
  <2>7. CASE q = p
    <3>1. Standing(p)'
      BY <2>2, <2>3, <2>4, <2>6, <2>7, Facts DEF Standing
    <3>2. \A w \in Workers : ~(Busy(w) /\ work[w].of = p)
      <4>1. SUFFICES ASSUME NEW w \in Workers, Busy(w), work[w].of = p PROVE FALSE
        OBVIOUS
      <4>2. work[w].op \in {"decide", "execute"}
        BY <1>1, <4>1, OpIs, Disjoint DEF Busy
      <4> QED
        BY <1>1, <2>3, <4>1, <4>2 DEF Refers
    <3>3. InTurn(p)'
      BY <2>3, <3>2 DEF InTurn, Busy
    <3> QED
      BY <2>7, <3>1, <3>3
  <2>8. CASE q # p
    BY <2>3, <2>4, <2>6, <2>8 DEF Standing, InTurn, Busy
  <2> QED
    BY <2>7, <2>8
<1>9. ASSUME NEW w \in Workers, NEW x \in Letters, CreateDelivery(w, x)
      PROVE  DecisionsOK'
  <2>1. PICK v, u : /\ v = work[w] /\ IsDelivery(v) /\ v.at = "next" /\ v.status = "failed"
                   /\ work' = [work EXCEPT ![w] = u] /\ IsDelivery(u) /\ SameJob(v, u)
                   /\ x \in v.todo /\ u.letter = x /\ u.at \in {"try", "keep"}
                   /\ u.status = "failed"
    BY <1>9, CreateIs
  <2>2. UNCHANGED <<proposal, hitch, got>>
    BY <1>9 DEF CreateDelivery, store
  <2> QED
    BY <2>1, <2>2, DecisionsDelivered DEF SameJob
<1>10. ASSUME NEW w \in Workers,
              TryPortal(w) \/ TryWhatsapp(w) \/ TryProvider(w) \/ AnswerLost(w)
       PROVE  DecisionsOK'
  <2>1. PICK v, u : Tries(w, v, u)
                   /\ (Accepts(v, u) \/ Notifies(u) \/ Refuses(u) \/ Misses(v, u))
    BY <1>10, TryDoes
  <2>2. proposal' = proposal
    BY <1>10 DEF TryPortal, TryWhatsapp, TryProvider, AnswerLost, store
  <2>3. \A p \in Proposals : "crossed" \in hitch[p] => "crossed" \in hitch'[p]
    BY <2>1, Disjoint DEF Accepts, Notifies, Refuses, Misses, Loses
  <2>4. got' = got \/ Gets(v.of, v.letter)
    BY <2>1 DEF Accepts, Notifies, Refuses, Misses
  <2> QED
    BY <2>1, <2>2, <2>3, <2>4, DecisionsDelivered DEF Tries, SameJob
<1>11. ASSUME NEW w \in Workers, KeepDelivery(w)
       PROVE  DecisionsOK'
  <2>1. PICK v, u : Keeps(w, v, u)
    BY <1>11, KeepDoes
  <2>2. UNCHANGED <<proposal, hitch>>
    BY <1>11 DEF KeepDelivery
  <2> QED
    BY <2>1, <2>2, DecisionsDelivered DEF Keeps
<1>12. ASSUME NEW w \in Workers, MarkRecipient(w)
       PROVE  DecisionsOK'
  <2>1. IsDelivery(work[w]) /\ work[w].op = "campaign"
    BY <1>12, AtIs DEF MarkRecipient, IsDelivery
  <2>2. PICK u : u = Letter("campaign", work[w].of, Rest(w), work[w].requested)
    OBVIOUS
  <2>3. u.op = "campaign" /\ u.of = work[w].of
    BY <2>2 DEF Letter
  <2>4. UNCHANGED <<proposal, hitch, got>> /\ work' = [work EXCEPT ![w] = u]
    BY <1>12, <2>2 DEF MarkRecipient, Continue
  <2> QED
    BY <2>1, <2>3, <2>4, DecisionsDelivered
<1>13. Idle.op = "none"
  BY DEF Idle
<1>14. ASSUME NEW w \in Workers, EndCampaign(w) \/ EndSend(w)
       PROVE  DecisionsOK'
  BY <1>3, <1>13, <1>14 DEF EndCampaign, EndSend, Continue, store
<1>15. ASSUME NEW w \in Workers, EndExecute(w)
       PROVE  DecisionsOK'
  <2>1. PICK v : v = work[w] /\ IsDelivery(v) /\ Refers(v) /\ v.op = "execute" /\ Busy(w)
    BY <1>1, <1>15, OpIs DEF EndExecute, Busy
  <2>2. PICK p \in Proposals : p = v.of /\ proposal[p] # NoRow /\ proposal[p].approved
    BY <2>1 DEF Refers, IsDelivery
  <2>3. PICK r \in ProposalRow : r = proposal[p]
    BY <2>2, Facts
  <2>4. PICK k : k = [r EXCEPT !.status = "executed", !.sent = v.sent, !.failed = v.failed]
    OBVIOUS
  <2>5. k \in ProposalRow /\ k.approved = r.approved /\ k.status = "executed"
        /\ k.rejected = r.rejected
    BY <2>1, <2>4 DEF ProposalRow, IsDelivery
  <2>6. proposal' = [proposal EXCEPT ![p] = k] /\ UNCHANGED <<got, hitch>>
        /\ work' = [work EXCEPT ![w] = Idle]
    BY <1>15, <2>1, <2>2, <2>3, <2>4 DEF EndExecute, Continue
  <2>7. "crossed" \notin hitch[p] => ~(r.approved /\ r.rejected)
    BY <2>2, <2>3 DEF DecisionsOK, Standing
  <2> QED
    BY <2>1, <2>2, <2>3, <2>5, <2>6, <2>7, DecisionsWritten
<1>16. ASSUME NEW w \in Workers, EndExport(w) \/ \E present \in BOOLEAN : ExportOne(w, present)
       PROVE  DecisionsOK'
  <2>1. IsExport(work[w]) /\ work[w].of \notin Proposals
    BY <1>1, <1>16, OpIs, Disjoint DEF EndExport, ExportOne
  <2>2. \E u : work' = [work EXCEPT ![w] = u] /\ (u.op = "none" \/ u.of \notin Proposals)
    <3>1. CASE EndExport(w)
      BY <1>13, <3>1 DEF EndExport, Continue
    <3>2. CASE \E present \in BOOLEAN : ExportOne(w, present)
      <4>1. PICK u : u = [work[w] EXCEPT !.done = work[w].done + 1]
        OBVIOUS
      <4>2. u.of = work[w].of
        BY <2>1, <4>1 DEF IsExport
      <4>3. work' = [work EXCEPT ![w] = u]
        BY <3>2, <4>1 DEF ExportOne, Continue
      <4> QED
        BY <2>1, <4>2, <4>3
    <3> QED
      BY <1>16, <3>1, <3>2
  <2>3. UNCHANGED <<proposal, got, hitch>>
    BY <1>16 DEF EndExport, ExportOne
  <2> QED
    BY <1>3, <2>2, <2>3
<1>17. ASSUME NEW w \in Workers, DecideCommit(w)
       PROVE  DecisionsOK'
  <2>1. PICK v, r, k :
           /\ v = work[w] /\ IsDecision(v) /\ v.of \in Proposals /\ r = proposal[v.of]
           /\ r \in ProposalRow /\ k \in ProposalRow /\ k.status = v.status
           /\ k.approved = (r.approved \/ v.status = "approved")
           /\ k.rejected = (r.rejected \/ v.status = "rejected")
           /\ proposal' = [proposal EXCEPT ![v.of] = k]
           /\ work' = [work EXCEPT ![w] = Idle]
    BY <1>17, CommitIs
  <2>2. UNCHANGED <<got, hitch>> /\ Busy(w) /\ v.op = "decide"
    BY <1>17, <2>1 DEF DecideCommit, Busy
  <2>3. r # NoRow
    BY <2>1, Facts
  <2>4. "crossed" \notin hitch[v.of] =>
          /\ ~(r.approved /\ r.rejected)
          /\ v.status \in {"approved", "rejected"} => ~r.approved /\ ~r.rejected
    <3>1. Standing(v.of) /\ InTurn(v.of)
      BY <2>1 DEF DecisionsOK
    <3> QED
      BY <2>1, <2>2, <2>3, <3>1 DEF Standing, InTurn
  <2>5. "crossed" \notin hitch[v.of] => k.status # "proposed" /\ ~(k.approved /\ k.rejected)
    BY <2>1, <2>4 DEF IsDecision
  <2>6. k.status \in {"approved", "executed"} => k.approved
    BY <2>1 DEF IsDecision
  <2> QED
    BY <2>1, <2>2, <2>3, <2>5, <2>6, DecisionsWritten
<1>18. ASSUME NEW w \in Workers, Refused(w)
       PROVE  DecisionsOK'
  <2>1. \A q \in Owners \cup Exports : hitch[q] \subseteq hitch'[q]
    BY <1>18, RefusedIs
  <2>2. \A p \in Proposals : "crossed" \in hitch[p] => "crossed" \in hitch'[p]
    BY <2>1, Disjoint
  <2>3. UNCHANGED <<proposal, got>> /\ work' = [work EXCEPT ![w] = Idle]
    BY <1>18 DEF Refused, Continue
  <2>4. work'[w] = Idle /\ \A q \in Workers : q # w => work'[q] = work[q]
    BY <1>1, <2>3
  <2> QED
    BY <1>13, <2>2, <2>3, <2>4, DecisionsKept
<1>19. ASSUME NEW w \in Workers, NEW c \in tasks, RunCampaign(w, c)
       PROVE  DecisionsOK'
  <2>1. PICK u : u = Letter("campaign", c, {x \in Letters : recipient[c][x] # "none"},
                            campaign[c].channel)
    OBVIOUS
  <2>2. u.of = c /\ c \in Campaigns
    BY <1>19, <2>1 DEF Letter, RunCampaign
  <2>3. UNCHANGED <<proposal, got, hitch>> /\ work' = [work EXCEPT ![w] = u]
    BY <1>19, <2>1 DEF RunCampaign, Continue
  <2> QED
    BY <1>3, <2>2, <2>3, Disjoint
<1>20. ASSUME NEW w \in Workers, NEW j \in Exports, NEW n \in Nat, RunExport(w, j, n)
       PROVE  DecisionsOK'
  <2>1. PICK u : u = [op |-> "export", of |-> j, at |-> "next", done |-> 0]
    OBVIOUS
  <2>2. UNCHANGED <<proposal, got, hitch>> /\ work' = [work EXCEPT ![w] = u] /\ u.of = j
    BY <1>20, <2>1 DEF RunExport, Continue
  <2> QED
    BY <1>3, <2>2, Disjoint
<1>21. ASSUME NEW w \in Workers, NEW m \in Sends, NEW x \in Letters, NEW channel \in Requested,
              SendMessage(w, m, x, channel)
       PROVE  DecisionsOK'
  <2>1. PICK u : u = Letter("send", m, {x}, channel)
    OBVIOUS
  <2>2. UNCHANGED <<proposal, got, hitch>> /\ work' = [work EXCEPT ![w] = u] /\ u.of = m
    BY <1>21, <2>1 DEF SendMessage, Continue, Letter, store
  <2> QED
    BY <1>3, <2>2, Disjoint
<1>22. ASSUME NEW w \in Workers, NEW p \in Proposals,
              ApproveRead(w, p) \/ RejectRead(w, p) \/ ListRead(w, p) \/ ExecuteLate(w, p)
       PROVE  DecisionsOK'
  <2>1. PICK to \in {"approved", "rejected", "expired"} :
           /\ Decide(w, p, to) /\ proposal[p] # NoRow
           /\ to # "expired" => proposal[p].status = "proposed"
           /\ proposal[p].status \in {"proposed", "approved"}
    BY <1>22, DecisionReads
  <2>2. PICK u : /\ IsDecision(u) /\ u.op = "decide" /\ u.of = p /\ u.status = to
                 /\ work' = [work EXCEPT ![w] = u]
    BY <2>1, DecideIs
  <2>3. hitch' = Crosses(w, p) /\ UNCHANGED <<proposal, got>> /\ ~Busy(w)
    BY <2>1 DEF Decide, store
  <2> QED
    BY <2>1, <2>2, <2>3, DecisionsTakenUp
<1>23. ASSUME NEW w \in Workers, NEW p \in Proposals, Execute(w, p)
       PROVE  DecisionsOK'
  <2>1. PICK u : /\ IsDelivery(u) /\ u.op = "execute" /\ u.of = p /\ u.at = "next" /\ u.sent = 0
                 /\ u.todo = proposal[p].letters /\ u.status = "failed"
                 /\ work' = [work EXCEPT ![w] = u]
    BY <1>23, ExecuteIs
  <2>2. hitch' = Crosses(w, p) /\ UNCHANGED <<proposal, got>> /\ ~Busy(w)
        /\ proposal[p].status = "approved"
    BY <1>23 DEF Execute, MayExecute, store
  <2> QED
    BY <2>1, <2>2, DecisionsTakenUp
<1>24. ASSUME Stop
       PROVE  DecisionsOK'
  <2>1. \A p \in Proposals : "crossed" \in hitch[p] => "crossed" \in hitch'[p]
    BY <1>24, StopIs, Disjoint
  <2>2. \A w \in Workers : work'[w].op = "none"
    BY <1>13, <1>24, StopIs
  <2>3. UNCHANGED <<proposal, got>>
    BY <1>24 DEF Stop, store
  <2> QED
    BY <2>1, <2>2, <2>3, DecisionsKept
<1> QED
  BY <1>4, <1>5, <1>6, <1>7, <1>8, <1>9, <1>10, <1>11, <1>12, <1>14, <1>15, <1>16, <1>17, <1>18,
     <1>19, <1>20, <1>21, <1>22, <1>23, <1>24, StepIs

----------------------------------------------------------------------------------
(* What arrived, and what is counted                                              *)

\* The thread has sent nothing that it has not kept.
Quiet(v) == v.op \in {"campaign", "send", "execute"} /\ v.at = "keep" => v.status # "sent"

LEMMA OwingIsFinite ==
  ASSUME NEW o, NEW x
  PROVE  IsFiniteSet(Owing(o, x)) /\ Cardinality(Owing(o, x)) \in Nat
<1>1. Owing(o, x) \subseteq Workers
  BY DEF Owing
<1> QED
  BY <1>1, MessagingAssumption, FS_Subset, FS_CardinalityType

LEMMA OwingKept ==
  ASSUME TInv, NEW w \in Workers, NEW u, work' = [work EXCEPT ![w] = u], Quiet(work[w]), Quiet(u)
  PROVE  \A o, x : Owing(o, x)' = Owing(o, x)
<1>1. work'[w] = u /\ \A q \in Workers : q # w => work'[q] = work[q]
  BY Facts
<1> QED
  BY <1>1 DEF Owing, Owes, Quiet

LEMMA BalancedKept ==
  ASSUME NEW o, NEW x, Balanced(o, x), got'[o][x] = got[o][x], row'[o][x] = row[o][x],
         Owing(o, x)' = Owing(o, x),
         hitch'[o] \cap {"lost", "stopped"} = {} => hitch[o] \cap {"lost", "stopped"} = {}
  PROVE  Balanced(o, x)'
BY DEF Balanced

\* A step in which nothing arrives and nothing is counted
LEMMA CountsKept ==
  ASSUME CountsOK, UNCHANGED <<got, row>>, \A o, x : Owing(o, x)' = Owing(o, x),
         \A o \in Owners :
           hitch'[o] \cap {"lost", "stopped"} = {} => hitch[o] \cap {"lost", "stopped"} = {}
  PROVE  CountsOK'
BY BalancedKept DEF CountsOK

\* The arithmetic of a letter
LEMMA NumbersAre ==
  ASSUME TInv, NEW o \in Owners, NEW x \in Letters
  PROVE  got[o][x] \in Nat /\ row[o][x].sent \in Nat /\ Cardinality(Owing(o, x)) \in Nat
<1>1. got[o][x] \in Nat
  BY Facts
<1>2. row[o][x] \in [sent : Nat, failed : Nat]
  BY Facts
<1>3. row[o][x].sent \in Nat
  BY <1>2
<1> QED
  BY <1>1, <1>3, OwingIsFinite

\* Another letter is owed as it was.
LEMMA OthersOwe ==
  ASSUME TInv, NEW w \in Workers, NEW u, work' = [work EXCEPT ![w] = u], IsDelivery(work[w]),
         IsDelivery(u), u.of = work[w].of, u.at = "keep" => u.letter = work[w].letter,
         NEW o, NEW x, o # work[w].of \/ x # work[w].letter
  PROVE  Owing(o, x)' = Owing(o, x)
<1>1. work'[w] = u /\ \A q \in Workers : q # w => work'[q] = work[q]
  BY Facts
<1> QED
  BY <1>1 DEF Owing, Owes

LEMMA TryCounts ==
  ASSUME TInv, CountsOK, NEW w \in Workers, NEW v, NEW u, Tries(w, v, u), row' = row,
         Accepts(v, u) \/ Notifies(u) \/ Refuses(u) \/ Misses(v, u)
  PROVE  CountsOK'
<1>1. v = work[w] /\ IsDelivery(v) /\ v.at = "try" /\ work' = [work EXCEPT ![w] = u]
      /\ IsDelivery(u) /\ u.of = v.of /\ u.op = v.op /\ u.letter = v.letter
  BY DEF Tries, SameJob
<1>2. PICK p, y : p = v.of /\ y = v.letter /\ p \in Owners /\ y \in Letters
  BY <1>1, OfIs
<1>3. work'[w] = u /\ \A q \in Workers : q # w => work'[q] = work[q]
  BY <1>1, Facts
<1>4. CASE Notifies(u) \/ Refuses(u)
  <2>1. \A o, x : Owing(o, x)' = Owing(o, x)
    BY <1>1, <1>4, OwingKept DEF Notifies, Refuses, Quiet
  <2> QED
    BY <1>4, <2>1, CountsKept DEF Notifies, Refuses
<1>5. ASSUME NEW o \in Owners, NEW x \in Letters, o # p \/ x # y,
             Gets(v.of, v.letter), hitch' = hitch \/ Loses(v.of)
      PROVE  Balanced(o, x)'
  <2>1. Owing(o, x)' = Owing(o, x)
    BY <1>1, <1>2, <1>5, OthersOwe
  <2>2. got'[o][x] = got[o][x]
    BY <1>2, <1>5 DEF Gets
  <2>3. hitch'[o] \cap {"lost", "stopped"} = {} => hitch[o] \cap {"lost", "stopped"} = {}
    BY <1>2, <1>5 DEF Loses
  <2> QED
    BY <2>1, <2>2, <2>3, BalancedKept DEF CountsOK
<1>6. Balanced(p, y) /\ got[p][y] \in Nat /\ row[p][y].sent \in Nat
      /\ Cardinality(Owing(p, y)) \in Nat
  BY <1>2, NumbersAre DEF CountsOK
<1>7. CASE Accepts(v, u)
  <2>1. Owing(p, y)' = Owing(p, y) \cup {w} /\ w \notin Owing(p, y)
    BY <1>1, <1>2, <1>3, <1>7 DEF Owing, Owes, Accepts, IsDelivery
  <2>2. Cardinality(Owing(p, y)') = Cardinality(Owing(p, y)) + 1
    BY <2>1, OwingIsFinite, FS_AddElement
  <2>3. got'[p][y] = got[p][y] + 1 /\ hitch' = hitch
    BY <1>2, <1>7 DEF Accepts, Gets
  <2>4. Balanced(p, y)'
    BY <1>6, <2>2, <2>3 DEF Balanced
  <2> QED
    BY <1>2, <1>5, <1>7, <2>4 DEF CountsOK, Accepts
<1>8. CASE Misses(v, u)
  <2>1. Owing(p, y)' = Owing(p, y)
    BY <1>1, <1>8, OwingKept DEF Misses, Quiet
  <2>2. got'[p][y] = got[p][y] + 1 /\ "lost" \in hitch'[p]
    BY <1>2, <1>8 DEF Misses, Gets, Loses
  <2>3. Balanced(p, y)'
    BY <1>6, <2>1, <2>2 DEF Balanced
  <2> QED
    BY <1>2, <1>5, <1>8, <2>3 DEF CountsOK, Misses
<1> QED
  BY <1>4, <1>7, <1>8

LEMMA KeepCounts ==
  ASSUME TInv, CountsOK, NEW w \in Workers, KeepDelivery(w)
  PROVE  CountsOK'
<1>1. PICK v, u : Keeps(w, v, u)
  BY KeepDoes
<1>2. v = work[w] /\ IsDelivery(v) /\ v.at = "keep" /\ work' = [work EXCEPT ![w] = u]
      /\ IsDelivery(u) /\ u.of = v.of /\ u.at # "keep"
  BY <1>1 DEF Keeps
<1>3. PICK p, y : p = v.of /\ y = v.letter /\ p \in Owners /\ y \in Letters
  BY <1>2, OfIs
<1>4. work'[w] = u /\ \A q \in Workers : q # w => work'[q] = work[q]
  BY <1>2, Facts
<1>5. hitch' = hitch
  BY DEF KeepDelivery
<1>6. /\ row'[p][y].sent = row[p][y].sent + IF v.status = "failed" THEN 0 ELSE 1
      /\ \A q \in Owners, z \in Letters : q # p \/ z # y => row'[q][z] = row[q][z]
  BY <1>2, <1>3, RowAdds
<1>7. ASSUME NEW o \in Owners, NEW x \in Letters, o # p \/ x # y
      PROVE  Balanced(o, x)'
  <2>1. Owing(o, x)' = Owing(o, x)
    BY <1>2, <1>3, <1>7, OthersOwe
  <2>2. got'[o][x] = got[o][x]
    BY <1>1, <1>3, <1>7 DEF Keeps, Gets
  <2> QED
    BY <1>5, <1>6, <1>7, <2>1, <2>2, BalancedKept DEF CountsOK
<1>8. Balanced(p, y) /\ got[p][y] \in Nat /\ row[p][y].sent \in Nat
      /\ Cardinality(Owing(p, y)) \in Nat
  BY <1>3, NumbersAre DEF CountsOK
<1>9. CASE v.status = "sent"
  <2>1. Owing(p, y)' = Owing(p, y) \ {w} /\ w \in Owing(p, y)
    BY <1>2, <1>3, <1>4, <1>9 DEF Owing, Owes, IsDelivery
  <2>2. Cardinality(Owing(p, y)') = Cardinality(Owing(p, y)) - 1
    BY <2>1, OwingIsFinite, FS_RemoveElement
  <2>3. got' = got /\ row'[p][y].sent = row[p][y].sent + 1
    BY <1>1, <1>6, <1>8, <1>9 DEF Keeps
  <2>4. Balanced(p, y)'
    BY <1>5, <1>8, <2>2, <2>3 DEF Balanced
  <2> QED
    BY <1>7, <2>4 DEF CountsOK
<1>10. CASE v.status # "sent"
  <2>1. Owing(p, y)' = Owing(p, y)
    BY <1>2, <1>10, OwingKept DEF Quiet
  <2>2. v.status \in {"failed", "delivered"}
    BY <1>2, <1>10 DEF IsDelivery
  <2>3. got'[p][y] = got[p][y] + IF v.status = "failed" THEN 0 ELSE 1
    BY <1>1, <1>3, <1>8, <2>2 DEF Keeps, Gets
  <2>4. Balanced(p, y)'
    BY <1>5, <1>6, <1>8, <2>1, <2>3 DEF Balanced
  <2> QED
    BY <1>7, <2>4 DEF CountsOK
<1> QED
  BY <1>9, <1>10

LEMMA StepCounts ==
  ASSUME TInv, CountsOK, Next
  PROVE  CountsOK'
<1>1. DOMAIN work = Workers /\ \A w \in Workers : Shaped(work[w]) /\ Refers(work[w])
  BY Facts
<1>2. ASSUME UNCHANGED <<got, row, work>>,
             \A o \in Owners :
               hitch'[o] \cap {"lost", "stopped"} = {} => hitch[o] \cap {"lost", "stopped"} = {}
      PROVE  CountsOK'
  <2>1. \A o, x : Owing(o, x)' = Owing(o, x)
    BY <1>2 DEF Owing
  <2> QED
    BY <1>2, <2>1, CountsKept
<1>3. ASSUME UNCHANGED <<got, row>>, NEW w \in Workers, NEW u, work' = [work EXCEPT ![w] = u],
             Quiet(work[w]), Quiet(u),
             \A o \in Owners :
               hitch'[o] \cap {"lost", "stopped"} = {} => hitch[o] \cap {"lost", "stopped"} = {}
      PROVE  CountsOK'
  <2>1. \A o, x : Owing(o, x)' = Owing(o, x)
    BY <1>3, OwingKept
  <2> QED
    BY <1>3, <2>1, CountsKept
<1>4. Quiet(Idle)
  BY DEF Quiet, Idle
<1>5. \A w \in Workers : work[w].op \in {"none", "decide", "export"} => Quiet(work[w])
  BY DEF Quiet
<1>6. \A w \in Workers, place \in {"next", "mark", "try"} : At(w, place) => Quiet(work[w])
  BY DEF Quiet, At
<1>7. \A w \in Workers, p \in Proposals, o \in Owners :
        hitch' = Crosses(w, p) =>
          (hitch'[o] \cap {"lost", "stopped"} = {} => hitch[o] \cap {"lost", "stopped"} = {})
  <2>1. SUFFICES ASSUME NEW w \in Workers, NEW p \in Proposals, NEW o \in Owners,
                        hitch' = Crosses(w, p), hitch'[o] \cap {"lost", "stopped"} = {}
                 PROVE  hitch[o] \cap {"lost", "stopped"} = {}
    OBVIOUS
  <2>2. hitch[o] \subseteq hitch'[o]
    <3>1. CASE o = p
      BY <2>1, <3>1, CrossesIs
    <3>2. CASE o # p
      BY <2>1, <3>2, CrossesIs
    <3> QED
      BY <3>1, <3>2
  <2> QED
    BY <2>1, <2>2
<1>8. ASSUME NEW g \in Guardians, NEW W \in Wishes, UpdatePreferences(g, W)
      PROVE  CountsOK'
  BY <1>2, <1>8 DEF UpdatePreferences, store
<1>9. ASSUME NEW c \in Campaigns, NEW S \in SUBSET Students, NEW channel \in Requested,
             NEW kept \in BOOLEAN, CreateCampaign(c, S, channel, kept)
      PROVE  CountsOK'
  <2>1. Created(c)
    BY <1>9, CreateCampaignIs
  <2>2. \A o \in Owners :
          hitch'[o] \cap {"lost", "stopped"} = {} => hitch[o] \cap {"lost", "stopped"} = {}
    <3>1. SUFFICES ASSUME NEW o \in Owners, hitch'[o] \cap {"lost", "stopped"} = {}
                   PROVE  hitch[o] \cap {"lost", "stopped"} = {}
      OBVIOUS
    <3>2. CASE o # c
      BY <2>1, <3>1, <3>2 DEF Created
    <3>3. CASE o = c
      BY <2>1, <3>1, <3>3 DEF Created
    <3> QED
      BY <3>2, <3>3
  <2> QED
    BY <1>2, <1>9, <2>2 DEF CreateCampaign
<1>10. ASSUME NEW j \in Exports, NEW n \in Nat, QueueExport(j, n)
       PROVE  CountsOK'
  BY <1>2, <1>10 DEF QueueExport
<1>11. ASSUME NEW p \in Proposals, ExpiryPasses(p)
       PROVE  CountsOK'
  BY <1>2, <1>11 DEF ExpiryPasses
<1>12. ASSUME NEW p \in Proposals,
              NEW P \in Payloads,
              NEW channel \in Requested, Propose(p, P, channel)
       PROVE  CountsOK'
  BY <1>2, <1>12 DEF Propose
<1>13. ASSUME NEW w \in Workers, NEW x \in Letters, CreateDelivery(w, x)
       PROVE  CountsOK'
  <2>1. PICK v, u : /\ v = work[w] /\ IsDelivery(v) /\ v.at = "next" /\ v.status = "failed"
                   /\ work' = [work EXCEPT ![w] = u] /\ IsDelivery(u) /\ SameJob(v, u)
                   /\ x \in v.todo /\ u.letter = x /\ u.at \in {"try", "keep"}
                   /\ u.status = "failed"
    BY <1>13, CreateIs
  <2>2. UNCHANGED <<got, row, hitch>>
    BY <1>13 DEF CreateDelivery, store
  <2> QED
    BY <1>3, <2>1, <2>2 DEF Quiet
<1>14. ASSUME NEW w \in Workers,
              TryPortal(w) \/ TryWhatsapp(w) \/ TryProvider(w) \/ AnswerLost(w)
       PROVE  CountsOK'
  <2>1. PICK v, u : Tries(w, v, u)
                   /\ (Accepts(v, u) \/ Notifies(u) \/ Refuses(u) \/ Misses(v, u))
    BY <1>14, TryDoes
  <2>2. row' = row
    BY <1>14 DEF TryPortal, TryWhatsapp, TryProvider, AnswerLost, store
  <2> QED
    BY <2>1, <2>2, TryCounts
<1>15. ASSUME NEW w \in Workers, MarkRecipient(w)
       PROVE  CountsOK'
  <2>1. PICK u : u = Letter("campaign", work[w].of, Rest(w), work[w].requested)
    OBVIOUS
  <2>2. Quiet(u) /\ Quiet(work[w])
    BY <1>6, <1>15, <2>1 DEF Letter, Quiet, MarkRecipient
  <2>3. UNCHANGED <<got, row, hitch>> /\ work' = [work EXCEPT ![w] = u]
    BY <1>15, <2>1 DEF MarkRecipient, Continue
  <2> QED
    BY <1>3, <2>2, <2>3
<1>16. ASSUME NEW w \in Workers, EndCampaign(w) \/ EndSend(w) \/ EndExecute(w)
       PROVE  CountsOK'
  <2>1. UNCHANGED <<got, row, hitch>> /\ work' = [work EXCEPT ![w] = Idle] /\ Quiet(work[w])
    BY <1>6, <1>16 DEF EndCampaign, EndSend, EndExecute, Continue, store
  <2> QED
    BY <1>3, <1>4, <2>1
<1>17. ASSUME NEW w \in Workers, EndExport(w) \/ \E present \in BOOLEAN : ExportOne(w, present)
       PROVE  CountsOK'
  <2>1. IsExport(work[w]) /\ Quiet(work[w])
    BY <1>1, <1>5, <1>17, OpIs DEF EndExport, ExportOne
  <2>2. \E u : work' = [work EXCEPT ![w] = u] /\ Quiet(u)
    <3>1. CASE EndExport(w)
      BY <1>4, <3>1 DEF EndExport, Continue
    <3>2. CASE \E present \in BOOLEAN : ExportOne(w, present)
      <4>1. PICK u : u = [work[w] EXCEPT !.done = work[w].done + 1]
        OBVIOUS
      <4>2. u.op = "export"
        BY <2>1, <4>1 DEF IsExport
      <4>3. work' = [work EXCEPT ![w] = u]
        BY <3>2, <4>1 DEF ExportOne, Continue
      <4> QED
        BY <4>2, <4>3 DEF Quiet
    <3> QED
      BY <1>17, <3>1, <3>2
  <2>3. UNCHANGED <<got, row, hitch>>
    BY <1>17 DEF EndExport, ExportOne
  <2> QED
    BY <1>3, <2>1, <2>2, <2>3
<1>18. ASSUME NEW w \in Workers, DecideCommit(w)
       PROVE  CountsOK'
  <2>1. UNCHANGED <<got, row, hitch>> /\ work' = [work EXCEPT ![w] = Idle] /\ Quiet(work[w])
    BY <1>5, <1>18 DEF DecideCommit, Continue
  <2> QED
    BY <1>3, <1>4, <2>1
<1>19. ASSUME NEW w \in Workers, NEW c \in tasks, RunCampaign(w, c)
       PROVE  CountsOK'
  <2>1. PICK u : u = Letter("campaign", c, {x \in Letters : recipient[c][x] # "none"},
                            campaign[c].channel)
    OBVIOUS
  <2>2. Quiet(u) /\ Quiet(work[w])
    BY <1>5, <1>19, <2>1 DEF Letter, Quiet, RunCampaign, Busy
  <2>3. UNCHANGED <<got, row, hitch>> /\ work' = [work EXCEPT ![w] = u]
    BY <1>19, <2>1 DEF RunCampaign, Continue
  <2> QED
    BY <1>3, <2>2, <2>3
<1>20. ASSUME NEW w \in Workers, NEW j \in Exports, NEW n \in Nat, RunExport(w, j, n)
       PROVE  CountsOK'
  <2>1. PICK u : u = [op |-> "export", of |-> j, at |-> "next", done |-> 0]
    OBVIOUS
  <2>2. UNCHANGED <<got, row, hitch>> /\ work' = [work EXCEPT ![w] = u] /\ Quiet(u)
        /\ Quiet(work[w])
    BY <1>5, <1>20, <2>1 DEF RunExport, Continue, Quiet, Busy
  <2> QED
    BY <1>3, <2>2
<1>21. ASSUME NEW w \in Workers, NEW m \in Sends, NEW x \in Letters, NEW channel \in Requested,
              SendMessage(w, m, x, channel)
       PROVE  CountsOK'
  <2>1. PICK u : u = Letter("send", m, {x}, channel)
    OBVIOUS
  <2>2. UNCHANGED <<got, row, hitch>> /\ work' = [work EXCEPT ![w] = u] /\ Quiet(u)
        /\ Quiet(work[w])
    BY <1>5, <1>21, <2>1 DEF SendMessage, Continue, Letter, store, Quiet, Busy
  <2> QED
    BY <1>3, <2>2
<1>22. ASSUME NEW w \in Workers, NEW p \in Proposals,
              ApproveRead(w, p) \/ RejectRead(w, p) \/ ListRead(w, p) \/ ExecuteLate(w, p)
       PROVE  CountsOK'
  <2>1. PICK to \in {"approved", "rejected", "expired"} :
           /\ Decide(w, p, to) /\ proposal[p] # NoRow
           /\ to # "expired" => proposal[p].status = "proposed"
           /\ proposal[p].status \in {"proposed", "approved"}
    BY <1>22, DecisionReads
  <2>2. PICK u : /\ IsDecision(u) /\ u.op = "decide" /\ u.of = p /\ u.status = to
                 /\ work' = [work EXCEPT ![w] = u]
    BY <2>1, DecideIs
  <2>3. hitch' = Crosses(w, p) /\ UNCHANGED <<got, row>> /\ Quiet(work[w]) /\ Quiet(u)
    BY <1>5, <2>1, <2>2 DEF Decide, store, Quiet, Busy
  <2> QED
    BY <1>3, <1>7, <2>2, <2>3
<1>23. ASSUME NEW w \in Workers, NEW p \in Proposals, Execute(w, p)
       PROVE  CountsOK'
  <2>1. PICK u : /\ IsDelivery(u) /\ u.op = "execute" /\ u.of = p /\ u.at = "next" /\ u.sent = 0
                 /\ u.todo = proposal[p].letters /\ u.status = "failed"
                 /\ work' = [work EXCEPT ![w] = u]
    BY <1>23, ExecuteIs
  <2>2. hitch' = Crosses(w, p) /\ UNCHANGED <<got, row>> /\ Quiet(work[w]) /\ Quiet(u)
    BY <1>5, <1>23, <2>1 DEF Execute, store, Quiet, Busy
  <2> QED
    BY <1>3, <1>7, <2>1, <2>2
<1>24. \A o \in Owners, x \in Letters : got[o][x] \in Nat /\ row[o][x].sent \in Nat
         /\ Cardinality(Owing(o, x)) \in Nat /\ Balanced(o, x)
  BY NumbersAre DEF CountsOK
<1>25. ASSUME NEW w \in Workers, Refused(w)
       PROVE  CountsOK'
  <2>1. PICK p : p = work[w].of /\ "stopped" \in hitch'[p]
                 /\ \A q \in Owners \cup Exports : q # p => hitch'[q] = hitch[q]
    BY <1>25, RefusedIs
  <2>2. UNCHANGED <<got, row>> /\ work' = [work EXCEPT ![w] = Idle]
    BY <1>25 DEF Refused, Continue
  <2>3. work'[w] = Idle /\ \A q \in Workers : q # w => work'[q] = work[q]
    BY <1>1, <2>2
  <2>4. SUFFICES ASSUME NEW o \in Owners, NEW x \in Letters PROVE Balanced(o, x)'
    BY DEF CountsOK
  <2>5. CASE o = p
    <3>1. Owing(o, x)' = Owing(o, x) \/ (Owing(o, x)' = Owing(o, x) \ {w} /\ w \in Owing(o, x))
      BY <2>3 DEF Owing, Owes, Idle
    <3>2. Cardinality(Owing(o, x)') \in {Cardinality(Owing(o, x)), Cardinality(Owing(o, x)) - 1}
      BY <3>1, OwingIsFinite, FS_RemoveElement
    <3> QED
      BY <1>24, <2>1, <2>2, <2>5, <3>2 DEF Balanced
  <2>6. CASE o # p
    <3>1. Owing(o, x)' = Owing(o, x)
      BY <2>1, <2>3, <2>6 DEF Owing, Owes, Idle
    <3>2. hitch'[o] = hitch[o]
      BY <2>1, <2>6
    <3> QED
      BY <1>24, <2>2, <3>1, <3>2, BalancedKept
  <2> QED
    BY <2>5, <2>6
<1>26. ASSUME Stop
       PROVE  CountsOK'
  <2>1. UNCHANGED <<got, row>> /\ \A q \in Workers : work'[q] = Idle
    BY <1>26 DEF Stop, store
  <2>2. SUFFICES ASSUME NEW o \in Owners, NEW x \in Letters PROVE Balanced(o, x)'
    BY DEF CountsOK
  <2>3. Owing(o, x)' = {} /\ Cardinality({}) = 0
    BY <2>1, FS_EmptySet DEF Owing, Owes, Idle
  <2>4. hitch'[o] \cap {"lost", "stopped"} = {} =>
          hitch[o] \cap {"lost", "stopped"} = {} /\ Cardinality(Owing(o, x)) = 0
    <3>1. SUFFICES ASSUME hitch'[o] \cap {"lost", "stopped"} = {}
                   PROVE  hitch[o] \cap {"lost", "stopped"} = {} /\ Cardinality(Owing(o, x)) = 0
      OBVIOUS
    <3>2. hitch[o] \subseteq hitch'[o]
      BY <1>26, StopIs
    <3>3. \A q \in Workers : Busy(q) => work[q].of # o
      BY <1>26, <3>1, StopIs
    <3>4. Owing(o, x) = {}
      BY <3>3 DEF Owing, Owes, Busy
    <3>5. Cardinality(Owing(o, x)) = 0
      BY <2>3, <3>4
    <3> QED
      BY <3>1, <3>2, <3>5
  <2>5. /\ got[o][x] \in Nat /\ row[o][x].sent \in Nat /\ Cardinality(Owing(o, x)) \in Nat
        /\ got[o][x] >= row[o][x].sent + Cardinality(Owing(o, x))
        /\ hitch[o] \cap {"lost", "stopped"} = {} =>
             got[o][x] = row[o][x].sent + Cardinality(Owing(o, x))
    BY <1>24 DEF Balanced
  <2>6. got[o][x] >= row[o][x].sent
    BY <2>5
  <2>7. hitch'[o] \cap {"lost", "stopped"} = {} => got[o][x] = row[o][x].sent
    BY <2>4, <2>5
  <2>8. got'[o][x] = got[o][x] /\ row'[o][x] = row[o][x] /\ Cardinality(Owing(o, x)') = 0
    BY <2>1, <2>3
  <2> QED
    BY <2>5, <2>6, <2>7, <2>8 DEF Balanced
<1> QED
  BY <1>8, <1>9, <1>10, <1>11, <1>12, <1>13, <1>14, <1>15, <1>16, <1>17, <1>18,
     <1>19, <1>20, <1>21, <1>22, <1>23, <1>25, <1>26, KeepCounts, StepIs

----------------------------------------------------------------------------------
(* What has arrived of what each thread does                                      *)

\* Nobody else works for an owner whose letters the thread follows.
LEMMA OnlyOne ==
  ASSUME TInv, DecisionsOK, NEW q \in Workers, NEW w \in Workers, Busy(q), Busy(w),
         work[q].of = work[w].of, Follows(work[q])
  PROVE  q = w
<1>1. Shaped(work[q])
  BY Facts
<1>2. CASE work[q].op \in {"campaign", "send"}
  <2>1. work[q].of \notin Proposals
    BY <1>1, <1>2, OpIs, Disjoint
  <2> QED
    BY <2>1 DEF TInv, SessionsOK
<1>3. CASE work[q].op = "execute" /\ hitch[work[q].of] = {}
  <2>1. work[q].of \in Proposals
    BY <1>1, <1>3, OpIs
  <2> QED
    BY <1>3, <2>1 DEF DecisionsOK, InTurn
<1> QED
  BY <1>2, <1>3 DEF Follows

\* What a thread follows, when nothing arrives for its owner
LEMMA ReachedKept ==
  ASSUME NEW v, Shaped(v), Reached(v), Counted(v),
         \A x \in Letters : got'[v.of][x] = got[v.of][x],
         hitch[v.of] \subseteq hitch'[v.of]
  PROVE  Reached(v)' /\ Counted(v)'
<1>1. Follows(v)' => Follows(v) /\ v.todo \subseteq Letters /\ (v.at # "next" => v.letter \in Letters)
  BY OpIs DEF Follows, IsDelivery
<1>2. Reached(v)'
  BY <1>1 DEF Reached, InHand
<1>3. Counted(v)'
  <2>1. Arrived(v.of)' = Arrived(v.of)
    BY DEF Arrived
  <2> QED
    BY <2>1 DEF Counted, InHand
<1> QED
  BY <1>2, <1>3

LEMMA NothingFollowed ==
  ASSUME NEW v, v.op \notin {"campaign", "send", "execute"}
  PROVE  /\ Reached(v) /\ Counted(v)
         /\ Reached(v)' /\ Counted(v)'
BY DEF Reached, Counted, Follows

\* Which owners nobody has begun to write for
LEMMA FreshKept ==
  ASSUME \A c \in Campaigns : campaign'[c] = NoRow \/ c \in tasks' => campaign[c] = NoRow \/ c \in tasks,
         begun \subseteq begun',
         \A p \in Proposals : hitch'[p] = {} => hitch[p] = {},
         \A p \in Proposals :
           hitch'[p] = {} /\ proposal[p] # NoRow /\ proposal[p].status = "executed" =>
             proposal'[p] # NoRow /\ proposal'[p].status = "executed",
         \A q \in Workers : work[q].op = "execute" =>
           \/ work'[q].op = "execute" /\ work'[q].of = work[q].of
           \/ hitch'[work[q].of] # {}
           \/ proposal'[work[q].of] # NoRow /\ proposal'[work[q].of].status = "executed"
  PROVE  \A o \in Owners : Fresh(o)' => Fresh(o)
<1>1. SUFFICES ASSUME NEW o \in Owners, Fresh(o)' PROVE Fresh(o)
  OBVIOUS
<1>2. CASE o \in Campaigns /\ (campaign'[o] = NoRow \/ o \in tasks')
  BY <1>2 DEF Fresh
<1>3. CASE o \in Sends \ begun'
  BY <1>3 DEF Fresh
<1>4. CASE /\ o \in Proposals /\ hitch'[o] = {}
           /\ proposal'[o] # NoRow => proposal'[o].status # "executed"
           /\ \A w \in Workers : work'[w].op = "execute" => work'[w].of # o
  <2>1. hitch[o] = {} /\ (proposal[o] # NoRow => proposal[o].status # "executed")
    BY <1>4
  <2>2. \A w \in Workers : work[w].op = "execute" => work[w].of # o
    BY <1>4
  <2> QED
    BY <1>4, <2>1, <2>2 DEF Fresh
<1> QED
  BY <1>1, <1>2, <1>3, <1>4 DEF Fresh

LEMMA ArrivalsKept ==
  ASSUME TInv, ArrivalsOK, got' = got,
         \A o \in Owners : hitch[o] \subseteq hitch'[o] \/ Arrived(o) = {},
         \A q \in Workers :
           \/ work'[q] = work[q] /\ (Busy(q) => hitch[work[q].of] \subseteq hitch'[work[q].of])
           \/ \E u : u = work'[q] /\ Reached(u)' /\ Counted(u)',
         \A o \in Owners : Fresh(o)' => Fresh(o)
  PROVE  ArrivalsOK'
<1>1. \A q \in Workers : Reached(work[q])' /\ Counted(work[q])'
  <2>1. SUFFICES ASSUME NEW q \in Workers PROVE Reached(work[q])' /\ Counted(work[q])'
    OBVIOUS
  <2>2. PICK u : u = work'[q] /\ Reached(u)' /\ Counted(u)'
    <3>1. CASE work'[q] = work[q] /\ (Busy(q) => hitch[work[q].of] \subseteq hitch'[work[q].of])
      <4>1. PICK u : u = work[q] /\ Shaped(u) /\ Reached(u) /\ Counted(u)
        BY Facts DEF ArrivalsOK
      <4>2. CASE u.op = "none"
        BY <3>1, <4>1, <4>2, NothingFollowed
      <4>3. CASE u.op # "none"
        <5>1. hitch[u.of] \subseteq hitch'[u.of]
          BY <3>1, <4>1, <4>3 DEF Busy
        <5>2. \A x \in Letters : got'[u.of][x] = got[u.of][x]
          OBVIOUS
        <5>3. Reached(u)' /\ Counted(u)'
          BY <4>1, <5>1, <5>2, ReachedKept
        <5> QED
          BY <3>1, <4>1, <5>3
      <4> QED
        BY <4>2, <4>3
    <3>2. CASE \E u : u = work'[q] /\ Reached(u)' /\ Counted(u)'
      BY <3>2
    <3> QED
      BY <3>1, <3>2
  <2> QED
    BY <2>2 DEF Reached, Counted, Follows, InHand, Arrived
<1>2. \A o \in Owners : Fresh(o)' => Arrived(o)' = {}
  BY DEF ArrivalsOK, Arrived
<1>3. NoDoubles'
  <2>1. SUFFICES ASSUME NEW o \in Owners, NEW x \in Letters, got'[o][x] > 1
                 PROVE  "lost" \in hitch'[o] \/ (o \in Proposals /\ hitch'[o] # {})
    BY DEF NoDoubles
  <2>2. got[o][x] > 1 /\ got[o][x] \in Nat
    BY <2>1, Facts
  <2>3. Arrived(o) # {}
    BY <2>2 DEF Arrived
  <2>4. "lost" \in hitch[o] \/ (o \in Proposals /\ hitch[o] # {})
    BY <2>2 DEF ArrivalsOK, NoDoubles
  <2> QED
    BY <2>3, <2>4
<1> QED
  BY <1>1, <1>2, <1>3 DEF ArrivalsOK

LEMMA ArrivalsDelivered ==
  ASSUME TInv, DecisionsOK, ArrivalsOK, NEW w \in Workers, NEW v, v = work[w], IsDelivery(v),
         v.at # "next", NEW u, work' = [work EXCEPT ![w] = u], u.op = v.op, u.of = v.of,
         UNCHANGED <<campaign, proposal, tasks, begun>>,
         hitch' = hitch \/ Loses(v.of),
         got' = got \/ (Gets(v.of, v.letter)
                        /\ (v.at = "try" \/ (v.at = "keep" /\ v.status = "delivered"))),
         Reached(u)', Counted(u)'
  PROVE  ArrivalsOK'
<1>1. PICK p, y : p = v.of /\ y = v.letter /\ p \in Owners /\ y \in Letters
  BY OfIs
<1>2. work'[w] = u /\ \A q \in Workers : q # w => work'[q] = work[q]
  BY Facts
<1>3. \A o \in Owners \cup Exports : hitch[o] \subseteq hitch'[o] /\ (o # p => hitch'[o] = hitch[o])
  <2>1. CASE hitch' = hitch
    BY <2>1
  <2>2. CASE Loses(v.of)
    BY <1>1, <2>2 DEF Loses
  <2> QED
    BY <2>1, <2>2
<1>4. \A o \in Owners, x \in Letters : o # p \/ x # y => got'[o][x] = got[o][x]
  BY <1>1 DEF Gets
<1>5. Busy(w) /\ Refers(v)
  BY Facts DEF Busy, IsDelivery
<1>6. \A q \in Workers : Reached(work[q])' /\ Counted(work[q])'
  <2>1. SUFFICES ASSUME NEW q \in Workers PROVE Reached(work[q])' /\ Counted(work[q])'
    OBVIOUS
  <2>2. PICK n : n = work'[q] /\ Reached(n)' /\ Counted(n)'
    <3>1. CASE q = w
      BY <1>2, <3>1
    <3>2. CASE q # w
      <4>1. PICK n : n = work[q] /\ n = work'[q] /\ Shaped(n) /\ Reached(n) /\ Counted(n)
        BY <1>2, <3>2, Facts DEF ArrivalsOK
      <4>2. CASE n.op \in {"none", "decide", "export"}
        BY <4>1, <4>2, NothingFollowed
      <4>3. CASE n.op \in {"campaign", "send", "execute"} /\ n.of # p
        <5>1. n.of \in Owners
          BY <4>1, <4>3, OpIs, Disjoint
        <5>2. \A x \in Letters : got'[n.of][x] = got[n.of][x]
          BY <1>4, <4>3, <5>1
        <5>3. hitch[n.of] \subseteq hitch'[n.of]
          BY <1>3, <5>1
        <5> QED
          BY <4>1, <5>2, <5>3, ReachedKept
      <4>4. CASE n.op \in {"campaign", "send", "execute"} /\ n.of = p
        <5>1. ~Follows(n)
          BY <1>1, <1>5, <3>2, <4>1, <4>4, OnlyOne DEF Busy
        <5>2. n.op = "execute" /\ hitch[p] # {}
          BY <4>4, <5>1 DEF Follows
        <5>3. hitch'[p] # {}
          BY <1>1, <1>3, <5>2
        <5>4. ~Follows(n)'
          BY <4>4, <5>2, <5>3 DEF Follows
        <5>5. Reached(n)' /\ Counted(n)'
          BY <4>4, <5>3, <5>4 DEF Reached, Counted
        <5> QED
          BY <4>1, <5>5
      <4> QED
        BY <4>1, <4>2, <4>3, <4>4, OpIs
    <3> QED
      BY <3>1, <3>2
  <2> QED
    BY <2>2 DEF Reached, Counted, Follows, InHand, Arrived
<1>7. \A o \in Owners : Fresh(o)' => Arrived(o)' = {}
  <2>1. SUFFICES ASSUME NEW o \in Owners, Fresh(o)' PROVE Arrived(o)' = {}
    OBVIOUS
  <2>2. o # p
    <3>1. SUFFICES ASSUME o = p PROVE FALSE
      OBVIOUS
    <3>2. CASE v.op = "campaign"
      BY <1>1, <1>5, <2>1, <3>1, <3>2, Disjoint DEF Fresh, IsDelivery, Refers
    <3>3. CASE v.op = "send"
      BY <1>1, <1>5, <2>1, <3>1, <3>3, Disjoint DEF Fresh, IsDelivery, Refers
    <3>4. CASE v.op = "execute"
      BY <1>1, <1>2, <2>1, <3>1, <3>4, Disjoint DEF Fresh, IsDelivery
    <3> QED
      BY <3>2, <3>3, <3>4 DEF IsDelivery
  <2>3. hitch'[o] = hitch[o] /\ \A x \in Letters : got'[o][x] = got[o][x]
    BY <1>3, <1>4, <2>2
  <2>4. \A q \in Workers : work[q].op = "execute" => work'[q].op = "execute" /\ work'[q].of = work[q].of
    BY <1>2
  <2>5. Fresh(o)
    BY <2>1, <2>3, <2>4 DEF Fresh
  <2>6. Arrived(o)' = Arrived(o)
    BY <2>3 DEF Arrived
  <2> QED
    BY <2>5, <2>6 DEF ArrivalsOK
<1>8. NoDoubles'
  <2>1. SUFFICES ASSUME NEW o \in Owners, NEW x \in Letters, got'[o][x] > 1
                 PROVE  "lost" \in hitch'[o] \/ (o \in Proposals /\ hitch'[o] # {})
    BY DEF NoDoubles
  <2>2. CASE got'[o][x] = got[o][x]
    <3>1. "lost" \in hitch[o] \/ (o \in Proposals /\ hitch[o] # {})
      BY <2>1, <2>2 DEF ArrivalsOK, NoDoubles
    <3> QED
      BY <1>3, <3>1
  <2>3. CASE got'[o][x] # got[o][x]
    <3>1. o = p /\ x = y
      BY <1>4, <2>3
    <3>2. v.at = "try" \/ (v.at = "keep" /\ v.status = "delivered")
      BY <2>3
    <3>3. got'[p][y] = got[p][y] + 1 /\ got[p][y] \in Nat
      BY <1>1, <2>3, <3>1, Facts DEF Gets
    <3>4. CASE Follows(v)
      <4>1. got[p][y] = 0 \/ "lost" \in hitch[p]
        BY <1>1, <3>2, <3>4 DEF ArrivalsOK, Reached
      <4> QED
        BY <1>1, <1>3, <2>1, <3>1, <3>3, <4>1
    <3>5. CASE ~Follows(v)
      <4>1. v.op = "execute" /\ p \in Proposals /\ hitch[p] # {}
        BY <1>1, <3>5 DEF Follows, IsDelivery
      <4> QED
        BY <1>1, <1>3, <3>1, <4>1
    <3> QED
      BY <3>4, <3>5
  <2> QED
    BY <2>2, <2>3
<1> QED
  BY <1>6, <1>7, <1>8 DEF ArrivalsOK

\* Once everything but the letter in hand is counted, the number of those that arrived
LEMMA ArrivedIsFinite == ASSUME NEW o PROVE IsFiniteSet(Arrived(o))
<1>1. Arrived(o) \subseteq Letters
  BY DEF Arrived
<1> QED
  BY <1>1, LettersAreFinite, FS_Subset

LEMMA TryArrives ==
  ASSUME TInv, DecisionsOK, ArrivalsOK, NEW w \in Workers, NEW v, NEW u, Tries(w, v, u),
         UNCHANGED <<campaign, proposal, tasks, begun>>,
         Accepts(v, u) \/ Notifies(u) \/ Refuses(u) \/ Misses(v, u)
  PROVE  ArrivalsOK'
<1>1. v = work[w] /\ IsDelivery(v) /\ v.at = "try" /\ work' = [work EXCEPT ![w] = u]
      /\ IsDelivery(u) /\ u.of = v.of /\ u.op = v.op /\ u.letter = v.letter /\ u.todo = v.todo
      /\ u.sent = v.sent /\ v.status = "failed"
  BY DEF Tries, SameJob
<1>2. PICK p, y : p = v.of /\ y = v.letter /\ p \in Owners /\ y \in Letters /\ v.todo \subseteq Letters
  BY <1>1, OfIs DEF IsDelivery
<1>3. hitch' = hitch \/ Loses(p)
  BY <1>2 DEF Accepts, Notifies, Refuses, Misses
<1>4. got' = got \/ Gets(p, y)
  BY <1>2 DEF Accepts, Notifies, Refuses, Misses
<1>5. Follows(u)' => Follows(v) /\ (u.op = "execute" => hitch' = hitch)
  BY <1>1, <1>2, <1>3 DEF Follows, Loses
<1>6. Reached(v) /\ Counted(v)
  BY <1>1 DEF ArrivalsOK
<1>7. got[p][y] \in Nat
  BY <1>2, Facts
<1>8. Reached(u)'
  <2>1. SUFFICES ASSUME Follows(u)' PROVE Reached(u)'
    BY DEF Reached
  <2>2. Follows(v)
    BY <1>5, <2>1
  <2>3. \A x \in u.todo : x # y => got'[p][x] = 0
    <3>1. \A x \in v.todo : x # y => got[p][x] = 0
      BY <1>1, <1>2, <1>6, <2>2 DEF Reached, InHand
    <3> QED
      BY <1>1, <1>2, <1>4, <3>1 DEF Gets
  <2>4. got[p][y] = 0 \/ "lost" \in hitch[p]
    BY <1>1, <1>2, <1>6, <2>2 DEF Reached
  <2>5. CASE Accepts(v, u)
    <3>1. got'[p][y] > 0 /\ u.at = "keep" /\ u.status = "sent"
      BY <1>2, <1>7, <2>5 DEF Accepts, Gets
    <3> QED
      BY <1>1, <1>2, <2>3, <3>1 DEF Reached, InHand
  <2>6. CASE Notifies(u) \/ Refuses(u)
    <3>1. UNCHANGED <<got, hitch>> /\ u.at # "mark" /\ u.status # "sent" /\ u.at # "next"
      BY <2>6 DEF Notifies, Refuses
    <3> QED
      BY <1>1, <1>2, <2>3, <2>4, <3>1 DEF Reached, InHand
  <2>7. CASE Misses(v, u)
    <3>1. "lost" \in hitch'[p] /\ u.at # "mark" /\ u.status # "sent" /\ u.at # "next"
      BY <1>2, <2>7 DEF Misses, Loses
    <3> QED
      BY <1>1, <1>2, <2>3, <3>1 DEF Reached, InHand
  <2> QED
    BY <2>5, <2>6, <2>7
<1>9. Counted(u)'
  <2>1. SUFFICES ASSUME u.op = "execute", hitch'[p] = {}
                 PROVE  u.sent = Cardinality({x \in Arrived(p)' : ~InHand(u, x)})
    BY <1>1, <1>2 DEF Counted, InHand
  <2>2. hitch' = hitch /\ hitch[p] = {}
    BY <1>2, <1>3, <2>1 DEF Loses
  <2>3. v.sent = Cardinality({x \in Arrived(p) : ~InHand(v, x)})
    BY <1>1, <1>2, <1>6, <2>1, <2>2 DEF Counted
  <2>4. u.at # "next"
    BY DEF Accepts, Notifies, Refuses, Misses
  <2>5. \A x \in Letters : x # y => got'[p][x] = got[p][x]
    BY <1>2, <1>4 DEF Gets
  <2>6. {x \in Arrived(p)' : ~InHand(u, x)} = {x \in Arrived(p) : ~InHand(v, x)}
    BY <1>1, <1>2, <2>4, <2>5 DEF Arrived, InHand
  <2> QED
    BY <1>1, <2>3, <2>6
<1> QED
  BY <1>1, <1>2, <1>3, <1>4, <1>8, <1>9, ArrivalsDelivered

LEMMA KeepArrives ==
  ASSUME TInv, DecisionsOK, ArrivalsOK, NEW w \in Workers, NEW v, NEW u, Keeps(w, v, u),
         UNCHANGED <<campaign, proposal, tasks, begun, hitch>>
  PROVE  ArrivalsOK'
<1>1. v = work[w] /\ IsDelivery(v) /\ v.at = "keep" /\ work' = [work EXCEPT ![w] = u]
      /\ IsDelivery(u) /\ u.of = v.of /\ u.op = v.op
  BY DEF Keeps
<1>2. PICK p, y : p = v.of /\ y = v.letter /\ p \in Owners /\ y \in Letters
                  /\ v.todo \subseteq Letters /\ y \in v.todo
  BY <1>1, OfIs DEF IsDelivery
<1>3. got' = got \/ (Gets(p, y) /\ v.status = "delivered")
  BY <1>2 DEF Keeps
<1>4. Follows(u)' => Follows(v)
  BY <1>1 DEF Follows
<1>5. Reached(v) /\ Counted(v)
  BY <1>1 DEF ArrivalsOK
<1>6. got[p][y] \in Nat /\ \A x \in Letters : x # y => got'[p][x] = got[p][x]
  BY <1>2, <1>3, Facts DEF Gets
<1>7. v.status \in {"failed", "sent", "delivered"}
  BY <1>1 DEF IsDelivery
<1>8. Follows(v) =>
        /\ v.status \in {"sent", "delivered"} => got'[p][y] > 0
        /\ v.status = "failed" => got'[p][y] = 0 \/ "lost" \in hitch[p]
  <2>1. CASE v.status = "delivered"
    <3>1. got'[p][y] = got[p][y] + 1
      BY <1>2, <2>1 DEF Keeps, Gets
    <3> QED
      BY <1>6, <2>1, <3>1
  <2>2. CASE v.status # "delivered"
    <3>1. got' = got
      BY <2>2 DEF Keeps
    <3> QED
      BY <1>1, <1>2, <1>5, <2>2, <3>1 DEF Reached
  <2> QED
    BY <2>1, <2>2
<1>9. Reached(u)'
  <2>1. SUFFICES ASSUME Follows(u)' PROVE Reached(u)'
    BY DEF Reached
  <2>2. Follows(v)
    BY <1>4, <2>1
  <2>3. \A x \in v.todo : x # y => got'[p][x] = 0
    <3>1. \A x \in v.todo : x # y => got[p][x] = 0
      BY <1>1, <1>2, <1>5, <2>2 DEF Reached, InHand
    <3> QED
      BY <1>2, <1>6, <3>1
  <2>4. CASE v.op = "campaign"
    <3>1. u.todo = v.todo /\ u.at = "mark" /\ u.letter = y /\ u.status = v.status
      BY <1>2, <2>4 DEF Keeps, SameJob
    <3> QED
      BY <1>1, <1>2, <1>7, <1>8, <2>2, <2>3, <3>1 DEF Reached, InHand
  <2>5. CASE v.op # "campaign"
    <3>1. u.todo = v.todo \ {y} /\ u.at = "next"
      BY <1>2, <2>5 DEF Keeps
    <3> QED
      BY <1>1, <1>2, <2>3, <3>1 DEF Reached, InHand
  <2> QED
    BY <2>4, <2>5
<1>10. Counted(u)'
  <2>1. SUFFICES ASSUME u.op = "execute", hitch[p] = {}
                 PROVE  u.sent = Cardinality({x \in Arrived(p)' : ~InHand(u, x)})
    BY <1>1, <1>2 DEF Counted, InHand
  <2>2. v.op = "execute" /\ Follows(v)
    BY <1>1, <1>2, <2>1 DEF Follows
  <2>3. u.at = "next" /\ u.sent = v.sent + IF v.status = "failed" THEN 0 ELSE 1
    BY <2>2 DEF Keeps
  <2>4. PICK A : A = {x \in Arrived(p) : ~InHand(v, x)}
    OBVIOUS
  <2>5. v.sent = Cardinality(A)
    BY <1>1, <1>2, <1>5, <2>1, <2>2, <2>4 DEF Counted
  <2>6. IsFiniteSet(A) /\ Cardinality(A) \in Nat
    <3>1. A \subseteq Arrived(p)
      BY <2>4
    <3> QED
      BY <3>1, ArrivedIsFinite, FS_Subset, FS_CardinalityType
  <2>7. y \notin A /\ A = {x \in Letters : x # y /\ got[p][x] > 0}
    BY <1>1, <1>2, <2>4 DEF InHand, Arrived
  <2>8. {x \in Arrived(p)' : ~InHand(u, x)} = {x \in Letters : got'[p][x] > 0}
    BY <2>3 DEF InHand, Arrived
  <2>9. CASE v.status = "failed"
    <3>1. got'[p][y] = 0
      BY <1>8, <2>1, <2>2, <2>9
    <3>2. {x \in Letters : got'[p][x] > 0} = A
      BY <1>2, <1>6, <2>7, <3>1
    <3>3. u.sent = Cardinality(A)
      BY <2>3, <2>5, <2>6, <2>9
    <3> QED
      BY <2>8, <3>2, <3>3
  <2>10. CASE v.status # "failed"
    <3>1. got'[p][y] > 0
      BY <1>7, <1>8, <2>2, <2>10
    <3>2. {x \in Letters : got'[p][x] > 0} = A \cup {y}
      BY <1>2, <1>6, <2>7, <3>1
    <3>3. Cardinality(A \cup {y}) = Cardinality(A) + 1
      BY <2>6, <2>7, FS_AddElement
    <3> QED
      BY <2>3, <2>5, <2>6, <2>8, <2>10, <3>2, <3>3
  <2> QED
    BY <2>9, <2>10
<1> QED
  BY <1>1, <1>2, <1>3, <1>9, <1>10, ArrivalsDelivered

\* Between letters, and where a thread begins or ends
LEMMA CreateArrives ==
  ASSUME TInv, ArrivalsOK, NEW w \in Workers, NEW x \in Letters, CreateDelivery(w, x)
  PROVE  ArrivalsOK'
<1>1. PICK v, u : /\ v = work[w] /\ IsDelivery(v) /\ v.at = "next" /\ v.status = "failed"
                   /\ work' = [work EXCEPT ![w] = u] /\ IsDelivery(u) /\ SameJob(v, u)
                   /\ x \in v.todo /\ u.letter = x /\ u.at \in {"try", "keep"}
                   /\ u.status = "failed"
  BY CreateIs
<1>2. UNCHANGED <<campaign, proposal, tasks, begun, hitch, got>>
  BY DEF CreateDelivery, store
<1>3. work'[w] = u /\ \A q \in Workers : q # w => work'[q] = work[q]
  BY <1>1, Facts
<1>4. Reached(v) /\ Counted(v) /\ v.of \in Owners
  BY <1>1, Disjoint DEF ArrivalsOK, IsDelivery
<1>5. u.op = v.op /\ u.of = v.of /\ u.todo = v.todo /\ u.sent = v.sent
  BY <1>1 DEF SameJob
<1>6. Follows(v) => got[v.of][x] = 0
  BY <1>1, <1>4 DEF Reached, InHand
<1>7. Reached(u)'
  <2>1. SUFFICES ASSUME Follows(u)' PROVE Reached(u)'
    BY DEF Reached
  <2>2. Follows(v) /\ \A z \in v.todo : got[v.of][z] = 0
    BY <1>1, <1>2, <1>4, <1>5, <2>1 DEF Follows, Reached, InHand
  <2> QED
    BY <1>1, <1>2, <1>5, <1>6, <2>2 DEF Reached, InHand
<1>8. Counted(u)'
  <2>1. SUFFICES ASSUME u.op = "execute", hitch[v.of] = {}
                 PROVE  u.sent = Cardinality({z \in Arrived(v.of)' : ~InHand(u, z)})
    BY <1>2, <1>5 DEF Counted, InHand
  <2>2. Follows(v)
    BY <1>5, <2>1 DEF Follows
  <2>3. v.sent = Cardinality({z \in Arrived(v.of) : ~InHand(v, z)})
    BY <1>4, <1>5, <2>1 DEF Counted
  <2>4. {z \in Arrived(v.of)' : ~InHand(u, z)} = {z \in Arrived(v.of) : ~InHand(v, z)}
    BY <1>1, <1>2, <1>6, <2>2 DEF Arrived, InHand
  <2> QED
    BY <1>5, <2>3, <2>4
<1>9. \A o \in Owners : Fresh(o)' => Fresh(o)
  <2>1. \A q \in Workers : work[q].op = "execute" => work'[q].op = "execute" /\ work'[q].of = work[q].of
    BY <1>1, <1>3, <1>5
  <2> QED
    BY <1>2, <2>1, FreshKept
<1> QED
  BY <1>2, <1>3, <1>7, <1>8, <1>9, ArrivalsKept

LEMMA MarkArrives ==
  ASSUME TInv, ArrivalsOK, NEW w \in Workers, MarkRecipient(w)
  PROVE  ArrivalsOK'
<1>1. PICK v : v = work[w] /\ IsDelivery(v) /\ v.at = "mark" /\ Refers(v) /\ v.op = "campaign"
               /\ v.todo \subseteq Letters /\ v.of \in Campaigns /\ Reached(v)
  BY AtIs DEF MarkRecipient, IsDelivery, ArrivalsOK
<1>2. PICK u : u = Letter("campaign", v.of, v.todo \ {v.letter}, v.requested)
  OBVIOUS
<1>3. u.op = "campaign" /\ u.of = v.of /\ u.todo = v.todo \ {v.letter} /\ u.at = "next"
  BY <1>2 DEF Letter
<1>4. UNCHANGED <<proposal, tasks, begun, hitch, got>> /\ work' = [work EXCEPT ![w] = u]
  BY <1>1, <1>2 DEF MarkRecipient, Continue, Rest
<1>5. work'[w] = u /\ \A q \in Workers : q # w => work'[q] = work[q]
  BY <1>4, Facts
<1>6. Reached(u)' /\ Counted(u)'
  BY <1>1, <1>3, <1>4 DEF Reached, Counted, Follows, InHand
<1>7. \A c \in Campaigns : campaign'[c] = NoRow => campaign[c] = NoRow \/ c \in tasks
  <2>1. \A c \in Campaigns : c # v.of => campaign'[c] = campaign[c]
    BY <1>1, Facts DEF MarkRecipient
  <2>2. TInv'
    BY MarkTInv
  <2>3. campaign'[v.of] # NoRow
    <3>1. Refers(u)'
      <4>1. PICK n : n = work'[w] /\ Refers(n)'
        BY <2>2 DEF TInv, SessionsOK
      <4> QED
        BY <1>5, <4>1
    <3> QED
      BY <1>3, <3>1 DEF Refers
  <2> QED
    BY <2>1, <2>3
<1>8. \A o \in Owners : Fresh(o)' => Fresh(o)
  <2>1. \A q \in Workers : work[q].op = "execute" => work'[q].op = "execute" /\ work'[q].of = work[q].of
    BY <1>1, <1>5
  <2> QED
    BY <1>4, <1>7, <2>1, FreshKept
<1> QED
  BY <1>4, <1>5, <1>6, <1>8, ArrivalsKept

\* A thread begins with the letters of an owner for whom nothing has arrived.
LEMMA BeginsFresh ==
  ASSUME NEW u, IsDelivery(u), u.at = "next", u.sent = 0, Arrived(u.of) = {}, got' = got,
         \A x \in Letters : got[u.of][x] \in Nat
  PROVE  Reached(u)' /\ Counted(u)'
<1>1. \A x \in Letters : got[u.of][x] = 0
  BY DEF Arrived
<1>2. Reached(u)'
  BY <1>1 DEF Reached, IsDelivery
<1>3. {x \in Arrived(u.of)' : ~InHand(u, x)} = {}
  BY <1>1 DEF Arrived
<1>4. Counted(u)'
  BY <1>3, FS_EmptySet DEF Counted, InHand
<1> QED
  BY <1>2, <1>4

\* Nobody executes p, nothing went wrong, and it was not executed.
LEMMA FreshProposal ==
  ASSUME ArrivalsOK, NEW p \in Proposals, hitch[p] = {},
         proposal[p] # NoRow => proposal[p].status # "executed",
         \A q \in Workers : work[q].op = "execute" => work[q].of # p
  PROVE  Arrived(p) = {}
<1>1. p \in Owners /\ Fresh(p)
  BY Disjoint DEF Fresh
<1> QED
  BY <1>1 DEF ArrivalsOK

LEMMA StepArrivals ==
  ASSUME TInv, DecisionsOK, ArrivalsOK, Next
  PROVE  ArrivalsOK'
<1>1. DOMAIN work = Workers /\ \A w \in Workers : Shaped(work[w]) /\ Refers(work[w])
  BY Facts
<1>2. Idle.op = "none" /\ Reached(Idle)' /\ Counted(Idle)'
  BY NothingFollowed DEF Idle
<1>3. \A q \in Workers : Busy(q) => work[q].of \in Owners \cup Exports
  BY <1>1, OfHas DEF Busy
<1>4. ASSUME UNCHANGED <<got, hitch>>, \A o \in Owners : Fresh(o)' => Fresh(o),
             NEW w \in Workers, NEW u, work' = [work EXCEPT ![w] = u],
             Reached(u)' /\ Counted(u)'
      PROVE  ArrivalsOK'
  <2>1. work'[w] = u /\ \A q \in Workers : q # w => work'[q] = work[q]
    BY <1>1, <1>4
  <2>2. \A q \in Workers :
           \/ work'[q] = work[q] /\ (Busy(q) => hitch[work[q].of] \subseteq hitch'[work[q].of])
           \/ \E n : n = work'[q] /\ Reached(n)' /\ Counted(n)'
    BY <1>4, <2>1
  <2> QED
    BY <1>4, <2>2, ArrivalsKept
<1>5. ASSUME UNCHANGED <<got, work, hitch>>, \A o \in Owners : Fresh(o)' => Fresh(o)
      PROVE  ArrivalsOK'
  BY <1>5, ArrivalsKept
<1>6. ASSUME NEW g \in Guardians, NEW W \in Wishes, UpdatePreferences(g, W)
      PROVE  ArrivalsOK'
  <2>1. UNCHANGED <<got, work, hitch, campaign, proposal, tasks, begun>>
    BY <1>6 DEF UpdatePreferences, store
  <2> QED
    BY <1>5, <2>1, FreshKept
<1>7. ASSUME NEW c \in Campaigns, NEW S \in SUBSET Students, NEW channel \in Requested,
             NEW kept \in BOOLEAN, CreateCampaign(c, S, channel, kept)
      PROVE  ArrivalsOK'
  <2>1. Created(c)
    BY <1>7, CreateCampaignIs
  <2>2. UNCHANGED <<got, work, proposal, begun>>
    BY <1>7 DEF CreateCampaign
  <2>3. c \in Owners /\ Fresh(c)
    BY <2>1, Disjoint DEF Created, Fresh
  <2>4. Arrived(c) = {}
    BY <2>3 DEF ArrivalsOK
  <2>5. \A o \in Owners \cup Exports : o # c => hitch'[o] = hitch[o]
    BY <2>1 DEF Created
  <2>6. \A q \in Workers : Busy(q) => work[q].of # c
    <3>1. SUFFICES ASSUME NEW q \in Workers, Busy(q), work[q].of = c PROVE FALSE
      OBVIOUS
    <3>2. work[q].op = "campaign"
      BY <1>1, <3>1, OpIs, Disjoint DEF Busy
    <3> QED
      BY <1>1, <2>1, <3>1, <3>2 DEF Refers, Created
  <2>7. \A q \in Workers : work'[q] = work[q] /\ (Busy(q) => hitch[work[q].of] \subseteq hitch'[work[q].of])
    BY <1>3, <2>2, <2>5, <2>6
  <2>8. \A o \in Owners : hitch[o] \subseteq hitch'[o] \/ Arrived(o) = {}
    BY <2>4, <2>5
  <2>9. \A o \in Owners : Fresh(o)' => Fresh(o)
    <3>1. \A d \in Campaigns : campaign'[d] = NoRow \/ d \in tasks' => campaign[d] = NoRow \/ d \in tasks
      BY <2>1 DEF Created
    <3>2. \A p \in Proposals : hitch'[p] = hitch[p]
      BY <2>5, Disjoint
    <3> QED
      BY <2>2, <3>1, <3>2, FreshKept
  <2> QED
    BY <2>2, <2>7, <2>8, <2>9, ArrivalsKept
<1>8. ASSUME NEW j \in Exports, NEW n \in Nat, QueueExport(j, n)
      PROVE  ArrivalsOK'
  <2>1. UNCHANGED <<got, work, hitch, campaign, proposal, begun>> /\ tasks' = tasks \cup {j}
    BY <1>8 DEF QueueExport
  <2>2. \A c \in Campaigns : c \in tasks' => c \in tasks
    BY <2>1, Disjoint
  <2> QED
    BY <1>5, <2>1, <2>2, FreshKept
<1>9. ASSUME NEW p \in Proposals, ExpiryPasses(p)
      PROVE  ArrivalsOK'
  <2>1. PICK r \in ProposalRow, k \in ProposalRow :
           /\ r = proposal[p] /\ proposal' = [proposal EXCEPT ![p] = k]
           /\ k.status = r.status /\ k.approved = r.approved /\ k.rejected = r.rejected
           /\ k.sent = r.sent /\ k.letters = r.letters
    BY <1>9, ExpiryIs
  <2>2. UNCHANGED <<got, work, hitch, campaign, tasks, begun>>
    BY <1>9 DEF ExpiryPasses
  <2>3. \A q \in Proposals : proposal[q] # NoRow /\ proposal[q].status = "executed" =>
          proposal'[q] # NoRow /\ proposal'[q].status = "executed"
    BY <2>1, Facts
  <2> QED
    BY <1>5, <2>2, <2>3, FreshKept
<1>10. ASSUME NEW p \in Proposals,
              NEW P \in Payloads,
              NEW channel \in Requested, Propose(p, P, channel)
       PROVE  ArrivalsOK'
  <2>1. UNCHANGED <<got, work, hitch, campaign, tasks, begun>>
    BY <1>10 DEF Propose
  <2>2. \A q \in Proposals : proposal[q] # NoRow => proposal'[q] = proposal[q]
    BY <1>10, Facts DEF Propose
  <2> QED
    BY <1>5, <2>1, <2>2, FreshKept
<1>11. ASSUME NEW w \in Workers,
              TryPortal(w) \/ TryWhatsapp(w) \/ TryProvider(w) \/ AnswerLost(w)
       PROVE  ArrivalsOK'
  <2>1. PICK v, u : Tries(w, v, u)
                   /\ (Accepts(v, u) \/ Notifies(u) \/ Refuses(u) \/ Misses(v, u))
    BY <1>11, TryDoes
  <2>2. UNCHANGED <<campaign, proposal, tasks, begun>>
    BY <1>11 DEF TryPortal, TryWhatsapp, TryProvider, AnswerLost, store
  <2> QED
    BY <2>1, <2>2, TryArrives
<1>12. ASSUME NEW w \in Workers, KeepDelivery(w)
       PROVE  ArrivalsOK'
  <2>1. PICK v, u : Keeps(w, v, u)
    BY <1>12, KeepDoes
  <2>2. UNCHANGED <<campaign, proposal, tasks, begun, hitch>>
    BY <1>12 DEF KeepDelivery
  <2> QED
    BY <2>1, <2>2, KeepArrives
<1>13. ASSUME NEW w \in Workers, work[w].op # "execute", NEW u, work' = [work EXCEPT ![w] = u]
       PROVE  \A q \in Workers : work[q].op = "execute" =>
                work'[q].op = "execute" /\ work'[q].of = work[q].of
  BY <1>1, <1>13
<1>14. ASSUME NEW w \in Workers, EndCampaign(w)
       PROVE  ArrivalsOK'
  <2>1. PICK c \in Campaigns : /\ c = work[w].of /\ work[w].op = "campaign"
                              /\ Marked(c, "pending") = {} /\ campaign[c] # NoRow
                              /\ c \notin tasks /\ Restated(c, "completed")
    BY <1>14, EndCampaignIs
  <2>2. UNCHANGED <<got, hitch, proposal, tasks, begun>> /\ work' = [work EXCEPT ![w] = Idle]
    BY <1>14 DEF EndCampaign, Continue
  <2>3. \A d \in Campaigns : campaign'[d] = NoRow => campaign[d] = NoRow
    BY <2>1, Facts DEF Restated
  <2>4. \A o \in Owners : Fresh(o)' => Fresh(o)
    BY <1>13, <2>1, <2>2, <2>3, FreshKept
  <2> QED
    BY <1>2, <1>4, <2>2, <2>4
<1>15. ASSUME NEW w \in Workers, EndSend(w)
       PROVE  ArrivalsOK'
  <2>1. UNCHANGED <<got, hitch, campaign, proposal, tasks, begun>>
        /\ work' = [work EXCEPT ![w] = Idle] /\ work[w].op = "send"
    BY <1>15 DEF EndSend, Continue, store
  <2>2. \A o \in Owners : Fresh(o)' => Fresh(o)
    BY <1>13, <2>1, FreshKept
  <2> QED
    BY <1>2, <1>4, <2>1, <2>2
<1>16. ASSUME NEW w \in Workers, EndExecute(w)
       PROVE  ArrivalsOK'
  <2>1. PICK p \in Proposals : p = work[w].of /\ proposal[p] # NoRow
    BY <1>1, <1>16, OpIs DEF EndExecute, Refers
  <2>2. PICK r \in ProposalRow : r = proposal[p]
    BY <2>1, Facts
  <2>3. PICK k : k = [r EXCEPT !.status = "executed", !.sent = work[w].sent, !.failed = work[w].failed]
    OBVIOUS
  <2>4. k.status = "executed"
    BY <2>2, <2>3 DEF ProposalRow
  <2>5. UNCHANGED <<got, hitch, campaign, tasks, begun>> /\ work' = [work EXCEPT ![w] = Idle]
        /\ proposal' = [proposal EXCEPT ![p] = k]
    BY <1>16, <2>1, <2>2, <2>3 DEF EndExecute, Continue
  <2>6. proposal'[p] = k /\ k # NoRow /\ \A q \in Proposals : q # p => proposal'[q] = proposal[q]
    <3>1. \A q \in Proposals : q # p => proposal'[q] = proposal[q]
      BY <2>5
    <3>2. proposal'[p] = k
      BY <2>5, Facts
    <3>3. k # NoRow
      <4>1. TInv'
        BY <1>16, EndExecuteTInv
      <4>2. k \in ProposalRow
        <5>1. Shaped(work[w]) /\ work[w].op = "execute"
          BY <1>1, <1>16 DEF EndExecute
        <5>2. IsDelivery(work[w])
          BY <5>1, OpIs
        <5> QED
          BY <2>2, <2>3, <5>2 DEF ProposalRow, IsDelivery
      <4> QED
        BY <4>2, Facts
    <3> QED
      BY <3>1, <3>2, <3>3
  <2>7. \A o \in Owners : Fresh(o)' => Fresh(o)
    <3>1. \A q \in Proposals :
           hitch'[q] = {} /\ proposal[q] # NoRow /\ proposal[q].status = "executed" =>
             proposal'[q] # NoRow /\ proposal'[q].status = "executed"
      BY <2>4, <2>6
    <3>2. \A q \in Workers : work[q].op = "execute" =>
           \/ work'[q].op = "execute" /\ work'[q].of = work[q].of
           \/ hitch'[work[q].of] # {}
           \/ proposal'[work[q].of] # NoRow /\ proposal'[work[q].of].status = "executed"
      BY <2>1, <2>4, <2>5, <2>6
    <3> QED
      BY <2>5, <3>1, <3>2, FreshKept
  <2> QED
    BY <1>2, <1>4, <2>5, <2>7
<1>17. ASSUME NEW w \in Workers, EndExport(w) \/ \E present \in BOOLEAN : ExportOne(w, present)
       PROVE  ArrivalsOK'
  <2>1. IsExport(work[w]) /\ work[w].op = "export"
    BY <1>1, <1>17, OpIs DEF EndExport, ExportOne
  <2>2. PICK u : work' = [work EXCEPT ![w] = u] /\ u.op \in {"none", "export"}
    <3>1. CASE EndExport(w)
      BY <1>2, <3>1 DEF EndExport, Continue
    <3>2. CASE \E present \in BOOLEAN : ExportOne(w, present)
      <4>1. PICK u : u = [work[w] EXCEPT !.done = work[w].done + 1]
        OBVIOUS
      <4>2. u.op = "export"
        BY <2>1, <4>1 DEF IsExport
      <4>3. work' = [work EXCEPT ![w] = u]
        BY <3>2, <4>1 DEF ExportOne, Continue
      <4> QED
        BY <4>2, <4>3
    <3> QED
      BY <1>17, <3>1, <3>2
  <2>3. UNCHANGED <<got, hitch, campaign, proposal, tasks, begun>>
    BY <1>17 DEF EndExport, ExportOne
  <2>4. \A o \in Owners : Fresh(o)' => Fresh(o)
    BY <1>13, <2>1, <2>2, <2>3, FreshKept
  <2>5. Reached(u)' /\ Counted(u)'
    BY <2>2, NothingFollowed
  <2> QED
    BY <1>4, <2>2, <2>3, <2>4, <2>5
<1>18. ASSUME NEW w \in Workers, DecideCommit(w)
       PROVE  ArrivalsOK'
  <2>1. PICK v, r, k :
           /\ v = work[w] /\ IsDecision(v) /\ v.of \in Proposals /\ r = proposal[v.of]
           /\ r \in ProposalRow /\ k \in ProposalRow /\ k.status = v.status
           /\ k.approved = (r.approved \/ v.status = "approved")
           /\ k.rejected = (r.rejected \/ v.status = "rejected")
           /\ proposal' = [proposal EXCEPT ![v.of] = k]
           /\ work' = [work EXCEPT ![w] = Idle]
    BY <1>18, CommitIs
  <2>2. UNCHANGED <<got, hitch, campaign, tasks, begun>> /\ work[w].op = "decide"
    BY <1>18 DEF DecideCommit
  <2>3. \A q \in Proposals :
           hitch'[q] = {} /\ proposal[q] # NoRow /\ proposal[q].status = "executed" =>
             proposal'[q] # NoRow /\ proposal'[q].status = "executed"
    <3>1. SUFFICES ASSUME NEW q \in Proposals, hitch[q] = {}, proposal[q] # NoRow,
                          proposal[q].status = "executed"
                   PROVE  proposal'[q] = proposal[q]
      BY <2>2
    <3>2. q # v.of
      BY <2>1, <2>2, <3>1 DEF DecisionsOK, InTurn, Busy
    <3> QED
      BY <2>1, <3>2
  <2>4. \A o \in Owners : Fresh(o)' => Fresh(o)
    BY <1>13, <2>1, <2>2, <2>3, FreshKept
  <2> QED
    BY <1>2, <1>4, <2>1, <2>2, <2>4
<1>19. ASSUME NEW w \in Workers, Refused(w)
       PROVE  ArrivalsOK'
  <2>1. PICK p : p = work[w].of /\ hitch'[p] = hitch[p] \cup {"stopped"}
                 /\ \A q \in Owners \cup Exports : q # p => hitch'[q] = hitch[q]
    BY <1>19, RefusedIs
  <2>2. UNCHANGED <<got, proposal, tasks, begun>> /\ work' = [work EXCEPT ![w] = Idle] /\ Busy(w)
    BY <1>19 DEF Refused, Continue
  <2>3. work'[w] = Idle /\ \A q \in Workers : q # w => work'[q] = work[q]
    BY <1>1, <2>2
  <2>4. \A d \in Campaigns : campaign[d] = NoRow <=> campaign'[d] = NoRow
    BY <1>19, RefusedIs
  <2>5. \A o \in Owners \cup Exports : hitch[o] \subseteq hitch'[o]
    BY <2>1
  <2>6. \A o \in Owners : Fresh(o)' => Fresh(o)
    <3>1. \A q \in Proposals : hitch'[q] = {} => hitch[q] = {}
      BY <2>5, Disjoint
    <3>2. \A q \in Workers : work[q].op = "execute" =>
           \/ work'[q].op = "execute" /\ work'[q].of = work[q].of
           \/ hitch'[work[q].of] # {}
      BY <2>1, <2>3
    <3> QED
      BY <2>2, <2>4, <3>1, <3>2, FreshKept
  <2>7. \A q \in Workers :
           \/ work'[q] = work[q] /\ (Busy(q) => hitch[work[q].of] \subseteq hitch'[work[q].of])
           \/ \E n : n = work'[q] /\ Reached(n)' /\ Counted(n)'
    BY <1>2, <1>3, <2>3, <2>5
  <2> QED
    BY <2>2, <2>5, <2>6, <2>7, ArrivalsKept
<1>20. ASSUME NEW w \in Workers, NEW c \in tasks, RunCampaign(w, c)
       PROVE  ArrivalsOK'
  <2>1. c \in Campaigns /\ c \in tasks /\ tasks' = tasks \ {c} /\ Restated(c, "sending")
    BY <1>20, RunCampaignIs
  <2>2. PICK u : u = Letter("campaign", c, {x \in Letters : recipient[c][x] # "none"},
                            campaign[c].channel)
    OBVIOUS
  <2>3. IsDelivery(u) /\ u.of = c /\ u.at = "next" /\ u.sent = 0
    BY <2>1, <2>2, LetterIs
  <2>4. UNCHANGED <<proposal, got, hitch, begun>> /\ work' = [work EXCEPT ![w] = u] /\ ~Busy(w)
    BY <1>20, <2>2 DEF RunCampaign, Continue
  <2>5. c \in Owners /\ Fresh(c)
    BY <2>1, Disjoint DEF Fresh
  <2>6. Arrived(c) = {}
    BY <2>5 DEF ArrivalsOK
  <2>7. Reached(u)' /\ Counted(u)'
    BY <2>3, <2>4, <2>5, <2>6, BeginsFresh, Facts
  <2>8. \A d \in Campaigns : campaign'[d] = NoRow => campaign[d] = NoRow
    BY <2>1, Facts DEF Restated
  <2>9. \A o \in Owners : Fresh(o)' => Fresh(o)
    BY <1>13, <2>1, <2>4, <2>8, FreshKept DEF Busy
  <2> QED
    BY <1>4, <2>4, <2>7, <2>9
<1>21. ASSUME NEW w \in Workers, NEW j \in Exports, NEW n \in Nat, RunExport(w, j, n)
       PROVE  ArrivalsOK'
  <2>1. PICK u : u = [op |-> "export", of |-> j, at |-> "next", done |-> 0]
    OBVIOUS
  <2>2. UNCHANGED <<campaign, proposal, got, hitch, begun>> /\ work' = [work EXCEPT ![w] = u]
        /\ ~Busy(w) /\ tasks' = tasks \ {j}
    BY <1>21, <2>1 DEF RunExport, Continue
  <2>3. Reached(u)' /\ Counted(u)'
    BY <2>1, NothingFollowed
  <2>4. \A o \in Owners : Fresh(o)' => Fresh(o)
    BY <1>13, <2>2, FreshKept DEF Busy
  <2> QED
    BY <1>4, <2>2, <2>3, <2>4
<1>22. ASSUME NEW w \in Workers, NEW m \in Sends, NEW x \in Letters, NEW channel \in Requested,
              SendMessage(w, m, x, channel)
       PROVE  ArrivalsOK'
  <2>1. PICK u : u = Letter("send", m, {x}, channel)
    OBVIOUS
  <2>2. IsDelivery(u) /\ u.of = m /\ u.at = "next" /\ u.sent = 0
    <3>1. {x} \in SUBSET Letters
      OBVIOUS
    <3> QED
      BY <2>1, <3>1, LetterIs
  <2>3. UNCHANGED <<campaign, proposal, got, hitch, tasks>> /\ work' = [work EXCEPT ![w] = u]
        /\ ~Busy(w) /\ m \notin begun /\ begun' = begun \cup {m}
    BY <1>22, <2>1 DEF SendMessage, Continue, store
  <2>4. m \in Owners /\ Fresh(m)
    BY <2>3, Disjoint DEF Fresh
  <2>5. Arrived(m) = {}
    BY <2>4 DEF ArrivalsOK
  <2>8. Arrived(u.of) = {} /\ got' = got /\ \A y \in Letters : got[u.of][y] \in Nat
    BY <2>2, <2>3, <2>4, <2>5, Facts
  <2>6. Reached(u)' /\ Counted(u)'
    BY <2>2, <2>8, BeginsFresh
  <2>7. \A o \in Owners : Fresh(o)' => Fresh(o)
    BY <1>13, <2>3, FreshKept DEF Busy
  <2> QED
    BY <1>4, <2>3, <2>6, <2>7
<1>23. ASSUME NEW w \in Workers, NEW p \in Proposals, hitch' = Crosses(w, p), ~Busy(w),
              UNCHANGED <<campaign, proposal, got, tasks, begun>>,
              NEW u, work' = [work EXCEPT ![w] = u], Reached(u)', Counted(u)'
       PROVE  ArrivalsOK'
  <2>1. work'[w] = u /\ \A q \in Workers : q # w => work'[q] = work[q]
    BY <1>1, <1>23
  <2>2. \A o \in Owners \cup Exports : hitch[o] \subseteq hitch'[o]
    <3>1. SUFFICES ASSUME NEW o \in Owners \cup Exports PROVE hitch[o] \subseteq hitch'[o]
      OBVIOUS
    <3>2. CASE o = p
      BY <1>23, <3>2, CrossesIs
    <3>3. CASE o # p
      BY <1>23, <3>3, CrossesIs
    <3> QED
      BY <3>2, <3>3
  <2>3. \A q \in Workers :
           \/ work'[q] = work[q] /\ (Busy(q) => hitch[work[q].of] \subseteq hitch'[work[q].of])
           \/ \E n : n = work'[q] /\ Reached(n)' /\ Counted(n)'
    BY <1>3, <1>23, <2>1, <2>2
  <2>4. \A o \in Owners : Fresh(o)' => Fresh(o)
    <3>1. \A q \in Proposals : hitch'[q] = {} => hitch[q] = {}
      BY <2>2, Disjoint
    <3> QED
      BY <1>13, <1>23, <3>1, FreshKept DEF Busy
  <2> QED
    BY <1>23, <2>2, <2>3, <2>4, ArrivalsKept
<1>24. ASSUME NEW w \in Workers, NEW p \in Proposals,
              ApproveRead(w, p) \/ RejectRead(w, p) \/ ListRead(w, p) \/ ExecuteLate(w, p)
       PROVE  ArrivalsOK'
  <2>1. PICK to \in {"approved", "rejected", "expired"} :
           /\ Decide(w, p, to) /\ proposal[p] # NoRow
           /\ to # "expired" => proposal[p].status = "proposed"
           /\ proposal[p].status \in {"proposed", "approved"}
    BY <1>24, DecisionReads
  <2>2. PICK u : /\ IsDecision(u) /\ u.op = "decide" /\ u.of = p /\ u.status = to
                 /\ work' = [work EXCEPT ![w] = u]
    BY <2>1, DecideIs
  <2>3. hitch' = Crosses(w, p) /\ UNCHANGED <<campaign, proposal, got, tasks, begun>> /\ ~Busy(w)
    BY <2>1 DEF Decide, store
  <2>4. Reached(u)' /\ Counted(u)'
    BY <2>2, NothingFollowed
  <2> QED
    BY <1>23, <2>2, <2>3, <2>4
<1>25. ASSUME NEW w \in Workers, NEW p \in Proposals, Execute(w, p)
       PROVE  ArrivalsOK'
  <2>1. PICK u : /\ IsDelivery(u) /\ u.op = "execute" /\ u.of = p /\ u.at = "next" /\ u.sent = 0
                 /\ u.todo = proposal[p].letters /\ u.status = "failed"
                 /\ work' = [work EXCEPT ![w] = u]
    BY <1>25, ExecuteIs
  <2>2. hitch' = Crosses(w, p) /\ UNCHANGED <<campaign, proposal, got, tasks, begun>> /\ ~Busy(w)
        /\ proposal[p].status = "approved"
    BY <1>25 DEF Execute, MayExecute, store
  <2>3. Reached(u)' /\ Counted(u)'
    <3>1. CASE hitch'[p] = {}
      <4>1. hitch[p] = {} /\ Others(w, p) = {}
        BY <2>2, <3>1, CrossesIs
      <4>2. \A q \in Workers : work[q].op = "execute" => work[q].of # p
        BY <2>2, <4>1 DEF Others, Busy
      <4>3. Arrived(p) = {}
        BY <2>2, <4>1, <4>2, FreshProposal
      <4> QED
        BY <2>1, <2>2, <4>3, BeginsFresh, Facts, Disjoint
    <3>2. CASE hitch'[p] # {}
      BY <2>1, <3>2 DEF Reached, Counted, Follows
    <3> QED
      BY <3>1, <3>2
  <2> QED
    BY <1>23, <2>1, <2>2, <2>3
<1>26. ASSUME Stop
       PROVE  ArrivalsOK'
  <2>1. UNCHANGED <<got, campaign, proposal, begun>> /\ tasks' = {} /\ \A q \in Workers : work'[q] = Idle
    BY <1>26 DEF Stop, store
  <2>2. \A o \in Owners \cup Exports : hitch[o] \subseteq hitch'[o]
    BY <1>26, StopIs
  <2>3. \A q \in Workers : Busy(q) => hitch'[work[q].of] # {}
    BY <1>26, StopIs
  <2>4. \A o \in Owners : Fresh(o)' => Fresh(o)
    <3>1. \A q \in Proposals : hitch'[q] = {} => hitch[q] = {}
      BY <2>2, Disjoint
    <3> QED
      BY <2>1, <2>3, <3>1, FreshKept DEF Busy
  <2> QED
    BY <1>2, <2>1, <2>2, <2>4, ArrivalsKept
<1> QED
  BY <1>6, <1>7, <1>8, <1>9, <1>10, <1>11, <1>12, <1>14, <1>15, <1>16, <1>17, <1>18,
     <1>19, <1>20, <1>21, <1>22, <1>24, <1>25, <1>26, CreateArrives, MarkArrives, StepIs


----------------------------------------------------------------------------------
(* What campaigns say of their recipients                                         *)

LEMMA CampaignKept ==
  ASSUME TInv, NEW c \in Campaigns, CampaignOK(c), recipient'[c] = recipient[c],
         campaign'[c] # NoRow =>
           /\ campaign[c] # NoRow
           /\ campaign'[c].sent_count = campaign[c].sent_count
           /\ campaign'[c].failed_count = campaign[c].failed_count
           /\ campaign'[c].status = "completed" =>
                campaign[c].status = "completed" \/ Marked(c, "pending") = {},
         "lost" \in hitch[c] => "lost" \in hitch'[c],
         \A x \in Letters : \/ got'[c][x] = got[c][x]
                            \/ got'[c][x] = got[c][x] + 1 /\ recipient[c][x] # "failed"
  PROVE  CampaignOK(c)'
<1>1. \A status : Marked(c, status)' = Marked(c, status)
  BY DEF Marked
<1>2. c \in Owners
  BY Disjoint
<1>3. \A x \in Marked(c, "sent") : got[c][x] > 0 => got'[c][x] > 0
  <2>1. SUFFICES ASSUME NEW x \in Letters, got[c][x] > 0 PROVE got'[c][x] > 0
    BY DEF Marked
  <2>2. got[c][x] \in Nat
    BY <1>2, Facts
  <2> QED
    BY <2>1, <2>2
<1>4. \A x \in Marked(c, "failed") : got'[c][x] = got[c][x]
  BY DEF Marked
<1>5. SUFFICES ASSUME campaign'[c] # NoRow
               PROVE  /\ campaign'[c].sent_count = Cardinality(Marked(c, "sent")')
                      /\ campaign'[c].failed_count = Cardinality(Marked(c, "failed")')
                      /\ campaign'[c].status = "completed" => Marked(c, "pending")' = {}
                      /\ \A x \in Marked(c, "sent")' : got'[c][x] > 0
                      /\ \A x \in Marked(c, "failed")' : got'[c][x] = 0 \/ "lost" \in hitch'[c]
  BY DEF CampaignOK
<1> QED
  BY <1>1, <1>3, <1>4, <1>5 DEF CampaignOK

\* A letter arrives, or not, for a recipient that is not marked yet.
LEMMA CampaignsDelivered ==
  ASSUME TInv, CampaignsOK, NEW w \in Workers, NEW v, v = work[w], IsDelivery(v), v.at # "next",
         UNCHANGED <<campaign, recipient>>, got' = got \/ Gets(v.of, v.letter),
         hitch' = hitch \/ Loses(v.of)
  PROVE  CampaignsOK'
<1>1. SUFFICES ASSUME NEW c \in Campaigns PROVE CampaignOK(c)'
  BY DEF CampaignsOK
<1>2. c \in Owners /\ CampaignOK(c) /\ v.of \in Owners /\ v.letter \in Letters /\ Refers(v)
  BY Disjoint, OfIs, Facts DEF CampaignsOK
<1>3. "lost" \in hitch[c] => "lost" \in hitch'[c]
  BY <1>2 DEF Loses
<1>4. v.of = c => recipient[c][v.letter] = "pending"
  <2>1. v.of = c => v.op = "campaign" /\ v.letter \in v.todo
    BY Disjoint DEF IsDelivery
  <2> QED
    BY <1>2, <2>1 DEF Refers, Marked
<1>5. \A x \in Letters : \/ got'[c][x] = got[c][x]
                         \/ got'[c][x] = got[c][x] + 1 /\ recipient[c][x] # "failed"
  <2>1. SUFFICES ASSUME NEW x \in Letters, Gets(v.of, v.letter)
                 PROVE  \/ got'[c][x] = got[c][x]
                        \/ got'[c][x] = got[c][x] + 1 /\ recipient[c][x] # "failed"
    OBVIOUS
  <2>2. CASE c = v.of /\ x = v.letter
    BY <1>4, <2>1, <2>2 DEF Gets
  <2>3. CASE c # v.of \/ x # v.letter
    BY <1>2, <2>1, <2>3 DEF Gets
  <2> QED
    BY <2>2, <2>3
<1> QED
  BY <1>2, <1>3, <1>5, CampaignKept

LEMMA MarkCampaigns ==
  ASSUME TInv, ArrivalsOK, CampaignsOK, NEW w \in Workers, MarkRecipient(w)
  PROVE  CampaignsOK'
<1>1. PICK v, u, status, k : Marks(w, v, u, status, k)
  BY MarkIs
<1>2. PICK c \in Campaigns, x \in Letters : c = v.of /\ x = v.letter
  BY <1>1 DEF Marks
<1>3. c \in Owners /\ UNCHANGED <<got, hitch>>
  BY Disjoint DEF MarkRecipient
<1>4. ASSUME NEW d \in Campaigns, d # c PROVE CampaignOK(d)'
  <2>1. campaign'[d] = campaign[d] /\ recipient'[d] = recipient[d]
    BY <1>1, <1>2, <1>4, Facts DEF Marks
  <2> QED
    BY <1>3, <2>1, CampaignKept DEF CampaignsOK
<1>5. CampaignOK(c)'
  <2>1. PICK r : r = campaign[c] /\ r \in CampaignRow /\ campaign'[c] = k
    BY <1>1, <1>2, Facts DEF Marks
  <2>2. r.sent_count = Cardinality(Marked(c, "sent")) /\ r.failed_count = Cardinality(Marked(c, "failed"))
        /\ r.sent_count \in Nat /\ r.failed_count \in Nat
        /\ (\A y \in Marked(c, "sent") : got[c][y] > 0)
        /\ \A y \in Marked(c, "failed") : got[c][y] = 0 \/ "lost" \in hitch[c]
    BY <2>1, Facts DEF CampaignsOK, CampaignOK, CampaignRow
  <2>3. recipient[c][x] = "pending"
    BY <1>1, <1>2 DEF Marks, Refers, Marked
  <2>4. recipient'[c][x] = status /\ \A y \in Letters : y # x => recipient'[c][y] = recipient[c][y]
    BY <1>1, <1>2, Facts DEF Marks
  <2>5. status \in {"sent", "failed"} /\ (status = "failed" <=> v.status = "failed")
    BY <1>1 DEF Marks
  <2>6. x \notin Marked(c, "sent") /\ x \notin Marked(c, "failed")
        /\ IsFiniteSet(Marked(c, "sent")) /\ IsFiniteSet(Marked(c, "failed"))
    BY <2>3, LettersAreFinite, FS_Subset DEF Marked
  <2>7. v.at = "mark" /\ v.op = "campaign" /\ v.status \in {"failed", "sent", "delivered"} /\ Reached(v)
    BY <1>1 DEF Marks, IsDelivery, ArrivalsOK
  <2>8. /\ k.status = "sending"
        /\ k.sent_count = r.sent_count + IF status = "sent" THEN 1 ELSE 0
        /\ k.failed_count = r.failed_count + IF status = "sent" THEN 0 ELSE 1
    BY <1>1, <1>2, <2>1 DEF Marks
  <2>9. CASE status = "sent"
    <3>1. Marked(c, "sent")' = Marked(c, "sent") \cup {x} /\ Marked(c, "failed")' = Marked(c, "failed")
      BY <2>3, <2>4, <2>9 DEF Marked
    <3>2. got[c][x] > 0
      BY <1>2, <2>5, <2>7, <2>9 DEF Reached, Follows
    <3>3. Cardinality(Marked(c, "sent")') = Cardinality(Marked(c, "sent")) + 1
      BY <2>6, <3>1, FS_AddElement
    <3>4. k.sent_count = r.sent_count + 1 /\ k.failed_count = r.failed_count
      BY <2>2, <2>8, <2>9
    <3> QED
      BY <1>3, <2>1, <2>2, <2>8, <3>1, <3>2, <3>3, <3>4 DEF CampaignOK
  <2>10. CASE status = "failed"
    <3>1. Marked(c, "failed")' = Marked(c, "failed") \cup {x} /\ Marked(c, "sent")' = Marked(c, "sent")
      BY <2>3, <2>4, <2>10 DEF Marked
    <3>2. got[c][x] = 0 \/ "lost" \in hitch[c]
      BY <1>2, <2>5, <2>7, <2>10 DEF Reached, Follows
    <3>3. Cardinality(Marked(c, "failed")') = Cardinality(Marked(c, "failed")) + 1
      BY <2>6, <3>1, FS_AddElement
    <3>4. k.failed_count = r.failed_count + 1 /\ k.sent_count = r.sent_count
      BY <2>2, <2>8, <2>10
    <3> QED
      BY <1>3, <2>1, <2>2, <2>8, <3>1, <3>2, <3>3, <3>4 DEF CampaignOK
  <2> QED
    BY <2>5, <2>9, <2>10
<1> QED
  BY <1>4, <1>5 DEF CampaignsOK

\* The row of a campaign is written, and nothing else of it.
LEMMA CampaignsRestated ==
  ASSUME TInv, CampaignsOK, NEW c \in Campaigns, NEW status, Restated(c, status),
         status = "completed" => Marked(c, "pending") = {}, UNCHANGED <<recipient, got, hitch>>
  PROVE  CampaignsOK'
<1>1. PICK r \in CampaignRow, k \in CampaignRow :
        /\ r = campaign[c] /\ campaign' = [campaign EXCEPT ![c] = k] /\ k.status = status
        /\ k.sent_count = r.sent_count /\ k.failed_count = r.failed_count
  BY DEF Restated
<1>2. campaign'[c] = k /\ campaign[c] # NoRow /\ \A d \in Campaigns : d # c => campaign'[d] = campaign[d]
  BY <1>1, Facts
<1>3. SUFFICES ASSUME NEW d \in Campaigns PROVE CampaignOK(d)'
  BY DEF CampaignsOK
<1>4. CASE d = c
  BY <1>1, <1>2, <1>4, CampaignKept DEF CampaignsOK
<1>5. CASE d # c
  BY <1>2, <1>5, CampaignKept DEF CampaignsOK
<1> QED
  BY <1>4, <1>5

LEMMA CreateCampaigns ==
  ASSUME TInv, CampaignsOK, NEW c \in Campaigns, Created(c), got' = got
  PROVE  CampaignsOK'
<1>1. ASSUME NEW d \in Campaigns, d # c PROVE CampaignOK(d)'
  <2>1. d \in Owners
    BY Disjoint
  <2>2. campaign'[d] = campaign[d] /\ recipient'[d] = recipient[d] /\ hitch'[d] = hitch[d]
    BY <1>1, <2>1 DEF Created
  <2> QED
    BY <2>2, CampaignKept DEF CampaignsOK
<1>2. CampaignOK(c)'
  <2>1. Marked(c, "sent")' = {} /\ Marked(c, "failed")' = {}
    BY DEF Created, Marked
  <2>2. campaign'[c].sent_count = 0 /\ campaign'[c].failed_count = 0 /\ campaign'[c].status = "queued"
    BY DEF Created
  <2> QED
    BY <2>1, <2>2, FS_EmptySet DEF CampaignOK
<1> QED
  BY <1>1, <1>2 DEF CampaignsOK


LEMMA StepCampaigns ==
  ASSUME TInv, ArrivalsOK, CampaignsOK, Next
  PROVE  CampaignsOK'
<1>1. ASSUME UNCHANGED <<campaign, recipient, got>>,
             \A c \in Campaigns : "lost" \in hitch[c] => "lost" \in hitch'[c]
      PROVE  CampaignsOK'
  BY <1>1, CampaignKept DEF CampaignsOK
<1>2. ASSUME NEW g \in Guardians, NEW W \in Wishes, UpdatePreferences(g, W)
      PROVE  CampaignsOK'
  BY <1>1, <1>2 DEF UpdatePreferences, store
<1>3. ASSUME NEW c \in Campaigns, NEW S \in SUBSET Students, NEW channel \in Requested,
             NEW kept \in BOOLEAN, CreateCampaign(c, S, channel, kept)
      PROVE  CampaignsOK'
  <2>1. got' = got
    BY <1>3 DEF CreateCampaign
  <2> QED
    BY <1>3, <2>1, CreateCampaignIs, CreateCampaigns
<1>4. ASSUME NEW j \in Exports, NEW n \in Nat, QueueExport(j, n)
      PROVE  CampaignsOK'
  BY <1>1, <1>4 DEF QueueExport
<1>5. ASSUME NEW p \in Proposals, ExpiryPasses(p)
      PROVE  CampaignsOK'
  BY <1>1, <1>5 DEF ExpiryPasses
<1>6. ASSUME NEW p \in Proposals, NEW P \in Payloads, NEW channel \in Requested, Propose(p, P, channel)
      PROVE  CampaignsOK'
  BY <1>1, <1>6 DEF Propose
<1>7. ASSUME NEW w \in Workers, NEW x \in Letters, CreateDelivery(w, x)
      PROVE  CampaignsOK'
  BY <1>1, <1>7 DEF CreateDelivery, store
<1>8. ASSUME NEW w \in Workers,
             TryPortal(w) \/ TryWhatsapp(w) \/ TryProvider(w) \/ AnswerLost(w)
      PROVE  CampaignsOK'
  <2>1. PICK v, u : Tries(w, v, u)
                    /\ (Accepts(v, u) \/ Notifies(u) \/ Refuses(u) \/ Misses(v, u))
    BY <1>8, TryDoes
  <2>2. UNCHANGED <<campaign, recipient>>
    BY <1>8 DEF TryPortal, TryWhatsapp, TryProvider, AnswerLost, store
  <2>3. v = work[w] /\ IsDelivery(v) /\ v.at # "next"
    BY <2>1 DEF Tries
  <2>4. (got' = got \/ Gets(v.of, v.letter)) /\ (hitch' = hitch \/ Loses(v.of))
    BY <2>1 DEF Accepts, Notifies, Refuses, Misses
  <2> QED
    BY <2>2, <2>3, <2>4, CampaignsDelivered
<1>9. ASSUME NEW w \in Workers, KeepDelivery(w)
      PROVE  CampaignsOK'
  <2>1. PICK v, u : Keeps(w, v, u)
    BY <1>9, KeepDoes
  <2>2. UNCHANGED <<campaign, recipient, hitch>>
    BY <1>9 DEF KeepDelivery
  <2>3. v = work[w] /\ IsDelivery(v) /\ v.at # "next" /\ (got' = got \/ Gets(v.of, v.letter))
    BY <2>1 DEF Keeps
  <2> QED
    BY <2>2, <2>3, CampaignsDelivered
<1>10. ASSUME NEW w \in Workers, EndCampaign(w)
       PROVE  CampaignsOK'
  <2>1. PICK c \in Campaigns : Marked(c, "pending") = {} /\ Restated(c, "completed")
    BY <1>10, EndCampaignIs
  <2>2. UNCHANGED <<recipient, got, hitch>>
    BY <1>10 DEF EndCampaign
  <2> QED
    BY <2>1, <2>2, CampaignsRestated
<1>11. ASSUME NEW w \in Workers, EndSend(w) \/ EndExecute(w) \/ DecideCommit(w)
       PROVE  CampaignsOK'
  BY <1>1, <1>11 DEF EndSend, EndExecute, DecideCommit, store
<1>12. ASSUME NEW w \in Workers, EndExport(w) \/ \E present \in BOOLEAN : ExportOne(w, present)
       PROVE  CampaignsOK'
  BY <1>1, <1>12 DEF EndExport, ExportOne
<1>13. ASSUME NEW w \in Workers, Refused(w)
       PROVE  CampaignsOK'
  <2>1. UNCHANGED <<recipient, got>>
    BY <1>13 DEF Refused
  <2>2. PICK o \in Owners \cup Exports :
          /\ hitch'[o] = hitch[o] \cup {"stopped"}
          /\ \A q \in Owners \cup Exports : q # o => hitch'[q] = hitch[q]
          /\ \A d \in Campaigns : campaign[d] = NoRow <=> campaign'[d] = NoRow
          /\ \A d \in Campaigns : campaign[d] # NoRow =>
               /\ campaign'[d].sent_count = campaign[d].sent_count
               /\ campaign'[d].failed_count = campaign[d].failed_count
               /\ campaign'[d] = campaign[d] \/ campaign'[d].status = "failed"
    BY <1>13, RefusedIs
  <2>3. SUFFICES ASSUME NEW c \in Campaigns PROVE CampaignOK(c)'
    BY DEF CampaignsOK
  <2>4. "lost" \in hitch[c] => "lost" \in hitch'[c]
    BY <2>2, Disjoint
  <2>5. campaign'[c] # NoRow =>
           /\ campaign[c] # NoRow
           /\ campaign'[c].sent_count = campaign[c].sent_count
           /\ campaign'[c].failed_count = campaign[c].failed_count
           /\ campaign'[c].status = "completed" => campaign[c].status = "completed"
    BY <2>2
  <2> QED
    BY <2>1, <2>4, <2>5, CampaignKept DEF CampaignsOK
<1>14. ASSUME NEW w \in Workers, NEW c \in tasks, RunCampaign(w, c)
       PROVE  CampaignsOK'
  <2>1. UNCHANGED <<recipient, got, hitch>>
    BY <1>14 DEF RunCampaign
  <2>2. c \in Campaigns /\ Restated(c, "sending")
    BY <1>14, RunCampaignIs
  <2> QED
    BY <2>1, <2>2, CampaignsRestated
<1>15. ASSUME NEW w \in Workers, NEW j, NEW n, RunExport(w, j, n)
       PROVE  CampaignsOK'
  BY <1>1, <1>15 DEF RunExport
<1>16. ASSUME NEW w \in Workers, NEW m \in Sends, NEW x \in Letters, NEW channel \in Requested,
              SendMessage(w, m, x, channel)
       PROVE  CampaignsOK'
  BY <1>1, <1>16 DEF SendMessage, store
<1>17. ASSUME NEW w \in Workers, NEW p \in Proposals, hitch' = Crosses(w, p),
              UNCHANGED <<campaign, recipient, got>>
       PROVE  CampaignsOK'
  <2>1. \A c \in Campaigns : hitch'[c] = hitch[c]
    BY <1>17, CrossesIs, Disjoint
  <2> QED
    BY <1>1, <1>17, <2>1
<1>18. ASSUME NEW w \in Workers, NEW p \in Proposals,
              ApproveRead(w, p) \/ RejectRead(w, p) \/ ListRead(w, p) \/ ExecuteLate(w, p)
       PROVE  CampaignsOK'
  <2>1. PICK to : Decide(w, p, to)
    BY <1>18, DecisionReads
  <2> QED
    BY <1>17, <2>1 DEF Decide, store
<1>19. ASSUME NEW w \in Workers, NEW p \in Proposals, Execute(w, p)
       PROVE  CampaignsOK'
  BY <1>17, <1>19 DEF Execute, store
<1>20. ASSUME Stop
       PROVE  CampaignsOK'
  <2>1. UNCHANGED <<campaign, recipient, got>>
    BY <1>20 DEF Stop, store
  <2>2. \A c \in Campaigns : hitch[c] \subseteq hitch'[c]
    BY <1>20, StopIs, Disjoint
  <2> QED
    BY <1>1, <2>1, <2>2
<1> QED
  BY <1>2, <1>3, <1>4, <1>5, <1>6, <1>7, <1>8, <1>9, <1>10, <1>11, <1>12, <1>13, <1>14,
     <1>15, <1>16, <1>18, <1>19, <1>20, MarkCampaigns, StepIs


----------------------------------------------------------------------------------
(* What an executed proposal says that it sent                                    *)

LEMMA ExecutedKept ==
  ASSUME ExecutedOK, NEW p \in Proposals,
         proposal'[p] # NoRow /\ proposal'[p].status = "executed" /\ hitch'[p] = {} =>
           /\ proposal[p] # NoRow /\ proposal[p].status = "executed" /\ hitch[p] = {}
           /\ proposal'[p].sent = proposal[p].sent
           /\ \A x \in Letters : got'[p][x] = got[p][x]
  PROVE  proposal'[p] # NoRow /\ proposal'[p].status = "executed" /\ hitch'[p] = {} =>
           proposal'[p].sent = Cardinality(Arrived(p)')
<1>1. (\A x \in Letters : got'[p][x] = got[p][x]) => Arrived(p)' = Arrived(p)
  BY DEF Arrived
<1> QED
  BY <1>1 DEF ExecutedOK

\* What is executed is not executed any more, so that nothing arrives for it.
LEMMA ExecutedDelivered ==
  ASSUME TInv, DecisionsOK, ExecutedOK, NEW w \in Workers, NEW v, v = work[w], IsDelivery(v),
         proposal' = proposal, got' = got \/ Gets(v.of, v.letter), hitch' = hitch \/ Loses(v.of)
  PROVE  ExecutedOK'
<1>1. SUFFICES ASSUME NEW p \in Proposals
               PROVE  proposal'[p] # NoRow /\ proposal'[p].status = "executed" /\ hitch'[p] = {} =>
                        proposal'[p].sent = Cardinality(Arrived(p)')
  BY DEF ExecutedOK
<1>2. p \in Owners /\ v.of \in Owners
  BY Disjoint DEF IsDelivery
<1>3. hitch'[p] = {} => hitch[p] = {}
  BY <1>2 DEF Loses
<1>4. proposal[p].status = "executed" /\ hitch[p] = {} => v.of # p
  <2>1. v.of = p => v.op = "execute"
    BY Disjoint DEF IsDelivery
  <2> QED
    BY <2>1 DEF DecisionsOK, InTurn, Busy, IsDelivery
<1>5. v.of # p => \A x \in Letters : got'[p][x] = got[p][x]
  BY <1>2 DEF Gets
<1> QED
  BY <1>3, <1>4, <1>5, ExecutedKept

LEMMA EndExecuted ==
  ASSUME TInv, ArrivalsOK, ExecutedOK, NEW w \in Workers, EndExecute(w)
  PROVE  ExecutedOK'
<1>1. PICK v : v = work[w] /\ IsDelivery(v) /\ v.op = "execute" /\ v.at = "next" /\ v.todo = {}
               /\ v.of \in Proposals /\ Counted(v)
  <2>1. work[w].op = "execute" /\ work[w].at = "next" /\ work[w].todo = {}
    BY DEF EndExecute, At
  <2> QED
    BY <2>1, Facts, OpIs DEF ArrivalsOK
<1>2. UNCHANGED <<got, hitch>>
  BY DEF EndExecute
<1>3. PICK r \in ProposalRow : r = proposal[v.of]
  BY <1>1, Facts DEF Refers
<1>4. PICK k : /\ k = [r EXCEPT !.status = "executed", !.sent = v.sent, !.failed = v.failed]
               /\ proposal' = [proposal EXCEPT ![v.of] = k]
  BY <1>1, <1>3 DEF EndExecute
<1>5. k.sent = v.sent
  BY <1>3, <1>4 DEF ProposalRow
<1>6. proposal'[v.of] = k /\ \A p \in Proposals : p # v.of => proposal'[p] = proposal[p]
  BY <1>1, <1>4, Facts
<1>7. SUFFICES ASSUME NEW p \in Proposals
               PROVE  proposal'[p] # NoRow /\ proposal'[p].status = "executed" /\ hitch'[p] = {} =>
                        proposal'[p].sent = Cardinality(Arrived(p)')
  BY DEF ExecutedOK
<1>8. CASE p = v.of
  <2>1. {x \in Arrived(p) : ~InHand(v, x)} = Arrived(p) /\ Arrived(p)' = Arrived(p)
    BY <1>1, <1>2 DEF Arrived, InHand
  <2>2. hitch[p] = {} => v.sent = Cardinality(Arrived(p))
    BY <1>1, <1>8, <2>1 DEF Counted
  <2> QED
    BY <1>2, <1>5, <1>6, <1>8, <2>1, <2>2
<1>9. CASE p # v.of
  BY <1>2, <1>6, <1>9, ExecutedKept
<1> QED
  BY <1>8, <1>9

LEMMA StepExecuted ==
  ASSUME TInv, DecisionsOK, ArrivalsOK, ExecutedOK, Next
  PROVE  ExecutedOK'
<1>1. ASSUME UNCHANGED <<proposal, got>>, \A p \in Proposals : hitch'[p] = {} => hitch[p] = {}
      PROVE  ExecutedOK'
  <2>1. SUFFICES ASSUME NEW p \in Proposals
                 PROVE  proposal'[p] # NoRow /\ proposal'[p].status = "executed" /\ hitch'[p] = {} =>
                          proposal'[p].sent = Cardinality(Arrived(p)')
    BY DEF ExecutedOK
  <2> QED
    BY <1>1, ExecutedKept
<1>2. ASSUME NEW p \in Proposals, NEW k, proposal' = [proposal EXCEPT ![p] = k],
             UNCHANGED <<got, hitch>>,
             k.status = "executed" =>
               proposal[p] # NoRow /\ proposal[p].status = "executed" /\ k.sent = proposal[p].sent
      PROVE  ExecutedOK'
  <2>1. SUFFICES ASSUME NEW q \in Proposals
                 PROVE  proposal'[q] # NoRow /\ proposal'[q].status = "executed" /\ hitch'[q] = {} =>
                          proposal'[q].sent = Cardinality(Arrived(q)')
    BY DEF ExecutedOK
  <2>2. proposal'[p] = k /\ \A d \in Proposals : d # p => proposal'[d] = proposal[d]
    BY <1>2, Facts
  <2>3. CASE q = p
    BY <1>2, <2>2, <2>3, ExecutedKept
  <2>4. CASE q # p
    BY <1>2, <2>2, <2>4, ExecutedKept
  <2> QED
    BY <2>3, <2>4
<1>3. ASSUME NEW g \in Guardians, NEW W \in Wishes, UpdatePreferences(g, W)
      PROVE  ExecutedOK'
  BY <1>1, <1>3 DEF UpdatePreferences, store
<1>4. ASSUME NEW c \in Campaigns, NEW S \in SUBSET Students, NEW channel \in Requested,
             NEW kept \in BOOLEAN, CreateCampaign(c, S, channel, kept)
      PROVE  ExecutedOK'
  <2>1. UNCHANGED <<proposal, got>>
    BY <1>4 DEF CreateCampaign
  <2>3. Created(c)
    BY <1>4, CreateCampaignIs
  <2>2. \A p \in Proposals : hitch'[p] = hitch[p]
    BY <2>3, Disjoint DEF Created
  <2> QED
    BY <1>1, <2>1, <2>2
<1>5. ASSUME NEW j \in Exports, NEW n \in Nat, QueueExport(j, n)
      PROVE  ExecutedOK'
  BY <1>1, <1>5 DEF QueueExport
<1>6. ASSUME NEW p \in Proposals, ExpiryPasses(p)
      PROVE  ExecutedOK'
  <2>1. PICK r \in ProposalRow, k \in ProposalRow :
           /\ r = proposal[p] /\ proposal' = [proposal EXCEPT ![p] = k]
           /\ k.status = r.status /\ k.approved = r.approved /\ k.rejected = r.rejected
           /\ k.sent = r.sent /\ k.letters = r.letters
    BY <1>6, ExpiryIs
  <2>2. UNCHANGED <<got, hitch>> /\ proposal[p] # NoRow
    BY <1>6 DEF ExpiryPasses
  <2> QED
    BY <1>2, <2>1, <2>2
<1>7. ASSUME NEW p \in Proposals, NEW P \in Payloads, NEW channel \in Requested, Propose(p, P, channel)
      PROVE  ExecutedOK'
  <2>1. UNCHANGED <<got, hitch>> /\ proposal' = [proposal EXCEPT ![p] = Undecided(P, channel)]
    BY <1>7 DEF Propose
  <2>2. Undecided(P, channel).status = "proposed"
    BY DEF Undecided
  <2> QED
    BY <1>2, <2>1, <2>2
<1>8. ASSUME NEW w \in Workers, NEW x \in Letters, CreateDelivery(w, x)
      PROVE  ExecutedOK'
  BY <1>1, <1>8 DEF CreateDelivery, store
<1>9. ASSUME NEW w \in Workers,
             TryPortal(w) \/ TryWhatsapp(w) \/ TryProvider(w) \/ AnswerLost(w)
      PROVE  ExecutedOK'
  <2>1. PICK v, u : Tries(w, v, u)
                    /\ (Accepts(v, u) \/ Notifies(u) \/ Refuses(u) \/ Misses(v, u))
    BY <1>9, TryDoes
  <2>2. proposal' = proposal
    BY <1>9 DEF TryPortal, TryWhatsapp, TryProvider, AnswerLost, store
  <2>3. v = work[w] /\ IsDelivery(v)
    BY <2>1 DEF Tries
  <2>4. (got' = got \/ Gets(v.of, v.letter)) /\ (hitch' = hitch \/ Loses(v.of))
    BY <2>1 DEF Accepts, Notifies, Refuses, Misses
  <2> QED
    BY <2>2, <2>3, <2>4, ExecutedDelivered
<1>10. ASSUME NEW w \in Workers, KeepDelivery(w)
       PROVE  ExecutedOK'
  <2>1. PICK v, u : Keeps(w, v, u)
    BY <1>10, KeepDoes
  <2>2. UNCHANGED <<proposal, hitch>>
    BY <1>10 DEF KeepDelivery
  <2>3. v = work[w] /\ IsDelivery(v) /\ (got' = got \/ Gets(v.of, v.letter))
    BY <2>1 DEF Keeps
  <2> QED
    BY <2>2, <2>3, ExecutedDelivered
<1>11. ASSUME NEW w \in Workers, MarkRecipient(w) \/ EndCampaign(w) \/ EndSend(w)
       PROVE  ExecutedOK'
  BY <1>1, <1>11 DEF MarkRecipient, EndCampaign, EndSend, store
<1>12. ASSUME NEW w \in Workers, EndExport(w) \/ \E present \in BOOLEAN : ExportOne(w, present)
       PROVE  ExecutedOK'
  BY <1>1, <1>12 DEF EndExport, ExportOne
<1>13. ASSUME NEW w \in Workers, DecideCommit(w)
       PROVE  ExecutedOK'
  <2>1. PICK v, r, k :
           /\ v = work[w] /\ IsDecision(v) /\ v.of \in Proposals /\ r = proposal[v.of]
           /\ r \in ProposalRow /\ k \in ProposalRow /\ k.status = v.status
           /\ k.approved = (r.approved \/ v.status = "approved")
           /\ k.rejected = (r.rejected \/ v.status = "rejected")
           /\ proposal' = [proposal EXCEPT ![v.of] = k]
           /\ work' = [work EXCEPT ![w] = Idle]
    BY <1>13, CommitIs
  <2>2. UNCHANGED <<got, hitch>> /\ k.status # "executed"
    BY <1>13, <2>1 DEF DecideCommit, IsDecision
  <2> QED
    BY <1>2, <2>1, <2>2
<1>14. ASSUME NEW w \in Workers, Refused(w)
       PROVE  ExecutedOK'
  <2>1. UNCHANGED <<proposal, got>>
    BY <1>14 DEF Refused
  <2>2. PICK o \in Owners \cup Exports :
          /\ hitch'[o] = hitch[o] \cup {"stopped"}
          /\ \A q \in Owners \cup Exports : q # o => hitch'[q] = hitch[q]
    BY <1>14, RefusedIs
  <2>3. \A p \in Proposals : hitch'[p] = {} => hitch[p] = {}
    BY <2>2, Disjoint
  <2> QED
    BY <1>1, <2>1, <2>3
<1>15. ASSUME NEW w \in Workers, NEW c \in tasks, RunCampaign(w, c)
       PROVE  ExecutedOK'
  BY <1>1, <1>15 DEF RunCampaign
<1>16. ASSUME NEW w \in Workers, NEW j, NEW n, RunExport(w, j, n)
       PROVE  ExecutedOK'
  BY <1>1, <1>16 DEF RunExport
<1>17. ASSUME NEW w \in Workers, NEW m \in Sends, NEW x \in Letters, NEW channel \in Requested,
              SendMessage(w, m, x, channel)
       PROVE  ExecutedOK'
  BY <1>1, <1>17 DEF SendMessage, store
<1>18. ASSUME NEW w \in Workers, NEW p \in Proposals, hitch' = Crosses(w, p),
              UNCHANGED <<proposal, got>>
       PROVE  ExecutedOK'
  <2>1. \A q \in Proposals : hitch'[q] = {} => hitch[q] = {}
    <3>1. hitch'[p] = {} => hitch[p] = {}
      BY <1>18, CrossesIs
    <3>2. \A q \in Proposals : q # p => hitch'[q] = hitch[q]
      BY <1>18, CrossesIs, Disjoint
    <3> QED
      BY <3>1, <3>2
  <2> QED
    BY <1>1, <1>18, <2>1
<1>19. ASSUME NEW w \in Workers, NEW p \in Proposals,
              ApproveRead(w, p) \/ RejectRead(w, p) \/ ListRead(w, p) \/ ExecuteLate(w, p)
       PROVE  ExecutedOK'
  <2>1. PICK to : Decide(w, p, to)
    BY <1>19, DecisionReads
  <2> QED
    BY <1>18, <2>1 DEF Decide, store
<1>20. ASSUME NEW w \in Workers, NEW p \in Proposals, Execute(w, p)
       PROVE  ExecutedOK'
  BY <1>18, <1>20 DEF Execute, store
<1>21. ASSUME Stop
       PROVE  ExecutedOK'
  <2>1. UNCHANGED <<proposal, got>>
    BY <1>21 DEF Stop, store
  <2>2. \A p \in Proposals : hitch[p] \subseteq hitch'[p]
    BY <1>21, StopIs, Disjoint
  <2> QED
    BY <1>1, <2>1, <2>2
<1> QED
  BY <1>3, <1>4, <1>5, <1>6, <1>7, <1>8, <1>9, <1>10, <1>11, <1>12, <1>13, <1>14,
     <1>15, <1>16, <1>17, <1>19, <1>20, <1>21, EndExecuted, StepIs

----------------------------------------------------------------------------------
(* Every letter of a proposal, and every invoice without anybody, is counted.     *)

\* A row of a proposal says the same as before, or is not that of an executed one.
SameTotal(p) ==
  proposal[p] # NoRow =>
    /\ proposal'[p] # NoRow
    /\ proposal'[p].letters = proposal[p].letters /\ proposal'[p].nobody = proposal[p].nobody
SameCount(p) ==
  proposal'[p] # NoRow /\ proposal'[p].status = "executed" =>
    \/ proposal'[p].sent + proposal'[p].failed = Due(p)'
    \/ /\ proposal[p] # NoRow /\ proposal[p].status = "executed"
       /\ proposal'[p].sent = proposal[p].sent /\ proposal'[p].failed = proposal[p].failed

LEMMA TotalsKept ==
  ASSUME TInv, TotalsOK, \A p \in Proposals : SameTotal(p) /\ SameCount(p),
         \A w \in Workers : \/ work'[w] = work[w]
                            \/ work'[w].op # "execute"
                            \/ SameJob(work[w], work'[w])
                            \/ CountsUp(work[w])'
  PROVE  TotalsOK'
<1>1. \A p \in Proposals : proposal[p] # NoRow => Due(p)' = Due(p)
  BY DEF SameTotal, Due
<1>2. ASSUME NEW w \in Workers
      PROVE  CountsUp(work[w])'
  <2>1. CASE work'[w] = work[w] \/ SameJob(work[w], work'[w])
    <3>1. SUFFICES ASSUME work'[w].op = "execute"
                   PROVE  work'[w].sent + work'[w].failed + Cardinality(work'[w].todo)
                            = Due(work[w].of)'
      BY DEF CountsUp
    <3>2. work[w].op = "execute" /\ work'[w].of = work[w].of /\ work'[w].sent = work[w].sent
          /\ work'[w].failed = work[w].failed /\ work'[w].todo = work[w].todo
      BY <2>1, <3>1 DEF SameJob
    <3>3. work[w].of \in Proposals /\ proposal[work[w].of] # NoRow
      BY <3>2, Facts, OpIs DEF Refers
    <3>4. work[w].sent + work[w].failed + Cardinality(work[w].todo) = Due(work[w].of)
      BY <3>2 DEF TotalsOK, CountsUp
    <3> QED
      BY <1>1, <3>2, <3>3, <3>4
  <2>2. CASE work'[w].op # "execute"
    BY <2>2 DEF CountsUp
  <2> QED
    BY <2>1, <2>2
<1>3. ASSUME NEW p \in Proposals, proposal'[p] # NoRow, proposal'[p].status = "executed"
      PROVE  proposal'[p].sent + proposal'[p].failed = Due(p)'
  BY <1>1, <1>3 DEF TotalsOK, SameCount
<1> QED
  BY <1>2, <1>3 DEF TotalsOK

\* What one thread does, when the proposals keep what they say
LEMMA TotalsStep ==
  ASSUME TInv, TotalsOK, NEW w \in Workers, NEW u, work' = [work EXCEPT ![w] = u],
         u.op # "execute" \/ SameJob(work[w], u) \/ CountsUp(u)',
         \A p \in Proposals : SameTotal(p) /\ SameCount(p)
  PROVE  TotalsOK'
<1>1. work'[w] = u /\ \A q \in Workers : q # w => work'[q] = work[q]
  BY Facts
<1>2. u.op # "execute" \/ SameJob(work[w], u) \/ CountsUp(work[w])'
  BY <1>1
<1> QED
  BY <1>1, <1>2, TotalsKept

LEMMA SameProposals ==
  ASSUME proposal' = proposal
  PROVE  \A p \in Proposals : SameTotal(p) /\ SameCount(p)
BY DEF SameTotal, SameCount

\* One letter less to send, and one more that is counted
LEMMA KeepTotals ==
  ASSUME TInv, TotalsOK, NEW w \in Workers, KeepDelivery(w)
  PROVE  TotalsOK'
<1>1. PICK v, u : /\ v = work[w] /\ IsDelivery(v) /\ v.at = "keep"
                  /\ work' = [work EXCEPT ![w] = u] /\ IsDelivery(u)
                  /\ u.op = v.op /\ u.of = v.of
                  /\ \/ /\ v.op = "campaign" /\ SameJob(v, u)
                     \/ /\ v.op # "campaign" /\ u.todo = v.todo \ {v.letter}
                        /\ u.sent = v.sent + IF v.status = "failed" THEN 0 ELSE 1
                        /\ u.failed = v.failed + IF v.status = "failed" THEN 1 ELSE 0
  BY KeepIs
<1>2. proposal' = proposal
  BY DEF KeepDelivery
<1>3. ASSUME v.op = "execute"
      PROVE  CountsUp(u)'
  <2>1. IsFiniteSet(v.todo) /\ v.letter \in v.todo
    BY <1>1, LettersAreFinite, FS_Subset DEF IsDelivery
  <2>2. Cardinality(u.todo) = Cardinality(v.todo) - 1 /\ Cardinality(v.todo) \in Nat
    BY <1>1, <1>3, <2>1, FS_RemoveElement, FS_CardinalityType
  <2>3. v.sent + v.failed + Cardinality(v.todo) = Due(v.of)
    BY <1>1, <1>3 DEF TotalsOK, CountsUp
  <2>4. u.sent + u.failed = v.sent + v.failed + 1 /\ {v.sent, v.failed, u.sent, u.failed} \subseteq Nat
    BY <1>1, <1>3 DEF IsDelivery
  <2>5. u.sent + u.failed + Cardinality(u.todo) = v.sent + v.failed + Cardinality(v.todo)
    BY <2>2, <2>4
  <2>6. Due(u.of)' = Due(v.of)
    BY <1>1, <1>2 DEF Due
  <2> QED
    BY <2>3, <2>5, <2>6 DEF CountsUp
<1> QED
  BY <1>1, <1>2, <1>3, SameProposals, TotalsStep

LEMMA ExecuteTotals ==
  ASSUME TInv, TotalsOK, NEW w \in Workers, NEW p \in Proposals, Execute(w, p)
  PROVE  TotalsOK'
<1>1. PICK u : /\ u.of = p /\ u.sent = 0 /\ u.todo = proposal[p].letters
               /\ work' = [work EXCEPT ![w] = u] /\ u.failed = proposal[p].nobody
  BY ExecuteIs
<1>2. proposal' = proposal
  BY DEF Execute, store
<1>3. proposal[p] \in ProposalRow
  BY Facts DEF Execute
<1>4. proposal[p].nobody \in Nat /\ Cardinality(proposal[p].letters) \in Nat
  BY <1>3, LettersAreFinite, FS_Subset, FS_CardinalityType DEF ProposalRow
<1>5. CountsUp(u)'
  BY <1>1, <1>2, <1>4 DEF CountsUp, Due
<1> QED
  BY <1>1, <1>2, <1>5, SameProposals, TotalsStep

LEMMA EndExecuteTotals ==
  ASSUME TInv, TotalsOK, NEW w \in Workers, EndExecute(w)
  PROVE  TotalsOK'
<1>1. PICK v : v = work[w] /\ IsDelivery(v) /\ v.op = "execute" /\ v.todo = {}
               /\ v.of \in Proposals /\ proposal[v.of] # NoRow /\ CountsUp(v)
  <2>1. work[w].op = "execute" /\ work[w].todo = {}
    BY DEF EndExecute
  <2> QED
    BY <2>1, Facts, OpIs DEF TotalsOK, Refers
<1>2. PICK r \in ProposalRow : r = proposal[v.of]
  BY <1>1, Facts
<1>3. PICK k : /\ k = [r EXCEPT !.status = "executed", !.sent = v.sent, !.failed = v.failed]
               /\ proposal' = [proposal EXCEPT ![v.of] = k]
  BY <1>1, <1>2 DEF EndExecute
<1>4. k.sent = v.sent /\ k.failed = v.failed /\ k.letters = r.letters /\ k.nobody = r.nobody
      /\ k \in ProposalRow
  BY <1>1, <1>2, <1>3 DEF ProposalRow, IsDelivery
<1>5. proposal'[v.of] = k /\ k # NoRow /\ \A p \in Proposals : p # v.of => proposal'[p] = proposal[p]
  BY <1>1, <1>3, <1>4, Facts
<1>6. v.sent + v.failed = Due(v.of)
  BY <1>1, FS_EmptySet DEF CountsUp, IsDelivery
<1>7. \A p \in Proposals : SameTotal(p) /\ SameCount(p)
  BY <1>1, <1>2, <1>4, <1>5, <1>6 DEF SameTotal, SameCount, Due
<1>8. work' = [work EXCEPT ![w] = Idle] /\ Idle.op # "execute"
  BY DEF EndExecute, Continue, Idle
<1> QED
  BY <1>7, <1>8, TotalsStep

\* A proposal is changed, and no thread is at work on it that was not.
LEMMA CommitTotals ==
  ASSUME TInv, TotalsOK, NEW w \in Workers, DecideCommit(w)
  PROVE  TotalsOK'
<1>1. PICK v, r, k :
        /\ v = work[w] /\ IsDecision(v) /\ v.of \in Proposals /\ r = proposal[v.of]
        /\ r \in ProposalRow /\ k \in ProposalRow /\ k.status = v.status
        /\ k.letters = r.letters /\ k.nobody = r.nobody
        /\ proposal' = [proposal EXCEPT ![v.of] = k]
        /\ work' = [work EXCEPT ![w] = Idle]
  BY CommitIs
<1>2. proposal'[v.of] = k /\ k # NoRow /\ \A p \in Proposals : p # v.of => proposal'[p] = proposal[p]
  BY <1>1, Facts
<1>3. k.status # "executed"
  BY <1>1 DEF IsDecision
<1>4. \A p \in Proposals : SameTotal(p) /\ SameCount(p)
  BY <1>1, <1>2, <1>3 DEF SameTotal, SameCount
<1>5. Idle.op # "execute"
  BY DEF Idle
<1> QED
  BY <1>1, <1>4, <1>5, TotalsStep

LEMMA StepTotals ==
  ASSUME TInv, TotalsOK, Next
  PROVE  TotalsOK'
<1>1. ASSUME UNCHANGED work, \A p \in Proposals : SameTotal(p) /\ SameCount(p)
      PROVE  TotalsOK'
  BY <1>1, TotalsKept
<1>2. ASSUME NEW w \in Workers, NEW u, Continue(w, u), u.op # "execute", proposal' = proposal
      PROVE  TotalsOK'
  BY <1>2, SameProposals, TotalsStep DEF Continue
<1>3. ASSUME NEW g \in Guardians, NEW W \in Wishes, UpdatePreferences(g, W)
      PROVE  TotalsOK'
  BY <1>1, <1>3, SameProposals DEF UpdatePreferences, store
<1>4. ASSUME NEW c \in Campaigns, NEW S \in SUBSET Students, NEW channel \in Requested,
             NEW kept \in BOOLEAN, CreateCampaign(c, S, channel, kept)
      PROVE  TotalsOK'
  BY <1>1, <1>4, SameProposals DEF CreateCampaign
<1>5. ASSUME NEW j \in Exports, NEW n \in Nat, QueueExport(j, n)
      PROVE  TotalsOK'
  BY <1>1, <1>5, SameProposals DEF QueueExport
<1>6. ASSUME NEW p \in Proposals, ExpiryPasses(p)
      PROVE  TotalsOK'
  <2>1. PICK r \in ProposalRow, k \in ProposalRow :
           /\ r = proposal[p] /\ proposal' = [proposal EXCEPT ![p] = k]
           /\ k.status = r.status /\ k.sent = r.sent /\ k.letters = r.letters
           /\ k.failed = r.failed /\ k.nobody = r.nobody
    BY <1>6, ExpiryIs
  <2>2. proposal'[p] = k /\ k # NoRow /\ \A q \in Proposals : q # p => proposal'[q] = proposal[q]
    BY <2>1, Facts
  <2>3. proposal[p] # NoRow /\ work' = work
    BY <1>6 DEF ExpiryPasses
  <2>4. \A q \in Proposals : SameTotal(q) /\ SameCount(q)
    BY <2>1, <2>2, <2>3 DEF SameTotal, SameCount
  <2> QED
    BY <1>1, <2>3, <2>4
<1>7. ASSUME NEW p \in Proposals, NEW P \in Payloads, NEW channel \in Requested, Propose(p, P, channel)
      PROVE  TotalsOK'
  <2>1. proposal[p] = NoRow /\ work' = work /\ proposal'[p] = Undecided(P, channel)
        /\ \A q \in Proposals : q # p => proposal'[q] = proposal[q]
    BY <1>7, Facts DEF Propose
  <2>2. Undecided(P, channel).status # "executed"
    BY DEF Undecided
  <2>3. \A q \in Proposals : SameTotal(q) /\ SameCount(q)
    BY <2>1, <2>2 DEF SameTotal, SameCount
  <2> QED
    BY <1>1, <2>1, <2>3
<1>8. ASSUME NEW w \in Workers, NEW x \in Letters, CreateDelivery(w, x)
      PROVE  TotalsOK'
  <2>1. PICK v, u : v = work[w] /\ work' = [work EXCEPT ![w] = u] /\ SameJob(v, u)
    BY <1>8, CreateIs
  <2>2. proposal' = proposal
    BY <1>8 DEF CreateDelivery, store
  <2> QED
    BY <2>1, <2>2, SameProposals, TotalsStep
<1>9. ASSUME NEW w \in Workers,
             TryPortal(w) \/ TryWhatsapp(w) \/ TryProvider(w) \/ AnswerLost(w)
      PROVE  TotalsOK'
  <2>1. PICK v, u : Tries(w, v, u)
    BY <1>9, TryDoes
  <2>2. proposal' = proposal
    BY <1>9 DEF TryPortal, TryWhatsapp, TryProvider, AnswerLost, store
  <2> QED
    BY <2>1, <2>2, SameProposals, TotalsStep DEF Tries
<1>10. ASSUME NEW w \in Workers, MarkRecipient(w)
       PROVE  TotalsOK'
  <2>1. Letter("campaign", work[w].of, Rest(w), work[w].requested).op # "execute"
    BY DEF Letter
  <2> QED
    BY <1>2, <1>10, <2>1 DEF MarkRecipient
<1>11. ASSUME NEW w \in Workers, EndCampaign(w) \/ EndSend(w) \/ EndExport(w) \/ Refused(w)
       PROVE  TotalsOK'
  <2>1. Idle.op # "execute" /\ Continue(w, Idle) /\ proposal' = proposal
    BY <1>11 DEF EndCampaign, EndSend, EndExport, Refused, Idle, store
  <2> QED
    BY <1>2, <2>1
<1>12. ASSUME NEW w \in Workers, NEW present \in BOOLEAN, ExportOne(w, present)
       PROVE  TotalsOK'
  <2>1. work[w].op = "export" /\ IsExport(work[w])
    BY <1>12, Facts, OpIs DEF ExportOne
  <2>2. [work[w] EXCEPT !.done = work[w].done + 1].op # "execute"
    BY <2>1 DEF IsExport
  <2>3. Continue(w, [work[w] EXCEPT !.done = work[w].done + 1]) /\ proposal' = proposal
    BY <1>12 DEF ExportOne
  <2> QED
    BY <1>2, <2>2, <2>3
<1>13. ASSUME NEW w \in Workers, NEW c \in tasks, RunCampaign(w, c)
       PROVE  TotalsOK'
  <2>1. PICK T, channel : Continue(w, Letter("campaign", c, T, channel))
    BY <1>13 DEF RunCampaign
  <2>2. Letter("campaign", c, T, channel).op # "execute"
    BY DEF Letter
  <2>3. proposal' = proposal
    BY <1>13 DEF RunCampaign
  <2> QED
    BY <1>2, <2>1, <2>2, <2>3
<1>14. ASSUME NEW w \in Workers, NEW j, NEW n, RunExport(w, j, n)
       PROVE  TotalsOK'
  BY <1>2, <1>14 DEF RunExport
<1>15. ASSUME NEW w \in Workers, NEW m \in Sends, NEW x \in Letters, NEW channel \in Requested,
              SendMessage(w, m, x, channel)
       PROVE  TotalsOK'
  <2>1. Letter("send", m, {x}, channel).op # "execute"
    BY DEF Letter
  <2>2. Continue(w, Letter("send", m, {x}, channel)) /\ proposal' = proposal
    BY <1>15 DEF SendMessage, store
  <2> QED
    BY <1>2, <2>1, <2>2
<1>16. ASSUME NEW w \in Workers, NEW p \in Proposals,
              ApproveRead(w, p) \/ RejectRead(w, p) \/ ListRead(w, p) \/ ExecuteLate(w, p)
       PROVE  TotalsOK'
  <2>1. PICK to : Decide(w, p, to)
    BY <1>16, DecisionReads
  <2>2. [op |-> "decide", of |-> p, status |-> to].op # "execute"
    OBVIOUS
  <2> QED
    BY <1>2, <2>1, <2>2 DEF Decide, store
<1>17. ASSUME Stop
       PROVE  TotalsOK'
  <2>1. proposal' = proposal /\ \A w \in Workers : work'[w] = Idle
    BY <1>17 DEF Stop, store
  <2>2. Idle.op # "execute"
    BY DEF Idle
  <2> QED
    BY <2>1, <2>2, SameProposals, TotalsKept
<1> QED
  BY <1>3, <1>4, <1>5, <1>6, <1>7, <1>8, <1>9, <1>10, <1>11, <1>12, <1>13, <1>14, <1>15, <1>16,
     <1>17, KeepTotals, ExecuteTotals, EndExecuteTotals, CommitTotals, StepIs

----------------------------------------------------------------------------------
(* The invariant is inductive                                                     *)

LEMMA InitOK ==
  ASSUME Init
  PROVE  IInv
<1>1. /\ \A c \in Campaigns : campaign[c] = NoRow
      /\ \A p \in Proposals : proposal[p] = NoRow
      /\ \A o \in Owners, x \in Letters : got[o][x] = 0 /\ row[o][x].sent = 0
      /\ \A w \in Workers : work[w] = Idle
      /\ Idle.op = "none"
  BY DEF Init, Idle
<1>2. TypeOK
  <2>1. /\ campaign \in [Campaigns -> CampaignRow \cup {NoRow}]
        /\ recipient \in [Campaigns -> [Letters -> {"none", "pending", "sent", "failed"}]]
        /\ proposal \in [Proposals -> ProposalRow \cup {NoRow}]
        /\ job \in [Exports -> JobRow \cup {NoRow}]
        /\ \A j \in Exports : job[j] = NoRow
    BY DEF Init
  <2>2. /\ row \in [Owners -> [Letters -> [sent : Nat, failed : Nat]]]
        /\ got \in [Owners -> [Letters -> Nat]]
    BY DEF Init
  <2>3. hitch \in [Owners \cup Exports -> SUBSET {"lost", "stopped", "crossed"}]
    BY DEF Init
  <2>4. uses \in Services /\ wish \in [Guardians -> Wishes]
    BY MessagingAssumption DEF Init
  <2>5. wishes \in 0..MaxWishes /\ decisions \in 0..MaxDecisions /\ faults \in 0..MaxFaults
    BY MessagingAssumption DEF Init
  <2>6. tasks \subseteq Campaigns \cup Exports /\ begun \subseteq Sends
    BY DEF Init
  <2> QED
    BY <2>1, <2>2, <2>3, <2>4, <2>5, <2>6 DEF TypeOK
<1>3. SessionsOK /\ TasksOK
  BY <1>1 DEF Init, SessionsOK, TasksOK, Refers, Busy
<1>4. CountsOK
  <2>1. SUFFICES ASSUME NEW o \in Owners, NEW x \in Letters PROVE Balanced(o, x)
    BY DEF CountsOK
  <2>2. Owing(o, x) = {}
    BY <1>1 DEF Owing, Owes
  <2> QED
    BY <1>1, <2>2, FS_EmptySet DEF Balanced
<1>5. DecisionsOK
  BY <1>1, Disjoint DEF DecisionsOK, Standing, InTurn, Busy
<1>6. ArrivalsOK
  BY <1>1 DEF ArrivalsOK, Reached, Counted, Follows, Arrived, NoDoubles
<1>7. CampaignsOK /\ ExecutedOK /\ TotalsOK
  BY <1>1 DEF CampaignsOK, CampaignOK, ExecutedOK, TotalsOK, CountsUp
<1> QED
  BY <1>2, <1>3, <1>4, <1>5, <1>6, <1>7 DEF IInv, TInv

LEMMA StutterOK ==
  ASSUME IInv, UNCHANGED vars
  PROVE  IInv'
<1>1. TInv'
  BY StutterTInv DEF IInv
<1>2. UNCHANGED <<campaign, recipient, proposal, row, got, tasks, begun, work, hitch>>
  BY DEF vars, store
<1>3. CountsOK'
  BY <1>2 DEF IInv, CountsOK, Balanced, Owing, Owes
<1>4. DecisionsOK'
  BY <1>2 DEF IInv, DecisionsOK, Standing, InTurn, Busy
<1>5. ArrivalsOK'
  <2>1. \A o \in Owners : Fresh(o)' => Fresh(o)
    BY <1>2 DEF Fresh
  <2>2. \A q \in Workers :
           work'[q] = work[q] /\ (Busy(q) => hitch[work[q].of] \subseteq hitch'[work[q].of])
    BY <1>2
  <2> QED
    BY <1>2, <2>1, <2>2, ArrivalsKept DEF IInv
<1>6. CampaignsOK' /\ ExecutedOK' /\ TotalsOK'
  BY <1>2 DEF IInv, CampaignsOK, CampaignOK, Marked, ExecutedOK, Arrived, TotalsOK, CountsUp, Due
<1> QED
  BY <1>1, <1>3, <1>4, <1>5, <1>6 DEF IInv

LEMMA StepOK ==
  ASSUME IInv, [Next]_vars
  PROVE  IInv'
<1>1. CASE Next
  BY <1>1, StepTInv, StepCounts, StepDecisions, StepArrivals, StepCampaigns, StepExecuted, StepTotals
     DEF IInv
<1>2. CASE UNCHANGED vars
  BY <1>2, StutterOK
<1> QED
  BY <1>1, <1>2

LEMMA Invariant == Spec => []IInv
BY InitOK, StepOK, PTL DEF Spec

LEMMA Reports == IInv => ReportIsTrue
<1>1. SUFFICES ASSUME IInv PROVE ReportIsTrue
  OBVIOUS
<1>2. ASSUME NEW o \in Owners, NEW x \in Letters, got[o][x] > row[o][x].sent,
             hitch[o] \cap {"lost", "stopped"} = {}
      PROVE  Handling(o, x)
  <2>1. /\ got[o][x] = row[o][x].sent + Cardinality(Owing(o, x))
        /\ row[o][x].sent \in Nat /\ Cardinality(Owing(o, x)) \in Nat
    BY <1>1, <1>2, NumbersAre DEF IInv, CountsOK, Balanced
  <2>2. Cardinality(Owing(o, x)) # 0
    BY <1>2, <2>1
  <2>3. PICK w \in Workers : Owes(work[w], o, x)
    BY <2>2, FS_EmptySet DEF Owing
  <2>4. Shaped(work[w])
    BY <1>1, Facts DEF IInv
  <2>5. PICK v : v = work[w] /\ IsDelivery(v) /\ v.of = o /\ v.letter = x /\ v.op # "none"
    BY <2>3, <2>4, OpIs DEF Owes
  <2>6. "letter" \in DOMAIN v
    BY <2>5 DEF IsDelivery
  <2> QED
    BY <2>5, <2>6 DEF Handling, Busy
<1> QED
  BY <1>1, <1>2 DEF ReportIsTrue, IInv, CampaignsOK, CampaignOK, ExecutedOK, Arrived, TotalsOK, Due

LEMMA OnceOnly == IInv => OnceAndApproved
BY DEF IInv, ArrivalsOK, DecisionsOK, Standing, InTurn, OnceAndApproved, NothingUnapproved

\* One step of DecidedOnce
Decided ==
  \A p \in Proposals :
    proposal[p] # NoRow /\ proposal[p].status \in {"rejected", "executed", "expired"}
    => proposal'[p].status = proposal[p].status \/ "crossed" \in hitch'[p]

LEMMA StepDecided ==
  ASSUME IInv, Next
  PROVE  Decided
<1>1. TInv /\ DecisionsOK /\ \A w \in Workers : Shaped(work[w]) /\ Refers(work[w])
  BY Facts DEF IInv
<1>2. ASSUME proposal' = proposal PROVE Decided
  BY <1>2 DEF Decided
<1>3. ASSUME NEW p \in Proposals, \A q \in Proposals : q # p => proposal'[q] = proposal[q],
             \/ proposal[p] = NoRow
             \/ proposal'[p].status = proposal[p].status
             \/ "crossed" \in hitch'[p]
             \/ proposal[p].status \in {"proposed", "approved"}
      PROVE  Decided
  BY <1>3 DEF Decided
<1>4. ASSUME NEW p \in Proposals, ExpiryPasses(p)
      PROVE  Decided
  <2>1. PICK r \in ProposalRow, k \in ProposalRow :
           /\ r = proposal[p] /\ proposal' = [proposal EXCEPT ![p] = k]
           /\ k.status = r.status /\ k.approved = r.approved /\ k.rejected = r.rejected
           /\ k.sent = r.sent /\ k.letters = r.letters
    BY <1>1, <1>4, ExpiryIs
  <2>2. proposal'[p] = k /\ \A q \in Proposals : q # p => proposal'[q] = proposal[q]
    BY <1>1, <2>1, Facts
  <2> QED
    BY <1>3, <2>1, <2>2
<1>5. ASSUME NEW p \in Proposals, NEW P \in Payloads, NEW channel \in Requested, Propose(p, P, channel)
      PROVE  Decided
  <2>1. proposal[p] = NoRow /\ \A q \in Proposals : q # p => proposal'[q] = proposal[q]
    BY <1>1, <1>5, Facts DEF Propose
  <2> QED
    BY <1>3, <2>1
<1>6. ASSUME NEW w \in Workers, EndExecute(w)
      PROVE  Decided
  <2>1. work[w].op = "execute"
    BY <1>6 DEF EndExecute
  <2>2. PICK p \in Proposals : p = work[w].of
    BY <1>1, <2>1, OpIs
  <2>3. hitch' = hitch /\ \A q \in Proposals : q # p => proposal'[q] = proposal[q]
    BY <1>1, <1>6, <2>2, Facts DEF EndExecute
  <2>4. "crossed" \in hitch[p] \/ proposal[p].status = "approved"
    BY <1>1, <2>1, <2>2 DEF DecisionsOK, InTurn, Busy
  <2> QED
    BY <1>3, <2>3, <2>4
<1>7. ASSUME NEW w \in Workers, DecideCommit(w)
      PROVE  Decided
  <2>1. work[w].op = "decide"
    BY <1>7 DEF DecideCommit
  <2>2. PICK p \in Proposals : p = work[w].of
    BY <1>1, <2>1, OpIs
  <2>3. hitch' = hitch /\ \A q \in Proposals : q # p => proposal'[q] = proposal[q]
    BY <1>1, <1>7, <2>2, Facts DEF DecideCommit
  <2>4. "crossed" \in hitch[p] \/ proposal[p].status \in {"proposed", "approved"}
    BY <1>1, <2>1, <2>2 DEF DecisionsOK, InTurn, Busy
  <2> QED
    BY <1>3, <2>3, <2>4
<1>8. ASSUME NEW g \in Guardians, NEW W \in Wishes, UpdatePreferences(g, W)
      PROVE  Decided
  BY <1>2, <1>8 DEF UpdatePreferences, store
<1>9. ASSUME NEW c \in Campaigns, NEW S \in SUBSET Students, NEW channel \in Requested,
             NEW kept \in BOOLEAN, CreateCampaign(c, S, channel, kept)
      PROVE  Decided
  BY <1>2, <1>9 DEF CreateCampaign
<1>10. ASSUME NEW j \in Exports, NEW n \in Nat, QueueExport(j, n)
       PROVE  Decided
  BY <1>2, <1>10 DEF QueueExport
<1>11. ASSUME NEW w \in Workers, NEW x \in Letters, CreateDelivery(w, x)
       PROVE  Decided
  BY <1>2, <1>11 DEF CreateDelivery, store
<1>12. ASSUME NEW w \in Workers,
              \/ TryPortal(w) \/ TryWhatsapp(w) \/ TryProvider(w) \/ AnswerLost(w)
              \/ KeepDelivery(w) \/ MarkRecipient(w) \/ EndCampaign(w) \/ EndSend(w)
       PROVE  Decided
  BY <1>2, <1>12 DEF TryPortal, TryWhatsapp, TryProvider, AnswerLost, KeepDelivery, MarkRecipient,
                     EndCampaign, EndSend, store
<1>13. ASSUME NEW w \in Workers, EndExport(w) \/ \E present \in BOOLEAN : ExportOne(w, present)
       PROVE  Decided
  BY <1>2, <1>13 DEF EndExport, ExportOne
<1>14. ASSUME NEW w \in Workers, Refused(w)
       PROVE  Decided
  BY <1>2, <1>14 DEF Refused
<1>15. ASSUME NEW w \in Workers, NEW c \in tasks, RunCampaign(w, c)
       PROVE  Decided
  BY <1>2, <1>15 DEF RunCampaign
<1>16. ASSUME NEW w \in Workers, NEW j, NEW n, RunExport(w, j, n)
       PROVE  Decided
  BY <1>2, <1>16 DEF RunExport
<1>17. ASSUME NEW w \in Workers, NEW m \in Sends, NEW x \in Letters, NEW channel \in Requested,
              SendMessage(w, m, x, channel)
       PROVE  Decided
  BY <1>2, <1>17 DEF SendMessage, store
<1>18. ASSUME NEW w \in Workers, NEW p \in Proposals,
              ApproveRead(w, p) \/ RejectRead(w, p) \/ ListRead(w, p) \/ ExecuteLate(w, p)
       PROVE  Decided
  <2>1. PICK to : Decide(w, p, to)
    BY <1>18, DecisionReads
  <2> QED
    BY <1>2, <2>1 DEF Decide, store
<1>19. ASSUME NEW w \in Workers, NEW p \in Proposals, Execute(w, p)
       PROVE  Decided
  BY <1>2, <1>19 DEF Execute, store
<1>20. ASSUME Stop
       PROVE  Decided
  BY <1>2, <1>20 DEF Stop, store
<1> QED
  BY <1>4, <1>5, <1>6, <1>7, <1>8, <1>9, <1>10, <1>11, <1>12, <1>13, <1>14, <1>15, <1>16,
     <1>17, <1>18, <1>19, <1>20, StepIs

----------------------------------------------------------------------------------
(* The theorems                                                                   *)

\* Everything that is kept has its type, and an export has made no more bulletins than
\* it was asked for (queue_class_bulletin_export, _run_class_bulletin_export).
THEOREM TypeCorrect == Spec => []TypeOK
<1>1. IInv => TypeOK
  BY DEF IInv, TInv
<1> QED
  BY <1>1, Invariant, PTL

\* What is reported is what happened (deliver, _run_campaign, execute): a message that
\* left has a delivery that says so, unless its thread was interrupted or did not get the
\* answer; what a campaign or an executed proposal counts as sent is what arrived, and it
\* counts every letter and every invoice of its payload (_execute_finance_reminder).
THEOREM ReportsAreTrue == Spec => []ReportIsTrue
BY Invariant, Reports, PTL

\* Nobody receives a letter (of a reminder: for one invoice) twice, unless a provider's answer was lost or the executions
\* of a proposal crossed or were interrupted, and nothing of a proposal leaves before it
\* was approved (approve, execute).
THEOREM OnceApproved == Spec => []OnceAndApproved
BY Invariant, OnceOnly, PTL

\* A proposal that was rejected, executed or expired stays so, unless two requests for it
\* crossed (approve, reject, execute, _expire_if_needed).
THEOREM StaysDecided == Spec => DecidedOnce
<1>1. IInv /\ [Next]_vars => [Decided]_vars
  BY StepDecided
<1> QED
  BY <1>1, Invariant, PTL DEF DecidedOnce, Decided, Spec
================================================================================
