------------------------------- MODULE MCFinance -------------------------------
(* Instances of Finance for TLC: one invoice of 2 with payments of 1 and 2; and a  *)
(* subscription with a month of two days, a year of three.                        *)
EXTENDS Finance, TLC

CONSTANTS b1, p1, p2, key1

\* p1 has a key of its own; p2 settles b1 alone.
OneBill == [r \in Asked |-> b1]
AmountsAsked == [r \in Asked |-> IF r = p2 THEN 2 ELSE 1]
OwnKey == [r \in Asked |-> IF r = p1 THEN key1 ELSE NoKey]
DueTwo == [i \in Bills |-> 2]

Prices == ("monthly" :> 2) @@ ("annual" :> 3)
Days == ("monthly" :> 2) @@ ("annual" :> 3)
Separately == {{"payments"}, {"webhooks"}, {"lifecycle"}}
Bounds == [u \in Separately |-> IF u = {"webhooks"} THEN 5 ELSE 4]
Alike == Permutations(Requests) \cup Permutations(Invoices) \cup Permutations(Payments)
           \cup Permutations(Events)
Threads == Permutations(Workers)

\* When no request runs, an invoice that is not settled is listed among the unpaid, after
\* the cancellation of a payment too (Payments: cancel_payment, refresh_invoice_status).
UnpaidIsListed == part = "fees" => Fees!UnpaidIsListed
================================================================================
