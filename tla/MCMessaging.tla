------------------------------ MODULE MCMessaging ------------------------------
(* Instance of Messaging for TLC: of three students one has a second contact and   *)
(* two invoices, and one has an invoice and nobody to write to.                     *)
EXTENDS Messaging, TLC

CONSTANTS g1, g2, s1, s2, s3, i1, i2, i3

Contacts == (s1 :> {g1, g2}) @@ (s2 :> {g1}) @@ (s3 :> {})
FirstContact == (s1 :> {g1}) @@ (s2 :> {}) @@ (s3 :> {})
InvoiceOf == (i1 :> s1) @@ (i2 :> s1) @@ (i3 :> s3)
Means == (g1 :> {"phone", "account", "subscribed"}) @@ (g2 :> {"phone"})
AllOrSome == {Everything, {"transactional", "sms"}, Everything \ {"transactional"}}
Separately == {{"campaigns"}, {"proposals"}, {"exports"}}
================================================================================
