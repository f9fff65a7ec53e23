------------------------ MODULE MCSubscriptionLedger ------------------------
(* Model values for TLC: two peers are enough for every pair that shares a *)
(* name, and four requests for a subscribe, a join, a drop and one more.   *)
EXTENDS SubscriptionLedger
=============================================================================
