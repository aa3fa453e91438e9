------------------------------- MODULE MCFare -------------------------------
(* A small instance of Fare for TLC.                                       *)
EXTENDS Fare, TLC

CONSTANTS c1, c2, i1, i2

(* 40 percent of 1500 fils, and 20 AED, more than the fare.                *)
WorthOf == (c1 :> 40) @@ (c2 :> 2000)
ForNewcomers == [c \in Campaigns |-> "FIRST_TIME_USERS"]
=============================================================================
