---------------------------- MODULE AlertLedger ----------------------------
(***************************************************************************)
(* What the presence e-mails of one agent promise its recipients: every    *)
(* "is offline" e-mail answers an occasion of its own, and every "is back  *)
(* online" e-mail follows an "is offline" e-mail not yet answered.  An     *)
(* occasion is a recorded disconnection, or a fault of the platform after  *)
(* which an interrupted alarm may run once more.                           *)
(***************************************************************************)
EXTENDS Naturals

VARIABLES occasions, alerts, recoveries

vars == <<occasions, alerts, recoveries>>

Init == occasions = 0 /\ alerts = 0 /\ recoveries = 0

Occasion ==
  /\ occasions' = occasions + 1
  /\ UNCHANGED <<alerts, recoveries>>

Alert ==
  /\ alerts < occasions
  /\ alerts' = alerts + 1
  /\ UNCHANGED <<occasions, recoveries>>

Recover ==
  /\ recoveries < alerts
  /\ recoveries' = recoveries + 1
  /\ UNCHANGED <<occasions, alerts>>

Next == Occasion \/ Alert \/ Recover

Spec == Init /\ [][Next]_vars
=============================================================================
