------------------------------ MODULE MCAnalytics -----------------------------
EXTENDS AnalyticsProperties

MCDevices == <<"a", "b">>

Water ==
  [kind |-> "water", target |-> 1, refill_jump |-> 3, min_points |-> 3,
   min_span_seconds |-> 2, max_fit_points |-> 5, lookback_seconds |-> 20,
   gap_factor |-> 2, stale_after_seconds |-> 1, max_horizon_seconds |-> 8,
   alert_horizon_seconds |-> 1]

WaterOnly == <<Water>>

At(d, t, w) == [device_id |-> d, at |-> t, water |-> w, battery |-> w]

(* "a" is dry at 3 (a firing); 4 is a rebound (a clear), which the late     *)
(* row 2 turns into a decline (a firing at the same instant).  "b" is stale  *)
(* at 4; its row 2 makes a slope so slight that the crossing is beyond       *)
(* LastTime = 15.                                                            *)
Before == {At("a", 1, 7), At("a", 3, 1), At("b", 0, 9), At("b", 1, 9)}
Rebound == Before \cup {At("a", 2, 6), At("a", 4, 3), At("b", 2, 8)}

Nothing == {}

LateB == {At("a", 3, 5), At("b", 2, 5)}

(* After the decline "a" is dry again at 5, within the cooldown of its firing. *)
DryAgain == Rebound \cup {At("a", 5, 1)}
===============================================================================
