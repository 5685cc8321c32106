---------------------------- MODULE MCSimulator ----------------------------
(* Two devices for TLC: the first long enough that one deferred reading    *)
(* waits behind another, the second to meet it in the merge.               *)
EXTENDS Simulator, TLC

MCWakes == 0 :> 4 @@ 1 :> 2
=============================================================================
