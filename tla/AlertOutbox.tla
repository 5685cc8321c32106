------------------------------ MODULE AlertOutbox -----------------------------
(***************************************************************************)
(* Alerting as docs/analytics.md promises it: "decisions in a table,       *)
(* delivery as a side effect".  A decision is recorded once and stays; a   *)
(* notification follows its decision, may be lost, and is never repeated.  *)
(***************************************************************************)
EXTENDS Naturals, Sequences

CONSTANT Decision      \* records with a field state

VARIABLES decided,     \* the decisions, in the order they were taken
          delivered    \* positions in decided, in the order of delivery

ovars == <<decided, delivered>>

Init == decided = <<>> /\ delivered = <<>>

Decide(d) ==
  /\ \A i \in DOMAIN decided : decided[i] # d
  /\ decided' = Append(decided, d)
  /\ UNCHANGED delivered

Deliver(i) ==
  /\ decided[i].state = "firing"
  /\ \A j \in DOMAIN delivered : delivered[j] # i
  /\ delivered' = Append(delivered, i)
  /\ UNCHANGED decided

Next ==
  \/ \E d \in Decision : Decide(d)
  \/ \E i \in DOMAIN decided : Deliver(i)

Spec == Init /\ [][Next]_ovars
===============================================================================
