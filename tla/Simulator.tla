------------------------------ MODULE Simulator ------------------------------
(***************************************************************************)
(* What the simulated fleet puts on the wire (simulator/stream.py and the  *)
(* clock of simulator/dynamics.py): every device's clean series of         *)
(* readings, decorated with missed, malformed, deferred and duplicated     *)
(* check-ins, and the merge of the devices' streams.                       *)
(*                                                                         *)
(* Time is virtual, in ticks.  A random draw is a choice: of the draws of  *)
(* a wake only those that decide are chosen.  A reading is what identifies *)
(* it, its device and measured_at, with the number of its wake; levels,    *)
(* voltages and the rotation of the corruption modes are left out.         *)
(***************************************************************************)
EXTENDS Integers, Sequences, FiniteSetsExt, Functions

CONSTANTS
  DeviceCount,     \* settings.device_count
  Interval,        \* settings.interval_seconds, in ticks
  Phase,           \* the phases a device may draw
  Jitter,          \* the jitters a device may draw before the cap
  MissedRate,      \* may a check-in be missed, malformed, duplicated or
  MalformedRate,   \*   deferred: is the rate in the settings above zero?
  DuplicateRate,
  OutOfOrderRate,
  MaxWakes         \* bound: each device's series ends here, as those of the
                   \*   tests do; the service's do not

ASSUME SimulatorAssumption ==
  /\ DeviceCount \in Nat /\ Interval \in Nat \ {0}
  /\ MaxWakes \in [0 .. DeviceCount - 1 -> Nat]
  /\ Phase \subseteq 0 .. Interval - 1 /\ Jitter \subseteq Nat
  /\ {MissedRate, MalformedRate, DuplicateRate, OutOfOrderRate} \subseteq BOOLEAN

VARIABLES
  at,              \* measured_at of a device's next reading
  wake,            \* the number of its next wake
  deferred,        \* its readings held back, with the wake they are due at
  ahead,           \* what its stream yields at this wake and merge has not taken
  last             \* the last emission of the merged stream, if any yet

vars == <<at, wake, deferred, ahead, last>>

Device == 0 .. DeviceCount - 1

Emission(reading, publish_at, corrupt, kind) ==
  [reading |-> reading, publish_at |-> publish_at, corrupt |-> corrupt, kind |-> kind]

(* Mutant: no cap.                                                         *)
BugNoCap(jitter) == jitter

(* jitter is capped so that a short interval never makes time run          *)
(* backwards; of the draws between the limits the extremes are taken.      *)
Limit(jitter) == Min({jitter, Interval \div 4})
JitterDraws == {Limit(j) : j \in Jitter} \cup {-Limit(j) : j \in Jitter}

(* Mutant: a reading is released only after the wake it is due at.         *)
BugDueBefore(queue, w) ==
  LET waiting == {i \in DOMAIN queue : queue[i].due >= w}
  IN  IF waiting = {} THEN Len(queue) ELSE Min(waiting) - 1

(* The readings due by wake w, up to the first that is not: a queue. *)
DueBy(queue, w) ==
  LET waiting == {i \in DOMAIN queue : queue[i].due > w}
  IN  IF waiting = {} THEN Len(queue) ELSE Min(waiting) - 1

(* Mutant: the emission held back is yielded as it was made.               *)
BugOldPublishTime(d) ==
  [i \in 1 .. DueBy(deferred[d], wake[d]) |->
     Emission(deferred[d][i].reading, deferred[d][i].reading.measured_at,
              deferred[d][i].corrupt, "late")]

(* What is held back and now arrives: published at the time of this wake. *)
Released(d) ==
  [i \in 1 .. DueBy(deferred[d], wake[d]) |->
     Emission(deferred[d][i].reading, at[d], deferred[d][i].corrupt, "late")]

StillHeld(d) ==
  SubSeq(deferred[d], DueBy(deferred[d], wake[d]) + 1, Len(deferred[d]))

Reading(d) == [device |-> d, measured_at |-> at[d], wake |-> wake[d]]

Init ==
  /\ at \in [Device -> Phase]                   \* start + phase
  /\ wake = [d \in Device |-> 0]
  /\ deferred = [d \in Device |-> <<>>]
  /\ ahead = [d \in Device |-> <<>>]
  /\ last = <<>>

(* Its stream has a head for merge, or has come to its end. *)
Ready(d) == ahead[d] # <<>> \/ wake[d] = MaxWakes[d]

(* Device d's stream is asked for its next emission: merge first asks all  *)
(* streams in their order, then the one it took from.  A reading is        *)
(* followed one jittered interval later by the next, whatever became of it. *)
Advance(d) ==
  /\ wake[d] < MaxWakes[d]
  /\ ahead[d] = <<>> /\ \A e \in 0 .. d - 1 : Ready(e)
  /\ \E jitter \in JitterDraws : at' = [at EXCEPT ![d] = @ + Interval + jitter]
  /\ wake' = [wake EXCEPT ![d] = @ + 1]
  /\ UNCHANGED last

(* The device slept through; its late readings arrive all the same. *)
Missed(d) ==
  /\ MissedRate
  /\ Advance(d)
  /\ deferred' = [deferred EXCEPT ![d] = StillHeld(d)]
  /\ ahead' = [ahead EXCEPT ![d] = Released(d)]

(* Mutant: no continue after the reading is put aside.                     *)
BugDeferAndSend(d) ==
  /\ OutOfOrderRate
  /\ Advance(d)
  /\ \E defer_wakes \in 1 .. 3 :
       deferred' = [deferred EXCEPT ![d] =
         Append(StillHeld(d),
                [due |-> wake[d] + defer_wakes, reading |-> Reading(d), corrupt |-> FALSE])]
  /\ ahead' = [ahead EXCEPT ![d] =
       Append(Released(d), Emission(Reading(d), at[d], FALSE, "normal"))]

(* The reading is put aside for one to three wakes. *)
Deferred(d) ==
  /\ OutOfOrderRate
  /\ Advance(d)
  /\ \E defer_wakes \in 1 .. 3, corrupt \in {FALSE, MalformedRate} :
       deferred' = [deferred EXCEPT ![d] =
         Append(StillHeld(d),
                [due |-> wake[d] + defer_wakes, reading |-> Reading(d), corrupt |-> corrupt])]
  /\ ahead' = [ahead EXCEPT ![d] = Released(d)]

CheckIn(d) ==
  /\ Advance(d)
  /\ deferred' = [deferred EXCEPT ![d] = StillHeld(d)]
  /\ \E corrupt \in {FALSE, MalformedRate}, kinds \in
          {<<"normal">>} \cup (IF DuplicateRate THEN {<<"normal", "duplicate">>} ELSE {}) :
       ahead' = [ahead EXCEPT ![d] = Released(d) \o
         [i \in DOMAIN kinds |-> Emission(Reading(d), at[d], corrupt, kinds[i])]]

(* Mutant: any stream with the least publish_at may go first.              *)
BugUnstable(d, e) == Head(ahead[d]).publish_at <= Head(ahead[e]).publish_at

(* heapq.merge: with a head from every stream, the least publish_at goes   *)
(* first; of equal ones, that of the stream listed first.                  *)
Before(d, e) ==
  \/ Head(ahead[d]).publish_at < Head(ahead[e]).publish_at
  \/ Head(ahead[d]).publish_at = Head(ahead[e]).publish_at /\ d <= e

Publish(d) ==
  /\ ahead[d] # <<>>
  /\ \A e \in Device : Ready(e) /\ (ahead[e] # <<>> => Before(d, e))
  /\ last' = <<Head(ahead[d])>>
  /\ ahead' = [ahead EXCEPT ![d] = Tail(@)]
  /\ UNCHANGED <<at, wake, deferred>>

Next == \E d \in Device : Missed(d) \/ Deferred(d) \/ CheckIn(d) \/ Publish(d)

Spec == Init /\ [][Next]_vars
-----------------------------------------------------------------------------
(* The readings device d holds back, and those its stream has just yielded. *)
Held(d) == {entry.reading : entry \in Range(deferred[d])}
HandedOut(d) == {e.reading : e \in Range(ahead[d])}

(* A late reading arrives one to three wakes after its own and after it    *)
(* was measured, and none waits longer: the deque releases only from its   *)
(* head, so a reading due early can wait behind one due late, and that     *)
(* delay too is within the three wakes the README promises.                *)
LateWithinThree ==
  \A d \in Device :
    /\ \A e \in Range(ahead[d]) :
         IF e.kind = "late"
         THEN /\ wake[d] - 1 - e.reading.wake \in 1 .. 3
              /\ e.publish_at > e.reading.measured_at
         ELSE e.publish_at = e.reading.measured_at
    /\ \A reading \in Held(d) : wake[d] - 1 - reading.wake \in 0 .. 2

(* A device's measured_at grows with its wakes, whatever the jitter and    *)
(* the interval: two readings never share a key, so ingestion never takes  *)
(* a new reading for a duplicate of another.                               *)
InstantsFollowWakes ==
  \A d \in Device : \A r, s \in Held(d) \cup HandedOut(d) :
    /\ r.measured_at < at[d]
    /\ r.wake < s.wake => r.measured_at < s.measured_at

(* A reading held back is nowhere else: it is not sent at its own wake as  *)
(* well, and it leaves the deque when it is released.                      *)
HeldNotSent ==
  \A d \in Device :
    /\ Held(d) \cap HandedOut(d) = {}
    /\ \A e \in Range(last) : e.reading \notin Held(d)

(* In the merged stream of the fleet a duplicate directly follows the      *)
(* message it repeats, with its bytes: no message of another device comes  *)
(* between them, although their publish_at may be equal to another's.      *)
DuplicateFollowsOriginal ==
  [][last' # last /\ last'[1].kind = "duplicate" =>
       last' = [last EXCEPT ![1].kind = "duplicate"] /\ last[1].kind = "normal"]_vars

(* The fleet publishes in the order of publish_at.  heapq.merge promises   *)
(* that only of streams that are sorted themselves, which a late emission, *)
(* an old reading with a new publish_at, must not break.                   *)
FleetInOrder ==
  [][last' # last /\ last # <<>> => last'[1].publish_at >= last[1].publish_at]_vars
=============================================================================
