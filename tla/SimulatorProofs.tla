---------------------------- MODULE SimulatorProofs ---------------------------
(***************************************************************************)
(* What the simulated fleet guarantees, for any number of devices and      *)
(* wakes, any interval, phases, jitters and rates.                         *)
(***************************************************************************)
EXTENDS Simulator, WellFoundedInduction, TLAPS

Readings == [device : Device, measured_at : Int, wake : Nat]
Entries == [due : Int, reading : Readings, corrupt : BOOLEAN]
Emissions == [reading : Readings, publish_at : Int, corrupt : BOOLEAN,
              kind : {"normal", "duplicate", "late"}]

SimulatorTypeOK ==
  /\ at \in [Device -> Int]
  /\ wake \in [Device -> Nat]
  /\ deferred \in [Device -> Seq(Entries)]
  /\ ahead \in [Device -> Seq(Emissions)]
  /\ last = <<>> \/ \E e \in Emissions : last = <<e>>

(* The deque of a device: its own readings, in the order of their wakes,   *)
(* each due one to three wakes after its own. *)
DequeInv ==
  \A d \in Device :
    /\ \A i \in DOMAIN deferred[d] :
         /\ deferred[d][i].reading.device = d
         /\ deferred[d][i].due - deferred[d][i].reading.wake \in 1 .. 3
         /\ deferred[d][i].reading.wake < wake[d]
         /\ wake[d] <= deferred[d][i].reading.wake + 3
         /\ deferred[d][i].reading.measured_at < at[d]
    /\ \A i, j \in DOMAIN deferred[d] :
         i < j => /\ deferred[d][i].reading.wake < deferred[d][j].reading.wake
                  /\ deferred[d][i].reading.measured_at < deferred[d][j].reading.measured_at

(* What a stream has yielded at a wake: one publish_at, which the reading  *)
(* of that wake has as its measured_at, and none of it held back. *)
YieldInv ==
  \A d \in Device : \A i \in DOMAIN ahead[d] :
    LET e == ahead[d][i]
    IN  /\ e.reading.device = d
        /\ e.reading.wake < wake[d]
        /\ e.publish_at < at[d]
        /\ \A j \in DOMAIN ahead[d] : ahead[d][j].publish_at = e.publish_at
        /\ IF e.kind = "late"
           THEN /\ wake[d] - 1 - e.reading.wake \in 1 .. 3
                /\ e.publish_at > e.reading.measured_at
           ELSE /\ e.publish_at = e.reading.measured_at
                /\ e.reading.wake = wake[d] - 1
        /\ \A k \in DOMAIN deferred[d] :
             /\ deferred[d][k].reading # e.reading
             /\ e.kind = "late" => /\ e.reading.wake < deferred[d][k].reading.wake
                                   /\ e.reading.measured_at < deferred[d][k].reading.measured_at
             /\ e.kind # "late" => /\ deferred[d][k].reading.wake < e.reading.wake
                                   /\ deferred[d][k].reading.measured_at < e.reading.measured_at
        /\ \A j \in DOMAIN ahead[d] :
             e.reading.wake < ahead[d][j].reading.wake
               => e.reading.measured_at < ahead[d][j].reading.measured_at

(* A duplicate stands directly behind the message it repeats; once that    *)
(* has gone out, the duplicate is what merge takes next. *)
DuplicateInv ==
  \A d \in Device :
    /\ \A i \in DOMAIN ahead[d] : ahead[d][i].kind = "duplicate" /\ i # 1 =>
         ahead[d][i - 1] = [ahead[d][i] EXCEPT !.kind = "normal"]
    /\ ahead[d] # <<>> /\ ahead[d][1].kind = "duplicate" =>
         /\ last = <<[ahead[d][1] EXCEPT !.kind = "normal"]>>
         /\ \A e \in Device : Ready(e) /\ (ahead[e] # <<>> => Before(d, e))

(* Nothing that is still to come is older than what has been published. *)
FrontInv ==
  last # <<>> =>
    /\ last[1].reading.wake < wake[last[1].reading.device]
    /\ \A d \in Device :
         /\ \A i \in DOMAIN deferred[d] : deferred[d][i].reading # last[1].reading
         /\ \A i \in DOMAIN ahead[d] : last[1].publish_at <= ahead[d][i].publish_at
         /\ ahead[d] = <<>> /\ wake[d] < MaxWakes[d] => last[1].publish_at <= at[d]

StreamInv == SimulatorTypeOK /\ DequeInv /\ YieldInv /\ DuplicateInv /\ FrontInv
-----------------------------------------------------------------------------
(* A set of natural numbers has a least element. *)
LEMMA LeastExists ==
  ASSUME NEW S \in SUBSET Nat, S # {}
  PROVE  Min(S) \in S /\ \A y \in S : Min(S) <= y
<1>1. PICK x \in S : \A y \in S : ~(<<y, x>> \in OpToRel(<, Nat))
  BY WFMin, NatLessThanWellFounded
<1>2. ASSUME NEW y \in S PROVE x <= y
  <2>1. <<y, x>> \in OpToRel(<, Nat) <=> y < x
    BY DEF OpToRel
  <2>2. ~(y < x)
    BY <2>1, <1>1, Zenon
  <2> QED
    BY <2>2
<1> QED
  BY <1>2 DEF Min

(* The queue is released up to the first reading that is not due. *)
LEMMA DueByFacts ==
  ASSUME NEW q \in Seq(Entries), NEW w \in Int
  PROVE  /\ DueBy(q, w) \in 0 .. Len(q)
         /\ \A i \in 1 .. DueBy(q, w) : q[i].due <= w
         /\ DueBy(q, w) < Len(q) => q[DueBy(q, w) + 1].due > w
<1> DEFINE waiting == {i \in DOMAIN q : q[i].due > w}
<1>0. Len(q) \in Nat /\ DOMAIN q = 1 .. Len(q) /\ \A i \in 1 .. Len(q) : q[i].due \in Int
  <2>1. Len(q) \in Nat /\ DOMAIN q = 1 .. Len(q) /\ \A i \in 1 .. Len(q) : q[i] \in Entries
    OBVIOUS
  <2> QED
    BY <2>1 DEF Entries
<1>1. CASE waiting = {}
  <2>1. DueBy(q, w) = Len(q)
    BY <1>1 DEF DueBy
  <2> QED
    BY <1>0, <1>1, <2>1
<1>2. CASE waiting # {}
  <2>1. waiting \in SUBSET Nat
    BY <1>0
  <2>2. Min(waiting) \in waiting /\ \A y \in waiting : Min(waiting) <= y
    BY <1>2, <2>1, LeastExists
  <2>3. DueBy(q, w) = Min(waiting) - 1
    BY <1>2 DEF DueBy
  <2> HIDE DEF waiting
  <2>4. Min(waiting) \in 1 .. Len(q) /\ q[Min(waiting)].due > w
    BY <2>2, <1>0 DEF waiting
  <2>5. ASSUME NEW i \in 1 .. DueBy(q, w) PROVE q[i].due <= w
    <3>1. i \in 1 .. Len(q) /\ i < Min(waiting)
      BY <2>3, <2>4, <1>0
    <3>2. i \notin waiting
      BY <3>1, <2>2, <2>4, <1>0
    <3> QED
      BY <3>1, <3>2, <1>0 DEF waiting
  <2> QED
    BY <2>3, <2>4, <2>5, <1>0
<1> QED
  BY <1>1, <1>2

(* "jitter is capped so that a short interval never makes time run         *)
(* backwards" (stream.py): a draw takes less than the interval away. *)
LEMMA JitterFacts ==
  ASSUME NEW jitter \in JitterDraws
  PROVE  jitter \in Int /\ Interval \in Nat /\ Interval + jitter > 0
<1>1. ASSUME NEW j \in Jitter PROVE Limit(j) \in Nat /\ Limit(j) < Interval
  <2>1. j \in Nat /\ Interval \in Nat \ {0}
    BY SimulatorAssumption
  <2>2. Interval \div 4 \in Nat /\ Interval \div 4 < Interval
    BY <2>1
  <2>3. {j, Interval \div 4} \in SUBSET Nat /\ {j, Interval \div 4} # {}
    BY <2>1, <2>2
  <2>4. Limit(j) \in {j, Interval \div 4} /\ Limit(j) <= Interval \div 4
    BY <2>3, LeastExists DEF Limit
  <2> QED
    BY <2>1, <2>2, <2>4
<1>2. Interval \in Nat \ {0}
  BY SimulatorAssumption
<1>3. PICK j \in Jitter : jitter = Limit(j) \/ jitter = -Limit(j)
  BY DEF JitterDraws
<1> QED
  BY <1>1, <1>2, <1>3

Wakes(d) == Missed(d) \/ Deferred(d) \/ CheckIn(d)

(* A wake moves the device's clock forward, and nobody else's. *)
LEMMA WakeClock ==
  ASSUME SimulatorTypeOK, NEW d \in Device, Wakes(d)
  PROVE  /\ at' \in [Device -> Int] /\ at'[d] > at[d]
         /\ wake' \in [Device -> Nat] /\ wake'[d] = wake[d] + 1
         /\ \A e \in Device \ {d} : at'[e] = at[e] /\ wake'[e] = wake[e]
         /\ last' = last /\ ahead[d] = <<>> /\ wake[d] < MaxWakes[d]
         /\ \A e \in 0 .. d - 1 : Ready(e)
<1>1. Advance(d)
  BY DEF Wakes, Missed, Deferred, CheckIn
<1>2. at \in [Device -> Int] /\ wake \in [Device -> Nat]
  BY DEF SimulatorTypeOK
<1>3. PICK jitter \in JitterDraws : at' = [at EXCEPT ![d] = @ + Interval + jitter]
  BY <1>1 DEF Advance
<1>4. jitter \in Int /\ Interval \in Nat /\ Interval + jitter > 0
  BY JitterFacts
<1>5. wake' = [wake EXCEPT ![d] = @ + 1]
  BY <1>1 DEF Advance
<1>6. at[d] + Interval + jitter \in Int /\ at[d] + Interval + jitter > at[d]
  BY <1>2, <1>4
<1>7. at' \in [Device -> Int] /\ at'[d] > at[d] /\ \A e \in Device \ {d} : at'[e] = at[e]
  BY <1>2, <1>3, <1>6
<1>8. wake' \in [Device -> Nat] /\ wake'[d] = wake[d] + 1
        /\ \A e \in Device \ {d} : wake'[e] = wake[e]
  BY <1>2, <1>5
<1> QED
  BY <1>1, <1>7, <1>8 DEF Advance

(* What a wake does with the deque and the stream: the first k readings of *)
(* the deque are yielded as late, and the reading of the wake itself is    *)
(* missed, put aside, or yielded once or twice. *)
Yields(d, k) ==
  /\ \A i \in 1 .. k : deferred[d][i].due <= wake[d]
  /\ k < Len(deferred[d]) => deferred[d][k + 1].due > wake[d]
  /\ deferred' \in [Device -> Seq(Entries)] /\ ahead' \in [Device -> Seq(Emissions)]
  /\ \A e \in Device \ {d} : deferred'[e] = deferred[e] /\ ahead'[e] = ahead[e]
  /\ \A i \in DOMAIN deferred'[d] :
       \/ i + k \in DOMAIN deferred[d] /\ deferred'[d][i] = deferred[d][i + k]
       \/ /\ i = Len(deferred[d]) - k + 1 /\ Len(ahead'[d]) = k
          /\ deferred'[d][i].reading = Reading(d)
          /\ deferred'[d][i].due - wake[d] \in 1 .. 3
  /\ \A i \in DOMAIN ahead'[d] :
       /\ ahead'[d][i].publish_at = at[d]
       /\ \/ /\ i <= k /\ ahead'[d][i].kind = "late"
             /\ ahead'[d][i].reading = deferred[d][i].reading
          \/ /\ i > k /\ ahead'[d][i].kind # "late"
             /\ ahead'[d][i].reading = Reading(d)
       /\ ahead'[d][i].kind = "duplicate" =>
            i # 1 /\ ahead'[d][i - 1] = [ahead'[d][i] EXCEPT !.kind = "normal"]

LEMMA WakeYields ==
  ASSUME SimulatorTypeOK, NEW d \in Device, Wakes(d)
  PROVE  \E k \in 0 .. Len(deferred[d]) : Yields(d, k)
<1> DEFINE q == deferred[d]
           k == DueBy(q, wake[d])
<1>1. q \in Seq(Entries) /\ wake[d] \in Nat /\ at[d] \in Int
  BY DEF SimulatorTypeOK
<1>2. /\ k \in 0 .. Len(q)
      /\ \A i \in 1 .. k : q[i].due <= wake[d]
      /\ k < Len(q) => q[k + 1].due > wake[d]
  <2>1. wake[d] \in Int
    BY <1>1
  <2> HIDE DEF q
  <2> QED
    BY <1>1, <2>1, DueByFacts
<1>3. Reading(d) \in Readings
  BY <1>1 DEF Reading, Readings
<1>4. /\ Released(d) \in Seq(Emissions) /\ Len(Released(d)) = k
      /\ \A i \in 1 .. k : Released(d)[i] = Emission(q[i].reading, at[d], q[i].corrupt, "late")
  <2>1. ASSUME NEW i \in 1 .. k
        PROVE  Emission(q[i].reading, at[d], q[i].corrupt, "late") \in Emissions
    <3>1. q[i] \in Entries
      BY <1>1, <1>2
    <3> QED
      BY <3>1, <1>1 DEF Emission, Emissions, Entries
  <2>2. Released(d) = [i \in 1 .. k |-> Emission(q[i].reading, at[d], q[i].corrupt, "late")]
    BY DEF Released
  <2>3. k \in Nat
    BY <1>2
  <2> HIDE DEF k, q
  <2> QED
    BY <2>1, <2>2, <2>3
<1>5. /\ StillHeld(d) \in Seq(Entries) /\ Len(StillHeld(d)) = Len(q) - k
      /\ \A i \in 1 .. Len(q) - k : i + k \in DOMAIN q /\ StillHeld(d)[i] = q[i + k]
  <2>1. StillHeld(d) = SubSeq(q, k + 1, Len(q))
    BY DEF StillHeld
  <2>2. Len(q) \in Nat /\ k \in 0 .. Len(q)
    BY <1>1, <1>2
  <2> HIDE DEF k, q
  <2> QED
    BY <1>1, <2>1, <2>2
<1>6. deferred \in [Device -> Seq(Entries)] /\ ahead \in [Device -> Seq(Emissions)]
  BY DEF SimulatorTypeOK
<1>7. CASE Missed(d)
  <2>1. deferred' = [deferred EXCEPT ![d] = StillHeld(d)] /\ ahead' = [ahead EXCEPT ![d] = Released(d)]
    BY <1>7 DEF Missed
  <2>2. deferred'[d] = StillHeld(d) /\ ahead'[d] = Released(d)
        /\ deferred' \in [Device -> Seq(Entries)] /\ ahead' \in [Device -> Seq(Emissions)]
        /\ \A e \in Device \ {d} : deferred'[e] = deferred[e] /\ ahead'[e] = ahead[e]
    BY <2>1, <1>4, <1>5, <1>6
  <2> HIDE DEF k, q
  <2>3. \A i \in DOMAIN ahead'[d] :
          /\ i <= k /\ ahead'[d][i].publish_at = at[d] /\ ahead'[d][i].kind = "late"
          /\ ahead'[d][i].reading = q[i].reading
    BY <2>2, <1>4 DEF Emission
  <2>4. \A i \in DOMAIN deferred'[d] : i + k \in DOMAIN q /\ deferred'[d][i] = q[i + k]
    BY <2>2, <1>5
  <2> QED
    BY <1>2, <2>2, <2>3, <2>4 DEF q, Yields
<1>8. CASE Deferred(d)
  <2>1. PICK defer_wakes \in 1 .. 3, corrupt \in {FALSE, MalformedRate} :
          deferred' = [deferred EXCEPT ![d] = Append(StillHeld(d),
            [due |-> wake[d] + defer_wakes, reading |-> Reading(d), corrupt |-> corrupt])]
    BY <1>8 DEF Deferred
  <2> DEFINE new == [due |-> wake[d] + defer_wakes, reading |-> Reading(d), corrupt |-> corrupt]
  <2>2. ahead' = [ahead EXCEPT ![d] = Released(d)]
    BY <1>8 DEF Deferred
  <2>3. corrupt \in BOOLEAN
    BY SimulatorAssumption
  <2>4. new \in Entries /\ new.reading = Reading(d) /\ new.due - wake[d] \in 1 .. 3
    BY <1>1, <1>3, <2>3 DEF Entries
  <2>5. deferred' = [deferred EXCEPT ![d] = Append(StillHeld(d), new)]
    BY <2>1
  <2> HIDE DEF new, k, q
  <2>6. Append(StillHeld(d), new) \in Seq(Entries)
    BY <2>4, <1>5
  <2>7. deferred'[d] = Append(StillHeld(d), new) /\ ahead'[d] = Released(d)
        /\ deferred' \in [Device -> Seq(Entries)] /\ ahead' \in [Device -> Seq(Emissions)]
        /\ \A e \in Device \ {d} : deferred'[e] = deferred[e] /\ ahead'[e] = ahead[e]
    BY <2>2, <2>5, <2>6, <1>4, <1>6
  <2>8. \A i \in DOMAIN ahead'[d] :
          /\ i <= k /\ ahead'[d][i].publish_at = at[d] /\ ahead'[d][i].kind = "late"
          /\ ahead'[d][i].reading = q[i].reading
    BY <2>7, <1>4 DEF Emission
  <2>9. Len(ahead'[d]) = k
    BY <2>7, <1>4
  <2>10. ASSUME NEW i \in DOMAIN deferred'[d]
         PROVE  \/ i + k \in DOMAIN q /\ deferred'[d][i] = q[i + k]
                \/ i = Len(q) - k + 1 /\ deferred'[d][i] = new
    <3>1. CASE i \in 1 .. Len(q) - k
      BY <3>1, <2>7, <1>5, <2>4
    <3>2. CASE i \notin 1 .. Len(q) - k
      BY <3>2, <2>7, <1>5, <2>4
    <3> QED
      BY <3>1, <3>2
  <2> QED
    BY <1>2, <2>4, <2>7, <2>8, <2>9, <2>10 DEF q, Yields
<1>9. CASE CheckIn(d)
  <2>1. PICK corrupt \in {FALSE, MalformedRate}, kinds \in
               {<<"normal">>} \cup (IF DuplicateRate THEN {<<"normal", "duplicate">>} ELSE {}) :
          ahead' = [ahead EXCEPT ![d] = Released(d) \o
            [i \in DOMAIN kinds |-> Emission(Reading(d), at[d], corrupt, kinds[i])]]
    BY <1>9 DEF CheckIn
  <2> DEFINE own == [i \in DOMAIN kinds |-> Emission(Reading(d), at[d], corrupt, kinds[i])]
  <2>2. deferred' = [deferred EXCEPT ![d] = StillHeld(d)]
    BY <1>9 DEF CheckIn
  <2>3. corrupt \in BOOLEAN
    BY SimulatorAssumption
  <2>4. /\ Len(kinds) \in 1 .. 2 /\ DOMAIN kinds = 1 .. Len(kinds) /\ kinds[1] = "normal"
        /\ Len(kinds) = 2 => kinds[2] = "duplicate"
    <3>1. kinds = <<"normal">> \/ kinds = <<"normal", "duplicate">>
      OBVIOUS
    <3> QED
      BY <3>1
  <2>5. /\ own \in Seq(Emissions) /\ Len(own) = Len(kinds)
        /\ \A i \in 1 .. Len(own) : own[i] = Emission(Reading(d), at[d], corrupt, kinds[i])
    <3>1. ASSUME NEW i \in DOMAIN kinds
          PROVE  Emission(Reading(d), at[d], corrupt, kinds[i]) \in Emissions
      <4>1. kinds[i] \in {"normal", "duplicate"}
        BY <2>4
      <4> QED
        BY <4>1, <1>1, <1>3, <2>3 DEF Emission, Emissions
    <3> QED
      BY <3>1, <2>4
  <2>6. ahead' = [ahead EXCEPT ![d] = Released(d) \o own]
    BY <2>1
  <2> HIDE DEF own, k, q
  <2>7. Released(d) \o own \in Seq(Emissions)
    BY <2>5, <1>4
  <2>8. deferred'[d] = StillHeld(d) /\ ahead'[d] = Released(d) \o own
        /\ deferred' \in [Device -> Seq(Entries)] /\ ahead' \in [Device -> Seq(Emissions)]
        /\ \A e \in Device \ {d} : deferred'[e] = deferred[e] /\ ahead'[e] = ahead[e]
    BY <2>2, <2>6, <2>7, <1>5, <1>6
  <2>9. \A i \in DOMAIN deferred'[d] : i + k \in DOMAIN q /\ deferred'[d][i] = q[i + k]
    BY <2>8, <1>5
  <2>10. ASSUME NEW i \in DOMAIN ahead'[d]
         PROVE  \/ i \in 1 .. k /\ ahead'[d][i] = Released(d)[i]
                \/ i = k + 1 /\ ahead'[d][i] = own[1]
                \/ i = k + 2 /\ ahead'[d][i] = own[2] /\ Len(own) = 2 /\ ahead'[d][k + 1] = own[1]
    <3>1. Len(ahead'[d]) = k + Len(own) /\ i \in 1 .. Len(ahead'[d]) /\ k \in Nat
      <4>0. Released(d) \in Seq(Emissions) /\ own \in Seq(Emissions)
        BY <2>5, <1>4
      <4>1. Len(Released(d) \o own) = Len(Released(d)) + Len(own)
        BY <4>0
      <4>2. DOMAIN (Released(d) \o own) = 1 .. Len(Released(d) \o own)
        BY <2>7
      <4> QED
        BY <4>1, <4>2, <2>8, <1>4, <1>2
    <3>2. CASE i \in 1 .. k
      BY <3>1, <3>2, <2>8, <2>5, <1>4
    <3>3. CASE i = k + 1
      BY <3>1, <3>3, <2>8, <2>5, <1>4, <2>4
    <3>4. CASE i = k + 2
      <4>1. Len(own) = 2
        BY <3>1, <3>4, <2>4, <2>5
      <4> QED
        BY <4>1, <3>1, <3>4, <2>8, <2>5, <1>4, <2>4
    <3> QED
      BY <3>1, <3>2, <3>3, <3>4, <2>4, <2>5
  <2>11. /\ own[1] = Emission(Reading(d), at[d], corrupt, "normal")
         /\ Len(own) = 2 => own[2] = Emission(Reading(d), at[d], corrupt, "duplicate")
    BY <2>4, <2>5
  <2>12. ASSUME NEW i \in DOMAIN ahead'[d]
         PROVE  /\ ahead'[d][i].publish_at = at[d]
                /\ \/ /\ i <= k /\ ahead'[d][i].kind = "late"
                      /\ ahead'[d][i].reading = q[i].reading
                   \/ /\ i > k /\ ahead'[d][i].kind # "late"
                      /\ ahead'[d][i].reading = Reading(d)
                /\ ahead'[d][i].kind = "duplicate" =>
                     i # 1 /\ ahead'[d][i - 1] = [ahead'[d][i] EXCEPT !.kind = "normal"]
    <3>0. k \in Nat
      BY <1>2
    <3>1. CASE i \in 1 .. k /\ ahead'[d][i] = Released(d)[i]
      BY <3>1, <1>4 DEF Emission
    <3>2. CASE i = k + 1 /\ ahead'[d][i] = own[1]
      BY <3>0, <3>2, <2>11 DEF Emission
    <3>3. CASE i = k + 2 /\ ahead'[d][i] = own[2] /\ Len(own) = 2 /\ ahead'[d][k + 1] = own[1]
      <4>1. i - 1 = k + 1 /\ i > k /\ i # 1
        BY <3>0, <3>3
      <4> QED
        BY <4>1, <3>3, <2>11 DEF Emission
    <3> QED
      BY <2>10, <3>1, <3>2, <3>3
  <2> QED
    BY <1>2, <2>8, <2>9, <2>12 DEF q, Yields
<1> QED
  BY <1>7, <1>8, <1>9 DEF Wakes
-----------------------------------------------------------------------------
(* The fields of the readings in a deque and in a stream. *)
LEMMA DequeFields ==
  ASSUME NEW q \in Seq(Entries)
  PROVE  \A i \in DOMAIN q : /\ q[i].due \in Int
                              /\ q[i].reading.wake \in Nat
                              /\ q[i].reading.measured_at \in Int
<1>1. ASSUME NEW i \in DOMAIN q PROVE q[i] \in Entries
  OBVIOUS
<1> QED
  BY <1>1 DEF Entries, Readings

LEMMA StreamFields ==
  ASSUME NEW s \in Seq(Emissions)
  PROVE  \A i \in DOMAIN s : /\ s[i] \in Emissions
                              /\ s[i].publish_at \in Int
                              /\ s[i].reading.wake \in Nat
                              /\ s[i].reading.measured_at \in Int
<1>1. ASSUME NEW i \in DOMAIN s PROVE s[i] \in Emissions
  OBVIOUS
<1> QED
  BY <1>1 DEF Emissions, Readings

(* A wake keeps the deque in order and lets nothing in it grow too old. *)
LEMMA WakeDeque ==
  ASSUME StreamInv, NEW d \in Device, Wakes(d)
  PROVE  DequeInv'
<1>1. at \in [Device -> Int] /\ wake \in [Device -> Nat] /\ deferred \in [Device -> Seq(Entries)]
  BY DEF StreamInv, SimulatorTypeOK
<1>2. /\ at' \in [Device -> Int] /\ at'[d] > at[d]
      /\ wake' \in [Device -> Nat] /\ wake'[d] = wake[d] + 1
      /\ \A e \in Device \ {d} : at'[e] = at[e] /\ wake'[e] = wake[e]
  BY WakeClock DEF StreamInv
<1>3. PICK k \in 0 .. Len(deferred[d]) : Yields(d, k)
  BY WakeYields DEF StreamInv
<1> DEFINE q == deferred[d]
<1>4. q \in Seq(Entries) /\ Len(q) \in Nat /\ DOMAIN q = 1 .. Len(q) /\ DOMAIN deferred'[d] \subseteq Nat \ {0}
  BY <1>1, <1>3 DEF Yields
<1>5. /\ \A i \in DOMAIN q :
           /\ q[i].reading.device = d
           /\ q[i].due - q[i].reading.wake \in 1 .. 3
           /\ q[i].reading.wake < wake[d]
           /\ wake[d] <= q[i].reading.wake + 3
           /\ q[i].reading.measured_at < at[d]
      /\ \A i, j \in DOMAIN q :
           i < j => /\ q[i].reading.wake < q[j].reading.wake
                    /\ q[i].reading.measured_at < q[j].reading.measured_at
  BY DEF StreamInv, DequeInv
<1>6. \A i \in DOMAIN q : q[i].due \in Int /\ q[i].reading.wake \in Nat /\ q[i].reading.measured_at \in Int
  BY <1>4, DequeFields
<1>7. Reading(d).device = d /\ Reading(d).wake = wake[d] /\ Reading(d).measured_at = at[d]
  BY DEF Reading
<1>8. wake[d] \in Nat /\ wake'[d] \in Nat /\ at[d] \in Int /\ at'[d] \in Int
  BY <1>1, <1>2
<1> HIDE DEF q
<1>9. \A i \in DOMAIN deferred'[d] :
        \/ i + k \in DOMAIN q /\ deferred'[d][i] = q[i + k]
        \/ /\ i = Len(q) - k + 1
           /\ deferred'[d][i].reading = Reading(d)
           /\ deferred'[d][i].due - wake[d] \in 1 .. 3
  BY <1>3 DEF q, Yields
<1>10. ASSUME NEW i \in DOMAIN deferred'[d]
       PROVE  /\ deferred'[d][i].reading.device = d
              /\ deferred'[d][i].due - deferred'[d][i].reading.wake \in 1 .. 3
              /\ deferred'[d][i].reading.wake < wake'[d]
              /\ wake'[d] <= deferred'[d][i].reading.wake + 3
              /\ deferred'[d][i].reading.measured_at < at'[d]
  <2>1. CASE i + k \in DOMAIN q /\ deferred'[d][i] = q[i + k]
    <3>1. k + 1 \in DOMAIN q /\ k + 1 <= i + k /\ q[k + 1].due > wake[d]
      BY <2>1, <1>3, <1>4 DEF q, Yields
    <3>2. q[k + 1].reading.wake + 3 >= wake[d] + 1
      <4>1. q[k + 1].due - q[k + 1].reading.wake \in 1 .. 3
        BY <3>1, <1>5
      <4>2. q[k + 1].due \in Int /\ q[k + 1].reading.wake \in Nat
        BY <3>1, <1>6
      <4> DEFINE u == q[k + 1].due
                 w == q[k + 1].reading.wake
                 v == wake[d]
      <4>3. u \in Int /\ w \in Int /\ v \in Int /\ u - w \in 1 .. 3 /\ u > v
        BY <3>1, <4>1, <4>2, <1>8
      <4> HIDE DEF u, w, v
      <4>4. w + 3 >= v + 1
        BY <4>3
      <4> QED
        BY <4>4 DEF w, v
    <3>3. q[k + 1].reading.wake <= q[i + k].reading.wake
      <4>1. CASE i = 1
        <5>1. i + k = k + 1
          BY <4>1, <1>3
        <5> QED
          BY <5>1, <3>1, <1>6
      <4>2. CASE i # 1
        <5>1. k + 1 < i + k
          BY <4>2, <1>3, <1>4
        <5> QED
          BY <5>1, <3>1, <2>1, <1>5, <1>6
      <4> QED
        BY <4>1, <4>2
    <3>4. q[k + 1].reading.wake \in Nat /\ q[i + k].reading.wake \in Nat /\ q[i + k].reading.measured_at \in Int
      BY <3>1, <2>1, <1>6
    <3>5. /\ q[i + k].reading.device = d
          /\ q[i + k].due - q[i + k].reading.wake \in 1 .. 3
          /\ q[i + k].reading.wake < wake[d]
          /\ q[i + k].reading.measured_at < at[d]
      BY <2>1, <1>5
    <3>6. q[i + k].reading.wake < wake'[d] /\ wake'[d] <= q[i + k].reading.wake + 3
      <4>1. wake'[d] = wake[d] + 1
        BY <1>2
      <4> DEFINE u == q[k + 1].reading.wake
                 w == q[i + k].reading.wake
                 v == wake[d]
      <4>2. u \in Int /\ w \in Int /\ v \in Int /\ v + 1 <= u + 3 /\ u <= w /\ w < v
        BY <3>2, <3>3, <3>4, <3>5, <1>8
      <4> HIDE DEF u, w, v
      <4>3. w < v + 1 /\ v + 1 <= w + 3
        BY <4>2
      <4> QED
        BY <4>1, <4>3 DEF w, v
    <3>7. q[i + k].reading.measured_at < at'[d]
      BY <3>4, <3>5, <1>2, <1>8
    <3> QED
      BY <3>5, <3>6, <3>7, <2>1
  <2>2. CASE deferred'[d][i].reading = Reading(d) /\ deferred'[d][i].due - wake[d] \in 1 .. 3
    BY <2>2, <1>7, <1>8, <1>2
  <2> QED
    BY <2>1, <2>2, <1>9
<1>11. ASSUME NEW i \in DOMAIN deferred'[d], NEW j \in DOMAIN deferred'[d], i < j
       PROVE  /\ deferred'[d][i].reading.wake < deferred'[d][j].reading.wake
              /\ deferred'[d][i].reading.measured_at < deferred'[d][j].reading.measured_at
  <2>0. i \in Nat /\ j \in Nat /\ k \in Nat
    BY <1>4, <1>3
  <2>1. CASE i + k \in DOMAIN q /\ deferred'[d][i] = q[i + k]
    <3>1. CASE j + k \in DOMAIN q /\ deferred'[d][j] = q[j + k]
      <4>1. i + k < j + k
        BY <1>11, <2>0
      <4> QED
        BY <4>1, <3>1, <2>1, <1>5
    <3>2. CASE deferred'[d][j].reading = Reading(d)
      BY <3>2, <2>1, <1>5, <1>7
    <3> QED
      BY <3>1, <3>2, <1>9
  <2>2. CASE i = Len(q) - k + 1
    <3>1. j + k \notin DOMAIN q /\ j # Len(q) - k + 1
      BY <2>2, <2>0, <1>11, <1>4
    <3> QED
      BY <3>1, <1>9
  <2> QED
    BY <2>1, <2>2, <1>9
<1>12. ASSUME NEW e \in Device, e # d
       PROVE  deferred'[e] = deferred[e] /\ wake'[e] = wake[e] /\ at'[e] = at[e]
  BY <1>12, <1>2, <1>3 DEF Yields
<1> QED
  BY <1>10, <1>11, <1>12 DEF StreamInv, DequeInv

(* What a wake yields: the released readings are older than those that     *)
(* stay, and the reading of the wake, if it is sent, is the newest. *)
LEMMA WakeYield ==
  ASSUME StreamInv, NEW d \in Device, Wakes(d)
  PROVE  YieldInv' /\ \A i \in DOMAIN ahead'[d] : ahead'[d][i].publish_at = at[d]
<1>1. at \in [Device -> Int] /\ wake \in [Device -> Nat] /\ deferred \in [Device -> Seq(Entries)]
  BY DEF StreamInv, SimulatorTypeOK
<1>2. /\ at' \in [Device -> Int] /\ at'[d] > at[d]
      /\ wake' \in [Device -> Nat] /\ wake'[d] = wake[d] + 1
      /\ \A e \in Device \ {d} : at'[e] = at[e] /\ wake'[e] = wake[e]
  BY WakeClock DEF StreamInv
<1>3. PICK k \in 0 .. Len(deferred[d]) : Yields(d, k)
  BY WakeYields DEF StreamInv
<1> DEFINE q == deferred[d]
<1>4. q \in Seq(Entries) /\ Len(q) \in Nat /\ DOMAIN q = 1 .. Len(q) /\ k \in Nat
      /\ DOMAIN deferred'[d] \subseteq Nat \ {0}
      /\ Len(ahead'[d]) \in Nat /\ DOMAIN ahead'[d] = 1 .. Len(ahead'[d])
  BY <1>1, <1>3 DEF Yields
<1>5. /\ \A i \in DOMAIN q :
           /\ q[i].reading.device = d
           /\ q[i].due - q[i].reading.wake \in 1 .. 3
           /\ q[i].reading.wake < wake[d]
           /\ wake[d] <= q[i].reading.wake + 3
           /\ q[i].reading.measured_at < at[d]
      /\ \A i, j \in DOMAIN q :
           i < j => /\ q[i].reading.wake < q[j].reading.wake
                    /\ q[i].reading.measured_at < q[j].reading.measured_at
  BY DEF StreamInv, DequeInv
<1>6. \A i \in DOMAIN q : q[i].due \in Int /\ q[i].reading.wake \in Nat /\ q[i].reading.measured_at \in Int
  BY <1>4, DequeFields
<1>7. Reading(d).device = d /\ Reading(d).wake = wake[d] /\ Reading(d).measured_at = at[d]
  BY DEF Reading
<1>8. wake[d] \in Nat /\ wake'[d] \in Nat /\ at[d] \in Int /\ at'[d] \in Int
  BY <1>1, <1>2
<1>9. \A i \in DOMAIN deferred'[d] :
        \/ i + k \in DOMAIN q /\ deferred'[d][i] = q[i + k]
        \/ Len(ahead'[d]) = k /\ deferred'[d][i].reading = Reading(d)
  BY <1>3 DEF q, Yields
<1>10. \A i \in DOMAIN ahead'[d] :
        /\ ahead'[d][i].publish_at = at[d]
        /\ \/ i <= k /\ ahead'[d][i].kind = "late" /\ ahead'[d][i].reading = q[i].reading
           \/ i > k /\ ahead'[d][i].kind # "late" /\ ahead'[d][i].reading = Reading(d)
  BY <1>3 DEF q, Yields
<1>11. \A i \in 1 .. k : i \in DOMAIN q /\ q[i].due <= wake[d]
  <2>1. \A i \in 1 .. k : q[i].due <= wake[d]
    BY <1>3 DEF Yields
  <2>2. k \in 0 .. Len(q)
    BY <1>3
  <2> QED
    BY <2>1, <2>2, <1>4
<1> HIDE DEF q
<1>12. ASSUME NEW i \in DOMAIN ahead'[d], i <= k, ahead'[d][i].kind = "late",
              ahead'[d][i].reading = q[i].reading
       PROVE  /\ ahead'[d][i].reading.device = d
              /\ ahead'[d][i].reading.wake < wake'[d]
              /\ wake'[d] - 1 - ahead'[d][i].reading.wake \in 1 .. 3
              /\ ahead'[d][i].publish_at > ahead'[d][i].reading.measured_at
              /\ \A m \in DOMAIN deferred'[d] :
                    /\ ahead'[d][i].reading.wake < deferred'[d][m].reading.wake
                    /\ ahead'[d][i].reading.measured_at < deferred'[d][m].reading.measured_at
  <2>1. i \in 1 .. k /\ i \in DOMAIN q
    BY <1>12, <1>4, <1>11
  <2>2. /\ q[i].reading.device = d
        /\ q[i].reading.wake < wake[d]
        /\ wake[d] - q[i].reading.wake \in 1 .. 3
        /\ q[i].reading.measured_at < at[d]
    BY <2>1, <1>5, <1>6, <1>8
  <2>3. ASSUME NEW m \in DOMAIN deferred'[d]
        PROVE  /\ q[i].reading.wake < deferred'[d][m].reading.wake
               /\ q[i].reading.measured_at < deferred'[d][m].reading.measured_at
    <3>1. CASE m + k \in DOMAIN q /\ deferred'[d][m] = q[m + k]
      <4>1. i < m + k
        BY <2>1, <1>4
      <4> QED
        BY <4>1, <3>1, <2>1, <1>5
    <3>2. CASE deferred'[d][m].reading = Reading(d)
      BY <3>2, <2>2, <1>7
    <3> QED
      BY <3>1, <3>2, <1>9
  <2>4. wake'[d] - 1 - q[i].reading.wake = wake[d] - q[i].reading.wake /\ q[i].reading.wake < wake'[d]
    BY <2>1, <2>2, <1>2, <1>6, <1>8
  <2>5. ahead'[d][i].publish_at = at[d]
    BY <1>10
  <2>6. at[d] > q[i].reading.measured_at
    BY <2>1, <2>2, <1>6, <1>8
  <2> QED
    BY <2>2, <2>3, <2>4, <2>5, <2>6, <1>12
<1>13. ASSUME NEW i \in DOMAIN ahead'[d], i > k, ahead'[d][i].kind # "late",
              ahead'[d][i].reading = Reading(d)
       PROVE  /\ ahead'[d][i].reading.device = d
              /\ ahead'[d][i].reading.wake < wake'[d]
              /\ ahead'[d][i].reading.wake = wake'[d] - 1
              /\ ahead'[d][i].publish_at = ahead'[d][i].reading.measured_at
              /\ \A m \in DOMAIN deferred'[d] :
                    /\ deferred'[d][m].reading.wake < ahead'[d][i].reading.wake
                    /\ deferred'[d][m].reading.measured_at < ahead'[d][i].reading.measured_at
  <2>1. Len(ahead'[d]) # k
    BY <1>13, <1>4
  <2>2. \A m \in DOMAIN deferred'[d] : m + k \in DOMAIN q /\ deferred'[d][m] = q[m + k]
    BY <2>1, <1>9
  <2> QED
    BY <2>2, <1>2, <1>5, <1>7, <1>8, <1>10, <1>13
<1>14. ASSUME NEW i \in DOMAIN ahead'[d], NEW j \in DOMAIN ahead'[d],
              ahead'[d][i].reading.wake < ahead'[d][j].reading.wake
       PROVE  ahead'[d][i].reading.measured_at < ahead'[d][j].reading.measured_at
  <2>1. CASE i <= k /\ ahead'[d][i].reading = q[i].reading
    <3>1. i \in DOMAIN q
      BY <2>1, <1>4, <1>11
    <3>2. CASE j <= k /\ ahead'[d][j].reading = q[j].reading
      <4>1. j \in DOMAIN q
        BY <3>2, <1>4, <1>11
      <4>2. ~(j < i) /\ j # i
        BY <4>1, <3>1, <2>1, <3>2, <1>5, <1>6, <1>14
      <4>3. i < j
        BY <4>1, <4>2, <3>1, <1>4
      <4> QED
        BY <4>1, <4>3, <3>1, <2>1, <3>2, <1>5
    <3>3. CASE ahead'[d][j].reading = Reading(d)
      BY <3>1, <3>3, <2>1, <1>5, <1>7
    <3> QED
      BY <3>2, <3>3, <1>10
  <2>2. CASE ahead'[d][i].reading = Reading(d)
    <3>1. CASE j <= k /\ ahead'[d][j].reading = q[j].reading
      <4>1. j \in DOMAIN q
        BY <3>1, <1>4, <1>11
      <4> QED
        BY <4>1, <3>1, <2>2, <1>5, <1>6, <1>7, <1>8, <1>14
    <3>2. CASE ahead'[d][j].reading = Reading(d)
      BY <3>2, <2>2, <1>7, <1>8, <1>14
    <3> QED
      BY <3>1, <3>2, <1>10
  <2> QED
    BY <2>1, <2>2, <1>10
<1>15. ASSUME NEW i \in DOMAIN ahead'[d]
       PROVE  /\ ahead'[d][i].publish_at < at'[d]
              /\ \A j \in DOMAIN ahead'[d] : ahead'[d][j].publish_at = ahead'[d][i].publish_at
  BY <1>2, <1>8, <1>10
<1>16. ASSUME NEW i \in DOMAIN ahead'[d]
       PROVE  /\ ahead'[d][i].reading.device = d
              /\ ahead'[d][i].reading.wake < wake'[d]
              /\ IF ahead'[d][i].kind = "late"
                 THEN /\ wake'[d] - 1 - ahead'[d][i].reading.wake \in 1 .. 3
                      /\ ahead'[d][i].publish_at > ahead'[d][i].reading.measured_at
                 ELSE /\ ahead'[d][i].publish_at = ahead'[d][i].reading.measured_at
                      /\ ahead'[d][i].reading.wake = wake'[d] - 1
              /\ \A m \in DOMAIN deferred'[d] :
                   /\ deferred'[d][m].reading # ahead'[d][i].reading
                   /\ ahead'[d][i].kind = "late" =>
                        /\ ahead'[d][i].reading.wake < deferred'[d][m].reading.wake
                        /\ ahead'[d][i].reading.measured_at < deferred'[d][m].reading.measured_at
                   /\ ahead'[d][i].kind # "late" =>
                        /\ deferred'[d][m].reading.wake < ahead'[d][i].reading.wake
                        /\ deferred'[d][m].reading.measured_at < ahead'[d][i].reading.measured_at
  <2>0. \A x \in Nat : ~(x < x)
    OBVIOUS
  <2>1. ahead'[d][i].reading.wake \in Nat
    <3>1. ahead'[d] \in Seq(Emissions)
      BY <1>3 DEF Yields
    <3> QED
      BY <3>1, StreamFields
  <2>2. CASE i <= k /\ ahead'[d][i].kind = "late" /\ ahead'[d][i].reading = q[i].reading
    <3>1. \A m \in DOMAIN deferred'[d] : deferred'[d][m].reading # ahead'[d][i].reading
      BY <2>0, <2>1, <2>2, <1>12
    <3> QED
      BY <3>1, <2>2, <1>12
  <2>3. CASE i > k /\ ahead'[d][i].kind # "late" /\ ahead'[d][i].reading = Reading(d)
    <3>1. \A m \in DOMAIN deferred'[d] : deferred'[d][m].reading # ahead'[d][i].reading
      BY <2>0, <2>1, <2>3, <1>13
    <3> QED
      BY <3>1, <2>3, <1>13
  <2> QED
    BY <2>2, <2>3, <1>10
<1>17. ASSUME NEW e \in Device, e # d
       PROVE  deferred'[e] = deferred[e] /\ wake'[e] = wake[e] /\ at'[e] = at[e] /\ ahead'[e] = ahead[e]
  BY <1>17, <1>2, <1>3 DEF Yields
<1>18. YieldInv
  BY DEF StreamInv
<1> QED
  BY <1>10, <1>14, <1>15, <1>16, <1>17, <1>18 DEF YieldInv
LEMMA WakeType ==
  ASSUME StreamInv, NEW d \in Device, Wakes(d)
  PROVE  SimulatorTypeOK'
<1>1. SimulatorTypeOK
  BY DEF StreamInv
<1>2. PICK k \in 0 .. Len(deferred[d]) : Yields(d, k)
  BY <1>1, WakeYields
<1>3. deferred' \in [Device -> Seq(Entries)] /\ ahead' \in [Device -> Seq(Emissions)]
  BY <1>2 DEF Yields
<1>4. at' \in [Device -> Int] /\ wake' \in [Device -> Nat] /\ last' = last
  BY <1>1, WakeClock
<1> QED
  BY <1>1, <1>3, <1>4 DEF SimulatorTypeOK

(* No stream wakes while a duplicate waits to be taken: all are ready. *)
LEMMA WakeDuplicate ==
  ASSUME StreamInv, NEW d \in Device, Wakes(d)
  PROVE  DuplicateInv'
<1>1. SimulatorTypeOK /\ DuplicateInv
  BY DEF StreamInv
<1>2. PICK k \in 0 .. Len(deferred[d]) : Yields(d, k)
  BY <1>1, WakeYields
<1>3. \A e \in Device \ {d} : ahead'[e] = ahead[e]
  BY <1>2 DEF Yields
<1>4. ~Ready(d)
  <2>1. ahead[d] = <<>> /\ wake[d] < MaxWakes[d] /\ wake[d] \in Nat
    BY <1>1, WakeClock DEF SimulatorTypeOK
  <2>2. MaxWakes[d] \in Nat
    BY SimulatorAssumption DEF Device
  <2> QED
    BY <2>1, <2>2 DEF Ready
<1>5. ASSUME NEW e \in Device, ahead'[e] # <<>>, ahead'[e][1].kind = "duplicate" PROVE FALSE
  <2>1. CASE e = d
    <3>1. ahead'[d] \in Seq(Emissions)
      BY <1>2 DEF Yields
    <3>2. 1 \in DOMAIN ahead'[d]
      BY <3>1, <2>1, <1>5
    <3> QED
      BY <3>2, <2>1, <1>2, <1>5 DEF Yields
  <2>2. CASE e # d
    BY <2>2, <1>1, <1>3, <1>4, <1>5 DEF DuplicateInv
  <2> QED
    BY <2>1, <2>2
<1>6. ASSUME NEW e \in Device, NEW i \in DOMAIN ahead'[e], ahead'[e][i].kind = "duplicate", i # 1
      PROVE  ahead'[e][i - 1] = [ahead'[e][i] EXCEPT !.kind = "normal"]
  <2>1. CASE e = d
    BY <2>1, <1>2, <1>6 DEF Yields
  <2>2. CASE e # d
    BY <2>2, <1>1, <1>3, <1>6 DEF DuplicateInv
  <2> QED
    BY <2>1, <2>2
<1> QED
  BY <1>5, <1>6 DEF DuplicateInv

(* What a wake yields is published at the time of the wake, which is not   *)
(* before what merge has taken. *)
LEMMA WakeFront ==
  ASSUME StreamInv, NEW d \in Device, Wakes(d)
  PROVE  FrontInv'
<1>1. SimulatorTypeOK /\ FrontInv
  BY DEF StreamInv
<1>2. PICK k \in 0 .. Len(deferred[d]) : Yields(d, k)
  BY <1>1, WakeYields
<1>3. /\ at'[d] > at[d] /\ wake'[d] = wake[d] + 1
      /\ \A e \in Device \ {d} : at'[e] = at[e] /\ wake'[e] = wake[e]
      /\ last' = last /\ ahead[d] = <<>> /\ wake[d] < MaxWakes[d]
  BY <1>1, WakeClock
<1>4. \A e \in Device \ {d} : deferred'[e] = deferred[e] /\ ahead'[e] = ahead[e]
  BY <1>2 DEF Yields
<1> SUFFICES ASSUME last # <<>>
             PROVE  FrontInv'
  BY <1>3 DEF FrontInv
<1>5. PICK m \in Emissions : last = <<m>>
  BY <1>1 DEF SimulatorTypeOK
<1>6. last[1] = m /\ m.reading \in Readings /\ m.publish_at \in Int
      /\ m.reading.device \in Device /\ m.reading.wake \in Nat
  BY <1>5 DEF Emissions, Readings
<1>7. m.reading.wake < wake[m.reading.device]
  BY <1>1, <1>6 DEF FrontInv
<1>8. at \in [Device -> Int] /\ wake \in [Device -> Nat] /\ at' \in [Device -> Int] /\ wake' \in [Device -> Nat]
  BY <1>1, WakeClock DEF SimulatorTypeOK
<1>9. m.reading.wake < wake'[m.reading.device]
  <2>1. wake[m.reading.device] \in Nat
    BY <1>6, <1>8
  <2>2. CASE m.reading.device = d
    <3>1. wake'[d] = wake[d] + 1 /\ m.reading.wake < wake[d] /\ wake[d] \in Nat
      BY <2>1, <2>2, <1>3, <1>7
    <3> QED
      BY <3>1, <2>2, <1>6
  <2>3. CASE m.reading.device # d
    BY <2>3, <1>3, <1>6, <1>7
  <2> QED
    BY <2>2, <2>3
<1>10. m.publish_at <= at[d]
  BY <1>1, <1>3, <1>6 DEF FrontInv
<1>11. ASSUME NEW i \in DOMAIN deferred'[d] PROVE deferred'[d][i].reading # m.reading
  <2>1. CASE i + k \in DOMAIN deferred[d] /\ deferred'[d][i] = deferred[d][i + k]
    BY <2>1, <1>1, <1>6 DEF FrontInv
  <2>2. CASE deferred'[d][i].reading = Reading(d)
    <3>1. SUFFICES ASSUME m.reading = Reading(d) PROVE FALSE
      BY <2>2
    <3>2. m.reading.device = d /\ m.reading.wake = wake[d]
      BY <3>1 DEF Reading
    <3> QED
      BY <3>2, <1>6, <1>7
  <2> QED
    BY <2>1, <2>2, <1>2 DEF Yields
<1>12. ASSUME NEW i \in DOMAIN ahead'[d] PROVE m.publish_at <= ahead'[d][i].publish_at
  BY <1>2, <1>10 DEF Yields
<1>13. m.publish_at <= at'[d]
  BY <1>3, <1>6, <1>8, <1>10
<1>14. ASSUME NEW e \in Device, e # d
       PROVE  /\ \A i \in DOMAIN deferred'[e] : deferred'[e][i].reading # m.reading
              /\ \A i \in DOMAIN ahead'[e] : m.publish_at <= ahead'[e][i].publish_at
              /\ ahead'[e] = <<>> /\ wake'[e] < MaxWakes[e] => m.publish_at <= at'[e]
  BY <1>1, <1>3, <1>4, <1>6, <1>14 DEF FrontInv
<1>15. last'[1] = m
  BY <1>3, <1>6
<1> QED
  BY <1>9, <1>11, <1>12, <1>13, <1>14, <1>15 DEF FrontInv

(* The merge takes the head of one stream; the rest of it moves up. *)
LEMMA PublishKeeps ==
  ASSUME StreamInv, NEW d \in Device, Publish(d)
  PROVE  StreamInv'
<1>1. /\ ahead[d] # <<>> /\ last' = <<Head(ahead[d])>>
      /\ ahead' = [ahead EXCEPT ![d] = Tail(@)]
      /\ UNCHANGED <<at, wake, deferred>>
      /\ \A e \in Device : Ready(e) /\ (ahead[e] # <<>> => Before(d, e))
  BY DEF Publish
<1>2. SimulatorTypeOK /\ DequeInv /\ YieldInv /\ DuplicateInv
  BY DEF StreamInv
<1>3. /\ ahead \in [Device -> Seq(Emissions)] /\ ahead[d] \in Seq(Emissions)
      /\ at \in [Device -> Int] /\ wake \in [Device -> Nat]
  BY <1>2 DEF SimulatorTypeOK
<1> DEFINE m == ahead[d][1]
<1>4. Len(ahead[d]) \in Nat \ {0} /\ DOMAIN ahead[d] = 1 .. Len(ahead[d]) /\ 1 \in DOMAIN ahead[d]
      /\ Head(ahead[d]) = m
  BY <1>1, <1>3
<1>5. m \in Emissions
  BY <1>3, <1>4, StreamFields
<1>6. /\ ahead' \in [Device -> Seq(Emissions)]
      /\ ahead'[d] = Tail(ahead[d])
      /\ \A e \in Device \ {d} : ahead'[e] = ahead[e]
  <2>1. Tail(ahead[d]) \in Seq(Emissions)
    BY <1>1, <1>3
  <2> QED
    BY <2>1, <1>1, <1>3
<1>7. ASSUME NEW i \in DOMAIN ahead'[d]
      PROVE  /\ i \in Nat \ {0} /\ i + 1 \in DOMAIN ahead[d]
             /\ ahead'[d][i] = ahead[d][i + 1]
             /\ i # 1 => i - 1 \in DOMAIN ahead'[d]
  <2>1. DOMAIN Tail(ahead[d]) = 1 .. Len(ahead[d]) - 1
        /\ \A j \in 1 .. Len(ahead[d]) - 1 : Tail(ahead[d])[j] = ahead[d][j + 1]
    BY <1>1, <1>3, <1>4
  <2> QED
    BY <2>1, <1>4, <1>6
<1> HIDE DEF m
<1>8. last' = <<m>> /\ last'[1] = m
  BY <1>1, <1>4
<1>9. SimulatorTypeOK'
  BY <1>1, <1>2, <1>5, <1>6, <1>8 DEF SimulatorTypeOK
<1>10. DequeInv'
  BY <1>1, <1>2 DEF DequeInv
<1>11. YieldInv'
  <2>1. ASSUME NEW e \in Device, NEW i \in DOMAIN ahead'[e]
        PROVE  \E n \in DOMAIN ahead[e] : ahead[e][n] = ahead'[e][i]
    <3>1. CASE e = d
      <4>1. i + 1 \in DOMAIN ahead[d] /\ ahead'[d][i] = ahead[d][i + 1]
        BY <3>1, <1>7
      <4> QED
        BY <4>1, <3>1
    <3>2. CASE e # d
      BY <3>2, <1>6
    <3> QED
      BY <3>1, <3>2
  <2> QED
    BY <2>1, <1>1, <1>2 DEF YieldInv
<1>12. /\ m.reading.device = d /\ m.reading.wake < wake[d] /\ m.publish_at < at[d]
       /\ \A j \in DOMAIN ahead[d] : ahead[d][j].publish_at = m.publish_at
       /\ \A n \in DOMAIN deferred[d] : deferred[d][n].reading # m.reading
  BY <1>2, <1>4 DEF YieldInv, m
<1>13. ASSUME NEW e \in Device, ahead[e] # <<>>
       PROVE  /\ 1 \in DOMAIN ahead[e] /\ Head(ahead[e]) = ahead[e][1]
              /\ ahead[e][1].publish_at \in Int
  <2>1. ahead[e] \in Seq(Emissions)
    BY <1>3
  <2>2. 1 \in DOMAIN ahead[e] /\ Head(ahead[e]) = ahead[e][1]
    BY <2>1, <1>13
  <2> QED
    BY <2>1, <2>2, StreamFields
<1>14. DuplicateInv'
  <2>1. ASSUME NEW e \in Device, NEW i \in DOMAIN ahead'[e], ahead'[e][i].kind = "duplicate", i # 1
        PROVE  ahead'[e][i - 1] = [ahead'[e][i] EXCEPT !.kind = "normal"]
    <3>1. CASE e = d
      <4>1. /\ i + 1 \in DOMAIN ahead[d] /\ ahead'[d][i] = ahead[d][i + 1]
            /\ i - 1 \in DOMAIN ahead'[d] /\ i \in Nat \ {0}
        BY <3>1, <2>1, <1>7
      <4>2. ahead'[d][i - 1] = ahead[d][(i - 1) + 1]
        BY <4>1, <1>7
      <4>3. (i - 1) + 1 = (i + 1) - 1 /\ i + 1 # 1
        BY <4>1
      <4>4. ahead[d][(i + 1) - 1] = [ahead[d][i + 1] EXCEPT !.kind = "normal"]
        BY <4>1, <4>3, <3>1, <2>1, <1>2 DEF DuplicateInv
      <4> QED
        BY <4>1, <4>2, <4>3, <4>4, <3>1
    <3>2. CASE e # d
      BY <3>2, <2>1, <1>2, <1>6 DEF DuplicateInv
    <3> QED
      BY <3>1, <3>2
  <2>2. ASSUME ahead'[d] # <<>>, ahead'[d][1].kind = "duplicate"
        PROVE  /\ last' = <<[ahead'[d][1] EXCEPT !.kind = "normal"]>>
               /\ \A e \in Device : Ready(e)' /\ (ahead'[e] # <<>> => Before(d, e)')
    <3>1. 1 \in DOMAIN ahead'[d] /\ Head(ahead'[d]) = ahead'[d][1]
      <4>1. ahead'[d] \in Seq(Emissions)
        BY <1>6
      <4> QED
        BY <4>1, <2>2
    <3>2. 2 \in DOMAIN ahead[d] /\ ahead'[d][1] = ahead[d][2]
      <4>1. 1 + 1 \in DOMAIN ahead[d] /\ ahead'[d][1] = ahead[d][1 + 1]
        BY <3>1, <1>7
      <4>2. 1 + 1 = 2
        OBVIOUS
      <4> QED
        BY <4>1, <4>2
    <3>3. m = [ahead[d][2] EXCEPT !.kind = "normal"]
      <4>1. ahead[d][2 - 1] = [ahead[d][2] EXCEPT !.kind = "normal"]
        BY <3>2, <2>2, <1>2 DEF DuplicateInv
      <4>2. 2 - 1 = 1
        OBVIOUS
      <4> QED
        BY <4>1, <4>2 DEF m
    <3>4. Head(ahead'[d]).publish_at = m.publish_at
      BY <3>1, <3>2, <1>12
    <3>5. ASSUME NEW e \in Device
          PROVE  Ready(e)' /\ (ahead'[e] # <<>> => Before(d, e)')
      <4>1. CASE e = d
        <5>1. m.publish_at \in Int /\ d \in Int
          BY <1>5, SimulatorAssumption DEF Emissions, Device
        <5> QED
          BY <5>1, <4>1, <2>2, <3>4 DEF Ready, Before
      <4>2. CASE e # d
        <5>1. ahead'[e] = ahead[e] /\ Ready(e) /\ (ahead[e] # <<>> => Before(d, e))
          BY <4>2, <1>1, <1>6
        <5>2. wake' = wake /\ Head(ahead[d]).publish_at = m.publish_at
          BY <1>1, <1>4
        <5> QED
          BY <5>1, <5>2, <3>4 DEF Ready, Before
      <4> QED
        BY <4>1, <4>2
    <3> QED
      BY <3>2, <3>3, <3>5, <1>8
  <2>3. ASSUME NEW e \in Device, e # d, ahead'[e] # <<>>, ahead'[e][1].kind = "duplicate"
        PROVE  FALSE
    <3>1. ahead[e] # <<>> /\ ahead[e][1].kind = "duplicate"
      BY <2>3, <1>6
    <3>2. Before(e, d) /\ Before(d, e)
      BY <3>1, <1>1, <1>2 DEF DuplicateInv
    <3>3. d \in Int /\ e \in Int
      BY SimulatorAssumption DEF Device
    <3>4. Head(ahead[d]).publish_at \in Int /\ Head(ahead[e]).publish_at \in Int
      BY <3>1, <1>1, <1>13
    <3> QED
      BY <3>2, <3>3, <3>4, <2>3 DEF Before
  <2> QED
    BY <2>1, <2>2, <2>3 DEF DuplicateInv
<1>15. FrontInv'
  <2>1. m.reading.wake < wake'[m.reading.device]
    BY <1>1, <1>12
  <2>2. ASSUME NEW e \in Device, NEW i \in DOMAIN deferred'[e] PROVE deferred'[e][i].reading # m.reading
    <3>1. CASE e = d
      BY <3>1, <1>1, <1>12
    <3>2. CASE e # d
      <4>1. deferred'[e][i].reading.device = e
        BY <1>10 DEF DequeInv
      <4> QED
        BY <4>1, <3>2, <1>12
    <3> QED
      BY <3>1, <3>2
  <2>3. ASSUME NEW e \in Device, NEW i \in DOMAIN ahead'[e] PROVE m.publish_at <= ahead'[e][i].publish_at
    <3>0. m.publish_at \in Int
      BY <1>5 DEF Emissions
    <3>1. CASE e = d
      <4>1. i + 1 \in DOMAIN ahead[d] /\ ahead'[d][i] = ahead[d][i + 1]
        BY <3>1, <1>7
      <4> QED
        BY <4>1, <3>0, <3>1, <1>12
    <3>2. CASE e # d
      <4>1. ahead'[e] = ahead[e] /\ i \in DOMAIN ahead[e] /\ ahead[e] # <<>>
        <5>1. ahead'[e] = ahead[e]
          BY <3>2, <1>6
        <5>2. ahead[e] \in Seq(Emissions)
          BY <1>3
        <5> QED
          BY <5>1, <5>2
      <4>2. Before(d, e) /\ Head(ahead[d]) = m
        BY <4>1, <1>1, <1>4
      <4>3. Head(ahead[e]) = ahead[e][1] /\ ahead[e][1].publish_at \in Int /\ 1 \in DOMAIN ahead[e]
        BY <4>1, <1>13
      <4>4. ahead[e][i].publish_at = ahead[e][1].publish_at
        BY <4>1, <4>3, <1>2 DEF YieldInv
      <4> QED
        BY <3>0, <4>1, <4>2, <4>3, <4>4 DEF Before
    <3> QED
      BY <3>1, <3>2
  <2>4. ASSUME NEW e \in Device, ahead'[e] = <<>>, wake'[e] < MaxWakes[e]
        PROVE  m.publish_at <= at'[e]
    <3>1. CASE e = d
      <4>1. m.publish_at \in Int /\ at[d] \in Int /\ at' = at
        BY <1>1, <1>3, <1>5 DEF Emissions
      <4> QED
        BY <4>1, <3>1, <1>12
    <3>2. CASE e # d
      <4>1. ahead[e] = <<>> /\ Ready(e) /\ wake[e] < MaxWakes[e] /\ wake[e] \in Nat
        BY <3>2, <2>4, <1>1, <1>3, <1>6
      <4>2. MaxWakes[e] \in Nat
        BY SimulatorAssumption DEF Device
      <4> QED
        BY <4>1, <4>2 DEF Ready
    <3> QED
      BY <3>1, <3>2
  <2> QED
    BY <2>1, <2>2, <2>3, <2>4, <1>8 DEF FrontInv
<1> QED
  BY <1>9, <1>10, <1>11, <1>14, <1>15 DEF StreamInv
-----------------------------------------------------------------------------
(* The invariants of the run follow from the inductive one. *)
LEMMA StreamInvImplies ==
  ASSUME StreamInv
  PROVE  LateWithinThree /\ InstantsFollowWakes /\ HeldNotSent
<1>1. SimulatorTypeOK /\ DequeInv /\ YieldInv /\ FrontInv
  BY DEF StreamInv
<1>2. ASSUME NEW d \in Device
      PROVE  /\ deferred[d] \in Seq(Entries) /\ ahead[d] \in Seq(Emissions)
             /\ wake[d] \in Nat /\ at[d] \in Int
  BY <1>1 DEF SimulatorTypeOK
<1>3. ASSUME NEW d \in Device, NEW r \in Held(d)
      PROVE  \E i \in DOMAIN deferred[d] : r = deferred[d][i].reading
  <2>1. PICK entry \in Range(deferred[d]) : r = entry.reading
    BY DEF Held
  <2> QED
    BY <2>1 DEF Range
<1>4. ASSUME NEW d \in Device, NEW r \in HandedOut(d)
      PROVE  \E i \in DOMAIN ahead[d] : r = ahead[d][i].reading
  <2>1. PICK e \in Range(ahead[d]) : r = e.reading
    BY DEF HandedOut
  <2> QED
    BY <2>1 DEF Range
<1>5. LateWithinThree
  <2>1. ASSUME NEW d \in Device, NEW e \in Range(ahead[d])
        PROVE  IF e.kind = "late"
               THEN /\ wake[d] - 1 - e.reading.wake \in 1 .. 3
                    /\ e.publish_at > e.reading.measured_at
               ELSE e.publish_at = e.reading.measured_at
    <3>1. PICK i \in DOMAIN ahead[d] : e = ahead[d][i]
      BY DEF Range
    <3> QED
      BY <3>1, <1>1 DEF YieldInv
  <2>2. ASSUME NEW d \in Device, NEW r \in Held(d)
        PROVE  wake[d] - 1 - r.wake \in 0 .. 2
    <3>1. PICK i \in DOMAIN deferred[d] : r = deferred[d][i].reading
      BY <1>3
    <3>2. r.wake < wake[d] /\ wake[d] <= r.wake + 3
      BY <3>1, <1>1 DEF DequeInv
    <3>3. r.wake \in Nat /\ wake[d] \in Nat
      BY <3>1, <1>2, DequeFields
    <3> QED
      BY <3>2, <3>3
  <2> QED
    BY <2>1, <2>2 DEF LateWithinThree
<1>6. InstantsFollowWakes
  <2>1. ASSUME NEW d \in Device, NEW r \in Held(d) \cup HandedOut(d)
        PROVE  r.measured_at < at[d]
    <3>1. CASE r \in Held(d)
      BY <3>1, <1>1, <1>3 DEF DequeInv
    <3>2. CASE r \in HandedOut(d)
      <4>1. PICK i \in DOMAIN ahead[d] : r = ahead[d][i].reading
        BY <3>2, <1>4
      <4>2. /\ ahead[d][i].publish_at < at[d]
            /\ ahead[d][i].publish_at > r.measured_at \/ ahead[d][i].publish_at = r.measured_at
        BY <4>1, <1>1 DEF YieldInv
      <4>3. ahead[d][i].publish_at \in Int /\ r.measured_at \in Int /\ at[d] \in Int
        BY <4>1, <1>2, StreamFields
      <4> QED
        BY <4>2, <4>3
    <3> QED
      BY <3>1, <3>2
  <2>2. ASSUME NEW d \in Device, NEW r \in Held(d) \cup HandedOut(d),
               NEW s \in Held(d) \cup HandedOut(d), r.wake < s.wake
        PROVE  r.measured_at < s.measured_at
    <3>1. CASE r \in Held(d) /\ s \in Held(d)
      <4>1. PICK i \in DOMAIN deferred[d] : r = deferred[d][i].reading
        BY <3>1, <1>3
      <4>2. PICK j \in DOMAIN deferred[d] : s = deferred[d][j].reading
        BY <3>1, <1>3
      <4>3. r.wake \in Nat /\ s.wake \in Nat
        BY <4>1, <4>2, <1>2, DequeFields
      <4>4. ~(s.wake < r.wake) /\ r # s
        BY <4>3, <2>2
      <4>5. ~(j < i) /\ i # j /\ i \in Nat /\ j \in Nat
        BY <4>1, <4>2, <4>4, <1>1, <1>2 DEF DequeInv
      <4>6. i < j
        BY <4>5
      <4> QED
        BY <4>1, <4>2, <4>6, <1>1 DEF DequeInv
    <3>2. CASE r \in Held(d) /\ s \in HandedOut(d)
      <4>1. PICK i \in DOMAIN deferred[d] : r = deferred[d][i].reading
        BY <3>2, <1>3
      <4>2. PICK j \in DOMAIN ahead[d] : s = ahead[d][j].reading
        BY <3>2, <1>4
      <4>3. r.wake \in Nat /\ s.wake \in Nat
        BY <4>1, <4>2, <1>2, DequeFields, StreamFields
      <4>4. ~(s.wake < r.wake)
        BY <4>3, <2>2
      <4> QED
        BY <4>1, <4>2, <4>4, <1>1 DEF YieldInv
    <3>3. CASE r \in HandedOut(d) /\ s \in Held(d)
      <4>1. PICK i \in DOMAIN ahead[d] : r = ahead[d][i].reading
        BY <3>3, <1>4
      <4>2. PICK j \in DOMAIN deferred[d] : s = deferred[d][j].reading
        BY <3>3, <1>3
      <4>3. r.wake \in Nat /\ s.wake \in Nat
        BY <4>1, <4>2, <1>2, DequeFields, StreamFields
      <4>4. ~(s.wake < r.wake)
        BY <4>3, <2>2
      <4> QED
        BY <4>1, <4>2, <4>4, <1>1 DEF YieldInv
    <3>4. CASE r \in HandedOut(d) /\ s \in HandedOut(d)
      <4>1. PICK i \in DOMAIN ahead[d] : r = ahead[d][i].reading
        BY <3>4, <1>4
      <4>2. PICK j \in DOMAIN ahead[d] : s = ahead[d][j].reading
        BY <3>4, <1>4
      <4> QED
        BY <4>1, <4>2, <2>2, <1>1 DEF YieldInv
    <3> QED
      BY <3>1, <3>2, <3>3, <3>4
  <2> QED
    BY <2>1, <2>2 DEF InstantsFollowWakes
<1>7. HeldNotSent
  <2>1. ASSUME NEW d \in Device, NEW r \in Held(d), r \in HandedOut(d) PROVE FALSE
    <3>1. PICK i \in DOMAIN deferred[d] : r = deferred[d][i].reading
      BY <1>3
    <3>2. PICK j \in DOMAIN ahead[d] : r = ahead[d][j].reading
      BY <2>1, <1>4
    <3>3. deferred[d][i].reading # ahead[d][j].reading
      BY <1>1 DEF YieldInv
    <3> QED
      BY <3>1, <3>2, <3>3
  <2>2. ASSUME NEW d \in Device, NEW e \in Range(last), e.reading \in Held(d) PROVE FALSE
    <3>1. PICK i \in DOMAIN deferred[d] : e.reading = deferred[d][i].reading
      BY <2>2, <1>3
    <3>2. last # <<>> /\ e = last[1]
      <4>1. PICK n \in DOMAIN last : e = last[n]
        BY DEF Range
      <4>2. CASE last = <<>>
        BY <4>1, <4>2
      <4>3. CASE \E m \in Emissions : last = <<m>>
        BY <4>1, <4>3
      <4> QED
        BY <4>2, <4>3, <1>1 DEF SimulatorTypeOK
    <3> QED
      BY <3>1, <3>2, <1>1 DEF FrontInv
  <2> QED
    BY <2>1, <2>2 DEF HeldNotSent
<1> QED
  BY <1>5, <1>6, <1>7

LEMMA StreamInit ==
  ASSUME Init
  PROVE  StreamInv
<1>1. at \in [Device -> Int]
  <2>1. Phase \subseteq Int
    BY SimulatorAssumption
  <2> QED
    BY <2>1 DEF Init
<1>2. wake \in [Device -> Nat] /\ deferred \in [Device -> Seq(Entries)] /\ ahead \in [Device -> Seq(Emissions)]
  BY DEF Init
<1>3. last = <<>> /\ \A d \in Device : deferred[d] = <<>> /\ ahead[d] = <<>>
  BY DEF Init
<1>4. \A d \in Device : DOMAIN deferred[d] = {} /\ DOMAIN ahead[d] = {}
  BY <1>3
<1> QED
  BY <1>1, <1>2, <1>3, <1>4
     DEF StreamInv, SimulatorTypeOK, DequeInv, YieldInv, DuplicateInv, FrontInv

LEMMA StreamStep ==
  ASSUME StreamInv, [Next]_vars
  PROVE  StreamInv'
<1>1. ASSUME NEW d \in Device, Wakes(d) PROVE StreamInv'
  BY <1>1, WakeType, WakeDeque, WakeYield, WakeDuplicate, WakeFront DEF StreamInv
<1>2. ASSUME NEW d \in Device, Publish(d) PROVE StreamInv'
  BY <1>2, PublishKeeps
<1>3. CASE UNCHANGED vars
  BY <1>3 DEF vars, StreamInv, SimulatorTypeOK, DequeInv, YieldInv, DuplicateInv, FrontInv,
              Ready, Before
<1> QED
  BY <1>1, <1>2, <1>3 DEF Next, Wakes

LEMMA StreamInvariant == Spec => []StreamInv
  BY StreamInit, StreamStep, PTL DEF Spec

(* However many devices there are and however their deferrals overlap, a   *)
(* late reading arrives within three wakes of the wake that was to send it *)
(* (stream.py, device_stream: the deque releases from its head only). *)
THEOREM LateArrivesSoon == Spec => []LateWithinThree
  BY StreamInvariant, StreamInvImplies, PTL

(* However short the interval and large the jitter, measured_at grows from *)
(* wake to wake, so no two readings of a device share a key (dynamics.py,  *)
(* next_wake). *)
THEOREM InstantsGrow == Spec => []InstantsFollowWakes
  BY StreamInvariant, StreamInvImplies, PTL

(* No reading is both sent and held back, so none is sent twice but as a   *)
(* marked duplicate (stream.py, device_stream). *)
THEOREM HeldIsNotSent == Spec => []HeldNotSent
  BY StreamInvariant, StreamInvImplies, PTL

(* The fleet publishes in the order of publish_at, late emissions and all  *)
(* (stream.py, merge_streams: heapq.merge needs each stream sorted). *)
THEOREM FleetPublishesInOrder == Spec => FleetInOrder
<1>1. Spec => []StreamInv
  BY StreamInvariant
<1>2. ASSUME StreamInv, [Next]_vars
      PROVE  [last' # last /\ last # <<>> => last'[1].publish_at >= last[1].publish_at]_vars
  <2>1. SUFFICES ASSUME last' # last, last # <<>>
                 PROVE  last'[1].publish_at >= last[1].publish_at
    OBVIOUS
  <2>2. PICK d \in Device : Publish(d)
    BY <1>2, <2>1 DEF Next, Missed, Deferred, CheckIn, Advance, vars
  <2>3. last'[1] = Head(ahead[d]) /\ ahead[d] # <<>>
    BY <2>2 DEF Publish
  <2>4. ahead[d] \in Seq(Emissions)
    BY <1>2 DEF StreamInv, SimulatorTypeOK
  <2>5. 1 \in DOMAIN ahead[d] /\ Head(ahead[d]) = ahead[d][1]
    BY <2>3, <2>4
  <2>6. last[1].publish_at <= ahead[d][1].publish_at
    BY <2>1, <2>5, <1>2 DEF StreamInv, FrontInv
  <2>7. PICK m \in Emissions : last = <<m>>
    BY <2>1, <1>2 DEF StreamInv, SimulatorTypeOK
  <2>8. last[1].publish_at \in Int /\ ahead[d][1].publish_at \in Int
    BY <2>4, <2>5, <2>7, StreamFields DEF Emissions
  <2> QED
    BY <2>3, <2>5, <2>6, <2>8
<1> QED
  BY <1>1, <1>2, PTL DEF Spec, FleetInOrder

(* In the stream of the whole fleet a duplicate directly follows the       *)
(* message it repeats (stream.py, device_stream and merge_streams). *)
THEOREM DuplicatesFollow == Spec => DuplicateFollowsOriginal
<1>1. Spec => []StreamInv
  BY StreamInvariant
<1>2. ASSUME StreamInv, [Next]_vars
      PROVE  [last' # last /\ last'[1].kind = "duplicate" =>
                last' = [last EXCEPT ![1].kind = "duplicate"] /\ last[1].kind = "normal"]_vars
  <2>1. SUFFICES ASSUME last' # last, last'[1].kind = "duplicate"
                 PROVE  last' = [last EXCEPT ![1].kind = "duplicate"] /\ last[1].kind = "normal"
    OBVIOUS
  <2>2. PICK d \in Device : Publish(d)
    BY <1>2, <2>1 DEF Next, Missed, Deferred, CheckIn, Advance, vars
  <2>3. last' = <<Head(ahead[d])>> /\ ahead[d] # <<>>
    BY <2>2 DEF Publish
  <2>4. ahead[d] \in Seq(Emissions)
    BY <1>2 DEF StreamInv, SimulatorTypeOK
  <2> DEFINE m == ahead[d][1]
  <2>5. 1 \in DOMAIN ahead[d] /\ Head(ahead[d]) = m
    BY <2>3, <2>4
  <2>6. m \in Emissions /\ m.kind = "duplicate"
    BY <2>1, <2>3, <2>4, <2>5, StreamFields
  <2>7. last = <<[m EXCEPT !.kind = "normal"]>>
    BY <2>3, <2>6, <1>2 DEF StreamInv, DuplicateInv
  <2> HIDE DEF m
  <2>8. [m EXCEPT !.kind = "normal"].kind = "normal" /\ [[m EXCEPT !.kind = "normal"] EXCEPT !.kind = "duplicate"] = m
    BY <2>6 DEF Emissions
  <2>9. last[1].kind = "normal" /\ [last EXCEPT ![1].kind = "duplicate"] = <<m>>
    <3> DEFINE x == [m EXCEPT !.kind = "normal"]
    <3>1. x.kind = "normal" /\ [x EXCEPT !.kind = "duplicate"] = m /\ last = <<x>>
      BY <2>7, <2>8
    <3> HIDE DEF x
    <3>2. last[1] = x /\ [last EXCEPT ![1].kind = "duplicate"] = <<[x EXCEPT !.kind = "duplicate"]>>
      BY <3>1
    <3> QED
      BY <3>1, <3>2
  <2> QED
    BY <2>3, <2>5, <2>9
<1> QED
  BY <1>1, <1>2, PTL DEF Spec, DuplicateFollowsOriginal
===============================================================================
