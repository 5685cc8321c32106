--------------------------- MODULE DeadLetterProofs ---------------------------
(***************************************************************************)
(* dead_letter has no unique key, so a retry adds a row; but for every     *)
(* message, every row beyond its first has a fault to show for it          *)
(* (DeadLettersHaveFaults).                                                *)
(*                                                                         *)
(* The weight of a message is its rows and the copies of it that may yet   *)
(* become rows, in the session and in the service's memory.  A fault adds  *)
(* one to it at most.  Without a fault only the drain loop does, which     *)
(* writes its newest message and pops its oldest: so a message that may be *)
(* drained behind a backlog must weigh one less (SpareInv).  That a        *)
(* backlog has cost a fault the message has not spent is the hard part.    *)
(* It rests on the order of delivery: a message written and yet to come    *)
(* again is the session's head, so nothing but its own copies can have     *)
(* been delivered behind it (OrderInv).                                    *)
(***************************************************************************)
EXTENDS BacklogProofs

-------------------------------------------------------------------------------
(* How often a value occurs in a sequence.                                 *)

Places(s, e) == {i \in DOMAIN s : s[i] = e}
Occ(s, e)    == Cardinality(Places(s, e))

(* t is a contiguous part of s.                                            *)
Slice(t, s) ==
  \E a \in Nat : a + Len(t) <= Len(s) /\ \A i \in DOMAIN t : t[i] = s[a + i]

(* No value occurs twice.                                                  *)
Distinct(s) == \A i, j \in DOMAIN s : s[i] = s[j] => i = j

LEMMA PlacesFinite ==
  ASSUME NEW S, NEW s \in Seq(S), NEW e
  PROVE  IsFiniteSet(Places(s, e)) /\ Occ(s, e) \in Nat
<1>1. DOMAIN s = 1 .. Len(s) /\ Len(s) \in Int
  OBVIOUS
<1>2. IsFiniteSet(DOMAIN s)
  BY <1>1, FS_Interval
<1>3. IsFiniteSet(Places(s, e))
  BY <1>2, FS_Subset DEF Places
<1> QED
  BY <1>3, FS_CardinalityType DEF Occ

LEMMA OccNone ==
  ASSUME NEW e
  PROVE  Occ(<<>>, e) = 0
<1>1. Places(<<>>, e) = {}
  BY DEF Places
<1> QED
  BY <1>1, FS_EmptySet DEF Occ

LEMMA OccAppend ==
  ASSUME NEW S, NEW s \in Seq(S), NEW x, NEW e
  PROVE  Occ(Append(s, x), e) = IF x = e THEN Occ(s, e) + 1 ELSE Occ(s, e)
<1> DEFINE t == Append(s, x)
<1>1. /\ Len(s) \in Nat /\ DOMAIN s = 1 .. Len(s) /\ DOMAIN t = 1 .. Len(s) + 1
      /\ \A i \in DOMAIN s : t[i] = s[i]
      /\ t[Len(s) + 1] = x
  OBVIOUS
<1> HIDE DEF t
<1>2. Places(t, e) = Places(s, e) \cup (IF x = e THEN {Len(s) + 1} ELSE {})
  BY <1>1 DEF Places
<1>3. Len(s) + 1 \notin Places(s, e)
  BY <1>1 DEF Places
<1>4. IsFiniteSet(Places(s, e))
  BY PlacesFinite
<1>5. CASE x = e
  <2>1. Places(t, e) = Places(s, e) \cup {Len(s) + 1}
    BY <1>2, <1>5
  <2> QED
    BY <1>3, <1>4, <1>5, <2>1, FS_AddElement DEF Occ, t
<1>6. CASE x # e
  BY <1>2, <1>6 DEF Occ, t
<1> QED
  BY <1>5, <1>6

(* A part holds no more of anything than the whole.                        *)
LEMMA OccSlice ==
  ASSUME NEW S, NEW s \in Seq(S), NEW t \in Seq(S), Slice(t, s), NEW e
  PROVE  Occ(t, e) <= Occ(s, e)
<1>1. PICK a \in Nat : a + Len(t) <= Len(s) /\ \A i \in DOMAIN t : t[i] = s[a + i]
  BY DEF Slice
<1> DEFINE f == [i \in Places(t, e) |-> a + i]
<1>2. /\ Len(s) \in Nat /\ Len(t) \in Nat
      /\ DOMAIN s = 1 .. Len(s) /\ DOMAIN t = 1 .. Len(t)
  OBVIOUS
<1>3. \A i \in Places(t, e) : i \in Int /\ a + i \in Places(s, e)
  BY <1>1, <1>2 DEF Places
<1>4. f \in Injection(Places(t, e), Places(s, e))
  BY <1>3 DEF Injection, IsInjective
<1> QED
  BY <1>4, PlacesFinite, FS_Injection DEF Occ

(* Dropping the head drops one occurrence of it.                           *)
LEMMA OccTail ==
  ASSUME NEW S, NEW s \in Seq(S), s # <<>>, NEW e
  PROVE  Occ(s, e) = IF Head(s) = e THEN Occ(Tail(s), e) + 1 ELSE Occ(Tail(s), e)
<1> DEFINE t == Tail(s)
           P == Places(s, e) \ {1}
           f == [i \in Places(t, e) |-> i + 1]
           g == [i \in P |-> i - 1]
<1>1. /\ Len(s) \in Nat \ {0} /\ DOMAIN s = 1 .. Len(s)
      /\ DOMAIN t = 1 .. Len(s) - 1
      /\ \A i \in DOMAIN t : t[i] = s[i + 1]
      /\ Head(s) = s[1] /\ t \in Seq(S)
  OBVIOUS
<1> HIDE DEF t
<1>2. \A i \in Places(t, e) : i \in Int /\ i + 1 \in P
  BY <1>1 DEF Places
<1>3. \A i \in P : i \in Int /\ i - 1 \in Places(t, e)
  BY <1>1 DEF Places
<1>4. f \in Injection(Places(t, e), P) /\ g \in Injection(P, Places(t, e))
  <2>1. f \in Injection(Places(t, e), P)
    BY <1>2 DEF Injection, IsInjective
  <2>2. g \in Injection(P, Places(t, e))
    BY <1>3 DEF Injection, IsInjective
  <2> QED
    BY <2>1, <2>2
<1>5. IsFiniteSet(Places(s, e)) /\ IsFiniteSet(Places(t, e)) /\ Occ(s, e) \in Nat /\ Occ(t, e) \in Nat
  BY <1>1, PlacesFinite
<1>6. IsFiniteSet(P) /\ Cardinality(P) = IF 1 \in Places(s, e) THEN Occ(s, e) - 1 ELSE Occ(s, e)
  BY <1>5, FS_RemoveElement DEF Occ
<1>7. Cardinality(P) = Occ(t, e)
  <2>1. Cardinality(P) \in Nat
    BY <1>6, FS_CardinalityType
  <2>2. Occ(t, e) <= Cardinality(P)
    BY <1>4, <1>6, FS_Injection DEF Occ
  <2>3. Cardinality(P) <= Occ(t, e)
    BY <1>4, <1>5, FS_Injection DEF Occ
  <2> QED
    BY <1>5, <2>1, <2>2, <2>3
<1>8. 1 \in Places(s, e) <=> Head(s) = e
  BY <1>1 DEF Places
<1> QED
  BY <1>5, <1>6, <1>7, <1>8 DEF t
-------------------------------------------------------------------------------
(* Contiguous parts.                                                       *)

LEMMA SliceSelf ==
  ASSUME NEW S, NEW s \in Seq(S)
  PROVE  Slice(s, s) /\ Slice(<<>>, s)
<1>1. Len(s) \in Nat /\ \A i \in DOMAIN s : s[i] = s[0 + i]
  OBVIOUS
<1> QED
  BY <1>1 DEF Slice

LEMMA SliceTail ==
  ASSUME NEW S, NEW s \in Seq(S), s # <<>>
  PROVE  Slice(Tail(s), s)
<1>1. /\ 1 + Len(Tail(s)) <= Len(s)
      /\ \A i \in DOMAIN Tail(s) : Tail(s)[i] = s[1 + i]
  OBVIOUS
<1> QED
  BY <1>1 DEF Slice

LEMMA SliceOfConcat ==
  ASSUME NEW S, NEW s \in Seq(S), NEW t \in Seq(S)
  PROVE  /\ Slice(s, s \o t) /\ Slice(t, s \o t)
         /\ s # <<>> => Slice(Tail(s) \o t, s \o t)
<1>1. /\ Len(s) \in Nat /\ Len(t) \in Nat
      /\ DOMAIN s = 1 .. Len(s) /\ DOMAIN t = 1 .. Len(t)
      /\ Len(s \o t) = Len(s) + Len(t)
      /\ \A i \in 1 .. Len(s) + Len(t) :
           (s \o t)[i] = IF i <= Len(s) THEN s[i] ELSE t[i - Len(s)]
  OBVIOUS
<1>2. Slice(s, s \o t)
  <2>1. 0 + Len(s) <= Len(s \o t) /\ \A i \in DOMAIN s : s[i] = (s \o t)[0 + i]
    BY <1>1
  <2> QED
    BY <2>1 DEF Slice
<1>3. Slice(t, s \o t)
  <2>1. Len(s) + Len(t) <= Len(s \o t) /\ \A i \in DOMAIN t : t[i] = (s \o t)[Len(s) + i]
    BY <1>1
  <2> QED
    BY <1>1, <2>1 DEF Slice
<1>4. ASSUME s # <<>> PROVE Slice(Tail(s) \o t, s \o t)
  <2> DEFINE u == Tail(s) \o t
  <2>1. /\ Len(u) = Len(s) - 1 + Len(t) /\ DOMAIN u = 1 .. Len(s) - 1 + Len(t)
        /\ Len(s) # 0
        /\ \A i \in DOMAIN u :
             u[i] = IF i <= Len(s) - 1 THEN s[i + 1] ELSE t[i - (Len(s) - 1)]
    BY <1>4
  <2> HIDE DEF u
  <2>2. 1 + Len(u) <= Len(s \o t) /\ \A i \in DOMAIN u : u[i] = (s \o t)[1 + i]
    BY <1>1, <2>1
  <2> QED
    BY <2>2 DEF Slice, u
<1> QED
  BY <1>2, <1>3, <1>4

LEMMA SliceOfSlice ==
  ASSUME NEW S, NEW s \in Seq(S), NEW t \in Seq(S), NEW u \in Seq(S),
         Slice(u, t), Slice(t, s)
  PROVE  Slice(u, s)
<1>1. PICK a \in Nat : a + Len(u) <= Len(t) /\ \A i \in DOMAIN u : u[i] = t[a + i]
  BY DEF Slice
<1>2. PICK b \in Nat : b + Len(t) <= Len(s) /\ \A i \in DOMAIN t : t[i] = s[b + i]
  BY DEF Slice
<1>3. /\ Len(u) \in Nat /\ Len(t) \in Nat /\ Len(s) \in Nat
      /\ DOMAIN u = 1 .. Len(u) /\ DOMAIN t = 1 .. Len(t)
  OBVIOUS
<1>4. b + a \in Nat /\ (b + a) + Len(u) <= Len(s)
  BY <1>1, <1>2, <1>3
<1>5. ASSUME NEW i \in DOMAIN u PROVE u[i] = s[(b + a) + i]
  <2>1. a + i \in DOMAIN t /\ b + (a + i) = (b + a) + i
    BY <1>1, <1>3
  <2> QED
    BY <1>1, <1>2, <2>1
<1> QED
  BY <1>4, <1>5 DEF Slice

LEMMA SliceElements ==
  ASSUME NEW S, NEW s \in Seq(S), NEW t \in Seq(S), Slice(t, s)
  PROVE  /\ Elements(t) \subseteq Elements(s)
         /\ Distinct(s) => Distinct(t)
<1>1. PICK a \in Nat : a + Len(t) <= Len(s) /\ \A i \in DOMAIN t : t[i] = s[a + i]
  BY DEF Slice
<1>2. /\ Len(t) \in Nat /\ Len(s) \in Nat
      /\ DOMAIN t = 1 .. Len(t) /\ DOMAIN s = 1 .. Len(s)
  OBVIOUS
<1>3. \A i \in DOMAIN t : i \in Int /\ a + i \in DOMAIN s /\ t[i] = s[a + i]
  BY <1>1, <1>2
<1>4. Elements(t) \subseteq Elements(s)
  BY <1>3 DEF Elements
<1>5. ASSUME Distinct(s), NEW i \in DOMAIN t, NEW j \in DOMAIN t, t[i] = t[j]
      PROVE  i = j
  <2>1. a + i = a + j
    BY <1>3, <1>5 DEF Distinct
  <2> QED
    BY <1>3, <2>1
<1> QED
  BY <1>4, <1>5 DEF Distinct

LEMMA DistinctHead ==
  ASSUME NEW S, NEW s \in Seq(S), s # <<>>, Distinct(s)
  PROVE  Head(s) \notin Elements(Tail(s)) /\ Distinct(Tail(s))
<1>1. /\ 1 \in DOMAIN s /\ Head(s) = s[1] /\ Tail(s) \in Seq(S)
      /\ \A i \in DOMAIN Tail(s) : i + 1 \in DOMAIN s /\ i + 1 # 1 /\ Tail(s)[i] = s[i + 1]
  OBVIOUS
<1>2. Distinct(Tail(s))
  BY <1>1, SliceTail, SliceElements
<1> QED
  BY <1>1, <1>2 DEF Distinct, Elements

LEMMA DistinctAppend ==
  ASSUME NEW S, NEW s \in Seq(S), NEW x, Distinct(s), x \notin Elements(s)
  PROVE  Distinct(Append(s, x))
<1> DEFINE t == Append(s, x)
<1>1. /\ DOMAIN t = DOMAIN s \cup {Len(s) + 1}
      /\ \A i \in DOMAIN s : t[i] = s[i]
      /\ t[Len(s) + 1] = x
  OBVIOUS
<1> HIDE DEF t
<1>2. \A i \in DOMAIN s : s[i] # x
  BY DEF Elements
<1>3. Distinct(t)
  BY <1>1, <1>2 DEF Distinct
<1> QED
  BY <1>3 DEF t

(* Taking the head of a queue to the end of another keeps their order.     *)
LEMMA HeadMoves ==
  ASSUME NEW S, NEW q \in Seq(S), NEW s \in Seq(S), s # <<>>
  PROVE  /\ Append(q, Head(s)) \o Tail(s) = q \o s
         /\ <<Head(s)>> \o Tail(s) = s
  OBVIOUS
-------------------------------------------------------------------------------
(* What the service has buffered, in order; and what of it this connection *)
(* delivered and the loops have not finished.                              *)

Buffered == pending \o messages

Held == pc \in Statement /\ loop \in {"consume", "drain"}

Current == IF Held THEN <<Item>> \o messages ELSE messages

LEMMA CurrentTyped ==
  ASSUME TypeInv
  PROVE  /\ pending \in Seq(Msg) /\ messages \in Seq(Msg) /\ session \in Seq(Msg)
         /\ Buffered \in Seq(Msg) /\ Current \in Seq(Msg)
         /\ pc \in Statement => pending # <<>> /\ Item \in Msg
<1>1. /\ pending \in Seq(Msg) /\ messages \in Seq(Msg) /\ session \in Seq(Msg)
      /\ pc \in Statement => pending # <<>> /\ Item \in Msg
  BY ItemTyped DEF TypeInv, TypeOK, ItemOK, BrokerTypeOK
<1>2. Current \in Seq(Msg)
  <2>1. CASE Held
    BY <1>1, <2>1 DEF Current, Held
  <2>2. CASE ~Held
    BY <1>1, <2>2 DEF Current
  <2> QED
    BY <2>1, <2>2
<1> QED
  BY <1>1, <1>2 DEF Buffered

(* The chain of while conditions moves messages on and loses none.         *)
LEMMA ProceedMoves ==
  ASSUME NEW lp, NEW c, NEW h, NEW q \in Seq(Msg), Proceed(lp, q, c, h),
         messages \in Seq(Msg)
  PROVE  /\ Buffered' = q \o messages
         /\ Current' \in Seq(Msg) /\ Slice(Current', messages)
         /\ link' => link
<1>1. CASE /\ lp = "flush" \/ (lp = "replay" /\ ~stop)
           /\ Handle(Head(q), lp, q, messages, c)
           /\ UNCHANGED link
  <2>1. pending' = q /\ messages' = messages /\ loop' \in {"flush", "replay"}
    BY <1>1 DEF Handle
  <2>2. Current' = messages
    BY <2>1 DEF Current, Held
  <2> QED
    BY <1>1, <2>1, <2>2, SliceSelf DEF Buffered
<1>2. CASE /\ pc' \in {"next_message", "exited"}
           /\ pending' = q /\ UNCHANGED <<messages, link>>
  <2>1. Current' = messages
    BY <1>2 DEF Current, Held, Statement
  <2> QED
    BY <1>2, <2>1, SliceSelf DEF Buffered
<1>3. CASE /\ messages # <<>>
           /\ Handle(Head(messages), "drain", Append(q, Head(messages)), Tail(messages), c)
           /\ UNCHANGED link
  <2>1. /\ pending' = Append(q, Head(messages)) /\ messages' = Tail(messages)
        /\ loop' = "drain"
    BY <1>3 DEF Handle
  <2>2. Buffered' = q \o messages
    BY <1>3, <2>1, HeadMoves DEF Buffered
  <2>3. Item' = Head(messages)
    BY <2>1 DEF Item
  <2>4. Current' = messages \/ Current' = Tail(messages)
    BY <1>3, <2>1, <2>3, HeadMoves DEF Current
  <2>5. messages \in Seq(Msg) /\ Slice(messages, messages)
    BY SliceSelf
  <2>6. Tail(messages) \in Seq(Msg) /\ Slice(Tail(messages), messages)
    BY <1>3, SliceTail
  <2> QED
    BY <1>3, <2>2, <2>4, <2>5, <2>6
<1>4. CASE messages = <<>> /\ Teardown /\ pc' = AfterLoop(q) /\ pending' = q
  <2>1. Current' = <<>>
    BY <1>4 DEF Teardown, AfterLoop, Current, Held, Statement
  <2> QED
    BY <1>4, <2>1, SliceSelf DEF Teardown, Buffered
<1> QED
  BY <1>1, <1>2, <1>3, <1>4 DEF Proceed

Outside == DevicePublishes \/ Deliver \/ DeliverAckLost \/ BrokerRestarts

(* A step of the task, a lost link or a signal leaves the session alone    *)
(* and keeps a contiguous part of what is buffered.                        *)
LEMMA TaskMoves ==
  ASSUME TypeInv, QueueInv, [Next]_vars, ~Outside
  PROVE  /\ UNCHANGED <<published, session>>
         /\ Buffered' \in Seq(Msg) /\ Slice(Buffered', Buffered)
         /\ Current' \in Seq(Msg) /\ Slice(Current', Current)
         /\ link' => link \/ Current' = <<>>
<1>0. /\ pending \in Seq(Msg) /\ messages \in Seq(Msg)
      /\ Buffered \in Seq(Msg) /\ Current \in Seq(Msg)
      /\ pc \in Statement => pending # <<>> /\ Item \in Msg
      /\ Slice(messages, Current)
  <2>1. /\ pending \in Seq(Msg) /\ messages \in Seq(Msg)
        /\ Buffered \in Seq(Msg) /\ Current \in Seq(Msg)
        /\ pc \in Statement => pending # <<>> /\ Item \in Msg
    BY CurrentTyped
  <2>2. CASE Held
    <3>1. Item \in Msg /\ <<Item>> \in Seq(Msg)
      BY <2>1, <2>2 DEF Held
    <3> QED
      BY <2>1, <2>2, <3>1, SliceOfConcat DEF Current
  <2>3. CASE ~Held
    BY <2>1, <2>3, SliceSelf DEF Current
  <2> QED
    BY <2>1, <2>2, <2>3
<1> DEFINE Goal == /\ UNCHANGED <<published, session>>
                   /\ Buffered' \in Seq(Msg) /\ Slice(Buffered', Buffered)
                   /\ Current' \in Seq(Msg) /\ Slice(Current', Current)
                   /\ link' => link \/ Current' = <<>>
<1>1. ASSUME UNCHANGED <<published, session, pending, messages, loop>>,
             Held' = Held, link' => link \/ Current' = <<>>
      PROVE  Goal
  <2>1. Buffered' = Buffered /\ Item' = Item
    BY <1>1 DEF Buffered, Item
  <2>2. Current' = Current
    BY <1>1, <2>1 DEF Current
  <2> QED
    BY <1>0, <1>1, <2>1, <2>2, SliceSelf
<1>2. ASSUME UNCHANGED <<published, session>>, pc' \notin Statement, messages' = <<>>,
             Slice(pending', Buffered), pending' \in Seq(Msg)
      PROVE  Goal
  <2>1. Current' = <<>> /\ Buffered' = pending'
    BY <1>2 DEF Current, Held, Buffered
  <2> QED
    BY <1>0, <1>2, <2>1, SliceSelf
<1>3. ASSUME NEW q, q \in {pending, Buffered}, Reconnect(q)
      PROVE  Goal
  <2>1. pc' \notin Statement
    BY <1>3 DEF Reconnect, AfterLoop, Statement
  <2>2. Slice(q, Buffered) /\ q \in Seq(Msg)
    BY <1>0, <1>3, SliceSelf, SliceOfConcat DEF Buffered
  <2> QED
    BY <1>2, <1>3, <2>1, <2>2 DEF Reconnect, Teardown, outerVars
<1>4. ASSUME UNCHANGED <<published, session>>, NEW lp, NEW c, NEW h,
             NEW q \in Seq(Msg), Proceed(lp, q, c, h),
             Slice(q \o messages, Buffered), ~Held \/ Slice(messages, Current)
      PROVE  Goal
  <2>1. Buffered' = q \o messages /\ (link' => link)
        /\ Slice(Current', messages) /\ Current' \in Seq(Msg)
    BY <1>0, <1>4, ProceedMoves
  <2>2. Slice(Current', Current)
    BY <1>0, <2>1, SliceOfSlice
  <2>3. q \o messages \in Seq(Msg)
    BY <1>0, <1>4
  <2> QED
    BY <1>4, <2>1, <2>2, <2>3
<1>5. CASE Service
  <2>1. CASE ConnectDb \/ BackoffEnds \/ UpsertDevice \/ InsertDuplicate
    <3>1. Held' = Held
      BY <2>1
         DEF ConnectDb, BackoffEnds, UpsertDevice, InsertDuplicate, AfterLoop,
             Held, Statement, workVars
    <3> QED
      BY <1>1, <2>1, <3>1
         DEF ConnectDb, BackoffEnds, UpsertDevice, InsertDuplicate, brokerVars,
             workVars
  <2>2. CASE ConnectMqtt
    <3>1. UNCHANGED <<published, session, pending, messages, loop>>
          /\ messages = <<>> /\ pc \notin Statement /\ pc' \notin Statement
      BY <2>2 DEF ConnectMqtt, QueueInv, Offline, Statement, workVars, outerVars
    <3> QED
      BY <1>1, <3>1 DEF Current, Held
  <2>3. CASE Subscribe \/ StopNoticed \/ ConnectFlush
    <3>1. ~Held /\ UNCHANGED <<published, session>>
      BY <2>3 DEF Subscribe, StopNoticed, ConnectFlush, Held, Statement, outerVars
    <3>2. Slice(pending \o messages, Buffered)
      BY <1>0, SliceSelf DEF Buffered
    <3> QED
      BY <1>0, <1>4, <2>3, <3>1, <3>2 DEF Subscribe, StopNoticed, ConnectFlush
  <2>4. CASE SubscribeOnDeadLink \/ Disconnected
    BY <1>3, <2>4 DEF SubscribeOnDeadLink, Disconnected
  <2>5. CASE TakeMessage
    <3>1. /\ messages # <<>> /\ messages' = Tail(messages) /\ loop' = "consume"
          /\ pending' = Append(pending, Head(messages))
          /\ UNCHANGED <<published, session, link>>
          /\ pc \notin Statement
      BY <2>5 DEF TakeMessage, Handle, brokerVars, Statement
    <3>2. Buffered' = Buffered
      BY <1>0, <3>1, HeadMoves DEF Buffered
    <3>3. Item' = Head(messages)
      BY <1>0, <3>1 DEF Item
    <3>4. Current' \in {messages, Tail(messages)} /\ Current = messages
      BY <1>0, <3>1, <3>3, HeadMoves DEF Current, Held
    <3>5. Tail(messages) \in Seq(Msg) /\ Slice(Tail(messages), messages)
      BY <1>0, <3>1, SliceTail
    <3>6. Slice(messages, messages) /\ Slice(Buffered, Buffered)
      BY <1>0, SliceSelf
    <3> QED
      BY <1>0, <3>1, <3>2, <3>4, <3>5, <3>6
  <2>6. CASE InsertNew \/ RecordDedupe \/ InsertDeadLetter
    <3>1. PICK k \in Counter : ItemDone(k)
      BY <2>6 DEF InsertNew, RecordDedupe, InsertDeadLetter, Counter
    <3>2. pc \in Statement
      BY <2>6 DEF InsertNew, RecordDedupe, InsertDeadLetter, Statement
    <3>3. Tail(pending) \in Seq(Msg) /\ Slice(Tail(pending) \o messages, Buffered)
      BY <1>0, <3>2, SliceOfConcat DEF Buffered
    <3> QED
      BY <1>0, <1>4, <3>1, <3>3 DEF ItemDone, outerVars
  <2>7. CASE RaiseInFlush
    <3>1. pc' \notin Statement /\ messages = <<>>
      BY <2>7 DEF RaiseInFlush, Report, Statement, QueueInv, Offline
    <3>2. Slice(<<>>, Buffered) /\ <<>> \in Seq(Msg)
      BY <1>0, SliceSelf
    <3> QED
      BY <1>2, <2>7, <3>1, <3>2 DEF RaiseInFlush, Report, brokerVars
  <2>8. CASE RaiseEndsRun
    <3>1. pc' \notin Statement
      BY <2>8 DEF RaiseEndsRun, EndProcess, Statement
    <3>2. Slice(<<>>, Buffered) /\ <<>> \in Seq(Msg)
      BY <1>0, SliceSelf
    <3> QED
      BY <1>2, <2>8, <3>1, <3>2 DEF RaiseEndsRun, EndProcess, Teardown, outerVars
  <2> QED
    BY <1>5, <2>1, <2>2, <2>3, <2>4, <2>5, <2>6, <2>7, <2>8 DEF Service
<1>6. CASE Failure
  <2>1. CASE FlushFails
    <3>1. pc' \notin Statement /\ messages = <<>>
      BY <2>1 DEF FlushFails, Report, Statement, QueueInv, Offline
    <3>2. Slice(<<>>, Buffered) /\ <<>> \in Seq(Msg)
      BY <1>0, SliceSelf
    <3> QED
      BY <1>2, <2>1, <3>1, <3>2 DEF FlushFails, Report, brokerVars
  <2>2. CASE ConnectFails \/ SubscribeFails \/ WriteFails
    BY <1>3, <2>2 DEF ConnectFails, SubscribeFails, WriteFails, Buffered
  <2> QED
    BY <1>6, <2>1, <2>2 DEF Failure
<1>7. CASE LinkDrops \/ SigTerm
  BY <1>1, <1>7
     DEF LinkDrops, SigTerm, brokerVars, memVars, workVars, Held
<1>8. CASE Kill
  <2>1. pc' \notin Statement
    BY <1>8 DEF Kill, EndProcess, Statement
  <2>2. Slice(<<>>, Buffered) /\ <<>> \in Seq(Msg)
    BY <1>0, SliceSelf
  <2> QED
    BY <1>2, <1>8, <2>1, <2>2 DEF Kill, EndProcess, Teardown, outerVars
<1>9. CASE Start
  <2>1. /\ pc \notin Statement /\ pc' \notin Statement
        /\ UNCHANGED <<published, session, pending, messages, link>>
    BY <1>9 DEF Start, Statement, Ended, brokerVars
  <2>2. Current' = Current /\ Buffered' = Buffered
    BY <2>1 DEF Current, Held, Buffered
  <2> QED
    BY <1>0, <2>1, <2>2, SliceSelf
<1>10. CASE UNCHANGED vars
  BY <1>1, <1>10 DEF vars, brokerVars, memVars, workVars, Held
<1> QED
  BY <1>5, <1>6, <1>7, <1>8, <1>9, <1>10 DEF Next, Environment, Outside
-------------------------------------------------------------------------------
(* A connection delivers a message at most once: what it has delivered is  *)
(* acknowledged and gone from the session, or the connection with it.      *)
FreshInv ==
  /\ Distinct(session)
  /\ Distinct(Current)
  /\ link => Elements(session) \cap Elements(Current) = {}

LEMMA BufferMoves ==
  ASSUME TypeInv, Buffer
  PROVE  /\ Buffered' = Append(Buffered, Head(session))
         /\ Current' = Append(Current, Head(session))
         /\ session # <<>> /\ link /\ Head(session) \in Msg
         /\ UNCHANGED <<published, pc, loop, stop, pending>>
<1>1. /\ pending \in Seq(Msg) /\ messages \in Seq(Msg) /\ session \in Seq(Msg)
      /\ pc \in Statement => pending # <<>> /\ Item \in Msg
  BY CurrentTyped
<1>2. /\ messages' = Append(messages, Head(session))
      /\ session # <<>> /\ link
      /\ UNCHANGED <<published, pc, loop, stop, pending>>
  BY DEF Buffer
<1>3. Head(session) \in Msg
  BY <1>1, <1>2
<1>4. pending \o Append(messages, Head(session)) = Append(pending \o messages, Head(session))
  BY <1>1, <1>3
<1>5. Item' = Item /\ Held' = Held
  BY <1>2 DEF Item, Held
<1>6. ASSUME Held
      PROVE  <<Item>> \o Append(messages, Head(session)) = Append(<<Item>> \o messages, Head(session))
  <2>1. Item \in Msg
    BY <1>1, <1>6 DEF Held
  <2> QED
    BY <1>1, <1>3, <2>1
<1> QED
  BY <1>2, <1>3, <1>4, <1>5, <1>6 DEF Buffered, Current

LEMMA FreshStep ==
  ASSUME TypeInv, QueueInv, OnlyPublished, FreshInv, [Next]_vars
  PROVE  FreshInv'
<1>1. /\ session \in Seq(Msg) /\ Current \in Seq(Msg)
      /\ pc \in Statement => pending # <<>>
  BY CurrentTyped
<1>2. Elements(session) \subseteq published /\ Elements(Current) \subseteq published
  <2>1. /\ session \in Seq(published) /\ messages \in Seq(published)
        /\ pending \in Seq(published)
    BY DEF OnlyPublished
  <2>2. Current \in Seq(published)
    <3>1. CASE Held
      <4>1. Item \in published
        BY <1>1, <2>1, <3>1 DEF Held, Item
      <4> QED
        BY <2>1, <3>1, <4>1 DEF Current
    <3>2. CASE ~Held
      BY <2>1, <3>2 DEF Current
    <3> QED
      BY <3>1, <3>2
  <2> QED
    BY <2>1, <2>2 DEF Elements
<1>3. CASE ~Outside
  <2>1. /\ UNCHANGED session /\ Slice(Current', Current) /\ Current' \in Seq(Msg)
        /\ link' => link \/ Current' = <<>>
    BY <1>3, TaskMoves
  <2>2. Distinct(Current') /\ Elements(Current') \subseteq Elements(Current)
    BY <1>1, <2>1, SliceElements DEF FreshInv
  <2> QED
    BY <2>1, <2>2, ElementsNone DEF FreshInv
<1>4. CASE DevicePublishes
  <2>1. PICK p \in Msg : Publish(p)
    BY <1>4 DEF DevicePublishes
  <2>2. /\ p \notin published
        /\ session' = session \/ session' = Append(session, p)
        /\ UNCHANGED <<link, pc, loop, pending, messages>>
    BY <1>4, <2>1 DEF DevicePublishes, Publish, memVars, workVars
  <2>3. Current' = Current
    BY <2>2 DEF Current, Held, Item
  <2>4. p \notin Elements(session) /\ p \notin Elements(Current)
    BY <1>2, <2>2
  <2>5. Distinct(Append(session, p)) /\ Elements(Append(session, p)) = Elements(session) \cup {p}
    BY <1>1, <2>4, DistinctAppend, ElementsAppend DEF FreshInv
  <2> QED
    BY <2>2, <2>3, <2>4, <2>5 DEF FreshInv
<1>5. CASE Deliver \/ DeliverAckLost
  <2> DEFINE x == Head(session)
  <2>1. /\ Current' = Append(Current, x)
        /\ session # <<>> /\ link /\ x \in Msg
    BY <1>5, BufferMoves DEF Deliver, DeliverAckLost
  <2>2. x \in Elements(session) /\ Elements(Tail(session)) \subseteq Elements(session)
    BY <1>1, <2>1, ElementsSplit
  <2>3. x \notin Elements(Current)
    BY <2>1, <2>2 DEF FreshInv
  <2>4. Distinct(Current') /\ Elements(Current') = Elements(Current) \cup {x}
    BY <1>1, <2>1, <2>3, DistinctAppend, ElementsAppend DEF FreshInv
  <2>5. CASE Deliver
    <3>1. session' = Tail(session) /\ link' = link
      BY <2>5 DEF Deliver
    <3>2. x \notin Elements(Tail(session)) /\ Distinct(Tail(session))
      BY <1>1, <2>1, DistinctHead DEF FreshInv
    <3> QED
      BY <2>1, <2>2, <2>4, <3>1, <3>2 DEF FreshInv
  <2>6. CASE DeliverAckLost
    <3>1. session' = session /\ ~link'
      BY <2>6 DEF DeliverAckLost
    <3> QED
      BY <2>4, <3>1 DEF FreshInv
  <2> QED
    BY <1>5, <2>5, <2>6
<1>6. CASE BrokerRestarts
  <2>1. session' = <<>> /\ ~link' /\ UNCHANGED <<pc, loop, pending, messages>>
    BY <1>6 DEF BrokerRestarts, ForgetSession, memVars, workVars
  <2>2. Current' = Current
    BY <2>1 DEF Current, Held, Item
  <2> QED
    BY <2>1, <2>2 DEF FreshInv, Distinct
<1> QED
  BY <1>3, <1>4, <1>5, <1>6 DEF Outside
-------------------------------------------------------------------------------
(* A message buffered and still in the session has lost an acknowledgement *)
(* and the link with it: it is the session's head, and what was buffered   *)
(* after its first copy can only be further copies.                        *)
OrderInv ==
  \A m \in Elements(session) \cap Elements(Buffered) :
    /\ m = Head(session)
    /\ \A i, j \in DOMAIN Buffered : Buffered[i] = m /\ i < j => Buffered[j] = m

LEMMA OrderStep ==
  ASSUME TypeInv, QueueInv, OnlyPublished, FreshInv, OrderInv, [Next]_vars
  PROVE  OrderInv'
<1>1. session \in Seq(Msg) /\ Buffered \in Seq(Msg)
  BY CurrentTyped
<1>2. CASE ~Outside
  <2>1. UNCHANGED session /\ Slice(Buffered', Buffered) /\ Buffered' \in Seq(Msg)
    BY <1>2, TaskMoves
  <2>2. SUFFICES ASSUME NEW m \in Elements(session) \cap Elements(Buffered')
                 PROVE  /\ m = Head(session)
                        /\ \A i, j \in DOMAIN Buffered' :
                             Buffered'[i] = m /\ i < j => Buffered'[j] = m
    BY <2>1 DEF OrderInv
  <2>3. m \in Elements(Buffered)
    BY <1>1, <2>1, SliceElements
  <2>4. PICK a \in Nat : /\ a + Len(Buffered') <= Len(Buffered)
                         /\ \A i \in DOMAIN Buffered' : Buffered'[i] = Buffered[a + i]
    BY <2>1 DEF Slice
  <2>5. \A i \in DOMAIN Buffered' : i \in Int /\ a + i \in DOMAIN Buffered
    BY <1>1, <2>1, <2>4
  <2>6. ASSUME NEW i \in DOMAIN Buffered', NEW j \in DOMAIN Buffered', Buffered'[i] = m, i < j
        PROVE  Buffered'[j] = m
    <3>1. a + i \in DOMAIN Buffered /\ a + j \in DOMAIN Buffered /\ a + i < a + j
      BY <2>5, <2>6
    <3>2. Buffered[a + i] = m
      BY <2>4, <2>6
    <3>3. Buffered[a + j] = m
      BY <2>3, <3>1, <3>2 DEF OrderInv
    <3> QED
      BY <2>4, <3>3
  <2> QED
    BY <2>3, <2>6 DEF OrderInv
<1>3. CASE DevicePublishes
  <2>1. PICK p \in Msg : Publish(p)
    BY <1>3 DEF DevicePublishes
  <2>2. /\ p \notin published
        /\ session' = session \/ session' = Append(session, p)
        /\ UNCHANGED <<pending, messages>>
    BY <1>3, <2>1 DEF DevicePublishes, Publish, memVars, workVars
  <2>3. Buffered' = Buffered
    BY <2>2 DEF Buffered
  <2>4. p \notin Elements(Buffered)
    <3>1. Buffered \in Seq(published)
      BY DEF OnlyPublished, Buffered
    <3> QED
      BY <2>2, <3>1 DEF Elements
  <2>5. Elements(session') \subseteq Elements(session) \cup {p}
    BY <1>1, <2>2, ElementsAppend
  <2>6. session # <<>> => Head(session') = Head(session)
    BY <1>1, <2>2
  <2>7. Elements(session) # {} => session # <<>>
    BY ElementsNone
  <2> QED
    BY <2>3, <2>4, <2>5, <2>6, <2>7 DEF OrderInv
<1>4. CASE Deliver \/ DeliverAckLost
  <2> DEFINE x == Head(session)
  <2>1. Buffered' = Append(Buffered, x) /\ session # <<>> /\ x \in Msg
    BY <1>4, BufferMoves DEF Deliver, DeliverAckLost
  <2>2. Elements(session) = {x} \cup Elements(Tail(session)) /\ x \notin Elements(Tail(session))
    BY <1>1, <2>1, ElementsSplit, DistinctHead DEF FreshInv
  <2>3. Elements(Buffered') = Elements(Buffered) \cup {x}
    BY <1>1, <2>1, ElementsAppend
  <2>4. CASE Deliver
    <3>1. session' = Tail(session)
      BY <2>4 DEF Deliver
    <3>2. Elements(session') \cap Elements(Buffered') = {}
      BY <2>2, <2>3, <3>1 DEF OrderInv
    <3> QED
      BY <3>2 DEF OrderInv
  <2>5. CASE DeliverAckLost
    <3>1. session' = session
      BY <2>5 DEF DeliverAckLost
    <3>2. SUFFICES ASSUME NEW m \in Elements(session) \cap Elements(Buffered'),
                          NEW i \in DOMAIN Buffered', NEW j \in DOMAIN Buffered',
                          Buffered'[i] = m, i < j
                   PROVE  Buffered'[j] = m
      <4>1. \A m \in Elements(session) \cap Elements(Buffered') : m = x
        BY <2>3 DEF OrderInv
      <4> QED
        BY <3>1, <3>2, <4>1 DEF OrderInv
    <3>3. m = x
      BY <2>3 DEF OrderInv
    <3>4. /\ DOMAIN Buffered' = 1 .. Len(Buffered) + 1 /\ Len(Buffered) \in Nat
          /\ DOMAIN Buffered = 1 .. Len(Buffered)
          /\ \A k \in DOMAIN Buffered : Buffered'[k] = Buffered[k]
          /\ Buffered'[Len(Buffered) + 1] = x
      BY <1>1, <2>1
    <3>5. CASE j = Len(Buffered) + 1
      BY <3>3, <3>4, <3>5
    <3>6. CASE j # Len(Buffered) + 1
      <4>1. i \in DOMAIN Buffered /\ j \in DOMAIN Buffered
        BY <3>2, <3>4, <3>6
      <4>2. m \in Elements(Buffered)
        BY <3>2, <3>4, <4>1 DEF Elements
      <4> QED
        BY <3>2, <3>4, <4>1, <4>2 DEF OrderInv
    <3> QED
      BY <3>5, <3>6
  <2> QED
    BY <1>4, <2>4, <2>5
<1>5. CASE BrokerRestarts
  <2>1. session' = <<>>
    BY <1>5 DEF BrokerRestarts, ForgetSession
  <2> QED
    BY <2>1, ElementsNone DEF OrderInv
<1> QED
  BY <1>2, <1>3, <1>4, <1>5 DEF Outside
-------------------------------------------------------------------------------
(* The weight of a rejected message: the rows it has and the copies that   *)
(* may yet become rows.                                                    *)

Rows(m) == Occ(dead_letter, DeadLetterOf(m))

Weight(m) == Rows(m) + Occ(Buffered, m) + Occ(session, m)
             + (IF m \in published THEN 0 ELSE 1)

LEMMA WeightTyped ==
  ASSUME TypeInv, NEW m \in Rejected
  PROVE  /\ Rows(m) \in Nat /\ Occ(Buffered, m) \in Nat /\ Occ(session, m) \in Nat
         /\ Weight(m) \in Nat /\ faults \in Nat
<1>1. Buffered \in Seq(Msg) /\ session \in Seq(Msg)
  BY CurrentTyped
<1>2. dead_letter \in Seq(DeadLetterRow) /\ faults \in Nat
  BY BoundsAssumption DEF TypeInv, TypeOK, StorageTypeOK
<1>3. Rows(m) \in Nat /\ Occ(Buffered, m) \in Nat /\ Occ(session, m) \in Nat
  BY <1>1, <1>2, PlacesFinite DEF Rows
<1> QED
  BY <1>2, <1>3 DEF Weight

LEMMA RowsStep ==
  ASSUME TypeInv, RowsTellApart, [Next]_vars, NEW m \in Rejected
  PROVE  \/ Rows(m)' = Rows(m)
         \/ /\ pc = "insert_dead_letter" /\ Item = m /\ Execute
            /\ Rows(m)' = Rows(m) + 1
<1>1. DeadLetterOf(m)' = DeadLetterOf(m)
  BY DEF DeadLetterOf, Outcome
<1>2. CASE UNCHANGED dead_letter
  BY <1>1, <1>2 DEF Rows
<1>3. CASE pc = "insert_dead_letter" /\ Execute
  <2>1. dead_letter' = Append(dead_letter, DeadLetterOf(Item))
    BY <1>3 DEF Execute, insert_dead_letter
  <2>2. Item \in Rejected
    BY <1>3, CurrentTyped DEF TypeInv, ItemOK, Rejected, Statement
  <2>3. dead_letter \in Seq(DeadLetterRow)
    BY DEF TypeInv, TypeOK, StorageTypeOK
  <2>4. DeadLetterOf(Item) = DeadLetterOf(m) <=> Item = m
    BY <2>2 DEF RowsTellApart
  <2>5. Rows(m)' = IF Item = m THEN Rows(m) + 1 ELSE Rows(m)
    BY <1>1, <2>1, <2>3, <2>4, OccAppend DEF Rows
  <2> QED
    BY <1>3, <2>5
<1> QED
  BY <1>2, <1>3, TableStep
     DEF Execute, upsert_device, insert_reading, record_dedupe, dbVars

(* The weight grows with a fault, or where the statement of the item in    *)
(* hand is answered.                                                       *)
LEMMA WeightGrows ==
  ASSUME TypeInv, QueueInv, OnlyPublished, RowsTellApart, [Next]_vars,
         ~InsertDeadLetter, NEW m \in Rejected
  PROVE  /\ faults' \in Nat /\ Weight(m)' \in Nat
         /\ Weight(m)' - Weight(m) <= faults' - faults
         /\ ~Outside /\ Rows(m)' = Rows(m) => Weight(m)' <= Weight(m)
<1>0. /\ Rows(m) \in Nat /\ Occ(Buffered, m) \in Nat /\ Occ(session, m) \in Nat
      /\ Weight(m) \in Nat /\ faults \in Nat
      /\ Buffered \in Seq(Msg) /\ session \in Seq(Msg) /\ m \in Msg
  BY WeightTyped, CurrentTyped DEF Rejected
<1> DEFINE out == IF m \in published THEN 0 ELSE 1
           outNext == IF m \in published' THEN 0 ELSE 1
<1>w. /\ Weight(m) = Rows(m) + Occ(Buffered, m) + Occ(session, m) + out
      /\ Weight(m)' = Rows(m)' + Occ(Buffered', m) + Occ(session', m) + outNext
      /\ out \in Nat /\ outNext \in Nat
  BY DEF Weight
<1> HIDE DEF out, outNext
<1>1. Rows(m)' \in Nat /\ Rows(m)' >= Rows(m)
  BY <1>0, RowsStep
<1>2. CASE ~Outside
  <2>1. /\ UNCHANGED <<published, session>>
        /\ Buffered' \in Seq(Msg) /\ Slice(Buffered', Buffered)
    BY <1>2, TaskMoves
  <2>2. Occ(Buffered', m) \in Nat /\ Occ(Buffered', m) <= Occ(Buffered, m)
    BY <1>0, <2>1, OccSlice, PlacesFinite
  <2>3. Occ(session', m) = Occ(session, m) /\ outNext = out
    BY <2>1 DEF out, outNext
  <2>4. faults' \in Nat /\ faults' >= faults /\ (Rows(m)' # Rows(m) => faults' = faults + 1)
    <3>1. faults' = faults \/ faults' = faults + 1
      BY <1>0
         DEF Next, Service, Failure, Environment, vars, boundVars,
             ConnectDb, ConnectMqtt, Subscribe, BackoffEnds,
             SubscribeOnDeadLink, TakeMessage, StopNoticed, Disconnected,
             UpsertDevice, InsertNew, InsertDuplicate, RecordDedupe,
             InsertDeadLetter, ItemDone, ConnectFlush, RaiseInFlush, RaiseEndsRun,
             ConnectFails, SubscribeFails, WriteFails, FlushFails, Fault,
             DevicePublishes, Deliver, DeliverAckLost, LinkDrops,
             BrokerRestarts, SigTerm, Kill, Start
    <3>2. ASSUME Rows(m)' # Rows(m) PROVE faults' = faults + 1
      <4>1. pc = "insert_dead_letter" /\ dead_letter' # dead_letter
        <5>1. DeadLetterOf(m)' = DeadLetterOf(m)
          BY DEF DeadLetterOf, Outcome
        <5> QED
          BY <3>2, <5>1, RowsStep DEF Rows
      <4>2. CASE Failure
        BY <4>1, <4>2
           DEF Failure, ConnectFails, SubscribeFails, WriteFails, FlushFails, Fault, dbVars
      <4>3. CASE Service
        BY <4>1, <4>3
           DEF Service, ConnectDb, ConnectMqtt, Subscribe, BackoffEnds,
               SubscribeOnDeadLink, TakeMessage, StopNoticed, Disconnected,
               UpsertDevice, InsertNew, InsertDuplicate, RecordDedupe,
               ConnectFlush, RaiseInFlush, RaiseEndsRun, EndProcess, dbVars
      <4>4. CASE Environment
        BY <4>1, <4>4
           DEF Environment, DevicePublishes, Deliver, DeliverAckLost, Buffer,
               LinkDrops, BrokerRestarts, SigTerm, Kill, EndProcess, Start, dbVars
      <4>5. CASE UNCHANGED vars
        BY <4>1, <4>5 DEF vars, dbVars
      <4> QED
        BY <4>2, <4>3, <4>4, <4>5 DEF Next
    <3> QED
      BY <1>0, <3>1, <3>2
  <2>5. Rows(m)' <= Rows(m) + (faults' - faults)
    BY <1>0, <2>4, RowsStep
  <2>6. Weight(m)' \in Nat
    BY <1>0, <1>1, <1>w, <2>2, <2>3
  <2>7. Weight(m)' - Weight(m) <= Rows(m)' - Rows(m)
    BY <1>0, <1>1, <1>w, <2>2, <2>3
  <2>8. Weight(m)' - Weight(m) <= faults' - faults
    BY <1>0, <1>1, <2>4, <2>5, <2>6, <2>7
  <2>9. Rows(m)' = Rows(m) => Weight(m)' <= Weight(m)
    BY <1>0, <1>1, <2>6, <2>7
  <2> QED
    BY <2>4, <2>6, <2>8, <2>9
<1>3. CASE Outside
  <2>1. Rows(m)' = Rows(m)
    <3>1. UNCHANGED dead_letter
      BY <1>3
         DEF Outside, DevicePublishes, Deliver, DeliverAckLost, Buffer,
             BrokerRestarts, dbVars
    <3> QED
      BY <3>1 DEF Rows, DeadLetterOf, Outcome
  <2>2. CASE DevicePublishes
    <3>1. PICK p \in Msg : Publish(p)
      BY <2>2 DEF DevicePublishes
    <3>2. /\ p \notin published /\ published' = published \cup {p}
          /\ session' = session \/ session' = Append(session, p)
          /\ UNCHANGED <<pending, messages, faults>>
      BY <2>2, <3>1 DEF DevicePublishes, Publish, memVars, workVars, boundVars
    <3>3. Buffered' = Buffered
      BY <3>2 DEF Buffered
    <3>4. /\ Occ(session', m) \in Nat
          /\ Occ(session', m) <= IF p = m THEN Occ(session, m) + 1 ELSE Occ(session, m)
      <4>1. Occ(Append(session, p), m) = IF p = m THEN Occ(session, m) + 1 ELSE Occ(session, m)
        BY <1>0, OccAppend
      <4>2. CASE session' = session
        BY <1>0, <4>2
      <4>3. CASE session' = Append(session, p)
        BY <1>0, <4>1, <4>3
      <4> QED
        BY <3>2, <4>2, <4>3
    <3>5. outNext = IF p = m THEN out - 1 ELSE out
      BY <3>2 DEF out, outNext
    <3>6. Occ(Buffered', m) = Occ(Buffered, m)
      BY <3>3
    <3>7. Weight(m)' \in Nat
      BY <1>0, <1>1, <1>w, <3>4, <3>6
    <3>8. Weight(m)' <= Weight(m)
      BY <1>0, <1>w, <2>1, <3>4, <3>5, <3>6
    <3>9. faults' = faults
      BY <3>2
    <3> QED
      BY <1>0, <3>7, <3>8, <3>9
  <2>3. CASE Deliver \/ DeliverAckLost
    <3> DEFINE x == Head(session)
               n == IF x = m THEN 1 ELSE 0
    <3>1. Buffered' = Append(Buffered, x) /\ session # <<>> /\ UNCHANGED published
      BY <2>3, BufferMoves DEF Deliver, DeliverAckLost
    <3>2. Occ(Buffered', m) = Occ(Buffered, m) + n
      BY <1>0, <3>1, OccAppend
    <3>3. CASE Deliver
      <4>1. session' = Tail(session) /\ faults' = faults
        BY <3>3 DEF Deliver, boundVars
      <4>2. Occ(session, m) = Occ(session', m) + n /\ Occ(session', m) \in Nat
        <5>1. Tail(session) \in Seq(Msg)
          BY <1>0, <3>1
        <5>2. Occ(Tail(session), m) \in Nat
          BY <5>1, PlacesFinite
        <5>3. Occ(session, m) = IF x = m THEN Occ(Tail(session), m) + 1 ELSE Occ(Tail(session), m)
          BY <1>0, <3>1, OccTail
        <5> QED
          BY <4>1, <5>2, <5>3
      <4>3. outNext = out
        BY <3>1 DEF out, outNext
      <4>4. n \in {0, 1}
        OBVIOUS
      <4> HIDE DEF n
      <4>5. Weight(m)' = Weight(m)
        BY <1>0, <1>1, <1>w, <2>1, <3>2, <4>2, <4>3, <4>4
      <4> QED
        BY <1>0, <4>1, <4>5
    <3>4. CASE DeliverAckLost
      <4>1. session' = session /\ faults' = faults + 1
        BY <3>4 DEF DeliverAckLost, Fault
      <4>2. outNext = out /\ Occ(session', m) = Occ(session, m)
        BY <3>1, <4>1 DEF out, outNext
      <4>3. n \in {0, 1}
        OBVIOUS
      <4> HIDE DEF n
      <4>4. Weight(m)' = Weight(m) + n
        BY <1>0, <1>1, <1>w, <2>1, <3>2, <4>2, <4>3
      <4> QED
        BY <1>0, <1>3, <4>1, <4>3, <4>4
    <3> QED
      BY <2>3, <3>3, <3>4
  <2>4. CASE BrokerRestarts
    <3>1. /\ session' = <<>> /\ faults' = faults + 1
          /\ UNCHANGED <<published, pending, messages>>
      BY <2>4 DEF BrokerRestarts, ForgetSession, Fault, memVars, workVars
    <3>2. Occ(Buffered', m) = Occ(Buffered, m) /\ Occ(session', m) = 0 /\ outNext = out
      BY <3>1, OccNone DEF Buffered, out, outNext
    <3> QED
      BY <1>0, <1>1, <1>w, <2>1, <3>1, <3>2
  <2> QED
    BY <1>3, <2>2, <2>3, <2>4 DEF Outside
<1> QED
  BY <1>2, <1>3
-------------------------------------------------------------------------------
(* A process that has ended has an empty deque: a restart finds none.      *)
EndInv == pc \in Ended => pending = <<>>

LEMMA EndStep ==
  ASSUME EndInv, [Next]_vars
  PROVE  EndInv'
<1>1. ASSUME NEW lp, NEW q, NEW c, NEW h, Proceed(lp, q, c, h)
      PROVE  EndInv'
  BY <1>1 DEF Proceed, Handle, AfterLoop, EndInv, Ended
<1>2. ASSUME NEW q, Reconnect(q)
      PROVE  EndInv'
  BY <1>2 DEF Reconnect, AfterLoop, EndInv, Ended
<1>3. ASSUME UNCHANGED <<pc, pending>>
      PROVE  EndInv'
  BY <1>3 DEF EndInv
<1>4. CASE Service
  <2>1. CASE Subscribe \/ StopNoticed \/ ConnectFlush \/ InsertNew \/ RecordDedupe
             \/ InsertDeadLetter
    BY <1>1, <2>1
       DEF Subscribe, StopNoticed, ConnectFlush, InsertNew, RecordDedupe,
           InsertDeadLetter, ItemDone
  <2>2. CASE SubscribeOnDeadLink \/ Disconnected
    BY <1>2, <2>2 DEF SubscribeOnDeadLink, Disconnected
  <2>3. CASE ConnectDb \/ ConnectMqtt \/ BackoffEnds \/ TakeMessage \/ UpsertDevice
             \/ InsertDuplicate \/ RaiseInFlush \/ RaiseEndsRun
    BY <2>3
       DEF ConnectDb, ConnectMqtt, BackoffEnds, TakeMessage, UpsertDevice,
           InsertDuplicate, RaiseInFlush, RaiseEndsRun, Report, EndProcess,
           Handle, AfterLoop, workVars, EndInv, Ended
  <2> QED
    BY <1>4, <2>1, <2>2, <2>3 DEF Service
<1>5. CASE Failure
  BY <1>2, <1>5
     DEF Failure, ConnectFails, SubscribeFails, WriteFails, FlushFails, Report,
         EndInv
<1>6. CASE Environment
  BY <1>3, <1>6
     DEF Environment, DevicePublishes, Deliver, DeliverAckLost, Buffer,
         LinkDrops, BrokerRestarts, SigTerm, Kill, EndProcess, Start, memVars,
         workVars, EndInv, Ended
<1> QED
  BY <1>3, <1>4, <1>5, <1>6 DEF Next, vars, memVars, workVars

-------------------------------------------------------------------------------
(***************************************************************************)
(* The drain loop writes the message it has just taken and pops the head   *)
(* of the deque, so with a backlog before it a message is written and      *)
(* stays, to be written again by the flush.  A message that may still be   *)
(* drained behind others is at risk; its weight is then one less than the  *)
(* faults allow, since a backlog itself has cost a fault.                  *)
(***************************************************************************)

Drains == pc \in Statement /\ loop = "drain"

(* The deque may yet be drained into.                                      *)
Open == pc \notin Ended \cup {"flush_connect", "raise"} /\ loop # "flush"

(* A message other than m is in the deque, before the one in hand.         *)
Behind(m) == \E i \in DOMAIN pending : pending[i] # m /\ (Held => i < Len(pending))

(* The drain loop has a copy of m in hand, or may come to have one.        *)
Coming(m) ==
  \/ m \notin published
  \/ m \in Elements(messages)
  \/ m \in Elements(session) /\ (Drains => link)
  \/ Drains /\ Item = m

Risk(m) == Open /\ Behind(m) /\ Coming(m)

WeightInv == \A m \in Rejected : Weight(m) <= 1 + faults

SpareInv == \A m \in Rejected : Risk(m) => Weight(m) <= faults

(* What is at risk after the while conditions was at risk before them.     *)
LEMMA ProceedRisk ==
  ASSUME NEW lp, NEW c, NEW h, NEW q \in Seq(Msg), Proceed(lp, q, c, h),
         messages \in Seq(Msg), UNCHANGED <<published, session>>,
         lp = "consume" => q = <<>>, lp = "drain" => stop,
         NEW m, Risk(m)'
  PROVE  /\ lp # "flush"
         /\ \E i \in DOMAIN q : q[i] # m
         /\ \/ m \notin published
            \/ m \in Elements(messages)
            \/ m \in Elements(session) /\ (lp = "drain" => link)
<1> USE DEF Risk
<1>1. CASE /\ lp = "flush" \/ (lp = "replay" /\ ~stop)
           /\ Handle(Head(q), lp, q, messages, c)
  <2>1. pending' = q /\ messages' = messages /\ loop' = lp
    BY <1>1 DEF Handle
  <2>2. lp = "replay"
    BY <1>1, <2>1 DEF Open
  <2>3. ~Drains'
    BY <2>1, <2>2 DEF Drains
  <2>4. \E i \in DOMAIN q : q[i] # m
    BY <2>1 DEF Behind
  <2> QED
    BY <2>1, <2>2, <2>3, <2>4 DEF Coming, Elements
<1>2. CASE /\ lp # "flush" /\ ~stop
           /\ lp = "replay" => q = <<>>
           /\ pc' = "next_message" /\ pending' = q
           /\ UNCHANGED messages
  <2>1. PICK i \in DOMAIN q : q[i] # m
    BY <1>2 DEF Behind
  <2>2. ~Drains'
    BY <1>2 DEF Drains, Statement
  <2>3. lp # "drain"
    BY <1>2
  <2> QED
    BY <1>2, <2>1, <2>2, <2>3 DEF Coming, Elements
<1>3. CASE /\ lp # "flush" /\ stop /\ messages # <<>>
           /\ Handle(Head(messages), "drain", Append(q, Head(messages)), Tail(messages), c)
           /\ UNCHANGED link
  <2>1. /\ pending' = Append(q, Head(messages)) /\ messages' = Tail(messages)
        /\ loop' = "drain" /\ pc' \in Statement \cup {"raise"}
    BY <1>3 DEF Handle, Statement
  <2>2. Head(messages) \in Msg /\ Elements(messages) = {Head(messages)} \cup Elements(Tail(messages))
    BY <1>3, ElementsSplit
  <2>3. pc' \in Statement
    BY <2>1 DEF Open
  <2>4. Drains' /\ Held' /\ Item' = Head(messages)
    <3>1. Append(q, Head(messages))[Len(Append(q, Head(messages)))] = Head(messages)
      BY <2>2
    <3> QED
      BY <2>1, <2>3, <3>1 DEF Drains, Held, Item
  <2>5. \E i \in DOMAIN q : q[i] # m
    <3>1. PICK i \in DOMAIN pending' : pending'[i] # m /\ i < Len(pending')
      BY <2>4 DEF Behind
    <3>2. i \in DOMAIN q /\ pending'[i] = q[i]
      BY <2>1, <2>2, <3>1
    <3> QED
      BY <3>1, <3>2
  <2>6. \/ m \notin published
        \/ m \in Elements(messages)
        \/ m \in Elements(session) /\ link
    <3>1. \/ m \notin published' \/ m \in Elements(messages')
          \/ (m \in Elements(session') /\ link') \/ Item' = m
      BY <2>4 DEF Coming
    <3> QED
      BY <1>3, <2>1, <2>2, <2>4, <3>1
  <2> QED
    BY <1>3, <2>5, <2>6
<1>4. CASE /\ lp # "flush" /\ stop /\ pc' = AfterLoop(q)
  BY <1>4 DEF Open, AfterLoop, Ended
<1>5. CASE lp = "flush" /\ pc' = "exited"
  BY <1>5 DEF Open, Ended
<1> QED
  BY <1>1, <1>2, <1>3, <1>4, <1>5 DEF Proceed
(* Out of the consume loop, which owes nothing, nothing is at risk.        *)
LEMMA NothingRisked ==
  ASSUME NEW c, NEW h, Proceed("consume", pending, c, h), pending = <<>>,
         messages \in Seq(Msg), UNCHANGED <<published, session>>,
         NEW m, Risk(m)'
  PROVE  FALSE
<1>1. pending \in Seq(Msg) /\ DOMAIN pending = {}
  OBVIOUS
<1>2. \E i \in DOMAIN pending : pending[i] # m
  BY <1>1, ProceedRisk
<1> QED
  BY <1>1, <1>2

Answered == InsertNew \/ RecordDedupe \/ InsertDeadLetter

(* Only an answered or a failed statement puts a message at risk.          *)
LEMMA RiskStep ==
  ASSUME TypeInv, QueueInv, EndInv, [Next]_vars, ~Answered, ~WriteFails,
         NEW m, Risk(m)'
  PROVE  Risk(m)
<1> USE DEF Risk
<1>0. /\ pending \in Seq(Msg) /\ messages \in Seq(Msg) /\ session \in Seq(Msg)
  BY CurrentTyped
<1>1. Open' /\ Behind(m)' /\ Coming(m)'
  OBVIOUS
<1>2. ASSUME UNCHANGED <<loop, pending, published>>,
             pc' = pc \/ (pc \in Statement /\ pc' \in Statement)
               \/ (pc \notin Statement \cup Ended \cup {"flush_connect", "raise"}
                   /\ pc' \notin Statement),
             Elements(messages') \subseteq Elements(messages) \cup
               (IF link THEN Elements(session) ELSE {}),
             Elements(session') \subseteq Elements(session),
             Drains /\ link' => link
      PROVE  Risk(m)
  <2>1. Held' = Held /\ Drains' = Drains /\ Item' = Item
    BY <1>2 DEF Held, Drains, Item
  <2>2. Open
    BY <1>1, <1>2 DEF Open, Statement, Ended
  <2>3. Behind(m)
    BY <1>1, <1>2, <2>1 DEF Behind
  <2>4. Coming(m)
    <3>1. \/ m \notin published
          \/ m \in Elements(messages')
          \/ m \in Elements(session') /\ (Drains => link')
          \/ Drains /\ Item = m
      BY <1>1, <1>2, <2>1 DEF Coming
    <3> QED
      BY <1>2, <3>1 DEF Coming
  <2> QED
    BY <2>2, <2>3, <2>4
<1>3. ASSUME pending' = <<>> PROVE FALSE
  BY <1>1, <1>3 DEF Behind
<1>4. ASSUME Reconnect(pending), pc \in {"db_connect", "mqtt_connect", "subscribe"}
      PROVE  Risk(m)
  <2>1. /\ UNCHANGED <<loop, pending, published, session>>
        /\ messages' = <<>> /\ pc' \notin Statement
        /\ pc \notin Statement \cup Ended \cup {"flush_connect", "raise"}
    BY <1>4 DEF Reconnect, Teardown, AfterLoop, outerVars, Statement, Ended
  <2> QED
    BY <1>2, <2>1, ElementsNone DEF Drains
<1>5. CASE Service
  <2>1. CASE ConnectDb \/ ConnectMqtt \/ BackoffEnds
    <3>1. /\ UNCHANGED <<loop, pending, messages, published, session>>
          /\ pc \notin Statement \cup Ended \cup {"flush_connect", "raise"}
          /\ pc' \notin Statement
      BY <2>1
         DEF ConnectDb, ConnectMqtt, BackoffEnds, AfterLoop, brokerVars, workVars,
             outerVars, Statement, Ended
    <3> QED
      BY <1>2, <3>1 DEF Drains
  <2>2. CASE Subscribe
    <3>1. PICK h : Proceed("replay", pending, counters, h)
      BY <2>2 DEF Subscribe
    <3>2. UNCHANGED <<published, session>> /\ pc = "subscribe"
      BY <2>2 DEF Subscribe, outerVars
    <3>3. /\ \E i \in DOMAIN pending : pending[i] # m
          /\ m \notin published \/ m \in Elements(messages) \/ m \in Elements(session)
      BY <1>0, <3>1, <3>2, ProceedRisk
    <3>4. loop # "flush" /\ ~Held /\ ~Drains
      BY <3>2 DEF QueueInv, Held, Drains, Statement, Ended
    <3> QED
      BY <3>2, <3>3, <3>4 DEF Open, Behind, Coming, Ended
  <2>3. CASE StopNoticed
    <3>1. /\ Proceed("consume", pending, counters, health)
          /\ UNCHANGED <<published, session>> /\ pending = <<>>
      BY <2>3 DEF StopNoticed, outerVars, QueueInv, NothingOwedWhenIdle
    <3> QED
      BY <1>0, <3>1, NothingRisked DEF Risk
  <2>4. CASE ConnectFlush
    <3>1. Proceed("flush", pending, counters, health) /\ UNCHANGED <<published, session>>
      BY <2>4 DEF ConnectFlush, outerVars
    <3> QED
      BY <1>0, <3>1, ProceedRisk
  <2>5. CASE SubscribeOnDeadLink
    BY <1>4, <2>5 DEF SubscribeOnDeadLink
  <2>6. CASE Disconnected
    BY <1>3, <2>6 DEF Disconnected, Reconnect, QueueInv, NothingOwedWhenIdle
  <2>7. CASE TakeMessage
    <3>1. /\ messages # <<>> /\ pending = <<>> /\ pending' = Append(pending, Head(messages))
          /\ loop' = "consume" /\ pc' \in Statement \cup {"raise"}
      BY <2>7 DEF TakeMessage, Handle, QueueInv, NothingOwedWhenIdle, Statement
    <3>2. Held'
      BY <1>1, <3>1 DEF Held, Open
    <3>3. Len(pending') = 1 /\ DOMAIN pending' = {1}
      BY <1>0, <3>1
    <3> QED
      BY <1>1, <3>2, <3>3 DEF Behind
  <2>8. CASE UpsertDevice \/ InsertDuplicate
    <3>1. /\ UNCHANGED <<loop, pending, messages, published, session, link>>
          /\ pc \in Statement /\ pc' \in Statement
      BY <2>8 DEF UpsertDevice, InsertDuplicate, brokerVars, workVars, Statement
    <3> QED
      BY <1>2, <3>1
  <2>9. CASE RaiseInFlush \/ RaiseEndsRun
    BY <1>3, <2>9 DEF RaiseInFlush, RaiseEndsRun, Report, EndProcess
  <2> QED
    BY <1>5, <2>1, <2>2, <2>3, <2>4, <2>5, <2>6, <2>7, <2>8, <2>9 DEF Service, Answered
<1>6. CASE Failure
  BY <1>3, <1>4, <1>6
     DEF Failure, ConnectFails, SubscribeFails, FlushFails, Report
<1>7. CASE DevicePublishes
  <2>1. PICK p \in Msg : Publish(p)
    BY <1>7 DEF DevicePublishes
  <2>2. /\ published' = published \cup {p} /\ p \notin published
        /\ session' = session \/ session' = Append(session, p)
        /\ UNCHANGED <<pc, loop, pending, messages, link>>
    BY <1>7, <2>1 DEF DevicePublishes, Publish, memVars, workVars
  <2>3. Held' = Held /\ Drains' = Drains /\ Item' = Item
    BY <2>2 DEF Held, Drains, Item
  <2>4. Open /\ Behind(m)
    BY <1>1, <2>2, <2>3 DEF Open, Behind
  <2>5. Elements(session') \subseteq Elements(session) \cup {p}
    BY <1>0, <2>2, ElementsAppend
  <2>6. \/ m \notin published \cup {p}
        \/ m \in Elements(messages)
        \/ m \in Elements(session') /\ (Drains => link)
        \/ Drains /\ Item = m
    BY <1>1, <2>2, <2>3 DEF Coming
  <2>7. Coming(m)
    BY <2>2, <2>5, <2>6 DEF Coming
  <2> QED
    BY <2>4, <2>7
<1>8. CASE Deliver \/ DeliverAckLost
  <2>1. /\ messages' = Append(messages, Head(session)) /\ session # <<>> /\ link
        /\ session' = session \/ session' = Tail(session)
        /\ UNCHANGED <<published, pc, loop, pending>>
    BY <1>8 DEF Deliver, DeliverAckLost, Buffer
  <2>2. Elements(session) = {Head(session)} \cup Elements(Tail(session)) /\ Head(session) \in Msg
    BY <1>0, <2>1, ElementsSplit
  <2>3. Elements(messages') = Elements(messages) \cup {Head(session)}
    BY <1>0, <2>1, <2>2, ElementsAppend
  <2> QED
    BY <1>2, <2>1, <2>2, <2>3
<1>9. CASE LinkDrops \/ BrokerRestarts \/ SigTerm
  <2>1. /\ UNCHANGED <<published, pc, loop, pending, messages>>
        /\ session' = session \/ session' = <<>>
        /\ link' => link
    BY <1>9
       DEF LinkDrops, BrokerRestarts, ForgetSession, SigTerm, brokerVars, memVars, workVars
  <2> QED
    BY <1>2, <2>1, ElementsNone
<1>10. CASE Kill
  BY <1>3, <1>10 DEF Kill, EndProcess
<1>11. CASE Start
  BY <1>3, <1>11 DEF Start, EndInv
<1>12. CASE UNCHANGED vars
  BY <1>2, <1>12 DEF vars, brokerVars, memVars, workVars
<1> QED
  BY <1>5, <1>6, <1>7, <1>8, <1>9, <1>10, <1>11, <1>12 DEF Next, Environment
(* An answered statement adds at most its row, and drops the deque's head. *)
LEMMA AnsweredWeight ==
  ASSUME TypeInv, Answered, NEW m \in Rejected
  PROVE  /\ faults' = faults /\ Weight(m)' \in Int
         /\ Weight(m)' = Weight(m) + (Rows(m)' - Rows(m))
                           - (IF Head(pending) = m THEN 1 ELSE 0)
<1>1. PICK k \in Counter : ItemDone(k)
  BY DEF Answered, InsertNew, RecordDedupe, InsertDeadLetter, Counter
<1>2. pc \in Statement
  BY DEF Answered, InsertNew, RecordDedupe, InsertDeadLetter, Statement
<1>3. /\ pending \in Seq(Msg) /\ messages \in Seq(Msg) /\ pending # <<>>
      /\ Buffered \in Seq(Msg)
  BY <1>2, CurrentTyped
<1>4. /\ faults' = faults /\ UNCHANGED <<published, session>>
      /\ Buffered' = Tail(pending) \o messages
  <2>1. Tail(pending) \in Seq(Msg)
    BY <1>3
  <2> QED
    BY <1>1, <1>3, <2>1, ProceedMoves DEF ItemDone, outerVars, boundVars
<1>5. /\ Buffered # <<>> /\ Head(Buffered) = Head(pending)
      /\ Tail(Buffered) = Tail(pending) \o messages
      /\ Tail(Buffered) \in Seq(Msg)
  BY <1>3 DEF Buffered
<1>6. Occ(Buffered, m) = Occ(Buffered', m) + (IF Head(pending) = m THEN 1 ELSE 0)
  <2>1. Occ(Tail(Buffered), m) \in Nat
    BY <1>5, PlacesFinite
  <2>2. Occ(Buffered, m) = IF Head(Buffered) = m THEN Occ(Tail(Buffered), m) + 1
                           ELSE Occ(Tail(Buffered), m)
    BY <1>3, <1>5, OccTail
  <2> QED
    <3>1. Occ(Buffered', m) = Occ(Tail(Buffered), m)
      BY <1>4, <1>5
    <3>2. CASE Head(pending) = m
      BY <1>5, <2>1, <2>2, <3>1, <3>2
    <3>3. CASE Head(pending) # m
      BY <1>5, <2>1, <2>2, <3>1, <3>3
    <3> QED
      BY <3>2, <3>3
<1>7. Occ(Buffered', m) \in Nat
  BY <1>4, <1>5, PlacesFinite
<1> DEFINE out == IF m \in published THEN 0 ELSE 1
<1>8. /\ Weight(m) = Rows(m) + Occ(Buffered, m) + Occ(session, m) + out
      /\ Weight(m)' = Rows(m)' + Occ(Buffered', m) + Occ(session, m) + out
      /\ out \in Nat
  BY <1>4 DEF Weight
<1> HIDE DEF out
<1>9. Rows(m) \in Nat /\ Occ(session, m) \in Nat
  BY WeightTyped
<1>10. Rows(m)' \in Int
  <2>1. DeadLetterOf(m)' = DeadLetterOf(m)
    BY DEF DeadLetterOf, Outcome
  <2>2. dead_letter' = dead_letter \/ dead_letter' = Append(dead_letter, DeadLetterOf(Item))
    BY DEF Answered, InsertNew, RecordDedupe, InsertDeadLetter, insert_reading,
           record_dedupe, insert_dead_letter
  <2>3. dead_letter \in Seq(DeadLetterRow)
    BY DEF TypeInv, TypeOK, StorageTypeOK
  <2>4. Rows(m)' = Occ(dead_letter', DeadLetterOf(m))
    BY <2>1 DEF Rows
  <2>5. Occ(dead_letter, DeadLetterOf(m)) \in Int
    BY <1>9 DEF Rows
  <2>6. Occ(Append(dead_letter, DeadLetterOf(Item)), DeadLetterOf(m)) \in Int
    BY <2>3, <2>5, OccAppend
  <2>7. CASE dead_letter' = dead_letter
    BY <2>4, <2>5, <2>7
  <2>8. CASE dead_letter' = Append(dead_letter, DeadLetterOf(Item))
    BY <2>4, <2>6, <2>8
  <2> QED
    BY <2>2, <2>7, <2>8
<1> DEFINE d == IF Head(pending) = m THEN 1 ELSE 0
<1>11. d \in Int /\ Occ(Buffered, m) = Occ(Buffered', m) + d
  BY <1>6
<1> HIDE DEF d
<1>12. Weight(m)' \in Int /\ Weight(m)' = Weight(m) + (Rows(m)' - Rows(m)) - d
  BY <1>7, <1>8, <1>9, <1>10, <1>11
<1> QED
  BY <1>4, <1>12 DEF d

(* What is at risk after an answered statement was at risk before it, or   *)
(* the drain has just popped an unwritten copy of it.                      *)
LEMMA AnsweredRisk ==
  ASSUME TypeInv, QueueInv, OnlyPublished, FreshInv, Answered,
         NEW m \in Rejected, Risk(m)'
  PROVE  \/ loop = "replay" /\ Risk(m)
         \/ loop = "drain" /\ Item # m /\ (Risk(m) \/ Head(pending) = m)
<1>1. PICK k \in Counter : ItemDone(k)
  BY DEF Answered, InsertNew, RecordDedupe, InsertDeadLetter, Counter
<1>2. pc \in Statement
  BY DEF Answered, InsertNew, RecordDedupe, InsertDeadLetter, Statement
<1>3. /\ pending \in Seq(Msg) /\ messages \in Seq(Msg) /\ pending # <<>>
      /\ session \in Seq(Msg) /\ Item \in Msg /\ loop \in Loop
  BY <1>2, CurrentTyped DEF TypeInv, TypeOK
<1> DEFINE q == Tail(pending)
<1>4. /\ q \in Seq(Msg) /\ Len(pending) \in Nat \ {0}
      /\ DOMAIN pending = 1 .. Len(pending) /\ DOMAIN q = 1 .. Len(pending) - 1
      /\ \A i \in DOMAIN q : q[i] = pending[i + 1]
      /\ Head(pending) = pending[1]
      /\ Len(pending) = 1 => q = <<>>
  <2>1. /\ q \in Seq(Msg) /\ Len(pending) \in Nat \ {0}
        /\ DOMAIN pending = 1 .. Len(pending) /\ DOMAIN q = 1 .. Len(pending) - 1
        /\ \A i \in DOMAIN q : q[i] = pending[i + 1]
        /\ Head(pending) = pending[1]
        /\ Len(q) = Len(pending) - 1
    BY <1>3
  <2>2. \A s \in Seq(Msg) : Len(s) = 0 => s = <<>>
    OBVIOUS
  <2> QED
    BY <2>1, <2>2
<1>5. /\ loop # "flush"
      /\ \E i \in DOMAIN q : q[i] # m
      /\ \/ m \notin published
         \/ m \in Elements(messages)
         \/ m \in Elements(session) /\ (loop = "drain" => link)
  <2>1. UNCHANGED <<published, session>> /\ Proceed(loop, q, Count(counters, k), health)
    BY <1>1 DEF ItemDone, outerVars
  <2>2. loop = "consume" => q = <<>>
    BY <1>2, <1>4 DEF QueueInv, NothingOwedWhenIdle
  <2>3. loop = "drain" => stop
    BY DEF QueueInv
  <2> HIDE DEF q
  <2> QED
    BY <1>3, <1>4, <2>1, <2>2, <2>3, ProceedRisk
<1>6. PICK i \in DOMAIN q : q[i] # m
  BY <1>5
<1>7. loop # "consume"
  BY <1>2, <1>4, <1>6 DEF QueueInv, NothingOwedWhenIdle
<1>8. Open
  <2>1. pc \notin Ended \cup {"flush_connect", "raise"}
    BY <1>2 DEF Statement, Ended
  <2> QED
    BY <1>5, <2>1 DEF Open
<1>9. i + 1 \in DOMAIN pending /\ pending[i + 1] # m
  BY <1>4, <1>6
<1>10. CASE loop = "replay"
  <2>1. ~Held /\ ~Drains
    BY <1>10 DEF Held, Drains
  <2>2. Behind(m)
    BY <1>9, <2>1 DEF Behind
  <2>3. Coming(m)
    BY <1>5, <2>1 DEF Coming
  <2> QED
    BY <1>8, <1>10, <2>2, <2>3 DEF Risk
<1>11. CASE loop = "drain"
  <2>1. Held /\ Drains
    BY <1>2, <1>11 DEF Held, Drains
  <2>2. Coming(m)
    BY <1>5, <1>11, <2>1 DEF Coming
  <2>3. Item # m
    <3>1. Current = <<Item>> \o messages
      BY <2>1 DEF Current
    <3>2. Item \in Elements(Current)
      <4>1. 1 \in DOMAIN Current /\ Current[1] = Item
        BY <1>3, <3>1
      <4> QED
        BY <4>1 DEF Elements
    <3>3. Item \in published
      <4>1. Item \in Elements(pending)
        <5>1. Len(pending) \in DOMAIN pending /\ 1 \in DOMAIN pending
          BY <1>4
        <5> QED
          BY <1>4, <5>1 DEF Item, Elements
      <4> QED
        BY <4>1 DEF OnlyPublished, Elements
    <3>4. Item \notin Elements(messages)
      <4>1. /\ Head(Current) = Item /\ Tail(Current) = messages
            /\ Current \in Seq(Msg) /\ Current # <<>>
        BY <1>3, <3>1
      <4> QED
        BY <4>1, DistinctHead DEF FreshInv
    <3>5. link => Item \notin Elements(session)
      BY <3>2 DEF FreshInv
    <3> QED
      BY <1>5, <1>11, <3>3, <3>4, <3>5
  <2>4. CASE i + 1 < Len(pending)
    <3>1. Behind(m)
      BY <1>9, <2>4 DEF Behind
    <3> QED
      BY <1>8, <1>11, <2>2, <2>3, <3>1 DEF Risk
  <2>5. CASE i + 1 = Len(pending)
    <3>1. 1 \in DOMAIN pending /\ 1 < Len(pending)
      BY <1>4, <1>6, <2>5
    <3>2. Head(pending) # m => Behind(m)
      BY <1>4, <3>1 DEF Behind
    <3> QED
      BY <1>8, <1>11, <2>2, <2>3, <3>2 DEF Risk
  <2>6. i + 1 < Len(pending) \/ i + 1 = Len(pending)
    BY <1>4, <1>6
  <2> QED
    BY <2>4, <2>5, <2>6
<1> QED
  BY <1>3, <1>5, <1>7, <1>10, <1>11 DEF Loop

(* A failed statement costs a fault.  If it left a row of m, then what is  *)
(* still to come of m are copies, and they are all that is buffered.       *)
LEMMA FailedRisk ==
  ASSUME TypeInv, QueueInv, OnlyPublished, OrderInv, WriteFails,
         NEW m \in Rejected, Risk(m)', Item = m
  PROVE  Risk(m)
<1>1. /\ pc \in Statement /\ loop # "flush" /\ Reconnect(pending \o messages)
  BY DEF WriteFails
<1>2. /\ pending' = Buffered /\ messages' = <<>> /\ pc' \notin Statement
      /\ UNCHANGED <<published, session>>
      /\ stop => pc' \in Ended \cup {"flush_connect"}
  BY <1>1 DEF Reconnect, Teardown, AfterLoop, Buffered, outerVars, Statement, Ended
<1>3. ~stop
  BY <1>2 DEF Risk, Open
<1>4. loop \in {"replay", "consume"}
  BY <1>1, <1>3 DEF QueueInv, TypeInv, TypeOK, Loop
<1>5. /\ pending \in Seq(Msg) /\ messages \in Seq(Msg) /\ pending # <<>>
      /\ Buffered \in Seq(Msg)
  BY <1>1, CurrentTyped
<1>6. Item = Head(pending) /\ Head(pending) = pending[1] /\ 1 \in DOMAIN pending
  <2>1. loop = "consume" => Len(pending) = 1
    BY <1>1 DEF QueueInv, NothingOwedWhenIdle
  <2> QED
    BY <1>4, <1>5, <2>1 DEF Item
<1>7. Buffered[1] = m /\ 1 \in DOMAIN Buffered
  BY <1>5, <1>6 DEF Buffered
<1>8. m \in published
  BY <1>6 DEF OnlyPublished
<1>9. m \in Elements(session)
  BY <1>2, <1>8, ElementsNone DEF Risk, Coming, Drains
<1>10. \A j \in DOMAIN Buffered : Buffered[j] = m
  <2>1. m \in Elements(Buffered)
    BY <1>7 DEF Elements
  <2>2. \A j \in DOMAIN Buffered : j = 1 \/ 1 < j
    BY <1>5
  <2> QED
    BY <1>7, <1>9, <2>1, <2>2 DEF OrderInv
<1> QED
  BY <1>2, <1>10 DEF Risk, Behind

DeadLetterInv ==
  OnlyPublished /\ EndInv /\ FreshInv /\ OrderInv /\ WeightInv /\ SpareInv

LEMMA DeadLetterStep ==
  ASSUME TypeInv, QueueInv, DeadLetterInv, RowsTellApart, [Next]_vars
  PROVE  DeadLetterInv'
<1> USE DEF DeadLetterInv
<1>1. OnlyPublished' /\ EndInv' /\ FreshInv' /\ OrderInv'
  BY PublishedStep, EndStep, FreshStep, OrderStep
<1>2. ASSUME NEW m \in Rejected
      PROVE  Weight(m)' <= 1 + faults' /\ (Risk(m)' => Weight(m)' <= faults')
  <2>1. /\ Weight(m) \in Nat /\ faults \in Nat /\ Rows(m) \in Nat
        /\ Weight(m) <= 1 + faults
        /\ Risk(m) => Weight(m) <= faults
    BY <1>2, WeightTyped DEF WeightInv, SpareInv
  <2>2. CASE ~Answered /\ ~WriteFails
    <3>1. /\ faults' \in Nat /\ Weight(m)' \in Nat
          /\ Weight(m)' - Weight(m) <= faults' - faults
      BY <2>2, WeightGrows DEF Answered
    <3>2. Risk(m)' => Risk(m)
      BY <2>2, RiskStep
    <3> QED
      BY <2>1, <3>1, <3>2
  <2>3. CASE WriteFails
    <3>1. faults' = faults + 1 /\ ~Answered
      BY <2>3
         DEF WriteFails, Fault, Answered, InsertNew, RecordDedupe, InsertDeadLetter,
             ItemDone, boundVars, TypeInv, TypeOK
    <3>2. Weight(m)' \in Nat /\ Weight(m)' - Weight(m) <= 1
      BY <2>1, <3>1, WeightGrows DEF Answered
    <3>3. ASSUME Risk(m)' PROVE Weight(m)' <= faults'
      <4>1. CASE Item = m
        BY <2>1, <2>3, <3>1, <3>2, <3>3, <4>1, FailedRisk
      <4>2. CASE Item # m
        <5>1. Rows(m)' = Rows(m)
          BY <4>2, RowsStep
        <5>2. Weight(m)' <= Weight(m)
          <6>1. ~Outside
            <7>1. pc \in Statement /\ pc' \notin Statement
              BY <2>3 DEF WriteFails, Reconnect, AfterLoop, Statement
            <7> QED
              BY <7>1
                 DEF Outside, DevicePublishes, Deliver, DeliverAckLost, Buffer,
                     BrokerRestarts, memVars
          <6> QED
            BY <3>1, <5>1, <6>1, WeightGrows DEF Answered
        <5> QED
          BY <2>1, <3>1, <3>2, <5>2
      <4> QED
        BY <4>1, <4>2
    <3> QED
      BY <2>1, <3>1, <3>2, <3>3
  <2>4. CASE Answered
    <3> DEFINE pop == IF Head(pending) = m THEN 1 ELSE 0
    <3>1. /\ faults' = faults /\ Weight(m)' \in Int
          /\ Weight(m)' = Weight(m) + (Rows(m)' - Rows(m)) - pop
          /\ pop \in Nat
      BY <2>4, AnsweredWeight
    <3>2. pc \in Statement /\ loop \in Loop
      BY <2>4
         DEF Answered, InsertNew, RecordDedupe, InsertDeadLetter, Statement,
             TypeInv, TypeOK
    <3>3. \/ Rows(m)' = Rows(m)
          \/ Item = m /\ Rows(m)' = Rows(m) + 1
      BY RowsStep
    <3>4. CASE Item = m /\ Head(pending) = m
      <4>1. Risk(m)' => Risk(m)
        BY <2>4, <3>4, AnsweredRisk
      <4> QED
        BY <2>1, <3>1, <3>3, <3>4, <4>1
    <3>5. CASE Item = m /\ Head(pending) # m
      <4>1. loop = "drain" /\ Len(pending) > 1
        BY <3>2, <3>5, ItemIsHead DEF Gap, Statement
      <4>2. Risk(m)
        <5>1. pending \in Seq(Msg) /\ Open /\ Held /\ Drains
          BY <3>2, <4>1, CurrentTyped DEF Open, Held, Drains, Statement, Ended
        <5>2. 1 \in DOMAIN pending /\ Head(pending) = pending[1] /\ 1 < Len(pending)
          BY <4>1, <5>1
        <5> QED
          BY <3>5, <5>1, <5>2 DEF Risk, Behind, Coming
      <4>3. ~Risk(m)'
        BY <2>4, <3>5, <4>1, AnsweredRisk
      <4> QED
        BY <2>1, <3>1, <3>3, <3>5, <4>2, <4>3
    <3>6. CASE Item # m
      <4>1. Risk(m)' => Risk(m) \/ Head(pending) = m
        BY <2>4, AnsweredRisk
      <4> QED
        BY <2>1, <3>1, <3>3, <3>6, <4>1
    <3> QED
      BY <3>4, <3>5, <3>6
  <2> QED
    BY <2>2, <2>3, <2>4
<1>3. WeightInv' /\ SpareInv'
  BY <1>2 DEF WeightInv, SpareInv, Rejected, Outcome
<1> QED
  BY <1>1, <1>3
(* However often a write is retried, a delivery repeated or a backlog cut  *)
(* short, every row of a dead letter beyond its first has a fault to show  *)
(* for it (service.py: _handle_one, the replay of pending, the drain).     *)
(* RowsTellApart: the count is by content, so a row must tell its message. *)
THEOREM DeadLettersHaveFaults ==
  ASSUME RowsTellApart
  PROVE  Spec => []DeadLettersPerFault
<1>1. Init => DeadLetterInv
  <2> SUFFICES ASSUME Init PROVE DeadLetterInv
    OBVIOUS
  <2>1. /\ session = <<>> /\ messages = <<>> /\ pending = <<>> /\ published = {}
        /\ pc = "db_connect" /\ dead_letter = <<>> /\ faults = 0
    BY DEF Init, BrokerInit, StorageInit
  <2>2. Buffered = <<>> /\ Current = <<>>
    BY <2>1 DEF Buffered, Current, Held, Statement
  <2>3. OnlyPublished
    <3>1. \A S : <<>> \in Seq(S)
      OBVIOUS
    <3> QED
      BY <2>1, <3>1 DEF OnlyPublished
  <2>4. EndInv /\ FreshInv /\ OrderInv
    BY <2>1, <2>2, ElementsNone DEF EndInv, Ended, FreshInv, Distinct, OrderInv
  <2>5. \A m \in Rejected : Weight(m) = 1
    BY <2>1, <2>2, OccNone DEF Weight, Rows
  <2>6. \A m : ~Behind(m)
    BY <2>1 DEF Behind
  <2> QED
    BY <2>1, <2>3, <2>4, <2>5, <2>6 DEF DeadLetterInv, WeightInv, SpareInv, Risk
<1>2. TypeInv /\ QueueInv /\ DeadLetterInv /\ [Next]_vars => DeadLetterInv'
  BY DeadLetterStep
<1>3. TypeInv /\ DeadLetterInv => DeadLettersPerFault
  <2> SUFFICES ASSUME TypeInv, DeadLetterInv, NEW m \in Rejected
               PROVE  Rows(m) <= 1 + faults
    BY DEF DeadLettersPerFault, Rows, Occ, Places
  <2>1. Weight(m) <= 1 + faults
    BY DEF DeadLetterInv, WeightInv
  <2>2. Rows(m) <= Weight(m)
    BY WeightTyped DEF Weight
  <2> QED
    BY <2>1, <2>2, WeightTyped
<1> QED
  BY <1>1, <1>2, <1>3, TypeInvariant, QueueInvariant, PTL DEF Spec
===============================================================================
