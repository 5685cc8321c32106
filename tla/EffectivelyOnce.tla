---------------------------- MODULE EffectivelyOnce ---------------------------
(***************************************************************************)
(* What docs/ingestion.md calls "effectively-once into the database", as   *)
(* the reader of the tables sees it: whatever is delivered, redelivered,   *)
(* retried or lost underneath, the tables only ever gain what a device has *)
(* published, a valid reading as the one row of its key, for good, and any *)
(* other message as a dead letter.                                         *)
(***************************************************************************)
EXTENDS Contract

CONSTANTS Msg, Wire

VARIABLES sent,       \* the messages published
          rows,       \* the readings stored
          rejects     \* the messages dead-lettered, as topic, payload, reason

evars == <<sent, rows, rejects>>

Init == sent = {} /\ rows = {} /\ rejects = {}

Send(m) ==
  /\ m \notin sent
  /\ sent' = sent \cup {m}
  /\ UNCHANGED <<rows, rejects>>

Store(m) ==
  /\ m \in sent
  /\ Classify(Wire[m]).kind = "reading"
  /\ LET r == Classify(Wire[m]).reading
     IN  /\ \A row \in rows : Key(row) # Key(r)
         /\ rows' = rows \cup {r}
  /\ UNCHANGED <<sent, rejects>>

Reject(m) ==
  /\ m \in sent
  /\ Classify(Wire[m]).kind = "dead_letter"
  /\ rejects' = rejects \cup
       {[topic |-> Wire[m].topic, payload |-> Wire[m].payload,
         reason |-> Classify(Wire[m]).reason]}
  /\ UNCHANGED <<sent, rows>>

Next == \E m \in Msg : Send(m) \/ Store(m) \/ Reject(m)

Spec == Init /\ [][Next]_evars
===============================================================================
