------------------------ MODULE DeliveryOutboxProofs ------------------------
(***************************************************************************)
(* Invariants of DeliveryOutbox!OutboxSpec for any number of deliveries,   *)
(* acknowledgements and retries of a completed job.                        *)
(***************************************************************************)
EXTENDS DeliveryOutbox, TLAPS

Retried == \E t \in Retries : retry[t].pc = "done"

(* A run of both kinds has recorded its outcome, so RETRY_WAIT may stand   *)
(* over the SENT_UNCONFIRMED it was let in to repeat.                      *)
Reopened == \E d \in Deliveries : dlv[d].dup /\ dlv[d].cli /\ dlv[d].pc = "done"

Plain(d) == ~dlv[d].dup /\ ~dlv[d].cli

(* The result does not change under the outbox and is what it announces.   *)
OutboxTypeOK ==
  /\ StoreTypeOK /\ DlvTypeOK
  /\ result # None /\ delivery.event = result.event

(* Before a retry, the delivery state tells where the run in flight is.    *)
Claimed ==
  ~Retried =>
    \A d \in Deliveries : InFlight(d) =>
      delivery.state = IF dlv[d].pc = "sending" THEN "CLAIMED" ELSE "SENDING"

Alone == ~Retried => \A d1, d2 \in Deliveries : InFlight(d1) /\ InFlight(d2) => d1 = d2

(* Only a run that goes through the CLI sends or fails to.                 *)
CliPlaces == \A d \in Deliveries : dlv[d].pc \in {"send", "failed"} => dlv[d].cli

(* Where a run is that may have delivered.                                 *)
DeliveredPc == {"send", "sent", "failed", "done", "error", "stopped"}
Delivered == \A m \in received : dlv[m[1]].pc \in DeliveredPc

(* After a plain delivery only a run that allows a duplicate is let in.    *)
OnceUnlessAsked ==
  ~Retried /\ ~Reopened =>
    \A m \in received : Plain(m[1]) =>
      /\ delivery.state \in {"CLAIMED", "SENDING", "SENT_UNCONFIRMED", "ACKED"}
      /\ \A d \in Deliveries \ {m[1]} : InFlight(d) => dlv[d].dup
      /\ \A n \in received : Plain(n[1]) => n[1] = m[1]

(* What a run announces is the event of the result.                        *)
Published ==
  /\ \A d \in Deliveries :
       /\ dlv[d].pc \in {"payload", "send", "sent", "failed"} =>
            dlv[d].event = result.event
       /\ dlv[d].pc \in {"send", "sent", "failed"} => payload = result.event
  /\ delivery.state \in {"SENT_UNCONFIRMED", "ACKED"} => payload = result.event

OutboxInv ==
  /\ OutboxTypeOK /\ Claimed /\ Alone /\ CliPlaces /\ Delivered
  /\ OnceUnlessAsked /\ Published

-----------------------------------------------------------------------------
(* What the writes of a step do.                                           *)

LEMMA DeliveryIsSet ==
  ASSUME OutboxTypeOK, NEW t \in DeliveryState,
         delivery' = [delivery EXCEPT !.state = t]
  PROVE  /\ delivery' \in Delivery
         /\ delivery'.state = t /\ delivery'.event = delivery.event
BY DEF OutboxTypeOK, StoreTypeOK, Delivery

Run == [pc : DlvPc, cli : BOOLEAN, dup : BOOLEAN, event : Event \cup {None}]

LEMMA RunGoes ==
  ASSUME OutboxTypeOK, NEW d \in Deliveries, NEW pc \in DlvPc, DlvGoto(d, pc)
  PROVE  /\ dlv' \in [Deliveries -> Run]
         /\ \A o \in Deliveries \ {d} : dlv'[o] = dlv[o]
         /\ dlv'[d].pc = pc /\ dlv'[d].cli = dlv[d].cli
         /\ dlv'[d].dup = dlv[d].dup /\ dlv'[d].event = dlv[d].event
<1>1. dlv \in [Deliveries -> Run]
  BY DEF OutboxTypeOK, DlvTypeOK, Run
<1> DEFINE r == [dlv[d] EXCEPT !.pc = pc]
<1>2. dlv[d] \in Run
  BY <1>1
<1>3. /\ r \in Run /\ r.pc = pc /\ r.cli = dlv[d].cli
      /\ r.dup = dlv[d].dup /\ r.event = dlv[d].event
  BY <1>2 DEF Run
<1>4. dlv' = [dlv EXCEPT ![d] = r]
  BY DEF DlvGoto
<1> HIDE DEF r
<1>5. QED
  BY <1>1, <1>3, <1>4

(* The places of a step as a run sees them.                                *)
Steps(d, from, to) ==
  /\ DlvAt(d, from) /\ dlv'[d].pc = to
  /\ dlv' \in [Deliveries -> Run]
  /\ \A o \in Deliveries \ {d} : dlv'[o] = dlv[o]
  /\ dlv'[d].cli = dlv[d].cli /\ dlv'[d].dup = dlv[d].dup

Others == <<meta, result, dead, ack, retry>>

(* The step of a run, by what it does to the files.                        *)
Checked(d) ==
  /\ dlv[d].pc = "idle" /\ dlv'[d].pc \in {"claim", "error"}
  /\ dlv' \in [Deliveries -> Run]
  /\ \A o \in Deliveries \ {d} : dlv'[o] = dlv[o]
  /\ UNCHANGED <<Others, delivery, payload, received>>

Claims(d) ==
  /\ Steps(d, "claim", "sending") /\ delivery.state \in Claimable(dlv[d].dup)
  /\ delivery'.state = "CLAIMED"
  /\ delivery' \in Delivery /\ delivery'.event = delivery.event
  /\ UNCHANGED <<Others, payload, received>>

FlightPc == {"sending", "read", "payload", "send", "sent", "failed"}

GivesUp(d) ==
  /\ \E from \in {"claim"} \cup FlightPc, to \in {"error", "stopped"} : Steps(d, from, to)
  /\ UNCHANGED <<Others, delivery, payload, received>>

Records(d, from, state, to) ==
  /\ Steps(d, from, to) /\ dlv'[d].event = dlv[d].event
  /\ CanDeliver(state)
  /\ delivery'.state = state
  /\ delivery' \in Delivery /\ delivery'.event = delivery.event
  /\ UNCHANGED <<Others, payload, received>>

Reads(d) ==
  /\ Steps(d, "read", "payload") /\ dlv'[d].event = result.event
  /\ UNCHANGED <<Others, delivery, payload, received>>

Publishes(d) ==
  /\ Steps(d, "payload", IF dlv[d].cli THEN "send" ELSE "sent")
  /\ dlv'[d].event = dlv[d].event
  /\ payload' = dlv[d].event
  /\ received' = received \cup (IF dlv[d].cli THEN {} ELSE {<<d, dlv[d].event>>})
  /\ UNCHANGED <<Others, delivery>>

Sends(d) ==
  /\ \E to \in {"sent", "failed"} : Steps(d, "send", to)
  /\ dlv'[d].event = dlv[d].event
  /\ received \subseteq received'
  /\ received' \subseteq received \cup {<<d, dlv[d].event>>}
  /\ UNCHANGED <<Others, delivery, payload>>

RunStep(d) ==
  \/ Checked(d) \/ Claims(d) \/ GivesUp(d) \/ Reads(d) \/ Publishes(d) \/ Sends(d)
  \/ Records(d, "sending", "SENDING", "read")
  \/ Records(d, "sent", "SENT_UNCONFIRMED", "done")
  \/ Records(d, "failed", "RETRY_WAIT", "done")

LEMMA UpdatesOrFails ==
  ASSUME OutboxTypeOK, NEW d \in Deliveries,
         NEW from \in {"sending", "sent", "failed"},
         NEW state \in DeliveryState, NEW to \in DlvPc,
         DlvAt(d, from), UpdateOrFail(d, state, to),
         UNCHANGED <<Others, payload, received>>
  PROVE  Records(d, from, state, to) \/ GivesUp(d)
<1>1. CASE UpdateDelivery(state) /\ DlvGoto(d, to)
  <2>1. Steps(d, from, to) /\ dlv'[d].event = dlv[d].event
    BY <1>1, RunGoes DEF Steps
  <2>2. /\ delivery' \in Delivery /\ delivery'.state = state
        /\ delivery'.event = delivery.event
    BY <1>1, DeliveryIsSet DEF UpdateDelivery
  <2>3. QED
    BY <1>1, <2>1, <2>2 DEF Records, UpdateDelivery
<1>2. CASE DlvGoto(d, "error") /\ UNCHANGED delivery
  <2>1. "error" \in DlvPc
    BY DEF DlvPc
  <2>2. Steps(d, from, "error")
    BY <1>2, <2>1, RunGoes DEF Steps
  <2>3. QED
    BY <1>2, <2>2 DEF GivesUp, FlightPc
<1>3. QED
  BY <1>1, <1>2 DEF UpdateOrFail

LEMMA RunStepKinds ==
  ASSUME OutboxTypeOK, NEW d \in Deliveries,
         DeliverCheck(d) \/ DlvContinue(d) \/ StopDelivery(d)
  PROVE  RunStep(d)
<1>0. dlv \in [Deliveries -> Run] /\ dlv[d] \in Run /\ result.event \in Event
  BY DEF OutboxTypeOK, DlvTypeOK, Run, StoreTypeOK, Result
<1>1. CASE DeliverCheck(d)
  <2>1. PICK r \in Run : r.pc \in {"claim", "error"} /\ dlv' = [dlv EXCEPT ![d] = r]
    BY <1>1 DEF DeliverCheck, Run, DlvPc
  <2>2. Checked(d)
    BY <1>0, <1>1, <2>1 DEF DeliverCheck, Checked, DlvAt, Others, storeVars
  <2>3. QED
    BY <2>2 DEF RunStep
<1>2. CASE Claim(d)
  <2>1. CASE delivery.state \in Claimable(dlv[d].dup)
             /\ delivery' = [delivery EXCEPT !.state = "CLAIMED"] /\ DlvGoto(d, "sending")
    <3>1. "sending" \in DlvPc /\ "CLAIMED" \in DeliveryState
      BY DEF DlvPc, DeliveryState
    <3>2. Steps(d, "claim", "sending")
      BY <1>2, <2>1, <3>1, RunGoes DEF Steps, Claim
    <3>3. /\ delivery' \in Delivery /\ delivery'.state = "CLAIMED"
          /\ delivery'.event = delivery.event
      BY <2>1, <3>1, DeliveryIsSet
    <3>4. Claims(d)
      BY <1>2, <2>1, <3>2, <3>3 DEF Claims, Claim, Others
    <3>5. QED
      BY <3>4 DEF RunStep
  <2>2. CASE DlvGoto(d, "error") /\ UNCHANGED delivery
    <3>1. "error" \in DlvPc
      BY DEF DlvPc
    <3>2. Steps(d, "claim", "error")
      BY <1>2, <2>2, <3>1, RunGoes DEF Steps, Claim
    <3>3. GivesUp(d)
      BY <1>2, <2>2, <3>2 DEF GivesUp, Claim, Others
    <3>4. QED
      BY <3>3 DEF RunStep
  <2>3. QED
    BY <1>2, <2>1, <2>2 DEF Claim
<1>3. CASE StartSending(d)
  <2>1. "read" \in DlvPc /\ "SENDING" \in DeliveryState
    BY DEF DlvPc, DeliveryState
  <2>2. UNCHANGED <<Others, payload, received>>
    BY <1>3 DEF StartSending, Others
  <2>3. QED
    BY <1>3, <2>1, <2>2, UpdatesOrFails DEF StartSending, RunStep
<1>4. CASE ReadEvent(d)
  <2> DEFINE r == [dlv[d] EXCEPT !.pc = "payload", !.event = result.event]
  <2>1. /\ r \in Run /\ r.pc = "payload" /\ r.event = result.event
        /\ r.cli = dlv[d].cli /\ r.dup = dlv[d].dup
    BY <1>0 DEF Run, DlvPc
  <2>2. dlv' = [dlv EXCEPT ![d] = r]
    BY <1>4 DEF ReadEvent
  <2> HIDE DEF r
  <2>3. Steps(d, "read", "payload") /\ dlv'[d].event = result.event
    BY <1>0, <1>4, <2>1, <2>2 DEF Steps, ReadEvent
  <2>4. Reads(d)
    BY <1>4, <2>3 DEF Reads, ReadEvent, Others, storeVars
  <2>5. QED
    BY <2>4 DEF RunStep
<1>5. CASE WritePayload(d)
  <2>1. "send" \in DlvPc /\ "sent" \in DlvPc
    BY DEF DlvPc
  <2>2. CASE dlv[d].cli
    <3>1. DlvGoto(d, "send") /\ received' = received /\ DlvAt(d, "payload")
      BY <1>5, <2>2 DEF WritePayload
    <3>2. Steps(d, "payload", "send") /\ dlv'[d].event = dlv[d].event
      BY <2>1, <3>1, RunGoes DEF Steps
    <3>3. QED
      BY <1>5, <2>2, <3>1, <3>2 DEF Publishes, RunStep, WritePayload, Others
  <2>3. CASE ~dlv[d].cli
    <3>1. /\ DlvGoto(d, "sent") /\ DlvAt(d, "payload")
          /\ received' = received \cup {<<d, dlv[d].event>>}
      BY <1>5, <2>3 DEF WritePayload
    <3>2. Steps(d, "payload", "sent") /\ dlv'[d].event = dlv[d].event
      BY <2>1, <3>1, RunGoes DEF Steps
    <3>3. QED
      BY <1>5, <2>3, <3>1, <3>2 DEF Publishes, RunStep, WritePayload, Others
  <2>4. QED
    BY <2>2, <2>3
<1>6. CASE CliResume(d)
  <2>1. PICK to \in {"sent", "failed"} :
          /\ received \subseteq received'
          /\ received' \subseteq received \cup {<<d, dlv[d].event>>}
          /\ DlvGoto(d, to)
    BY <1>6 DEF CliResume
  <2>2. to \in DlvPc
    BY DEF DlvPc
  <2>3. Steps(d, "send", to) /\ dlv'[d].event = dlv[d].event
    BY <1>6, <2>1, <2>2, RunGoes DEF Steps, CliResume
  <2>4. Sends(d)
    BY <1>6, <2>1, <2>3 DEF Sends, CliResume, Others, storeVars
  <2>5. QED
    BY <2>4 DEF RunStep
<1>7. CASE RecordSent(d)
  <2>1. "done" \in DlvPc /\ "SENT_UNCONFIRMED" \in DeliveryState
    BY DEF DlvPc, DeliveryState
  <2>2. UNCHANGED <<Others, payload, received>>
    BY <1>7 DEF RecordSent, Others
  <2>3. QED
    BY <1>7, <2>1, <2>2, UpdatesOrFails DEF RecordSent, RunStep
<1>8. CASE RecordFailed(d)
  <2>1. "done" \in DlvPc /\ "RETRY_WAIT" \in DeliveryState
    BY DEF DlvPc, DeliveryState
  <2>2. UNCHANGED <<Others, payload, received>>
    BY <1>8 DEF RecordFailed, Others
  <2>3. QED
    BY <1>8, <2>1, <2>2, UpdatesOrFails DEF RecordFailed, RunStep
<1>9. CASE StopDelivery(d)
  <2>1. PICK to \in {"error", "stopped"} : DlvGoto(d, to)
    BY <1>9 DEF StopDelivery
  <2>2. dlv[d].pc \in {"claim"} \cup FlightPc
    BY <1>9 DEF StopDelivery, InFlight, FlightPc
  <2>3. Steps(d, dlv[d].pc, to)
    BY <2>1, RunGoes DEF Steps, DlvAt, DlvPc
  <2>4. UNCHANGED <<Others, delivery, payload, received>>
    BY <1>9 DEF StopDelivery, Others, storeVars
  <2>5. GivesUp(d)
    BY <2>2, <2>3, <2>4 DEF GivesUp
  <2>6. QED
    BY <2>5 DEF RunStep
<1>10. QED
  BY <1>1, <1>2, <1>3, <1>4, <1>5, <1>6, <1>7, <1>8, <1>9 DEF DlvContinue

(* The steps of acknowledgements and retries.                              *)
Acknowledges ==
  /\ CanDeliver("ACKED") /\ delivery'.state = "ACKED"
  /\ delivery' \in Delivery /\ delivery'.event = delivery.event
  /\ ack' \in [Acks -> {"idle", "write", "done", "error"}]
  /\ UNCHANGED <<meta, result, dead, payload, dlv, retry, received>>

Looks ==
  /\ ack' \in [Acks -> {"idle", "write", "done", "error"}]
  /\ retry' \in [Retries -> [pc : {"idle", "write", "done", "error"}, dup : BOOLEAN]]
  /\ \A t \in Retries : retry[t].pc = "done" => retry'[t].pc = "done"
  /\ UNCHANGED <<storeVars, dlv, received>>

PutsBack(t) ==
  /\ retry' \in [Retries -> [pc : {"idle", "write", "done", "error"}, dup : BOOLEAN]]
  /\ retry'[t].pc = "done"
  /\ delivery.state # "ACKED" /\ delivery'.state = "PENDING"
  /\ delivery' \in Delivery /\ delivery'.event = delivery.event
  /\ UNCHANGED <<meta, result, dead, payload, dlv, ack, received>>

OtherStep ==
  \/ Acknowledges \/ Looks
  \/ \E t \in Retries : PutsBack(t)

LEMMA OtherStepKinds ==
  ASSUME OutboxTypeOK,
         \/ \E a \in Acks : AckRead(a) \/ AckWrite(a)
         \/ \E t \in Retries : RetryRead(t) \/ RetryWrite(t)
  PROVE  OtherStep
<1> DEFINE RetryRun == [pc : {"idle", "write", "done", "error"}, dup : BOOLEAN]
<1>0. /\ ack \in [Acks -> {"idle", "write", "done", "error"}]
      /\ retry \in [Retries -> RetryRun]
      /\ delivery.state \in DeliveryState
  BY DEF OutboxTypeOK, DlvTypeOK, StoreTypeOK, Delivery
<1>2. ASSUME NEW a \in Acks, AckRead(a)
      PROVE  OtherStep
  <2>1. PICK event \in Event \cup {None} :
          ack' = [ack EXCEPT ![a] =
            CASE delivery.state = "ACKED" -> "done"
              [] delivery.state = "SENT_UNCONFIRMED" /\ event \in {None, delivery.event}
                   -> "write"
              [] OTHER -> "error"]
    BY <1>2 DEF AckRead
  <2>2. PICK pc \in {"done", "write", "error"} : ack' = [ack EXCEPT ![a] = pc]
    BY <2>1
  <2>3. Looks
    BY <1>0, <1>2, <2>2 DEF AckRead, Looks
  <2>4. QED
    BY <2>3 DEF OtherStep
<1>3. ASSUME NEW a \in Acks, AckWrite(a)
      PROVE  OtherStep
  <2>1. PICK pc \in {"done", "error"} : ack' = [ack EXCEPT ![a] = pc]
    BY <1>3 DEF AckWrite
  <2>2. CASE UpdateDelivery("ACKED")
    <3>1. "ACKED" \in DeliveryState
      BY DEF DeliveryState
    <3>2. Acknowledges
      BY <1>0, <1>3, <2>1, <2>2, <3>1, DeliveryIsSet DEF AckWrite, Acknowledges, UpdateDelivery
    <3>3. QED
      BY <3>2 DEF OtherStep
  <2>3. CASE UNCHANGED delivery
    <3>1. Looks
      BY <1>0, <1>3, <2>1, <2>3 DEF AckWrite, Looks, storeVars
    <3>2. QED
      BY <3>1 DEF OtherStep
  <2>4. QED
    BY <1>3, <2>2, <2>3 DEF AckWrite
<1>4. ASSUME NEW t \in Retries, RetryRead(t)
      PROVE  OtherStep
  <2>1. PICK r \in RetryRun : retry' = [retry EXCEPT ![t] = r]
    BY <1>4 DEF RetryRead
  <2>2. retry[t].pc = "idle"
    BY <1>4 DEF RetryRead
  <2>3. Looks
    BY <1>0, <1>4, <2>1, <2>2 DEF RetryRead, Looks
  <2>4. QED
    BY <2>3 DEF OtherStep
<1>5. ASSUME NEW t \in Retries, RetryWrite(t)
      PROVE  OtherStep
  <2>1. CASE UpdateDelivery("PENDING") /\ retry' = [retry EXCEPT ![t].pc = "done"]
    <3>1. "PENDING" \in DeliveryState
      BY DEF DeliveryState
    <3>2. delivery.state # "ACKED"
      BY <2>1, <1>0 DEF UpdateDelivery, CanDeliver, DeliveryTransitions
    <3>3. /\ delivery' \in Delivery /\ delivery'.state = "PENDING"
          /\ delivery'.event = delivery.event
      BY <2>1, <3>1, DeliveryIsSet DEF UpdateDelivery
    <3>4. retry' \in [Retries -> RetryRun] /\ retry'[t].pc = "done"
      BY <1>0, <2>1
    <3>5. PutsBack(t)
      BY <1>5, <3>2, <3>3, <3>4 DEF RetryWrite, PutsBack
    <3>6. QED
      BY <3>5 DEF OtherStep
  <2>2. CASE retry' = [retry EXCEPT ![t].pc = "error"] /\ UNCHANGED delivery
    <3>1. retry[t].pc = "write"
      BY <1>5 DEF RetryWrite
    <3>2. retry' \in [Retries -> RetryRun]
      BY <1>0, <2>2
    <3>3. \A u \in Retries : retry[u].pc = "done" => retry'[u].pc = "done"
      BY <1>0, <2>2, <3>1
    <3>4. Looks
      BY <1>0, <1>5, <2>2, <3>2, <3>3 DEF RetryWrite, Looks, storeVars
    <3>5. QED
      BY <3>4 DEF OtherStep
  <2>3. QED
    BY <1>5, <2>1, <2>2 DEF RetryWrite
<1>6. QED
  BY <1>2, <1>3, <1>4, <1>5

LEMMA StepKinds ==
  ASSUME OutboxTypeOK, DlvNext
  PROVE  (\E d \in Deliveries : RunStep(d)) \/ OtherStep
BY RunStepKinds, OtherStepKinds DEF DlvNext

(* The transition table at the states the outbox moves to.                 *)
LEMMA Tables ==
  ASSUME OutboxTypeOK
  PROVE  /\ CanDeliver("ACKED") => delivery.state \in {"SENT_UNCONFIRMED", "ACKED"}
         /\ CanDeliver("SENDING") => delivery.state \in {"CLAIMED", "SENDING"}
         /\ CanDeliver("SENT_UNCONFIRMED") =>
              delivery.state \in {"SENDING", "SENT_UNCONFIRMED"}
         /\ CanDeliver("RETRY_WAIT") =>
              delivery.state \in {"SENDING", "SENT_UNCONFIRMED", "RETRY_WAIT"}
<1>1. delivery.state \in DeliveryState
  BY DEF OutboxTypeOK, StoreTypeOK, Delivery
<1>2. QED
  BY <1>1 DEF CanDeliver, DeliveryTransitions, DeliveryState

-----------------------------------------------------------------------------
(* The invariants, one at a time.                                          *)

(* What every step of a run has in common.                                 *)
LEMMA RunStepFrame ==
  ASSUME NEW d \in Deliveries, RunStep(d)
  PROVE  /\ UNCHANGED Others
         /\ \A o \in Deliveries \ {d} : dlv'[o] = dlv[o]
         /\ dlv[d].pc # "idle" =>
              dlv'[d].cli = dlv[d].cli /\ dlv'[d].dup = dlv[d].dup
         /\ dlv[d].pc \notin {"done", "error"}
<1>1. UNCHANGED Others /\ \A o \in Deliveries \ {d} : dlv'[o] = dlv[o]
  BY DEF RunStep, Checked, Claims, GivesUp, Reads, Publishes, Sends, Records, Steps
<1>3. dlv[d].pc # "idle" => dlv'[d].cli = dlv[d].cli /\ dlv'[d].dup = dlv[d].dup
  BY DEF RunStep, Checked, Claims, GivesUp, Reads, Publishes, Sends, Records, Steps
<1>4. dlv[d].pc \notin {"done", "error"}
  BY DEF RunStep, Checked, Claims, GivesUp, FlightPc, Reads, Publishes, Sends, Records,
         Steps, DlvAt
<1>5. QED
  BY <1>1, <1>3, <1>4

LEMMA TypesStep ==
  ASSUME OutboxInv, (\E d \in Deliveries : RunStep(d)) \/ OtherStep
  PROVE  OutboxTypeOK'
<1>0. OutboxTypeOK /\ result.event \in Event
  BY DEF OutboxInv, OutboxTypeOK, StoreTypeOK, Result
<1>1. /\ dlv \in [Deliveries -> Run] /\ delivery \in Delivery
      /\ payload \in Event \cup {None} /\ received \subseteq Deliveries \X Event
  BY <1>0 DEF OutboxTypeOK, StoreTypeOK, DlvTypeOK, Run
<1>2. ASSUME NEW d \in Deliveries, RunStep(d)
      PROVE  OutboxTypeOK'
  <2>1. dlv[d].pc \in {"payload", "send"} => dlv[d].event = result.event
    BY DEF OutboxInv, Published
  <2>2. dlv' \in [Deliveries -> Run]
    BY <1>2 DEF RunStep, Checked, Claims, GivesUp, Reads, Publishes, Sends, Records, Steps
  <2>3. delivery' \in Delivery /\ delivery'.event = delivery.event
    BY <1>1, <1>2 DEF RunStep, Checked, Claims, GivesUp, Reads, Publishes, Sends, Records
  <2>4. UNCHANGED Others
    BY <1>2 DEF RunStep, Checked, Claims, GivesUp, Reads, Publishes, Sends, Records
  <2>5. payload' \in Event \cup {None} /\ received' \subseteq Deliveries \X Event
    <3>1. CASE Publishes(d)
      <4>1. dlv[d].event \in Event
        BY <1>0, <2>1, <3>1 DEF Publishes, Steps, DlvAt
      <4>2. QED
        BY <1>1, <3>1, <4>1 DEF Publishes
    <3>2. CASE Sends(d)
      <4>1. dlv[d].event \in Event
        BY <1>0, <2>1, <3>2 DEF Sends, Steps, DlvAt
      <4>2. QED
        BY <1>1, <3>2, <4>1 DEF Sends
    <3>3. CASE ~Publishes(d) /\ ~Sends(d)
      BY <1>1, <1>2, <3>3 DEF RunStep, Checked, Claims, GivesUp, Reads, Records
    <3>4. QED
      BY <3>1, <3>2, <3>3
  <2>6. QED
    BY <1>0, <2>2, <2>3, <2>4, <2>5
       DEF OutboxTypeOK, StoreTypeOK, DlvTypeOK, Run, Others
<1>3. CASE Acknowledges \/ Looks \/ \E t \in Retries : PutsBack(t)
  BY <1>0, <1>3
     DEF OutboxTypeOK, StoreTypeOK, DlvTypeOK, Acknowledges, Looks, PutsBack, storeVars
<1>4. QED
  BY <1>2, <1>3 DEF OtherStep

(* A retry that is done stays done, and so does a run of both kinds.       *)
LEMMA AllowedStays ==
  ASSUME OutboxInv, (\E d \in Deliveries : RunStep(d)) \/ OtherStep
  PROVE  /\ Retried => Retried'
         /\ Reopened => Reopened'
         /\ (\E t \in Retries : PutsBack(t)) => Retried'
<1>1. Retried => Retried'
  BY DEF Retried, RunStep, Checked, Claims, GivesUp, Reads, Publishes, Sends, Records,
         Others, OtherStep, Acknowledges, Looks, PutsBack
<1>2. Reopened => Reopened'
  <2>1. ASSUME NEW d \in Deliveries, RunStep(d), Reopened
        PROVE  Reopened'
    <3>1. PICK o \in Deliveries : dlv[o].dup /\ dlv[o].cli /\ dlv[o].pc = "done"
      BY <2>1 DEF Reopened
    <3>2. dlv'[o] = dlv[o]
      BY <2>1, <3>1, RunStepFrame
    <3>3. QED
      BY <3>1, <3>2 DEF Reopened
  <2>2. CASE OtherStep
    BY <2>2 DEF Reopened, OtherStep, Acknowledges, Looks, PutsBack
  <2>3. QED
    BY <2>1, <2>2
<1>3. (\E t \in Retries : PutsBack(t)) => Retried'
  BY DEF Retried, PutsBack
<1>4. QED
  BY <1>1, <1>2, <1>3

LEMMA PlacesStep ==
  ASSUME OutboxInv, (\E d \in Deliveries : RunStep(d)) \/ OtherStep
  PROVE  CliPlaces' /\ Delivered'
<1>0. CliPlaces /\ Delivered /\ received \subseteq Deliveries \X Event
  BY DEF OutboxInv, OutboxTypeOK, DlvTypeOK
<1>1. CASE OtherStep
  BY <1>0, <1>1 DEF CliPlaces, Delivered, OtherStep, Acknowledges, Looks, PutsBack
<1>2. ASSUME NEW d \in Deliveries, RunStep(d)
      PROVE  CliPlaces' /\ Delivered'
  <2>1. \A o \in Deliveries \ {d} : dlv'[o] = dlv[o]
    BY <1>2 DEF RunStep, Checked, Claims, GivesUp, Reads, Publishes, Sends, Records, Steps
  <2>2. dlv'[d].pc \in {"send", "failed"} => dlv'[d].cli
    BY <1>0, <1>2 DEF CliPlaces, RunStep, Checked, Claims, GivesUp, Reads, Publishes, Sends,
                      Records, Steps, DlvAt
  <2>3. dlv[d].pc \in DeliveredPc => dlv'[d].pc \in DeliveredPc
    BY <1>2 DEF DeliveredPc, RunStep, Checked, Claims, GivesUp, Reads, Publishes, Sends,
                Records, Steps, DlvAt
  <2>4. \A m \in received' : m \in received \/ (m[1] = d /\ dlv'[d].pc \in DeliveredPc)
    <3>1. CASE Publishes(d) \/ Sends(d)
      BY <3>1 DEF DeliveredPc, Publishes, Sends, Steps
    <3>2. CASE ~(Publishes(d) \/ Sends(d))
      BY <1>2, <3>2 DEF RunStep, Checked, Claims, GivesUp, Reads, Records
    <3>3. QED
      BY <3>1, <3>2
  <2>5. \A m \in received : m[1] \in Deliveries
    BY <1>0
  <2>6. QED
    BY <1>0, <2>1, <2>2, <2>3, <2>4, <2>5 DEF CliPlaces, Delivered
<1>3. QED
  BY <1>1, <1>2

LEMMA PublishedStep ==
  ASSUME OutboxInv, (\E d \in Deliveries : RunStep(d)) \/ OtherStep
  PROVE  Published'
<1>0. Published /\ OutboxTypeOK
  BY DEF OutboxInv
<1>1. CASE OtherStep
  BY <1>0, <1>1, Tables DEF Published, OtherStep, Acknowledges, Looks, PutsBack, storeVars
<1>2. ASSUME NEW d \in Deliveries, RunStep(d)
      PROVE  Published'
  <2>1. UNCHANGED Others /\ \A o \in Deliveries \ {d} : dlv'[o] = dlv[o]
    BY <1>2, RunStepFrame
  <2> DEFINE Good ==
        /\ payload' = payload \/ payload' = result.event
        /\ dlv'[d].pc \in {"payload", "send", "sent", "failed"} =>
             dlv'[d].event = result.event
        /\ dlv'[d].pc \in {"send", "sent", "failed"} => payload' = result.event
        /\ delivery'.state \in {"SENT_UNCONFIRMED", "ACKED"} => payload' = result.event
  <2>2. /\ dlv[d].pc \in {"payload", "send", "sent", "failed"} =>
             dlv[d].event = result.event
        /\ dlv[d].pc \in {"send", "sent", "failed"} => payload = result.event
        /\ delivery.state \in {"SENT_UNCONFIRMED", "ACKED"} => payload = result.event
    BY <1>0 DEF Published
  <2>3. Checked(d) => Good
    BY <2>2 DEF Checked
  <2>4. Claims(d) => Good
    BY <2>2 DEF Claims, Steps
  <2>5. GivesUp(d) \/ Reads(d) => Good
    BY <2>2 DEF GivesUp, Reads, Steps
  <2>6. Publishes(d) => Good
    BY <2>2 DEF Publishes, Steps, DlvAt
  <2>7. Sends(d) => Good
    BY <2>2 DEF Sends, Steps, DlvAt
  <2>8. Records(d, "sending", "SENDING", "read") => Good
    BY <2>2 DEF Records, Steps, DlvAt
  <2>9. Records(d, "sent", "SENT_UNCONFIRMED", "done") => Good
    BY <2>2 DEF Records, Steps, DlvAt
  <2>10. Records(d, "failed", "RETRY_WAIT", "done") => Good
    BY <2>2 DEF Records, Steps, DlvAt
  <2> HIDE DEF Good
  <2>11. Good
    BY <1>2, <2>3, <2>4, <2>5, <2>6, <2>7, <2>8, <2>9, <2>10 DEF RunStep
  <2>12. QED
    BY <1>0, <2>1, <2>11 DEF Published, Others, Good
<1>3. QED
  BY <1>1, <1>2

(* A run step leaves the other runs where they are, in flight or not.      *)
LEMMA OthersFly ==
  ASSUME NEW d \in Deliveries, RunStep(d)
  PROVE  /\ \A o \in Deliveries \ {d} : InFlight(o)' <=> InFlight(o)
         /\ InFlight(d) => dlv[d].pc # "claim"
<1>1. QED
  BY RunStepFrame DEF InFlight, Others

LEMMA AloneStep ==
  ASSUME OutboxInv, (\E d \in Deliveries : RunStep(d)) \/ OtherStep
  PROVE  Claimed' /\ Alone'
<1> SUFFICES ASSUME ~Retried'
             PROVE  Claimed' /\ Alone'
  BY DEF Claimed, Alone
<1>0. ~Retried /\ OutboxTypeOK /\ ~(\E t \in Retries : PutsBack(t))
  BY AllowedStays DEF OutboxInv
<1>1. /\ \A o \in Deliveries : InFlight(o) =>
           delivery.state = IF dlv[o].pc = "sending" THEN "CLAIMED" ELSE "SENDING"
      /\ \A o1, o2 \in Deliveries : InFlight(o1) /\ InFlight(o2) => o1 = o2
  BY <1>0 DEF OutboxInv, Claimed, Alone
<1>2. delivery.state \notin {"CLAIMED", "SENDING"} => \A o \in Deliveries : ~InFlight(o)
  BY <1>1
<1>3. ASSUME NEW d \in Deliveries, RunStep(d)
      PROVE  Claimed' /\ Alone'
  <2>0. \A o \in Deliveries \ {d} : (InFlight(o)' <=> InFlight(o)) /\ dlv'[o] = dlv[o]
    BY <1>3, OthersFly, RunStepFrame
  <2> DEFINE Mine == delivery'.state = IF dlv'[d].pc = "sending" THEN "CLAIMED" ELSE "SENDING"
  <2>1. CASE Claims(d)
    <3>1. \A o \in Deliveries : ~InFlight(o)
      BY <1>2, <2>1 DEF Claims, Claimable
    <3>2. Mine
      BY <2>1 DEF Claims, Steps
    <3>3. QED
      BY <2>0, <3>1, <3>2 DEF Claimed, Alone
  <2>2. CASE Checked(d) \/ GivesUp(d)
    <3>1. ~InFlight(d)' /\ UNCHANGED delivery
      BY <2>2 DEF Checked, GivesUp, Steps, InFlight
    <3>2. QED
      BY <1>1, <2>0, <3>1 DEF Claimed, Alone
  <2>3. CASE InFlight(d) /\ (InFlight(d)' => Mine)
    <3>1. \A o \in Deliveries \ {d} : ~InFlight(o)'
      BY <1>1, <2>0, <2>3
    <3>2. QED
      BY <2>3, <3>1 DEF Claimed, Alone
  <2>4. ASSUME Reads(d) \/ Publishes(d) \/ Sends(d)
        PROVE  InFlight(d) /\ (InFlight(d)' => Mine)
    <3>1. /\ InFlight(d) /\ dlv[d].pc # "sending" /\ dlv'[d].pc # "sending"
          /\ UNCHANGED delivery
      BY <2>4 DEF Reads, Publishes, Sends, Steps, DlvAt, InFlight
    <3>2. delivery.state = "SENDING"
      BY <1>1, <3>1
    <3>3. QED
      BY <3>1, <3>2
  <2>5. ASSUME NEW from \in {"sending", "sent", "failed"}, NEW state, NEW to,
               Records(d, from, state, to),
               <<state, to>> = <<"SENDING", "read">> \/ to = "done"
        PROVE  InFlight(d) /\ (InFlight(d)' => Mine)
    BY <2>5 DEF Records, Steps, DlvAt, InFlight
  <2>6. (InFlight(d) /\ (InFlight(d)' => Mine)) \/ Claims(d) \/ Checked(d) \/ GivesUp(d)
    BY <1>3, <2>4, <2>5 DEF RunStep
  <2>7. QED
    BY <2>1, <2>2, <2>3, <2>6
<1>4. CASE Acknowledges
  <2>1. \A o \in Deliveries : ~InFlight(o)
    BY <1>0, <1>2, <1>4, Tables DEF Acknowledges
  <2>2. \A o \in Deliveries : ~InFlight(o)'
    BY <1>4, <2>1 DEF Acknowledges, InFlight
  <2>3. QED
    BY <2>2 DEF Claimed, Alone
<1>5. CASE Looks
  BY <1>1, <1>5 DEF Claimed, Alone, Looks, InFlight, storeVars
<1>7. QED
  BY <1>0, <1>3, <1>4, <1>5 DEF OtherStep

(* Under no permission the outcome of a run is recorded over SENDING.      *)
LEMMA OnceStep ==
  ASSUME OutboxInv, (\E d \in Deliveries : RunStep(d)) \/ OtherStep
  PROVE  OnceUnlessAsked'
<1> DEFINE Late == {"CLAIMED", "SENDING", "SENT_UNCONFIRMED", "ACKED"}
<1> SUFFICES ASSUME ~Retried', ~Reopened', NEW m \in received', Plain(m[1])'
             PROVE  /\ delivery'.state \in Late
                    /\ \A o \in Deliveries \ {m[1]} : InFlight(o)' => dlv'[o].dup
                    /\ \A n \in received' : Plain(n[1])' => n[1] = m[1]
  BY DEF OnceUnlessAsked
<1>0. /\ ~Retried /\ ~Reopened /\ OutboxTypeOK /\ CliPlaces /\ Delivered
      /\ ~(\E t \in Retries : PutsBack(t))
      /\ received \subseteq Deliveries \X Event
  BY AllowedStays DEF OutboxInv, OutboxTypeOK, DlvTypeOK
<1>1. /\ \A o \in Deliveries : InFlight(o) =>
           delivery.state = IF dlv[o].pc = "sending" THEN "CLAIMED" ELSE "SENDING"
      /\ \A o1, o2 \in Deliveries : InFlight(o1) /\ InFlight(o2) => o1 = o2
  BY <1>0 DEF OutboxInv, Claimed, Alone
<1>2. \A n \in received : Plain(n[1]) =>
        /\ delivery.state \in Late
        /\ \A o \in Deliveries \ {n[1]} : InFlight(o) => dlv[o].dup
        /\ \A k \in received : Plain(k[1]) => k[1] = n[1]
  BY <1>0 DEF OutboxInv, OnceUnlessAsked
<1>3. \A n \in received : n[1] \in Deliveries /\ dlv[n[1]].pc \in DeliveredPc
  BY <1>0 DEF Delivered
<1>4. ASSUME NEW d \in Deliveries, RunStep(d)
      PROVE  /\ delivery'.state \in Late
             /\ \A o \in Deliveries \ {m[1]} : InFlight(o)' => dlv'[o].dup
             /\ \A n \in received' : Plain(n[1])' => n[1] = m[1]
  <2>0. /\ \A o \in Deliveries \ {d} : (InFlight(o)' <=> InFlight(o)) /\ dlv'[o] = dlv[o]
        /\ dlv[d].pc # "idle" => dlv'[d].cli = dlv[d].cli /\ dlv'[d].dup = dlv[d].dup
    BY <1>4, OthersFly, RunStepFrame
  <2>1. \A n \in received : Plain(n[1])' <=> Plain(n[1])
    BY <1>3, <2>0 DEF Plain, DeliveredPc
  <2>2. CASE received' = received
    <3>1. m \in received /\ Plain(m[1])
      BY <2>1, <2>2
    <3>2. /\ delivery.state \in Late
          /\ \A o \in Deliveries \ {m[1]} : InFlight(o) => dlv[o].dup
          /\ \A n \in received : Plain(n[1]) => n[1] = m[1]
      BY <1>2, <3>1
    <3>3. \A n \in received' : Plain(n[1])' => n[1] = m[1]
      BY <2>1, <2>2, <3>2
    <3>4. \A o \in Deliveries \ {m[1]} : InFlight(o)' => dlv'[o].dup
      <4>1. CASE Claims(d)
        <5>1. dlv[d].dup
          BY <3>2, <4>1 DEF Claims, Claimable
        <5>2. QED
          BY <2>0, <3>2, <4>1, <5>1 DEF Claims, Steps, DlvAt
      <4>2. CASE Checked(d) \/ GivesUp(d)
        <5>1. ~InFlight(d)'
          BY <4>2 DEF Checked, GivesUp, Steps, InFlight
        <5>2. QED
          BY <2>0, <3>2, <5>1
      <4>3. CASE InFlight(d)
        <5>1. dlv[d].pc # "idle"
          BY <4>3 DEF InFlight
        <5>2. QED
          BY <2>0, <3>2, <4>3, <5>1
      <4>4. Claims(d) \/ Checked(d) \/ GivesUp(d) \/ InFlight(d)
        BY <1>4 DEF RunStep, Reads, Publishes, Sends, Records, Steps, DlvAt, InFlight
      <4>5. QED
        BY <4>1, <4>2, <4>3, <4>4
    <3>5. delivery'.state \in Late
      <4>1. CASE Records(d, "failed", "RETRY_WAIT", "done")
        <5>1. /\ dlv[d].pc = "failed" /\ InFlight(d)
              /\ dlv'[d].pc = "done" /\ dlv'[d].dup = dlv[d].dup /\ dlv'[d].cli = dlv[d].cli
          BY <4>1 DEF Records, Steps, DlvAt, InFlight
        <5>2. dlv[d].cli
          BY <1>0, <5>1 DEF CliPlaces
        <5>3. ~dlv[d].dup
          BY <5>1, <5>2 DEF Reopened
        <5>4. m[1] = d
          BY <3>2, <5>1, <5>3
        <5>5. QED
          BY <3>1, <5>2, <5>4 DEF Plain
      <4>2. CASE ~Records(d, "failed", "RETRY_WAIT", "done")
        BY <1>4, <3>2, <4>2
           DEF RunStep, Checked, Claims, GivesUp, Reads, Publishes, Sends, Records
      <4>3. QED
        BY <4>1, <4>2
    <3>6. QED
      BY <3>3, <3>4, <3>5
  <2>3. CASE received' # received
    <3>0. Publishes(d) \/ Sends(d)
      BY <1>4, <2>3 DEF RunStep, Checked, Claims, GivesUp, Reads, Records
    <3>1. /\ InFlight(d) /\ dlv[d].pc \in {"payload", "send"}
          /\ UNCHANGED delivery
          /\ \A n \in received' : n \in received \/ n[1] = d
      BY <3>0 DEF Publishes, Sends, Steps, DlvAt, InFlight
    <3>2. \A o \in Deliveries \ {d} : ~InFlight(o)
      BY <1>1, <3>1
    <3>3. \A o \in Deliveries \ {d} : ~InFlight(o)'
      BY <2>0, <3>2
    <3>4. delivery'.state \in Late
      BY <1>1, <3>1
    <3>5. CASE Plain(d)
      <4>1. \A n \in received : Plain(n[1]) => n[1] = d
        BY <1>2, <1>3, <3>1, <3>5 DEF Plain
      <4>2. \A n \in received' : Plain(n[1])' => n[1] = d
        BY <2>1, <3>1, <4>1
      <4>3. m[1] = d
        BY <4>2
      <4>4. QED
        BY <3>3, <3>4, <4>2, <4>3
    <3>6. CASE ~Plain(d)
      <4>1. ~Plain(d)'
        BY <2>0, <3>1, <3>6 DEF Plain
      <4>2. \A n \in received' : Plain(n[1])' => n \in received /\ Plain(n[1])
        BY <2>1, <3>1, <4>1
      <4>3. /\ \A n \in received' : Plain(n[1])' => n[1] = m[1]
            /\ \A o \in Deliveries \ {m[1]} : InFlight(o) => dlv[o].dup
        BY <1>2, <4>2
      <4>4. dlv'[d].dup = dlv[d].dup
        BY <2>0, <3>1
      <4>5. QED
        BY <3>1, <3>3, <3>4, <4>3, <4>4
    <3>7. QED
      BY <3>5, <3>6
  <2>4. QED
    BY <2>2, <2>3
<1>5. CASE OtherStep
  <2>1. UNCHANGED <<dlv, received>> /\ \A o \in Deliveries : InFlight(o)' => InFlight(o)
    BY <1>0, <1>5 DEF OtherStep, Acknowledges, Looks, InFlight, dlvVars, storeVars
  <2>2. delivery' = delivery \/ delivery'.state = "ACKED"
    BY <1>0, <1>5 DEF OtherStep, Acknowledges, Looks, storeVars
  <2>3. \A n \in received' : Plain(n[1])' => n \in received /\ Plain(n[1])
    BY <2>1 DEF Plain
  <2>4. QED
    BY <1>2, <2>1, <2>2, <2>3
<1>6. QED
  BY <1>4, <1>5

-----------------------------------------------------------------------------
LEMMA OutboxInvStep == OutboxInv /\ [DlvNext]_outboxVars => OutboxInv'
<1> SUFFICES ASSUME OutboxInv, [DlvNext]_outboxVars
             PROVE  OutboxInv'
  OBVIOUS
<1>1. CASE DlvNext
  <2>1. (\E d \in Deliveries : RunStep(d)) \/ OtherStep
    BY <1>1, StepKinds DEF OutboxInv
  <2>2. QED
    BY <2>1, TypesStep, PlacesStep, PublishedStep, AloneStep, OnceStep DEF OutboxInv
<1>2. CASE UNCHANGED outboxVars
  <2>1. OutboxTypeOK' /\ CliPlaces' /\ Delivered' /\ Published'
    BY <1>2 DEF OutboxInv, OutboxTypeOK, StoreTypeOK, DlvTypeOK, CliPlaces, Delivered,
                Published, outboxVars, storeVars, dlvVars
  <2>2. Claimed' /\ Alone' /\ OnceUnlessAsked'
    BY <1>2 DEF OutboxInv, Claimed, Alone, OnceUnlessAsked, Retried, Reopened, Plain,
                InFlight, outboxVars, storeVars, dlvVars
  <2>3. QED
    BY <2>1, <2>2 DEF OutboxInv
<1>3. QED
  BY <1>1, <1>2

LEMMA OutboxInvInit == OutboxInit => OutboxInv
<1> SUFFICES ASSUME OutboxInit
             PROVE  OutboxInv
  OBVIOUS
<1>1. PICK s \in Supervisors :
        /\ result = [event |-> s, state |-> "COMPLETED", result_state |-> "SUCCESS",
                     exit |-> "zero", process |-> s]
        /\ meta = [state |-> "COMPLETED", result_state |-> "SUCCESS", exit |-> "zero",
                   supervisor |-> s, process |-> s, cancel |-> FALSE]
        /\ delivery = [state |-> "PENDING", event |-> s]
  BY DEF OutboxInit
<1>2. result \in Result /\ result # None /\ delivery.event = result.event
  BY <1>1, NoneIsNoContent DEF Result, Event, TerminalState, ResultState, ExitStatus
<1>3. meta \in Metadata /\ delivery \in Delivery
  BY <1>1 DEF Metadata, ExecutionState, TerminalState, ResultState, ExitStatus,
              Delivery, DeliveryState, Event
<1>4. OutboxTypeOK
  BY <1>2, <1>3
     DEF OutboxInit, DlvInit, OutboxTypeOK, StoreTypeOK, DlvTypeOK, DlvPc
<1>5. \A d \in Deliveries : dlv[d].pc = "idle"
  BY DEF OutboxInit, DlvInit
<1>6. Claimed /\ Alone
  BY <1>5 DEF Claimed, Alone, InFlight
<1>7. CliPlaces /\ Delivered /\ OnceUnlessAsked /\ Published
  BY <1>1, <1>5 DEF CliPlaces, Delivered, OnceUnlessAsked, Published, OutboxInit, DlvInit
<1>8. QED
  BY <1>4, <1>6, <1>7 DEF OutboxInv

THEOREM OutboxInvariant == OutboxSpec => []OutboxInv
BY OutboxInvInit, OutboxInvStep, PTL DEF OutboxSpec

(* controller.py:_prepare_delivery: the claim under the lock admits one    *)
(* run at a time for as long as nobody runs `retry`.                       *)
THEOREM OneInFlight == OutboxSpec => []OneInFlightUnlessRetried
<1>1. OutboxInv => OneInFlightUnlessRetried
  BY DEF OutboxInv, Alone, Retried, OneInFlightUnlessRetried
<1>2. QED
  BY <1>1, OutboxInvariant, PTL

(* controller.py:deliver_once and resume: the receiver gets an event twice *)
(* only when one of the runs allowed it, or the CLI left it open, or an    *)
(* operator retried.                                                       *)
THEOREM NoDuplicateUnlessAsked == OutboxSpec => []NoUnaskedDuplicate
<1>1. ASSUME OutboxInv
      PROVE  NoUnaskedDuplicate
  <2>1. SUFFICES ASSUME NEW m1 \in received, NEW m2 \in received,
                        m1 # m2, m1[2] = m2[2],
                        ~Retried, ~Reopened, Plain(m1[1]), Plain(m2[1])
                 PROVE  FALSE
    BY DEF NoUnaskedDuplicate, Retried, Reopened, Plain
  <2>2. m1 \in Deliveries \X Event /\ m2 \in Deliveries \X Event
    BY <1>1 DEF OutboxInv, OutboxTypeOK, DlvTypeOK
  <2>3. m1[1] = m2[1]
    BY <1>1, <2>1 DEF OutboxInv, OnceUnlessAsked
  <2>4. QED
    BY <2>1, <2>2, <2>3
<1>2. QED
  BY <1>1, OutboxInvariant, PTL

(* controller.py:_event_payload: what the outbox of a finished job records *)
(* as sent or acknowledged is the event its payload file announces.        *)
THEOREM SentIsPublished == OutboxSpec => []UnconfirmedIsPublished
<1>1. OutboxInv => UnconfirmedIsPublished
  BY DEF OutboxInv, OutboxTypeOK, Published, UnconfirmedIsPublished
<1>2. QED
  BY <1>1, OutboxInvariant, PTL

(* store.py:DELIVERY_TRANSITIONS with every caller of update_delivery and  *)
(* claim_delivery: no step of the outbox leaves or rewrites ACKED.         *)
THEOREM AcknowledgementIsFinal == OutboxSpec => AckedIsFinal
<1>1. ASSUME OutboxInv, [DlvNext]_outboxVars, delivery.state = "ACKED"
      PROVE  UNCHANGED delivery
  <2>1. OutboxTypeOK /\ delivery \in Delivery
    BY <1>1 DEF OutboxInv, OutboxTypeOK, StoreTypeOK
  <2>2. ASSUME NEW d \in Deliveries, RunStep(d)
        PROVE  UNCHANGED delivery
    <3>1. delivery.state \notin Claimable(dlv[d].dup)
      BY <1>1 DEF Claimable
    <3>2. /\ ~CanDeliver("SENDING") /\ ~CanDeliver("SENT_UNCONFIRMED")
          /\ ~CanDeliver("RETRY_WAIT")
      BY <1>1, <2>1, Tables
    <3>3. QED
      BY <2>2, <3>1, <3>2
         DEF RunStep, Checked, Claims, GivesUp, Reads, Publishes, Sends, Records
  <2>3. CASE Acknowledges
    <3>1. delivery' \in Delivery /\ delivery'.state = delivery.state
          /\ delivery'.event = delivery.event
      BY <1>1, <2>3 DEF Acknowledges
    <3>2. QED
      BY <2>1, <3>1 DEF Delivery
  <2>4. CASE Looks \/ (\E t \in Retries : PutsBack(t))
    BY <1>1, <2>4 DEF Looks, PutsBack, storeVars
  <2>5. CASE UNCHANGED outboxVars
    BY <2>5 DEF outboxVars, storeVars
  <2>6. QED
    BY <1>1, <2>1, <2>2, <2>3, <2>4, <2>5, StepKinds DEF OtherStep
<1>2. OutboxInv /\ [DlvNext]_outboxVars =>
        [delivery.state = "ACKED" => UNCHANGED delivery]_<<storeVars, dlvVars>>
  BY <1>1
<1>3. QED
  BY <1>2, OutboxInvariant, PTL DEF OutboxSpec, AckedIsFinal
=============================================================================
