-------------------------- MODULE InterventionDelivery --------------------------
(***************************************************************************)
(* Deliveries of an episode's interventions (interventions.py, with the    *)
(* payload rules of aml_target_protocol): an action of the attacker is     *)
(* prepared for a declared surface, delivered by the target or by Blue in  *)
(* a tool's answer, and ends in one receipt.  Operators over a record      *)
(* [active, records]; a receipt is [id, status, evidence].                 *)
(***************************************************************************)
EXTENDS Integers, FiniteSets, Sequences

CONSTANTS
  Surfaces,      \* the declared surfaces: channel -> set of slots
  ReceiptLimit   \* 1000 in the code

NoAttempt == [id |-> 0, channel |-> "none", slot |-> {}, matches |-> 0]

NoDelivery == [active |-> NoAttempt, records |-> <<>>]

\* at most one delivery is active and each ends in one record: the next id is not in use
NextId(delivery) == Len(delivery.records) + 1

Ids(delivery) == {delivery.records[i].id : i \in DOMAIN delivery.records}

Received(delivery, id) == id \in Ids(delivery)

\* Variant: a later receipt replaces nothing but is recorded too
RecordAgain(delivery, id, status, evidence) ==
  [delivery EXCEPT !.records = Append(@, [id |-> id, status |-> status, evidence |-> evidence])]

\* _record: the first receipt of an attempt stands
Record(delivery, id, status, evidence) ==
  IF Received(delivery, id) THEN delivery
  ELSE [delivery EXCEPT !.records =
          Append(@, [id |-> id, status |-> status, evidence |-> evidence])]

\* An action is [channel, valid, slot]: what validate_payload and the surface's slots say of it.
PrepareError(delivery) == delivery.active # NoAttempt \/ Len(delivery.records) >= ReceiptLimit

\* the receipt of an action that is not delivered at all, "none" if it is
RefusedAs(action) ==
  CASE ~action.envelope -> "malformed_action"
    [] action.envelope /\ action.channel \notin DOMAIN Surfaces -> "unsupported_surface"
    [] action.envelope /\ action.channel \in DOMAIN Surfaces /\ ~action.payload -> "malformed_action"
    [] action.envelope /\ action.channel \in DOMAIN Surfaces /\ action.payload
         /\ action.channel # "user_message"
         /\ ~ \E s \in Surfaces[action.channel] : s.name = action.slot -> "unavailable_slot"
    [] OTHER -> "none"

SlotOf(action) ==
  IF action.channel = "user_message" THEN {}
  ELSE {s \in Surfaces[action.channel] : s.name = action.slot}

Prepare(delivery, action) ==
  IF RefusedAs(action) # "none"
  THEN Record(delivery, NextId(delivery), RefusedAs(action), "none")
  ELSE [delivery EXCEPT !.active = [id |-> NextId(delivery), channel |-> action.channel,
                                    slot |-> SlotOf(action), matches |-> 0]]

\* the tool's answer is the declared slot of the active delivery, counted by Overlay
InSlot(delivery, e, id) ==
  /\ delivery.active # NoAttempt
  /\ ~Received(delivery, delivery.active.id)
  /\ delivery.active.id = id
  /\ delivery.active.channel = "simulated_tool_result"
  /\ \E s \in delivery.active.slot : e \in s.effects

Counted(delivery) == [delivery EXCEPT !.active.matches = @ + 1]

\* this is the declared occurrence of it, it succeeded and has text to replace
Replaces(delivery, e, id, success, text) ==
  /\ InSlot(delivery, e, id)
  /\ \E s \in delivery.active.slot : s.occurrence = delivery.active.matches + 1
  /\ success /\ text

Overlay(delivery, e, id, success, text) ==
  IF Replaces(delivery, e, id, success, text)
  THEN Record(Counted(delivery), id, "applied", "gateway_tool_response")
  ELSE IF InSlot(delivery, e, id) THEN Counted(delivery) ELSE delivery

\* finish: a receipt unless there is one, and the attempt is active no longer
Finish(delivery, id, status, evidence) ==
  [Record(delivery, id, status, evidence) EXCEPT
     !.active = IF @.id = id THEN NoAttempt ELSE @]

\* the target answered: its acknowledgement counts, except for what Blue delivers itself
FinishAnswered(delivery, acknowledged) ==
  LET id == delivery.active.id
  IN CASE delivery.active.channel = "simulated_tool_result" ->
            Finish(delivery, id, "unavailable_slot", "none")
       [] delivery.active.channel # "simulated_tool_result" /\ acknowledged ->
            Finish(delivery, id, "applied", "target_acknowledgement")
       [] OTHER -> Finish(delivery, id, "delivery_unknown", "unconfirmed")

ReceiptOf(delivery, id) ==
  delivery.records[CHOOSE i \in DOMAIN delivery.records : delivery.records[i].id = id]
================================================================================
