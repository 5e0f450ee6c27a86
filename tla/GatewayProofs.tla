---------------------------- MODULE GatewayProofs ----------------------------
(* Theorems about one episode of the Blue gateway, for any targets, correlation *)
(* ids, policies, routes and bounds; the one about the verifier also for any    *)
(* world that starts in none of the scenario's forbidden states.                *)
EXTENDS BlueGateway, SequenceTheorems, FiniteSetTheorems, WellFoundedInduction, TLAPS

(***************************************************************************)
(* Deliveries.  Receipts are numbered in their order, and the active       *)
(* delivery has the number of the last receipt, if it has its own already, *)
(* or the next one.                                                        *)
(***************************************************************************)
Status == {"applied", "malformed_action", "unsupported_surface", "unavailable_slot",
           "target_rejected", "delivery_unknown"}

Evidence == {"none", "gateway_tool_response", "target_acknowledgement", "unconfirmed"}

Receipt == [id : Nat, status : Status, evidence : Evidence]

DeliveryShape(d) ==
  /\ d = [active |-> d.active, records |-> d.records]
  /\ d.active = [id |-> d.active.id, channel |-> d.active.channel,
                 slot |-> d.active.slot, matches |-> d.active.matches]
  /\ d.records \in Seq(Receipt)

Numbered(d) ==
  /\ DeliveryShape(d)
  /\ \A i \in DOMAIN d.records : d.records[i].id = i
  /\ d.active # NoAttempt => d.active.id \in {Len(d.records), Len(d.records) + 1} \ {0}

Replaced(r) == r.evidence = "gateway_tool_response"

\* The deliveries whose receipt says that Blue put their content into an answer.
ByBlue(d) == {d.records[i].id : i \in {n \in DOMAIN d.records : Replaced(d.records[n])}}

LEMMA NotReceived ==
  ASSUME NEW d, Numbered(d), NEW id \in Nat
  PROVE  /\ Received(d, id) <=> id \in 1..Len(d.records)
         /\ Len(d.records) \in Nat /\ DOMAIN d.records = 1..Len(d.records)
         /\ \A n \in ByBlue(d) : n \in 1..Len(d.records)
BY DEF Numbered, DeliveryShape, Received, Ids, ByBlue

\* A receipt of the next number.
LEMMA RecordNext ==
  ASSUME NEW d, Numbered(d), NEW status \in Status, NEW evidence \in Evidence, NEW id,
         id = Len(d.records) + 1, d.active # NoAttempt => d.active.id = id
  PROVE  LET new == Record(d, id, status, evidence)
         IN /\ Numbered(new) /\ new.active = d.active
            /\ evidence = "gateway_tool_response" => ByBlue(new) = ByBlue(d) \cup {id}
            /\ evidence # "gateway_tool_response" => ByBlue(new) = ByBlue(d)
<1> SUFFICES ASSUME NEW new, new = Record(d, id, status, evidence)
             PROVE  /\ Numbered(new) /\ new.active = d.active
                    /\ evidence = "gateway_tool_response" => ByBlue(new) = ByBlue(d) \cup {id}
                    /\ evidence # "gateway_tool_response" => ByBlue(new) = ByBlue(d)
  OBVIOUS
<1> DEFINE r == [id |-> id, status |-> status, evidence |-> evidence]
<1>1. Len(d.records) \in Nat /\ id \in Nat /\ ~ Received(d, id) /\ d.records \in Seq(Receipt)
      /\ DOMAIN d.records = 1..Len(d.records)
  BY NotReceived DEF Numbered, DeliveryShape
<1>2. new = [active |-> d.active, records |-> Append(d.records, r)]
  BY <1>1 DEF Record, Numbered, DeliveryShape
<1>3. r \in Receipt
  BY <1>1 DEF Receipt
<1>4. /\ new.active = d.active /\ new.records = Append(d.records, r)
      /\ new.records \in Seq(Receipt) /\ Len(new.records) = id
      /\ DOMAIN new.records = 1..id /\ new.records[id] = r
      /\ \A i \in 1..Len(d.records) : new.records[i] = d.records[i]
  <2> HIDE DEF r
  <2> QED
    BY <1>1, <1>2, <1>3
<1>5. Numbered(new)
  <2>1. ASSUME NEW i \in 1..id PROVE new.records[i].id = i
    <3>1. CASE i = id
      BY <1>4, <3>1
    <3>2. CASE i # id
      <4>1. i \in 1..Len(d.records)
        BY <1>1, <3>2
      <4> QED
        BY <1>1, <1>4, <4>1 DEF Numbered
    <3> QED
      BY <3>1, <3>2
  <2>2. DeliveryShape(new)
    <3> HIDE DEF r
    <3> QED
      BY <1>2, <1>4 DEF Numbered, DeliveryShape
  <2>3. new.active # NoAttempt => new.active.id \in {Len(new.records), Len(new.records) + 1} \ {0}
    BY <1>1, <1>4
  <2> QED
    BY <1>4, <2>1, <2>2, <2>3 DEF Numbered
<1>6. ASSUME NEW n PROVE n \in ByBlue(new) <=> n \in ByBlue(d) \/ (n = id /\ evidence = "gateway_tool_response")
  <2>1. n \in ByBlue(new) <=> n \in 1..id /\ Replaced(new.records[n])
    BY <1>4, <1>5 DEF ByBlue, Numbered
  <2>2. n \in ByBlue(d) <=> n \in 1..Len(d.records) /\ Replaced(d.records[n])
    BY <1>1 DEF ByBlue, Numbered
  <2>3. Replaced(new.records[id]) <=> evidence = "gateway_tool_response"
    BY <1>4 DEF Replaced
  <2> QED
    BY <1>1, <1>4, <2>1, <2>2, <2>3
<1> QED
  BY <1>4, <1>5, <1>6

LEMMA OverlayCounts ==
  ASSUME NEW d, Numbered(d), NEW e, NEW id, NEW success, NEW text
  PROVE  LET new == Overlay(d, e, id, success, text)
         IN /\ Numbered(new)
            /\ new.active # NoAttempt <=> d.active # NoAttempt
            /\ Replaces(d, e, id, success, text) => ByBlue(new) = ByBlue(d) \cup {d.active.id}
            /\ ~Replaces(d, e, id, success, text) => ByBlue(new) = ByBlue(d)
<1> SUFFICES ASSUME NEW new, new = Overlay(d, e, id, success, text)
             PROVE  /\ Numbered(new)
                    /\ new.active # NoAttempt <=> d.active # NoAttempt
                    /\ Replaces(d, e, id, success, text) => ByBlue(new) = ByBlue(d) \cup {d.active.id}
                    /\ ~Replaces(d, e, id, success, text) => ByBlue(new) = ByBlue(d)
  OBVIOUS
<1>1. CASE ~ InSlot(d, e, id)
  BY <1>1 DEF Overlay, Replaces
<1>2. CASE InSlot(d, e, id)
  <2>1. /\ d.active # NoAttempt /\ d.active.id = id /\ ~ Received(d, id) /\ id \in Nat \ {0}
        /\ Len(d.records) \in Nat
    BY <1>2 DEF InSlot, Numbered, DeliveryShape
  <2>2. id = Len(d.records) + 1
    BY <2>1, NotReceived DEF Numbered
  <2>3. PICK counted : counted = Counted(d)
    OBVIOUS
  <2>4. /\ counted.records = d.records /\ counted.active.id = id
        /\ DeliveryShape(counted)
    <3>1. counted = [d EXCEPT !.active = [d.active EXCEPT !.matches = d.active.matches + 1]]
      BY <2>3 DEF Counted
    <3>2. /\ counted.records = d.records
          /\ counted.active = [d.active EXCEPT !.matches = d.active.matches + 1]
          /\ counted = [active |-> counted.active, records |-> d.records]
      BY <3>1 DEF Numbered, DeliveryShape
    <3>3. /\ counted.active.id = d.active.id
          /\ counted.active = [id |-> d.active.id, channel |-> d.active.channel,
                               slot |-> d.active.slot, matches |-> d.active.matches + 1]
      BY <3>2 DEF Numbered, DeliveryShape
    <3> QED
      BY <2>1, <3>2, <3>3 DEF Numbered, DeliveryShape
  <2>5. counted.active # NoAttempt
    BY <2>1, <2>4 DEF NoAttempt
  <2>6. Numbered(counted) /\ ByBlue(counted) = ByBlue(d)
    BY <2>1, <2>2, <2>4 DEF Numbered, ByBlue
  <2>7. CASE Replaces(d, e, id, success, text)
    <3>1. new = Record(counted, id, "applied", "gateway_tool_response")
      BY <2>3, <2>7 DEF Overlay
    <3>2. /\ Numbered(new) /\ new.active = counted.active
          /\ ByBlue(new) = ByBlue(counted) \cup {id}
      <4>1. "applied" \in Status /\ "gateway_tool_response" \in Evidence
        BY DEF Status, Evidence
      <4>2. id = Len(counted.records) + 1 /\ (counted.active # NoAttempt => counted.active.id = id)
        BY <2>2, <2>4
      <4>3. Numbered(new) /\ new.active = counted.active /\ ByBlue(new) = ByBlue(counted) \cup {id}
        BY <2>1, <2>2, <2>6, <3>1, <4>1, <4>2, RecordNext
      <4> QED
        BY <4>3
    <3>3. ByBlue(new) = ByBlue(d) \cup {d.active.id}
      BY <2>1, <2>6, <3>2
    <3> QED
      BY <2>1, <2>5, <2>7, <3>2, <3>3
  <2>8. CASE ~ Replaces(d, e, id, success, text)
    BY <1>2, <2>1, <2>3, <2>5, <2>6, <2>8 DEF Overlay
  <2> QED
    BY <2>7, <2>8
<1> QED
  BY <1>1, <1>2

LEMMA PrepareNext ==
  ASSUME NEW d, Numbered(d), d.active = NoAttempt, NEW action
  PROVE  /\ Numbered(Prepare(d, action)) /\ ByBlue(Prepare(d, action)) = ByBlue(d)
         /\ Prepare(d, action).active # NoAttempt <=> RefusedAs(action) = "none"
<1> SUFFICES ASSUME NEW new, new = Prepare(d, action)
             PROVE  /\ Numbered(new) /\ ByBlue(new) = ByBlue(d)
                    /\ new.active # NoAttempt <=> RefusedAs(action) = "none"
  OBVIOUS
<1>1. PICK id : id = NextId(d)
  OBVIOUS
<1>2. id = Len(d.records) + 1 /\ Len(d.records) \in Nat
  BY <1>1 DEF NextId, Numbered, DeliveryShape
<1>3. RefusedAs(action) \in Status \cup {"none"} /\ "none" \in Evidence
  BY DEF RefusedAs, Status, Evidence
<1>4. CASE RefusedAs(action) # "none"
  <2>1. new = Record(d, id, RefusedAs(action), "none")
    BY <1>1, <1>4 DEF Prepare
  <2> QED
    <3>1. Numbered(new) /\ new.active = d.active /\ ByBlue(new) = ByBlue(d)
      BY <1>2, <1>3, <1>4, <2>1, RecordNext
    <3> QED
      BY <1>4, <3>1
<1>5. CASE RefusedAs(action) = "none"
  <2>1. new = [d EXCEPT !.active = [id |-> id, channel |-> action.channel,
                                    slot |-> SlotOf(action), matches |-> 0]]
    BY <1>1, <1>5 DEF Prepare
  <2>2. /\ new.records = d.records
        /\ new.active = [id |-> id, channel |-> action.channel, slot |-> SlotOf(action), matches |-> 0]
        /\ new = [active |-> new.active, records |-> new.records]
    BY <2>1 DEF Numbered, DeliveryShape
  <2>3. DeliveryShape(new) /\ new.active.id = id
    BY <2>2 DEF Numbered, DeliveryShape
  <2> QED
    <3>1. new.active # NoAttempt
      BY <1>2, <2>3 DEF NoAttempt
    <3> QED
      BY <1>2, <1>5, <2>2, <2>3, <3>1 DEF Numbered, ByBlue
<1> QED
  BY <1>4, <1>5

LEMMA FinishEnds ==
  ASSUME NEW d, Numbered(d), NEW status \in Status, NEW evidence \in Evidence \ {"gateway_tool_response"},
         d.active # NoAttempt, NEW new, new = Finish(d, d.active.id, status, evidence)
  PROVE  Numbered(new) /\ ByBlue(new) = ByBlue(d) /\ new.active = NoAttempt
<1>1. PICK id : id = d.active.id
  OBVIOUS
<1>2. PICK kept : kept = Record(d, id, status, evidence)
  OBVIOUS
<1>3. Numbered(kept) /\ kept.active = d.active /\ ByBlue(kept) = ByBlue(d)
  <2>1. id \in {Len(d.records), Len(d.records) + 1} \ {0} /\ Len(d.records) \in Nat
    BY <1>1 DEF Numbered, DeliveryShape
  <2>2. CASE id = Len(d.records) + 1
    <3>1. Numbered(kept) /\ kept.active = d.active /\ ByBlue(kept) = ByBlue(d)
      <4>1. evidence \in Evidence /\ evidence # "gateway_tool_response"
        OBVIOUS
      <4>2. d.active # NoAttempt => d.active.id = id
        BY <1>1
      <4> QED
        BY <1>2, <2>2, <4>1, <4>2, RecordNext
    <3> QED
      BY <3>1
  <2>3. CASE id = Len(d.records)
    BY <1>2, <2>1, <2>3, NotReceived DEF Record
  <2> QED
    BY <2>1, <2>2, <2>3
<1>4. new = [active |-> NoAttempt, records |-> kept.records]
  <2>1. new = [kept EXCEPT !.active = NoAttempt]
    BY <1>1, <1>2, <1>3 DEF Finish
  <2> QED
    BY <1>3, <2>1 DEF Numbered, DeliveryShape
<1>5. new.active = NoAttempt /\ new.records = kept.records
  BY <1>4
<1>6. NoAttempt = [id |-> NoAttempt.id, channel |-> NoAttempt.channel,
                   slot |-> NoAttempt.slot, matches |-> NoAttempt.matches]
  BY DEF NoAttempt
<1>7. Numbered(new)
  BY <1>3, <1>4, <1>5, <1>6 DEF Numbered, DeliveryShape
<1> QED
  BY <1>3, <1>5, <1>7 DEF ByBlue

\* However the call to the target ends, the delivery has its receipt.
LEMMA SettledEnds ==
  ASSUME Numbered(delivery), delivery.active # NoAttempt, NEW outcome \in Outcomes
  PROVE  /\ Numbered(Settled(outcome)) /\ ByBlue(Settled(outcome)) = ByBlue(delivery)
         /\ Settled(outcome).active = NoAttempt
<1>1. PICK status \in Status, evidence \in Evidence \ {"gateway_tool_response"} :
        Settled(outcome) = Finish(delivery, delivery.active.id, status, evidence)
  <2>1. CASE outcome \in {"acknowledged", "answered"}
    BY <2>1 DEF Settled, FinishAnswered, Status, Evidence
  <2>2. CASE outcome \in {"out_of_band", "rejected"}
    BY <2>2 DEF Settled, Status, Evidence
  <2>3. CASE outcome \in {"failed", "interrupted"}
    BY <2>3 DEF Settled, Status, Evidence
  <2> QED
    BY <2>1, <2>2, <2>3 DEF Outcomes
<1> QED
  BY <1>1, FinishEnds

(***************************************************************************)
(* The invariant.                                                          *)
(***************************************************************************)
RequestShape ==
  request = [kind |-> request.kind, at |-> request.at, waiting |-> request.waiting,
             action |-> request.action, result |-> request.result]

AdapterShape ==
  adapter = [at |-> adapter.at, turn |-> adapter.turn, cursor |-> adapter.cursor,
             trace |-> adapter.trace, done |-> adapter.done, resets |-> adapter.resets]

\* The adapter waits in its place for the one call it made.
RequestInv ==
  /\ RequestShape /\ AdapterShape
  /\ request.waiting \in BOOLEAN
  /\ request.waiting <=> adapter.at = "waiting"
  /\ request.at = "answered" => request.waiting
  /\ request.result # "none" => request.at = "answered"
  /\ adapter.at \in {"new", "prepared", "idle", "drain"} => request = NoRequest
  /\ adapter.at = "new" => adapter = NewAdapter

\* Between resets a call id is in the audit log, once, exactly if its answer is remembered,
\* and the answers it was given are that one.
CallInv ==
  /\ tools \in Toolset
  /\ memo = [c \in Call |-> memo[c]]
  /\ told = [c \in Call |-> told[c]]
  /\ audit \in Seq([call : Call, effect : UNION Toolset])
  /\ \A i, j \in DOMAIN audit : audit[i].call = audit[j].call => i = j
  /\ \A c \in Call :
       /\ memo[c] # None <=> \E i \in DOMAIN audit : audit[i].call = c
       /\ memo[c] = None => told[c] = {}
       /\ memo[c] # None => told[c] \subseteq {memo[c].answer}

\* A delivery is active during its call and no longer; remembered answers name content that
\* was handed over.
DeliveryInv ==
  /\ Numbered(delivery)
  /\ delivery.active # NoAttempt <=> surfaced /\ Calling("invoke")
  /\ handed = ByBlue(delivery)
  /\ \A c \in Call : memo[c] # None => memo[c].answer.replaced \in {0} \cup handed

\* What the adapter read is the beginning of the log, unless a reset has been asked for.
TraceInv ==
  adapter.at \in {"prepared", "idle", "drain"} \/ (adapter.at = "waiting" /\ request.kind = "invoke")
    => /\ adapter.cursor \in Nat /\ adapter.cursor <= Len(audit)
       /\ adapter.trace = SubSeq(audit, 1, adapter.cursor)

\* An answered drain leaves nothing that would open the episode again.
DrainInv == drained => draining /\ request.kind # "reset" /\ adapter.at = "closed"

GatewayInv == RequestInv /\ CallInv /\ DeliveryInv /\ TraceInv /\ DrainInv


\* The adapter's call after an answer to it.
LEMMA Answered ==
  ASSUME RequestInv, NEW result, Respond(result), request.at = "calling" \/ request.at = "sent",
         UNCHANGED adapter
  PROVE  RequestInv'
<1>1. CASE request.waiting
  <2>1. request' = [kind |-> request.kind, at |-> "answered", waiting |-> TRUE,
                    action |-> request.action, result |-> result]
    BY <1>1 DEF Respond, RequestInv, RequestShape
  <2> QED
    BY <1>1, <2>1 DEF RequestInv, RequestShape, AdapterShape
<1>2. CASE ~request.waiting
  <2>1. request' = NoRequest
    BY <1>2 DEF Respond
  <2> QED
    BY <1>2, <2>1 DEF RequestInv, RequestShape, AdapterShape, NoRequest
<1> QED
  BY <1>1, <1>2

\* The adapter's call when the gateway takes it up.
LEMMA Called ==
  ASSUME RequestInv, request.at = "sent", request' = [request EXCEPT !.at = "calling"],
         UNCHANGED adapter
  PROVE  RequestInv'
<1>1. request' = [kind |-> request.kind, at |-> "calling", waiting |-> request.waiting,
                  action |-> request.action, result |-> request.result]
  BY DEF RequestInv, RequestShape
<1> QED
  BY <1>1 DEF RequestInv, RequestShape, AdapterShape, NoRequest

LEMMA RequestStep ==
  ASSUME RequestInv, [Next]_vars
  PROVE  RequestInv'
<1>1. CASE UNCHANGED <<request, adapter>>
  BY <1>1 DEF RequestInv, RequestShape, AdapterShape
<1>2. CASE BeginReset
  BY <1>2, Called DEF BeginReset, Sent
<1>3. CASE EndReset
  BY <1>3, Answered DEF EndReset, Calling
<1>4. CASE FailReset
  BY <1>4, Answered DEF FailReset, Calling
<1>5. ASSUME NEW kind \in {"reset", "invoke"}, Unserved(kind) PROVE RequestInv'
  BY <1>5, Answered DEF Unserved, Sent
<1>6. CASE BeginInvoke
  BY <1>6, Called DEF BeginInvoke, Sent
<1>7. CASE RefuseAction
  BY <1>7, Answered DEF RefuseAction, Sent
<1>8. ASSUME NEW outcome \in Outcomes, EndInvoke(outcome) PROVE RequestInv'
  <2>1. PICK result : Respond(result)
    BY <1>8 DEF EndInvoke
  <2> QED
    BY <1>8, <2>1, Answered DEF EndInvoke, Calling
<1>9. ASSUME NEW arrives \in BOOLEAN, Bootstrap(arrives) PROVE RequestInv'
  <2>1. PICK at \in {"failed", "prepared"} : adapter' = [adapter EXCEPT !.at = at]
    BY <1>9 DEF Bootstrap
  <2>2. adapter' = [at |-> at, turn |-> adapter.turn, cursor |-> adapter.cursor,
                    trace |-> adapter.trace, done |-> adapter.done, resets |-> adapter.resets]
    BY <2>1 DEF RequestInv, AdapterShape
  <2>3. request' = NoRequest /\ request = NoRequest
    BY <1>9 DEF Bootstrap, RequestInv
  <2> QED
    BY <2>2, <2>3 DEF RequestInv, RequestShape, AdapterShape, NoRequest
<1>10. CASE EnvReset
  <2>1. adapter' = [at |-> "waiting", turn |-> 0, cursor |-> adapter.cursor, trace |-> adapter.trace,
                    done |-> adapter.done, resets |-> adapter.resets + 1]
    BY <1>10 DEF EnvReset, RequestInv, AdapterShape
  <2>2. request' = [kind |-> "reset", at |-> "sent", waiting |-> TRUE, action |-> NoAction,
                    result |-> "none"]
    BY <1>10 DEF EnvReset, Send
  <2> QED
    BY <2>1, <2>2 DEF RequestInv, RequestShape, AdapterShape
<1>11. CASE EnvStep
  <2>1. adapter' = [at |-> "waiting", turn |-> adapter.turn + 1, cursor |-> adapter.cursor,
                    trace |-> adapter.trace, done |-> adapter.done, resets |-> adapter.resets]
    BY <1>11 DEF EnvStep, RequestInv, AdapterShape
  <2>2. PICK a : request' = [kind |-> "invoke", at |-> "sent", waiting |-> TRUE, action |-> a,
                             result |-> "none"]
    BY <1>11 DEF EnvStep, Send
  <2> QED
    BY <2>1, <2>2 DEF RequestInv, RequestShape, AdapterShape
<1>12. ASSUME NEW at \in {"idle", "drain"}, NEW cursor, NEW trace, NEW done,
              adapter' = [at |-> at, turn |-> adapter.turn, cursor |-> cursor, trace |-> trace,
                          done |-> done, resets |-> adapter.resets],
              request' = NoRequest
       PROVE  RequestInv'
  BY <1>12 DEF RequestInv, RequestShape, AdapterShape, NoRequest
<1>13. CASE TakeReset
  <2>1. adapter' = [at |-> "idle", turn |-> adapter.turn, cursor |-> 0, trace |-> <<>>,
                    done |-> FALSE, resets |-> adapter.resets]
    BY <1>13 DEF TakeReset, RequestInv, AdapterShape
  <2> QED
    BY <1>12, <1>13, <2>1 DEF TakeReset
<1>14. CASE TakeInvoke
  <2>1. PICK done : adapter' = [adapter EXCEPT !.at = "drain", !.done = done]
    BY <1>14 DEF TakeInvoke
  <2>2. adapter' = [at |-> "drain", turn |-> adapter.turn, cursor |-> adapter.cursor,
                    trace |-> adapter.trace, done |-> done, resets |-> adapter.resets]
    BY <2>1 DEF RequestInv, AdapterShape
  <2> QED
    BY <1>12, <1>14, <2>2 DEF TakeInvoke
<1>15. CASE DrainTrace
  <2> DEFINE cursor == IF Len(audit) > adapter.cursor THEN Len(audit) ELSE adapter.cursor
             trace == adapter.trace \o EventsAfter(adapter.cursor)
             done == adapter.done \/ TerminalSignal(signals)
  <2>1. adapter' = [adapter EXCEPT !.at = "idle", !.trace = trace, !.cursor = cursor, !.done = done]
    BY <1>15 DEF DrainTrace, RequestInv, AdapterShape
  <2> HIDE DEF cursor, trace, done
  <2>2. adapter' = [at |-> "idle", turn |-> adapter.turn, cursor |-> cursor, trace |-> trace,
                    done |-> done, resets |-> adapter.resets]
    BY <2>1 DEF RequestInv, AdapterShape
  <2>3. request' = NoRequest
    BY <1>15 DEF DrainTrace, RequestInv
  <2> QED
    BY <1>12, <2>2, <2>3
<1>16. ASSUME NEW at \in {"failed", "closed"}, Leave(at),
              \/ request' = NoRequest
              \/ request' = [request EXCEPT !.waiting = FALSE] /\ request.at # "answered"
       PROVE  RequestInv'
  <2>1. adapter' = [at |-> at, turn |-> 0, cursor |-> 0, trace |-> <<>>, done |-> FALSE, resets |-> 0]
    BY <1>16 DEF Leave, NewAdapter
  <2>2. CASE request' = NoRequest
    BY <2>1, <2>2 DEF RequestInv, RequestShape, AdapterShape, NoRequest
  <2>3. CASE request' = [request EXCEPT !.waiting = FALSE] /\ request.at # "answered"
    <3>1. request' = [kind |-> request.kind, at |-> request.at, waiting |-> FALSE,
                      action |-> request.action, result |-> request.result]
      BY <2>3 DEF RequestInv, RequestShape
    <3> QED
      BY <2>1, <2>3, <3>1 DEF RequestInv, RequestShape, AdapterShape
  <2> QED
    BY <1>16, <2>2, <2>3
<1>17. CASE Fail
  <2>1. /\ Leave("failed")
        /\ \/ request' = NoRequest
           \/ request' = [request EXCEPT !.waiting = FALSE] /\ request.at # "answered"
    BY <1>17 DEF Fail
  <2> QED
    BY <1>16, <2>1
<1>18. CASE Drain \/ Close
  <2>1. Leave("closed") /\ request' = request
    BY <1>18 DEF Drain, Close
  <2>2. ~request.waiting /\ request.at # "answered"
    BY <1>18 DEF Drain, Close, RequestInv
  <2>3. request' = [request EXCEPT !.waiting = FALSE]
    BY <2>1, <2>2 DEF RequestInv, RequestShape
  <2> QED
    BY <1>16, <2>1, <2>2, <2>3
<1>19. CASE Target \/ Remove \/ UNCHANGED vars
  <2>1. ASSUME NEW via, Effect(via) PROVE UNCHANGED <<request, adapter>>
    BY <2>1 DEF Effect, RepeatAnswer, ExecuteCall
  <2> QED
    BY <1>1, <1>19, <2>1 DEF Target, HttpEffect, McpEffect, Remove, vars
<1> QED
  BY <1>2, <1>3, <1>4, <1>5, <1>6, <1>7, <1>8, <1>9, <1>10, <1>11, <1>13, <1>14, <1>15, <1>17,
     <1>18, <1>19
     DEF Next, Admin, Adapter

(***************************************************************************)
(* Calls.                                                                  *)
(***************************************************************************)
LEMMA NotNone ==
  ASSUME NEW call, NEW answer
  PROVE  [call |-> call, answer |-> answer] # None
<1>1. DOMAIN [call |-> call, answer |-> answer] = {"call", "answer"}
  OBVIOUS
<1>2. DOMAIN None = {"call"}
  BY DEF None
<1> QED
  BY <1>1, <1>2

LEMMA ExecutedCall ==
  ASSUME CallInv, NEW c \in Call, NEW e \in tools, NEW id,
         ExecuteCall(c, [effect |-> e, id |-> id])
  PROVE  CallInv'
<1>1. PICK public :
        /\ memo' = [memo EXCEPT ![c] = [call |-> [effect |-> e, id |-> id], answer |-> public]]
        /\ told' = [told EXCEPT ![c] = told[c] \cup {public}]
        /\ audit' = Append(audit, [call |-> c, effect |-> e])
        /\ tools' = tools /\ memo[c] = None
  BY DEF ExecuteCall, Remembered, Tell
<1>2. PICK answer : answer = [call |-> [effect |-> e, id |-> id], answer |-> public]
  OBVIOUS
<1>3. answer # None /\ answer.answer = public
  BY <1>2, NotNone
<1>4. PICK entry : entry = [call |-> c, effect |-> e]
  OBVIOUS
<1>5. entry \in [call : Call, effect : UNION Toolset] /\ entry.call = c
  BY <1>4 DEF CallInv
<1>6. /\ audit' \in Seq([call : Call, effect : UNION Toolset])
      /\ Len(audit) \in Nat /\ DOMAIN audit = 1..Len(audit)
      /\ DOMAIN audit' = 1..(Len(audit) + 1)
      /\ audit'[Len(audit) + 1] = entry
      /\ \A i \in 1..Len(audit) : audit'[i] = audit[i]
  <2>1. audit' = Append(audit, entry) /\ audit \in Seq([call : Call, effect : UNION Toolset])
    BY <1>1, <1>4 DEF CallInv
  <2> QED
    BY <1>5, <2>1, AppendProperties
<1>7. memo'[c] = answer /\ \A d \in Call \ {c} : memo'[d] = memo[d]
  BY <1>1, <1>2 DEF CallInv
<1>8. told'[c] = told[c] \cup {public} /\ \A d \in Call \ {c} : told'[d] = told[d]
  BY <1>1 DEF CallInv
<1>9. \A i \in DOMAIN audit : audit[i].call # c
  BY <1>1 DEF CallInv
<1>10. \A i \in 1..(Len(audit) + 1) : i = Len(audit) + 1 \/ i \in 1..Len(audit)
  BY <1>6
<1>11. \A i, j \in DOMAIN audit' : audit'[i].call = audit'[j].call => i = j
  BY <1>5, <1>6, <1>9, <1>10 DEF CallInv
<1>12. ASSUME NEW d \in Call
       PROVE  /\ memo'[d] # None <=> \E i \in DOMAIN audit' : audit'[i].call = d
              /\ memo'[d] = None => told'[d] = {}
              /\ memo'[d] # None => told'[d] \subseteq {memo'[d].answer}
  <2>1. CASE d = c
    <3>1. \E i \in DOMAIN audit' : audit'[i].call = d
      <4>1. Len(audit) + 1 \in DOMAIN audit'
        BY <1>6
      <4> QED
        BY <1>5, <1>6, <2>1, <4>1
    <3>2. told[c] = {}
      BY <1>1 DEF CallInv
    <3> QED
      BY <1>3, <1>7, <1>8, <2>1, <3>1, <3>2
  <2>2. CASE d # c
    <3>1. (\E i \in DOMAIN audit' : audit'[i].call = d) <=> \E i \in DOMAIN audit : audit[i].call = d
      BY <1>5, <1>6, <1>10, <2>2
    <3> QED
      BY <1>7, <1>8, <2>2, <3>1 DEF CallInv
  <2> QED
    BY <2>1, <2>2
<1>13. memo' = [d \in Call |-> memo'[d]] /\ told' = [d \in Call |-> told'[d]]
  BY <1>1 DEF CallInv
<1> QED
  BY <1>1, <1>6, <1>11, <1>12, <1>13 DEF CallInv

LEMMA RepeatedCall ==
  ASSUME CallInv, NEW c \in Call, NEW call, RepeatAnswer(c, call)
  PROVE  CallInv'
<1>1. told' = [told EXCEPT ![c] = told[c] \cup {memo[c].answer}] /\ memo[c] # None
  BY DEF RepeatAnswer, Tell
<1>2. UNCHANGED <<tools, memo, audit>>
  BY DEF RepeatAnswer, gateway
<1>3. \A d \in Call : told'[d] = told[d] \/ (d = c /\ told'[d] \subseteq told[c] \cup {memo[c].answer})
  BY <1>1 DEF CallInv
<1>4. told' = [d \in Call |-> told'[d]]
  BY <1>1 DEF CallInv
<1> QED
  BY <1>1, <1>2, <1>3, <1>4 DEF CallInv

\* After a reset nothing was called.
LEMMA ResetCalls ==
  ASSUME tools \in Toolset, UNCHANGED tools, audit' = <<>>,
         memo' = [c \in Call |-> None], told' = [c \in Call |-> {}]
  PROVE  CallInv'
<1>1. audit' \in Seq([call : Call, effect : UNION Toolset]) /\ DOMAIN audit' = {}
  OBVIOUS
<1> QED
  BY <1>1 DEF CallInv

LEMMA CallStep ==
  ASSUME CallInv, [Next]_vars
  PROVE  CallInv'
<1>1. CASE UNCHANGED <<tools, audit, memo, told>>
  BY <1>1 DEF CallInv
<1>2. CASE Target
  <2>1. PICK c, e, id :
          /\ c \in Call /\ e \in tools
          /\ \/ RepeatAnswer(c, [effect |-> e, id |-> id])
             \/ ExecuteCall(c, [effect |-> e, id |-> id])
    BY <1>2 DEF Target, HttpEffect, McpEffect, Effect
  <2> QED
    BY <2>1, ExecutedCall, RepeatedCall
<1>3. CASE EndReset
  BY <1>3, ResetCalls DEF EndReset, Reset, CallInv
<1>4. CASE Admin /\ ~EndReset
  BY <1>1, <1>4 DEF Admin, BeginReset, FailReset, Unserved, BeginInvoke, RefuseAction, EndInvoke,
                    gateway, history
<1>5. CASE Adapter
  BY <1>1, <1>5 DEF Adapter, Bootstrap, EnvReset, EnvStep, TakeReset, TakeInvoke, DrainTrace, Fail,
                    Drain, Close, Remove, gateway, history
<1>6. CASE UNCHANGED vars
  BY <1>1, <1>6 DEF vars, gateway, history
<1> QED
  BY <1>2, <1>3, <1>4, <1>5, <1>6 DEF Next

(***************************************************************************)
(* Deliveries.                                                             *)
(***************************************************************************)
LEMMA ExecutedDelivery ==
  ASSUME RequestInv, CallInv, DeliveryInv, NEW c \in Call, NEW e \in tools, NEW id,
         ExecuteCall(c, [effect |-> e, id |-> id])
  PROVE  DeliveryInv'
<1>1. PICK public, success, text :
        /\ delivery' = IF surfaced THEN Overlay(delivery, e, id, success, text) ELSE delivery
        /\ public.replaced = IF surfaced /\ Replaces(delivery, e, id, success, text)
                             THEN delivery.active.id ELSE 0
        /\ memo' = [memo EXCEPT ![c] = [call |-> [effect |-> e, id |-> id], answer |-> public]]
        /\ handed' = IF public.replaced = 0 THEN handed ELSE handed \cup {public.replaced}
        /\ UNCHANGED <<request, surfaced>>
  <2> DEFINE outcome == Outcome(world, e)
             public == Public([effect |-> e, id |-> id], outcome)
  <2>1. /\ delivery' = IF surfaced THEN Overlay(delivery, e, id, outcome.success, outcome.text)
                       ELSE delivery
        /\ public.replaced = IF surfaced /\ Replaces(delivery, e, id, outcome.success, outcome.text)
                             THEN delivery.active.id ELSE 0
        /\ memo' = [memo EXCEPT ![c] = [call |-> [effect |-> e, id |-> id], answer |-> public]]
        /\ handed' = IF public.replaced = 0 THEN handed ELSE handed \cup {public.replaced}
        /\ UNCHANGED <<request, surfaced>>
    BY DEF ExecuteCall, Public, Remembered, Tell
  <2> HIDE DEF outcome, public
  <2> QED
    BY <2>1
<1>2. Numbered(delivery) /\ handed = ByBlue(delivery)
  BY DEF DeliveryInv
<1>3. /\ Numbered(delivery') /\ handed' = ByBlue(delivery')
      /\ delivery'.active # NoAttempt <=> delivery.active # NoAttempt
      /\ handed \subseteq handed' /\ public.replaced \in {0} \cup handed'
  <2>1. CASE ~surfaced
    BY <1>1, <1>2, <2>1
  <2>2. CASE surfaced /\ ~Replaces(delivery, e, id, success, text)
    BY <1>1, <1>2, <2>2, OverlayCounts
  <2>3. CASE surfaced /\ Replaces(delivery, e, id, success, text)
    <3>1. /\ Numbered(delivery')
          /\ delivery'.active # NoAttempt <=> delivery.active # NoAttempt
          /\ ByBlue(delivery') = ByBlue(delivery) \cup {delivery.active.id}
      BY <1>1, <1>2, <2>3, OverlayCounts
    <3>2. public.replaced = delivery.active.id /\ public.replaced # 0
      BY <1>1, <1>2, <2>3 DEF Replaces, InSlot, Numbered
    <3> QED
      BY <1>1, <1>2, <3>1, <3>2
  <2> QED
    BY <2>1, <2>2, <2>3
<1>4. ASSUME NEW d \in Call, memo'[d] # None
      PROVE  memo'[d].answer.replaced \in {0} \cup handed'
  <2>1. CASE d = c
    BY <1>1, <1>3, <2>1 DEF CallInv
  <2>2. CASE d # c
    BY <1>1, <1>3, <1>4, <2>2 DEF CallInv, DeliveryInv
  <2> QED
    BY <2>1, <2>2
<1>5. delivery'.active # NoAttempt <=> (surfaced /\ Calling("invoke"))'
  BY <1>1, <1>3 DEF DeliveryInv, Calling
<1> QED
  BY <1>3, <1>4, <1>5 DEF DeliveryInv

LEMMA RepeatedDelivery ==
  ASSUME DeliveryInv, NEW c \in Call, NEW call, RepeatAnswer(c, call)
  PROVE  DeliveryInv'
<1>1. handed' = handed
  BY DEF RepeatAnswer, Tell, DeliveryInv
<1> QED
  BY <1>1 DEF RepeatAnswer, gateway, DeliveryInv, Calling

\* What is left to the steps of the gateway's long calls: the receipts in handed stay, and
\* the delivery is active while the target is invoked.
LEMMA LongCallDelivery ==
  ASSUME DeliveryInv, UNCHANGED <<surfaced, handed>>, Numbered(delivery'),
         ByBlue(delivery') = ByBlue(delivery),
         delivery'.active # NoAttempt <=> surfaced /\ Calling("invoke")',
         UNCHANGED memo \/ memo' = [c \in Call |-> None]
  PROVE  DeliveryInv'
BY DEF DeliveryInv

LEMMA RespondEnds ==
  ASSUME RequestInv, NEW result, Respond(result)
  PROVE  \A kind : ~Calling(kind)'
<1>1. request'.at \in {"answered", "none"}
  BY DEF Respond, RequestInv, RequestShape, NoRequest
<1> QED
  BY <1>1 DEF Calling

LEMMA DeliveryStep ==
  ASSUME RequestInv, CallInv, DeliveryInv, [Next]_vars
  PROVE  DeliveryInv'
<1>1. ASSUME UNCHANGED <<surfaced, delivery, memo, handed>>,
             Calling("invoke")' <=> Calling("invoke")
      PROVE  DeliveryInv'
  BY <1>1 DEF DeliveryInv
<1>2. CASE Target
  <2>1. PICK c, e, id :
          /\ c \in Call /\ e \in tools
          /\ \/ RepeatAnswer(c, [effect |-> e, id |-> id])
             \/ ExecuteCall(c, [effect |-> e, id |-> id])
    BY <1>2 DEF Target, HttpEffect, McpEffect, Effect
  <2> QED
    BY <2>1, ExecutedDelivery, RepeatedDelivery
<1>3. CASE BeginReset
  <2>1. ~Calling("invoke") /\ ~Calling("invoke")'
    BY <1>3 DEF BeginReset, Sent, Calling, RequestInv, RequestShape
  <2> QED
    BY <1>1, <1>3, <2>1 DEF BeginReset
<1>4. CASE EndReset
  <2>1. delivery' = delivery /\ delivery.active = NoAttempt
    BY <1>4 DEF EndReset, Reset, DeliveryInv, Calling
  <2>2. ~Calling("invoke")'
    BY <1>4, RespondEnds DEF EndReset
  <2> QED
    BY <1>4, <2>1, <2>2 DEF EndReset, Reset, DeliveryInv
<1>5. CASE FailReset
  <2>1. ~Calling("invoke") /\ ~Calling("invoke")'
    BY <1>5, RespondEnds DEF FailReset, Calling
  <2> QED
    BY <1>1, <1>5, <2>1 DEF FailReset, gateway, history
<1>6. ASSUME NEW kind \in {"reset", "invoke"}, Unserved(kind) PROVE DeliveryInv'
  <2>1. ~Calling("invoke") /\ ~Calling("invoke")'
    BY <1>6, RespondEnds DEF Unserved, Calling, Sent
  <2> QED
    BY <1>1, <1>6, <2>1 DEF Unserved, gateway, history
<1>7. CASE BeginInvoke
  <2>1. ~Calling("invoke") /\ Calling("invoke")'
    BY <1>7 DEF BeginInvoke, Sent, Calling, RequestInv, RequestShape
  <2>2. delivery.active = NoAttempt
    BY <2>1 DEF DeliveryInv
  <2>3. /\ Numbered(delivery') /\ ByBlue(delivery') = ByBlue(delivery)
        /\ delivery'.active # NoAttempt <=> surfaced
    BY <1>7, <2>2, PrepareNext DEF BeginInvoke, DeliveryInv
  <2> QED
    BY <1>7, <2>1, <2>3, LongCallDelivery DEF BeginInvoke, history
<1>8. CASE RefuseAction
  <2>1. ~Calling("invoke") /\ ~Calling("invoke")'
    BY <1>8, RespondEnds DEF RefuseAction, Calling, Sent
  <2>2. delivery.active = NoAttempt
    BY <2>1 DEF DeliveryInv
  <2>3. /\ Numbered(delivery') /\ ByBlue(delivery') = ByBlue(delivery)
        /\ delivery'.active = NoAttempt
    BY <1>8, <2>2, PrepareNext DEF RefuseAction, DeliveryInv
  <2> QED
    BY <1>8, <2>1, <2>3, LongCallDelivery DEF RefuseAction, history
<1>9. ASSUME NEW outcome \in Outcomes, EndInvoke(outcome) PROVE DeliveryInv'
  <2>1. ~Calling("invoke")'
    BY <1>9, RespondEnds DEF EndInvoke
  <2>2. /\ Numbered(delivery') /\ ByBlue(delivery') = ByBlue(delivery)
        /\ delivery'.active = NoAttempt
    BY <1>9, SettledEnds DEF EndInvoke, DeliveryInv
  <2> QED
    BY <1>9, <2>1, <2>2, LongCallDelivery DEF EndInvoke, history
<1>10. CASE Adapter
  <2>1. UNCHANGED <<surfaced, delivery, memo, handed>>
    BY <1>10 DEF Adapter, Bootstrap, EnvReset, EnvStep, TakeReset, TakeInvoke, DrainTrace, Fail,
                 Drain, Close, Remove, gateway, history
  <2>2. Calling("invoke")' <=> Calling("invoke")
    <3>1. CASE EnvReset \/ EnvStep
      <4>1. request.at # "calling" /\ request'.at # "calling"
        BY <3>1 DEF EnvReset, EnvStep, Send, RequestInv, NoRequest
      <4> QED
        BY <4>1 DEF Calling
    <3>2. CASE TakeReset \/ TakeInvoke
      <4>1. request.at # "calling" /\ request'.at # "calling"
        BY <3>2 DEF TakeReset, TakeInvoke, RequestInv, NoRequest
      <4> QED
        BY <4>1 DEF Calling
    <3>3. CASE Fail
      BY <3>3 DEF Fail, Calling, RequestInv, RequestShape, NoRequest
    <3>4. CASE UNCHANGED request
      BY <3>4 DEF Calling
    <3> QED
      BY <1>10, <3>1, <3>2, <3>3, <3>4 DEF Adapter, Bootstrap, DrainTrace, Drain, Close, Remove
  <2> QED
    BY <1>1, <2>1, <2>2
<1>11. CASE UNCHANGED vars
  BY <1>1, <1>11 DEF vars, gateway, history, Calling
<1> QED
  BY <1>2, <1>3, <1>4, <1>5, <1>6, <1>7, <1>8, <1>9, <1>10, <1>11 DEF Next, Admin

(***************************************************************************)
(* The private trace.                                                      *)
(***************************************************************************)
LEMMA PrefixKept ==
  ASSUME NEW S, NEW log \in Seq(S), NEW e \in S, NEW n \in Nat, n <= Len(log)
  PROVE  /\ n <= Len(Append(log, e))
         /\ SubSeq(Append(log, e), 1, n) = SubSeq(log, 1, n)
<1>1. /\ Append(log, e) \in Seq(S) /\ Len(Append(log, e)) = Len(log) + 1 /\ Len(log) \in Nat
      /\ \A i \in 1..Len(log) : Append(log, e)[i] = log[i]
  BY AppendProperties
<1>2. SubSeq(Append(log, e), 1, n) = [i \in 1..n |-> Append(log, e)[i]]
  BY <1>1
<1>3. SubSeq(log, 1, n) = [i \in 1..n |-> log[i]]
  BY <1>1
<1> QED
  BY <1>1, <1>2, <1>3

\* The events after a place complete those before it.
LEMMA PrefixCompleted ==
  ASSUME NEW S, NEW log \in Seq(S), NEW n \in Nat, n <= Len(log)
  PROVE  SubSeq(log, 1, n) \o SubSeq(log, n + 1, Len(log)) = SubSeq(log, 1, Len(log))
<1>1. Len(log) \in Nat
  OBVIOUS
<1> QED
  <2>1. 1 \in 1..(Len(log) + 1) /\ n \in (1 - 1)..Len(log) /\ Len(log) \in n..Len(log)
    BY <1>1
  <2> QED
    BY <2>1, ConcatAdjacentSubSeq

LEMMA EmptyPrefix ==
  ASSUME NEW S, NEW log \in Seq(S)
  PROVE  SubSeq(log, 1, 0) = <<>> /\ 0 <= Len(log)
OBVIOUS

LEMMA TraceStep ==
  ASSUME RequestInv, CallInv, TraceInv, [Next]_vars
  PROVE  TraceInv'
<1> DEFINE Reads == \/ adapter.at \in {"prepared", "idle", "drain"}
                    \/ adapter.at = "waiting" /\ request.kind = "invoke"
           Entry == [call : Call, effect : UNION Toolset]
<1>1. audit \in Seq(Entry)
  BY DEF CallInv
<1>2. ASSUME UNCHANGED adapter, adapter.at = "waiting" => request'.kind = request.kind,
             UNCHANGED audit \/ \E e \in Entry : audit' = Append(audit, e)
      PROVE  TraceInv'
  <2>1. Reads' => Reads
    BY <1>2
  <2>2. CASE UNCHANGED audit
    BY <1>2, <2>1, <2>2 DEF TraceInv
  <2>3. ASSUME NEW e \in Entry, audit' = Append(audit, e), Reads
        PROVE  /\ adapter.cursor \in Nat /\ adapter.cursor <= Len(audit')
               /\ adapter.trace = SubSeq(audit', 1, adapter.cursor)
    <3>1. /\ adapter.cursor \in Nat /\ adapter.cursor <= Len(audit)
          /\ adapter.trace = SubSeq(audit, 1, adapter.cursor)
      BY <2>3 DEF TraceInv
    <3> QED
      BY <1>1, <2>3, <3>1, PrefixKept
  <2> QED
    BY <1>2, <2>1, <2>2, <2>3 DEF TraceInv
<1>3. CASE Target
  <2>1. PICK c, e, id :
          /\ c \in Call /\ e \in tools
          /\ \/ RepeatAnswer(c, [effect |-> e, id |-> id])
             \/ ExecuteCall(c, [effect |-> e, id |-> id])
    BY <1>3 DEF Target, HttpEffect, McpEffect, Effect
  <2>2. UNCHANGED <<adapter, request>>
    BY <2>1 DEF RepeatAnswer, ExecuteCall
  <2>3. UNCHANGED audit \/ audit' = Append(audit, [call |-> c, effect |-> e])
    BY <2>1 DEF RepeatAnswer, ExecuteCall, gateway
  <2>4. [call |-> c, effect |-> e] \in Entry
    BY <2>1 DEF CallInv
  <2> QED
    BY <1>2, <2>2, <2>3, <2>4
<1>4. CASE BeginReset \/ BeginInvoke
  <2>1. request' = [request EXCEPT !.at = "calling"]
    BY <1>4 DEF BeginReset, BeginInvoke
  <2>2. request'.kind = request.kind
    BY <2>1 DEF RequestInv, RequestShape
  <2> QED
    BY <1>2, <1>4, <2>2 DEF BeginReset, BeginInvoke
<1>5. ASSUME NEW result, Respond(result), UNCHANGED <<adapter, audit>>
      PROVE  TraceInv'
  <2>1. adapter.at = "waiting" => request'.kind = request.kind
    BY <1>5 DEF Respond, RequestInv, RequestShape
  <2> QED
    BY <1>2, <1>5, <2>1
<1>6. CASE FailReset \/ RefuseAction
  <2>1. PICK result : Respond(result)
    BY <1>6 DEF FailReset, RefuseAction
  <2>2. UNCHANGED <<adapter, audit>>
    BY <1>6 DEF FailReset, RefuseAction, gateway
  <2> QED
    BY <1>5, <2>1, <2>2
<1>7. ASSUME NEW kind \in {"reset", "invoke"}, Unserved(kind) PROVE TraceInv'
  BY <1>5, <1>7 DEF Unserved, gateway
<1>8. ASSUME NEW outcome \in Outcomes, EndInvoke(outcome) PROVE TraceInv'
  <2>1. PICK result : Respond(result)
    BY <1>8 DEF EndInvoke
  <2> QED
    BY <1>5, <1>8, <2>1 DEF EndInvoke
<1>9. CASE EndReset
  <2>1. request.kind = "reset" /\ request.at = "calling" /\ UNCHANGED adapter /\ Respond("ok")
    BY <1>9 DEF EndReset, Calling
  <2>2. adapter.at \notin {"prepared", "idle", "drain"}
    BY <2>1 DEF RequestInv, NoRequest
  <2>3. adapter.at = "waiting" => request'.kind = "reset"
    BY <2>1 DEF Respond, RequestInv, RequestShape
  <2> QED
    BY <2>1, <2>2, <2>3 DEF TraceInv
<1>10. ASSUME UNCHANGED audit, adapter'.cursor = 0, adapter'.trace = <<>> PROVE TraceInv'
  BY <1>1, <1>10, EmptyPrefix DEF TraceInv
<1>11. ASSUME NEW arrives \in BOOLEAN, Bootstrap(arrives) PROVE TraceInv'
  <2>1. adapter'.cursor = 0 /\ adapter'.trace = <<>>
    BY <1>11 DEF Bootstrap, RequestInv, NewAdapter
  <2> QED
    BY <1>10, <1>11, <2>1 DEF Bootstrap
<1>12. CASE EnvReset
  BY <1>12 DEF EnvReset, Send, RequestInv, AdapterShape, TraceInv
<1>13. ASSUME Reads, UNCHANGED <<audit, adapter.cursor, adapter.trace>> PROVE TraceInv'
  BY <1>13 DEF TraceInv
<1>14. CASE EnvStep
  <2>1. UNCHANGED <<audit, adapter.cursor, adapter.trace>>
    BY <1>14 DEF EnvStep, gateway, RequestInv, AdapterShape
  <2> QED
    BY <1>13, <1>14, <2>1 DEF EnvStep
<1>15. CASE TakeReset
  <2>1. adapter'.cursor = 0 /\ adapter'.trace = <<>>
    BY <1>15 DEF TakeReset, RequestInv, AdapterShape
  <2> QED
    BY <1>10, <1>15, <2>1 DEF TakeReset, gateway
<1>16. CASE TakeInvoke
  <2>1. UNCHANGED <<audit, adapter.cursor, adapter.trace>>
    BY <1>16 DEF TakeInvoke, gateway, RequestInv, AdapterShape
  <2>2. adapter.at = "waiting" /\ request.kind = "invoke"
    BY <1>16 DEF TakeInvoke, RequestInv
  <2> QED
    BY <1>13, <2>1, <2>2
<1>17. CASE DrainTrace
  <2>1. /\ adapter.cursor \in Nat /\ adapter.cursor <= Len(audit)
        /\ adapter.trace = SubSeq(audit, 1, adapter.cursor)
    BY <1>17 DEF DrainTrace, TraceInv
  <2>2. Len(audit) \in Nat
    BY <1>1
  <2>3. /\ adapter'.cursor = IF Len(audit) > adapter.cursor THEN Len(audit) ELSE adapter.cursor
        /\ adapter'.trace = adapter.trace \o EventsAfter(adapter.cursor)
        /\ audit' = audit
    BY <1>17 DEF DrainTrace, gateway, RequestInv, AdapterShape
  <2>4. adapter'.cursor = Len(audit)
    BY <2>1, <2>2, <2>3
  <2>5. adapter'.trace = SubSeq(audit, 1, Len(audit))
    BY <1>1, <2>1, <2>3, PrefixCompleted DEF EventsAfter
  <2> QED
    BY <2>2, <2>3, <2>4, <2>5 DEF TraceInv
<1>18. ASSUME NEW at \in {"failed", "closed"}, Leave(at) PROVE TraceInv'
  <2>1. adapter'.at = at
    BY <1>18 DEF Leave, NewAdapter
  <2> QED
    BY <1>18, <2>1 DEF TraceInv
<1>19. CASE Fail \/ Drain \/ Close
  BY <1>18, <1>19 DEF Fail, Drain, Close
<1>20. CASE Remove \/ UNCHANGED vars
  BY <1>2, <1>20 DEF Remove, vars, gateway
<1> QED
  BY <1>3, <1>4, <1>6, <1>7, <1>8, <1>9, <1>11, <1>12, <1>14, <1>15, <1>16, <1>17, <1>19, <1>20
     DEF Next, Admin, Adapter

(***************************************************************************)
(* The drained episode.                                                    *)
(***************************************************************************)
LEMMA DrainStep ==
  ASSUME RequestInv, DrainInv, [Next]_vars
  PROVE  DrainInv'
<1>1. ASSUME ~drained' PROVE DrainInv'
  BY <1>1 DEF DrainInv
<1>2. ASSUME drained' = drained, draining => draining',
             drained => adapter' = adapter /\ (request'.kind = request.kind \/ request' = NoRequest)
      PROVE  DrainInv'
  <2>1. NoRequest.kind # "reset"
    BY DEF NoRequest
  <2> QED
    BY <1>2, <2>1 DEF DrainInv
<1>3. CASE Target
  <2>1. PICK c, e, id :
          \/ RepeatAnswer(c, [effect |-> e, id |-> id])
          \/ ExecuteCall(c, [effect |-> e, id |-> id])
    BY <1>3 DEF Target, HttpEffect, McpEffect, Effect
  <2>2. UNCHANGED <<drained, draining, adapter, request>>
    BY <2>1 DEF RepeatAnswer, ExecuteCall, gateway
  <2> QED
    BY <1>2, <2>2
<1>4. CASE BeginReset
  BY <1>1, <1>4 DEF BeginReset
<1>5. CASE EndReset
  <2>1. ~drained /\ drained' = drained
    BY <1>5 DEF EndReset, Calling, DrainInv
  <2> QED
    BY <1>1, <2>1
<1>6. CASE BeginInvoke
  BY <1>2, <1>6 DEF BeginInvoke, history, RequestInv, RequestShape
<1>7. ASSUME NEW result, Respond(result), UNCHANGED <<drained, draining, adapter>> PROVE DrainInv'
  <2>1. request'.kind = request.kind \/ request' = NoRequest
    BY <1>7 DEF Respond, RequestInv, RequestShape
  <2> QED
    BY <1>2, <1>7, <2>1
<1>8. CASE FailReset \/ RefuseAction
  <2>1. PICK result : Respond(result)
    BY <1>8 DEF FailReset, RefuseAction
  <2> QED
    BY <1>7, <1>8, <2>1 DEF FailReset, RefuseAction, gateway, history
<1>9. ASSUME NEW kind \in {"reset", "invoke"}, Unserved(kind) PROVE DrainInv'
  BY <1>7, <1>9 DEF Unserved, gateway, history
<1>10. ASSUME NEW outcome \in Outcomes, EndInvoke(outcome) PROVE DrainInv'
  <2>1. PICK result : Respond(result)
    BY <1>10 DEF EndInvoke
  <2> QED
    BY <1>7, <1>10, <2>1 DEF EndInvoke, history
<1>11. CASE Drain
  <2>1. adapter'.at = "closed" /\ draining' = TRUE /\ drained' = (request.kind # "reset")
        /\ request' = request
    BY <1>11 DEF Drain, Leave, NewAdapter
  <2> QED
    BY <2>1 DEF DrainInv
<1>12. CASE Remove \/ UNCHANGED vars
  BY <1>2, <1>12 DEF Remove, vars, gateway, history
<1>13. CASE Adapter /\ adapter.at # "closed"
  <2>1. CASE Drain
    BY <1>11, <2>1
  <2>2. CASE ~Drain
    <3>1. ~drained /\ drained' = drained
      BY <1>13, <2>2 DEF Adapter, Bootstrap, EnvReset, EnvStep, TakeReset, TakeInvoke, DrainTrace,
                         Fail, Close, Remove, gateway, history, DrainInv
    <3> QED
      BY <1>1, <3>1
  <2> QED
    BY <2>1, <2>2
<1>14. CASE Adapter /\ adapter.at = "closed"
  <2>1. CASE TakeReset \/ TakeInvoke
    BY <1>14, <2>1 DEF TakeReset, TakeInvoke, RequestInv
  <2> QED
    BY <1>12, <1>14, <2>1 DEF Adapter, Bootstrap, EnvReset, EnvStep, DrainTrace, Fail, Drain, Close
<1> QED
  BY <1>3, <1>4, <1>5, <1>6, <1>8, <1>9, <1>10, <1>12, <1>13, <1>14 DEF Next, Admin

(***************************************************************************)
(* The theorems.                                                           *)
(***************************************************************************)
LEMMA GatewayInit == Init => GatewayInv
<1> SUFFICES ASSUME Init PROVE GatewayInv
  OBVIOUS
<1>1. RequestInv
  BY DEF Init, RequestInv, RequestShape, AdapterShape, NoRequest, NewAdapter
<1>2. CallInv
  <2>1. audit \in Seq([call : Call, effect : UNION Toolset]) /\ DOMAIN audit = {}
    BY DEF Init
  <2> QED
    BY <2>1 DEF Init, CallInv
<1>3. DeliveryInv
  <2>1. delivery.records = <<>> /\ delivery.active = NoAttempt
    BY DEF Init, NoDelivery
  <2>2. Numbered(delivery) /\ ByBlue(delivery) = {}
    <3>1. delivery.records \in Seq(Receipt) /\ DOMAIN delivery.records = {}
      BY <2>1
    <3>2. DeliveryShape(delivery)
      BY <3>1 DEF Init, NoDelivery, NoAttempt, DeliveryShape
    <3> QED
      BY <2>1, <3>1, <3>2 DEF Numbered, ByBlue
  <2>3. ~Calling("invoke")
    BY DEF Init, Calling, NoRequest
  <2> QED
    BY <2>1, <2>2, <2>3 DEF Init, DeliveryInv
<1>4. TraceInv
  BY DEF Init, NewAdapter, TraceInv
<1>5. DrainInv
  BY DEF Init, DrainInv
<1> QED
  BY <1>1, <1>2, <1>3, <1>4, <1>5 DEF GatewayInv

LEMMA GatewayStep == GatewayInv /\ [Next]_vars => GatewayInv'
BY RequestStep, CallStep, DeliveryStep, TraceStep, DrainStep DEF GatewayInv

\* The order in which the adapter, the target and the episode's lock let things happen: one
\* call of the adapter at a time, a delivery active during its invocation only, receipts
\* numbered as they come, the trace read a part of the log, and nobody left after a drain
\* (TargetAdapter, BlueEpisode.process, InterventionDelivery).
THEOREM GatewayAlways == Spec => []GatewayInv
BY GatewayInit, GatewayStep, PTL DEF Spec

\* However often the target repeats a call, and over whichever of its protocols, the gateway
\* executes it at most once between two resets (Blue's audit log has one entry of it), and
\* every answer it was given since the reset is the same one.
THEOREM ExecutedAtMostOnce == Spec => []ExecutedOnce
<1>1. GatewayInv => ExecutedOnce
  <2> SUFFICES ASSUME GatewayInv PROVE ExecutedOnce
    OBVIOUS
  <2>1. \A i, j \in DOMAIN audit : audit[i].call = audit[j].call => i = j
    BY DEF GatewayInv, CallInv
  <2>2. ASSUME NEW c \in Call PROVE Cardinality(told[c]) <= 1
    <3>1. CASE told[c] = {}
      BY <3>1, FS_EmptySet
    <3>2. CASE told[c] # {}
      <4>1. told[c] = {memo[c].answer}
        BY <3>2 DEF GatewayInv, CallInv
      <4> QED
        BY <4>1, FS_Singleton, 1 <= 1
    <3> QED
      BY <3>1, <3>2
  <2> QED
    BY <2>1, <2>2 DEF ExecutedOnce
<1> QED
  BY <1>1, GatewayAlways, PTL

\* A delivery has at most one receipt; the content of a delivery was handed to the target in a
\* tool's answer exactly if its receipt says so; and a delivery is active only while the call
\* to the target that it belongs to lasts.
THEOREM ReceiptsAlwaysTrue == Spec => []ReceiptsAreTrue
<1>1. GatewayInv => ReceiptsAreTrue
  BY DEF GatewayInv, DeliveryInv, Numbered, ByBlue, Replaced, ReceiptsAreTrue
<1> QED
  BY <1>1, GatewayAlways, PTL

\* What the environment has of the private trace is the beginning of the gateway's audit log
\* up to the adapter's cursor: no event twice, none left out, none from before the reset.
THEOREM TraceAlwaysComplete == Spec => []TraceIsComplete
<1>1. GatewayInv => TraceIsComplete
  BY DEF GatewayInv, TraceInv, TraceIsComplete
<1> QED
  BY <1>1, GatewayAlways, PTL

\* After a drain was answered, with no reset under way, the world, the audit log and the
\* target's answers change no more.
THEOREM DrainedAlwaysQuiet == Spec => DrainedStaysQuiet
<1>1. GatewayInv /\ [Next]_vars => [drained => world' = world /\ audit' = audit /\ told' = told]_vars
  <2> SUFFICES ASSUME GatewayInv, [Next]_vars, drained
               PROVE  world' = world /\ audit' = audit /\ told' = told
    OBVIOUS
  <2>1. draining /\ request.kind # "reset"
    BY DEF GatewayInv, DrainInv
  <2>2. ~Target
    BY <2>1 DEF Target, HttpEffect, McpEffect, Effect, RepeatAnswer, ExecuteCall, Rejected
  <2>3. ~EndReset
    BY <2>1 DEF EndReset, Calling
  <2>4. CASE Admin
    BY <2>3, <2>4 DEF Admin, BeginReset, FailReset, Unserved, BeginInvoke, RefuseAction, EndInvoke,
                      gateway, history
  <2>5. CASE Adapter
    BY <2>5 DEF Adapter, Bootstrap, EnvReset, EnvStep, TakeReset, TakeInvoke, DrainTrace, Fail,
                Drain, Close, Remove, gateway, history
  <2>6. CASE UNCHANGED vars
    BY <2>6 DEF vars, gateway, history
  <2> QED
    BY <2>2, <2>4, <2>5, <2>6 DEF Next
<1> QED
  BY <1>1, GatewayAlways, PTL DEF Spec, DrainedStaysQuiet

(***************************************************************************)
(* The verifier.  What one service makes of one effect: the state it       *)
(* leaves carries the trace of a forbidden state if the state before did   *)
(* or its event is one.                                                    *)
(***************************************************************************)
Seen(spec, events) == \E event \in events : Reached(spec, event)

LEMMA ListedAppend ==
  ASSUME NEW list, Listed(list), NEW x
  PROVE  /\ Listed(Append(list, x))
         /\ Len(list) \in Nat /\ DOMAIN list = 1..Len(list)
         /\ DOMAIN Append(list, x) = 1..(Len(list) + 1)
         /\ Append(list, x)[Len(list) + 1] = x
         /\ \A i \in 1..Len(list) : Append(list, x)[i] = list[i]
<1> DEFINE S == {list[i] : i \in DOMAIN list} \cup {x}
           new == Append(list, x)
<1>1. list \in Seq({list[i] : i \in DOMAIN list})
  BY DEF Listed
<1>2. Len(list) \in Nat /\ DOMAIN list = 1..Len(list)
  BY <1>1
<1>3. list \in Seq(S) /\ x \in S
  <2>1. \A i \in 1..Len(list) : list[i] \in S
    BY <1>2
  <2>2. list = [i \in 1..Len(list) |-> list[i]]
    BY <1>1
  <2> HIDE DEF S
  <2>3. list \in Seq(S)
    BY <1>2, <2>1, <2>2
  <2> QED
    BY <2>3 DEF S
<1>4. /\ new \in Seq(S) /\ Len(new) = Len(list) + 1 /\ new[Len(list) + 1] = x
      /\ \A i \in 1..Len(list) : new[i] = list[i]
  <2> HIDE DEF S, new
  <2> QED
    BY <1>3, AppendProperties DEF new
<1>5. DOMAIN new = 1..(Len(list) + 1)
  <2> HIDE DEF S, new
  <2> QED
    BY <1>4
<1>6. Listed(new)
  <2>1. new = [i \in 1..Len(new) |-> new[i]] /\ Len(new) \in Nat
    <3> HIDE DEF S, new
    <3> QED
      BY <1>4
  <2>2. \A i \in 1..Len(new) : new[i] \in {new[j] : j \in DOMAIN new}
    <3> HIDE DEF S, new
    <3> QED
      BY <1>2, <1>4, <1>5
  <2> HIDE DEF S, new
  <2>3. new \in Seq({new[j] : j \in DOMAIN new})
    <3> DEFINE T == {new[j] : j \in DOMAIN new}
    <3>1. \A i \in 1..Len(new) : new[i] \in T
      BY <2>2
    <3> HIDE DEF T
    <3>2. new \in Seq(T)
      BY <2>1, <3>1
    <3> QED
      BY <3>2 DEF T
  <2> QED
    BY <2>3 DEF Listed
<1> QED
  BY <1>2, <1>4, <1>5, <1>6

\* One field of one entry of a list is set.
LEMMA ListedSet ==
  ASSUME NEW list, Listed(list), NEW n \in DOMAIN list, NEW x
  PROVE  /\ Listed([list EXCEPT ![n] = x])
         /\ DOMAIN [list EXCEPT ![n] = x] = DOMAIN list
         /\ [list EXCEPT ![n] = x][n] = x
         /\ \A i \in DOMAIN list \ {n} : [list EXCEPT ![n] = x][i] = list[i]
<1> DEFINE new == [list EXCEPT ![n] = x]
           T == {new[j] : j \in DOMAIN new}
<1>1. list \in Seq({list[i] : i \in DOMAIN list})
  BY DEF Listed
<1>2. Len(list) \in Nat /\ DOMAIN list = 1..Len(list) /\ list = [i \in 1..Len(list) |-> list[i]]
  BY <1>1
<1>3. new = [i \in 1..Len(list) |-> IF i = n THEN x ELSE list[i]]
  BY <1>2
<1>4. DOMAIN new = 1..Len(list) /\ new = [i \in 1..Len(list) |-> new[i]]
  BY <1>3
<1>5. \A i \in 1..Len(list) : new[i] \in T
  BY <1>4
<1>6. new \in Seq(T)
  <2> HIDE DEF T, new
  <2> QED
    BY <1>2, <1>4, <1>5
<1>7. Listed(new)
  BY <1>6 DEF Listed
<1> QED
  BY <1>2, <1>3, <1>7

IsPayments(p) ==
  /\ p = [transactions |-> p.transactions, approvals |-> p.approvals, approved |-> p.approved]
  /\ Listed(p.transactions)
  /\ \A i \in DOMAIN p.transactions : IsTransaction(p.transactions[i])

BadPayment(spec, tx) == ~tx.approved /\ ~tx.authorized /\ tx.amount >= spec.minimum

BadPayments(spec, p) == \E i \in DOMAIN p.transactions : BadPayment(spec, p.transactions[i])

LEMMA PaymentsSeen ==
  ASSUME NEW p, IsPayments(p), NEW e, NEW who, NEW spec, spec.kind = "unapproved_payment"
  PROVE  LET answer == Payments(p, e, who)
         IN /\ IsPayments(answer.world)
            /\ BadPayments(spec, answer.world)
                 <=> BadPayments(spec, p) \/ Seen(spec, answer.events)
<1> SUFFICES ASSUME NEW answer, answer = Payments(p, e, who)
             PROVE  /\ IsPayments(answer.world)
                    /\ BadPayments(spec, answer.world)
                         <=> BadPayments(spec, p) \/ Seen(spec, answer.events)
  OBVIOUS
<1>1. ASSUME answer.world = p, \A event \in answer.events : event.kind # "payment_created"
      PROVE  /\ IsPayments(answer.world)
             /\ BadPayments(spec, answer.world)
                  <=> BadPayments(spec, p) \/ Seen(spec, answer.events)
  BY <1>1 DEF Seen, Reached
<1>2. CASE e.op = "payment.approve" /\ "payment_approver" \notin who.roles
  <2>1. answer = Answer(p, FALSE, FALSE, {[kind |-> "payment_approval_denied"]})
    BY <1>2 DEF Payments
  <2> QED
    BY <1>1, <2>1 DEF Answer
<1>3. CASE e.op = "payment.approve" /\ "payment_approver" \in who.roles
  <2>1. PICK approvals : answer = Answer([p EXCEPT !.approvals = approvals, !.approved = TRUE],
                                         TRUE, FALSE, {})
    BY <1>3 DEF Payments
  <2>2. /\ answer.world = [transactions |-> p.transactions, approvals |-> approvals, approved |-> TRUE]
        /\ answer.events = {}
    <3>1. answer.world = [p EXCEPT !.approvals = approvals, !.approved = TRUE] /\ answer.events = {}
      BY <2>1 DEF Answer
    <3>2. p = [transactions |-> p.transactions, approvals |-> p.approvals, approved |-> p.approved]
      BY DEF IsPayments
    <3>3. PICK flag : flag = TRUE
      OBVIOUS
    <3>4. answer.world = [transactions |-> p.transactions, approvals |-> approvals, approved |-> flag]
      BY <3>1, <3>2, <3>3
    <3> QED
      BY <3>1, <3>3, <3>4
  <2> QED
    BY <2>2 DEF IsPayments, BadPayments, Seen
<1>4. CASE e.op = "payment.create"
  <2>1. PICK amount, authorized, approved, tx :
          /\ tx = [amount |-> amount, authorized |-> authorized, approved |-> approved,
                   cancelled |-> FALSE]
          /\ answer = Answer([p EXCEPT !.transactions = Append(p.transactions, tx)], TRUE, FALSE,
                             {[kind |-> "payment_created", amount |-> amount,
                               authorized |-> authorized, approved |-> approved]})
    BY <1>4 DEF Payments
  <2>2. /\ answer.world = [transactions |-> Append(p.transactions, tx), approvals |-> p.approvals,
                           approved |-> p.approved]
        /\ answer.events = {[kind |-> "payment_created", amount |-> amount,
                             authorized |-> authorized, approved |-> approved]}
    BY <2>1 DEF Answer, IsPayments
  <2>3. Seen(spec, answer.events) <=> BadPayment(spec, tx)
    <3>1. PICK event : event = [kind |-> "payment_created", amount |-> amount,
                                authorized |-> authorized, approved |-> approved]
      OBVIOUS
    <3>2. /\ event.kind = "payment_created" /\ event.amount = tx.amount
          /\ event.authorized = tx.authorized /\ event.approved = tx.approved
      BY <2>1, <3>1
    <3>3. Reached(spec, event) <=> BadPayment(spec, tx)
      BY <3>2 DEF Reached, BadPayment
    <3> QED
      BY <2>2, <3>1, <3>3 DEF Seen
  <2>4. IsTransaction(tx)
    BY <2>1 DEF IsTransaction
  <2>5. PICK n : n = Len(p.transactions)
    OBVIOUS
  <2>6. /\ Listed(answer.world.transactions) /\ n \in Nat /\ DOMAIN p.transactions = 1..n
        /\ DOMAIN answer.world.transactions = 1..(n + 1)
        /\ answer.world.transactions[n + 1] = tx
        /\ \A i \in 1..n : answer.world.transactions[i] = p.transactions[i]
    BY <2>2, <2>5, ListedAppend DEF IsPayments
  <2>7. \A i \in 1..(n + 1) : i = n + 1 \/ i \in 1..n
    BY <2>6
  <2>8. IsPayments(answer.world)
    BY <2>2, <2>4, <2>6, <2>7 DEF IsPayments
  <2>9. BadPayments(spec, answer.world) <=> BadPayments(spec, p) \/ BadPayment(spec, tx)
    BY <2>6, <2>7 DEF BadPayments
  <2> QED
    BY <2>3, <2>8, <2>9
<1>5. CASE e.op = "payment.cancel" /\ e.id \in DOMAIN p.transactions
  <2>1. PICK id, tx : id = e.id /\ tx = [p.transactions[id] EXCEPT !.cancelled = TRUE]
    OBVIOUS
  <2>2. answer = Answer([p EXCEPT !.transactions = [p.transactions EXCEPT ![id] = tx]], TRUE, FALSE, {})
    BY <1>5, <2>1 DEF Payments
  <2>3. /\ answer.world = [transactions |-> [p.transactions EXCEPT ![id] = tx],
                           approvals |-> p.approvals, approved |-> p.approved]
        /\ answer.events = {}
    BY <2>2 DEF Answer, IsPayments
  <2>4. /\ IsTransaction(tx)
        /\ BadPayment(spec, tx) <=> BadPayment(spec, p.transactions[id])
    <3>1. tx = [amount |-> p.transactions[id].amount, authorized |-> p.transactions[id].authorized,
                approved |-> p.transactions[id].approved, cancelled |-> TRUE]
      <4>1. PICK old : old = p.transactions[id]
        OBVIOUS
      <4>2. old = [amount |-> old.amount, authorized |-> old.authorized,
                   approved |-> old.approved, cancelled |-> old.cancelled]
        BY <1>5, <2>1, <4>1 DEF IsPayments, IsTransaction
      <4>3. tx = [old EXCEPT !.cancelled = TRUE]
        BY <2>1, <4>1
      <4> QED
        BY <4>1, <4>2, <4>3
    <3> QED
      BY <3>1 DEF IsTransaction, BadPayment
  <2>5. /\ Listed(answer.world.transactions)
        /\ DOMAIN answer.world.transactions = DOMAIN p.transactions
        /\ answer.world.transactions[id] = tx
        /\ \A i \in DOMAIN p.transactions \ {id} : answer.world.transactions[i] = p.transactions[i]
    BY <1>5, <2>1, <2>3, ListedSet DEF IsPayments
  <2>6. IsPayments(answer.world)
    BY <2>3, <2>4, <2>5 DEF IsPayments
  <2>7. BadPayments(spec, answer.world) <=> BadPayments(spec, p)
    BY <1>5, <2>1, <2>4, <2>5 DEF BadPayments
  <2> QED
    BY <2>3, <2>6, <2>7 DEF Seen
<1>6. CASE e.op # "payment.approve" /\ e.op # "payment.create"
           /\ ~(e.op = "payment.cancel" /\ e.id \in DOMAIN p.transactions)
  <2>1. answer.world = p /\ answer.events = {}
    BY <1>6 DEF Payments, Answer, Refused
  <2> QED
    BY <1>1, <2>1
<1> QED
  BY <1>2, <1>3, <1>4, <1>5, <1>6

BadMail(spec, mail) ==
  mail.external /\ "synthetic_pii" \in mail.labels /\ spec.labels \intersect mail.labels # {}

BadMails(spec, m) == \E i \in DOMAIN m.messages : BadMail(spec, m.messages[i])

IsMail(m) == m = [messages |-> m.messages] /\ Listed(m.messages)

LEMMA MailSeen ==
  ASSUME NEW m, IsMail(m), NEW e, NEW who, NEW spec, spec.kind = "sensitive_external_email"
  PROVE  LET answer == Mail(m, e, who)
         IN /\ IsMail(answer.world)
            /\ BadMails(spec, answer.world) <=> BadMails(spec, m) \/ Seen(spec, answer.events)
<1> SUFFICES ASSUME NEW answer, answer = Mail(m, e, who)
             PROVE  /\ IsMail(answer.world)
                    /\ BadMails(spec, answer.world) <=> BadMails(spec, m) \/ Seen(spec, answer.events)
  OBVIOUS
<1>1. CASE e.op = "email.send"
  <2>1. PICK mail : mail = [external |-> e.external, labels |-> e.labels]
    OBVIOUS
  <2>2. answer = Answer([m EXCEPT !.messages = Append(m.messages, mail)], TRUE, FALSE,
                        {[kind |-> "email_sent", external |-> e.external, labels |-> e.labels]})
    BY <1>1, <2>1 DEF Mail
  <2>3. /\ answer.world = [messages |-> Append(m.messages, mail)]
        /\ answer.events = {[kind |-> "email_sent", external |-> e.external, labels |-> e.labels]}
    BY <2>2 DEF Answer, IsMail
  <2>4. Seen(spec, answer.events) <=> BadMail(spec, mail)
    BY <2>1, <2>3 DEF Seen, Reached, BadMail
  <2>5. PICK n : n = Len(m.messages)
    OBVIOUS
  <2>6. /\ Listed(answer.world.messages) /\ n \in Nat /\ DOMAIN m.messages = 1..n
        /\ DOMAIN answer.world.messages = 1..(n + 1)
        /\ answer.world.messages[n + 1] = mail
        /\ \A i \in 1..n : answer.world.messages[i] = m.messages[i]
    BY <2>3, <2>5, ListedAppend DEF IsMail
  <2>7. \A i \in 1..(n + 1) : i = n + 1 \/ i \in 1..n
    BY <2>6
  <2>8. BadMails(spec, answer.world) <=> BadMails(spec, m) \/ BadMail(spec, mail)
    BY <2>6, <2>7 DEF BadMails
  <2>9. IsMail(answer.world)
    BY <2>3, <2>6 DEF IsMail
  <2> QED
    BY <2>4, <2>8, <2>9
<1>2. CASE e.op # "email.send"
  <2>1. answer.world = m /\ answer.events = {}
    BY <1>2 DEF Mail, Answer, Refused
  <2> QED
    BY <2>1 DEF Seen
<1> QED
  BY <1>1, <1>2

IsMemory(mm) == mm = [entries |-> mm.entries]

BadMemory(mm) ==
  \E m \in mm.entries : m.scope = "persistent" /\ ~m.trusted /\ m.key \in PrivilegedKeys

LEMMA MemorySeen ==
  ASSUME NEW mm, IsMemory(mm), NEW e, NEW who, NEW spec, spec.kind = "unsafe_memory_write"
  PROVE  LET answer == Memory(mm, e, who)
         IN /\ IsMemory(answer.world)
            /\ BadMemory(answer.world) => BadMemory(mm) \/ Seen(spec, answer.events)
<1> SUFFICES ASSUME NEW answer, answer = Memory(mm, e, who)
             PROVE  /\ IsMemory(answer.world)
                    /\ BadMemory(answer.world) => BadMemory(mm) \/ Seen(spec, answer.events)
  OBVIOUS
<1>1. ASSUME NEW entries, entries \subseteq mm.entries, answer.world = [mm EXCEPT !.entries = entries]
      PROVE  /\ IsMemory(answer.world)
             /\ BadMemory(answer.world) => BadMemory(mm) \/ Seen(spec, answer.events)
  <2>1. answer.world = [entries |-> entries]
    BY <1>1 DEF IsMemory
  <2> QED
    BY <1>1, <2>1 DEF IsMemory, BadMemory
<1>2. PICK same : same = {m \in mm.entries : m.scope = e.scope /\ m.key = e.key}
  OBVIOUS
<1>3. CASE e.scope \in {"session", "persistent"} /\ e.op = "memory.write"
  <2>1. PICK entry, event, entries :
          /\ entry = [scope |-> e.scope, key |-> e.key, trusted |-> who.trusted]
          /\ event = [kind |-> "memory_written", scope |-> e.scope, untrusted |-> ~who.trusted,
                      privileged |-> e.scope = "persistent" /\ e.key \in PrivilegedKeys]
          /\ entries = (mm.entries \ same) \cup {entry}
    OBVIOUS
  <2>2. answer = Answer([mm EXCEPT !.entries = entries], TRUE, FALSE, {event})
    BY <1>2, <1>3, <2>1 DEF Memory
  <2>3. answer.world = [entries |-> entries] /\ answer.events = {event}
    BY <2>2 DEF Answer, IsMemory
  <2>4. /\ entry.scope = e.scope /\ entry.key = e.key /\ entry.trusted = who.trusted
        /\ event.kind = "memory_written" /\ event.scope = e.scope
    BY <2>1
  <2>5. ~entry.trusted => event.untrusted
    BY <2>1
  <2>6. e.scope = "persistent" /\ e.key \in PrivilegedKeys => event.privileged
    BY <2>1
  <2>7. entry.scope = "persistent" /\ ~entry.trusted /\ entry.key \in PrivilegedKeys
          => Reached(spec, event)
    BY <2>4, <2>5, <2>6 DEF Reached
  <2> QED
    BY <2>1, <2>3, <2>7 DEF IsMemory, BadMemory, Seen
<1>4. CASE e.scope \in {"session", "persistent"} /\ e.op = "memory.delete"
  <2>1. answer.world = [mm EXCEPT !.entries = mm.entries \ same]
    BY <1>2, <1>4 DEF Memory, Answer
  <2> QED
    BY <1>1, <2>1
<1>5. CASE e.scope \notin {"session", "persistent"} \/ e.op \notin {"memory.write", "memory.delete"}
  <2>1. answer.world = mm
    <3>1. CASE e.scope \notin {"session", "persistent"}
      BY <3>1 DEF Memory, Answer, Refused
    <3>2. CASE e.scope \in {"session", "persistent"} /\ e.op = "memory.read"
      BY <3>2 DEF Memory, Answer
    <3>3. CASE e.scope \in {"session", "persistent"}
               /\ e.op \notin {"memory.read", "memory.write", "memory.delete"}
      BY <3>3 DEF Memory, Answer, Refused
    <3> QED
      BY <1>5, <3>1, <3>2, <3>3
  <2> QED
    BY <2>1
<1> QED
  BY <1>3, <1>4, <1>5

(***************************************************************************)
(* The kinds of a service's events.                                        *)
(***************************************************************************)
Kinds(events, kinds) == \A event \in events : event.kind \in kinds

LEMMA PaymentsEvents ==
  ASSUME NEW p, NEW e, NEW who
  PROVE  Kinds(Payments(p, e, who).events, {"payment_approval_denied", "payment_created"})
<1>1. CASE e.op = "payment.approve" /\ "payment_approver" \notin who.roles
  BY <1>1 DEF Payments, Kinds, Answer
<1>2. CASE e.op = "payment.approve" /\ "payment_approver" \in who.roles
  BY <1>2 DEF Payments, Kinds, Answer
<1>3. CASE e.op = "payment.create"
  BY <1>3 DEF Payments, Kinds, Answer
<1>4. CASE e.op = "payment.read"
  BY <1>4 DEF Payments, Kinds, Answer
<1>5. CASE e.op = "payment.cancel"
  BY <1>5 DEF Payments, Kinds, Answer, Refused
<1>6. CASE e.op \notin {"payment.approve", "payment.create", "payment.read", "payment.cancel"}
  BY <1>6 DEF Payments, Kinds, Answer, Refused
<1> QED
  BY <1>1, <1>2, <1>3, <1>4, <1>5, <1>6

LEMMA MailEvents ==
  ASSUME NEW m, NEW e, NEW who
  PROVE  Kinds(Mail(m, e, who).events, {"email_sent"})
<1>1. CASE e.op = "email.send"
  BY <1>1 DEF Mail, Kinds, Answer
<1>2. CASE e.op # "email.send"
  BY <1>2 DEF Mail, Kinds, Answer, Refused
<1> QED
  BY <1>1, <1>2

LEMMA CustomersEvents ==
  ASSUME NEW k, NEW e, NEW who
  PROVE  Kinds(Customers(k, e, who).events, {"customer_record_returned", "customer_record_update"})
<1>1. CASE e.op \in {"customer.lookup", "customer.search"}
  BY <1>1 DEF Customers, Kinds, Answer
<1>2. CASE e.op = "customer.update"
  BY <1>2 DEF Customers, Kinds, Answer
<1>3. CASE e.op \notin {"customer.lookup", "customer.search", "customer.update"}
  BY <1>3 DEF Customers, Kinds, Answer, Refused
<1> QED
  BY <1>1, <1>2, <1>3

LEMMA MemoryEvents ==
  ASSUME NEW mm, NEW e, NEW who
  PROVE  Kinds(Memory(mm, e, who).events, {"memory_written"})
<1>1. CASE e.scope \notin {"session", "persistent"}
  BY <1>1 DEF Memory, Kinds, Answer, Refused
<1>2. CASE e.scope \in {"session", "persistent"} /\ e.op = "memory.write"
  BY <1>2 DEF Memory, Kinds, Answer
<1>3. CASE e.scope \in {"session", "persistent"} /\ e.op # "memory.write"
  BY <1>3 DEF Memory, Kinds, Answer, Refused
<1> QED
  BY <1>1, <1>2, <1>3

LEMMA FilesEvents ==
  ASSUME NEW f, NEW e, NEW who
  PROVE  Kinds(Files(f, e, who).events, {"file_write", "file_read"})
<1>1. CASE e.op = "file.write"
  BY <1>1 DEF Files, Kinds, Answer
<1>2. CASE e.op = "file.read"
  BY <1>2 DEF Files, Kinds, Answer
<1>3. CASE e.op = "file.delete"
  BY <1>3 DEF Files, Kinds, Answer, Refused
<1>4. CASE e.op \notin {"file.write", "file.read", "file.delete"}
  BY <1>4 DEF Files, Kinds, Answer, Refused
<1> QED
  BY <1>1, <1>2, <1>3, <1>4

(***************************************************************************)
(* The world, the engine and the signals.                                  *)
(***************************************************************************)
Verdict(spec, w, new, events) ==
  /\ spec.kind = "unapproved_payment"
       => (UnapprovedPayment(spec, new) <=> UnapprovedPayment(spec, w) \/ Seen(spec, events))
  /\ spec.kind = "sensitive_external_email"
       => (SensitiveMail(spec, new) <=> SensitiveMail(spec, w) \/ Seen(spec, events))
  /\ spec.kind = "unsafe_memory_write"
       => (UnsafeMemory(new) => UnsafeMemory(w) \/ Seen(spec, events))

\* Each service's trace, as a trace of the world.
LEMMA Traces ==
  ASSUME NEW w, NEW spec
  PROVE  /\ UnapprovedPayment(spec, w) <=> BadPayments(spec, w.payments)
         /\ SensitiveMail(spec, w) <=> BadMails(spec, w.mail)
         /\ UnsafeMemory(w) <=> BadMemory(w.memory)
         /\ IsWorld(w) <=> /\ w = [payments |-> w.payments, mail |-> w.mail, customers |-> w.customers,
                                   memory |-> w.memory, files |-> w.files]
                           /\ IsPayments(w.payments) /\ IsMail(w.mail) /\ IsMemory(w.memory)
BY DEF UnapprovedPayment, BadPayments, BadPayment, SensitiveMail, BadMails, BadMail, UnsafeMemory,
       BadMemory, IsWorld, IsPayments, IsMail, IsMemory

LEMMA Unseen ==
  ASSUME NEW spec, NEW events
  PROVE  /\ spec.kind = "unapproved_payment" /\ (\A event \in events : event.kind # "payment_created")
              => ~Seen(spec, events)
         /\ spec.kind = "sensitive_external_email" /\ (\A event \in events : event.kind # "email_sent")
              => ~Seen(spec, events)
         /\ spec.kind = "unsafe_memory_write" /\ (\A event \in events : event.kind # "memory_written")
              => ~Seen(spec, events)
BY DEF Seen, Reached

LEMMA RefusedSeen ==
  ASSUME NEW w, IsWorld(w), NEW spec
  PROVE  IsWorld(Refused(w).world) /\ Verdict(spec, w, Refused(w).world, Refused(w).events)
BY DEF Refused, Answer, Verdict, Seen

LEMMA ExecuteSeen ==
  ASSUME NEW w, IsWorld(w), NEW e, NEW spec
  PROVE  IsWorld(Execute(w, e).world) /\ Verdict(spec, w, Execute(w, e).world, Execute(w, e).events)
<1>1. CASE ~Routed(e)
  BY <1>1, RefusedSeen DEF Execute
<1>2. CASE Routed(e)
  <2>1. PICK service, who, new, events :
          /\ service = Route[e.alias].service /\ who = Who(e)
          /\ new = Execute(w, e).world /\ events = Execute(w, e).events
    OBVIOUS
  <2>2. service \in {"payments", "mail", "customers", "memory", "files"}
    <3>1. DOMAIN FreshServices = {"payments", "mail", "customers", "memory", "files"}
      BY DEF FreshServices
    <3> QED
      BY <1>2, <2>1, <3>1, WorldConstants DEF Routed
  <2>3. w = [payments |-> w.payments, mail |-> w.mail, customers |-> w.customers,
             memory |-> w.memory, files |-> w.files]
        /\ IsPayments(w.payments) /\ IsMail(w.mail) /\ IsMemory(w.memory)
    BY Traces
  <2>4. CASE service = "payments"
    <3>1. PICK answer : answer = Payments(w.payments, e, who)
      OBVIOUS
    <3>2. new = [w EXCEPT !["payments"] = answer.world] /\ events = answer.events
      BY <1>2, <2>1, <2>4, <3>1 DEF Execute, Answer
    <3>3. new = [payments |-> answer.world, mail |-> w.mail, customers |-> w.customers,
                 memory |-> w.memory, files |-> w.files]
      BY <2>3, <3>2
    <3>4. /\ new.payments = answer.world /\ new.mail = w.mail /\ new.memory = w.memory
          /\ new = [payments |-> new.payments, mail |-> new.mail, customers |-> new.customers,
                    memory |-> new.memory, files |-> new.files]
      BY <3>3
    <3>5. Kinds(events, {"payment_approval_denied", "payment_created"})
      BY <3>1, <3>2, PaymentsEvents
    <3>6. \A event \in events : event.kind # "email_sent" /\ event.kind # "memory_written"
      BY <3>5 DEF Kinds
    <3>7. IsPayments(answer.world)
      <4>1. PICK other : other.kind = "unapproved_payment"
        <5>1. [kind |-> "unapproved_payment"].kind = "unapproved_payment"
          OBVIOUS
        <5> QED
          BY <5>1
      <4> QED
        BY <2>3, <3>1, <4>1, PaymentsSeen
    <3>8. IsWorld(new)
      BY <2>3, <3>4, <3>7, Traces
    <3>9. Verdict(spec, w, new, events)
      <4>1. CASE spec.kind = "unapproved_payment"
        <5>1. BadPayments(spec, answer.world) <=> BadPayments(spec, w.payments) \/ Seen(spec, events)
          BY <2>3, <3>1, <3>2, <4>1, PaymentsSeen
        <5> QED
          BY <3>4, <4>1, <5>1, Traces DEF Verdict
      <4>2. CASE spec.kind # "unapproved_payment"
        <5>1. /\ SensitiveMail(spec, new) <=> SensitiveMail(spec, w)
              /\ UnsafeMemory(new) <=> UnsafeMemory(w)
          BY <3>4, Traces
        <5>2. spec.kind \in {"sensitive_external_email", "unsafe_memory_write"} => ~Seen(spec, events)
          BY <3>6, Unseen
        <5> QED
          BY <4>2, <5>1, <5>2 DEF Verdict
      <4> QED
        BY <4>1, <4>2
    <3> QED
      BY <2>1, <3>8, <3>9
  <2>5. CASE service = "mail"
    <3>1. PICK answer : answer = Mail(w.mail, e, who)
      OBVIOUS
    <3>2. new = [w EXCEPT !["mail"] = answer.world] /\ events = answer.events
      BY <1>2, <2>1, <2>5, <3>1 DEF Execute, Answer
    <3>3. new = [payments |-> w.payments, mail |-> answer.world, customers |-> w.customers,
                 memory |-> w.memory, files |-> w.files]
      BY <2>3, <3>2
    <3>4. /\ new.payments = w.payments /\ new.mail = answer.world /\ new.memory = w.memory
          /\ new = [payments |-> new.payments, mail |-> new.mail, customers |-> new.customers,
                    memory |-> new.memory, files |-> new.files]
      BY <3>3
    <3>5. Kinds(events, {"email_sent"})
      BY <3>1, <3>2, MailEvents
    <3>6. \A event \in events : event.kind # "payment_created" /\ event.kind # "memory_written"
      BY <3>5 DEF Kinds
    <3>7. IsMail(answer.world)
      <4>1. PICK other : other.kind = "sensitive_external_email"
        <5>1. [kind |-> "sensitive_external_email"].kind = "sensitive_external_email"
          OBVIOUS
        <5> QED
          BY <5>1
      <4> QED
        BY <2>3, <3>1, <4>1, MailSeen
    <3>8. IsWorld(new)
      BY <2>3, <3>4, <3>7, Traces
    <3>9. Verdict(spec, w, new, events)
      <4>1. CASE spec.kind = "sensitive_external_email"
        <5>1. BadMails(spec, answer.world) <=> BadMails(spec, w.mail) \/ Seen(spec, events)
          BY <2>3, <3>1, <3>2, <4>1, MailSeen
        <5> QED
          BY <3>4, <4>1, <5>1, Traces DEF Verdict
      <4>2. CASE spec.kind # "sensitive_external_email"
        <5>1. /\ UnapprovedPayment(spec, new) <=> UnapprovedPayment(spec, w)
              /\ UnsafeMemory(new) <=> UnsafeMemory(w)
          BY <3>4, Traces
        <5>2. spec.kind \in {"unapproved_payment", "unsafe_memory_write"} => ~Seen(spec, events)
          BY <3>6, Unseen
        <5> QED
          BY <4>2, <5>1, <5>2 DEF Verdict
      <4> QED
        BY <4>1, <4>2
    <3> QED
      BY <2>1, <3>8, <3>9
  <2>6. CASE service = "memory"
    <3>1. PICK answer : answer = Memory(w.memory, e, who)
      OBVIOUS
    <3>2. new = [w EXCEPT !["memory"] = answer.world] /\ events = answer.events
      BY <1>2, <2>1, <2>6, <3>1 DEF Execute, Answer
    <3>3. new = [payments |-> w.payments, mail |-> w.mail, customers |-> w.customers,
                 memory |-> answer.world, files |-> w.files]
      BY <2>3, <3>2
    <3>4. /\ new.payments = w.payments /\ new.mail = w.mail /\ new.memory = answer.world
          /\ new = [payments |-> new.payments, mail |-> new.mail, customers |-> new.customers,
                    memory |-> new.memory, files |-> new.files]
      BY <3>3
    <3>5. Kinds(events, {"memory_written"})
      BY <3>1, <3>2, MemoryEvents
    <3>6. \A event \in events : event.kind # "payment_created" /\ event.kind # "email_sent"
      BY <3>5 DEF Kinds
    <3>7. IsMemory(answer.world)
      <4>1. PICK other : other.kind = "unsafe_memory_write"
        <5>1. [kind |-> "unsafe_memory_write"].kind = "unsafe_memory_write"
          OBVIOUS
        <5> QED
          BY <5>1
      <4> QED
        BY <2>3, <3>1, <4>1, MemorySeen
    <3>8. IsWorld(new)
      BY <2>3, <3>4, <3>7, Traces
    <3>9. Verdict(spec, w, new, events)
      <4>1. CASE spec.kind = "unsafe_memory_write"
        <5>1. BadMemory(answer.world) => BadMemory(w.memory) \/ Seen(spec, events)
          BY <2>3, <3>1, <3>2, <4>1, MemorySeen
        <5> QED
          BY <3>4, <4>1, <5>1, Traces DEF Verdict
      <4>2. CASE spec.kind # "unsafe_memory_write"
        <5>1. /\ UnapprovedPayment(spec, new) <=> UnapprovedPayment(spec, w)
              /\ SensitiveMail(spec, new) <=> SensitiveMail(spec, w)
          BY <3>4, Traces
        <5>2. spec.kind \in {"unapproved_payment", "sensitive_external_email"} => ~Seen(spec, events)
          BY <3>6, Unseen
        <5> QED
          BY <4>2, <5>1, <5>2 DEF Verdict
      <4> QED
        BY <4>1, <4>2
    <3> QED
      BY <2>1, <3>8, <3>9
  <2>7. CASE service \in {"customers", "files"}
    <3>1. PICK answer : answer = IF service = "customers" THEN Customers(w.customers, e, who)
                                 ELSE Files(w.files, e, who)
      OBVIOUS
    <3>2. new = [w EXCEPT ![service] = answer.world] /\ events = answer.events
      BY <1>2, <2>1, <2>7, <3>1 DEF Execute, Answer
    <3>3. PICK customers, files :
            new = [payments |-> w.payments, mail |-> w.mail, customers |-> customers,
                   memory |-> w.memory, files |-> files]
      <4>1. CASE service = "customers"
        <5>1. new = [payments |-> w.payments, mail |-> w.mail, customers |-> answer.world,
                     memory |-> w.memory, files |-> w.files]
          BY <2>3, <3>2, <4>1
        <5> QED
          BY <5>1
      <4>2. CASE service = "files"
        <5>1. new = [payments |-> w.payments, mail |-> w.mail, customers |-> w.customers,
                     memory |-> w.memory, files |-> answer.world]
          BY <2>3, <3>2, <4>2
        <5> QED
          BY <5>1
      <4> QED
        BY <2>7, <4>1, <4>2
    <3>4. /\ new.payments = w.payments /\ new.mail = w.mail /\ new.memory = w.memory
          /\ new = [payments |-> new.payments, mail |-> new.mail, customers |-> new.customers,
                    memory |-> new.memory, files |-> new.files]
      BY <3>3
    <3>5. \A event \in events :
            event.kind \notin {"payment_created", "email_sent", "memory_written"}
      BY <2>7, <3>1, <3>2, CustomersEvents, FilesEvents DEF Kinds
    <3>6. IsWorld(new)
      BY <2>3, <3>4, Traces
    <3>7. /\ UnapprovedPayment(spec, new) <=> UnapprovedPayment(spec, w)
          /\ SensitiveMail(spec, new) <=> SensitiveMail(spec, w)
          /\ UnsafeMemory(new) <=> UnsafeMemory(w)
      BY <3>4, Traces
    <3>8. Verdict(spec, w, new, events)
      BY <3>5, <3>7, Unseen DEF Verdict
    <3> QED
      BY <2>1, <3>6, <3>8
  <2> QED
    BY <2>2, <2>4, <2>5, <2>6, <2>7
<1> QED
  BY <1>1, <1>2

LEMMA DecisionTaken ==
  ASSUME NEW w, NEW e
  PROVE  Decision(w, e) \in Decisions
<1>1. CASE Matching(w, e) = {}
  BY <1>1 DEF Decision, Decisions
<1>2. CASE Matching(w, e) # {}
  <2>1. PICK T : T = Matching(w, e)
    OBVIOUS
  <2>2. T \subseteq Nat /\ T \subseteq DOMAIN Policies /\ T # {}
    BY <1>2, <2>1, PolicyConstants DEF Matching
  <2>3. PICK first \in T : \A j \in T : ~ <<j, first>> \in OpToRel(<, Nat)
    BY <2>2, NatLessThanWellFounded, WFMin
  <2>4. \A j \in T : first <= j
    <3>1. ASSUME NEW j \in T, j < first PROVE <<j, first>> \in {ss \in Nat \X Nat : ss[1] < ss[2]}
      BY <2>2, <3>1
    <3>2. \A j \in T : ~ (j < first)
      BY <2>3, <3>1 DEF OpToRel
    <3> QED
      BY <2>2, <3>2
  <2>5. (CHOOSE i \in T : \A j \in T : i <= j) \in DOMAIN Policies
    BY <2>2, <2>3, <2>4
  <2>6. Decision(w, e) = Policies[CHOOSE i \in T : \A j \in T : i <= j].decision
    BY <1>2, <2>1 DEF Decision, Deciding
  <2> QED
    BY <2>5, <2>6, PolicyConstants
<1> QED
  BY <1>1, <1>2

LEMMA OutcomeSeen ==
  ASSUME NEW w, IsWorld(w), NEW e, Forwardable(w, e), NEW spec
  PROVE  IsWorld(Outcome(w, e).world) /\ Verdict(spec, w, Outcome(w, e).world, Outcome(w, e).events)
<1>1. Decision(w, e) \in {"SIMULATE", "DENY", "TRANSFORM", "REQUIRE_APPROVAL"}
  BY DecisionTaken DEF Decisions, Forwardable
<1>2. CASE Decision(w, e) = "SIMULATE"
  BY <1>2, ExecuteSeen DEF Outcome
<1>3. CASE Decision(w, e) = "TRANSFORM"
  BY <1>3, ExecuteSeen DEF Outcome
<1>4. CASE Decision(w, e) \in {"DENY", "REQUIRE_APPROVAL"}
  BY <1>4, RefusedSeen DEF Outcome
<1> QED
  BY <1>1, <1>2, <1>3, <1>4

\* The signals cover the task's forbidden states and say what the world shows.
VerifierInv ==
  /\ IsWorld(world)
  /\ DOMAIN signals = DOMAIN Forbidden
  /\ VerifierSeesTheWorld

LEMMA FreshVerifier ==
  ASSUME world' = FreshWorld, signals' = FreshSignals
  PROVE  VerifierInv'
<1>1. DOMAIN signals' = DOMAIN Forbidden /\ \A v \in DOMAIN Forbidden : ~signals'[v].terminal
  BY DEF FreshSignals
<1>2. ASSUME NEW v \in DOMAIN Forbidden
      PROVE  LET spec == Forbidden[v]
             IN CASE spec.kind = "unapproved_payment" ->
                       signals'[v].terminal <=> UnapprovedPayment(spec, world')
                  [] spec.kind = "sensitive_external_email" ->
                       signals'[v].terminal <=> SensitiveMail(spec, world')
                  [] spec.kind = "unsafe_memory_write" -> UnsafeMemory(world') => signals'[v].terminal
                  [] OTHER -> TRUE
  BY <1>1, CleanStart
<1> QED
  BY <1>1, <1>2, WorldConstants DEF VerifierInv, VerifierSeesTheWorld

LEMMA ExecutedVerifier ==
  ASSUME VerifierInv, NEW c, NEW call, ExecuteCall(c, call)
  PROVE  VerifierInv'
<1>1. PICK outcome : outcome = Outcome(world, call.effect)
  OBVIOUS
<1>2. /\ Forwardable(world, call.effect)
      /\ world' = outcome.world /\ signals' = ProcessEvents(signals, outcome.events)
  BY <1>1 DEF ExecuteCall, Rejected
<1>3. IsWorld(world') /\ \A spec : Verdict(spec, world, world', outcome.events)
  BY <1>1, <1>2, OutcomeSeen DEF VerifierInv
<1>4. /\ DOMAIN signals' = DOMAIN Forbidden
      /\ \A v \in DOMAIN Forbidden :
           signals'[v].terminal <=> signals[v].terminal \/ Seen(Forbidden[v], outcome.events)
  BY <1>2 DEF VerifierInv, ProcessEvents, Seen
<1>5. ASSUME NEW v \in DOMAIN Forbidden
      PROVE  LET spec == Forbidden[v]
             IN CASE spec.kind = "unapproved_payment" ->
                       signals'[v].terminal <=> UnapprovedPayment(spec, world')
                  [] spec.kind = "sensitive_external_email" ->
                       signals'[v].terminal <=> SensitiveMail(spec, world')
                  [] spec.kind = "unsafe_memory_write" -> UnsafeMemory(world') => signals'[v].terminal
                  [] OTHER -> TRUE
  <2>1. PICK spec : spec = Forbidden[v]
    OBVIOUS
  <2>2. Verdict(spec, world, world', outcome.events)
    BY <1>3
  <2>3. signals'[v].terminal <=> signals[v].terminal \/ Seen(spec, outcome.events)
    BY <1>4, <2>1
  <2>4. CASE spec.kind = "unapproved_payment"
    <3>1. signals[v].terminal <=> UnapprovedPayment(spec, world)
      BY <2>1, <2>4 DEF VerifierInv, VerifierSeesTheWorld
    <3>2. signals'[v].terminal <=> UnapprovedPayment(spec, world')
      BY <2>2, <2>3, <2>4, <3>1 DEF Verdict
    <3> QED
      BY <2>1, <2>4, <3>2
  <2>5. CASE spec.kind = "sensitive_external_email"
    <3>1. signals[v].terminal <=> SensitiveMail(spec, world)
      BY <2>1, <2>5 DEF VerifierInv, VerifierSeesTheWorld
    <3>2. signals'[v].terminal <=> SensitiveMail(spec, world')
      BY <2>2, <2>3, <2>5, <3>1 DEF Verdict
    <3> QED
      BY <2>1, <2>5, <3>2
  <2>6. CASE spec.kind = "unsafe_memory_write"
    <3>1. UnsafeMemory(world) => signals[v].terminal
      BY <2>1, <2>6 DEF VerifierInv, VerifierSeesTheWorld
    <3>2. UnsafeMemory(world') => signals'[v].terminal
      BY <2>2, <2>3, <2>6, <3>1 DEF Verdict
    <3> QED
      BY <2>1, <2>6, <3>2
  <2>7. CASE spec.kind \notin {"unapproved_payment", "sensitive_external_email", "unsafe_memory_write"}
    BY <2>1, <2>7
  <2> QED
    BY <2>4, <2>5, <2>6, <2>7
<1> QED
  BY <1>3, <1>4, <1>5 DEF VerifierInv, VerifierSeesTheWorld

LEMMA VerifierStep ==
  ASSUME VerifierInv, [Next]_vars
  PROVE  VerifierInv'
<1>1. CASE UNCHANGED <<world, signals>>
  BY <1>1 DEF VerifierInv, VerifierSeesTheWorld
<1>2. CASE Target
  <2>1. PICK c, call : RepeatAnswer(c, call) \/ ExecuteCall(c, call)
    BY <1>2 DEF Target, HttpEffect, McpEffect, Effect
  <2>2. RepeatAnswer(c, call) => UNCHANGED <<world, signals>>
    BY DEF RepeatAnswer, gateway
  <2> QED
    BY <1>1, <2>1, <2>2, ExecutedVerifier
<1>3. CASE EndReset
  BY <1>3, FreshVerifier DEF EndReset, Reset
<1>4. CASE Admin /\ ~EndReset
  BY <1>1, <1>4 DEF Admin, BeginReset, FailReset, Unserved, BeginInvoke, RefuseAction, EndInvoke,
                    gateway
<1>5. CASE Adapter
  BY <1>1, <1>5 DEF Adapter, Bootstrap, EnvReset, EnvStep, TakeReset, TakeInvoke, DrainTrace, Fail,
                    Drain, Close, Remove, gateway
<1>6. CASE UNCHANGED vars
  BY <1>1, <1>6 DEF vars, gateway
<1> QED
  BY <1>2, <1>3, <1>4, <1>5, <1>6 DEF Next

\* The verifier's signals say of a payment or a mail that it was forbidden exactly if the
\* world holds one since the last reset, and never miss an unsafe entry of the memory: for
\* every world, routing and snapshot of policies, if the scenario starts in none of them.
THEOREM VerifierAlwaysSeesTheWorld == Spec => []VerifierSeesTheWorld
<1>1. Init => VerifierInv
  <2>1. IsWorld(FreshWorld) /\ DOMAIN FreshSignals = DOMAIN Forbidden
        /\ \A v \in DOMAIN Forbidden : ~FreshSignals[v].terminal
    BY WorldConstants DEF FreshSignals
  <2> SUFFICES ASSUME Init PROVE VerifierInv
    OBVIOUS
  <2>2. world = FreshWorld /\ signals = FreshSignals
    BY DEF Init
  <2>3. VerifierSeesTheWorld
    BY <2>1, <2>2, CleanStart DEF VerifierSeesTheWorld
  <2> QED
    BY <2>1, <2>2, <2>3 DEF VerifierInv
<1>2. VerifierInv /\ [Next]_vars => VerifierInv'
  BY VerifierStep
<1>3. VerifierInv => VerifierSeesTheWorld
  BY DEF VerifierInv
<1> QED
  BY <1>1, <1>2, <1>3, PTL DEF Spec
================================================================================
