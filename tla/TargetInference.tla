--------------------------- MODULE TargetInference ---------------------------
(***************************************************************************)
(* How the model calls of a target leave its capsule.  The target posts a  *)
(* request to the Blue gateway, whose mailbox keeps it; the supervisor's   *)
(* relay claims it, lets the broker make the call, and posts the result    *)
(* back; the worker's adapter collects the audit records and adds them to  *)
(* the campaign's usage, the last ones when it closes.                     *)
(*                                                                         *)
(* The mailbox and the handlers of the gateway share an event loop: what   *)
(* lies between two awaits is one step.  Gateway and supervisor exchange   *)
(* messages, of which a request or an answer may be lost.                  *)
(*                                                                         *)
(* Simplifications: one episode; a request identifier always carries the   *)
(* same input (another input is refused and changes nothing); every call   *)
(* reserves the same number of tokens, and cost goes with tokens; a        *)
(* timed-out call is a failed one.                                         *)
(***************************************************************************)
EXTENDS Naturals, Sequences, FiniteSets, FiniteSetsExt

CONSTANTS
  Request,        \* correlation identifiers the target may use
  NoRequest,
  QueueLimit,     \* requests not yet answered: 4 in the code
  MaxRequests,    \* profile.max_requests
  Reserve,        \* tokens reserved for a call
  MaxUse,         \* what the provider may use for one call; the code expects
                  \* at most the reservation, and does not check it
  MaxTokens,      \* profile.max_total_tokens
  Attempts,       \* of the relay to post a result: 3 in the code
  ClaimFailures,  \* in a row that end the relay: 100 in the code
  MaxSends,       \* bound: posts of one request by the target
  MaxLost         \* bound: messages between relay and gateway that are lost

ASSUME InferenceConstants ==
  /\ NoRequest \notin Request
  /\ IsFiniteSet(Request)
  /\ {QueueLimit, MaxRequests, Reserve, MaxUse, MaxTokens, MaxSends, MaxLost} \subseteq Nat
  /\ {Attempts, ClaimFailures} \subseteq Nat \ {0}

VARIABLES
  \* gateway
  order,       \* mailbox.requests, oldest first
  claimed,     \* those with pending.claimed
  result,      \* of their futures
  records,     \* mailbox.records
  closed, draining, gone,
  http,        \* the handler of the target's post
  sends,
  \* supervisor
  relay,
  requests, tokens, known,   \* BrokerEpisode
  \* worker
  adapter, cursor, billed, usage,
  \* the world
  spent,       \* what the provider used for each request it was sent
  calls,       \* how often it was sent
  drained,     \* requests the mailbox had when the drain began
  lost

mailbox == <<order, claimed, result, records>>
gateway == <<mailbox, closed, draining, gone, http, sends>>
broker == <<requests, tokens, known>>
worker == <<adapter, cursor, billed, usage>>
world == <<spent, calls, drained, lost>>
vars == <<gateway, relay, broker, worker, world>>
-----------------------------------------------------------------------------
Source == {"not_dispatched", "conservative_reservation", "provider"}
Audit == [status : {"SUCCEEDED", "REJECTED", "FAILED", "CANCELLED"},
          source : Source, tokens : Nat]

\* A future without a result, and one that close cancelled.
NoResult == [status |-> "CANCELLED", source |-> "provider", tokens |-> 0]
Cancelled == [status |-> "CANCELLED", source |-> "not_dispatched", tokens |-> 0]

Rejected == [status |-> "REJECTED", source |-> "not_dispatched", tokens |-> 0]
Succeeded(n) == [status |-> "SUCCEEDED", source |-> "provider", tokens |-> n]

\* The provider answered and did not say, or not credibly, what it used.
Unmeasured == [status |-> "SUCCEEDED", source |-> "conservative_reservation", tokens |-> Reserve]

\* Variant: a call that failed used nothing.
CallFailedFree == [status |-> "FAILED", source |-> "conservative_reservation", tokens |-> 0]

CallFailed == [status |-> "FAILED", source |-> "conservative_reservation", tokens |-> Reserve]

Relay == [at : {"claim", "work", "dispatch", "reply", "failing", "dead"},
          work : Request \cup {NoRequest}, reply : Audit, tries : Nat]
Polling == [at |-> "claim", work |-> NoRequest, reply |-> NoResult, tries |-> 0]
Dead == [Polling EXCEPT !.at = "dead"]
Failing == [Polling EXCEPT !.at = "failing"]

TypeOK ==
  /\ order \in Seq(Request)
  /\ claimed \subseteq Request
  /\ result \in [Request -> Audit]
  /\ records \in Seq([id : Request, audit : Audit])
  /\ closed \in BOOLEAN /\ draining \in BOOLEAN /\ gone \in BOOLEAN
  /\ http \in [Request -> {"idle", "body", "waiting"}]
  /\ sends \in [Request -> 0..MaxSends]
  /\ relay \in Relay
  /\ requests \in 0..MaxRequests
  /\ tokens \in Nat
  /\ known \in [Request -> Audit]
  /\ adapter \in {"driving", "draining", "closed", "failed"}
  /\ cursor \in 0..Len(records)
  /\ billed \subseteq Request
  /\ usage \in Nat
  /\ spent \in [Request -> 0..MaxUse]
  /\ calls \in [Request -> Nat]
  /\ drained \subseteq Request
  /\ lost \in 0..MaxLost

Init ==
  /\ order = << >>
  /\ claimed = {}
  /\ result = [r \in Request |-> NoResult]
  /\ records = << >>
  /\ closed = FALSE /\ draining = FALSE /\ gone = FALSE
  /\ http = [r \in Request |-> "idle"]
  /\ sends = [r \in Request |-> 0]
  /\ relay = Polling
  /\ requests = 0
  /\ tokens = 0
  /\ known = [r \in Request |-> NoResult]
  /\ adapter = "driving"
  /\ cursor = 0
  /\ billed = {}
  /\ usage = 0
  /\ spent = [r \in Request |-> 0]
  /\ calls = [r \in Request |-> 0]
  /\ drained = {}
  /\ lost = 0
-----------------------------------------------------------------------------
(* The mailbox: submit, fail, claim, complete, close.                      *)

Held == {order[i] : i \in DOMAIN order}
Done(r) == result[r] # NoResult
Unanswered == {r \in Held : ~ Done(r)}

\* Variant: a claimed request counts as never dispatched.
FailureUnclaimed(r) == [status |-> "FAILED", source |-> "not_dispatched", tokens |-> 0]

\* The audit of a request the mailbox gives up: the call may have been made.
Failure(r) ==
  IF r \in claimed
  THEN [status |-> "FAILED", source |-> "conservative_reservation", tokens |-> Reserve]
  ELSE [status |-> "FAILED", source |-> "not_dispatched", tokens |-> 0]

Entry(r, audit) == [id |-> r, audit |-> audit]

Fail(r) ==
  /\ result' = [result EXCEPT ![r] = Failure(r)]
  /\ records' = Append(records, Entry(r, Failure(r)))

Earlier(q, r) == \E i, j \in DOMAIN order : i < j /\ order[i] = q /\ order[j] = r

\* All of them at once, the oldest first.
FailPending ==
  /\ result' = [r \in Request |-> IF r \in Unanswered THEN Failure(r) ELSE result[r]]
  /\ \E failed \in [1..Cardinality(Unanswered) -> Unanswered] :
       /\ \A i, j \in DOMAIN failed : i < j => Earlier(failed[i], failed[j])
       /\ records' = records \o [i \in DOMAIN failed |-> Entry(failed[i], Failure(failed[i]))]

\* Variant: a result that is posted again is recorded again.
RepeatedNever(r) == FALSE

\* The result was posted before: it is neither recorded nor set again.
Repeated(r) == Done(r)

\* A second, different result is refused, and the relay sees an error.
Acceptable(r, audit) == Done(r) => result[r] = audit

Complete(r, audit) ==
  IF Repeated(r) THEN UNCHANGED <<result, records>>
  ELSE /\ result' = [result EXCEPT ![r] = audit]
       /\ records' = Append(records, Entry(r, audit))
-----------------------------------------------------------------------------
(* The gateway's handler of the target's post.                             *)

\* The episode is looked at before the body of the request is read.
Check(r) ==
  /\ http[r] = "idle"
  /\ sends[r] < MaxSends
  /\ ~ gone /\ ~ closed /\ ~ draining
  /\ http' = [http EXCEPT ![r] = "body"]
  /\ sends' = [sends EXCEPT ![r] = @ + 1]
  /\ UNCHANGED <<mailbox, closed, draining, gone, relay, broker, worker, world>>

Submit(r) ==
  /\ http[r] = "body"
  /\ IF closed \/ (r \notin Held /\ (Len(order) >= MaxRequests \/ Cardinality(Unanswered) >= QueueLimit))
     THEN /\ http' = [http EXCEPT ![r] = "idle"]
          /\ UNCHANGED order
     ELSE /\ http' = [http EXCEPT ![r] = "waiting"]
          /\ order' = IF r \in Held THEN order ELSE Append(order, r)
  /\ UNCHANGED <<claimed, result, records, closed, draining, gone, sends, relay, broker, worker, world>>

Answer(r) ==
  /\ http[r] = "waiting"
  /\ Done(r)
  /\ http' = [http EXCEPT ![r] = "idle"]
  /\ UNCHANGED <<mailbox, closed, draining, gone, sends, relay, broker, worker, world>>

\* What submit gives up when it has waited for timeout_seconds + 15.
Overdue(r) == r \notin claimed /\ ~ Done(r)

TimeOut(r) ==
  /\ http[r] = "waiting"
  /\ ~ Done(r)
  /\ http' = [http EXCEPT ![r] = "idle"]
  /\ IF Overdue(r) THEN Fail(r) ELSE UNCHANGED <<result, records>>
  /\ UNCHANGED <<order, claimed, closed, draining, gone, sends, relay, broker, worker, world>>
-----------------------------------------------------------------------------
(* The relay and the broker.  A message that is lost has its effect        *)
(* (delivered) or not; the relay sees the same error.                      *)

Loses == lost < MaxLost /\ lost' = lost + 1

Claimable == {r \in Held : r \notin claimed /\ ~ Done(r)}
Offers(r) ==
  /\ ~ gone /\ ~ closed
  /\ \E i \in DOMAIN order : order[i] = r /\ \A j \in 1..(i - 1) : order[j] \notin Claimable
  /\ r \in Claimable

Claim(r) ==
  /\ relay.at = "claim"
  /\ Offers(r)
  /\ claimed' = claimed \cup {r}
  /\ relay' = [Polling EXCEPT !.at = "work", !.work = r]
  /\ UNCHANGED <<order, result, records, closed, draining, gone, http, sends, broker, worker, world>>

\* tries counts the failures in a row; a success in between resets it.
LoseClaim ==
  /\ relay.at = "claim"
  /\ Loses
  /\ \/ UNCHANGED claimed
     \/ \E r \in Request : Offers(r) /\ claimed' = claimed \cup {r}
  /\ relay' = IF relay.tries + 1 >= ClaimFailures THEN Failing ELSE [relay EXCEPT !.tries = @ + 1]
  /\ UNCHANGED <<order, result, records, closed, draining, gone, http, sends, broker, worker,
                 spent, calls, drained>>

Answered(reply) == relay' = [relay EXCEPT !.at = "reply", !.reply = reply]

Reserved == tokens + Reserve

Affordable == requests < MaxRequests /\ Reserved <= MaxTokens

\* broker.complete up to the call: answered before, rejected, or reserved.
Work ==
  LET r == relay.work IN
  /\ relay.at = "work"
  /\ \/ /\ known[r] # NoResult
        /\ Answered(known[r])
        /\ UNCHANGED <<broker, spent, calls>>
     \/ /\ known[r] = NoResult
        /\ ~ Affordable
        /\ known' = [known EXCEPT ![r] = Rejected]
        /\ Answered(Rejected)
        /\ UNCHANGED <<requests, tokens, spent, calls>>
     \/ /\ known[r] = NoResult
        /\ Affordable
        /\ requests' = requests + 1
        /\ tokens' = Reserved
        /\ calls' = [calls EXCEPT ![r] = @ + 1]
        /\ \E n \in 0..MaxUse : spent' = [spent EXCEPT ![r] = n]
        /\ relay' = [relay EXCEPT !.at = "dispatch"]
        /\ UNCHANGED known
  /\ UNCHANGED <<gateway, worker, drained, lost>>

\* The provider answers, or the call fails or times out.
Dispatch ==
  LET r == relay.work IN
  /\ relay.at = "dispatch"
  /\ \E audit \in {Succeeded(spent[r]), Unmeasured, CallFailed} :
       /\ tokens' = tokens + audit.tokens - Reserve
       /\ known' = [known EXCEPT ![r] = audit]
       /\ Answered(audit)
  /\ UNCHANGED <<gateway, requests, worker, world>>

TriesAgain == relay' = IF relay.tries + 1 >= Attempts THEN Failing ELSE [relay EXCEPT !.tries = @ + 1]

Post ==
  /\ relay.at = "reply"
  /\ ~ gone
  /\ IF Acceptable(relay.work, relay.reply)
     THEN Complete(relay.work, relay.reply) /\ relay' = Polling
     ELSE TriesAgain /\ UNCHANGED <<result, records>>
  /\ UNCHANGED <<order, claimed, closed, draining, gone, http, sends, broker, worker, world>>

LosePost(delivered) ==
  /\ relay.at = "reply"
  /\ Loses
  /\ IF delivered /\ ~ gone /\ Acceptable(relay.work, relay.reply)
     THEN Complete(relay.work, relay.reply) ELSE UNCHANGED <<result, records>>
  /\ TriesAgain
  /\ UNCHANGED <<order, claimed, closed, draining, gone, http, sends, broker, worker,
                 spent, calls, drained>>

\* _relay_inference fails closed, if the gateway can be reached.  The episode
\* is still there: it is removed only when the relay has ended.
FailClosed(delivered) ==
  /\ relay.at = "failing"
  /\ IF delivered
     THEN closed' = TRUE /\ FailPending /\ UNCHANGED lost
     ELSE Loses /\ UNCHANGED <<closed, result, records>>
  /\ relay' = Dead
  /\ UNCHANGED <<order, claimed, draining, gone, http, sends, broker, worker, spent, calls, drained>>
-----------------------------------------------------------------------------
(* The worker's adapter.                                                   *)

RecordedTokens == [i \in DOMAIN records |-> records[i].audit.tokens]

\* Variant: a record is added again when collecting it is repeated.
NewlyBilledAll(new) == new

\* add_campaign_usage knows a request it has seen before.
NewlyBilled(new) == {i \in new : records[i].id \notin billed}

\* Variant: what the relay works on does not hold up the close.
SettledUnclaimed == Unanswered \subseteq claimed

Settled == Unanswered = {}

\* drain_private_trace, in a step or in the loop of close.  Adding to the
\* campaign's usage may fail after some of the records.
Collect(upto) ==
  LET new == (cursor + 1)..upto
      added == NewlyBilled(new)
  IN
  /\ adapter \in {"driving", "draining"}
  /\ ~ gone
  /\ usage' = usage + SumFunctionOnSet(RecordedTokens, added)
  /\ billed' = billed \cup {records[i].id : i \in added}
  /\ cursor' = IF upto = Len(records) THEN upto ELSE cursor
  /\ adapter' = IF adapter = "driving" THEN adapter
                ELSE IF upto < Len(records) THEN "failed"
                ELSE IF Settled THEN "closed" ELSE adapter
  /\ UNCHANGED <<gateway, relay, broker, world>>

Drain ==
  /\ adapter = "driving"
  /\ ~ gone
  /\ draining' = TRUE
  /\ drained' = Held
  /\ adapter' = "draining"
  /\ UNCHANGED <<mailbox, closed, gone, http, sends, relay, broker, cursor, billed, usage, spent, calls, lost>>

\* The deadline passes with requests unanswered, or the gateway is gone.
GiveUp ==
  /\ \/ adapter = "draining" /\ ~ Settled
     \/ adapter \in {"driving", "draining"} /\ gone
  /\ adapter' = "failed"
  /\ UNCHANGED <<gateway, relay, broker, cursor, billed, usage, world>>

\* DockerCapsuleRuntime.destroy, by the worker or by the reaper: first the
\* relay is cancelled and the broker's episode removed, then the gateway's.
\* Nothing under episode.lock suspends, so remove takes it without a wait.
StopRelay ==
  /\ relay.at # "dead"
  /\ relay' = Dead
  /\ UNCHANGED <<gateway, broker, worker, world>>

RemoveEpisode ==
  /\ relay.at = "dead"
  /\ ~ gone
  /\ gone' = TRUE /\ closed' = TRUE /\ draining' = TRUE
  /\ result' = [r \in Request |-> IF r \in Unanswered THEN Cancelled ELSE result[r]]
  /\ UNCHANGED <<order, claimed, records, http, sends, relay, broker, worker, world>>
-----------------------------------------------------------------------------
Next ==
  \/ \E r \in Request : Check(r) \/ Submit(r) \/ Answer(r) \/ TimeOut(r) \/ Claim(r)
  \/ LoseClaim \/ Work \/ Dispatch \/ Post
  \/ \E delivered \in BOOLEAN : LosePost(delivered) \/ FailClosed(delivered)
  \/ \E upto \in cursor..Len(records) : Collect(upto)
  \/ Drain \/ GiveUp \/ StopRelay \/ RemoveEpisode

Spec == Init /\ [][Next]_vars
-----------------------------------------------------------------------------
(* What the calls of a target promise.                                     *)

\* Every request that was answered has exactly one record, which is the
\* answer, however often the relay posted it (complete, fail).
RecordedOnce ==
  /\ \A i, j \in DOMAIN records : records[i].id = records[j].id => i = j
  /\ \A r \in Request : Done(r) /\ result[r] # Cancelled
       <=> \E i \in DOMAIN records : records[i] = Entry(r, result[r])

\* No request is sent to the provider twice, and one that is on record as not
\* dispatched never was and never will be (claim, fail, submit's time-out).
NeverSentAfterAll ==
  /\ \A r \in Request : calls[r] <= 1
  /\ \A i \in DOMAIN records : records[i].audit.source = "not_dispatched" => calls[records[i].id] = 0

Sent == {r \in Request : calls[r] > 0}

\* What the broker can know of a call: what the provider says, else that
\* it reserved for it.
Known(r) == IF known[r] = Succeeded(spent[r]) THEN spent[r] ELSE Min({spent[r], Reserve})
Excess == IF MaxUse > Reserve THEN MaxUse - Reserve ELSE 0

\* The broker's count covers what the calls are known to have used, also those
\* that failed, and goes over max_total_tokens by the excess of at most one
\* call, the last one (broker.complete).
BudgetCoversCalls ==
  /\ SumFunctionOnSet([r \in Request |-> Known(r)], Sent) <= tokens
  /\ tokens <= MaxTokens + Excess

\* The campaign is charged for each record once, also when adding them was
\* interrupted and repeated (drain_private_trace, add_campaign_usage).
ChargedOnce ==
  usage = SumFunctionOnSet(RecordedTokens, {i \in DOMAIN records : records[i].id \in billed})

\* When close succeeds, each request the mailbox had at the drain is settled,
\* and what it used, within its reservation, is charged to the campaign (close).
ClosedIsSettled ==
  adapter = "closed" =>
    /\ drained \subseteq billed
    /\ SumFunctionOnSet([r \in Request |-> Min({spent[r], Reserve})], drained) <= usage
=============================================================================
