-------------------------- MODULE InferenceProofs --------------------------
(* Theorems about TargetInference, for every value of its constants. *)
EXTENDS TargetInference, SumProofs, FiniteSetTheorems, SequenceTheorems, TLAPS

(***************************************************************************)
(* No request is sent twice, and none that is on record as not dispatched  *)
(* is ever sent.  The relay sends only what it claimed, once; so the       *)
(* invariant says where a request is that was not sent: unclaimed, at the  *)
(* relay's hands, or rejected by the broker.                               *)
(***************************************************************************)
Handling == relay.at \in {"work", "dispatch", "reply"}

TypesOK ==
  /\ order \in Seq(Request)
  /\ claimed \subseteq Request
  /\ result \in [Request -> Audit]
  /\ records \in Seq([id : Request, audit : Audit])
  /\ relay \in Relay
  /\ known \in [Request -> Audit]
  /\ calls \in [Request -> Nat]
  /\ spent \in [Request -> Nat]

\* What is sent was claimed first, and a claimed request is sent once.
SentOnce ==
  /\ \A r \in Request : calls[r] <= 1
  /\ \A r \in Request : calls[r] > 0 => r \in claimed
  /\ Handling => relay.work \in claimed
  /\ relay.at = "work" => calls[relay.work] = 0

\* What the broker or the relay call not dispatched was not sent.
Unsent(audit, r) == audit.source = "not_dispatched" => calls[r] = 0

AnswersHonest ==
  /\ \A r \in Request : Unsent(known[r], r)
  /\ relay.at = "reply" => Unsent(relay.reply, relay.work)

\* A record says the same, of a request that has its answer and that the
\* relay does not have in hand to send it.
RecordHonest(e) ==
  e.audit.source = "not_dispatched" =>
    /\ calls[e.id] = 0
    /\ Done(e.id)
    /\ ~ (relay.at = "work" /\ relay.work = e.id)

Record == [id : Request, audit : Audit]

RecordsHonest == \A i \in DOMAIN records : RecordHonest(records[i])

SendInv == TypesOK /\ SentOnce /\ AnswersHonest /\ RecordsHonest

LEMMA Audits ==
  /\ NoResult \in Audit /\ NoResult.source # "not_dispatched"
  /\ Cancelled \in Audit /\ Cancelled # NoResult
  /\ Rejected \in Audit
  /\ Unmeasured \in Audit /\ Unmeasured.source # "not_dispatched"
  /\ CallFailed \in Audit /\ CallFailed.source # "not_dispatched"
  /\ \A n \in Nat : Succeeded(n) \in Audit /\ Succeeded(n).source # "not_dispatched"
BY InferenceConstants DEF NoResult, Cancelled, Rejected, CallFailed, Unmeasured, Succeeded, Audit, Source

LEMMA Failures ==
  ASSUME NEW r \in Request
  PROVE  /\ Failure(r) \in Audit
         /\ Failure(r) # NoResult
         /\ Failure(r).source = "not_dispatched" => r \notin claimed
BY InferenceConstants DEF Failure, NoResult, Audit, Source

LEMMA Relays ==
  /\ Polling \in Relay /\ Polling.at = "claim"
  /\ Dead \in Relay /\ Dead.at = "dead"
  /\ Failing \in Relay /\ Failing.at = "failing"
BY Audits DEF Polling, Dead, Failing, Relay

LEMMA SendInvInit == Init => SendInv
<1> SUFFICES ASSUME Init PROVE SendInv
  OBVIOUS
<1>1. TypesOK
  BY Audits, Relays DEF Init, TypesOK
<1>2. SentOnce
  BY Relays DEF Init, SentOnce, Handling
<1>3. AnswersHonest
  BY Audits, Relays DEF Init, AnswersHonest, Unsent
<1>4. RecordsHonest
  BY DEF Init, RecordsHonest
<1> QED
  BY <1>1, <1>2, <1>3, <1>4 DEF SendInv

LEMMA RecordAt ==
  ASSUME TypesOK, NEW i \in DOMAIN records
  PROVE  records[i] \in Record
<1>1. records \in Seq(Record)
  BY DEF TypesOK, Record
<1> QED
  BY <1>1

\* What is left to show of a step that appends to the records at most.
LEMMA RecordsStep ==
  ASSUME TypesOK, RecordsHonest,
         records' \in Seq(Record),
         Len(records) <= Len(records'),
         \A i \in 1..Len(records) : records'[i] = records[i],
         \A e \in Record : RecordHonest(e) => RecordHonest(e)',
         \A i \in (Len(records) + 1)..Len(records') : RecordHonest(records[i])'
  PROVE  RecordsHonest'
<1>1. records \in Seq(Record)
  BY DEF TypesOK, Record
<1>2. ASSUME NEW i \in DOMAIN records' PROVE RecordHonest(records[i])'
  <2>1. CASE i <= Len(records)
    <3>1. records'[i] = records[i] /\ records[i] \in Record /\ RecordHonest(records[i])
      BY <1>1, <1>2, <2>1 DEF RecordsHonest
    <3> QED
      BY <3>1 DEF RecordHonest, Done
  <2>2. CASE ~ (i <= Len(records))
    BY <1>1, <1>2, <2>2
  <2> QED
    BY <2>1, <2>2
<1> QED
  BY <1>2 DEF RecordsHonest

\* Most steps concern neither the mailbox's answers nor the relay.
LEMMA QuietStep ==
  ASSUME SendInv, order' \in Seq(Request),
         UNCHANGED <<claimed, result, records, relay, known, calls, spent>>
  PROVE  SendInv'
<1>1. TypesOK' /\ SentOnce' /\ AnswersHonest'
  BY DEF SendInv, TypesOK, SentOnce, Handling, AnswersHonest, Unsent
<1>2. RecordsHonest'
  BY DEF SendInv, RecordsHonest, RecordHonest, Done
<1> QED
  BY <1>1, <1>2 DEF SendInv

\* The relay turns to something else than sending; nothing is recorded.
LEMMA RelayStep ==
  ASSUME SendInv, relay' \in Relay, relay'.at \in {"claim", "failing", "dead"},
         UNCHANGED <<order, result, records, known, calls, spent>>,
         claimed' \in SUBSET Request, claimed \subseteq claimed'
  PROVE  SendInv'
<1>1. TypesOK' /\ SentOnce' /\ AnswersHonest'
  BY DEF SendInv, TypesOK, SentOnce, Handling, AnswersHonest, Unsent
<1>2. RecordsHonest'
  BY DEF SendInv, RecordsHonest, RecordHonest, Done
<1> QED
  BY <1>1, <1>2 DEF SendInv

LEMMA TimeOutStep ==
  ASSUME SendInv, NEW r \in Request, TimeOut(r)
  PROVE  SendInv'
<1>1. CASE Overdue(r)
  <2>1. /\ result' = [result EXCEPT ![r] = Failure(r)]
        /\ records' = Append(records, Entry(r, Failure(r)))
        /\ UNCHANGED <<order, claimed, relay, known, calls, spent>>
        /\ r \notin claimed
    BY <1>1 DEF TimeOut, Fail, Overdue, broker, world
  <2>2. Entry(r, Failure(r)) \in Record
    BY Failures DEF Record, Entry
  <2>3. /\ records' \in Seq(Record)
        /\ Len(records') = Len(records) + 1
        /\ \A i \in 1..Len(records) : records'[i] = records[i]
        /\ records'[Len(records) + 1] = Entry(r, Failure(r))
    BY <2>1, <2>2, AppendProperties DEF SendInv, TypesOK, Record
  <2>4. \A e \in Record : RecordHonest(e) => RecordHonest(e)'
    BY <2>1, Failures DEF SendInv, TypesOK, Record, RecordHonest, Done
  <2>5. ASSUME NEW i \in (Len(records) + 1)..Len(records') PROVE RecordHonest(records[i])'
    <3>1. records'[i] = Entry(r, Failure(r))
      BY <2>3, <2>5 DEF SendInv, TypesOK
    <3>2. calls[r] = 0 /\ ~ (relay.at = "work" /\ relay.work = r)
      BY <2>1 DEF SendInv, TypesOK, SentOnce, Handling
    <3> QED
      BY <2>1, <3>1, <3>2, Failures DEF SendInv, TypesOK, RecordHonest, Done, Entry
  <2>6. RecordsHonest'
    <3>1. Len(records) <= Len(records')
      BY <2>3 DEF SendInv, TypesOK
    <3> QED
      BY <2>3, <2>4, <2>5, <3>1, RecordsStep DEF SendInv
  <2>7. TypesOK' /\ SentOnce' /\ AnswersHonest'
    BY <2>1, <2>3, Failures DEF SendInv, TypesOK, SentOnce, Handling, AnswersHonest, Unsent, Record
  <2> QED
    BY <2>6, <2>7 DEF SendInv
<1>2. CASE ~ Overdue(r)
  BY <1>2, QuietStep DEF TimeOut, broker, world, SendInv, TypesOK
<1> QED
  BY <1>1, <1>2

LEMMA ClaimStep ==
  ASSUME SendInv, NEW r \in Request, Claim(r)
  PROVE  SendInv'
<1>1. /\ claimed' = claimed \cup {r}
      /\ relay' = [Polling EXCEPT !.at = "work", !.work = r]
      /\ r \notin claimed /\ ~ Done(r)
      /\ UNCHANGED <<order, result, records, known, calls, spent>>
  BY DEF Claim, Offers, Claimable, broker, world
<1>2. relay' \in Relay /\ relay'.at = "work" /\ relay'.work = r
  BY <1>1, Relays DEF Polling, Relay
<1>3. calls[r] = 0
  BY <1>1 DEF SendInv, TypesOK, SentOnce
<1>4. TypesOK' /\ SentOnce' /\ AnswersHonest'
  BY <1>1, <1>2, <1>3 DEF SendInv, TypesOK, SentOnce, Handling, AnswersHonest, Unsent
<1>5. RecordsHonest'
  BY <1>1, <1>2 DEF SendInv, RecordsHonest, RecordHonest, Done
<1> QED
  BY <1>4, <1>5 DEF SendInv

LEMMA LoseClaimEnds ==
  ASSUME SendInv, LoseClaim
  PROVE  relay' \in Relay /\ relay'.at \in {"claim", "failing"}
<1>1. relay \in Relay /\ relay.at = "claim"
  BY DEF LoseClaim, SendInv, TypesOK
<1>2. [relay EXCEPT !.tries = @ + 1] \in Relay /\ [relay EXCEPT !.tries = @ + 1].at = "claim"
  BY <1>1 DEF Relay
<1> QED
  BY <1>2, Relays DEF LoseClaim

LEMMA LoseClaimStep ==
  ASSUME SendInv, LoseClaim
  PROVE  SendInv'
<1>1. UNCHANGED <<order, result, records, known, calls, spent>>
  BY DEF LoseClaim, broker
<1>2. claimed' \in SUBSET Request /\ claimed \subseteq claimed'
  BY DEF LoseClaim, SendInv, TypesOK
<1> QED
  BY <1>1, <1>2, LoseClaimEnds, RelayStep

LEMMA WorkStep ==
  ASSUME SendInv, Work
  PROVE  SendInv'
<1> DEFINE r == relay.work
<1>1. /\ relay \in Relay /\ relay.at = "work" /\ r \in Request /\ r \in claimed /\ calls[r] = 0
      /\ UNCHANGED <<order, claimed, result, records>>
  BY DEF Work, SendInv, TypesOK, SentOnce, Handling, gateway, mailbox
<1>2. ASSUME NEW audit \in Audit, Answered(audit), Unsent(audit, r),
             UNCHANGED <<calls, spent>>,
             \/ UNCHANGED known
             \/ known' = [known EXCEPT ![r] = audit]
      PROVE  SendInv'
  <2>1. relay' \in Relay /\ relay'.at = "reply" /\ relay'.work = r /\ relay'.reply = audit
    BY <1>1, <1>2 DEF Answered, Relay
  <2>2. known' \in [Request -> Audit]
    BY <1>1, <1>2 DEF SendInv, TypesOK
  <2>3. TypesOK' /\ SentOnce'
    BY <1>1, <1>2, <2>1, <2>2 DEF SendInv, TypesOK, SentOnce, Handling
  <2>4. AnswersHonest'
    BY <1>1, <1>2, <2>1 DEF SendInv, TypesOK, AnswersHonest, Unsent
  <2>5. RecordsHonest'
    BY <1>1, <1>2, <2>1 DEF SendInv, RecordsHonest, RecordHonest, Done
  <2> QED
    BY <2>3, <2>4, <2>5 DEF SendInv
<1>3. CASE known[r] # NoResult /\ Answered(known[r]) /\ UNCHANGED <<broker, spent, calls>>
  BY <1>1, <1>2, <1>3 DEF SendInv, TypesOK, AnswersHonest, broker
<1>4. CASE /\ known' = [known EXCEPT ![r] = Rejected]
           /\ Answered(Rejected)
           /\ UNCHANGED <<requests, tokens, spent, calls>>
  BY <1>1, <1>2, <1>4, Audits DEF Unsent
<1>5. CASE /\ known[r] = NoResult
           /\ calls' = [calls EXCEPT ![r] = @ + 1]
           /\ \E n \in 0..MaxUse : spent' = [spent EXCEPT ![r] = n]
           /\ relay' = [relay EXCEPT !.at = "dispatch"]
           /\ UNCHANGED known
  <2>1. relay' \in Relay /\ relay'.at = "dispatch" /\ relay'.work = r
    BY <1>1, <1>5 DEF Relay
  <2>2. calls' \in [Request -> Nat] /\ calls'[r] = 1 /\ \A q \in Request \ {r} : calls'[q] = calls[q]
    BY <1>1, <1>5 DEF SendInv, TypesOK
  <2>3. spent' \in [Request -> Nat]
    BY <1>1, <1>5, InferenceConstants DEF SendInv, TypesOK
  <2>4. TypesOK'
    BY <1>1, <1>5, <2>1, <2>2, <2>3 DEF SendInv, TypesOK
  <2>5. SentOnce'
    BY <1>1, <2>1, <2>2 DEF SendInv, SentOnce, Handling
  <2>6. AnswersHonest'
    BY <1>1, <1>5, <2>1, <2>2, Audits DEF SendInv, AnswersHonest, Unsent
  <2>7. RecordsHonest'
    <3> SUFFICES ASSUME NEW i \in DOMAIN records, records[i].audit.source = "not_dispatched"
                 PROVE  RecordHonest(records[i])'
      BY <1>1 DEF RecordsHonest, RecordHonest
    <3>1. records[i].id \in Request /\ RecordHonest(records[i])
      <4>1. records[i] \in Record
        BY RecordAt DEF SendInv
      <4> QED
        BY <4>1 DEF SendInv, RecordsHonest, Record
    <3>2. records[i].id # r
      BY <1>1, <3>1 DEF RecordHonest
    <3> QED
      BY <1>1, <2>1, <2>2, <3>1, <3>2 DEF RecordHonest, Done
  <2> QED
    BY <2>4, <2>5, <2>6, <2>7 DEF SendInv
<1> QED
  BY <1>3, <1>4, <1>5 DEF Work

LEMMA DispatchStep ==
  ASSUME SendInv, Dispatch
  PROVE  SendInv'
<1> DEFINE r == relay.work
<1>1. /\ relay \in Relay /\ relay.at = "dispatch" /\ r \in Request
      /\ UNCHANGED <<order, claimed, result, records, calls, spent>>
  BY DEF Dispatch, SendInv, TypesOK, SentOnce, Handling, gateway, mailbox, world
<1>2. PICK audit \in {Succeeded(spent[r]), Unmeasured, CallFailed} :
        known' = [known EXCEPT ![r] = audit] /\ Answered(audit)
  BY DEF Dispatch
<1>3. audit \in Audit /\ audit.source # "not_dispatched"
  BY <1>1, <1>2, Audits DEF SendInv, TypesOK
<1>4. relay' \in Relay /\ relay'.at = "reply" /\ relay'.work = r /\ relay'.reply = audit
  BY <1>1, <1>2, <1>3 DEF Answered, Relay
<1>5. TypesOK'
  BY <1>1, <1>2, <1>3, <1>4 DEF SendInv, TypesOK
<1>6. SentOnce'
  BY <1>1, <1>4 DEF SendInv, SentOnce, Handling
<1>7. AnswersHonest'
  BY <1>1, <1>2, <1>3, <1>4 DEF SendInv, TypesOK, AnswersHonest, Unsent
<1>8. RecordsHonest'
  BY <1>1, <1>4 DEF SendInv, RecordsHonest, RecordHonest, Done
<1> QED
  BY <1>5, <1>6, <1>7, <1>8 DEF SendInv

\* complete, by a relay that has a result in hand and keeps it or goes on.
LEMMA CompleteStep ==
  ASSUME SendInv, relay.at = "reply", Complete(relay.work, relay.reply),
         relay' \in Relay, relay'.at \in {"claim", "failing", "reply"},
         relay'.at = "reply" => relay'.work = relay.work /\ relay'.reply = relay.reply,
         UNCHANGED <<order, claimed, known, calls, spent>>
  PROVE  SendInv'
<1> DEFINE r == relay.work
           audit == relay.reply
<1>1. r \in Request /\ audit \in Audit /\ Unsent(audit, r)
  BY DEF SendInv, TypesOK, SentOnce, Handling, AnswersHonest, Relay
<1>2. CASE UNCHANGED <<result, records>>
  <2>1. TypesOK' /\ SentOnce' /\ AnswersHonest'
    BY <1>2 DEF SendInv, TypesOK, SentOnce, Handling, AnswersHonest, Unsent
  <2>2. RecordsHonest'
    BY <1>2 DEF SendInv, RecordsHonest, RecordHonest, Done
  <2> QED
    BY <2>1, <2>2 DEF SendInv
<1>3. CASE /\ ~ Done(r)
           /\ result' = [result EXCEPT ![r] = audit]
           /\ records' = Append(records, Entry(r, audit))
  <2>1. Entry(r, audit) \in Record
    BY <1>1 DEF Record, Entry
  <2>2. /\ records' \in Seq(Record)
        /\ Len(records') = Len(records) + 1
        /\ \A i \in 1..Len(records) : records'[i] = records[i]
        /\ records'[Len(records) + 1] = Entry(r, audit)
    BY <1>3, <2>1, AppendProperties DEF SendInv, TypesOK, Record
  <2>3. \A e \in Record : RecordHonest(e) => RecordHonest(e)'
    BY <1>1, <1>3 DEF SendInv, TypesOK, Record, RecordHonest, Done
  <2>4. ASSUME NEW i \in (Len(records) + 1)..Len(records') PROVE RecordHonest(records[i])'
    <3>1. records'[i] = Entry(r, audit)
      BY <2>2, <2>4 DEF SendInv, TypesOK
    <3> QED
      BY <1>1, <1>3, <3>1, Audits DEF SendInv, TypesOK, RecordHonest, Done, Entry, Unsent
  <2>5. RecordsHonest'
    <3>1. Len(records) <= Len(records')
      BY <2>2 DEF SendInv, TypesOK
    <3> QED
      BY <2>2, <2>3, <2>4, <3>1, RecordsStep DEF SendInv
  <2>6. TypesOK' /\ SentOnce' /\ AnswersHonest'
    BY <1>1, <1>3, <2>2 DEF SendInv, TypesOK, SentOnce, Handling, AnswersHonest, Unsent, Record
  <2> QED
    BY <2>5, <2>6 DEF SendInv
<1> QED
  BY <1>2, <1>3 DEF Complete, Repeated

LEMMA Retries ==
  ASSUME SendInv, relay.at = "reply", TriesAgain
  PROVE  /\ relay' \in Relay
         /\ relay'.at \in {"failing", "reply"}
         /\ relay'.at = "reply" => relay'.work = relay.work /\ relay'.reply = relay.reply
<1>1. CASE relay' = Failing
  BY <1>1, Relays
<1>2. CASE relay' = [relay EXCEPT !.tries = @ + 1]
  <2>1. relay \in Relay
    BY DEF SendInv, TypesOK
  <2> QED
    BY <1>2, <2>1 DEF Relay
<1> QED
  BY <1>1, <1>2 DEF TriesAgain

\* The result stays where it is: at the relay, which tries again.
LEMMA RetryStep ==
  ASSUME SendInv, relay.at = "reply", TriesAgain,
         UNCHANGED <<order, claimed, result, records, known, calls, spent>>
  PROVE  SendInv'
<1>1. TypesOK' /\ SentOnce' /\ AnswersHonest'
  BY Retries DEF SendInv, TypesOK, SentOnce, Handling, AnswersHonest, Unsent
<1>2. RecordsHonest'
  BY Retries DEF SendInv, RecordsHonest, RecordHonest, Done
<1> QED
  BY <1>1, <1>2 DEF SendInv

LEMMA PostStep ==
  ASSUME SendInv, Post
  PROVE  SendInv'
<1>1. relay.at = "reply" /\ UNCHANGED <<order, claimed, known, calls, spent>>
  BY DEF Post, broker, world
<1>2. CASE Complete(relay.work, relay.reply) /\ relay' = Polling
  BY <1>1, <1>2, Relays, CompleteStep
<1>3. CASE TriesAgain /\ UNCHANGED <<result, records>>
  BY <1>1, <1>3, RetryStep
<1> QED
  BY <1>2, <1>3 DEF Post

LEMMA LosePostStep ==
  ASSUME SendInv, NEW delivered \in BOOLEAN, LosePost(delivered)
  PROVE  SendInv'
<1>1. relay.at = "reply" /\ TriesAgain /\ UNCHANGED <<order, claimed, known, calls, spent>>
  BY DEF LosePost, broker
<1>2. CASE Complete(relay.work, relay.reply)
  BY <1>1, <1>2, Retries, CompleteStep
<1>3. CASE UNCHANGED <<result, records>>
  BY <1>1, <1>3, RetryStep
<1> QED
  BY <1>2, <1>3 DEF LosePost

LEMMA FailClosedStep ==
  ASSUME SendInv, NEW delivered \in BOOLEAN, FailClosed(delivered)
  PROVE  SendInv'
<1>1. relay' = Dead /\ UNCHANGED <<order, claimed, known, calls, spent>>
  BY DEF FailClosed, broker
<1>2. CASE UNCHANGED <<result, records>>
  BY <1>1, <1>2, Relays, RelayStep DEF SendInv, TypesOK
<1>3. CASE FailPending
  <2>1. PICK failed \in [1..Cardinality(Unanswered) -> Unanswered] :
          records' = records \o [i \in DOMAIN failed |-> Entry(failed[i], Failure(failed[i]))]
    BY <1>3 DEF FailPending
  <2> DEFINE n == Cardinality(Unanswered)
             new == [i \in 1..n |-> Entry(failed[i], Failure(failed[i]))]
  <2>2. Unanswered \subseteq Request /\ n \in Nat
    <3>1. Unanswered \subseteq Request
      BY DEF Unanswered, Held, SendInv, TypesOK
    <3>2. IsFiniteSet(Unanswered)
      BY <3>1, FS_Subset, InferenceConstants
    <3> QED
      BY <3>1, <3>2, FS_CardinalityType
  <2>3. \A i \in 1..n : failed[i] \in Unanswered /\ new[i] \in Record
    BY <2>1, <2>2, Failures DEF Record, Entry
  <2>4. new \in Seq(Record) /\ Len(new) = n
    BY <2>2, <2>3
  <2>5. /\ records' \in Seq(Record)
        /\ Len(records') = Len(records) + n
        /\ \A i \in 1..(Len(records) + n) :
             records'[i] = IF i <= Len(records) THEN records[i] ELSE new[i - Len(records)]
    <3>1. records \in Seq(Record) /\ records' = records \o new
      BY <2>1 DEF SendInv, TypesOK, Record
    <3> HIDE DEF new, n
    <3> QED
      BY <2>4, <3>1, ConcatProperties
  <2>6. result' \in [Request -> Audit] /\ \A q \in Request : Done(q) \/ q \in Unanswered => Done(q)'
    BY <1>3, <2>2, Failures DEF FailPending, Done, SendInv, TypesOK
  <2>7. \A e \in Record : RecordHonest(e) => RecordHonest(e)'
    BY <1>1, <2>6, Relays DEF RecordHonest, Record, Done
  <2>8. ASSUME NEW i \in (Len(records) + 1)..Len(records') PROVE RecordHonest(records[i])'
    <3>1. PICK q \in Unanswered : records'[i] = Entry(q, Failure(q))
      <4>1. Len(records) \in Nat /\ i - Len(records) \in 1..n
        BY <2>2, <2>5, <2>8 DEF SendInv, TypesOK
      <4>2. records'[i] = new[i - Len(records)]
        <5> HIDE DEF new
        <5> QED
          BY <2>2, <2>5, <2>8, <4>1
      <4> QED
        BY <2>3, <4>1, <4>2
    <3>2. q \in Request /\ Done(q)'
      BY <2>2, <2>6, <3>1
    <3>3. Failure(q).source = "not_dispatched" => calls[q] = 0
      BY <3>2, Failures DEF SendInv, SentOnce, TypesOK
    <3> QED
      BY <1>1, <3>1, <3>2, <3>3, Relays DEF RecordHonest, Done, Entry
  <2>9. RecordsHonest'
    <3>1. Len(records) \in Nat /\ Len(records) <= Len(records')
      BY <2>2, <2>5 DEF SendInv, TypesOK
    <3>2. \A i \in 1..Len(records) : records'[i] = records[i]
      <4> HIDE DEF new, n
      <4> QED
        BY <2>2, <2>5, <3>1
    <3> QED
      BY <2>5, <2>7, <2>8, <3>1, <3>2, RecordsStep DEF SendInv
  <2>10. TypesOK' /\ SentOnce' /\ AnswersHonest'
    BY <1>1, <2>5, <2>6, Relays DEF SendInv, TypesOK, SentOnce, Handling, AnswersHonest, Unsent, Record
  <2> QED
    BY <2>9, <2>10 DEF SendInv
<1> QED
  BY <1>2, <1>3 DEF FailClosed

LEMMA RemoveStep ==
  ASSUME SendInv, RemoveEpisode
  PROVE  SendInv'
<1>1. /\ relay.at = "dead"
      /\ result' = [r \in Request |-> IF r \in Unanswered THEN Cancelled ELSE result[r]]
      /\ UNCHANGED <<order, claimed, records, relay, known, calls, spent>>
  BY DEF RemoveEpisode, broker, world
<1>2. result' \in [Request -> Audit] /\ \A r \in Request : Done(r) => Done(r)'
  BY <1>1, Audits DEF Done, SendInv, TypesOK
<1>3. TypesOK' /\ SentOnce' /\ AnswersHonest'
  BY <1>1, <1>2 DEF SendInv, TypesOK, SentOnce, Handling, AnswersHonest, Unsent
<1>4. RecordsHonest'
  <2> SUFFICES ASSUME NEW i \in DOMAIN records PROVE RecordHonest(records[i])'
    BY <1>1 DEF RecordsHonest, RecordHonest, Done
  <2>1. records[i] \in Record /\ RecordHonest(records[i])
    BY RecordAt DEF SendInv, RecordsHonest
  <2> QED
    BY <1>1, <1>2, <2>1 DEF RecordHonest, Record, Done
<1> QED
  BY <1>3, <1>4 DEF SendInv

LEMMA SendInvNext == SendInv /\ [Next]_vars => SendInv'
<1> SUFFICES ASSUME SendInv, [Next]_vars PROVE SendInv'
  OBVIOUS
<1> USE DEF mailbox, broker, world
<1>1. ASSUME NEW r \in Request, Check(r) \/ Submit(r) \/ Answer(r) PROVE SendInv'
  <2>1. order \in Seq(Request)
    BY DEF SendInv, TypesOK
  <2>2. order' \in {order, Append(order, r)}
    BY <1>1 DEF Check, Submit, Answer
  <2>3. order' \in Seq(Request)
    BY <2>1, <2>2, AppendProperties
  <2> QED
    BY <1>1, <2>3, QuietStep DEF Check, Submit, Answer
<1>2. ASSUME NEW upto \in cursor..Len(records), Collect(upto) PROVE SendInv'
  BY <1>2, QuietStep DEF Collect, gateway, SendInv, TypesOK
<1>3. CASE Drain \/ GiveUp
  BY <1>3, QuietStep DEF Drain, GiveUp, gateway, SendInv, TypesOK
<1>4. CASE StopRelay
  BY <1>4, Relays, RelayStep DEF StopRelay, gateway, SendInv, TypesOK
<1>5. CASE UNCHANGED vars
  BY <1>5, QuietStep DEF vars, gateway, SendInv, TypesOK
<1> QED
  BY <1>1, <1>2, <1>3, <1>4, <1>5, TimeOutStep, ClaimStep, LoseClaimStep, WorkStep,
     DispatchStep, PostStep, LosePostStep, FailClosedStep, RemoveStep DEF Next

LEMMA SendInvSafe == SendInv => NeverSentAfterAll
<1> SUFFICES ASSUME SendInv PROVE NeverSentAfterAll
  OBVIOUS
<1>1. \A r \in Request : calls[r] <= 1
  BY DEF SendInv, SentOnce
<1>2. \A i \in DOMAIN records :
        records[i].audit.source = "not_dispatched" => calls[records[i].id] = 0
  BY DEF SendInv, RecordsHonest, RecordHonest
<1> QED
  BY <1>1, <1>2 DEF NeverSentAfterAll

\* At most one call to the provider for a request, and none for a request
\* that the records call not dispatched: for any requests, limits and losses.
THEOREM NeverSentAfterAllAlways == Spec => []NeverSentAfterAll
<1>1. Spec => []SendInv
  BY SendInvInit, SendInvNext, PTL DEF Spec
<1> QED
  BY <1>1, SendInvSafe, PTL

(***************************************************************************)
(* Every answer is on record once.  The invariant says besides what a      *)
(* record is: the result of a request that is done; and that the mailbox   *)
(* holds a request once, so that failing all pending ones records each of  *)
(* them once.                                                              *)
(***************************************************************************)
OrderOnce == \A i, j \in DOMAIN order : order[i] = order[j] => i = j

\* What close makes of a future is not an answer; it is set by the removal.
AnswersReal ==
  /\ \A r \in Request : known[r] # Cancelled
  /\ relay.at = "reply" => relay.reply \notin {NoResult, Cancelled}
  /\ ~ gone => \A r \in Request : result[r] # Cancelled

RecordsAgree ==
  /\ \A i, j \in DOMAIN records : records[i].id = records[j].id => i = j
  /\ \A i \in DOMAIN records :
       /\ records[i].audit \notin {NoResult, Cancelled}
       /\ result[records[i].id] = records[i].audit
  /\ \A r \in Request :
       result[r] \notin {NoResult, Cancelled} => \E i \in DOMAIN records : records[i].id = r

RecordInv == SendInv /\ OrderOnce /\ AnswersReal /\ RecordsAgree

Fresh == (Len(records) + 1)..Len(records')

\* What every step but the removal of the episode does to the records: it
\* adds the answers of requests that had none.
Extends ==
  /\ records' \in Seq(Record)
  /\ Len(records) <= Len(records')
  /\ \A i \in 1..Len(records) : records'[i] = records[i]
  /\ \A i \in Fresh :
       /\ ~ Done(records'[i].id)
       /\ result'[records'[i].id] = records'[i].audit
       /\ \/ records'[i].audit = Failure(records'[i].id)
          \/ relay.at = "reply" /\ records'[i] = Entry(relay.work, relay.reply)
  /\ \A i, j \in Fresh : records'[i].id = records'[j].id => i = j
  /\ \A r \in Request : result'[r] = result[r] \/ \E i \in Fresh : records'[i].id = r

LEMMA RecordsLen == ASSUME TypesOK PROVE Len(records) \in Nat /\ records \in Seq(Record)
BY DEF TypesOK, Record

LEMMA ExtendsNone ==
  ASSUME TypesOK, UNCHANGED <<result, records>>
  PROVE  Extends
BY RecordsLen DEF Extends, Fresh

LEMMA ExtendsOne ==
  ASSUME TypesOK, NEW r \in Request, NEW a \in Audit, ~ Done(r),
         a = Failure(r) \/ (relay.at = "reply" /\ r = relay.work /\ a = relay.reply),
         result' = [result EXCEPT ![r] = a],
         records' = Append(records, Entry(r, a))
  PROVE  Extends
<1>1. Len(records) \in Nat /\ records \in Seq(Record) /\ Entry(r, a) \in Record
  BY RecordsLen DEF Record, Entry
<1>2. /\ records' \in Seq(Record)
      /\ Len(records') = Len(records) + 1
      /\ \A i \in 1..Len(records) : records'[i] = records[i]
      /\ records'[Len(records) + 1] = Entry(r, a)
  BY <1>1, AppendProperties
<1>3. Fresh = {Len(records) + 1}
  BY <1>1, <1>2 DEF Fresh
<1>4. Entry(r, a).id = r /\ Entry(r, a).audit = a
  BY DEF Entry
<1>5. result'[r] = a /\ \A q \in Request \ {r} : result'[q] = result[q]
  BY DEF TypesOK
<1>6. Len(records) <= Len(records')
  BY <1>1, <1>2
<1> QED
  BY <1>2, <1>3, <1>4, <1>5, <1>6 DEF Extends

\* The requests that fail together are all those that wait, each once.
LEMMA FailedOnce ==
  ASSUME SendInv, OrderOnce,
         NEW failed \in [1..Cardinality(Unanswered) -> Unanswered],
         \A i, j \in DOMAIN failed : i < j => Earlier(failed[i], failed[j])
  PROVE  /\ Unanswered \subseteq Request
         /\ Cardinality(Unanswered) \in Nat
         /\ \A i, j \in DOMAIN failed : failed[i] = failed[j] => i = j
         /\ \A q \in Unanswered : \E i \in DOMAIN failed : failed[i] = q
<1> DEFINE n == Cardinality(Unanswered)
<1>1. Unanswered \subseteq Request
  BY DEF Unanswered, Held, SendInv, TypesOK
<1>2. IsFiniteSet(Unanswered) /\ n \in Nat
  BY <1>1, FS_Subset, FS_CardinalityType, InferenceConstants
<1>3. ASSUME NEW q PROVE ~ Earlier(q, q)
  <2>1. order \in Seq(Request)
    BY DEF SendInv, TypesOK
  <2> QED
    BY <2>1 DEF Earlier, OrderOnce
<1>4. ASSUME NEW i \in 1..n, NEW j \in 1..n, failed[i] = failed[j] PROVE i = j
  <2>1. ~ (i < j) /\ ~ (j < i)
    BY <1>3, <1>4
  <2> QED
    BY <1>2, <2>1
<1>5. failed \in Injection(1..n, Unanswered)
  BY <1>4 DEF Injection, IsInjective
<1>6. IsFiniteSet(1..n) /\ Cardinality(1..n) = n
  <2> HIDE DEF n
  <2> QED
    BY <1>2, FS_Interval
<1>7. failed \in Surjection(1..n, Unanswered)
  BY <1>2, <1>5, <1>6, FS_Injection
<1> QED
  BY <1>1, <1>2, <1>4, <1>7 DEF Surjection

LEMMA ExtendsPending ==
  ASSUME SendInv, OrderOnce, FailPending
  PROVE  Extends
<1>1. PICK failed \in [1..Cardinality(Unanswered) -> Unanswered] :
        /\ \A i, j \in DOMAIN failed : i < j => Earlier(failed[i], failed[j])
        /\ records' = records \o [i \in DOMAIN failed |-> Entry(failed[i], Failure(failed[i]))]
  BY DEF FailPending
<1> DEFINE n == Cardinality(Unanswered)
           new == [i \in 1..n |-> Entry(failed[i], Failure(failed[i]))]
<1>2. /\ Unanswered \subseteq Request
      /\ n \in Nat
      /\ \A i, j \in 1..n : failed[i] = failed[j] => i = j
      /\ \A q \in Unanswered : \E i \in 1..n : failed[i] = q
  BY <1>1, FailedOnce
<1>3. \A i \in 1..n : /\ failed[i] \in Unanswered
                      /\ new[i] \in Record
                      /\ new[i].id = failed[i]
                      /\ new[i].audit = Failure(failed[i])
  BY <1>2, Failures DEF Record, Entry
<1>4. new \in Seq(Record) /\ Len(new) = n
  BY <1>2, <1>3
<1>5. Len(records) \in Nat /\ records \in Seq(Record) /\ records' = records \o new
  BY <1>1, RecordsLen DEF SendInv
<1>6. result' = [r \in Request |-> IF r \in Unanswered THEN Failure(r) ELSE result[r]]
  BY DEF FailPending
<1> HIDE DEF new, n
<1>7. /\ records' \in Seq(Record)
      /\ Len(records') = Len(records) + n
      /\ \A i \in 1..(Len(records) + n) :
           records'[i] = IF i <= Len(records) THEN records[i] ELSE new[i - Len(records)]
  BY <1>4, <1>5, ConcatProperties
<1>8. \A i \in Fresh : i - Len(records) \in 1..n /\ records'[i] = new[i - Len(records)]
  BY <1>2, <1>5, <1>7 DEF Fresh
<1>9. ASSUME NEW i \in Fresh
      PROVE  /\ ~ Done(records'[i].id)
             /\ result'[records'[i].id] = records'[i].audit
             /\ records'[i].audit = Failure(records'[i].id)
  BY <1>2, <1>3, <1>6, <1>8 DEF Unanswered
<1>10. ASSUME NEW i \in Fresh, NEW j \in Fresh, records'[i].id = records'[j].id PROVE i = j
  <2>1. i - Len(records) = j - Len(records)
    BY <1>2, <1>3, <1>8, <1>10
  <2> QED
    BY <1>5, <2>1 DEF Fresh
<1>11. ASSUME NEW r \in Request PROVE result'[r] = result[r] \/ \E i \in Fresh : records'[i].id = r
  <2>1. CASE r \in Unanswered
    <3>1. PICK i \in 1..n : failed[i] = r
      BY <1>2, <2>1
    <3>2. i + Len(records) \in Fresh /\ records'[i + Len(records)] = new[i]
      BY <1>2, <1>5, <1>7 DEF Fresh
    <3> QED
      BY <1>3, <3>1, <3>2
  <2> QED
    BY <1>6, <2>1
<1>12. Len(records) <= Len(records') /\ \A i \in 1..Len(records) : records'[i] = records[i]
  BY <1>2, <1>5, <1>7
<1> QED
  BY <1>7, <1>9, <1>10, <1>11, <1>12 DEF Extends

LEMMA ExtendsComplete ==
  ASSUME SendInv, relay.at = "reply", Complete(relay.work, relay.reply)
  PROVE  Extends
<1>1. relay.work \in Request /\ relay.reply \in Audit
  BY DEF SendInv, TypesOK, SentOnce, Handling, Relay
<1> QED
  BY <1>1, ExtendsOne, ExtendsNone DEF Complete, Repeated, SendInv

LEMMA StepExtends ==
  ASSUME SendInv, OrderOnce, [Next]_vars
  PROVE  RemoveEpisode \/ Extends
<1> USE ExtendsNone DEF SendInv, gateway, mailbox
<1>1. ASSUME NEW r \in Request, Check(r) \/ Submit(r) \/ Answer(r) \/ Claim(r) PROVE Extends
  BY <1>1 DEF Check, Submit, Answer, Claim
<1>2. ASSUME NEW r \in Request, TimeOut(r) PROVE Extends
  BY <1>2, ExtendsOne, Failures DEF TimeOut, Fail
<1>3. CASE LoseClaim \/ Work \/ Dispatch
  BY <1>3 DEF LoseClaim, Work, Dispatch
<1>4. ASSUME Post PROVE Extends
  BY <1>4, ExtendsComplete DEF Post
<1>5. ASSUME NEW delivered \in BOOLEAN, LosePost(delivered) PROVE Extends
  BY <1>5, ExtendsComplete DEF LosePost
<1>6. ASSUME NEW delivered \in BOOLEAN, FailClosed(delivered) PROVE Extends
  BY <1>6, ExtendsPending DEF FailClosed
<1>7. ASSUME NEW upto \in cursor..Len(records), Collect(upto) PROVE Extends
  BY <1>7 DEF Collect
<1>8. CASE Drain \/ GiveUp \/ StopRelay
  BY <1>8 DEF Drain, GiveUp, StopRelay
<1>9. CASE UNCHANGED vars
  BY <1>9 DEF vars
<1> QED
  BY <1>1, <1>2, <1>3, <1>4, <1>5, <1>6, <1>7, <1>8, <1>9 DEF Next

LEMMA FreshAnswers ==
  ASSUME SendInv, AnswersReal, Extends, NEW i \in Fresh
  PROVE  /\ i \in DOMAIN records'
         /\ records'[i] \in Record
         /\ records'[i].audit \notin {NoResult, Cancelled}
<1>1. i \in DOMAIN records' /\ records'[i] \in Record
  BY RecordsLen DEF Extends, Fresh, SendInv
<1>2. CASE records'[i].audit = Failure(records'[i].id)
  BY <1>1, <1>2 DEF Failure, NoResult, Cancelled
<1>3. CASE relay.at = "reply" /\ records'[i] = Entry(relay.work, relay.reply)
  BY <1>1, <1>3 DEF AnswersReal, Entry
<1> QED
  BY <1>1, <1>2, <1>3 DEF Extends

LEMMA AgreeExtends ==
  ASSUME RecordInv, Extends
  PROVE  RecordsAgree'
<1> USE DEF RecordInv
<1>1. Len(records) \in Nat /\ records \in Seq(Record) /\ records' \in Seq(Record)
  BY RecordsLen DEF SendInv, Extends
<1>2. DOMAIN records' = DOMAIN records \cup Fresh /\ DOMAIN records \cap Fresh = {}
  <2>1. DOMAIN records = 1..Len(records) /\ DOMAIN records' = 1..Len(records')
    BY <1>1
  <2>2. Len(records) <= Len(records') /\ Len(records') \in Nat
    BY <1>1 DEF Extends
  <2> QED
    BY <1>1, <2>1, <2>2 DEF Fresh
<1>3. ASSUME NEW i \in DOMAIN records
      PROVE  /\ records'[i] = records[i]
             /\ records[i] \in Record
             /\ Done(records[i].id)
             /\ \A j \in Fresh : records'[j].id # records[i].id
             /\ result'[records[i].id] = records[i].audit
  <2>1. records'[i] = records[i] /\ records[i] \in Record
    BY <1>1, <1>3 DEF Extends
  <2>2. result[records[i].id] = records[i].audit /\ Done(records[i].id)
    BY <1>3 DEF RecordsAgree, Done
  <2>3. \A j \in Fresh : records'[j].id # records[i].id
    BY <2>2 DEF Extends
  <2>4. result'[records[i].id] = result[records[i].id]
    BY <2>1, <2>3 DEF Extends, Record
  <2> QED
    BY <2>1, <2>2, <2>3, <2>4
<1>4. \A i, j \in DOMAIN records' : records'[i].id = records'[j].id => i = j
  <2> SUFFICES ASSUME NEW i \in DOMAIN records', NEW j \in DOMAIN records',
                      records'[i].id = records'[j].id
               PROVE  i = j
    OBVIOUS
  <2>1. CASE i \in Fresh /\ j \in Fresh
    BY <2>1 DEF Extends
  <2>2. CASE i \in DOMAIN records /\ j \in DOMAIN records
    BY <1>3, <2>2 DEF RecordsAgree
  <2> QED
    BY <1>2, <1>3, <2>1, <2>2
<1>5. ASSUME NEW i \in DOMAIN records'
      PROVE  /\ records'[i].audit \notin {NoResult, Cancelled}
             /\ result'[records'[i].id] = records'[i].audit
  <2>1. CASE i \in Fresh
    BY <2>1, FreshAnswers DEF Extends
  <2>2. CASE i \in DOMAIN records
    BY <1>3, <2>2 DEF RecordsAgree
  <2> QED
    BY <1>2, <1>5, <2>1, <2>2
<1>6. ASSUME NEW r \in Request, result'[r] \notin {NoResult, Cancelled}
      PROVE  \E i \in DOMAIN records' : records'[i].id = r
  <2>1. CASE result'[r] = result[r]
    <3>1. PICK i \in DOMAIN records : records[i].id = r
      BY <1>6, <2>1 DEF RecordsAgree
    <3> QED
      BY <1>2, <1>3, <3>1
  <2>2. CASE \E i \in Fresh : records'[i].id = r
    BY <1>2, <2>2
  <2> QED
    BY <2>1, <2>2 DEF Extends
<1> QED
  BY <1>4, <1>5, <1>6 DEF RecordsAgree

LEMMA AgreeRemove ==
  ASSUME RecordInv, RemoveEpisode
  PROVE  RecordsAgree'
<1>1. /\ result' = [r \in Request |-> IF r \in Unanswered THEN Cancelled ELSE result[r]]
      /\ UNCHANGED records
  BY DEF RemoveEpisode
<1>2. ASSUME NEW i \in DOMAIN records PROVE result'[records[i].id] = records[i].audit
  <2>1. records[i].id \in Request /\ result[records[i].id] = records[i].audit /\ Done(records[i].id)
    BY RecordAt DEF RecordInv, SendInv, Record, RecordsAgree, Done
  <2> QED
    BY <1>1, <2>1 DEF Unanswered
<1>3. \A r \in Request : result'[r] \notin {NoResult, Cancelled} => result'[r] = result[r]
  BY <1>1
<1> QED
  BY <1>1, <1>2, <1>3 DEF RecordInv, RecordsAgree

\* What the relay brings back, and what the broker remembers, is an answer.
LEMMA AnswersNext ==
  ASSUME RecordInv, [Next]_vars
  PROVE  /\ \A r \in Request : known'[r] # Cancelled
         /\ relay'.at = "reply" => relay'.reply \notin {NoResult, Cancelled}
<1> USE DEF RecordInv, AnswersReal, broker
<1>1. ASSUME NEW audit \in {Succeeded(spent[relay.work]), Unmeasured, CallFailed, Rejected}
      PROVE  audit \notin {NoResult, Cancelled}
  BY <1>1 DEF Succeeded, Unmeasured, CallFailed, Rejected, NoResult, Cancelled
<1>2. ASSUME NEW audit, Answered(audit), audit \notin {NoResult, Cancelled},
             relay.at \in {"work", "dispatch"},
             UNCHANGED known \/ known' = [known EXCEPT ![relay.work] = audit]
      PROVE  /\ \A r \in Request : known'[r] # Cancelled
             /\ relay'.reply \notin {NoResult, Cancelled}
  <2>1. relay \in Relay /\ relay.work \in Request /\ known \in [Request -> Audit]
    BY <1>2 DEF SendInv, TypesOK, SentOnce, Handling
  <2>2. relay'.reply = audit
    BY <1>2, <2>1 DEF Answered, Relay
  <2> QED
    BY <1>2, <2>1, <2>2
<1>3. CASE Work
  <2>1. relay.at = "work" /\ relay \in Relay /\ known \in [Request -> Audit] /\ relay.work \in Request
    BY <1>3 DEF Work, SendInv, TypesOK, SentOnce, Handling
  <2>2. CASE known[relay.work] # NoResult /\ Answered(known[relay.work]) /\ UNCHANGED broker
    BY <1>2, <2>1, <2>2
  <2>3. CASE known' = [known EXCEPT ![relay.work] = Rejected] /\ Answered(Rejected)
    BY <1>1, <1>2, <2>1, <2>3
  <2>4. CASE relay' = [relay EXCEPT !.at = "dispatch"] /\ UNCHANGED known
    BY <2>1, <2>4 DEF Relay
  <2> QED
    BY <1>3, <2>2, <2>3, <2>4 DEF Work
<1>4. CASE Dispatch
  BY <1>1, <1>2, <1>4 DEF Dispatch
<1>5. CASE UNCHANGED <<known, relay>>
  BY <1>5
<1>6. CASE UNCHANGED known /\ relay'.at # "reply"
  BY <1>6
<1>7. ASSUME relay.at = "reply", TriesAgain, UNCHANGED known
      PROVE  relay'.at = "reply" => relay'.reply \notin {NoResult, Cancelled}
  BY <1>7, Retries
<1>8. ASSUME NEW r \in Request, Check(r) \/ Submit(r) \/ Answer(r) \/ TimeOut(r) \/ Claim(r)
      PROVE  UNCHANGED known /\ (UNCHANGED relay \/ relay'.at = "work")
  BY <1>8 DEF Check, Submit, Answer, TimeOut, Claim, Polling
<1>9. CASE LoseClaim
  BY <1>6, <1>9, LoseClaimEnds DEF LoseClaim
<1>10. ASSUME NEW delivered \in BOOLEAN, FailClosed(delivered)
       PROVE  UNCHANGED known /\ relay'.at # "reply"
  BY <1>10, Relays DEF FailClosed
<1>11. CASE Post
  BY <1>6, <1>7, <1>11, Relays DEF Post
<1>12. ASSUME NEW delivered \in BOOLEAN, LosePost(delivered)
       PROVE  UNCHANGED known /\ (relay'.at = "reply" => relay'.reply \notin {NoResult, Cancelled})
  BY <1>7, <1>12 DEF LosePost
<1>13. ASSUME NEW upto \in cursor..Len(records), Collect(upto) PROVE UNCHANGED <<known, relay>>
  BY <1>13 DEF Collect
<1>14. CASE Drain \/ GiveUp \/ RemoveEpisode
  BY <1>5, <1>14 DEF Drain, GiveUp, RemoveEpisode
<1>15. CASE StopRelay
  BY <1>6, <1>15, Relays DEF StopRelay
<1>16. CASE UNCHANGED vars
  BY <1>5, <1>16 DEF vars
<1> QED
  BY <1>3, <1>4, <1>5, <1>6, <1>8, <1>9, <1>10, <1>11, <1>12, <1>13, <1>14, <1>15, <1>16 DEF Next

LEMMA OrderNext ==
  ASSUME SendInv, OrderOnce, [Next]_vars
  PROVE  OrderOnce'
<1>1. order \in Seq(Request)
  BY DEF SendInv, TypesOK
<1>2. ASSUME NEW r \in Request, r \notin Held, order' = Append(order, r) PROVE OrderOnce'
  <2>1. DOMAIN order = 1..Len(order) /\ Len(order) \in Nat /\ \A i \in DOMAIN order : order[i] # r
    BY <1>1, <1>2 DEF Held
  <2>2. /\ DOMAIN order' = 1..(Len(order) + 1)
        /\ order'[Len(order) + 1] = r
        /\ \A i \in 1..Len(order) : order'[i] = order[i]
    <3>1. order' \in Seq(Request) /\ Len(order') = Len(order) + 1
      BY <1>1, <1>2, AppendProperties
    <3> QED
      BY <1>1, <1>2, <3>1, AppendProperties
  <2> QED
    BY <2>1, <2>2 DEF OrderOnce
<1>3. CASE UNCHANGED order
  BY <1>3 DEF OrderOnce
<1>4. ASSUME NEW r \in Request, Submit(r) PROVE OrderOnce'
  BY <1>2, <1>3, <1>4 DEF Submit
<1>5. CASE ~ (\E r \in Request : Submit(r))
  <2>1. UNCHANGED order
    BY <1>5 DEF Next, vars, gateway, mailbox, Check, Answer, TimeOut, Claim, LoseClaim, Work, Dispatch,
       Post, LosePost, FailClosed, Collect, Drain, GiveUp, StopRelay, RemoveEpisode
  <2> QED
    BY <1>3, <2>1
<1> QED
  BY <1>4, <1>5

LEMMA RecordInvNext == RecordInv /\ [Next]_vars => RecordInv'
<1> SUFFICES ASSUME RecordInv, [Next]_vars PROVE RecordInv'
  OBVIOUS
<1>1. SendInv' /\ OrderOnce'
  BY SendInvNext, OrderNext DEF RecordInv
<1>2. CASE RemoveEpisode
  <2>1. gone'
    BY <1>2 DEF RemoveEpisode
  <2> QED
    BY <1>1, <1>2, <2>1, AnswersNext, AgreeRemove DEF RecordInv, AnswersReal
<1>3. CASE Extends /\ ~ RemoveEpisode
  <2>1. gone' = gone
    BY <1>3 DEF Next, vars, gateway, Check, Submit, Answer, TimeOut, Claim, LoseClaim, Work, Dispatch,
       Post, LosePost, FailClosed, Collect, Drain, GiveUp, StopRelay
  <2>2. ASSUME NEW r \in Request, ~ gone PROVE result'[r] # Cancelled
    <3>1. CASE result'[r] = result[r]
      BY <2>2, <3>1 DEF RecordInv, AnswersReal
    <3>2. CASE \E i \in Fresh : records'[i].id = r
      BY <1>3, <3>2, FreshAnswers DEF RecordInv, Extends
    <3> QED
      BY <1>3, <3>1, <3>2 DEF Extends
  <2> QED
    BY <1>1, <1>3, <2>1, <2>2, AnswersNext, AgreeExtends DEF RecordInv, AnswersReal
<1> QED
  BY <1>2, <1>3, StepExtends DEF RecordInv

LEMMA RecordInvInit == Init => RecordInv
<1> SUFFICES ASSUME Init PROVE RecordInv
  OBVIOUS
<1>1. SendInv
  BY SendInvInit
<1>2. OrderOnce
  BY DEF Init, OrderOnce
<1>3. AnswersReal
  BY Audits, Relays DEF Init, AnswersReal
<1>4. RecordsAgree
  BY DEF Init, RecordsAgree
<1> QED
  BY <1>1, <1>2, <1>3, <1>4 DEF RecordInv

LEMMA RecordInvSafe == RecordInv => RecordedOnce
<1> SUFFICES ASSUME RecordInv PROVE RecordedOnce
  OBVIOUS
<1>1. \A i, j \in DOMAIN records : records[i].id = records[j].id => i = j
  BY DEF RecordInv, RecordsAgree
<1>2. ASSUME NEW r \in Request, Done(r), result[r] # Cancelled
      PROVE  \E i \in DOMAIN records : records[i] = Entry(r, result[r])
  <2>1. PICK i \in DOMAIN records : records[i].id = r
    BY <1>2 DEF RecordInv, RecordsAgree, Done
  <2>2. records[i] \in Record /\ records[i].audit = result[r]
    BY <2>1, RecordAt DEF RecordInv, SendInv, RecordsAgree
  <2> QED
    BY <2>1, <2>2 DEF Record, Entry
<1>3. ASSUME NEW r \in Request, NEW i \in DOMAIN records, records[i] = Entry(r, result[r])
      PROVE  Done(r) /\ result[r] # Cancelled
  BY <1>3 DEF RecordInv, RecordsAgree, Entry, Done
<1> QED
  BY <1>1, <1>2, <1>3 DEF RecordedOnce

\* Each answer of the mailbox is on record once, and the records hold nothing
\* else: for any requests, losses, repeated posts, time-outs and removals.
THEOREM AnswersRecordedOnce == Spec => []RecordedOnce
<1>1. Spec => []RecordInv
  BY RecordInvInit, RecordInvNext, PTL DEF Spec
<1> QED
  BY <1>1, RecordInvSafe, PTL

(***************************************************************************)
(* The token budget.  The broker's count is, for each request it sent, the *)
(* reservation until it has the answer and what the answer says after it;  *)
(* and it goes over the maximum only by the call it settled last.          *)
(***************************************************************************)
Charges == [r \in Request |-> IF known[r] = NoResult THEN Reserve ELSE known[r].tokens]

\* What is said of a request's tokens covers what it used and, if it does not
\* cover the reservation, it is said of a request that will not be sent.
Covered(audit, r) ==
  \/ Reserve <= audit.tokens
  \/ spent[r] <= audit.tokens /\ ~ (relay.at = "work" /\ relay.work = r)

SpendingCovered ==
  /\ spent \in [Request -> 0..MaxUse]
  /\ \A r \in Request : calls[r] = 0 => spent[r] = 0
  /\ relay.at = "reply" => Covered(relay.reply, relay.work)
  /\ \A i \in DOMAIN records : Covered(records[i].audit, records[i].id)

BudgetKept ==
  /\ tokens = SumFunctionOnSet(Charges, Sent)
  /\ \A r \in Request : known[r] # NoResult =>
       r \in claimed /\ ~ (relay.at \in {"work", "dispatch"} /\ relay.work = r)
  /\ \A r \in Sent : known[r] \in {NoResult, Succeeded(spent[r]), Unmeasured, CallFailed}
  /\ tokens <= MaxTokens + Excess
  /\ relay.at = "dispatch" => relay.work \in Sent /\ tokens <= MaxTokens

SpendInv == RecordInv /\ SpendingCovered /\ BudgetKept

LEMMA Limits ==
  /\ Reserve \in Nat /\ MaxUse \in Nat /\ MaxTokens \in Nat /\ Excess \in Nat
  /\ MaxUse <= Reserve + Excess
  /\ IsFiniteSet(Request)
BY InferenceConstants DEF Excess

LEMMA ChargesType ==
  ASSUME SendInv
  PROVE  /\ \A r \in Request : Charges[r] \in Nat
         /\ Sent \subseteq Request /\ IsFiniteSet(Sent)
<1>1. \A r \in Request : Charges[r] \in Nat
  BY Limits DEF SendInv, TypesOK, Audit, Charges
<1>2. Sent \subseteq Request
  BY DEF Sent
<1> QED
  BY <1>1, <1>2, Limits, FS_Subset

\* Which steps concern the relay, the broker and the provider.
LEMMA RelayMoves ==
  ASSUME SendInv, [Next]_vars
  PROVE  /\ \/ UNCHANGED relay
            \/ relay'.at \notin {"work", "dispatch"}
            \/ Work
            \/ \E r \in Request : Claim(r) /\ relay'.at = "work" /\ relay'.work = r
         /\ \/ relay'.at # "reply"
            \/ Work \/ Dispatch
            \/ relay.at = "reply" /\ relay'.work = relay.work /\ relay'.reply = relay.reply
         /\ Work \/ UNCHANGED <<calls, spent>>
         /\ Work \/ Dispatch \/ UNCHANGED <<known, tokens>>
         /\ claimed \subseteq claimed'
<1> USE DEF gateway, mailbox, broker, world
<1>1. ASSUME NEW r \in Request, Check(r) \/ Submit(r) \/ Answer(r) \/ TimeOut(r)
      PROVE  UNCHANGED <<claimed, relay, known, tokens, calls, spent>>
  BY <1>1 DEF Check, Submit, Answer, TimeOut
<1>2. ASSUME NEW r \in Request, Claim(r)
      PROVE  /\ relay'.at = "work" /\ relay'.work = r
             /\ UNCHANGED <<known, tokens, calls, spent>> /\ claimed \subseteq claimed'
  BY <1>2 DEF Claim, Polling
<1>3. ASSUME LoseClaim
      PROVE  /\ relay'.at \in {"claim", "failing"}
             /\ UNCHANGED <<known, tokens, calls, spent>> /\ claimed \subseteq claimed'
  BY <1>3, LoseClaimEnds DEF LoseClaim
<1>4. ASSUME Post \/ \E delivered \in BOOLEAN : LosePost(delivered)
      PROVE  /\ relay.at = "reply" /\ relay'.at \in {"claim", "failing", "reply"}
             /\ relay'.at = "reply" => relay'.work = relay.work /\ relay'.reply = relay.reply
             /\ UNCHANGED <<claimed, known, tokens, calls, spent>>
  BY <1>4, Retries, Relays DEF Post, LosePost
<1>5. ASSUME StopRelay \/ \E delivered \in BOOLEAN : FailClosed(delivered)
      PROVE  relay'.at = "dead" /\ UNCHANGED <<claimed, known, tokens, calls, spent>>
  BY <1>5, Relays DEF StopRelay, FailClosed
<1>6. ASSUME \/ \E upto \in cursor..Len(records) : Collect(upto)
             \/ Drain \/ GiveUp \/ RemoveEpisode
      PROVE  UNCHANGED <<claimed, relay, known, tokens, calls, spent>>
  BY <1>6 DEF Collect, Drain, GiveUp, RemoveEpisode
<1>7. ASSUME Work PROVE claimed' = claimed
  BY <1>7 DEF Work
<1>8. ASSUME Dispatch PROVE UNCHANGED <<claimed, calls, spent>> /\ relay'.at = "reply"
  <2>1. relay \in Relay
    BY DEF SendInv, TypesOK
  <2> QED
    BY <1>8, <2>1 DEF Dispatch, Answered, Relay
<1>9. ASSUME UNCHANGED vars PROVE UNCHANGED <<claimed, relay, known, tokens, calls, spent>>
  BY <1>9 DEF vars
<1> QED
  BY <1>1, <1>2, <1>3, <1>4, <1>5, <1>6, <1>7, <1>8, <1>9 DEF Next

LEMMA BudgetQuiet ==
  ASSUME SendInv, BudgetKept, UNCHANGED <<known, tokens, calls, spent>>, claimed \subseteq claimed',
         \/ UNCHANGED relay
         \/ relay'.at \notin {"work", "dispatch"}
         \/ relay'.at = "work" /\ relay'.work \notin claimed
  PROVE  BudgetKept'
<1>1. Sent' = Sent /\ Charges' = Charges
  BY DEF Sent, Charges
<1> QED
  BY <1>1 DEF BudgetKept

\* What the relay has in hand when the broker sends it.
LEMMA BudgetWork ==
  ASSUME SpendInv, Work
  PROVE  /\ BudgetKept'
         /\ spent' \in [Request -> 0..MaxUse]
         /\ \A r \in Request : r # relay.work => spent'[r] = spent[r]
         /\ \A r \in Request : calls'[r] = 0 => spent'[r] = 0
         /\ relay'.at # "work"
         /\ relay'.at = "reply" => Covered(relay.reply, relay.work)'
<1> USE DEF SpendInv, RecordInv, broker, gateway, mailbox
<1> DEFINE r == relay.work
<1>1. /\ relay \in Relay /\ relay.at = "work" /\ r \in Request /\ calls[r] = 0 /\ r \in claimed
      /\ r \notin Sent /\ spent[r] = 0
  BY DEF Work, SendInv, TypesOK, SentOnce, Handling, Sent, SpendingCovered
<1>2. /\ spent \in [Request -> 0..MaxUse] /\ known \in [Request -> Audit] /\ calls \in [Request -> Nat]
      /\ known[r] = NoResult
  BY <1>1 DEF SpendingCovered, BudgetKept, SendInv, TypesOK
<1>3. CASE /\ known' = [known EXCEPT ![r] = Rejected]
           /\ Answered(Rejected)
           /\ UNCHANGED <<tokens, spent, calls, claimed>>
  <2>1. relay'.at = "reply" /\ relay'.work = r /\ relay'.reply = Rejected
    BY <1>1, <1>3 DEF Answered, Relay
  <2>2. Sent' = Sent
    BY <1>3 DEF Sent
  <2>3. \A q \in Sent : Charges'[q] = Charges[q] /\ known'[q] = known[q]
    BY <1>1, <1>3 DEF Charges, Sent
  <2>4. SumFunctionOnSet(Charges', Sent) = SumFunctionOnSet(Charges, Sent)
    BY <2>3, ChargesType, SumSame
  <2>5. \A q \in Request : known'[q] # NoResult => q \in claimed'
    BY <1>1, <1>2, <1>3 DEF BudgetKept
  <2>6. BudgetKept'
    BY <1>3, <2>1, <2>2, <2>3, <2>4, <2>5 DEF BudgetKept
  <2>7. Covered(relay.reply, relay.work)'
    BY <1>1, <1>3, <2>1 DEF Covered, Rejected
  <2> QED
    BY <1>2, <1>3, <2>1, <2>6, <2>7 DEF SpendingCovered
<1>4. CASE /\ Affordable
           /\ tokens' = Reserved
           /\ calls' = [calls EXCEPT ![r] = @ + 1]
           /\ \E n \in 0..MaxUse : spent' = [spent EXCEPT ![r] = n]
           /\ relay' = [relay EXCEPT !.at = "dispatch"]
           /\ UNCHANGED <<known, claimed>>
  <2>1. relay'.at = "dispatch" /\ relay'.work = r
    BY <1>1, <1>4 DEF Relay
  <2>2. calls'[r] = 1 /\ \A q \in Request \ {r} : calls'[q] = calls[q]
    BY <1>1, <1>2, <1>4
  <2>3. spent' \in [Request -> 0..MaxUse] /\ \A q \in Request \ {r} : spent'[q] = spent[q]
    BY <1>1, <1>2, <1>4
  <2>4. Sent' = Sent \cup {r} /\ Charges' = Charges /\ Charges[r] = Reserve
    <3>1. \A q \in Request : calls'[q] > 0 <=> calls[q] > 0 \/ q = r
      BY <2>2
    <3> QED
      BY <1>1, <1>2, <1>4, <3>1 DEF Sent, Charges
  <2>5. tokens' = SumFunctionOnSet(Charges', Sent')
    <3>1. SumFunctionOnSet(Charges, Sent \cup {r}) = SumFunctionOnSet(Charges, Sent) + Charges[r]
      BY <1>1, ChargesType, SumAdd
    <3> QED
      BY <1>4, <2>4, <3>1 DEF BudgetKept, Reserved
  <2>6. tokens' <= MaxTokens /\ tokens' \in Nat
    <3>1. tokens \in Nat
      BY ChargesType, SumType DEF BudgetKept
    <3> QED
      BY <1>4, <3>1, Limits DEF Affordable, Reserved
  <2>7. \A q \in Sent' : known'[q] \in {NoResult, Succeeded(spent'[q]), Unmeasured, CallFailed}
    BY <1>2, <1>4, <2>3, <2>4 DEF BudgetKept, Sent
  <2>8. \A q \in Request : known'[q] # NoResult =>
          q \in claimed' /\ ~ (relay'.at \in {"work", "dispatch"} /\ relay'.work = q)
    BY <1>1, <1>2, <1>4, <2>1 DEF BudgetKept
  <2>9. BudgetKept'
    <3>1. tokens' <= MaxTokens + Excess
      BY <2>6, Limits
    <3>2. Excess' = Excess
      BY DEF Excess
    <3> QED
      BY <2>1, <2>4, <2>5, <2>6, <2>7, <2>8, <3>1, <3>2 DEF BudgetKept
  <2>10. \A q \in Request : calls'[q] = 0 => spent'[q] = 0
    BY <1>2, <2>2, <2>3 DEF SpendingCovered
  <2> QED
    BY <2>1, <2>3, <2>9, <2>10
<1> QED
  BY <1>2, <1>3, <1>4 DEF Work

LEMMA BudgetDispatch ==
  ASSUME SpendInv, Dispatch
  PROVE  BudgetKept' /\ relay'.at = "reply" /\ Covered(relay.reply, relay.work)'
<1> USE DEF SpendInv, RecordInv, broker, gateway, mailbox, world
<1> DEFINE r == relay.work
<1>1. /\ relay \in Relay /\ relay.at = "dispatch" /\ r \in Request /\ r \in claimed
      /\ UNCHANGED <<claimed, calls, spent>>
  BY DEF Dispatch, SendInv, TypesOK, SentOnce, Handling
<1>2. PICK audit \in {Succeeded(spent[r]), Unmeasured, CallFailed} :
        /\ tokens' = tokens + audit.tokens - Reserve
        /\ known' = [known EXCEPT ![r] = audit]
        /\ Answered(audit)
  BY DEF Dispatch
<1>3. relay'.at = "reply" /\ relay'.work = r /\ relay'.reply = audit
  BY <1>1, <1>2 DEF Answered, Relay
<1>4. r \in Sent /\ known[r] = NoResult /\ tokens <= MaxTokens /\ known \in [Request -> Audit]
  BY <1>1 DEF BudgetKept, SendInv, TypesOK
<1>5. /\ audit.tokens \in Nat /\ audit.tokens <= Reserve + Excess
      /\ audit.tokens = spent[r] \/ audit.tokens = Reserve
      /\ audit # NoResult
  BY <1>1, <1>2, Limits DEF Succeeded, Unmeasured, CallFailed, NoResult, SpendingCovered
<1>6. Sent' = Sent
  BY <1>1 DEF Sent
<1>7. /\ Charges[r] = Reserve /\ Charges'[r] = audit.tokens
      /\ \A q \in Sent \ {r} : Charges'[q] = Charges[q]
  BY <1>1, <1>2, <1>4, <1>5 DEF Charges, Sent
<1> DEFINE rest == Sent \ {r}
<1>8. IsFiniteSet(Sent) /\ IsFiniteSet(rest) /\ \A q \in Sent : Charges[q] \in Nat
  BY ChargesType, FS_Subset
<1>9. SumFunctionOnSet(Charges, Sent) = Reserve + SumFunctionOnSet(Charges, rest)
  BY <1>4, <1>7, <1>8, SumRemove
<1>10. SumFunctionOnSet(Charges', Sent) = audit.tokens + SumFunctionOnSet(Charges', rest)
  <2>1. \A q \in Sent : Charges'[q] \in Nat
    BY <1>5, <1>7, <1>8
  <2> QED
    BY <1>4, <1>7, <1>8, <2>1, SumRemove
<1>11. SumFunctionOnSet(Charges', rest) = SumFunctionOnSet(Charges, rest)
  BY <1>7, <1>8, SumSame
<1>12. SumFunctionOnSet(Charges, rest) \in Nat
  BY <1>8, SumType
<1> HIDE DEF rest
<1>13. tokens' = SumFunctionOnSet(Charges', Sent') /\ tokens' <= MaxTokens + Excess
  BY <1>2, <1>4, <1>5, <1>6, <1>9, <1>10, <1>11, <1>12, Limits DEF BudgetKept
<1>14. \A q \in Sent' : known'[q] \in {NoResult, Succeeded(spent'[q]), Unmeasured, CallFailed}
  BY <1>1, <1>2, <1>4, <1>6 DEF BudgetKept, Sent
<1>15. \A q \in Request : known'[q] # NoResult => q \in claimed'
  BY <1>1, <1>2, <1>4 DEF BudgetKept
<1>16. BudgetKept'
  BY <1>3, <1>13, <1>14, <1>15 DEF BudgetKept, Excess
<1>17. Covered(relay.reply, relay.work)'
  BY <1>1, <1>3, <1>5, Limits DEF Covered, SpendingCovered
<1> QED
  BY <1>3, <1>16, <1>17

\* An answer on record, and one that is added, covers what the call used.
LEMMA RecordsCovered ==
  ASSUME SpendInv, [Next]_vars
  PROVE  \A i \in DOMAIN records' : Covered(records[i].audit, records[i].id)'
<1> USE DEF SpendInv, RecordInv
<1>1. /\ \/ relay'.at # "work"
         \/ UNCHANGED relay
         \/ \E r \in Request : Claim(r) /\ relay'.work = r
      /\ \A r \in Request : spent'[r] = spent[r] \/ (Work /\ r = relay.work)
  BY RelayMoves, BudgetWork
<1>2. Claim(relay'.work) => ~ Done(relay'.work) /\ UNCHANGED records
  BY DEF Claim, Offers, Claimable
<1>3. ASSUME NEW i \in DOMAIN records, records'[i] = records[i]
      PROVE  Covered(records[i].audit, records[i].id)'
  <2>1. /\ records[i].id \in Request /\ Done(records[i].id)
        /\ Covered(records[i].audit, records[i].id)
    BY RecordAt DEF SendInv, Record, RecordsAgree, Done, SpendingCovered
  <2>2. CASE Reserve <= records[i].audit.tokens
    BY <1>3, <2>2 DEF Covered
  <2>3. CASE /\ spent[records[i].id] <= records[i].audit.tokens
             /\ ~ (relay.at = "work" /\ relay.work = records[i].id)
    <3>1. spent'[records[i].id] = spent[records[i].id]
      BY <1>1, <2>1, <2>3 DEF Work
    <3>2. ~ (relay'.at = "work" /\ relay'.work = records[i].id)
      BY <1>1, <1>2, <2>1, <2>3
    <3> QED
      BY <1>3, <2>3, <3>1, <3>2 DEF Covered
  <2> QED
    BY <2>1, <2>2, <2>3 DEF Covered
<1>4. CASE RemoveEpisode
  BY <1>3, <1>4 DEF RemoveEpisode
<1>5. ASSUME Extends, NEW i \in Fresh
      PROVE  Covered(records[i].audit, records[i].id)'
  <2> DEFINE r == records'[i].id
  <2>1. r \in Request /\ records' # records /\ ~ Work
    <3>1. Len(records') # Len(records)
      BY <1>5, RecordsLen DEF Fresh, SendInv, Extends
    <3> QED
      BY <1>5, <3>1, FreshAnswers DEF Record, Work, gateway, mailbox
  <2>2. spent'[r] = spent[r] /\ (UNCHANGED relay \/ relay'.at # "work")
    BY <1>1, <1>2, <2>1
  <2>3. CASE records'[i].audit = Failure(r) /\ r \in claimed
    BY <2>3, Limits DEF Failure, Covered
  <2>4. CASE records'[i].audit = Failure(r) /\ r \notin claimed
    <3>1. calls[r] = 0 /\ spent[r] = 0
      BY <2>1, <2>4 DEF SendInv, TypesOK, SentOnce, SpendingCovered
    <3>2. ~ (relay'.at = "work" /\ relay'.work = r)
      BY <2>2, <2>4 DEF SendInv, SentOnce, Handling
    <3> QED
      BY <2>2, <2>4, <3>1, <3>2 DEF Failure, Covered
  <2>5. CASE relay.at = "reply" /\ records'[i] = Entry(relay.work, relay.reply)
    <3>1. Covered(relay.reply, relay.work) /\ r = relay.work /\ records'[i].audit = relay.reply
      BY <2>5 DEF SpendingCovered, Entry
    <3>2. relay'.at # "work"
      BY <2>2, <2>5
    <3> QED
      BY <2>2, <3>1, <3>2 DEF Covered
  <2> QED
    BY <1>5, <2>3, <2>4, <2>5 DEF Extends
<1>6. CASE Extends
  <2>1. ASSUME NEW i \in DOMAIN records' PROVE i \in Fresh \/ (i \in DOMAIN records /\ records'[i] = records[i])
    BY <1>6, <2>1, RecordsLen DEF Extends, Fresh, SendInv
  <2> QED
    BY <1>3, <1>5, <1>6, <2>1
<1> QED
  BY <1>4, <1>6, StepExtends

LEMMA SpendInvNext == SpendInv /\ [Next]_vars => SpendInv'
<1> SUFFICES ASSUME SpendInv, [Next]_vars PROVE SpendInv'
  OBVIOUS
<1> USE DEF SpendInv, RecordInv
<1>1. RecordInv'
  BY RecordInvNext
<1>2. BudgetKept'
  <2>1. ASSUME NEW r \in Request, Claim(r) PROVE r \notin claimed
    BY <2>1 DEF Claim, Offers, Claimable
  <2>2. CASE Work \/ Dispatch
    BY <2>2, BudgetWork, BudgetDispatch
  <2>3. CASE ~ (Work \/ Dispatch)
    BY <2>1, <2>3, RelayMoves, BudgetQuiet
  <2> QED
    BY <2>2, <2>3
<1>3. SpendingCovered'
  <2>1. spent' \in [Request -> 0..MaxUse] /\ \A r \in Request : calls'[r] = 0 => spent'[r] = 0
    BY RelayMoves, BudgetWork DEF SpendingCovered
  <2>2. relay'.at = "reply" => Covered(relay.reply, relay.work)'
    <3>1. CASE Work \/ Dispatch
      BY <3>1, BudgetWork, BudgetDispatch
    <3>2. CASE ~ (Work \/ Dispatch)
      BY <3>2, RelayMoves DEF SpendingCovered, Covered
    <3> QED
      BY <3>1, <3>2
  <2> QED
    BY <2>1, <2>2, RecordsCovered DEF SpendingCovered
<1> QED
  BY <1>1, <1>2, <1>3

LEMMA SpendInvInit == Init => SpendInv
<1> SUFFICES ASSUME Init PROVE SpendInv
  OBVIOUS
<1>1. Sent = {}
  BY DEF Init, Sent
<1>2. BudgetKept
  <2>1. tokens = SumFunctionOnSet(Charges, Sent)
    BY <1>1, SumEmpty DEF Init
  <2> QED
    BY <1>1, <2>1, Limits, Relays DEF Init, BudgetKept
<1>3. SpendingCovered
  BY Limits, Relays DEF Init, SpendingCovered
<1> QED
  BY <1>2, <1>3, RecordInvInit DEF SpendInv

LEMMA Smaller ==
  ASSUME NEW a \in Nat, NEW b \in Nat
  PROVE  Min({a, b}) \in Nat /\ Min({a, b}) <= a /\ Min({a, b}) <= b
<1>1. \E x \in {a, b} : \A y \in {a, b} : x <= y
  OBVIOUS
<1>2. Min({a, b}) \in {a, b} /\ \A y \in {a, b} : Min({a, b}) <= y
  BY <1>1 DEF Min
<1> QED
  BY <1>2

LEMMA SpendInvSafe == SpendInv => BudgetCoversCalls
<1> SUFFICES ASSUME SpendInv PROVE BudgetCoversCalls
  OBVIOUS
<1> USE DEF SpendInv, RecordInv
<1> DEFINE used == [r \in Request |-> Known(r)]
           same == [r \in Sent |-> r]
<1>1. Sent \subseteq Request /\ IsFiniteSet(Sent) /\ \A r \in Request : Charges[r] \in Nat
  BY ChargesType
<1>2. ASSUME NEW r \in Sent PROVE used[r] \in Nat /\ used[r] <= Charges[r]
  <2>1. r \in Request /\ spent[r] \in Nat /\ used[r] = Known(r)
    BY <1>1, Limits DEF SpendingCovered
  <2>2. CASE known[r] = Succeeded(spent[r])
    BY <2>1, <2>2 DEF Known, Charges, Succeeded, NoResult
  <2>3. CASE known[r] # Succeeded(spent[r]) /\ known[r] \in {NoResult, Unmeasured, CallFailed}
    <3>1. Known(r) \in Nat /\ Known(r) <= Reserve
      BY <2>1, <2>3, Limits, Smaller DEF Known
    <3>2. Charges[r] = Reserve
      BY <2>1, <2>3 DEF Charges, Unmeasured, CallFailed
    <3> QED
      BY <2>1, <3>1, <3>2
  <2> QED
    BY <2>2, <2>3 DEF BudgetKept
<1>3. SumFunctionOnSet(used, Sent) <= SumFunctionOnSet(Charges, Sent)
  <2>1. \A r \in Sent : same[r] = r
    OBVIOUS
  <2> HIDE DEF used, same
  <2> QED
    BY <1>1, <1>2, <2>1, SumInjection
<1> QED
  BY <1>3 DEF BudgetCoversCalls, BudgetKept

\* The broker's count covers what its calls are known to have used and passes
\* the budget by one call at most: for any budget, any use and any losses.
THEOREM BudgetAlwaysCovers == Spec => []BudgetCoversCalls
<1>1. Spec => []SpendInv
  BY SpendInvInit, SpendInvNext, PTL DEF Spec
<1> QED
  BY <1>1, SpendInvSafe, PTL

(***************************************************************************)
(* The campaign's usage.  What the adapter has passed is billed; what is   *)
(* billed is on record, so that a new record is never taken for a billed   *)
(* one; and a drain remembers what the mailbox held.                       *)
(***************************************************************************)
Recorded == {records[i].id : i \in DOMAIN records}

UsageKept ==
  /\ cursor \in 0..Len(records)
  /\ billed \subseteq Recorded
  /\ \A i \in 1..cursor : records[i].id \in billed
  /\ ChargedOnce
  /\ drained \subseteq Held
  /\ adapter = "closed" => drained \subseteq billed

UsageInv == SpendInv /\ UsageKept

BilledAt == {i \in DOMAIN records : records[i].id \in billed}

LEMMA TokensType ==
  ASSUME TypesOK
  PROVE  /\ \A i \in DOMAIN records : RecordedTokens[i] \in Nat
         /\ IsFiniteSet(DOMAIN records)
<1>1. \A i \in DOMAIN records : RecordedTokens[i] \in Nat
  BY RecordAt DEF RecordedTokens, Record, Audit
<1>2. DOMAIN records = 1..Len(records) /\ Len(records) \in Nat
  BY RecordsLen
<1> QED
  BY <1>1, <1>2, FS_Interval

LEMMA UsageExtends ==
  ASSUME UsageInv, Extends, UNCHANGED <<cursor, billed, usage, drained>>,
         adapter' = adapter \/ adapter' # "closed", Held \subseteq Held'
  PROVE  UsageKept'
<1> USE DEF UsageInv, SpendInv, RecordInv
<1>1. /\ Len(records) \in Nat /\ records \in Seq(Record) /\ records' \in Seq(Record)
      /\ Len(records') \in Nat /\ Len(records) <= Len(records')
  BY RecordsLen DEF SendInv, Extends
<1>2. ASSUME NEW i \in DOMAIN records PROVE i \in DOMAIN records' /\ records'[i] = records[i]
  BY <1>1 DEF Extends
<1>3. ASSUME NEW i \in DOMAIN records' PROVE i \in Fresh \/ i \in DOMAIN records
  BY <1>1, <1>3 DEF Fresh
<1>4. ASSUME NEW i \in Fresh PROVE records'[i].id \notin billed
  <2>1. ~ Done(records'[i].id)
    BY DEF Extends
  <2> QED
    BY <2>1 DEF UsageKept, Recorded, RecordsAgree, Done
<1>5. BilledAt' = BilledAt
  BY <1>2, <1>3, <1>4 DEF BilledAt
<1>6. SumFunctionOnSet(RecordedTokens', BilledAt) = SumFunctionOnSet(RecordedTokens, BilledAt)
  <2>1. IsFiniteSet(BilledAt)
    BY TokensType, FS_Subset DEF SendInv, BilledAt
  <2>2. \A i \in BilledAt : RecordedTokens'[i] = RecordedTokens[i]
    BY <1>2 DEF BilledAt, RecordedTokens
  <2> QED
    BY <2>1, <2>2, SumSame
<1>7. ChargedOnce'
  BY <1>5, <1>6 DEF UsageKept, ChargedOnce, BilledAt
<1>8. cursor' \in 0..Len(records') /\ \A i \in 1..cursor' : records'[i].id \in billed'
  <2>1. cursor \in 0..Len(records) /\ \A i \in 1..cursor : i \in DOMAIN records
    BY <1>1 DEF UsageKept
  <2> QED
    BY <1>1, <1>2, <2>1 DEF UsageKept
<1>9. billed' \subseteq Recorded'
  BY <1>2 DEF UsageKept, Recorded
<1> QED
  BY <1>7, <1>8, <1>9 DEF UsageKept

LEMMA UsageCollect ==
  ASSUME UsageInv, NEW upto \in cursor..Len(records), Collect(upto)
  PROVE  UsageKept'
<1> USE DEF UsageInv, SpendInv, RecordInv, gateway, mailbox, world
<1> DEFINE new == (cursor + 1)..upto
           added == NewlyBilled(new)
<1>1. /\ Len(records) \in Nat /\ DOMAIN records = 1..Len(records)
      /\ cursor \in Nat /\ upto \in Nat /\ cursor <= upto /\ upto <= Len(records)
  BY RecordsLen DEF SendInv, UsageKept
<1>2. /\ usage' = usage + SumFunctionOnSet(RecordedTokens, added)
      /\ billed' = billed \cup {records[i].id : i \in added}
      /\ cursor' = IF upto = Len(records) THEN upto ELSE cursor
      /\ UNCHANGED <<order, result, records, gone, drained>>
      /\ ~ gone
  BY DEF Collect
<1>3. added \subseteq DOMAIN records /\ \A i \in new : i \in added <=> records[i].id \notin billed
  BY <1>1 DEF NewlyBilled
<1>4. BilledAt' = BilledAt \cup added /\ BilledAt \cap added = {}
  BY <1>2, <1>3 DEF BilledAt, NewlyBilled, RecordsAgree
<1>5. IsFiniteSet(BilledAt) /\ IsFiniteSet(added) /\ \A i \in BilledAt \cup added : RecordedTokens[i] \in Nat
  BY <1>3, TokensType, FS_Subset DEF SendInv, BilledAt
<1>6. ChargedOnce'
  <2> HIDE DEF added
  <2>1. RecordedTokens' = RecordedTokens
    BY <1>2 DEF RecordedTokens
  <2>2. usage = SumFunctionOnSet(RecordedTokens, BilledAt)
    BY DEF UsageKept, ChargedOnce, BilledAt
  <2>3. usage' = SumFunctionOnSet(RecordedTokens, BilledAt \cup added)
    BY <1>2, <1>4, <1>5, <2>2, SumUnion
  <2> QED
    BY <1>4, <2>1, <2>3 DEF ChargedOnce, BilledAt
<1>7. \A i \in 1..upto : records[i].id \in billed'
  <2> SUFFICES ASSUME NEW i \in 1..upto PROVE records[i].id \in billed'
    OBVIOUS
  <2>1. CASE i \in 1..cursor
    BY <1>2, <2>1 DEF UsageKept
  <2>2. CASE i \in new
    BY <1>2, <1>3, <2>2
  <2> QED
    BY <1>1, <2>1, <2>2
<1>8. cursor' \in 0..Len(records') /\ \A i \in 1..cursor' : records'[i].id \in billed'
  <2>1. records' = records /\ billed \subseteq billed'
    BY <1>2
  <2>2. cursor' = upto \/ cursor' = cursor
    BY <1>2
  <2>3. cursor' \in 0..upto
    BY <1>1, <2>2
  <2> QED
    BY <1>1, <1>7, <2>1, <2>3
<1>9. billed' \subseteq Recorded'
  BY <1>2, <1>3 DEF UsageKept, Recorded
<1>10. ASSUME adapter' = "closed" PROVE drained' \subseteq billed'
  <2>1. upto = Len(records) /\ Unanswered = {}
    <3>1. /\ adapter # "driving"
          /\ ~ (upto < Len(records))
          /\ Settled
      BY <1>10 DEF Collect
    <3>2. upto = Len(records)
      <4>1. upto \in Nat /\ Len(records) \in Nat /\ upto <= Len(records) /\ ~ (upto < Len(records))
        BY <1>1, <3>1
      <4> QED
        BY <4>1
    <3> QED
      BY <3>1, <3>2 DEF Settled
  <2>2. ASSUME NEW r \in drained PROVE \E i \in DOMAIN records : records[i].id = r
    <3>1. r \in Request /\ Done(r) /\ result[r] # Cancelled
      BY <1>2, <2>1 DEF UsageKept, Held, Unanswered, AnswersReal, SendInv, TypesOK
    <3> QED
      BY <3>1 DEF RecordsAgree, Done
  <2> QED
    BY <1>1, <1>2, <1>7, <2>1, <2>2
<1>11. drained' \subseteq Held'
  BY <1>2 DEF UsageKept, Held
<1> QED
  BY <1>6, <1>8, <1>9, <1>10, <1>11 DEF UsageKept

\* The records and the bill stay; a drain may be noted.
LEMMA UsageRest ==
  ASSUME UsageKept, UNCHANGED <<order, records, cursor, billed, usage>>,
         \/ UNCHANGED <<adapter, drained>>
         \/ adapter' = "draining" /\ drained' = Held
  PROVE  UsageKept'
<1>1. Recorded' = Recorded /\ Held' = Held /\ RecordedTokens' = RecordedTokens
  BY DEF Recorded, Held, RecordedTokens
<1>2. ChargedOnce'
  BY <1>1 DEF UsageKept, ChargedOnce
<1> QED
  BY <1>1, <1>2 DEF UsageKept

LEMMA UsageInvNext == UsageInv /\ [Next]_vars => UsageInv'
<1> SUFFICES ASSUME UsageInv, [Next]_vars PROVE UsageInv'
  OBVIOUS
<1> USE DEF UsageInv, SpendInv, RecordInv, gateway, mailbox, worker, world
<1>1. SpendInv'
  BY SpendInvNext
<1>2. Held \subseteq Held'
  <2>1. order \in Seq(Request)
    BY DEF SendInv, TypesOK
  <2>2. order' = order \/ \E r \in Request : order' = Append(order, r)
    BY DEF Next, vars, Check, Submit, Answer, TimeOut, Claim, LoseClaim, Work, Dispatch, Post, LosePost,
       FailClosed, Collect, Drain, GiveUp, StopRelay, RemoveEpisode
  <2>3. ASSUME NEW r \in Request, order' = Append(order, r) PROVE Held \subseteq Held'
    <3>1. \A i \in DOMAIN order : i \in DOMAIN order' /\ order'[i] = order[i]
      BY <2>1, <2>3, AppendProperties
    <3> QED
      BY <3>1 DEF Held
  <2> QED
    BY <2>2, <2>3 DEF Held
<1>3. ASSUME NEW upto \in cursor..Len(records), Collect(upto) PROVE UsageKept'
  BY <1>3, UsageCollect
<1>4. CASE Drain
  <2>1. /\ adapter' = "draining" /\ drained' = Held /\ UNCHANGED <<order, records, cursor, billed, usage>>
    BY <1>4 DEF Drain
  <2> QED
    BY <1>1, <2>1, UsageRest
<1>5. CASE RemoveEpisode
  <2>1. UNCHANGED <<order, records, cursor, billed, usage, drained, adapter>>
    BY <1>5 DEF RemoveEpisode
  <2> QED
    BY <1>1, <2>1, UsageRest
<1>6. CASE ~ (\/ Drain \/ RemoveEpisode \/ \E upto \in cursor..Len(records) : Collect(upto))
  <2>1. UNCHANGED <<cursor, billed, usage, drained>> /\ (adapter' = adapter \/ adapter' = "failed")
    BY <1>6 DEF Next, vars, Check, Submit, Answer, TimeOut, Claim, LoseClaim, Work, Dispatch, Post, LosePost,
       FailClosed, GiveUp, StopRelay
  <2>2. Extends
    BY <1>6, StepExtends
  <2>3. adapter' = adapter \/ adapter' # "closed"
    BY <2>1
  <2>4. /\ cursor' = cursor /\ billed' = billed /\ usage' = usage /\ drained' = drained
    BY <2>1
  <2> QED
    BY <1>1, <1>2, <2>2, <2>3, <2>4, UsageExtends
<1> QED
  BY <1>1, <1>3, <1>4, <1>5, <1>6

LEMMA UsageInvInit == Init => UsageInv
<1> SUFFICES ASSUME Init PROVE UsageInv
  OBVIOUS
<1>1. {i \in DOMAIN records : records[i].id \in billed} = {}
  BY DEF Init
<1>2. ChargedOnce
  BY <1>1, SumEmpty DEF Init, ChargedOnce
<1> QED
  BY <1>2, SpendInvInit DEF Init, UsageInv, UsageKept

LEMMA UsageInvSafe == UsageInv => ChargedOnce /\ ClosedIsSettled
<1> SUFFICES ASSUME UsageInv, adapter = "closed"
             PROVE  SumFunctionOnSet([r \in Request |-> Min({spent[r], Reserve})], drained) <= usage
  BY DEF UsageInv, UsageKept, ClosedIsSettled
<1> USE DEF UsageInv, SpendInv, RecordInv
<1> DEFINE used == [r \in Request |-> Min({spent[r], Reserve})]
           at == [r \in drained |-> CHOOSE i \in DOMAIN records : records[i].id = r]
<1>1. drained \subseteq Request /\ IsFiniteSet(drained)
  <2>1. drained \subseteq Request
    BY DEF UsageKept, Held, SendInv, TypesOK
  <2> QED
    BY <2>1, Limits, FS_Subset
<1>2. ASSUME NEW r \in drained
      PROVE  /\ at[r] \in BilledAt /\ records[at[r]].id = r
             /\ used[r] \in Nat /\ used[r] <= RecordedTokens[at[r]]
  <2>1. at[r] \in DOMAIN records /\ records[at[r]].id = r
    BY DEF UsageKept, Recorded
  <2>2. at[r] \in BilledAt
    BY <2>1 DEF BilledAt, UsageKept
  <2>3. r \in Request /\ spent[r] \in Nat
    BY <1>1, Limits DEF SpendingCovered
  <2>4. used[r] \in Nat /\ used[r] <= spent[r] /\ used[r] <= Reserve
    BY <2>3, Limits, Smaller
  <2>5. RecordedTokens[at[r]] \in Nat
    BY <2>1, TokensType DEF SendInv
  <2> HIDE DEF at, used
  <2>6. Reserve <= RecordedTokens[at[r]] \/ spent[r] <= RecordedTokens[at[r]]
    BY <2>1 DEF SpendingCovered, Covered, RecordedTokens
  <2> QED
    BY <2>1, <2>2, <2>3, <2>4, <2>5, <2>6, Limits
<1>3. IsFiniteSet(BilledAt) /\ \A i \in BilledAt : RecordedTokens[i] \in Nat
  BY TokensType, FS_Subset DEF SendInv, BilledAt
<1> HIDE DEF used, at
<1>4. SumFunctionOnSet(used, drained) <= SumFunctionOnSet(RecordedTokens, BilledAt)
  <2>1. \A q, r \in drained : at[q] = at[r] => q = r
    BY <1>2
  <2> QED
    BY <1>1, <1>2, <1>3, <2>1, SumInjection
<1> QED
  BY <1>4 DEF used, UsageKept, ChargedOnce, BilledAt

LEMMA UsageInvAlways == Spec => []UsageInv
BY UsageInvInit, UsageInvNext, PTL DEF Spec

\* A campaign's usage is the sum of the records billed, each counted once,
\* also when collecting is interrupted after some of them and repeated.
THEOREM UsageChargedOnce == Spec => []ChargedOnce
BY UsageInvAlways, UsageInvSafe, PTL

\* A close that succeeds has charged all that the mailbox held at the drain,
\* with at least what each call used within its reservation.
THEOREM ClosingSettles == Spec => []ClosedIsSettled
BY UsageInvAlways, UsageInvSafe, PTL
=============================================================================
