--------------------------- MODULE SessionProofs ---------------------------
(* Theorems about ResearchSession, for any sessions, workers, limits and    *)
(* bounds, with and without timely heartbeats.                              *)
EXTENDS ResearchSession, SumProofs, SequenceTheorems, TLAPS

(***************************************************************************)
(* Types, and where a process is.                                          *)
(***************************************************************************)
Row == [state : State, fence : Nat, worker : Worker \cup {NoWorker},
        stop : {"none", "client_closed", "client_cancelled", "other"},
        episode : Nat, step : Nat, handle : Nat, released : BOOLEAN]

Tables ==
  /\ session \in [Session -> Row]
  /\ ops \in [Session -> Seq(Op)]
  /\ job \in [Session -> [status : JobStatus, owner : Worker \cup {NoWorker},
                          expired : BOOLEAN, attempts : Nat]]
  /\ campaign \in [Session -> CampaignStatus]
  /\ episodes \in [Session -> Seq([row : {"open", "verifying", "ended"},
                                   capsule : {"made", "attached", "gone"}])]
  /\ cancelled \subseteq Session
  /\ woken \subseteq Session
  /\ overdue \in [Session -> {"no", "silent", "late"}]
  /\ crashes \in 0..MaxCrashes

Money ==
  /\ used \in [Session -> Nat]
  /\ flight \in [Session -> Nat]
  /\ unanswered \subseteq Session
  /\ owner \in [reserved : Int, spent : Nat]

Memory ==
  /\ pc \in [Process -> Place]
  /\ on \in [Process -> Session \cup {NoSession}]
  /\ fence \in [Process -> Nat]
  /\ op \in [Process -> Nat]
  /\ env \in [Process -> Nat]
  /\ envStep \in [Process -> Nat]
  /\ plan \in [Process -> Plan]

Types == Tables /\ Money /\ Memory

Late == {"campaign", "episode", "wake", "raise", "finish"}
WithCommand == {"guard", "reset", "provision", "attach", "observe", "observed", "step", "act", "answer"}
Running == WithCommand \cup
  {"open", "loop", "claim", "detach", "forget", "choose", "propose", "proposed"}

Works(p, s) == pc[p] # "idle" /\ on[p] = s
Ended(s) == session[s].state \in Terminal

\* What a process can have in memory where it is.
Keeping == {"idle", "retire", "clean", "commit", "campaign", "episode", "wake"}

Whereabouts ==
  /\ pc[Keeper] \in Keeping /\ env[Keeper] = 0
  /\ \A w \in Worker : pc[w] \in {"choose", "propose", "proposed"} => on[w] \in Managed
  /\ \A w \in Worker : pc[w] \in {"idle", "begin", "provision", "forget"} => env[w] = 0

Places ==
  /\ Whereabouts
  /\ \A p \in Process : pc[p] # "idle" => on[p] \in Created
  /\ \A s \in Session : job[s].attempts > 0 => s \in Created

(***************************************************************************)
(* Leases.  Every claim has a fence of its own, so at most one worker has  *)
(* the fence that is on the session's row, and the maintenance task has it *)
(* only when no lease with it is left.                                     *)
(***************************************************************************)
Leases ==
  /\ \A s \in Session : session[s].fence <= job[s].attempts
  /\ \A w \in Worker, s \in Session : Works(w, s) =>
       /\ 1 <= fence[w] /\ fence[w] <= job[s].attempts
       /\ job[s].owner = w => fence[w] = job[s].attempts
       /\ pc[w] = "begin" => fence[w] # session[s].fence
       /\ pc[w] # "begin" /\ fence[w] = session[s].fence => session[s].worker = w
       /\ \A v \in Worker \ {w} : Works(v, s) => fence[v] # fence[w]
       /\ pc[w] = "begin" /\ Works(Keeper, s) => fence[w] # fence[Keeper]
  /\ \A s \in Session : Works(Keeper, s) =>
       /\ fence[Keeper] <= job[s].attempts
       /\ job[s].status = "LEASED" => fence[Keeper] < job[s].attempts

\* fence_check, but for the time the lease has left.
Fenced(w) ==
  LET s == on[w] IN
  session[s].fence = fence[w] /\ job[s].owner = session[s].worker /\ job[s].status = "LEASED"

(***************************************************************************)
(* Runs.  Commands are executed by the first claim only, and once the      *)
(* session is over no fence check succeeds that its run still makes.       *)
(***************************************************************************)
Runs1 ==
  /\ \A w \in Worker : pc[w] \in Running \/ env[w] # 0 => fence[w] = 1
  /\ \A w \in Worker : pc[w] # "idle" /\ Ended(on[w]) /\ Fenced(w) => pc[w] \in Late

(***************************************************************************)
(* Commands.  The command a worker executes is running, or was ended under *)
(* it as indeterminate; its effect has not begun before it does.           *)
(***************************************************************************)
Stoppers == {"close", "cancel"}
Uncertainties == {"running", "indeterminate"}

OpSound(s, o) ==
  /\ o.began <= 1
  /\ o.status \in {"pending", "cancelled"} => o.began = 0
  /\ o.status \in {"pending", "running"} => ~ Ended(s)
  /\ o.status \in {"pending", "running"} /\ o.kind \in Stoppers => session[s].stop # "none"
  /\ o.status = "indeterminate" => Ended(s)

OpInHand(w, o) ==
  /\ \/ o.status \in Uncertainties
     \/ pc[w] = "guard" /\ Ended(on[w])
  /\ o.status \notin {"pending", "cancelled"}
  /\ pc[w] # "guard" => o.kind \notin Stoppers
  /\ pc[w] \in {"guard", "reset", "step"} => o.began = 0

Commands ==
  /\ \A s \in Session : \A i \in DOMAIN ops[s] : OpSound(s, ops[s][i])
  /\ \A w \in Worker : pc[w] \in WithCommand =>
       op[w] \in DOMAIN ops[on[w]] /\ OpInHand(w, ops[on[w]][op[w]])

(***************************************************************************)
(* Capsules.  The capsule on record is the only one attached; a run that   *)
(* may attach one has it in memory, and whoever retires the session with   *)
(* the fence on its row cleans that one.                                   *)
(***************************************************************************)
Attached(s) == {e \in DOMAIN episodes[s] : episodes[s][e].capsule = "attached"}

CapsuleInHand(p) ==
  LET s == on[p] IN
  /\ pc[p] = "begin" /\ fence[p] = 1 => Attached(s) = {}
  /\ pc[p] \in Running \/ env[p] # 0 => Attached(s) \subseteq {env[p]}
  /\ fence[p] = session[s].fence =>
       /\ pc[p] = "clean" => Attached(s) \subseteq {CapsuleToClean(p)}
       /\ pc[p] = "commit" /\ ~ plan[p].dirty => Attached(s) = {}

Capsules ==
  /\ \A s \in Session : Attached(s) \subseteq {session[s].handle}
  /\ \A s \in Session : job[s].attempts = 0 => Attached(s) = {}
  /\ \A p \in Process : pc[p] # "idle" => CapsuleInHand(p)

(***************************************************************************)
(* Calls.  A run that asked a model and has no answer is still at it, or    *)
(* its operation stays uncertain.                                          *)
(***************************************************************************)
Accounted(s) ==
  s \in unanswered =>
    \E i \in DOMAIN ops[s] : ops[s][i].status \in Uncertainties /\ ops[s][i].kind \notin Stoppers

Calls ==
  /\ \A s \in Session : job[s].attempts = 0 => s \notin unanswered
  /\ \A w \in Worker : pc[w] = "begin" /\ fence[w] = 1 => on[w] \notin unanswered
  /\ \A w \in Worker : pc[w] \in Running \ {"act", "propose"} => on[w] \notin unanswered
  /\ \A s \in Session \ Managed : Accounted(s)

(***************************************************************************)
(* Accounts.                                                               *)
(***************************************************************************)
Accounts ==
  /\ \A s \in Session : session[s].released <=> Ended(s)
  /\ IsFiniteSet(Created)
  /\ ReservationsAddUp

SessionInv == Types /\ Places /\ Leases /\ Runs1 /\ Commands /\ Capsules /\ Calls /\ Accounts

-----------------------------------------------------------------------------
(* Types.                                                                  *)

LEMMA KeeperIsNoWorker == Keeper \in Process \ Worker /\ Worker \subseteq Process
BY SessionConstants DEF Process

LEMMA NoWorkerIsNone == NoWorker \notin Worker /\ Keeper \notin Worker /\ NoSession \notin Session
BY SessionConstants

LEMMA Numbers == /\ {Cost, CostLimit, MaxEpisodes, MaxCommands, MaxOps, MaxCrashes} \subseteq Nat
                 /\ MaxSessions \in Nat /\ MaxAttempts \in Nat
                 /\ Managed \subseteq Session /\ Evaluated \subseteq Session
                 /\ Usage \subseteq Nat
BY SessionConstants

LEMMA IdleTypes ==
  ASSUME Memory, NEW p \in Process, Idle(p)
  PROVE  Memory'
BY DEF Memory, Idle, Goto, NoPlan, Plan, Place, Terminal

LEMMA StayTypes ==
  ASSUME Memory, NEW p \in Process, NEW place \in Place, Goto(p, place), Stays
  PROVE  Memory'
BY DEF Memory, Goto, Stays

LEMMA RetiresTypes ==
  ASSUME Memory, NEW p \in Process, NEW state \in Terminal, NEW then \in {"finish", "idle"},
         Retires(p, state, then), UNCHANGED <<op, env, envStep>>,
         on' \in [Process -> Session \cup {NoSession}], fence' \in [Process -> Nat]
  PROVE  Memory'
BY DEF Memory, Retires, Goto, NoPlan, Plan, Place, Terminal

LEMMA RaisesTypes ==
  ASSUME Memory, NEW p \in Process, Raises(p)
  PROVE  Memory'
BY RetiresTypes DEF Memory, Raises, Terminal

LEMMA HomeTypes ==
  ASSUME Memory, NEW p \in Process, Home(p), Stays
  PROVE  Memory'
BY StayTypes DEF Home, Place

LEMMA LeaveTypes ==
  ASSUME Memory, NEW p \in Process, Leave(p)
  PROVE  Memory'
BY IdleTypes, StayTypes DEF Leave, Place

LEMMA CompleteTypes ==
  ASSUME Memory, NEW w \in Worker, NEW status, NEW state, NEW step,
         NEW place \in Place \cup {"home"}, Complete(w, status, state, step, place)
  PROVE  Memory'
<1>1. w \in Process
  BY KeeperIsNoWorker
<1>2. CASE Raises(w)
  BY <1>1, <1>2, RaisesTypes
<1>3. CASE Home(w) /\ Stays
  BY <1>1, <1>3, HomeTypes
<1>4. CASE place \in Place /\ Goto(w, place) /\ Stays
  BY <1>1, <1>4, StayTypes
<1> QED
  BY <1>2, <1>3, <1>4 DEF Complete
\* Everything a step can be.
Worked(w) ==
  \/ Begin(w) \/ Open(w) \/ Loop(w) \/ ClaimCommand(w) \/ Guard(w)
  \/ ResetCloses(w) \/ ResetAdmits(w) \/ Provision(w) \/ Attach(w) \/ Observe(w) \/ Observed(w)
  \/ Step(w) \/ Act(w) \/ Answer(w) \/ Detach(w) \/ Forget(w)
  \/ Choose(w) \/ Propose(w) \/ Proposed(w)
  \/ Raise(w) \/ Finish(w) \/ GiveUp(w) \/ Heartbeat(w) \/ LeaseLost(w) \/ Stopped(w)

Retired(p) ==
  \/ Retire(p) \/ Clean(p) \/ Commit(p) \/ EndCampaign(p) \/ EndEpisode(p) \/ Wake(p)
  \/ Died(p)

Served(s) ==
  \/ CreateSession(s) \/ ClientHeartbeat(s) \/ CancelCampaign(s) \/ Expire(s) \/ Maintain(s)
  \/ \E kind \in {"reset", "step", "close", "cancel"} : Submit(s, kind)
  \/ \E limit \in {"silent", "late"} : TimePasses(s, limit)
  \/ \E w \in Worker : Claim(w, s)

LEMMA StepCases ==
  ASSUME Next
  PROVE  \/ \E w \in Worker : Worked(w)
         \/ \E p \in Process : Retired(p)
         \/ \E s \in Session : Served(s)
BY KeeperIsNoWorker DEF Next, RunStep, Poll, RetireStep, Worked, Retired, Served

LEMMA OnSession ==
  ASSUME SessionInv, NEW p \in Process, pc[p] # "idle"
  PROVE  on[p] \in Session /\ on[p] \in Created
BY DEF SessionInv, Places, Created

\* A run that still checks its fence is stopped by the check once its session is over.
LEMMA FenceMeansLive ==
  ASSUME SessionInv, NEW w \in Worker, pc[w] # "idle", pc[w] \notin Late, FenceHolds(w)
  PROVE  ~ Ended(on[w]) /\ Fenced(w)
BY DEF SessionInv, Runs1, FenceHolds, Fenced

LEMMA InHand ==
  ASSUME SessionInv, NEW w \in Worker, pc[w] \in WithCommand
  PROVE  /\ on[w] \in Session /\ op[w] \in DOMAIN ops[on[w]] /\ ops[on[w]][op[w]] \in Op
         /\ OpInHand(w, ops[on[w]][op[w]]) /\ OpSound(on[w], ops[on[w]][op[w]])
<1>1. on[w] \in Session
  BY OnSession, KeeperIsNoWorker DEF WithCommand
<1>2. op[w] \in DOMAIN ops[on[w]] /\ OpInHand(w, ops[on[w]][op[w]]) /\ OpSound(on[w], ops[on[w]][op[w]])
  BY <1>1 DEF SessionInv, Commands
<1> QED
  BY <1>1, <1>2 DEF SessionInv, Types, Tables

LEMMA GuardGoes ==
  ASSUME SessionInv, NEW w \in Worker, pc[w] = "guard", FenceHolds(w), ~ StopReason(on[w])
  PROVE  ops[on[w]][op[w]].kind \in {"reset", "step"} /\ ops[on[w]][op[w]].status = "running"
<1>1. ~ Ended(on[w])
  BY FenceMeansLive DEF Late
<1>2. /\ OpInHand(w, ops[on[w]][op[w]]) /\ OpSound(on[w], ops[on[w]][op[w]])
      /\ ops[on[w]][op[w]] \in Op
  BY InHand DEF WithCommand
<1> QED
  BY <1>1, <1>2 DEF OpInHand, OpSound, Op, Uncertainties, Stoppers, StopReason

LEMMA MemoryStep ==
  ASSUME SessionInv, Next
  PROVE  Memory'
<1> USE DEF SessionInv, Types
<1> USE KeeperIsNoWorker
<1>1. ASSUME NEW w \in Worker, Worked(w) PROVE Memory'
  <2>1. CASE Begin(w)
    BY <2>1, RaisesTypes, StayTypes DEF Begin, Place
  <2>2. CASE Open(w)
    BY <2>2, HomeTypes, StayTypes DEF Open, Place, Memory, Stays
  <2>3. CASE Loop(w)
    BY <2>3, RetiresTypes, StayTypes DEF Loop, Place, Memory, Terminal
  <2>4. CASE ClaimCommand(w)
    <3>1. on[w] \in Session
      BY <2>4, OnSession DEF ClaimCommand
    <3>2. \A i \in Pending(on[w]) : i \in Nat
      BY <3>1 DEF Pending, Tables
    <3>3. CASE Stays \/ Raises(w)
      BY <2>4, <3>3, RaisesTypes, StayTypes DEF ClaimCommand, Place
    <3>4. ASSUME NEW i \in Nat, op' = [op EXCEPT ![w] = i], Goto(w, "guard"),
                 UNCHANGED <<on, fence, env, envStep, plan>>
          PROVE  Memory'
      BY <3>4 DEF Goto, Place, Memory
    <3> QED
      BY <2>4, <3>2, <3>3, <3>4 DEF ClaimCommand
  <2>5. CASE Guard(w)
    BY <2>5, RaisesTypes, StayTypes, GuardGoes DEF Guard, Place
  <2>6. CASE ResetCloses(w) \/ Detach(w)
    BY <2>6, RaisesTypes DEF ResetCloses, Detach, Goto, Place, Memory
  <2>7. CASE ResetAdmits(w)
    BY <2>7, CompleteTypes, StayTypes DEF ResetAdmits, Place
  <2>8. CASE Provision(w)
    <3>1. on[w] \in Session /\ Len(episodes[on[w]]) + 1 \in Nat
      BY <2>8, OnSession DEF Provision, Tables
    <3>2. CASE Raises(w)
      BY <3>2, RaisesTypes
    <3>3. CASE Retires(w, "interrupted", "idle") /\ UNCHANGED <<on, fence, op, env, envStep>>
      BY <3>3, RetiresTypes DEF Memory, Terminal
    <3>4. CASE /\ Goto(w, "attach")
               /\ env' = [env EXCEPT ![w] = Len(episodes[on[w]]) + 1]
               /\ envStep' = [envStep EXCEPT ![w] = 0]
               /\ UNCHANGED <<on, fence, op, plan>>
      BY <3>1, <3>4 DEF Goto, Place, Memory
    <3> QED
      BY <2>8, <3>2, <3>3, <3>4 DEF Provision
  <2>9. CASE Attach(w) \/ Observe(w) \/ Act(w) \/ Propose(w)
    BY <2>9, RaisesTypes, StayTypes DEF Attach, Observe, Act, Propose, Place
  <2>10. CASE Observed(w)
    BY <2>10, CompleteTypes DEF Observed
  <2>11. CASE Step(w)
    BY <2>11, CompleteTypes DEF Step, Place, Memory, Goto
  <2>12. CASE Answer(w)
    BY <2>12, CompleteTypes DEF Answer, Place
  <2>13. CASE Forget(w)
    BY <2>13, HomeTypes DEF Forget
  <2>14. CASE Choose(w) \/ Proposed(w)
    <3>1. on[w] \in Session /\ Len(ops[on[w]]) + 1 \in Nat
      BY <2>14, OnSession DEF Choose, Proposed, Tables
    <3>2. ASSUME NEW kind, Internal(w, kind) PROVE Memory'
      <4>1. CASE Raises(w)
        BY <4>1, RaisesTypes
      <4>2. CASE FenceHolds(w)
        BY <3>1, <3>2, <4>2 DEF Internal, Goto, Place, Memory
      <4> QED
        BY <3>2, <4>1, <4>2 DEF Internal
    <3>3. CASE Completes(w)
      BY <3>3, RetiresTypes DEF Completes, Memory, Terminal
    <3>4. CASE (Goto(w, "propose") /\ Stays) \/ Raises(w)
      BY <3>4, RaisesTypes, StayTypes DEF Place
    <3> QED
      BY <2>14, <3>2, <3>3, <3>4 DEF Choose, Proposed
  <2>15. CASE Raise(w) \/ Finish(w)
    BY <2>15, IdleTypes DEF Raise, Finish
  <2>16. CASE GiveUp(w) \/ Heartbeat(w)
    BY <2>16 DEF GiveUp, Heartbeat, memory, Memory
  <2>17. CASE LeaseLost(w)
    BY <2>17, IdleTypes, RetiresTypes DEF LeaseLost, Terminal, Memory
  <2>18. CASE Stopped(w)
    BY <2>18, RaisesTypes DEF Stopped
  <2> QED
    BY <1>1, <2>1, <2>2, <2>3, <2>4, <2>5, <2>6, <2>7, <2>8, <2>9, <2>10, <2>11, <2>12, <2>13,
       <2>14, <2>15, <2>16, <2>17, <2>18 DEF Worked
<1>2. ASSUME NEW p \in Process, Retired(p) PROVE Memory'
  <2>1. CASE Retire(p)
    <3>1. on[p] \in Session /\ session[on[p]].handle \in Nat /\ session[on[p]].episode \in Nat
      BY <2>1, OnSession DEF Retire, Tables, Row
    <3>2. CASE session[on[p]].fence = fence[p]
      <4>1. plan[p] \in Plan
        BY DEF Memory
      <4>2. plan' \in [Process -> Plan]
        BY <2>1, <3>1, <3>2, <4>1 DEF Retire, Memory, Plan
      <4> QED
        BY <2>1, <3>2, <4>2 DEF Retire, Goto, Place, Memory
    <3> QED
      BY <2>1, <3>2, LeaveTypes DEF Retire
  <2>2. CASE Clean(p)
    <3>1. plan' \in [Process -> Plan]
      <4>1. [plan[p] EXCEPT !.dirty = TRUE] \in Plan
        BY DEF Memory, Plan
      <4>2. plan' = plan \/ plan' = [plan EXCEPT ![p] = [plan[p] EXCEPT !.dirty = TRUE]]
        BY <2>2 DEF Clean
      <4> QED
        BY <4>1, <4>2 DEF Memory
    <3>2. env' \in [Process -> Nat]
      BY <2>2 DEF Clean, Memory
    <3> QED
      BY <2>2, <3>1, <3>2 DEF Clean, Goto, Place, Memory
  <2>3. CASE Commit(p)
    <3>1. plan[p].state \in Terminal /\ EndState(p) \in Terminal
      BY DEF Memory, Plan, EndState, Terminal
    <3>2. CASE Committed(p)
      <4>1. plan' \in [Process -> Plan]
        <5> DEFINE to == EndState(p)
        <5>1. [plan[p] EXCEPT !.state = to] \in Plan
          BY <3>1 DEF Memory, Plan
        <5>2. plan' = [plan EXCEPT ![p] = [plan[p] EXCEPT !.state = to]]
          BY <2>3, <3>2 DEF Commit
        <5> HIDE DEF to
        <5> QED
          BY <5>1, <5>2 DEF Memory
      <4> QED
        BY <2>3, <3>2, <4>1 DEF Commit, Goto, Place, Memory
    <3> QED
      BY <2>3, <3>2, LeaveTypes DEF Commit
  <2>4. CASE EndCampaign(p)
    BY <2>4, IdleTypes, StayTypes DEF EndCampaign, Place
  <2>5. CASE EndEpisode(p)
    BY <2>5, StayTypes DEF EndEpisode, Place
  <2>6. CASE Wake(p)
    BY <2>6, LeaveTypes DEF Wake
  <2>7. CASE Died(p)
    BY <2>7, IdleTypes DEF Died
  <2> QED
    BY <1>2, <2>1, <2>2, <2>3, <2>4, <2>5, <2>6, <2>7 DEF Retired
<1>3. ASSUME NEW s \in Session, Served(s) PROVE Memory'
  <2>1. CASE Maintain(s)
    BY <2>1, RetiresTypes DEF Maintain, Memory, Terminal, Tables, Row
  <2>2. ASSUME NEW w \in Worker, Claim(w, s) PROVE Memory'
    <3>1. job[s].attempts + 1 \in Nat
      BY DEF Tables
    <3> QED
      BY <2>2, <3>1 DEF Claim, Memory, Place
  <2>3. CASE CreateSession(s) \/ ClientHeartbeat(s) \/ CancelCampaign(s) \/ Expire(s)
    BY <2>3 DEF CreateSession, ClientHeartbeat, CancelCampaign, Expire, memory, Memory
  <2>4. ASSUME NEW kind, Submit(s, kind) PROVE Memory'
    BY <2>4 DEF Submit, memory, Memory
  <2>5. ASSUME NEW limit, TimePasses(s, limit) PROVE Memory'
    BY <2>5 DEF TimePasses, memory, Memory
  <2> QED
    BY <1>3, <2>1, <2>2, <2>3, <2>4, <2>5 DEF Served
<1> QED
  BY StepCases, <1>1, <1>2, <1>3

-----------------------------------------------------------------------------
(* One element of one row's sequence changes, or is added.                 *)

LEMMA SeqChange ==
  ASSUME NEW T, NEW q \in Seq(T), NEW i, NEW e, i \in DOMAIN q => e \in T
  PROVE  /\ [q EXCEPT ![i] = e] \in Seq(T)
         /\ DOMAIN [q EXCEPT ![i] = e] = DOMAIN q
         /\ \A j \in DOMAIN q : [q EXCEPT ![i] = e][j] = IF j = i THEN e ELSE q[j]
<1>1. [q EXCEPT ![i] = e] \in Seq(T)
  <2>1. CASE i \in DOMAIN q
    BY <2>1, ExceptSeq, LenProperties
  <2>2. CASE i \notin DOMAIN q
    <3>1. q = [x \in DOMAIN q |-> q[x]]
      BY LenProperties
    <3>2. [q EXCEPT ![i] = e] = [x \in DOMAIN q |-> q[x]]
      BY <2>2, <3>1
    <3> QED
      BY <3>1, <3>2
  <2> QED
    BY <2>1, <2>2
<1> QED
  BY <1>1

LEMMA OpChange ==
  ASSUME Tables, NEW s \in Session, NEW i, NEW o \in Op, ops' = [ops EXCEPT ![s][i] = o]
  PROVE  /\ ops' \in [Session -> Seq(Op)]
         /\ \A r \in Session : DOMAIN ops'[r] = DOMAIN ops[r]
         /\ \A r \in Session \ {s} : ops'[r] = ops[r]
         /\ \A j \in DOMAIN ops[s] : ops'[s][j] = IF j = i THEN o ELSE ops[s][j]
<1> DEFINE q == [ops[s] EXCEPT ![i] = o]
<1>1. ops \in [Session -> Seq(Op)] /\ ops[s] \in Seq(Op)
  BY DEF Tables
<1>2. /\ q \in Seq(Op) /\ DOMAIN q = DOMAIN ops[s]
      /\ \A j \in DOMAIN ops[s] : q[j] = IF j = i THEN o ELSE ops[s][j]
  BY <1>1, SeqChange
<1>3. ops' = [ops EXCEPT ![s] = q]
  OBVIOUS
<1> HIDE DEF q
<1> QED
  BY <1>1, <1>2, <1>3

Episode == [row : {"open", "verifying", "ended"}, capsule : {"made", "attached", "gone"}]

LEMMA EpisodesTypes == ASSUME Tables PROVE episodes \in [Session -> Seq(Episode)]
BY DEF Tables, Episode

LEMMA EpisodeChange ==
  ASSUME Tables, NEW s \in Session, NEW i, NEW e, i \in DOMAIN episodes[s] => e \in Episode,
         episodes' = [episodes EXCEPT ![s][i] = e]
  PROVE  /\ episodes' \in [Session -> Seq(Episode)]
         /\ \A r \in Session : DOMAIN episodes'[r] = DOMAIN episodes[r]
         /\ \A r \in Session \ {s} : episodes'[r] = episodes[r]
         /\ \A j \in DOMAIN episodes[s] : episodes'[s][j] = IF j = i THEN e ELSE episodes[s][j]
<1> DEFINE q == [episodes[s] EXCEPT ![i] = e]
<1>1. episodes \in [Session -> Seq(Episode)] /\ episodes[s] \in Seq(Episode)
  BY EpisodesTypes
<1>2. /\ q \in Seq(Episode) /\ DOMAIN q = DOMAIN episodes[s]
      /\ \A j \in DOMAIN episodes[s] : q[j] = IF j = i THEN e ELSE episodes[s][j]
  BY <1>1, SeqChange
<1>3. episodes' = [episodes EXCEPT ![s] = q]
  OBVIOUS
<1> HIDE DEF q
<1> QED
  BY <1>1, <1>2, <1>3

LEMMA OpUpdates ==
  ASSUME SessionInv, NEW w \in Worker, pc[w] \in WithCommand,
         NEW status \in {"running", "completed", "failed"}
  PROVE  LET o == ops[on[w]][op[w]] IN
         /\ [o EXCEPT !.status = status] \in Op /\ [o EXCEPT !.began = @ + 1] \in Op
         /\ [ops EXCEPT ![on[w]][op[w]].status = status] =
              [ops EXCEPT ![on[w]][op[w]] = [o EXCEPT !.status = status]]
         /\ [ops EXCEPT ![on[w]][op[w]].began = @ + 1] =
              [ops EXCEPT ![on[w]][op[w]] = [o EXCEPT !.began = @ + 1]]
<1> DEFINE o == ops[on[w]][op[w]]
<1>1. o \in Op
  BY InHand
<1>2. [o EXCEPT !.status = status] \in Op /\ [o EXCEPT !.began = @ + 1] \in Op
  BY SMTT(30), <1>1 DEF Op, Finished
<1>3. /\ [ops EXCEPT ![on[w]][op[w]].status = status] =
           [ops EXCEPT ![on[w]][op[w]] = [o EXCEPT !.status = status]]
      /\ [ops EXCEPT ![on[w]][op[w]].began = @ + 1] =
           [ops EXCEPT ![on[w]][op[w]] = [o EXCEPT !.began = @ + 1]]
  OBVIOUS
<1> QED
  BY <1>2, <1>3

LEMMA BeganTypes ==
  ASSUME SessionInv, NEW w \in Worker, pc[w] \in WithCommand,
         ops' = [ops EXCEPT ![on[w]][op[w]].began = @ + 1]
  PROVE  ops' \in [Session -> Seq(Op)]
<1> DEFINE o == [ops[on[w]][op[w]] EXCEPT !.began = @ + 1]
<1>1. o \in Op /\ ops' = [ops EXCEPT ![on[w]][op[w]] = o] /\ on[w] \in Session
  BY OpUpdates, InHand
<1> HIDE DEF o
<1> QED
  BY <1>1, OpChange DEF SessionInv, Types

LEMMA CompleteTables ==
  ASSUME SessionInv, NEW w \in Worker, pc[w] \in WithCommand, NEW status \in {"completed", "failed"},
         NEW state \in State, NEW step \in Nat, NEW place, Complete(w, status, state, step, place)
  PROVE  /\ ops' \in [Session -> Seq(Op)]
         /\ session' \in [Session -> Row]
<1>1. Tables /\ on[w] \in Session
  BY InHand DEF SessionInv, Types
<1>2. CASE UNCHANGED <<ops, session>>
  BY <1>1, <1>2 DEF Tables
<1>3. CASE Completable(w)
  <2> DEFINE o == [ops[on[w]][op[w]] EXCEPT !.status = status]
  <2>1. o \in Op /\ ops' = [ops EXCEPT ![on[w]][op[w]] = o]
    BY <1>3, OpUpdates DEF Complete
  <2>2. session' = [session EXCEPT ![on[w]] = [session[on[w]] EXCEPT !.state = state, !.step = step]]
    BY <1>1, <1>3 DEF Complete, NewStep, Tables
  <2>3. ops' \in [Session -> Seq(Op)]
    BY <1>1, <2>1, OpChange
  <2>4. session[on[w]] \in Row
    BY <1>1 DEF Tables
  <2>5. [session[on[w]] EXCEPT !.state = state, !.step = step] \in Row
    BY <2>4 DEF Row
  <2> QED
    BY <1>1, <2>2, <2>3, <2>5 DEF Tables
<1> QED
  BY <1>2, <1>3 DEF Complete

LEMMA HalfClosedTypes ==
  ASSUME SessionInv, NEW s \in Session, NEW i, NEW e \in HalfClosed(episodes[s][i])
  PROVE  i \in DOMAIN episodes[s] => e \in Episode
<1>1. i \in DOMAIN episodes[s] => episodes[s][i] \in Episode
  BY EpisodesTypes, LenProperties, ElementOfSeq DEF SessionInv, Types
<1> QED
  BY <1>1 DEF HalfClosed, Episode

LEMMA NewOpTypes ==
  ASSUME Tables, NEW s \in Session, NEW kind \in {"reset", "step", "close", "cancel"},
         NEW status \in {"pending", "running", "completed"}
  PROVE  NewOp(s, kind, status) \in Op
BY DEF NewOp, Op, Tables, Row, Finished

LEMMA EndedOpTypes ==
  ASSUME NEW o \in Op
  PROVE  EndedOp(o) \in Op
BY DEF EndedOp, Op, Finished

LEMMA EndedOps ==
  ASSUME Tables, NEW s \in Session, ops' = [ops EXCEPT ![s] = [i \in DOMAIN @ |-> EndedOp(@[i])]]
  PROVE  /\ ops' \in [Session -> Seq(Op)]
         /\ \A r \in Session \ {s} : ops'[r] = ops[r]
         /\ DOMAIN ops'[s] = DOMAIN ops[s]
         /\ \A i \in DOMAIN ops[s] : ops'[s][i] = EndedOp(ops[s][i])
<1> DEFINE q == [i \in DOMAIN ops[s] |-> EndedOp(ops[s][i])]
<1>1. ops' = [ops EXCEPT ![s] = q] /\ ops \in [Session -> Seq(Op)]
  BY DEF Tables
<1>2. q \in Seq(Op)
  <2>1. ops[s] \in Seq(Op) /\ Len(ops[s]) \in Nat /\ DOMAIN ops[s] = 1..Len(ops[s])
    BY <1>1, LenProperties
  <2>2. \A i \in 1..Len(ops[s]) : EndedOp(ops[s][i]) \in Op
    BY <2>1, EndedOpTypes
  <2>3. q \in [1..Len(ops[s]) -> Op]
    BY <2>1, <2>2
  <2> QED
    BY <2>1, <2>3
<1>3. DOMAIN q = DOMAIN ops[s] /\ \A i \in DOMAIN ops[s] : q[i] = EndedOp(ops[s][i])
  OBVIOUS
<1> HIDE DEF q
<1> QED
  BY <1>1, <1>2, <1>3

\* A step that leaves the rows it does not name alone.
OtherTables == UNCHANGED <<campaign, cancelled, woken, overdue, crashes>>

LEMMA TablesFromRows ==
  ASSUME Tables, OtherTables, session' \in [Session -> Row], ops' \in [Session -> Seq(Op)],
         UNCHANGED <<job, episodes>>
  PROVE  Tables'
BY DEF Tables, OtherTables

LEMMA AppendedOp ==
  ASSUME Tables, NEW s \in Session, NEW o \in Op, ops' = [ops EXCEPT ![s] = Append(@, o)]
  PROVE  /\ ops' \in [Session -> Seq(Op)]
         /\ \A r \in Session \ {s} : ops'[r] = ops[r]
         /\ Len(ops[s]) \in Nat /\ DOMAIN ops[s] = 1..Len(ops[s])
         /\ DOMAIN ops'[s] = 1..(Len(ops[s]) + 1)
         /\ \A j \in DOMAIN ops[s] : ops'[s][j] = ops[s][j]
         /\ ops'[s][Len(ops[s]) + 1] = o
<1> DEFINE q == Append(ops[s], o)
<1>1. ops \in [Session -> Seq(Op)] /\ ops[s] \in Seq(Op)
  BY DEF Tables
<1>2. Len(ops[s]) \in Nat /\ DOMAIN ops[s] = 1..Len(ops[s])
  BY <1>1, LenProperties
<1>3. /\ q \in Seq(Op) /\ Len(q) = Len(ops[s]) + 1
      /\ \A j \in DOMAIN ops[s] : q[j] = ops[s][j]
      /\ q[Len(ops[s]) + 1] = o
  BY <1>1, <1>2, AppendProperties
<1>4. DOMAIN q = 1..(Len(ops[s]) + 1)
  BY <1>3, LenProperties
<1>5. ops' = [ops EXCEPT ![s] = q]
  OBVIOUS
<1> HIDE DEF q
<1> QED
  BY <1>1, <1>2, <1>3, <1>4, <1>5

LEMMA AppendedEpisode ==
  ASSUME Tables, NEW s \in Session, NEW e \in Episode, episodes' = [episodes EXCEPT ![s] = Append(@, e)]
  PROVE  /\ episodes' \in [Session -> Seq(Episode)]
         /\ \A r \in Session \ {s} : episodes'[r] = episodes[r]
         /\ Len(episodes[s]) \in Nat /\ DOMAIN episodes[s] = 1..Len(episodes[s])
         /\ DOMAIN episodes'[s] = 1..(Len(episodes[s]) + 1)
         /\ \A j \in DOMAIN episodes[s] : episodes'[s][j] = episodes[s][j]
         /\ episodes'[s][Len(episodes[s]) + 1] = e
<1> DEFINE q == Append(episodes[s], e)
<1>1. episodes \in [Session -> Seq(Episode)] /\ episodes[s] \in Seq(Episode)
  BY EpisodesTypes
<1>2. Len(episodes[s]) \in Nat /\ DOMAIN episodes[s] = 1..Len(episodes[s])
  BY <1>1, LenProperties
<1>3. /\ q \in Seq(Episode) /\ Len(q) = Len(episodes[s]) + 1
      /\ \A j \in DOMAIN episodes[s] : q[j] = episodes[s][j]
      /\ q[Len(episodes[s]) + 1] = e
  BY <1>1, <1>2, AppendProperties
<1>4. DOMAIN q = 1..(Len(episodes[s]) + 1)
  BY <1>3, LenProperties
<1>5. episodes' = [episodes EXCEPT ![s] = q]
  OBVIOUS
<1> HIDE DEF q
<1> QED
  BY <1>1, <1>2, <1>3, <1>4, <1>5

LEMMA InternalTypes ==
  ASSUME SessionInv, NEW w \in Worker, pc[w] # "idle", NEW kind \in {"reset", "step"}, Internal(w, kind)
  PROVE  ops' \in [Session -> Seq(Op)]
<1>1. Tables /\ on[w] \in Session
  BY OnSession, KeeperIsNoWorker DEF SessionInv, Types
<1>2. CASE UNCHANGED ops
  BY <1>1, <1>2 DEF Tables
<1>3. CASE ops' = [ops EXCEPT ![on[w]] = Append(@, NewOp(on[w], kind, "running"))]
  BY <1>1, <1>3, AppendedOp, NewOpTypes
<1> QED
  BY <1>2, <1>3 DEF Internal

LEMMA CleanedTypes ==
  ASSUME SessionInv, NEW s \in Session, NEW i,
         \/ UNCHANGED episodes
         \/ episodes' = [episodes EXCEPT ![s][i] = Gone]
         \/ episodes' = [episodes EXCEPT ![s][i].capsule = "gone"]
         \/ episodes' = [episodes EXCEPT ![s][i].capsule = "attached"]
         \/ episodes' = [episodes EXCEPT ![s][i].row = "ended"]
         \/ \E e \in HalfClosed(episodes[s][i]) : episodes' = [episodes EXCEPT ![s][i] = e]
  PROVE  episodes' \in [Session -> Seq(Episode)]
<1>1. Tables /\ episodes \in [Session -> Seq(Episode)]
  BY EpisodesTypes DEF SessionInv, Types
<1>2. i \in DOMAIN episodes[s] => episodes[s][i] \in Episode
  BY <1>1, LenProperties, ElementOfSeq
<1>3. Gone \in Episode
  BY DEF Gone, Episode
<1>4. ASSUME NEW e, i \in DOMAIN episodes[s] => e \in Episode, episodes' = [episodes EXCEPT ![s][i] = e]
      PROVE  episodes' \in [Session -> Seq(Episode)]
  BY <1>1, <1>4, EpisodeChange
<1>5. CASE episodes' = [episodes EXCEPT ![s][i].capsule = "gone"]
  <2> DEFINE e == [episodes[s][i] EXCEPT !.capsule = "gone"]
  <2>1. i \in DOMAIN episodes[s] => e \in Episode
    BY <1>2 DEF Episode
  <2>2. episodes' = [episodes EXCEPT ![s][i] = e]
    BY <1>5
  <2> HIDE DEF e
  <2> QED
    BY <1>4, <2>1, <2>2
<1>6. CASE episodes' = [episodes EXCEPT ![s][i].capsule = "attached"]
  <2> DEFINE e == [episodes[s][i] EXCEPT !.capsule = "attached"]
  <2>1. i \in DOMAIN episodes[s] => e \in Episode
    BY <1>2 DEF Episode
  <2>2. episodes' = [episodes EXCEPT ![s][i] = e]
    BY <1>6
  <2> HIDE DEF e
  <2> QED
    BY <1>4, <2>1, <2>2
<1>7. CASE episodes' = [episodes EXCEPT ![s][i].row = "ended"]
  <2> DEFINE e == [episodes[s][i] EXCEPT !.row = "ended"]
  <2>1. i \in DOMAIN episodes[s] => e \in Episode
    BY <1>2 DEF Episode
  <2>2. episodes' = [episodes EXCEPT ![s][i] = e]
    BY <1>7
  <2> HIDE DEF e
  <2> QED
    BY <1>4, <2>1, <2>2
<1>8. CASE \E e \in HalfClosed(episodes[s][i]) : episodes' = [episodes EXCEPT ![s][i] = e]
  BY <1>4, <1>8, HalfClosedTypes
<1>9. CASE episodes' = [episodes EXCEPT ![s][i] = Gone] \/ UNCHANGED episodes
  BY <1>1, <1>3, <1>4, <1>9
<1> QED
  BY <1>5, <1>6, <1>7, <1>8, <1>9

LEMMA JobTypes ==
  ASSUME SessionInv
  PROVE  \A s \in Session : FailedRow(job[s]) \in [status : JobStatus, owner : Worker \cup {NoWorker},
                                                   expired : BOOLEAN, attempts : Nat]
<1>1. \A s \in Session : job[s] \in [status : JobStatus, owner : Worker \cup {NoWorker},
                                     expired : BOOLEAN, attempts : Nat]
  BY DEF SessionInv, Types, Tables
<1> QED
  BY <1>1 DEF FailedRow, JobStatus

LEMMA TablesStep ==
  ASSUME SessionInv, Next
  PROVE  Tables'
<1> USE KeeperIsNoWorker
<1>0. Tables /\ Memory
  BY DEF SessionInv, Types
<1>r. \A s \in Session : session[s] \in Row /\ job[s] \in [status : JobStatus, owner : Worker \cup {NoWorker},
                                                           expired : BOOLEAN, attempts : Nat]
  BY <1>0 DEF Tables
<1>1. ASSUME NEW w \in Worker, Worked(w) PROVE Tables'
  <2>0. pc[w] # "idle" => on[w] \in Session
    BY OnSession
  <2>1. CASE Begin(w)
    <3>1. on[w] \in Session /\ session[on[w]] \in Row /\ fence[w] \in Nat
      BY <2>0, <2>1, <1>0, <1>r DEF Begin, Memory
    <3>2. CASE UNCHANGED session
      BY <2>1, <3>2, <1>0 DEF Begin, Tables, world
    <3>3. CASE session' = [session EXCEPT ![on[w]] =
                             [session[on[w]] EXCEPT !.fence = fence[w], !.worker = w, !.state = "ready"]]
      <4>1. [session[on[w]] EXCEPT !.fence = fence[w], !.worker = w, !.state = "ready"] \in Row
        BY <3>1 DEF Row, State
      <4> QED
        BY <2>1, <3>1, <3>3, <4>1, <1>0 DEF Begin, Tables, world
    <3> QED
      BY <2>1, <3>1, <3>2, <3>3 DEF Begin
  <2>2. CASE Open(w)
    <3>1. on[w] \in Session /\ campaign[on[w]] \in DOMAIN NextStatus => NextStatus[campaign[on[w]]] \in CampaignStatus
      BY DEF NextStatus, CampaignStatus
    <3> QED
      BY <2>0, <2>2, <3>1, <1>0 DEF Open, Tables, world
  <2>3. CASE Loop(w) \/ Guard(w) \/ Observe(w) \/ LeaseLost(w)
    BY <2>3, <1>0 DEF Loop, Guard, Observe, LeaseLost, Tables, tables, world
  <2>4. CASE ClaimCommand(w)
    <3>1. CASE UNCHANGED ops
      BY <2>4, <3>1, <1>0 DEF ClaimCommand, Tables, world
    <3>2. ASSUME NEW i \in Pending(on[w]), ops' = [ops EXCEPT ![on[w]][i].status = "running"]
          PROVE  Tables'
      <4>1. on[w] \in Session /\ i \in DOMAIN ops[on[w]]
        BY <2>0, <2>4 DEF ClaimCommand, Pending
      <4>2. ops[on[w]][i] \in Op
        BY <1>0, <4>1, LenProperties, ElementOfSeq DEF Tables
      <4>3. [ops[on[w]][i] EXCEPT !.status = "running"] \in Op
        BY <4>2 DEF Op
      <4>4. ops' = [ops EXCEPT ![on[w]][i] = [ops[on[w]][i] EXCEPT !.status = "running"]]
        BY <3>2
      <4>5. ops' \in [Session -> Seq(Op)]
        BY <4>1, <4>3, <4>4, <1>0, OpChange
      <4> QED
        BY <2>4, <4>5, <1>0 DEF ClaimCommand, Tables, world
    <3> QED
      BY <2>4, <3>1, <3>2 DEF ClaimCommand
  <2>5. CASE ResetCloses(w) \/ Detach(w)
    <3>1. episodes' \in [Session -> Seq(Episode)]
      BY <2>0, <2>5, CleanedTypes DEF ResetCloses, Detach
    <3> QED
      BY <2>5, <3>1, <1>0 DEF ResetCloses, Detach, Tables, world, Episode
  <2>6. CASE ResetAdmits(w)
    <3>0. pc[w] \in WithCommand
      BY <2>6 DEF ResetAdmits, WithCommand
    <3>1. session' \in [Session -> Row] /\ ops' \in [Session -> Seq(Op)]
      <4>1. session[on[w]].step \in Nat /\ "episode_done" \in State
        BY <3>0, InHand, <1>r DEF Row, State
      <4>2. CASE Complete(w, "failed", "episode_done", session[on[w]].step, "home")
        BY SMTT(30), <3>0, <4>1, <4>2, CompleteTables
      <4>3. CASE ops' = [ops EXCEPT ![on[w]][op[w]].began = @ + 1] /\ UNCHANGED session
        BY <3>0, <4>3, <1>0, BeganTypes DEF Tables
      <4> QED
        BY <2>6, <4>2, <4>3 DEF ResetAdmits
    <3> QED
      BY <2>6, <3>1, <1>0, TablesFromRows DEF ResetAdmits, OtherTables, world
  <2>7. CASE Provision(w)
    <3>1. CASE UNCHANGED episodes
      BY <2>7, <3>1, <1>0 DEF Provision, Tables, world
    <3>2. ASSUME NEW row \in {"open", "ended"}, NEW capsule \in {"made", "gone"},
                 episodes' = [episodes EXCEPT ![on[w]] = Append(@, [row |-> row, capsule |-> capsule])]
          PROVE  episodes' \in [Session -> Seq(Episode)]
      <4>1. [row |-> row, capsule |-> capsule] \in Episode
        BY DEF Episode
      <4> QED
        BY <2>0, <2>7, <3>2, <4>1, <1>0, AppendedEpisode DEF Provision
    <3>3. UNCHANGED episodes \/ episodes' \in [Session -> Seq(Episode)]
      BY <2>7, <3>2 DEF Provision
    <3> QED
      BY <2>7, <3>1, <3>3, <1>0 DEF Provision, Tables, world, Episode
  <2>8. CASE Attach(w)
    <3>1. on[w] \in Session /\ env[w] \in Nat
      BY <2>0, <2>8, <1>0 DEF Attach, Memory
    <3>2. episodes' \in [Session -> Seq(Episode)]
      BY <2>8, <3>1, CleanedTypes DEF Attach
    <3>3. session' \in [Session -> Row]
      <4>1. [session[on[w]] EXCEPT !.episode = env[w], !.handle = env[w]] \in Row
        BY Zenon, <3>1, <1>r DEF Row
      <4>2. UNCHANGED session \/ session' = [session EXCEPT ![on[w]] =
                [session[on[w]] EXCEPT !.episode = env[w], !.handle = env[w]]]
        BY <2>8, <3>1 DEF Attach
      <4> QED
        BY <3>1, <4>1, <4>2, <1>0 DEF Tables
    <3> QED
      BY <2>8, <3>2, <3>3, <1>0 DEF Attach, Tables, world, Episode
  <2>9. CASE Observed(w) \/ Answer(w)
    <3>0. pc[w] \in WithCommand /\ envStep[w] \in Nat /\ {"active", "episode_done"} \subseteq State
      BY <2>9, <1>0 DEF Observed, Answer, WithCommand, Memory, State
    <3>1. session' \in [Session -> Row] /\ ops' \in [Session -> Seq(Op)]
      BY <2>9, <3>0, CompleteTables DEF Observed, Answer
    <3> QED
      BY <2>9, <3>1, <1>0, TablesFromRows DEF Observed, Answer, OtherTables, world
  <2>10. CASE Step(w)
    <3>0. pc[w] \in WithCommand
      BY <2>10 DEF Step, WithCommand
    <3>1. session[on[w]].step \in Nat /\ session[on[w]].state \in State
      BY <3>0, InHand, <1>r DEF Row
    <3>2. session' \in [Session -> Row] /\ ops' \in [Session -> Seq(Op)]
      <4>1. CASE Complete(w, "failed", session[on[w]].state, session[on[w]].step, "home")
        BY <3>0, <3>1, <4>1, CompleteTables
      <4>2. CASE ops' = [ops EXCEPT ![on[w]][op[w]].began = @ + 1] /\ UNCHANGED session
        BY <3>0, <4>2, <1>0, BeganTypes DEF Tables
      <4> QED
        BY <2>10, <4>1, <4>2 DEF Step
    <3> QED
      BY <2>10, <3>2, <1>0, TablesFromRows DEF Step, OtherTables
  <2>11. CASE Act(w) \/ Propose(w) \/ Stopped(w)
    BY <2>11, <1>0 DEF Act, Propose, Stopped, Tables, world
  <2>12. CASE Forget(w)
    <3>1. [session[on[w]] EXCEPT !.handle = IF session[on[w]].fence = fence[w] THEN 0 ELSE @] \in Row
      BY <2>0, <2>12, <1>r DEF Forget, Row
    <3>2. session' = [session EXCEPT ![on[w]] =
            [session[on[w]] EXCEPT !.handle = IF session[on[w]].fence = fence[w] THEN 0 ELSE @]]
      BY <2>12 DEF Forget
    <3> QED
      BY <2>0, <2>12, <3>1, <3>2, <1>0 DEF Forget, Tables, world
  <2>13. CASE Choose(w) \/ Proposed(w)
    <3>1. ops' \in [Session -> Seq(Op)]
      BY <2>13, InternalTypes, <1>0 DEF Choose, Proposed, Completes, Tables
    <3> QED
      BY <2>13, <3>1, <1>0 DEF Choose, Proposed, Tables, world
  <2>14. CASE Raise(w) \/ Finish(w) \/ Heartbeat(w)
    <3>0. on[w] \in Session
      BY <2>0, <2>14 DEF Raise, Finish, Heartbeat, Awaits
    <3>1. job' \in [Session -> [status : JobStatus, owner : Worker \cup {NoWorker},
                                expired : BOOLEAN, attempts : Nat]]
      <4> DEFINE row == job[on[w]]
      <4>1. /\ {FailedRow(row), [row EXCEPT !.expired = FALSE],
                [row EXCEPT !.status = "PENDING", !.owner = NoWorker, !.expired = FALSE],
                [row EXCEPT !.status = "COMPLETED", !.owner = NoWorker, !.expired = FALSE]}
               \subseteq [status : JobStatus, owner : Worker \cup {NoWorker},
                          expired : BOOLEAN, attempts : Nat]
        BY Zenon, <3>0, <1>r, JobTypes DEF JobStatus
      <4>2. \/ job' = job
            \/ job' = [job EXCEPT ![on[w]] = FailedRow(row)]
            \/ job' = [job EXCEPT ![on[w]] = [row EXCEPT !.expired = FALSE]]
            \/ job' = [job EXCEPT ![on[w]] = [row EXCEPT !.status = "PENDING", !.owner = NoWorker,
                                                        !.expired = FALSE]]
            \/ job' = [job EXCEPT ![on[w]] = [row EXCEPT !.status = "COMPLETED", !.owner = NoWorker,
                                                        !.expired = FALSE]]
        BY <2>14 DEF Raise, Finish, Heartbeat
      <4>3. ASSUME NEW x \in [status : JobStatus, owner : Worker \cup {NoWorker},
                              expired : BOOLEAN, attempts : Nat], job' = [job EXCEPT ![on[w]] = x]
            PROVE  job' \in [Session -> [status : JobStatus, owner : Worker \cup {NoWorker},
                                         expired : BOOLEAN, attempts : Nat]]
        BY <4>3, <1>0 DEF Tables
      <4>4. CASE job' = job
        BY <4>4, <1>0 DEF Tables
      <4> HIDE DEF row
      <4> QED
        BY <4>1, <4>2, <4>3, <4>4
    <3> QED
      BY <2>14, <3>1, <1>0 DEF Raise, Finish, Heartbeat, Tables, world
  <2>15. CASE GiveUp(w)
    <3>1. job' \in [Session -> [status : JobStatus, owner : Worker \cup {NoWorker},
                                expired : BOOLEAN, attempts : Nat]]
      BY <2>15, <1>r, JobTypes DEF GiveUp, ClaimJob
    <3> QED
      BY <2>15, <3>1, <1>0 DEF GiveUp, Tables, world
  <2> QED
    BY <1>1, <2>1, <2>2, <2>3, <2>4, <2>5, <2>6, <2>7, <2>8, <2>9, <2>10, <2>11, <2>12, <2>13,
       <2>14, <2>15 DEF Worked
<1>2. ASSUME NEW p \in Process, Retired(p) PROVE Tables'
  <2>0. pc[p] # "idle" => on[p] \in Session
    BY OnSession
  <2>1. CASE Retire(p) \/ Died(p)
    BY <2>1, <1>0, Numbers DEF Retire, Died, Tables, tables, world
  <2>2. CASE Clean(p)
    <3>1. episodes' \in [Session -> Seq(Episode)]
      BY Zenon, <2>0, <2>2, CleanedTypes DEF Clean
    <3> QED
      BY <2>2, <3>1, <1>0 DEF Clean, Tables, world, Episode
  <2>3. CASE Commit(p)
    <3>0. on[p] \in Session
      BY <2>0, <2>3 DEF Commit
    <3>1. CASE Committed(p)
      <4> DEFINE s == on[p]
                 stop == IF session[s].stop \in {"client_closed", "client_cancelled"}
                         THEN session[s].stop ELSE "other"
                 handle == IF plan[p].dirty THEN session[s].handle ELSE 0
                 r == [session[s] EXCEPT !.state = EndState(p), !.stop = stop, !.handle = handle,
                                         !.released = TRUE]
      <4>1. session' = [session EXCEPT ![s] = r] /\ ops' = [ops EXCEPT ![s] = [i \in DOMAIN @ |-> EndedOp(@[i])]]
        BY <2>3, <3>1 DEF Commit
      <4>2. EndState(p) \in State
        BY <1>0 DEF EndState, Memory, Plan, State, Terminal
      <4>3. session[s] \in Row /\ handle \in Nat /\ stop \in {"none", "client_closed", "client_cancelled", "other"}
        BY <3>0, <1>r DEF Row
      <4>4. r \in Row
        <5> HIDE DEF stop, handle, s
        <5> QED
          BY <4>2, <4>3 DEF Row
      <4>5. session' \in [Session -> Row]
        <5> HIDE DEF r
        <5> QED
          BY <3>0, <4>1, <4>4, <1>0 DEF Tables
      <4>6. ops' \in [Session -> Seq(Op)]
        BY <3>0, <4>1, <1>0, EndedOps
      <4> QED
        BY <2>3, <4>5, <4>6, <1>0, TablesFromRows DEF Commit, OtherTables, world
    <3>2. CASE ~ Committed(p)
      BY <2>3, <3>2, <1>0 DEF Commit, Tables, world
    <3> QED
      BY <3>1, <3>2
  <2>4. CASE EndCampaign(p)
    BY <2>0, <2>4, <1>0 DEF EndCampaign, Tables, world, CampaignStatus
  <2>5. CASE EndEpisode(p)
    <3>1. episodes' \in [Session -> Seq(Episode)]
      BY Zenon, <2>0, <2>5, CleanedTypes DEF EndEpisode
    <3> QED
      BY <2>5, <3>1, <1>0 DEF EndEpisode, Tables, world, Episode
  <2>6. CASE Wake(p)
    BY <2>6, <1>0, Numbers DEF Wake, Tables, world
  <2> QED
    BY <1>2, <2>1, <2>2, <2>3, <2>4, <2>5, <2>6 DEF Retired
<1>3. ASSUME NEW s \in Session, Served(s) PROVE Tables'
  <2>1. CASE CreateSession(s)
    <3>1. [session[s] EXCEPT !.state = "queued"] \in Row
      BY <1>r DEF Row, State
    <3> QED
      BY <2>1, <3>1, <1>0 DEF CreateSession, Tables, world
  <2>2. CASE ClientHeartbeat(s) \/ CancelCampaign(s)
    BY <2>2, <1>0 DEF ClientHeartbeat, CancelCampaign, Tables, tables, world, CampaignStatus
  <2>3. CASE Maintain(s)
    BY <2>3, <1>0 DEF Maintain, Tables, tables, world
  <2>4. CASE Expire(s)
    BY <2>4, <1>0 DEF Expire, Tables, world
  <2>5. ASSUME NEW kind \in {"reset", "step", "close", "cancel"}, Submit(s, kind) PROVE Tables'
    <3> DEFINE over == session[s].state \in Terminal
               status == IF over THEN "completed" ELSE "pending"
               stop == IF over \/ kind \notin {"close", "cancel"} THEN session[s].stop
                       ELSE IF kind = "cancel" THEN "client_cancelled" ELSE "client_closed"
               r == [session[s] EXCEPT !.stop = stop]
    <3>1. /\ ops' = [ops EXCEPT ![s] = Append(@, NewOp(s, kind, status))]
          /\ session' = [session EXCEPT ![s] = r]
      BY <2>5 DEF Submit
    <3>2. ops' \in [Session -> Seq(Op)]
      BY <3>1, <1>0, AppendedOp, NewOpTypes
    <3>3. session[s] \in Row /\ stop \in {"none", "client_closed", "client_cancelled", "other"}
      BY <1>r DEF Row
    <3>4. r \in Row
      <4> HIDE DEF stop
      <4> QED
        BY <3>3 DEF Row
    <3>5. session' \in [Session -> Row]
      <4> HIDE DEF r
      <4> QED
        BY <3>1, <3>4, <1>0 DEF Tables
    <3> QED
      BY <2>5, <3>2, <3>5, <1>0 DEF Submit, Tables
  <2>6. ASSUME NEW limit \in {"silent", "late"}, TimePasses(s, limit) PROVE Tables'
    BY <2>6, <1>0 DEF TimePasses, Tables, tables
  <2>7. ASSUME NEW w \in Worker, Claim(w, s) PROVE Tables'
    <3>1. job' \in [Session -> [status : JobStatus, owner : Worker \cup {NoWorker},
                                expired : BOOLEAN, attempts : Nat]]
      BY <2>7, <1>r, JobTypes DEF Claim, ClaimJob, JobStatus
    <3> QED
      BY <2>7, <3>1, <1>0 DEF Claim, Tables, world
  <2> QED
    BY <1>3, <2>1, <2>2, <2>3, <2>4, <2>5, <2>6, <2>7 DEF Served
<1> QED
  BY StepCases, <1>1, <1>2, <1>3

\* Usage is recorded and never taken back.
Grows ==
  /\ used' \in [Session -> Nat] /\ flight' \in [Session -> Nat]
  /\ \A s \in Session : used'[s] >= used[s]

LEMMA CollectGrows ==
  ASSUME Money, NEW r \in Session, NEW cost \in 0..flight[r], Collect(r, cost)
  PROVE  Grows
<1>1. cost \in Nat /\ flight[r] - cost \in Nat /\ used[r] + cost \in Nat /\ used[r] + cost >= used[r]
  BY DEF Money
<1> QED
  BY <1>1 DEF Money, Collect, Grows

LEMMA CollectedGrows ==
  ASSUME Money, NEW p, on[p] \in Session, Collected(p)
  PROVE  Grows
<1>1. CASE Collects(on[p])
  BY <1>1, CollectGrows DEF Collects
<1>2. CASE UNCHANGED <<used, flight>>
  BY <1>2 DEF Grows, Money
<1> QED
  BY <1>1, <1>2 DEF Collected

LEMMA RecordGrows ==
  ASSUME Money, NEW r \in Session, ProposalRecorded(r)
  PROVE  Grows
<1>1. PICK cost \in Nat : used' = [used EXCEPT ![r] = @ + cost]
  BY Numbers DEF ProposalRecorded
<1>2. flight' = flight
  BY DEF ProposalRecorded
<1> QED
  BY <1>1, <1>2 DEF Money, Grows

LEMMA UsageStep ==
  ASSUME SessionInv, Next
  PROVE  Grows
<1> USE KeeperIsNoWorker
<1>0. Money /\ \A p \in Process : pc[p] # "idle" => on[p] \in Session
  BY OnSession DEF SessionInv, Types
<1>s. CASE UNCHANGED <<used, flight>>
  BY <1>0, <1>s DEF Grows, Money
<1>1. ASSUME NEW w \in Worker, Worked(w) PROVE Grows
  <2>1. CASE Step(w)
    <3>1. CASE \E cost \in Usage : flight' = [flight EXCEPT ![on[w]] = @ + cost]
      <4>1. PICK cost \in Nat : flight' = [flight EXCEPT ![on[w]] = @ + cost]
        BY <3>1, Numbers
      <4>2. used' = used
        BY <2>1 DEF Step
      <4> QED
        <5>1. on[w] \in Session
          BY <2>1, <1>0 DEF Step
        <5>2. flight[on[w]] \in Nat
          BY <5>1, <1>0 DEF Money
        <5> QED
          BY <4>1, <4>2, <5>1, <5>2, <1>0 DEF Money, Grows
    <3> QED
      BY <2>1, <3>1, <1>s DEF Step, calls
  <2>2. CASE Act(w)
    BY <2>2, <1>0, CollectGrows DEF Act, Collects
  <2>3. CASE ResetCloses(w) \/ Detach(w)
    <3>1. on[w] \in Session /\ flight[on[w]] \in 0..flight[on[w]]
      BY <2>3, <1>0 DEF ResetCloses, Detach, Money
    <3>2. Collects(on[w])
      BY <2>3, <3>1 DEF ResetCloses, Detach, Collects
    <3> QED
      BY <1>0, <3>1, <3>2, CollectGrows DEF Collects
  <2>4. CASE Propose(w) \/ Stopped(w) \/ LeaseLost(w)
    <3>1. on[w] \in Session
      BY <2>4, <1>0 DEF Propose, Stopped, LeaseLost, Awaits
    <3>2. ProposalRecorded(on[w]) \/ Collected(w) \/ UNCHANGED <<used, flight>>
      BY <2>4 DEF Propose, Stopped, LeaseLost, calls
    <3> QED
      BY <1>0, <1>s, <3>1, <3>2, RecordGrows, CollectedGrows
  <2> QED
    BY Zenon, <1>1, <1>s, <2>1, <2>2, <2>3, <2>4
    DEF Worked, Begin, Open, Loop, ClaimCommand, Guard, ResetAdmits, Provision, Attach,
        Observe, Observed, Answer, Forget, Choose, Proposed, Raise, Finish, GiveUp, Heartbeat,
        tables, world, calls
<1>2. ASSUME NEW p \in Process, Retired(p) PROVE Grows
  <2>1. CASE Clean(p) \/ Died(p)
    <3>1. on[p] \in Session
      BY <2>1, <1>0 DEF Clean, Died
    <3>2. Collected(p) \/ UNCHANGED <<used, flight>>
      BY <2>1 DEF Clean, Died
    <3> QED
      BY <1>0, <1>s, <3>1, <3>2, CollectedGrows
  <2> QED
    BY Zenon, <1>2, <1>s, <2>1 DEF Retired, Retire, Commit, EndCampaign, EndEpisode, Wake, tables, world, calls
<1>3. ASSUME NEW s \in Session, Served(s) PROVE Grows
  <2>1. UNCHANGED <<used, flight>>
    BY <1>3 DEF Served, CreateSession, ClientHeartbeat, CancelCampaign, Expire, Maintain, Submit,
                TimePasses, Claim, tables, world, calls
  <2> QED
    BY <1>s, <2>1
<1> QED
  BY StepCases, <1>1, <1>2, <1>3

\* Who asks a model, and who learns the answer.
LEMMA AskedStep ==
  ASSUME SessionInv, NEW w \in Worker, Worked(w)
  PROVE  \/ UNCHANGED unanswered
         \/ /\ pc[w] \in {"step", "choose"}
            /\ unanswered' = unanswered \cup {on[w]}
         \/ /\ pc[w] \in {"act", "propose"}
            /\ unanswered' = unanswered \ {on[w]}
<1>1. CASE Step(w) \/ Choose(w)
  BY <1>1 DEF Step, Choose, calls
<1>2. CASE Act(w) \/ Propose(w) \/ Stopped(w)
  BY <1>2 DEF Act, Propose, Stopped, ProposalRecorded, calls
<1> QED
  BY Zenon, <1>1, <1>2
  DEF Worked, Begin, Open, Loop, ClaimCommand, Guard, ResetCloses, ResetAdmits, Provision, Attach,
      Observe, Observed, Answer, Detach, Forget, Proposed, Raise, Finish, GiveUp, Heartbeat,
      LeaseLost, tables, world, calls

LEMMA MoneyStep ==
  ASSUME SessionInv, Next
  PROVE  Money'
<1> USE KeeperIsNoWorker
<1>0. Money /\ Tables /\ Memory
  BY DEF SessionInv, Types
<1>1. ASSUME NEW w \in Worker, Worked(w) PROVE UNCHANGED owner /\ unanswered' \subseteq Session
  <2>1. pc[w] \in {"step", "choose"} => on[w] \in Session
    BY OnSession
  <2>2. unanswered' \subseteq Session
    BY <1>0, <1>1, <2>1, AskedStep DEF Money
  <2>3. UNCHANGED owner
    BY Zenon, <1>1
    DEF Worked, Begin, Open, Loop, ClaimCommand, Guard, ResetCloses, ResetAdmits, Provision, Attach,
        Observe, Observed, Step, Act, Answer, Detach, Forget, Choose, Propose, Proposed, Raise, Finish,
        GiveUp, Heartbeat, LeaseLost, Stopped, tables
  <2> QED
    BY <2>2, <2>3
<1>2. ASSUME NEW p \in Process, Retired(p)
      PROVE  UNCHANGED unanswered /\ owner' \in [reserved : Int, spent : Nat]
  <2>1. CASE Commit(p)
    <3>1. CASE UNCHANGED owner
      BY <2>1, <3>1, <1>0 DEF Commit, Money, world, calls
    <3>2. CASE owner' = [reserved |-> owner.reserved - Cost,
                         spent |-> owner.spent + Charged(on[p], EndState(p))]
      <4>1. Charged(on[p], EndState(p)) \in Nat
        BY <2>1, <1>0, OnSession, Numbers DEF Charged, Money, Commit
      <4> QED
        BY <2>1, <3>2, <4>1, <1>0, Numbers DEF Commit, Money, world, calls
    <3> QED
      BY <2>1, <3>1, <3>2 DEF Commit
  <2> QED
    BY <1>0, <1>2, <2>1
    DEF Retired, Retire, Clean, EndCampaign, EndEpisode, Wake, Died, tables, world, calls, Money
<1>3. ASSUME NEW s \in Session, Served(s)
      PROVE  UNCHANGED unanswered /\ owner' \in [reserved : Int, spent : Nat]
  <2>1. CASE CreateSession(s)
    BY <2>1, <1>0, Numbers DEF CreateSession, Money, world, calls
  <2> QED
    BY <1>0, <1>3, <2>1
    DEF Served, ClientHeartbeat, CancelCampaign, Expire, Maintain, Submit, TimePasses, Claim,
        tables, world, calls, Money
<1> QED
  BY StepCases, UsageStep, <1>0, <1>1, <1>2, <1>3 DEF Grows, Money

-----------------------------------------------------------------------------
(* What most steps leave as it is: the leases, the fences, the sessions     *)
(* that are over, and which runs there are.                                 *)

JobsKept == \A s \in Session :
  /\ job'[s].attempts = job[s].attempts
  /\ job'[s].owner \in {job[s].owner, NoWorker}
  /\ job'[s].status = "LEASED" => job[s].status = "LEASED" /\ job'[s].owner = job[s].owner

FencesKept == \A s \in Session :
  /\ session'[s].fence = session[s].fence /\ session'[s].worker = session[s].worker
  /\ session[s].state # "new" => session'[s].state # "new"

EndsKept == \A s \in Session : session'[s].state \in Terminal => session[s].state \in Terminal

RunsKept ==
  /\ \A p \in Process :
       \/ pc'[p] = "idle"
       \/ /\ pc[p] # "idle" /\ on'[p] = on[p] /\ fence'[p] = fence[p]
          /\ pc'[p] = "begin" <=> pc[p] = "begin"
  /\ \A w \in Worker :
       /\ pc'[w] \in Running \/ env'[w] # 0 => pc[w] \in Running \/ env[w] # 0
       /\ pc[w] \in Late => pc'[w] \in Late \cup {"idle"}
  /\ Whereabouts'

LEMMA StayKept ==
  ASSUME SessionInv, UNCHANGED <<pc, memory>>
  PROVE  RunsKept
BY DEF SessionInv, Places, Whereabouts, RunsKept, memory

LEMMA IdleKept ==
  ASSUME SessionInv, NEW p \in Process, Idle(p)
  PROVE  RunsKept
<1>1. /\ pc' = [pc EXCEPT ![p] = "idle"] /\ env' = [env EXCEPT ![p] = 0]
      /\ on' = [on EXCEPT ![p] = NoSession] /\ fence' = [fence EXCEPT ![p] = 0]
  BY DEF Idle, Goto
<1>2. Memory /\ Whereabouts
  BY DEF SessionInv, Types, Places
<1>3. \A q \in Process : \/ q = p /\ pc'[q] = "idle" /\ env'[q] = 0
                         \/ q # p /\ pc'[q] = pc[q] /\ env'[q] = env[q] /\ on'[q] = on[q] /\ fence'[q] = fence[q]
  BY <1>1, <1>2 DEF Memory
<1>4. \A w \in Worker : /\ pc'[w] \in Running \/ env'[w] # 0 => pc[w] \in Running \/ env[w] # 0
                        /\ pc[w] \in Late => pc'[w] \in Late \cup {"idle"}
  BY <1>3, KeeperIsNoWorker DEF Running, WithCommand
<1>5. Whereabouts'
  BY <1>2, <1>3, KeeperIsNoWorker DEF Whereabouts, Keeping
<1> QED
  BY <1>3, <1>4, <1>5 DEF RunsKept

LEMMA MoveKept ==
  ASSUME SessionInv, NEW p \in Process, NEW place, Goto(p, place), UNCHANGED <<on, fence>>,
         \A q \in Process \ {p} : env'[q] = env[q],
         pc[p] \notin {"idle", "begin"}, place \notin {"idle", "begin"},
         p = Keeper => place \in Keeping /\ env'[p] = 0,
         place \in Running => pc[p] \in Running,
         env'[p] # 0 => pc[p] \in Running \/ env[p] # 0,
         pc[p] \in Late => place \in Late,
         place \in {"choose", "propose", "proposed"} => on[p] \in Managed,
         place \in {"provision", "forget"} => env'[p] = 0
  PROVE  RunsKept
<1>1. pc' = [pc EXCEPT ![p] = place]
  BY DEF Goto
<1>2. Memory /\ Whereabouts
  BY DEF SessionInv, Types, Places
<1>3. \A q \in Process : \/ q = p /\ pc'[q] = place
                         \/ q # p /\ pc'[q] = pc[q] /\ env'[q] = env[q]
  BY <1>1, <1>2 DEF Memory
<1>4. \A w \in Worker : /\ pc'[w] \in Running \/ env'[w] # 0 => pc[w] \in Running \/ env[w] # 0
                        /\ pc[w] \in Late => pc'[w] \in Late \cup {"idle"}
  BY <1>3, KeeperIsNoWorker
<1>5. Whereabouts'
  BY <1>2, <1>3, KeeperIsNoWorker DEF Whereabouts
<1>6. \A q \in Process : \/ pc'[q] = "idle"
                         \/ /\ pc[q] # "idle" /\ on'[q] = on[q] /\ fence'[q] = fence[q]
                            /\ pc'[q] = "begin" <=> pc[q] = "begin"
  BY <1>2, <1>3 DEF Memory
<1> QED
  BY <1>4, <1>5, <1>6 DEF RunsKept

LEMMA RetiresKept ==
  ASSUME SessionInv, NEW p \in Process, NEW state, NEW then, Retires(p, state, then),
         UNCHANGED <<on, fence, env>>, pc[p] \notin {"idle", "begin"}, pc[p] \notin Late
  PROVE  RunsKept
<1>1. p = Keeper => env'[p] = 0
  BY DEF SessionInv, Places, Whereabouts
<1>2. env'[p] # 0 => env[p] # 0
  OBVIOUS
<1> QED
  BY <1>1, <1>2, MoveKept DEF Retires, Running, WithCommand, Keeping

LEMMA RaisesKept ==
  ASSUME SessionInv, NEW w \in Worker, Raises(w), pc[w] \in Running
  PROVE  RunsKept
BY RetiresKept, KeeperIsNoWorker DEF Raises, Running, WithCommand, Late

LEMMA GotoKept ==
  ASSUME SessionInv, NEW w \in Worker, NEW place \in Running \cup {"raise"}, Goto(w, place),
         UNCHANGED <<on, fence>>, \A q \in Process \ {w} : env'[q] = env[q], pc[w] \in Running,
         place \in {"choose", "propose", "proposed"} => on[w] \in Managed,
         place \in {"provision", "forget"} => env'[w] = 0
  PROVE  RunsKept
<1>1. pc[w] \notin {"idle", "begin"} /\ pc[w] \notin Late /\ place \notin {"idle", "begin"}
  BY DEF Running, WithCommand, Late
<1> QED
  BY <1>1, MoveKept, KeeperIsNoWorker DEF Running, WithCommand

LEMMA HomeKept ==
  ASSUME SessionInv, NEW w \in Worker, Home(w), Stays, pc[w] \in Running
  PROVE  RunsKept
<1>1. /\ UNCHANGED <<on, fence, env>>
      /\ Goto(w, IF on[w] \in Managed THEN "choose" ELSE "loop")
  BY DEF Home, Stays
<1>2. CASE on[w] \in Managed
  BY <1>1, <1>2, GotoKept DEF Running
<1>3. CASE on[w] \notin Managed
  BY <1>1, <1>3, GotoKept DEF Running
<1> QED
  BY <1>2, <1>3

LEMMA SessionSame ==
  ASSUME UNCHANGED session
  PROVE  FencesKept /\ EndsKept
BY DEF FencesKept, EndsKept

LEMMA JobSame ==
  ASSUME UNCHANGED job
  PROVE  JobsKept
BY DEF JobsKept

LEMMA RowKept ==
  ASSUME Tables, NEW s \in Session, NEW r, session' = [session EXCEPT ![s] = r],
         r.fence = session[s].fence, r.worker = session[s].worker,
         session[s].state # "new" => r.state # "new",
         r.state \in Terminal => session[s].state \in Terminal
  PROVE  FencesKept /\ EndsKept
BY DEF FencesKept, EndsKept, Tables

LEMMA JobRowKept ==
  ASSUME Tables, NEW s \in Session, NEW r, job' = [job EXCEPT ![s] = r],
         r.attempts = job[s].attempts, r.owner \in {job[s].owner, NoWorker},
         r.status = "LEASED" => job[s].status = "LEASED" /\ r.owner = job[s].owner
  PROVE  JobsKept
BY DEF JobsKept, Tables

LEMMA CompleteKept ==
  ASSUME SessionInv, NEW w \in Worker, pc[w] \in WithCommand, NEW status, NEW state, NEW step,
         state \notin Terminal \/ state = session[on[w]].state, state # "new",
         NEW place \in {"home", "detach"}, Complete(w, status, state, step, place)
  PROVE  FencesKept /\ EndsKept /\ RunsKept
<1>0. /\ pc[w] \in Running /\ on[w] \in Session /\ Tables
  BY InHand DEF Running, SessionInv, Types
<1>1. FencesKept /\ EndsKept
  <2>1. CASE UNCHANGED session
    BY <2>1, SessionSame
  <2>2. CASE session' = [session EXCEPT ![on[w]].state = state, ![on[w]].step = step]
    <3> DEFINE r == [session[on[w]] EXCEPT !.state = state, !.step = step]
    <3>1. session[on[w]] \in Row
      BY <1>0 DEF Tables
    <3>2. /\ r.fence = session[on[w]].fence /\ r.worker = session[on[w]].worker /\ r.state = state
          /\ session' = [session EXCEPT ![on[w]] = r]
      BY <2>2, <3>1 DEF Row
    <3> HIDE DEF r
    <3> QED
      BY <1>0, <3>2, RowKept
  <2> QED
    BY <2>1, <2>2 DEF Complete, NewStep
<1>2. RunsKept
  <2>1. CASE Raises(w)
    BY <2>1, <1>0, RaisesKept
  <2>2. CASE Home(w) /\ Stays
    BY <2>2, <1>0, HomeKept
  <2>3. CASE Goto(w, "detach") /\ Stays
    BY <2>3, <1>0, GotoKept DEF Running, Stays
  <2> QED
    BY <2>1, <2>2, <2>3 DEF Complete
<1> QED
  BY <1>1, <1>2

LEMMA WorkKept ==
  ASSUME SessionInv, NEW w \in Worker, Worked(w), ~ Begin(w)
  PROVE  JobsKept /\ FencesKept /\ EndsKept /\ RunsKept
<1> USE KeeperIsNoWorker
<1>0. Tables /\ Memory /\ Whereabouts /\ (pc[w] # "idle" => on[w] \in Session)
  BY OnSession DEF SessionInv, Types, Places
<1>1. CASE Open(w)
  <2>1. RunsKept
    BY <1>1, HomeKept, GotoKept, StayKept DEF Open, Stays, memory, Running
  <2> QED
    BY <1>1, <2>1, JobSame, SessionSame DEF Open
<1>2. CASE Loop(w)
  <2>1. RunsKept
    BY <1>2, RetiresKept, GotoKept DEF Loop, Stays, Running, Late, WithCommand
  <2> QED
    BY <1>2, <2>1, JobSame, SessionSame DEF Loop, tables
<1>3. CASE ClaimCommand(w)
  <2>1. RunsKept
    BY <1>3, RaisesKept, GotoKept DEF ClaimCommand, Stays, Running, WithCommand
  <2> QED
    BY <1>3, <2>1, JobSame, SessionSame DEF ClaimCommand
<1>4. CASE Guard(w)
  <2>1. RunsKept
    BY <1>4, RaisesKept, GotoKept, GuardGoes DEF Guard, Stays, Running, WithCommand
  <2> QED
    BY <1>4, <2>1, JobSame, SessionSame DEF Guard, tables
<1>5. CASE ResetCloses(w)
  <2>1. CASE Raises(w)
    BY <1>5, <2>1, RaisesKept, JobSame, SessionSame DEF ResetCloses, Running, WithCommand
  <2>2. CASE env' = [env EXCEPT ![w] = 0] /\ UNCHANGED <<pc, on, fence>>
    <3>1. RunsKept
      BY <2>2, <1>0, <1>5 DEF ResetCloses, RunsKept, Whereabouts, Memory, Running, WithCommand
    <3> QED
      BY <1>5, <3>1, JobSame, SessionSame DEF ResetCloses
  <2> QED
    BY <1>5, <2>1, <2>2 DEF ResetCloses
<1>6. CASE ResetAdmits(w)
  <2>0. pc[w] \in WithCommand /\ "episode_done" \notin Terminal
    BY <1>6 DEF ResetAdmits, WithCommand, Terminal
  <2>1. CASE Complete(w, "failed", "episode_done", session[on[w]].step, "home")
    BY <1>6, <2>0, <2>1, CompleteKept, JobSame DEF ResetAdmits
  <2>2. CASE Goto(w, "provision") /\ Stays /\ UNCHANGED session
    BY <1>6, <2>2, GotoKept, JobSame, SessionSame DEF ResetAdmits, Stays, Running, WithCommand
  <2> QED
    BY <1>6, <2>1, <2>2 DEF ResetAdmits
<1>7. CASE Provision(w)
  <2>1. CASE Raises(w)
    BY <1>7, <2>1, RaisesKept, JobSame, SessionSame DEF Provision, Running, WithCommand
  <2>2. CASE Retires(w, "interrupted", "idle") /\ UNCHANGED <<on, fence, op, env, envStep>>
    BY <1>7, <2>2, RetiresKept, JobSame, SessionSame DEF Provision, Late
  <2>3. CASE Goto(w, "attach") /\ env' = [env EXCEPT ![w] = Len(episodes[on[w]]) + 1] /\ UNCHANGED <<on, fence>>
    <3>1. \A q \in Process \ {w} : env'[q] = env[q]
      BY <2>3, <1>0 DEF Memory
    <3> QED
      BY <1>7, <2>3, <3>1, GotoKept, JobSame, SessionSame DEF Provision, Running, WithCommand
  <2> QED
    BY <1>7, <2>1, <2>2, <2>3 DEF Provision
<1>8. CASE Attach(w)
  <2>1. RunsKept
    BY <1>8, RaisesKept, GotoKept DEF Attach, Stays, Running, WithCommand
  <2>2. FencesKept /\ EndsKept
    <3>1. on[w] \in Session
      BY <1>0, <1>8 DEF Attach
    <3>2. CASE UNCHANGED session
      BY <3>2, SessionSame
    <3>3. CASE session' = [session EXCEPT ![on[w]].episode = env[w], ![on[w]].handle = env[w]]
      <4> DEFINE r == [session[on[w]] EXCEPT !.episode = env[w], !.handle = env[w]]
      <4>1. session[on[w]] \in Row
        BY <1>0, <3>1 DEF Tables
      <4>2. /\ r.fence = session[on[w]].fence /\ r.worker = session[on[w]].worker
            /\ r.state = session[on[w]].state /\ session' = [session EXCEPT ![on[w]] = r]
        BY <3>3, <4>1 DEF Row
      <4> HIDE DEF r
      <4> QED
        BY <1>0, <3>1, <4>2, RowKept
    <3> QED
      BY <1>8, <3>2, <3>3 DEF Attach
  <2> QED
    BY <1>8, <2>1, <2>2, JobSame DEF Attach
<1>9. CASE Observe(w) \/ Act(w) \/ Propose(w)
  <2>1. RunsKept
    BY <1>0, <1>9, RaisesKept, GotoKept
    DEF Observe, Act, Propose, Stays, Running, WithCommand, Whereabouts
  <2> QED
    BY <1>9, <2>1, JobSame, SessionSame DEF Observe, Act, Propose, tables
<1>10. CASE Observed(w) \/ Answer(w)
  <2>0. pc[w] \in WithCommand /\ {"active", "episode_done"} \cap Terminal = {}
    BY <1>10 DEF Observed, Answer, WithCommand, Terminal
  <2> QED
    BY <1>10, <2>0, CompleteKept, JobSame DEF Observed, Answer
<1>11. CASE Step(w)
  <2>0. pc[w] \in WithCommand /\ session[on[w]].state # "new"
    BY <1>11, OnSession DEF Step, WithCommand, Created
  <2>1. CASE Complete(w, "failed", session[on[w]].state, session[on[w]].step, "home")
    BY <1>11, <2>0, <2>1, CompleteKept, JobSame DEF Step
  <2>2. CASE Goto(w, "act") /\ UNCHANGED <<on, fence, op, env, plan, session>>
    BY <1>11, <2>2, GotoKept, JobSame, SessionSame DEF Step, Running, WithCommand
  <2> QED
    BY <1>11, <2>1, <2>2 DEF Step
<1>12. CASE Detach(w)
  <2>1. CASE Raises(w)
    BY <1>12, <2>1, RaisesKept, JobSame, SessionSame DEF Detach, Running
  <2>2. CASE env' = [env EXCEPT ![w] = 0] /\ Goto(w, "forget") /\ UNCHANGED <<on, fence>>
    <3>1. env'[w] = 0 /\ \A q \in Process \ {w} : env'[q] = env[q]
      BY <2>2, <1>0 DEF Memory
    <3> QED
      BY <1>12, <2>2, <3>1, GotoKept, JobSame, SessionSame DEF Detach, Running
  <2> QED
    BY <1>12, <2>1, <2>2 DEF Detach
<1>13. CASE Forget(w)
  <2>1. FencesKept /\ EndsKept
    <3>1. on[w] \in Session
      BY <1>0, <1>13 DEF Forget
    <3> QED
      BY SMTT(30), <1>0, <1>13, <3>1 DEF Forget, FencesKept, EndsKept, Tables, Row
  <2> QED
    BY <1>13, <2>1, HomeKept, JobSame DEF Forget, Running
<1>14. CASE Choose(w) \/ Proposed(w)
  <2>0. pc[w] \in Running /\ pc[w] \notin {"idle", "begin"} /\ pc[w] \notin Late /\ on[w] \in Managed
    BY <1>0, <1>14 DEF Choose, Proposed, Running, WithCommand, Late, Whereabouts
  <2>1. ASSUME NEW kind, Internal(w, kind) PROVE RunsKept
    BY <2>0, <2>1, RaisesKept, GotoKept DEF Internal, Running, WithCommand
  <2>2. ASSUME Completes(w) PROVE RunsKept
    BY <2>0, <2>2, RetiresKept DEF Completes
  <2>3. ASSUME (Goto(w, "propose") /\ Stays) \/ Raises(w) PROVE RunsKept
    BY <2>0, <2>3, RaisesKept, GotoKept DEF Stays, Running
  <2>4. RunsKept
    BY <1>14, <2>1, <2>2, <2>3 DEF Choose, Proposed
  <2> QED
    BY <1>14, <2>4, JobSame, SessionSame DEF Choose, Proposed
<1>15. CASE Raise(w) \/ Finish(w)
  <2>1. RunsKept
    BY <1>15, IdleKept DEF Raise, Finish
  <2>2. JobsKept
    <3>1. on[w] \in Session
      BY <1>0, <1>15 DEF Raise, Finish
    <3> DEFINE row == job[on[w]]
    <3>2. /\ row \in [status : JobStatus, owner : Worker \cup {NoWorker}, expired : BOOLEAN, attempts : Nat]
      BY <1>0, <3>1 DEF Tables
    <3>3. \A r \in {FailedRow(row),
                   [row EXCEPT !.status = "PENDING", !.owner = NoWorker, !.expired = FALSE],
                   [row EXCEPT !.status = "COMPLETED", !.owner = NoWorker, !.expired = FALSE]} :
            r.attempts = row.attempts /\ r.owner = NoWorker /\ r.status # "LEASED"
      BY <3>2 DEF FailedRow
    <3>4. \/ job' = job
          \/ \E r \in {FailedRow(row),
                       [row EXCEPT !.status = "PENDING", !.owner = NoWorker, !.expired = FALSE],
                       [row EXCEPT !.status = "COMPLETED", !.owner = NoWorker, !.expired = FALSE]} :
               job' = [job EXCEPT ![on[w]] = r]
      BY <1>15 DEF Raise, Finish
    <3> QED
      BY <1>0, <3>1, <3>3, <3>4, JobRowKept, JobSame
  <2> QED
    BY <1>15, <2>1, <2>2, SessionSame DEF Raise, Finish
<1>16. CASE GiveUp(w) \/ Heartbeat(w)
  <2>1. JobsKept
    <3>1. CASE GiveUp(w)
      <4>1. \A s \in Session : job'[s] = job[s] \/ job'[s] = FailedRow(job[s])
        BY <3>1 DEF GiveUp, ClaimJob
      <4>2. \A s \in Session : job[s] \in [status : JobStatus, owner : Worker \cup {NoWorker},
                                           expired : BOOLEAN, attempts : Nat]
        BY <1>0 DEF Tables
      <4>3. \A s \in Session : /\ FailedRow(job[s]).attempts = job[s].attempts
                               /\ FailedRow(job[s]).owner = NoWorker
                               /\ FailedRow(job[s]).status = "FAILED"
        BY <4>2 DEF FailedRow
      <4> QED
        BY <4>1, <4>3 DEF JobsKept
    <3>2. CASE Heartbeat(w)
      <4>1. on[w] \in Session
        BY <1>0, <3>2 DEF Heartbeat, Awaits
      <4>2. job[on[w]] \in [status : JobStatus, owner : Worker \cup {NoWorker}, expired : BOOLEAN, attempts : Nat]
        BY <1>0, <4>1 DEF Tables
      <4> DEFINE r == [job[on[w]] EXCEPT !.expired = FALSE]
      <4>3. /\ job' = [job EXCEPT ![on[w]] = r]
            /\ r.attempts = job[on[w]].attempts /\ r.owner = job[on[w]].owner
            /\ r.status = job[on[w]].status
        BY <3>2, <4>2 DEF Heartbeat
      <4> HIDE DEF r
      <4> QED
        BY <1>0, <4>1, <4>3, JobRowKept
    <3> QED
      BY <1>16, <3>1, <3>2
  <2> QED
    BY <1>16, <2>1, StayKept, SessionSame DEF GiveUp, Heartbeat
<1>17. CASE LeaseLost(w)
  <2>1. RunsKept
    BY <1>17, IdleKept, RetiresKept DEF LeaseLost, Awaits, Late
  <2> QED
    BY <1>17, <2>1, JobSame, SessionSame DEF LeaseLost, tables
<1>18. CASE Stopped(w)
  BY <1>18, RaisesKept, JobSame, SessionSame DEF Stopped, Running, WithCommand
<1> QED
  BY <1>1, <1>2, <1>3, <1>4, <1>5, <1>6, <1>7, <1>8, <1>9, <1>10, <1>11, <1>12, <1>13, <1>14,
     <1>15, <1>16, <1>17, <1>18 DEF Worked

LEMMA LeaveKept ==
  ASSUME SessionInv, NEW p \in Process, Leave(p), pc[p] \notin {"idle", "begin"}
  PROVE  RunsKept
<1>1. CASE Idle(p)
  BY <1>1, IdleKept
<1>2. CASE p # Keeper /\ Goto(p, "finish") /\ Stays
  BY <1>2, MoveKept DEF Stays, Running, WithCommand, Late
<1> QED
  BY <1>1, <1>2 DEF Leave

LEMMA RetiringKept ==
  ASSUME SessionInv, NEW p \in Process, Retired(p)
  PROVE  JobsKept /\ FencesKept /\ RunsKept /\ (EndsKept \/ Commit(p))
<1>0. /\ Tables /\ Memory /\ (pc[p] # "idle" => on[p] \in Session)
      /\ p = Keeper => env[p] = 0
  BY OnSession DEF SessionInv, Types, Places, Whereabouts
<1>1. CASE Retire(p)
  <2>1. RunsKept
    BY <1>0, <1>1, LeaveKept, MoveKept DEF Retire, Running, WithCommand, Late, Keeping
  <2> QED
    BY <1>1, <2>1, JobSame, SessionSame DEF Retire, tables
<1>2. CASE Clean(p)
  <2>1. Goto(p, "commit") /\ (env' = env \/ env' = [env EXCEPT ![p] = 0]) /\ UNCHANGED <<on, fence, session, job>>
    BY <1>2 DEF Clean
  <2>2. /\ \A q \in Process \ {p} : env'[q] = env[q]
        /\ env'[p] # 0 => env[p] # 0
    BY <2>1, <1>0 DEF Memory
  <2>3. RunsKept
    BY <1>0, <1>2, <2>1, <2>2, MoveKept DEF Clean, Running, WithCommand, Late, Keeping
  <2> QED
    BY <2>1, <2>3, JobSame, SessionSame
<1>3. CASE Commit(p)
  <2>0. on[p] \in Session /\ session[on[p]] \in Row /\ UNCHANGED job
    BY <1>0, <1>3 DEF Commit, Tables
  <2>1. CASE Committed(p)
    <3>1. RunsKept
      BY <1>0, <1>3, <2>1, MoveKept DEF Commit, Running, WithCommand, Late, Keeping
    <3>2. EndState(p) # "new"
      BY <1>0 DEF EndState, Memory, Plan, Terminal
    <3>3. FencesKept
      <4> DEFINE r == [session[on[p]] EXCEPT
                         !.state = EndState(p),
                         !.stop = IF session[on[p]].stop \in {"client_closed", "client_cancelled"} THEN @ ELSE "other",
                         !.handle = IF plan[p].dirty THEN @ ELSE 0,
                         !.released = TRUE]
      <4>1. session' = [session EXCEPT ![on[p]] = r]
        BY <1>3, <2>1 DEF Commit
      <4>2. /\ r.fence = session[on[p]].fence /\ r.worker = session[on[p]].worker
            /\ r.state = EndState(p)
        BY <2>0 DEF Row
      <4> HIDE DEF r
      <4> QED
        BY <1>0, <2>0, <3>2, <4>1, <4>2 DEF FencesKept, Tables
    <3> QED
      BY <1>3, <2>0, <3>1, <3>3, JobSame
  <2>2. CASE ~ Committed(p)
    BY <1>3, <2>0, <2>2, LeaveKept, JobSame, SessionSame DEF Commit
  <2> QED
    BY <2>1, <2>2
<1>4. CASE EndCampaign(p)
  <2>1. RunsKept
    BY <1>0, <1>4, IdleKept, MoveKept DEF EndCampaign, Stays, Running, WithCommand, Late, Keeping
  <2> QED
    BY <1>4, <2>1, JobSame, SessionSame DEF EndCampaign
<1>5. CASE EndEpisode(p)
  <2>1. RunsKept
    BY <1>0, <1>5, MoveKept DEF EndEpisode, Stays, Running, WithCommand, Late, Keeping
  <2> QED
    BY <1>5, <2>1, JobSame, SessionSame DEF EndEpisode
<1>6. CASE Wake(p)
  BY <1>6, LeaveKept, JobSame, SessionSame DEF Wake
<1>7. CASE Died(p)
  BY <1>7, IdleKept, JobSame, SessionSame DEF Died, tables
<1> QED
  BY <1>1, <1>2, <1>3, <1>4, <1>5, <1>6, <1>7 DEF Retired

LEMMA ServingKept ==
  ASSUME SessionInv, NEW s \in Session, Served(s), ~ Maintain(s), ~ \E w \in Worker : Claim(w, s)
  PROVE  JobsKept /\ FencesKept /\ EndsKept /\ RunsKept
<1>0. Tables /\ session[s] \in Row
  BY DEF SessionInv, Types, Tables
<1>1. CASE CreateSession(s)
  <2> DEFINE r == [session[s] EXCEPT !.state = "queued"]
  <2>1. /\ session' = [session EXCEPT ![s] = r]
        /\ r.fence = session[s].fence /\ r.worker = session[s].worker
        /\ r.state = "queued"
    BY <1>0, <1>1 DEF CreateSession, Row
  <2> HIDE DEF r
  <2>2. FencesKept /\ EndsKept
    BY <1>0, <2>1, RowKept DEF Terminal
  <2> QED
    BY <1>1, <2>2, StayKept, JobSame DEF CreateSession
<1>2. CASE ClientHeartbeat(s) \/ CancelCampaign(s) \/ \E limit \in {"silent", "late"} : TimePasses(s, limit)
  BY <1>2, StayKept, JobSame, SessionSame DEF ClientHeartbeat, CancelCampaign, TimePasses, tables
<1>3. CASE Expire(s)
  <2> DEFINE r == [job[s] EXCEPT !.expired = TRUE]
  <2>1. job[s] \in [status : JobStatus, owner : Worker \cup {NoWorker}, expired : BOOLEAN, attempts : Nat]
    BY <1>0 DEF Tables
  <2>2. /\ job' = [job EXCEPT ![s] = r] /\ r.attempts = job[s].attempts /\ r.owner = job[s].owner
        /\ r.status = job[s].status
    BY <1>3, <2>1 DEF Expire
  <2> HIDE DEF r
  <2>3. JobsKept
    BY <1>0, <2>2, JobRowKept
  <2> QED
    BY <1>3, <2>3, StayKept, SessionSame DEF Expire
<1>4. ASSUME NEW kind \in {"reset", "step", "close", "cancel"}, Submit(s, kind)
      PROVE  JobsKept /\ FencesKept /\ EndsKept /\ RunsKept
  <2> DEFINE over == session[s].state \in Terminal
             stop == IF over \/ kind \notin {"close", "cancel"} THEN session[s].stop
                     ELSE IF kind = "cancel" THEN "client_cancelled" ELSE "client_closed"
             r == [session[s] EXCEPT !.stop = stop]
  <2>1. /\ session' = [session EXCEPT ![s] = r]
        /\ r.fence = session[s].fence /\ r.worker = session[s].worker
        /\ r.state = session[s].state
    BY <1>0, <1>4 DEF Submit, Row
  <2> HIDE DEF r
  <2>2. FencesKept /\ EndsKept
    BY <1>0, <2>1, RowKept
  <2> QED
    BY <1>4, <2>2, StayKept, JobSame DEF Submit
<1> QED
  BY <1>1, <1>2, <1>3, <1>4 DEF Served

\* Every step is one of these.
LEMMA StepKept ==
  ASSUME SessionInv, Next
  PROVE  \/ JobsKept /\ FencesKept /\ RunsKept /\ (EndsKept \/ \E p \in Process : Commit(p))
         \/ \E w \in Worker : Begin(w)
         \/ \E s \in Session : Maintain(s) \/ \E w \in Worker : Claim(w, s)
BY StepCases, WorkKept, RetiringKept, ServingKept

-----------------------------------------------------------------------------
(* Places and leases.                                                      *)

LEMMA PlacesStep ==
  ASSUME SessionInv, Types', Next
  PROVE  Places'
<1> USE KeeperIsNoWorker
<1>0. Tables /\ Memory /\ Places /\ Whereabouts /\ Tables' /\ Memory'
  BY DEF SessionInv, Types, Places
<1>1. CASE JobsKept /\ FencesKept /\ RunsKept
  <2>1. Whereabouts'
    BY <1>1 DEF RunsKept
  <2>2. \A p \in Process : pc'[p] # "idle" => on'[p] \in Created'
    BY <1>0, <1>1 DEF RunsKept, FencesKept, Places, Created
  <2>3. \A s \in Session : job'[s].attempts > 0 => s \in Created'
    BY <1>0, <1>1 DEF JobsKept, FencesKept, Places, Created
  <2> QED
    BY <2>1, <2>2, <2>3 DEF Places
<1>2. ASSUME NEW w \in Worker, Begin(w) PROVE Places'
  <2>0. on[w] \in Session /\ on[w] \in Created /\ session[on[w]] \in Row
    BY <1>0, <1>2, OnSession DEF Begin, Tables
  <2>1. \E place \in {"retire", "open", "finish"} : pc' = [pc EXCEPT ![w] = place] /\ UNCHANGED <<on, env>>
    BY <1>2 DEF Begin, Raises, Retires, Goto, Stays
  <2>2. \A s \in Session : s \in Created => s \in Created'
    <3>1. \A s \in Session : session'[s].state = session[s].state \/ session'[s].state = "ready"
      <4> DEFINE r == [session[on[w]] EXCEPT !.fence = fence[w], !.worker = w, !.state = "ready"]
      <4>1. UNCHANGED session \/ session' = [session EXCEPT ![on[w]] = r]
        BY <1>2 DEF Begin
      <4>2. r.state = "ready"
        BY <2>0 DEF Row
      <4> HIDE DEF r
      <4> QED
        BY <1>0, <2>0, <4>1, <4>2 DEF Tables
    <3> QED
      BY <3>1 DEF Created
  <2>3. Whereabouts'
    BY <1>0, <2>1 DEF Whereabouts, Memory
  <2>4. \A p \in Process : pc'[p] # "idle" => on'[p] \in Created'
    BY <1>0, <1>2, <2>1, <2>2 DEF Places, Created, Memory, Begin
  <2> QED
    BY <1>0, <1>2, <2>2, <2>3, <2>4 DEF Places, Begin
<1>3. ASSUME NEW s \in Session, Maintain(s) PROVE Places'
  <2>1. /\ pc' = [pc EXCEPT ![Keeper] = "retire"] /\ on' = [on EXCEPT ![Keeper] = s]
        /\ s \in Created /\ UNCHANGED <<env, session, job>>
    BY <1>3 DEF Maintain, Retires, Goto, Live, tables
  <2>2. Created' = Created
    BY <2>1 DEF Created
  <2>3. Whereabouts'
    BY <1>0, <2>1 DEF Whereabouts, Memory, Keeping
  <2> QED
    BY <1>0, <2>1, <2>2, <2>3 DEF Places, Memory
<1>4. ASSUME NEW s \in Session, NEW w \in Worker, Claim(w, s) PROVE Places'
  <2>1. /\ pc' = [pc EXCEPT ![w] = "begin"] /\ on' = [on EXCEPT ![w] = s]
        /\ s \in Created /\ UNCHANGED <<env, session>> /\ pc[w] = "idle"
    BY <1>4 DEF Claim
  <2>2. Created' = Created
    BY <2>1 DEF Created
  <2>3. Whereabouts'
    BY <1>0, <2>1 DEF Whereabouts, Memory
  <2>4. \A r \in Session \ {s} : job'[r].attempts = job[r].attempts
    <3>1. \A r \in Session \ {s} : job'[r] \in {job[r], FailedRow(job[r])}
      BY <1>4 DEF Claim, ClaimJob
    <3>2. \A r \in Session : job[r] \in [status : JobStatus, owner : Worker \cup {NoWorker},
                                         expired : BOOLEAN, attempts : Nat]
      BY <1>0 DEF Tables
    <3>3. \A r \in Session : FailedRow(job[r]).attempts = job[r].attempts
      BY <3>2 DEF FailedRow
    <3> QED
      BY <3>1, <3>3
  <2> QED
    BY <1>0, <2>1, <2>2, <2>3, <2>4 DEF Places, Memory
<1> QED
  BY StepKept, <1>1, <1>2, <1>3, <1>4

LEMMA ClaimRows ==
  ASSUME Tables, NEW w \in Worker, NEW s \in Session, Claim(w, s)
  PROVE  /\ job'[s].attempts = job[s].attempts + 1 /\ job'[s].owner = w
         /\ \A r \in Session \ {s} :
              /\ job'[r].attempts = job[r].attempts
              /\ \/ job'[r] = job[r]
                 \/ job'[r].owner = NoWorker /\ job'[r].status = "FAILED"
<1>1. \A r \in Session : job[r] \in [status : JobStatus, owner : Worker \cup {NoWorker},
                                     expired : BOOLEAN, attempts : Nat]
  BY DEF Tables
<1>2. \A r \in Session : /\ FailedRow(job[r]).attempts = job[r].attempts
                         /\ FailedRow(job[r]).owner = NoWorker /\ FailedRow(job[r]).status = "FAILED"
  BY <1>1 DEF FailedRow
<1>3. \A r \in Session \ {s} : job'[r] = job[r] \/ job'[r] = FailedRow(job[r])
  BY DEF Claim, ClaimJob
<1>4. job'[s] = [status |-> "LEASED", owner |-> w, expired |-> FALSE, attempts |-> job[s].attempts + 1]
  BY DEF Claim, ClaimJob
<1> QED
  BY <1>2, <1>3, <1>4

LEMMA BeginRow ==
  ASSUME Tables, Memory, NEW w \in Worker, on[w] \in Session, Begin(w)
  PROVE  /\ \A s \in Session \ {on[w]} : session'[s] = session[s]
         /\ \/ Over(on[w]) /\ UNCHANGED session /\ pc' = [pc EXCEPT ![w] = "finish"]
            \/ /\ ~ Over(on[w])
               /\ session'[on[w]].fence = fence[w] /\ session'[on[w]].worker = w
               /\ session'[on[w]].state = "ready" /\ session'[on[w]].handle = session[on[w]].handle
               /\ session'[on[w]].stop = session[on[w]].stop
               /\ session'[on[w]].released = session[on[w]].released
               /\ \/ pc' = [pc EXCEPT ![w] = "retire"]
                  \/ session[on[w]].fence <= 0 /\ fence[w] <= 1 /\ pc' = [pc EXCEPT ![w] = "open"]
         /\ UNCHANGED <<on, fence, env, job>>
<1> DEFINE r == [session[on[w]] EXCEPT !.fence = fence[w], !.worker = w, !.state = "ready"]
<1>1. session[on[w]] \in Row
  BY DEF Tables
<1>2. /\ r.fence = fence[w] /\ r.worker = w /\ r.state = "ready" /\ r.handle = session[on[w]].handle
      /\ r.stop = session[on[w]].stop /\ r.released = session[on[w]].released
  BY <1>1 DEF Row
<1>3. \/ Over(on[w]) /\ UNCHANGED session
      \/ ~ Over(on[w]) /\ session' = [session EXCEPT ![on[w]] = r]
  BY DEF Begin
<1>4. /\ Over(on[w]) => pc' = [pc EXCEPT ![w] = "finish"]
      /\ ~ Over(on[w]) => \/ pc' = [pc EXCEPT ![w] = "retire"]
                          \/ ~ (session[on[w]].fence > 0 \/ fence[w] > 1) /\ pc' = [pc EXCEPT ![w] = "open"]
      /\ UNCHANGED <<on, fence, env, job>>
  BY DEF Begin, Raises, Retires, Goto, Stays
<1>5. session[on[w]].fence \in Nat /\ fence[w] \in Nat
  BY <1>1, KeeperIsNoWorker DEF Row, Memory
<1> HIDE DEF r
<1>6. session' = session \/ session' = [session EXCEPT ![on[w]] = r]
  BY <1>3
<1>7. \A s \in Session \ {on[w]} : session'[s] = session[s]
  BY <1>6 DEF Tables
<1>8. ~ Over(on[w]) => session'[on[w]] = r
  BY <1>3 DEF Tables
<1>9. ~ (session[on[w]].fence > 0 \/ fence[w] > 1) => session[on[w]].fence <= 0 /\ fence[w] <= 1
  BY <1>5
<1>10. session'[on[w]] = r \/ Over(on[w])
  BY <1>8
<1> QED
  BY <1>2, <1>3, <1>4, <1>7, <1>9, <1>10

LEMMA LeasesStep ==
  ASSUME SessionInv, Types', Next
  PROVE  Leases'
<1> USE KeeperIsNoWorker, NoWorkerIsNone
<1>0. Tables /\ Memory /\ Places /\ Leases /\ Tables' /\ Memory'
  BY DEF SessionInv, Types
<1>n. /\ \A p \in Process : fence[p] \in Nat /\ fence'[p] \in Nat
      /\ \A s \in Session : /\ job[s].attempts \in Nat /\ job'[s].attempts \in Nat
                            /\ session[s].fence \in Nat /\ session'[s].fence \in Nat
  BY <1>0 DEF Tables, Memory, Row
<1>1. CASE JobsKept /\ FencesKept /\ RunsKept
  <2>1. \A s \in Session : session'[s].fence <= job'[s].attempts
    BY <1>0, <1>1 DEF Leases, JobsKept, FencesKept
  <2>2. \A p \in Process, s \in Session : Works(p, s)' =>
           Works(p, s) /\ fence'[p] = fence[p] /\ (pc'[p] = "begin" <=> pc[p] = "begin")
    BY <1>1 DEF RunsKept, Works
  <2>3. ASSUME NEW w \in Worker, NEW s \in Session, Works(w, s)'
        PROVE  /\ 1 <= fence'[w] /\ fence'[w] <= job'[s].attempts
               /\ job'[s].owner = w => fence'[w] = job'[s].attempts
               /\ pc'[w] = "begin" => fence'[w] # session'[s].fence
               /\ pc'[w] # "begin" /\ fence'[w] = session'[s].fence => session'[s].worker = w
               /\ \A v \in Worker \ {w} : Works(v, s)' => fence'[v] # fence'[w]
               /\ pc'[w] = "begin" /\ Works(Keeper, s)' => fence'[w] # fence'[Keeper]
    BY <1>0, <1>1, <2>2, <2>3 DEF Leases, JobsKept, FencesKept
  <2>4. \A s \in Session : Works(Keeper, s)' =>
          /\ fence'[Keeper] <= job'[s].attempts
          /\ job'[s].status = "LEASED" => fence'[Keeper] < job'[s].attempts
    BY <1>0, <1>1, <2>2 DEF Leases, JobsKept
  <2> QED
    BY <2>1, <2>3, <2>4 DEF Leases
<1>2. ASSUME NEW v \in Worker, Begin(v) PROVE Leases'
  <2>0. on[v] \in Session /\ Works(v, on[v]) /\ pc[v] = "begin"
    BY <1>2, OnSession DEF Begin, Works
  <2>1. /\ \A s \in Session \ {on[v]} : session'[s] = session[s]
        /\ UNCHANGED <<on, fence, job>>
        /\ \A q \in Process \ {v} : pc'[q] = pc[q]
        /\ pc'[v] # "begin" /\ pc'[v] # "idle"
        /\ \/ Over(on[v]) /\ session' = session
           \/ session'[on[v]].fence = fence[v] /\ session'[on[v]].worker = v
    BY <1>0, <1>2, <2>0, BeginRow DEF Memory
  <2>2. \A s \in Session : session'[s].fence <= job'[s].attempts
    BY <1>0, <2>0, <2>1 DEF Leases
  <2>3. \A p \in Process, s \in Session : Works(p, s)' => Works(p, s)
    BY <2>0, <2>1 DEF Works
  <2>4. ASSUME NEW w \in Worker, NEW s \in Session, Works(w, s)'
        PROVE  /\ 1 <= fence'[w] /\ fence'[w] <= job'[s].attempts
               /\ job'[s].owner = w => fence'[w] = job'[s].attempts
               /\ pc'[w] = "begin" => fence'[w] # session'[s].fence
               /\ pc'[w] # "begin" /\ fence'[w] = session'[s].fence => session'[s].worker = w
               /\ \A u \in Worker \ {w} : Works(u, s)' => fence'[u] # fence'[w]
               /\ pc'[w] = "begin" /\ Works(Keeper, s)' => fence'[w] # fence'[Keeper]
    <3>1. Works(w, s) /\ (w # v => pc'[w] = pc[w])
      BY <2>1, <2>3, <2>4
    <3>2. /\ 1 <= fence'[w] /\ fence'[w] <= job'[s].attempts
          /\ job'[s].owner = w => fence'[w] = job'[s].attempts
          /\ \A u \in Worker \ {w} : Works(u, s)' => fence'[u] # fence'[w]
          /\ pc'[w] = "begin" /\ Works(Keeper, s)' => fence'[w] # fence'[Keeper]
      BY <1>0, <2>1, <2>3, <3>1 DEF Leases
    <3>3. CASE s # on[v] \/ session' = session
      <4>1. session'[s] = session[s]
        BY <2>1, <3>3
      <4>2. w = v => fence[w] # session[s].fence
        BY <1>0, <2>0, <3>1 DEF Leases, Works
      <4> QED
        BY <1>0, <2>1, <3>1, <3>2, <4>1, <4>2 DEF Leases
    <3>4. CASE s = on[v] /\ session'[on[v]].fence = fence[v] /\ session'[on[v]].worker = v
      <4>1. w # v => fence[w] # fence[v]
        BY <1>0, <2>0, <3>1, <3>4 DEF Leases
      <4> QED
        BY <2>1, <3>2, <3>4, <4>1
    <3> QED
      BY <2>1, <3>3, <3>4
  <2>5. \A s \in Session : Works(Keeper, s)' =>
          /\ fence'[Keeper] <= job'[s].attempts
          /\ job'[s].status = "LEASED" => fence'[Keeper] < job'[s].attempts
    BY <1>0, <2>1, <2>3 DEF Leases
  <2> QED
    BY <2>2, <2>4, <2>5 DEF Leases
<1>3. ASSUME NEW r \in Session, Maintain(r) PROVE Leases'
  <2>1. /\ fence' = [fence EXCEPT ![Keeper] = session[r].fence] /\ on' = [on EXCEPT ![Keeper] = r]
        /\ pc' = [pc EXCEPT ![Keeper] = "retire"] /\ pc[Keeper] = "idle" /\ job[r].status # "LEASED"
        /\ UNCHANGED <<session, job>>
    BY <1>3 DEF Maintain, Retires, Goto, tables, Unclaimable
  <2>2. \A w \in Worker : fence'[w] = fence[w] /\ pc'[w] = pc[w] /\ on'[w] = on[w]
    BY <1>0, <2>1 DEF Memory
  <2>3. /\ fence'[Keeper] = session[r].fence
        /\ \A s \in Session : Works(Keeper, s)' => s = r
    BY <1>0, <2>1 DEF Memory, Works
  <2>4. \A w \in Worker, s \in Session : Works(w, s)' = Works(w, s)
    BY <2>2 DEF Works
  <2>5. ASSUME NEW w \in Worker, NEW s \in Session, Works(w, s)'
        PROVE  /\ 1 <= fence'[w] /\ fence'[w] <= job'[s].attempts
               /\ job'[s].owner = w => fence'[w] = job'[s].attempts
               /\ pc'[w] = "begin" => fence'[w] # session'[s].fence
               /\ pc'[w] # "begin" /\ fence'[w] = session'[s].fence => session'[s].worker = w
               /\ \A u \in Worker \ {w} : Works(u, s)' => fence'[u] # fence'[w]
               /\ pc'[w] = "begin" /\ Works(Keeper, s)' => fence'[w] # fence'[Keeper]
    BY <1>0, <2>1, <2>2, <2>3, <2>4, <2>5 DEF Leases
  <2>6. \A s \in Session : Works(Keeper, s)' =>
          /\ fence'[Keeper] <= job'[s].attempts
          /\ job'[s].status = "LEASED" => fence'[Keeper] < job'[s].attempts
    BY <1>0, <2>1, <2>3 DEF Leases
  <2>7. \A s \in Session : session'[s].fence <= job'[s].attempts
    BY <1>0, <2>1 DEF Leases
  <2> QED
    BY <2>5, <2>6, <2>7 DEF Leases
<1>4. ASSUME NEW r \in Session, NEW v \in Worker, Claim(v, r) PROVE Leases'
  <2>1. /\ fence' = [fence EXCEPT ![v] = job[r].attempts + 1] /\ on' = [on EXCEPT ![v] = r]
        /\ pc' = [pc EXCEPT ![v] = "begin"] /\ pc[v] = "idle" /\ UNCHANGED session
    BY <1>4 DEF Claim
  <2>2. \A q \in Process \ {v} : fence'[q] = fence[q] /\ pc'[q] = pc[q] /\ on'[q] = on[q]
    BY <1>0, <2>1 DEF Memory
  <2>3. fence'[v] = job[r].attempts + 1 /\ pc'[v] = "begin" /\ \A s \in Session : Works(v, s)' => s = r
    BY <1>0, <2>1 DEF Memory, Works
  <2>4. \A q \in Process \ {v}, s \in Session : Works(q, s)' = Works(q, s)
    BY <2>2 DEF Works
  <2>5. /\ job'[r].attempts = job[r].attempts + 1 /\ job'[r].owner = v
        /\ \A s \in Session \ {r} :
              /\ job'[s].attempts = job[s].attempts
              /\ \/ job'[s] = job[s]
                 \/ job'[s].owner = NoWorker /\ job'[s].status = "FAILED"
    BY <1>0, <1>4, ClaimRows
  <2>6. ASSUME NEW w \in Worker, NEW s \in Session, Works(w, s)'
        PROVE  /\ 1 <= fence'[w] /\ fence'[w] <= job'[s].attempts
               /\ job'[s].owner = w => fence'[w] = job'[s].attempts
               /\ pc'[w] = "begin" => fence'[w] # session'[s].fence
               /\ pc'[w] # "begin" /\ fence'[w] = session'[s].fence => session'[s].worker = w
               /\ \A u \in Worker \ {w} : Works(u, s)' => fence'[u] # fence'[w]
               /\ pc'[w] = "begin" /\ Works(Keeper, s)' => fence'[w] # fence'[Keeper]
    <3>1. CASE w = v
      <4>1. s = r
        BY <2>3, <2>6, <3>1
      <4>2. \A u \in Worker \ {w} : Works(u, s)' => fence'[u] <= job[r].attempts
        BY <1>0, <2>2, <2>4, <3>1, <4>1 DEF Leases
      <4>3. Works(Keeper, s)' => fence'[Keeper] <= job[r].attempts
        BY <1>0, <2>2, <2>4, <3>1, <4>1 DEF Leases
      <4>4. session'[s].fence <= job[r].attempts
        BY <1>0, <2>1, <4>1 DEF Leases
      <4> QED
        BY <1>n, <2>3, <2>5, <3>1, <4>1, <4>2, <4>3, <4>4
    <3>2. CASE w # v
      <4>1. Works(w, s) /\ fence'[w] = fence[w] /\ pc'[w] = pc[w]
        BY <2>2, <2>4, <2>6, <3>2
      <4>2. 1 <= fence'[w] /\ fence'[w] <= job'[s].attempts
        BY <1>0, <1>n, <2>5, <4>1 DEF Leases
      <4>3. job'[s].owner = w => fence'[w] = job'[s].attempts
        BY <1>0, <2>5, <3>2, <4>1 DEF Leases
      <4>4. /\ pc'[w] = "begin" => fence'[w] # session'[s].fence
            /\ pc'[w] # "begin" /\ fence'[w] = session'[s].fence => session'[s].worker = w
            /\ pc'[w] = "begin" /\ Works(Keeper, s)' => fence'[w] # fence'[Keeper]
        BY <1>0, <2>1, <2>2, <2>4, <4>1 DEF Leases
      <4>5. \A u \in Worker \ {w} : Works(u, s)' => fence'[u] # fence'[w]
        <5>1. ASSUME Works(v, s)' PROVE fence'[v] # fence'[w]
          <6>1. s = r /\ fence[w] <= job[r].attempts
            BY <1>0, <2>3, <4>1, <5>1 DEF Leases
          <6> QED
            BY <1>n, <2>3, <4>1, <6>1
        <5>2. \A u \in Worker \ {w, v} : Works(u, s)' => fence'[u] # fence'[w]
          BY <1>0, <2>2, <2>4, <4>1 DEF Leases
        <5> QED
          BY <5>1, <5>2
      <4> QED
        BY <4>2, <4>3, <4>4, <4>5
    <3> QED
      BY <3>1, <3>2
  <2>7. \A s \in Session : Works(Keeper, s)' =>
          /\ fence'[Keeper] <= job'[s].attempts
          /\ job'[s].status = "LEASED" => fence'[Keeper] < job'[s].attempts
    <3>1. \A s \in Session : Works(Keeper, s)' => Works(Keeper, s) /\ fence'[Keeper] = fence[Keeper]
      BY <2>2, <2>4
    <3>2. \A s \in Session \ {r} : Works(Keeper, s)' =>
            /\ fence'[Keeper] <= job'[s].attempts
            /\ job'[s].status = "LEASED" => fence'[Keeper] < job'[s].attempts
      BY <1>0, <2>5, <3>1 DEF Leases
    <3>3. Works(Keeper, r)' => fence'[Keeper] <= job[r].attempts
      BY <1>0, <3>1 DEF Leases
    <3> QED
      BY <1>n, <2>5, <3>2, <3>3
  <2>8. \A s \in Session : session'[s].fence <= job'[s].attempts
    BY <1>0, <1>n, <2>1, <2>5 DEF Leases
  <2> QED
    BY <2>6, <2>7, <2>8 DEF Leases
<1> QED
  BY StepKept, <1>1, <1>2, <1>3, <1>4

\* Two processes do not both have the fence on a session's row while its lease is held.
LEMMA FencedAlone ==
  ASSUME SessionInv, NEW w \in Worker, pc[w] # "idle", fence[w] = session[on[w]].fence
  PROVE  /\ pc[w] # "begin" /\ session[on[w]].worker = w
         /\ \A v \in Worker \ {w} : Works(v, on[w]) => fence[v] # fence[w]
         /\ Works(Keeper, on[w]) /\ Fenced(w) => fence[Keeper] < fence[w]
<1>1. on[w] \in Session /\ Works(w, on[w])
  BY OnSession, KeeperIsNoWorker DEF Works
<1>2. /\ pc[w] # "begin" /\ session[on[w]].worker = w
      /\ \A v \in Worker \ {w} : Works(v, on[w]) => fence[v] # fence[w]
  BY <1>1 DEF SessionInv, Leases
<1>3. ASSUME Works(Keeper, on[w]), Fenced(w) PROVE fence[Keeper] < fence[w]
  <2>1. job[on[w]].owner = w /\ job[on[w]].status = "LEASED"
    BY <1>2, <1>3 DEF Fenced
  <2>2. fence[w] = job[on[w]].attempts /\ fence[Keeper] < job[on[w]].attempts
    BY <1>1, <1>3, <2>1 DEF SessionInv, Leases
  <2> QED
    BY <2>2
<1> QED
  BY <1>2, <1>3

\* Whoever may commit is the only one whose fence checks succeed.
LEMMA CommitterAlone ==
  ASSUME SessionInv, NEW p \in Process, pc[p] # "idle", fence[p] = session[on[p]].fence,
         NEW w \in Worker, pc[w] # "idle", w # p, on[w] = on[p]
  PROVE  ~ Fenced(w)
<1> SUFFICES ASSUME Fenced(w) PROVE FALSE
  OBVIOUS
<1>1. fence[w] = session[on[w]].fence
  BY DEF Fenced
<1>2. CASE p = Keeper
  <2>1. fence[Keeper] < fence[w] /\ fence[w] = fence[Keeper]
    BY <1>1, <1>2, FencedAlone DEF Works
  <2>2. fence[w] \in Nat
    BY KeeperIsNoWorker DEF SessionInv, Types, Memory
  <2> QED
    BY <2>1, <2>2
<1>3. CASE p \in Worker
  BY <1>1, <1>3, FencedAlone DEF Works
<1> QED
  BY <1>2, <1>3 DEF Process

\* What Commit does to a session's row.
LEMMA CommitRow ==
  ASSUME SessionInv, NEW p \in Process, Commit(p), Committed(p)
  PROVE  /\ on[p] \in Session /\ ~ Ended(on[p])
         /\ \A s \in Session \ {on[p]} : session'[s] = session[s]
         /\ session'[on[p]].state = EndState(p) /\ EndState(p) \in Terminal
         /\ session'[on[p]].released = TRUE /\ session'[on[p]].fence = session[on[p]].fence
         /\ session'[on[p]].handle = IF plan[p].dirty THEN session[on[p]].handle ELSE 0
<1>0. on[p] \in Session /\ session[on[p]] \in Row /\ Tables /\ plan[p] \in Plan
  BY OnSession DEF Commit, SessionInv, Types, Tables, Memory
<1> DEFINE r == [session[on[p]] EXCEPT
                   !.state = EndState(p),
                   !.stop = IF session[on[p]].stop \in {"client_closed", "client_cancelled"} THEN @ ELSE "other",
                   !.handle = IF plan[p].dirty THEN @ ELSE 0,
                   !.released = TRUE]
<1>1. session' = [session EXCEPT ![on[p]] = r]
  BY DEF Commit
<1>2. /\ r.state = EndState(p) /\ r.released = TRUE /\ r.fence = session[on[p]].fence
      /\ r.handle = IF plan[p].dirty THEN session[on[p]].handle ELSE 0
  BY <1>0 DEF Row
<1>3. EndState(p) \in Terminal
  BY <1>0 DEF EndState, Plan, Terminal
<1>4. ~ Ended(on[p])
  BY DEF Committed, Ended
<1> HIDE DEF r
<1> QED
  BY <1>0, <1>1, <1>2, <1>3, <1>4 DEF Tables

LEMMA RunsStep ==
  ASSUME SessionInv, Types', Next
  PROVE  Runs1'
<1> USE KeeperIsNoWorker, NoWorkerIsNone
<1>0. Tables /\ Memory /\ Places /\ Whereabouts /\ Leases /\ Runs1 /\ Tables' /\ Memory'
  BY DEF SessionInv, Types, Places
<1>n. /\ \A p \in Process : fence[p] \in Nat /\ fence'[p] \in Nat
      /\ \A s \in Session : /\ job[s].attempts \in Nat /\ job'[s].attempts \in Nat
                            /\ session[s].fence \in Nat /\ session'[s].fence \in Nat
  BY <1>0 DEF Tables, Memory, Row
<1>1. ASSUME JobsKept, FencesKept, RunsKept, NEW w \in Worker
      PROVE  /\ pc'[w] \in Running \/ env'[w] # 0 => fence'[w] = 1
             /\ pc'[w] # "idle" /\ Fenced(w)' => pc[w] # "idle" /\ on'[w] = on[w] /\ Fenced(w)
             /\ pc[w] \in Late => pc'[w] \in Late \cup {"idle"}
  <2>1. \/ pc'[w] = "idle" /\ env'[w] = 0
        \/ /\ pc'[w] # "idle" /\ pc[w] # "idle" /\ on'[w] = on[w] /\ fence'[w] = fence[w]
    BY <1>1 DEF RunsKept, Whereabouts
  <2>2. pc'[w] \in Running \/ env'[w] # 0 => pc[w] \in Running \/ env[w] # 0
    BY <1>1 DEF RunsKept
  <2>3. pc'[w] \in Running \/ env'[w] # 0 => fence'[w] = 1
    BY <1>0, <2>1, <2>2 DEF Runs1, Running, WithCommand
  <2>4. ASSUME pc'[w] # "idle", Fenced(w)' PROVE pc[w] # "idle" /\ on'[w] = on[w] /\ Fenced(w)
    <3>1. on[w] \in Session
      BY <2>1, <2>4, OnSession
    <3> QED
      BY <1>1, <2>1, <2>4, <3>1 DEF JobsKept, FencesKept, Fenced
  <2> QED
    BY <1>1, <2>3, <2>4 DEF RunsKept
<1>2. CASE JobsKept /\ FencesKept /\ RunsKept /\ EndsKept
  <2>1. ASSUME NEW w \in Worker, pc'[w] # "idle", Ended(on[w])', Fenced(w)' PROVE pc'[w] \in Late
    <3>1. pc[w] # "idle" /\ on'[w] = on[w] /\ Fenced(w) /\ on[w] \in Session
      BY <1>1, <1>2, <2>1, OnSession
    <3>2. Ended(on[w])
      BY <1>2, <2>1, <3>1 DEF EndsKept, Ended
    <3> QED
      BY <1>0, <1>1, <1>2, <2>1, <3>1, <3>2 DEF Runs1
  <2> QED
    BY <1>1, <1>2, <2>1 DEF Runs1
<1>3. ASSUME JobsKept, FencesKept, RunsKept, NEW p \in Process, Commit(p) PROVE Runs1'
  <2>1. CASE ~ Committed(p)
    BY <1>2, <1>3, <2>1, SessionSame DEF Commit
  <2>2. CASE Committed(p)
    <3>1. /\ \A s \in Session \ {on[p]} : session'[s] = session[s]
          /\ pc' = [pc EXCEPT ![p] = "campaign"] /\ pc[p] = "commit" /\ session[on[p]].fence = fence[p]
      BY Zenon, <1>3, <2>2, CommitRow DEF Commit, Goto, Committed
    <3>2. ASSUME NEW w \in Worker, pc'[w] # "idle", Ended(on[w])', Fenced(w)' PROVE pc'[w] \in Late
      <4>1. pc[w] # "idle" /\ on'[w] = on[w] /\ Fenced(w) /\ on[w] \in Session
        BY <1>1, <1>3, <3>2, OnSession
      <4>2. CASE w = p
        BY <1>0, <3>1, <4>2 DEF Memory, Late
      <4>3. CASE on[w] # on[p]
        <5>1. Ended(on[w])
          BY <3>1, <3>2, <4>1, <4>3 DEF Ended
        <5> QED
          BY <1>0, <1>1, <1>3, <3>2, <4>1, <5>1 DEF Runs1
      <4>4. CASE w # p /\ on[w] = on[p]
        BY <3>1, <4>1, <4>4, CommitterAlone
      <4> QED
        BY <4>2, <4>3, <4>4
    <3> QED
      BY <1>1, <1>3, <3>2 DEF Runs1
  <2> QED
    BY <2>1, <2>2
<1>4. ASSUME NEW v \in Worker, Begin(v) PROVE Runs1'
  <2>0. on[v] \in Session /\ Works(v, on[v]) /\ pc[v] = "begin" /\ env[v] = 0 /\ 1 <= fence[v]
    BY <1>0, <1>4, OnSession DEF Begin, Works, Whereabouts, Leases
  <2>1. /\ \A s \in Session \ {on[v]} : session'[s] = session[s]
        /\ UNCHANGED <<on, fence, env, job>>
        /\ \A q \in Process \ {v} : pc'[q] = pc[q]
        /\ \/ Over(on[v]) /\ session' = session /\ pc'[v] = "finish"
           \/ /\ session'[on[v]].fence = fence[v] /\ session'[on[v]].state = "ready"
              /\ pc'[v] \in {"open", "retire"}
              /\ pc'[v] = "open" => fence[v] <= 1
    BY <1>0, <1>4, <2>0, BeginRow DEF Memory
  <2>2. pc'[v] \in Running \/ env'[v] # 0 => fence'[v] = 1
    BY <1>n, <2>0, <2>1 DEF Running, WithCommand
  <2>3. ASSUME NEW w \in Worker, pc'[w] # "idle", Ended(on[w])', Fenced(w)' PROVE pc'[w] \in Late
    <3>1. pc[w] # "idle" /\ on'[w] = on[w] /\ on[w] \in Session
      BY <2>0, <2>1, <2>3, OnSession
    <3>2. CASE on[w] # on[v] \/ session' = session
      <4>1. session'[on[w]] = session[on[w]]
        BY <2>1, <3>1, <3>2
      <4>2. Ended(on[w]) /\ Fenced(w)
        BY <2>1, <2>3, <3>1, <4>1 DEF Ended, Fenced
      <4>3. pc[w] \in Late
        BY <1>0, <3>1, <4>2 DEF Runs1
      <4> QED
        BY <2>0, <2>1, <4>3 DEF Late
    <3>3. CASE on[w] = on[v] /\ session'[on[v]].state = "ready"
      BY <2>3, <3>1, <3>3 DEF Ended, Terminal
    <3> QED
      BY <2>1, <3>2, <3>3
  <2> QED
    BY <1>0, <2>1, <2>2, <2>3 DEF Runs1
<1>5. ASSUME NEW r \in Session, Maintain(r) PROVE Runs1'
  <2>1. /\ fence' = [fence EXCEPT ![Keeper] = session[r].fence] /\ on' = [on EXCEPT ![Keeper] = r]
        /\ pc' = [pc EXCEPT ![Keeper] = "retire"] /\ UNCHANGED <<session, job, env>>
    BY <1>5 DEF Maintain, Retires, Goto, tables
  <2>2. \A w \in Worker : fence'[w] = fence[w] /\ pc'[w] = pc[w] /\ on'[w] = on[w]
    BY <1>0, <2>1 DEF Memory
  <2>3. \A w \in Worker : Fenced(w)' = Fenced(w) /\ Ended(on[w])' = Ended(on[w])
    BY <2>1, <2>2 DEF Fenced, Ended
  <2> QED
    BY <1>0, <2>1, <2>2, <2>3 DEF Runs1
<1>6. ASSUME NEW r \in Session, NEW v \in Worker, Claim(v, r) PROVE Runs1'
  <2>1. /\ fence' = [fence EXCEPT ![v] = job[r].attempts + 1] /\ on' = [on EXCEPT ![v] = r]
        /\ pc' = [pc EXCEPT ![v] = "begin"] /\ pc[v] = "idle" /\ UNCHANGED <<session, env>>
    BY <1>6 DEF Claim
  <2>2. \A q \in Process \ {v} : fence'[q] = fence[q] /\ pc'[q] = pc[q] /\ on'[q] = on[q]
    BY <1>0, <2>1 DEF Memory
  <2>3. fence'[v] = job[r].attempts + 1 /\ pc'[v] = "begin" /\ on'[v] = r /\ env'[v] = 0
    BY <1>0, <2>1 DEF Memory, Whereabouts
  <2>5. /\ job'[r].owner = v
        /\ \A s \in Session \ {r} :
              \/ job'[s] = job[s]
              \/ job'[s].owner = NoWorker /\ job'[s].status = "FAILED"
    BY <1>0, <1>6, ClaimRows
  <2>6. ASSUME NEW w \in Worker, pc'[w] # "idle", Ended(on[w])', Fenced(w)' PROVE pc'[w] \in Late
    <3>1. CASE w = v
      <4>1. session[r].fence = job[r].attempts + 1 /\ session[r].fence <= job[r].attempts
        BY <1>0, <2>1, <2>3, <2>6, <3>1 DEF Fenced, Leases
      <4> QED
        BY <1>n, <4>1
    <3>2. CASE w # v
      <4>1. pc'[w] = pc[w] /\ on'[w] = on[w] /\ fence'[w] = fence[w] /\ on[w] \in Session
        BY <2>2, <2>6, <3>2, OnSession
      <4>2. fence[w] = session[on[w]].fence
        BY <2>1, <2>6, <4>1 DEF Fenced
      <4>3. session[on[w]].worker = w
        BY <2>6, <4>1, <4>2, FencedAlone
      <4>4. on[w] # r
        BY <2>1, <2>5, <2>6, <3>2, <4>1, <4>3 DEF Fenced
      <4>5. Fenced(w) /\ Ended(on[w])
        BY <2>1, <2>5, <2>6, <4>1, <4>4 DEF Fenced, Ended
      <4> QED
        BY <1>0, <2>6, <4>1, <4>5 DEF Runs1
    <3> QED
      BY <3>1, <3>2
  <2>7. \A w \in Worker : pc'[w] \in Running \/ env'[w] # 0 => fence'[w] = 1
    BY <1>0, <2>1, <2>2, <2>3 DEF Runs1, Running, WithCommand
  <2> QED
    BY <2>6, <2>7 DEF Runs1
<1> QED
  BY StepKept, <1>2, <1>3, <1>4, <1>5, <1>6

-----------------------------------------------------------------------------
(* What a step leaves of the sessions' rows and of the other processes.     *)

RowStays(s) ==
  /\ Ended(s)' <=> Ended(s)
  /\ Ended(s) => session'[s].state = session[s].state
  /\ session[s].stop # "none" => session'[s].stop # "none"
  /\ session'[s].released = session[s].released

Rows == \A s \in Session : RowStays(s)

LEMMA RowsSame ==
  ASSUME UNCHANGED session
  PROVE  Rows
BY DEF Rows, RowStays, Ended

LEMMA RowsChange ==
  ASSUME Tables, NEW s \in Session, NEW r, session' = [session EXCEPT ![s] = r],
         \/ r.state = session[s].state
         \/ r.state \notin Terminal /\ session[s].state \notin Terminal,
         session[s].stop # "none" => r.stop # "none", r.released = session[s].released
  PROVE  Rows
BY DEF Rows, RowStays, Ended, Tables

LEMMA RowsComplete ==
  ASSUME SessionInv, NEW w \in Worker, pc[w] \in WithCommand, NEW status, NEW state, NEW step, NEW place,
         state \notin Terminal \/ state = session[on[w]].state, Complete(w, status, state, step, place)
  PROVE  Rows
<1>1. CASE UNCHANGED session
  BY <1>1, RowsSame
<1>2. CASE FenceHolds(w) /\ session' = [session EXCEPT ![on[w]].state = state, ![on[w]].step = step]
  <2> DEFINE r == [session[on[w]] EXCEPT !.state = state, !.step = step]
  <2>1. on[w] \in Session /\ Tables /\ session[on[w]] \in Row
    BY InHand DEF SessionInv, Types, Tables
  <2>2. ~ Ended(on[w])
    BY <1>2, FenceMeansLive DEF WithCommand, Late
  <2>3. /\ session' = [session EXCEPT ![on[w]] = r] /\ r.state = state
        /\ r.stop = session[on[w]].stop /\ r.released = session[on[w]].released
    BY <1>2, <2>1 DEF Row
  <2> HIDE DEF r
  <2> QED
    BY <2>1, <2>2, <2>3, RowsChange DEF Ended
<1> QED
  BY <1>1, <1>2 DEF Complete, Completable, NewStep

LEMMA RowsStep ==
  ASSUME SessionInv, Next
  PROVE  Rows \/ \E p \in Process : Commit(p) /\ Committed(p)
<1> USE KeeperIsNoWorker
<1>0. Tables /\ Memory /\ \A p \in Process : pc[p] # "idle" => on[p] \in Session /\ session[on[p]] \in Row
  BY OnSession DEF SessionInv, Types, Tables
<1>1. ASSUME NEW w \in Worker, Worked(w) PROVE Rows
  <2>1. CASE UNCHANGED session
    BY <2>1, RowsSame
  <2>2. CASE Begin(w)
    <3>1. on[w] \in Session
      BY <1>0, <2>2 DEF Begin
    <3> QED
      BY <1>0, <2>2, <3>1, BeginRow DEF Rows, RowStays, Ended, Over, Terminal
  <2>3. CASE Attach(w)
    <3> DEFINE r == [session[on[w]] EXCEPT !.episode = env[w], !.handle = env[w]]
    <3>1. on[w] \in Session /\ session[on[w]] \in Row
      BY <1>0, <2>3 DEF Attach
    <3>2. /\ r.state = session[on[w]].state /\ r.stop = session[on[w]].stop
          /\ r.released = session[on[w]].released
          /\ UNCHANGED session \/ session' = [session EXCEPT ![on[w]] = r]
      BY <2>3, <3>1 DEF Attach, Row
    <3> HIDE DEF r
    <3> QED
      BY <1>0, <3>1, <3>2, RowsChange, RowsSame
  <2>4. CASE Forget(w)
    <3> DEFINE h == IF session[on[w]].fence = fence[w] THEN 0 ELSE session[on[w]].handle
               r == [session[on[w]] EXCEPT !.handle = h]
    <3>1. on[w] \in Session /\ session[on[w]] \in Row
      BY <1>0, <2>4 DEF Forget
    <3>2. session' = [session EXCEPT ![on[w]] = r]
      BY <2>4 DEF Forget
    <3> HIDE DEF h
    <3>3. /\ r.state = session[on[w]].state /\ r.stop = session[on[w]].stop
          /\ r.released = session[on[w]].released
      BY <3>1 DEF Row
    <3> HIDE DEF r
    <3> QED
      BY <1>0, <3>1, <3>2, <3>3, RowsChange
  <2>5. CASE ResetAdmits(w) \/ Observed(w) \/ Answer(w) \/ Step(w)
    <3>1. pc[w] \in WithCommand /\ {"active", "episode_done"} \cap Terminal = {}
      BY <2>5 DEF ResetAdmits, Observed, Answer, Step, WithCommand, Terminal
    <3>2. \/ UNCHANGED session
          \/ \E status, step, place : \E state \in {"active", "episode_done", session[on[w]].state} :
               Complete(w, status, state, step, place)
      BY <2>5 DEF ResetAdmits, Observed, Answer, Step
    <3> QED
      BY <3>1, <3>2, RowsSame, RowsComplete
  <2> QED
    BY Zenon, <1>1, <2>1, <2>2, <2>3, <2>4, <2>5
    DEF Worked, Open, Loop, ClaimCommand, Guard, ResetCloses, Provision, Observe, Act, Detach,
        Choose, Propose, Proposed, Raise, Finish, GiveUp, Heartbeat, LeaseLost, Stopped, tables
<1>2. ASSUME NEW p \in Process, Retired(p) PROVE Rows \/ (Commit(p) /\ Committed(p))
  <2>1. CASE UNCHANGED session
    BY <2>1, RowsSame
  <2>2. CASE Commit(p)
    <3>1. Committed(p) \/ session' = session
      BY <2>2 DEF Commit
    <3> QED
      BY <2>1, <2>2, <3>1
  <2> QED
    BY <1>2, <2>1, <2>2 DEF Retired, Retire, Clean, EndCampaign, EndEpisode, Wake, Died, tables
<1>3. ASSUME NEW s \in Session, Served(s) PROVE Rows
  <2>1. CASE UNCHANGED session
    BY <2>1, RowsSame
  <2>2. CASE CreateSession(s)
    <3> DEFINE r == [session[s] EXCEPT !.state = "queued"]
    <3>1. /\ session' = [session EXCEPT ![s] = r] /\ r.state \notin Terminal
          /\ session[s].state \notin Terminal
          /\ r.stop = session[s].stop /\ r.released = session[s].released
      BY <1>0, <2>2 DEF CreateSession, Tables, Row, Terminal
    <3> HIDE DEF r
    <3> QED
      BY <1>0, <3>1, RowsChange
  <2>3. ASSUME NEW kind, Submit(s, kind) PROVE Rows
    <3> DEFINE stop == IF session[s].state \in Terminal \/ kind \notin {"close", "cancel"}
                       THEN session[s].stop
                       ELSE IF kind = "cancel" THEN "client_cancelled" ELSE "client_closed"
               r == [session[s] EXCEPT !.stop = stop]
    <3>1. session' = [session EXCEPT ![s] = r]
      BY <2>3 DEF Submit
    <3>2. session[s].stop # "none" => stop # "none"
      OBVIOUS
    <3> HIDE DEF stop
    <3>3. r.state = session[s].state /\ r.stop = stop /\ r.released = session[s].released
      BY <1>0 DEF Tables, Row
    <3> HIDE DEF r
    <3> QED
      BY <1>0, <3>1, <3>2, <3>3, RowsChange
  <2> QED
    BY <1>3, <2>1, <2>2, <2>3
    DEF Served, ClientHeartbeat, CancelCampaign, Expire, Maintain, TimePasses, Claim, tables
<1> QED
  BY StepCases, <1>1, <1>2, <1>3

Still(p) == \A q \in Process \ {p} :
  pc'[q] = pc[q] /\ on'[q] = on[q] /\ fence'[q] = fence[q] /\ op'[q] = op[q] /\ env'[q] = env[q]
  /\ plan'[q] = plan[q]

LEMMA GotoStill ==
  ASSUME Memory, NEW p \in Process, NEW place, Goto(p, place),
         UNCHANGED <<on, fence>>, op' = op \/ \E i : op' = [op EXCEPT ![p] = i],
         env' = env \/ \E i : env' = [env EXCEPT ![p] = i],
         plan' = plan \/ \E i : plan' = [plan EXCEPT ![p] = i]
  PROVE  Still(p) /\ pc'[p] = place
BY DEF Memory, Goto, Still

LEMMA IdleStill ==
  ASSUME Memory, NEW p \in Process, Idle(p)
  PROVE  Still(p) /\ pc'[p] = "idle"
BY DEF Memory, Goto, Still, Idle

LEMMA RetiresStill ==
  ASSUME Memory, NEW p \in Process, NEW state, NEW then, Retires(p, state, then),
         UNCHANGED <<on, fence, op, env>>
  PROVE  Still(p) /\ pc'[p] = "retire" /\ plan'[p].state = state
BY DEF Memory, Retires, Goto, Still, NoPlan, Plan

LEMMA RaisesStill ==
  ASSUME Memory, NEW p \in Process, Raises(p)
  PROVE  Still(p) /\ pc'[p] = "retire"
BY RetiresStill DEF Raises

LEMMA HomeStill ==
  ASSUME Memory, NEW p \in Process, Home(p), Stays
  PROVE  Still(p) /\ pc'[p] \in {"choose", "loop"}
BY DEF Memory, Home, Goto, Still, Stays

LEMMA StaysStill ==
  ASSUME Memory, NEW p \in Process, NEW place, Goto(p, place), Stays
  PROVE  Still(p) /\ pc'[p] = place
BY GotoStill DEF Stays

LEMMA LeaveStill ==
  ASSUME Memory, NEW p \in Process, Leave(p)
  PROVE  Still(p) /\ pc'[p] \in {"idle", "finish"}
BY StaysStill, IdleStill DEF Leave

LEMMA CompleteStill ==
  ASSUME Memory, NEW w \in Process, NEW status, NEW state, NEW step, NEW place \in {"home", "detach"},
         Complete(w, status, state, step, place)
  PROVE  Still(w) /\ pc'[w] \in {"retire", "choose", "loop", "detach"}
BY RaisesStill, HomeStill, StaysStill DEF Complete

LEMMA WorkStill ==
  ASSUME SessionInv, NEW w \in Worker, Worked(w)
  PROVE  Still(w)
<1> USE KeeperIsNoWorker
<1>0. Memory
  BY DEF SessionInv, Types
<1>1. CASE Begin(w) \/ Open(w) \/ Guard(w) \/ Loop(w)
  BY <1>0, <1>1, StaysStill, RetiresStill, RaisesStill, HomeStill
  DEF Begin, Open, Guard, Loop, Stays, Still
<1>2. CASE ClaimCommand(w)
  BY <1>0, <1>2, StaysStill, RaisesStill, GotoStill DEF ClaimCommand
<1>3. CASE ResetCloses(w) \/ Detach(w)
  <2>1. CASE Raises(w)
    BY <1>0, <2>1, RaisesStill
  <2>2. CASE env' = [env EXCEPT ![w] = 0] /\ UNCHANGED <<on, fence, op, plan>>
             /\ (UNCHANGED pc \/ Goto(w, "forget"))
    BY <1>0, <2>2 DEF Still, Memory, Goto
  <2> QED
    BY <1>3, <2>1, <2>2 DEF ResetCloses, Detach
<1>4. CASE ResetAdmits(w)
  BY <1>0, <1>4, CompleteStill, StaysStill DEF ResetAdmits
<1>5. CASE Provision(w)
  <2>1. CASE Goto(w, "attach") /\ env' = [env EXCEPT ![w] = Len(episodes[on[w]]) + 1]
             /\ UNCHANGED <<on, fence, op, plan>>
    BY <1>0, <2>1 DEF Still, Memory, Goto
  <2> QED
    BY <1>0, <1>5, <2>1, RaisesStill, RetiresStill DEF Provision
<1>6. CASE Attach(w) \/ Observe(w) \/ Act(w) \/ Propose(w)
  BY <1>0, <1>6, StaysStill, RaisesStill DEF Attach, Observe, Act, Propose
<1>7. CASE Observed(w) \/ Answer(w)
  BY <1>0, <1>7, CompleteStill DEF Observed, Answer
<1>8. CASE Step(w)
  BY <1>0, <1>8, CompleteStill, GotoStill DEF Step
<1>9. CASE Forget(w)
  BY <1>0, <1>9, HomeStill DEF Forget
<1>10. CASE Choose(w) \/ Proposed(w)
  <2>1. ASSUME NEW kind, Internal(w, kind) PROVE Still(w)
    BY <1>0, <2>1, RaisesStill, GotoStill DEF Internal
  <2>2. ASSUME Completes(w) PROVE Still(w)
    BY <1>0, <2>2, RetiresStill DEF Completes
  <2> QED
    BY <1>0, <1>10, <2>1, <2>2, StaysStill, RaisesStill DEF Choose, Proposed
<1>11. CASE Raise(w) \/ Finish(w)
  BY <1>0, <1>11, IdleStill DEF Raise, Finish
<1>12. CASE GiveUp(w) \/ Heartbeat(w)
  BY <1>12 DEF GiveUp, Heartbeat, Still, memory
<1>13. CASE LeaseLost(w)
  BY <1>0, <1>13, IdleStill, RetiresStill DEF LeaseLost
<1>14. CASE Stopped(w)
  BY <1>0, <1>14, RaisesStill DEF Stopped
<1> QED
  BY <1>1, <1>2, <1>3, <1>4, <1>5, <1>6, <1>7, <1>8, <1>9, <1>10, <1>11, <1>12, <1>13, <1>14
  DEF Worked

LEMMA RetiringStill ==
  ASSUME SessionInv, NEW p \in Process, Retired(p)
  PROVE  Still(p)
<1>0. Memory
  BY DEF SessionInv, Types
<1>1. CASE Retire(p) \/ Commit(p)
  BY <1>0, <1>1, LeaveStill DEF Retire, Commit, Goto, Still, Memory
<1>2. CASE Clean(p)
  <2>1. /\ pc' = [pc EXCEPT ![p] = "commit"] /\ UNCHANGED <<on, fence, op>>
        /\ env' = env \/ env' = [env EXCEPT ![p] = 0]
        /\ plan' = plan \/ plan' = [plan EXCEPT ![p] = [plan[p] EXCEPT !.dirty = TRUE]]
    BY <1>2 DEF Clean, Goto
  <2> QED
    BY <1>0, <2>1 DEF Still, Memory
<1>3. CASE EndCampaign(p) \/ EndEpisode(p) \/ Wake(p) \/ Died(p)
  BY <1>0, <1>3, LeaveStill, IdleStill, StaysStill DEF EndCampaign, EndEpisode, Wake, Died
<1> QED
  BY <1>1, <1>2, <1>3 DEF Retired

LEMMA ServingStill ==
  ASSUME SessionInv, NEW s \in Session, Served(s)
  PROVE  \/ UNCHANGED <<pc, memory>>
         \/ Still(Keeper) /\ Maintain(s)
         \/ \E w \in Worker : Still(w) /\ Claim(w, s) /\ pc'[w] = "begin"
<1> USE KeeperIsNoWorker
<1>0. Memory
  BY DEF SessionInv, Types
<1>1. CASE Maintain(s)
  BY <1>0, <1>1 DEF Maintain, Retires, Goto, Still, Memory
<1>2. ASSUME NEW w \in Worker, Claim(w, s) PROVE Still(w) /\ Claim(w, s) /\ pc'[w] = "begin"
  BY <1>0, <1>2 DEF Claim, Still, Memory
<1> QED
  BY <1>1, <1>2 DEF Served, CreateSession, ClientHeartbeat, CancelCampaign, Expire, Submit, TimePasses

-----------------------------------------------------------------------------
(* Commands.                                                               *)

OpsSound == \A s \in Session : \A i \in DOMAIN ops[s] : OpSound(s, ops[s][i])

LEMMA SoundSame ==
  ASSUME SessionInv, Rows, UNCHANGED ops
  PROVE  OpsSound'
<1>1. ASSUME NEW s \in Session, NEW i \in DOMAIN ops[s] PROVE OpSound(s, ops[s][i])'
  <2>1. RowStays(s) /\ OpSound(s, ops[s][i])
    BY DEF Rows, SessionInv, Commands
  <2> DEFINE o == ops[s][i]
  <2>2. o' = o
    OBVIOUS
  <2> QED
    BY <2>1, <2>2 DEF OpSound, RowStays, Ended
<1> QED
  BY <1>1 DEF OpsSound

\* The operation o takes the place of one there was, or is a new one.
LEMMA SoundChange ==
  ASSUME SessionInv, Rows, NEW s \in Session, NEW i, NEW o,
         \A r \in Session \ {s} : ops'[r] = ops[r],
         \A j \in DOMAIN ops'[s] : j # i => j \in DOMAIN ops[s] /\ ops'[s][j] = ops[s][j],
         i \in DOMAIN ops'[s] => ops'[s][i] = o,
         o.began <= 1,
         o.status \in {"pending", "cancelled"} => o.began = 0,
         o.status \in {"pending", "running"} => ~ Ended(s),
         o.status \in {"pending", "running"} /\ o.kind \in Stoppers => session'[s].stop # "none",
         o.status = "indeterminate" => Ended(s)
  PROVE  OpsSound'
<1>1. ASSUME NEW r \in Session, NEW j \in DOMAIN ops'[r] PROVE OpSound(r, ops[r][j])'
  <2>1. RowStays(r)
    BY DEF Rows
  <2>2. CASE r = s /\ j = i
    <3>1. ops'[r][j] = o
      BY <2>2
    <3>2. Ended(s)' <=> Ended(s)
      BY <2>1, <2>2 DEF RowStays
    <3> QED
      BY <2>2, <3>1, <3>2 DEF OpSound
  <2>3. CASE ~ (r = s /\ j = i)
    <3>1. j \in DOMAIN ops[r] /\ ops'[r][j] = ops[r][j]
      BY <2>3
    <3>2. OpSound(r, ops[r][j])
      BY <3>1 DEF SessionInv, Commands
    <3> QED
      BY <2>1, <3>1, <3>2 DEF OpSound, RowStays, Ended
  <2> QED
    BY <2>2, <2>3
<1> QED
  BY <1>1 DEF OpsSound

\* The two ways an operation in hand changes: it is completed, or it begins.
LEMMA SoundComplete ==
  ASSUME SessionInv, Rows, NEW w \in Worker, pc[w] \in WithCommand, NEW status \in {"completed", "failed"},
         NEW state, NEW step, NEW place, Complete(w, status, state, step, place)
  PROVE  OpsSound'
<1>1. CASE UNCHANGED ops
  BY <1>1, SoundSame
<1>2. CASE ops' = [ops EXCEPT ![on[w]][op[w]].status = status]
  <2> DEFINE o == [ops[on[w]][op[w]] EXCEPT !.status = status]
  <2>1. /\ Tables /\ on[w] \in Session /\ ops[on[w]][op[w]] \in Op
        /\ OpSound(on[w], ops[on[w]][op[w]])
    BY InHand DEF SessionInv, Types
  <2>2. o \in Op /\ ops' = [ops EXCEPT ![on[w]][op[w]] = o]
    BY <1>2, OpUpdates
  <2>3. o.began <= 1 /\ o.status = status
    BY <2>1 DEF OpSound, Op
  <2> HIDE DEF o
  <2>4. /\ \A r \in Session \ {on[w]} : ops'[r] = ops[r]
        /\ \A r \in Session : DOMAIN ops'[r] = DOMAIN ops[r]
        /\ \A j \in DOMAIN ops[on[w]] : ops'[on[w]][j] = IF j = op[w] THEN o ELSE ops[on[w]][j]
    BY <2>1, <2>2, OpChange
  <2> QED
    BY <2>1, <2>3, <2>4, SoundChange
<1> QED
  BY <1>1, <1>2 DEF Complete

LEMMA SoundBegan ==
  ASSUME SessionInv, Rows, NEW w \in Worker, pc[w] \in {"reset", "step"}
  PROVE  ops' = [ops EXCEPT ![on[w]][op[w]].began = @ + 1] => OpsSound'
<1>a. SUFFICES ASSUME ops' = [ops EXCEPT ![on[w]][op[w]].began = @ + 1] PROVE OpsSound'
  OBVIOUS
<1> DEFINE o == [ops[on[w]][op[w]] EXCEPT !.began = @ + 1]
<1>0. pc[w] \in WithCommand /\ pc[w] # "guard"
  BY DEF WithCommand
<1>1. /\ Tables /\ on[w] \in Session /\ ops[on[w]][op[w]] \in Op
      /\ OpSound(on[w], ops[on[w]][op[w]]) /\ OpInHand(w, ops[on[w]][op[w]])
  BY <1>0, InHand DEF SessionInv, Types
<1>2. o \in Op /\ ops' = [ops EXCEPT ![on[w]][op[w]] = o]
  BY <1>a, <1>0, OpUpdates
<1>3. o.status = ops[on[w]][op[w]].status /\ o.kind = ops[on[w]][op[w]].kind /\ o.began = 1
  BY <1>1 DEF OpInHand, Op
<1>4. /\ o.status \notin {"pending", "cancelled"}
      /\ o.kind \notin Stoppers
      /\ o.status = "indeterminate" => Ended(on[w])
      /\ o.status = "running" => ~ Ended(on[w])
  <2> HIDE DEF o
  <2> QED
    BY <1>0, <1>1, <1>3 DEF OpInHand, OpSound
<1> HIDE DEF o
<1>5. /\ \A r \in Session \ {on[w]} : ops'[r] = ops[r]
      /\ \A r \in Session : DOMAIN ops'[r] = DOMAIN ops[r]
      /\ \A j \in DOMAIN ops[on[w]] : ops'[on[w]][j] = IF j = op[w] THEN o ELSE ops[on[w]][j]
  BY <1>1, <1>2, OpChange
<1>6. o.began <= 1
  BY <1>3
<1> QED
  BY <1>1, <1>4, <1>5, <1>6, SoundChange

LEMMA SoundAppend ==
  ASSUME SessionInv, Rows, NEW s \in Session, NEW o \in Op,
         o.began = 0, o.status \in {"pending", "running", "completed"},
         o.status \in {"pending", "running"} => ~ Ended(s),
         o.status \in {"pending", "running"} /\ o.kind \in Stoppers => session'[s].stop # "none"
  PROVE  ops' = [ops EXCEPT ![s] = Append(@, o)] => OpsSound'
<1>a. SUFFICES ASSUME ops' = [ops EXCEPT ![s] = Append(@, o)] PROVE OpsSound'
  OBVIOUS
<1>1. Tables
  BY DEF SessionInv, Types
<1>2. /\ \A r \in Session \ {s} : ops'[r] = ops[r]
      /\ Len(ops[s]) \in Nat /\ DOMAIN ops[s] = 1..Len(ops[s])
      /\ DOMAIN ops'[s] = 1..(Len(ops[s]) + 1)
      /\ \A j \in DOMAIN ops[s] : ops'[s][j] = ops[s][j]
      /\ ops'[s][Len(ops[s]) + 1] = o
  BY <1>a, <1>1, AppendedOp
<1>3. \A j \in DOMAIN ops'[s] : j # Len(ops[s]) + 1 => j \in DOMAIN ops[s] /\ ops'[s][j] = ops[s][j]
  BY <1>2
<1> DEFINE n == Len(ops[s]) + 1
<1>4. /\ \A r \in Session \ {s} : ops'[r] = ops[r]
      /\ \A j \in DOMAIN ops'[s] : j # n => j \in DOMAIN ops[s] /\ ops'[s][j] = ops[s][j]
      /\ ops'[s][n] = o /\ o.began <= 1
  BY <1>2, <1>3
<1> HIDE DEF n
<1>5. o.status \in {"pending", "cancelled"} => o.began = 0
  OBVIOUS
<1>6. o.status # "indeterminate"
  OBVIOUS
<1> QED
  BY <1>4, <1>5, <1>6, SoundChange

LEMMA SoundInternal ==
  ASSUME SessionInv, Rows, NEW w \in Worker, pc[w] \in {"choose", "proposed"},
         NEW kind \in {"reset", "step"}, Internal(w, kind)
  PROVE  OpsSound'
<1>1. CASE UNCHANGED ops
  BY <1>1, SoundSame
<1>2. CASE FenceHolds(w) /\ ops' = [ops EXCEPT ![on[w]] = Append(@, NewOp(on[w], kind, "running"))]
  <2> DEFINE o == NewOp(on[w], kind, "running")
  <2>1. on[w] \in Session /\ Tables
    BY OnSession, KeeperIsNoWorker DEF SessionInv, Types
  <2>2. ~ Ended(on[w])
    BY <1>2, FenceMeansLive DEF Late
  <2>3. o.began = 0 /\ o.status = "running" /\ o.kind = kind
    BY DEF NewOp
  <2>4. o \in Op
    BY <2>1, NewOpTypes
  <2>5. ops' = [ops EXCEPT ![on[w]] = Append(@, o)]
    BY <1>2
  <2> HIDE DEF o
  <2> QED
    BY <2>1, <2>2, <2>3, <2>4, <2>5, SoundAppend DEF Stoppers
<1> QED
  BY <1>1, <1>2 DEF Internal

LEMMA SoundClaim ==
  ASSUME SessionInv, Rows, NEW s \in Session, NEW i \in Pending(s), UNCHANGED session
  PROVE  ops' = [ops EXCEPT ![s][i].status = "running"] => OpsSound'
<1>a. SUFFICES ASSUME ops' = [ops EXCEPT ![s][i].status = "running"] PROVE OpsSound'
  OBVIOUS
<1> DEFINE o == [ops[s][i] EXCEPT !.status = "running"]
<1>1. Tables /\ i \in DOMAIN ops[s] /\ ops[s][i].status = "pending"
  BY DEF Pending, SessionInv, Types
<1>2. ops[s][i] \in Op /\ OpSound(s, ops[s][i])
  BY <1>1, LenProperties, ElementOfSeq DEF SessionInv, Commands, Tables
<1>3. /\ o \in Op /\ o.status = "running" /\ o.kind = ops[s][i].kind /\ o.began = ops[s][i].began
      /\ ops' = [ops EXCEPT ![s][i] = o]
  BY <1>a, <1>2 DEF Op
<1> HIDE DEF o
<1>4. /\ \A r \in Session \ {s} : ops'[r] = ops[r]
      /\ \A r \in Session : DOMAIN ops'[r] = DOMAIN ops[r]
      /\ \A j \in DOMAIN ops[s] : ops'[s][j] = IF j = i THEN o ELSE ops[s][j]
  BY <1>1, <1>3, OpChange
<1>5. o.began <= 1 /\ ~ Ended(s) /\ (o.kind \in Stoppers => session[s].stop # "none")
  BY <1>1, <1>2, <1>3 DEF OpSound
<1> QED
  BY <1>3, <1>4, <1>5, SoundChange

LEMMA SoundCommit ==
  ASSUME SessionInv, NEW p \in Process, Commit(p), Committed(p)
  PROVE  OpsSound'
<1>0. Tables
  BY DEF SessionInv, Types
<1>1. /\ on[p] \in Session /\ \A s \in Session \ {on[p]} : session'[s] = session[s]
      /\ session'[on[p]].state \in Terminal
  BY CommitRow
<1>2. ops' = [ops EXCEPT ![on[p]] = [i \in DOMAIN @ |-> EndedOp(@[i])]]
  BY DEF Commit
<1>3. /\ \A r \in Session \ {on[p]} : ops'[r] = ops[r]
      /\ DOMAIN ops'[on[p]] = DOMAIN ops[on[p]]
      /\ \A i \in DOMAIN ops[on[p]] : ops'[on[p]][i] = EndedOp(ops[on[p]][i])
  BY <1>0, <1>1, <1>2, EndedOps
<1>4. ASSUME NEW r \in Session, NEW j \in DOMAIN ops'[r] PROVE OpSound(r, ops[r][j])'
  <2>1. CASE r # on[p]
    <3>1. ops'[r] = ops[r] /\ session'[r] = session[r]
      BY <1>1, <1>3, <2>1
    <3>2. OpSound(r, ops[r][j])
      BY <1>4, <3>1 DEF SessionInv, Commands
    <3> QED
      BY <3>1, <3>2 DEF OpSound, Ended
  <2>2. CASE r = on[p]
    <3> DEFINE o == ops[r][j]
    <3>1. j \in DOMAIN ops[r] /\ ops'[r][j] = EndedOp(o) /\ Ended(r)'
      BY <1>1, <1>3, <2>2 DEF Ended
    <3>2. o \in Op /\ OpSound(r, o)
      BY <1>0, <3>1, LenProperties, ElementOfSeq DEF SessionInv, Commands, Tables
    <3>3. /\ EndedOp(o).began = o.began
          /\ EndedOp(o).status \notin {"pending", "running"}
          /\ EndedOp(o).status = "cancelled" => o.status \in {"pending", "cancelled"}
      BY <3>2 DEF EndedOp, Op, Finished
    <3> HIDE DEF o
    <3>4. o.began <= 1 /\ (o.status \in {"pending", "cancelled"} => o.began = 0)
      BY <3>2 DEF OpSound
    <3> QED
      BY <3>1, <3>3, <3>4 DEF OpSound
  <2> QED
    BY <2>1, <2>2
<1> QED
  BY <1>4 DEF OpsSound

LEMMA OpsSoundStep ==
  ASSUME SessionInv, Next
  PROVE  OpsSound'
<1> USE KeeperIsNoWorker
<1>0. /\ Tables
      /\ \A p \in Process : pc[p] # "idle" => on[p] \in Session
  BY OnSession DEF SessionInv, Types
<1>1. ASSUME NEW p \in Process, Commit(p), Committed(p) PROVE OpsSound'
  BY <1>1, SoundCommit
<1>2. CASE Rows
  <2>1. CASE UNCHANGED ops
    BY <1>2, <2>1, SoundSame
  <2>2. ASSUME NEW w \in Worker, Worked(w) PROVE OpsSound'
    <3>1. CASE ClaimCommand(w)
      <4>1. on[w] \in Session /\ UNCHANGED session
        BY <1>0, <3>1 DEF ClaimCommand
      <4>2. \/ UNCHANGED ops
            \/ \E i \in Pending(on[w]) : ops' = [ops EXCEPT ![on[w]][i].status = "running"]
        BY <3>1 DEF ClaimCommand
      <4> QED
        BY <1>2, <2>1, <4>1, <4>2, SoundClaim
    <3>2. CASE ResetAdmits(w) \/ Observed(w) \/ Answer(w) \/ Step(w)
      <4>1. pc[w] \in WithCommand
        BY <3>2 DEF ResetAdmits, Observed, Answer, Step, WithCommand
      <4>2. \/ \E status \in {"completed", "failed"} : \E state, step, place : Complete(w, status, state, step, place)
            \/ /\ pc[w] \in {"reset", "step"}
               /\ ops' = [ops EXCEPT ![on[w]][op[w]].began = @ + 1]
        BY <3>2 DEF ResetAdmits, Observed, Answer, Step
      <4> QED
        BY <1>2, <4>1, <4>2, SoundComplete, SoundBegan
    <3>3. CASE Choose(w) \/ Proposed(w)
      <4>1. pc[w] \in {"choose", "proposed"}
        BY <3>3 DEF Choose, Proposed
      <4>2. UNCHANGED ops \/ \E kind \in {"reset", "step"} : Internal(w, kind)
        BY <3>3 DEF Choose, Proposed, Completes
      <4> QED
        BY <1>2, <2>1, <4>1, <4>2, SoundInternal
    <3> QED
      BY Zenon, <2>1, <2>2, <3>1, <3>2, <3>3
      DEF Worked, Begin, Open, Loop, Guard, ResetCloses, Provision, Attach, Observe, Act, Detach,
          Forget, Propose, Raise, Finish, GiveUp, Heartbeat, LeaseLost, Stopped, tables
  <2>3. ASSUME NEW p \in Process, Retired(p) PROVE OpsSound'
    <3>1. CASE Commit(p)
      <4>1. Committed(p) \/ ops' = ops
        BY <3>1 DEF Commit
      <4> QED
        BY <1>1, <2>1, <3>1, <4>1
    <3> QED
      BY <2>1, <2>3, <3>1 DEF Retired, Retire, Clean, EndCampaign, EndEpisode, Wake, Died, tables
  <2>4. ASSUME NEW s \in Session, Served(s) PROVE OpsSound'
    <3>1. ASSUME NEW kind \in {"reset", "step", "close", "cancel"}, Submit(s, kind) PROVE OpsSound'
      <4> DEFINE status == IF session[s].state \in Terminal THEN "completed" ELSE "pending"
                 o == NewOp(s, kind, status)
                 stop == IF session[s].state \in Terminal \/ kind \notin {"close", "cancel"}
                         THEN session[s].stop
                         ELSE IF kind = "cancel" THEN "client_cancelled" ELSE "client_closed"
                 r == [session[s] EXCEPT !.stop = stop]
      <4>1. ops' = [ops EXCEPT ![s] = Append(@, o)] /\ session' = [session EXCEPT ![s] = r]
        BY <3>1 DEF Submit
      <4>2. o.began = 0 /\ o.status = status /\ o.kind = kind /\ o \in Op
        BY <1>0, NewOpTypes DEF NewOp
      <4>3. session[s] \in Row
        BY <1>0 DEF Tables
      <4>4. status = "completed" \/ (status = "pending" /\ ~ Ended(s))
        BY DEF Ended
      <4>5. status = "pending" /\ kind \in Stoppers => stop # "none"
        BY DEF Stoppers
      <4> HIDE DEF stop
      <4>6. r.stop = stop
        BY <4>3 DEF Row
      <4> HIDE DEF r
      <4>7. session'[s].stop = stop
        BY <1>0, <4>1, <4>6 DEF Tables
      <4> HIDE DEF o, status
      <4> QED
        BY <1>2, <4>1, <4>2, <4>4, <4>5, <4>7, SoundAppend
    <3> QED
      BY <2>1, <2>4, <3>1
      DEF Served, CreateSession, ClientHeartbeat, CancelCampaign, Expire, Maintain, TimePasses, Claim, tables
  <2> QED
    BY StepCases, <2>2, <2>3, <2>4
<1> QED
  BY <1>1, <1>2, RowsStep

HandSound(w) ==
  pc[w] \in WithCommand => op[w] \in DOMAIN ops[on[w]] /\ OpInHand(w, ops[on[w]][op[w]])

\* Two runs are never of the same session.
LEMMA RunsAlone ==
  ASSUME SessionInv, NEW w \in Worker, NEW v \in Worker, v # w,
         pc[w] \in Running, pc[v] \in Running
  PROVE  on[v] # on[w]
<1>1. fence[w] = 1 /\ fence[v] = 1
  BY DEF SessionInv, Runs1
<1>2. on[w] \in Session /\ Works(w, on[w])
  BY OnSession, KeeperIsNoWorker DEF Works, Running, WithCommand
<1>3. Works(v, on[v])
  BY DEF Works, Running, WithCommand
<1> QED
  BY <1>1, <1>2, <1>3 DEF SessionInv, Leases

LEMMA HandStays ==
  ASSUME SessionInv, Rows, NEW w \in Worker, pc[w] \in WithCommand,
         on'[w] = on[w], op'[w] = op[w],
         op[w] \in DOMAIN ops'[on[w]], ops'[on[w]][op[w]] = ops[on[w]][op[w]],
         pc'[w] = "guard" <=> pc[w] = "guard",
         pc'[w] \in {"reset", "step"} => pc[w] \in {"reset", "step"}
  PROVE  HandSound(w)'
<1>1. on[w] \in Session /\ OpInHand(w, ops[on[w]][op[w]])
  BY InHand
<1>2. Ended(on[w])' <=> Ended(on[w])
  <2>1. RowStays(on[w])
    BY <1>1 DEF Rows
  <2> QED
    BY <2>1 DEF RowStays, Ended
<1> DEFINE o == ops[on[w]][op[w]]
<1>3. ops'[on'[w]][op'[w]] = o /\ op'[w] \in DOMAIN ops'[on'[w]]
  OBVIOUS
<1> HIDE DEF o
<1>4. OpInHand(w, o)
  BY <1>1 DEF o
<1> QED
  BY <1>2, <1>3, <1>4 DEF HandSound, OpInHand

LEMMA CompleteOps ==
  ASSUME SessionInv, NEW w \in Worker, pc[w] \in WithCommand, NEW status \in {"completed", "failed"},
         NEW state, NEW step, NEW place, Complete(w, status, state, step, place)
  PROVE  \A s \in Session \ {on[w]} : ops'[s] = ops[s]
<1>1. CASE UNCHANGED ops
  BY <1>1
<1>2. CASE ops' = [ops EXCEPT ![on[w]][op[w]].status = status]
  <2> DEFINE o == [ops[on[w]][op[w]] EXCEPT !.status = status]
  <2>1. Tables /\ on[w] \in Session
    BY InHand DEF SessionInv, Types
  <2>2. o \in Op /\ ops' = [ops EXCEPT ![on[w]][op[w]] = o]
    BY <1>2, OpUpdates
  <2> HIDE DEF o
  <2> QED
    BY <2>1, <2>2, OpChange
<1> QED
  BY <1>1, <1>2 DEF Complete

LEMMA BeganOps ==
  ASSUME SessionInv, NEW w \in Worker, pc[w] \in WithCommand
  PROVE  ops' = [ops EXCEPT ![on[w]][op[w]].began = @ + 1] =>
           /\ \A s \in Session \ {on[w]} : ops'[s] = ops[s]
           /\ op[w] \in DOMAIN ops'[on[w]]
           /\ ops'[on[w]][op[w]].status = ops[on[w]][op[w]].status
           /\ ops'[on[w]][op[w]].kind = ops[on[w]][op[w]].kind
<1>a. SUFFICES ASSUME ops' = [ops EXCEPT ![on[w]][op[w]].began = @ + 1]
               PROVE  /\ \A s \in Session \ {on[w]} : ops'[s] = ops[s]
                      /\ op[w] \in DOMAIN ops'[on[w]]
                      /\ ops'[on[w]][op[w]].status = ops[on[w]][op[w]].status
                      /\ ops'[on[w]][op[w]].kind = ops[on[w]][op[w]].kind
  OBVIOUS
<1> DEFINE o == [ops[on[w]][op[w]] EXCEPT !.began = @ + 1]
<1>1. Tables /\ on[w] \in Session /\ ops[on[w]][op[w]] \in Op /\ op[w] \in DOMAIN ops[on[w]]
  BY InHand DEF SessionInv, Types
<1>2. o \in Op /\ ops' = [ops EXCEPT ![on[w]][op[w]] = o]
  BY <1>a, OpUpdates
<1>3. o.status = ops[on[w]][op[w]].status /\ o.kind = ops[on[w]][op[w]].kind
  BY <1>1 DEF Op
<1> HIDE DEF o
<1>4. /\ \A r \in Session \ {on[w]} : ops'[r] = ops[r]
      /\ \A r \in Session : DOMAIN ops'[r] = DOMAIN ops[r]
      /\ \A j \in DOMAIN ops[on[w]] : ops'[on[w]][j] = IF j = op[w] THEN o ELSE ops[on[w]][j]
  BY <1>1, <1>2, OpChange
<1> QED
  BY <1>1, <1>3, <1>4

LEMMA InternalOps ==
  ASSUME SessionInv, NEW w \in Worker, pc[w] \in {"choose", "proposed"},
         NEW kind \in {"reset", "step"}, Internal(w, kind)
  PROVE  /\ \A s \in Session \ {on[w]} : ops'[s] = ops[s]
         /\ HandSound(w)'
<1>0. Memory /\ w \in Process
  BY KeeperIsNoWorker DEF SessionInv, Types
<1>1. CASE Raises(w) /\ UNCHANGED ops
  BY <1>0, <1>1, RaisesStill DEF HandSound, WithCommand
<1>2. CASE /\ ops' = [ops EXCEPT ![on[w]] = Append(@, NewOp(on[w], kind, "running"))]
           /\ op' = [op EXCEPT ![w] = Len(ops[on[w]]) + 1]
           /\ Goto(w, "guard") /\ UNCHANGED on
  <2> DEFINE o == NewOp(on[w], kind, "running")
  <2>1. on[w] \in Session /\ Tables
    BY <1>0, OnSession DEF SessionInv, Types
  <2>2. o \in Op /\ o.began = 0 /\ o.status = "running"
    BY <2>1, NewOpTypes DEF NewOp
  <2>3. ops' = [ops EXCEPT ![on[w]] = Append(@, o)]
    BY <1>2
  <2> HIDE DEF o
  <2>4. /\ \A r \in Session \ {on[w]} : ops'[r] = ops[r]
        /\ Len(ops[on[w]]) \in Nat
        /\ DOMAIN ops'[on[w]] = 1..(Len(ops[on[w]]) + 1)
        /\ ops'[on[w]][Len(ops[on[w]]) + 1] = o
    BY <2>1, <2>2, <2>3, AppendedOp
  <2>5. Len(ops[on[w]]) + 1 \in DOMAIN ops'[on[w]]
    BY <2>4
  <2>6. op'[w] = Len(ops[on[w]]) + 1 /\ pc'[w] = "guard" /\ on'[w] = on[w]
    BY <1>0, <1>2 DEF Memory, Goto
  <2>7. op'[w] \in DOMAIN ops'[on'[w]] /\ ops'[on'[w]][op'[w]] = o
    BY <2>4, <2>5, <2>6
  <2> QED
    BY <2>2, <2>4, <2>6, <2>7 DEF HandSound, OpInHand, Uncertainties
<1> QED
  BY <1>1, <1>2 DEF Internal

LEMMA ClaimOps ==
  ASSUME SessionInv, NEW w \in Worker, pc[w] = "claim", NEW i \in Pending(on[w]),
         op' = [op EXCEPT ![w] = i], Goto(w, "guard"), UNCHANGED on
  PROVE  ops' = [ops EXCEPT ![on[w]][i].status = "running"] =>
           /\ \A s \in Session \ {on[w]} : ops'[s] = ops[s]
           /\ HandSound(w)'
<1>a. SUFFICES ASSUME ops' = [ops EXCEPT ![on[w]][i].status = "running"]
               PROVE  (\A s \in Session \ {on[w]} : ops'[s] = ops[s]) /\ HandSound(w)'
  OBVIOUS
<1> DEFINE s == on[w]
           o == [ops[s][i] EXCEPT !.status = "running"]
<1>1. Tables /\ Memory /\ w \in Process /\ s \in Session /\ i \in DOMAIN ops[s] /\ ops[s][i].status = "pending"
  BY OnSession, KeeperIsNoWorker DEF Pending, SessionInv, Types
<1>2. ops[s][i] \in Op /\ OpSound(s, ops[s][i])
  BY <1>1, LenProperties, ElementOfSeq DEF SessionInv, Commands, Tables
<1>3. /\ o \in Op /\ o.status = "running" /\ o.began = ops[s][i].began
      /\ ops' = [ops EXCEPT ![s][i] = o]
  BY <1>a, <1>2 DEF Op
<1>4. o.began = 0
  <2> HIDE DEF o
  <2> QED
    BY <1>1, <1>2, <1>3 DEF OpSound
<1>5. op'[w] = i /\ pc'[w] = "guard" /\ on'[w] = s
  BY <1>1 DEF Memory, Goto
<1> HIDE DEF o, s
<1>6. /\ \A r \in Session \ {s} : ops'[r] = ops[r]
      /\ \A r \in Session : DOMAIN ops'[r] = DOMAIN ops[r]
      /\ \A j \in DOMAIN ops[s] : ops'[s][j] = IF j = i THEN o ELSE ops[s][j]
  BY <1>1, <1>3, OpChange
<1>7. op'[w] \in DOMAIN ops'[on'[w]] /\ ops'[on'[w]][op'[w]] = o
  BY <1>1, <1>5, <1>6
<1> QED
  BY <1>3, <1>4, <1>5, <1>6, <1>7 DEF HandSound, OpInHand, Uncertainties, s

\* What a worker's step does to the operations of the sessions.
LEMMA WorkOps ==
  ASSUME SessionInv, NEW w \in Worker, Worked(w), ~ UNCHANGED ops
  PROVE  /\ pc[w] \in Running
         /\ \A s \in Session \ {on[w]} : ops'[s] = ops[s]
         /\ \/ /\ pc[w] \in WithCommand
               /\ \E status \in {"completed", "failed"} : \E state, step : \E place \in {"home", "detach"} :
                    Complete(w, status, state, step, place)
            \/ /\ pc[w] \in WithCommand /\ pc'[w] \in {"provision", "act"} /\ on'[w] = on[w] /\ op'[w] = op[w]
               /\ ops' = [ops EXCEPT ![on[w]][op[w]].began = @ + 1]
            \/ HandSound(w)'
<1>0. Memory /\ w \in Process
  BY KeeperIsNoWorker DEF SessionInv, Types
<1>1. CASE ClaimCommand(w)
  <2>1. pc[w] = "claim"
    BY <1>1 DEF ClaimCommand
  <2>2. \E i \in Pending(on[w]) :
          /\ op' = [op EXCEPT ![w] = i] /\ Goto(w, "guard") /\ UNCHANGED on
          /\ ops' = [ops EXCEPT ![on[w]][i].status = "running"]
    BY <1>1 DEF ClaimCommand
  <2> QED
    BY <2>1, <2>2, ClaimOps DEF Running
<1>2. CASE ResetAdmits(w) \/ Observed(w) \/ Answer(w) \/ Step(w)
  <2>1. pc[w] \in WithCommand /\ pc[w] \in Running
    BY <1>2 DEF ResetAdmits, Observed, Answer, Step, WithCommand, Running
  <2>2. CASE \E status \in {"completed", "failed"} : \E state, step : \E place \in {"home", "detach"} :
               Complete(w, status, state, step, place)
    BY <2>1, <2>2, CompleteOps
  <2>3. CASE /\ ops' = [ops EXCEPT ![on[w]][op[w]].began = @ + 1]
             /\ Goto(w, "provision") \/ Goto(w, "act")
             /\ UNCHANGED <<on, op>>
    <3>1. pc'[w] \in {"provision", "act"} /\ on'[w] = on[w] /\ op'[w] = op[w]
      BY SMTT(30), <1>0, <2>3 DEF Memory, Goto
    <3>2. \A s \in Session \ {on[w]} : ops'[s] = ops[s]
      BY <2>1, <2>3, BeganOps
    <3> QED
      BY <2>1, <2>3, <3>1, <3>2
  <2> QED
    BY <1>2, <2>2, <2>3 DEF ResetAdmits, Observed, Answer, Step, Stays
<1>3. CASE Choose(w) \/ Proposed(w)
  <2>1. pc[w] \in {"choose", "proposed"}
    BY <1>3 DEF Choose, Proposed
  <2>2. \E kind \in {"reset", "step"} : Internal(w, kind)
    BY <1>3 DEF Choose, Proposed, Completes
  <2> QED
    BY <2>1, <2>2, InternalOps DEF Running
<1> QED
  BY Zenon, <1>1, <1>2, <1>3
  DEF Worked, Begin, Open, Loop, Guard, ResetCloses, Provision, Attach, Observe, Act, Detach,
      Forget, Propose, Raise, Finish, GiveUp, Heartbeat, LeaseLost, Stopped, tables

LEMMA WorkMoves ==
  ASSUME SessionInv, NEW w \in Worker, Worked(w), ~ ClaimCommand(w), ~ Choose(w), ~ Proposed(w),
         pc'[w] \in WithCommand
  PROVE  /\ pc[w] \in WithCommand /\ on'[w] = on[w] /\ op'[w] = op[w]
         /\ \/ /\ pc'[w] = "guard" <=> pc[w] = "guard"
               /\ pc'[w] \in {"reset", "step"} => pc[w] \in {"reset", "step"}
            \/ pc[w] = "guard" /\ FenceHolds(w) /\ ~ StopReason(on[w])
<1>0. Memory /\ w \in Process
  BY KeeperIsNoWorker DEF SessionInv, Types
<1>1. CASE Begin(w) \/ Open(w)
  BY <1>0, <1>1, StaysStill, RaisesStill, HomeStill DEF Begin, Open, WithCommand
<1>2. CASE Loop(w)
  BY <1>0, <1>2, StaysStill, RetiresStill DEF Loop, WithCommand
<1>3. CASE Guard(w)
  <2>1. CASE Raises(w)
    BY <1>0, <2>1, RaisesStill DEF WithCommand
  <2>2. CASE FenceHolds(w) /\ ~ StopReason(on[w]) /\ Stays
    BY <1>3, <2>2 DEF Guard, WithCommand, Stays
  <2> QED
    BY <1>3, <2>1, <2>2 DEF Guard
<1>4. CASE ResetCloses(w)
  <2>1. CASE Raises(w)
    BY <1>0, <2>1, RaisesStill DEF WithCommand
  <2>2. CASE UNCHANGED <<pc, on, op>>
    BY <1>4, <2>2 DEF ResetCloses, WithCommand
  <2> QED
    BY <1>4, <2>1, <2>2 DEF ResetCloses
<1>5. CASE ResetAdmits(w)
  <2>1. CASE Complete(w, "failed", "episode_done", session[on[w]].step, "home")
    BY <1>0, <2>1, CompleteStill DEF WithCommand
  <2>2. CASE Goto(w, "provision") /\ Stays
    BY <1>0, <1>5, <2>2, StaysStill DEF ResetAdmits, WithCommand, Stays
  <2> QED
    BY <1>5, <2>1, <2>2 DEF ResetAdmits
<1>6. CASE Provision(w)
  <2>1. CASE Raises(w) \/ (Retires(w, "interrupted", "idle") /\ UNCHANGED <<on, fence, op, env, envStep>>)
    BY <1>0, <2>1, RaisesStill, RetiresStill DEF WithCommand
  <2>2. CASE Goto(w, "attach") /\ UNCHANGED <<on, op>>
    BY <1>0, <1>6, <2>2 DEF Provision, Goto, Memory, WithCommand
  <2> QED
    BY <1>6, <2>1, <2>2 DEF Provision
<1>7. CASE Attach(w) \/ Observe(w) \/ Act(w)
  <2>1. CASE Raises(w)
    BY <1>0, <2>1, RaisesStill DEF WithCommand
  <2>2. CASE Stays /\ \E place \in {"observe", "observed", "answer"} : Goto(w, place)
    BY <1>0, <1>7, <2>2, StaysStill DEF Attach, Observe, Act, WithCommand, Stays
  <2> QED
    BY <1>7, <2>1, <2>2 DEF Attach, Observe, Act
<1>8. CASE Observed(w) \/ Answer(w)
  BY <1>0, <1>8, CompleteStill DEF Observed, Answer, WithCommand
<1>9. CASE Step(w)
  <2>1. CASE Complete(w, "failed", session[on[w]].state, session[on[w]].step, "home")
    BY <1>0, <2>1, CompleteStill DEF WithCommand
  <2>2. CASE Goto(w, "act") /\ UNCHANGED <<on, op>>
    BY <1>0, <1>9, <2>2 DEF Step, Goto, Memory, WithCommand
  <2> QED
    BY <1>9, <2>1, <2>2 DEF Step
<1>10. CASE Detach(w)
  <2>1. CASE Raises(w)
    BY <1>0, <2>1, RaisesStill DEF WithCommand
  <2>2. CASE Goto(w, "forget")
    BY <1>0, <2>2 DEF Goto, Memory, WithCommand
  <2> QED
    BY <1>10, <2>1, <2>2 DEF Detach
<1>11. CASE Forget(w) \/ Propose(w)
  BY <1>0, <1>11, HomeStill, StaysStill, RaisesStill DEF Forget, Propose, WithCommand
<1>12. CASE Raise(w) \/ Finish(w) \/ LeaseLost(w) \/ Stopped(w)
  BY <1>0, <1>12, IdleStill, RetiresStill, RaisesStill DEF Raise, Finish, LeaseLost, Stopped, WithCommand
<1>13. CASE GiveUp(w) \/ Heartbeat(w)
  BY <1>13 DEF GiveUp, Heartbeat, memory
<1> QED
  BY <1>1, <1>2, <1>3, <1>4, <1>5, <1>6, <1>7, <1>8, <1>9, <1>10, <1>11, <1>12, <1>13 DEF Worked

LEMMA HandWorks ==
  ASSUME SessionInv, Rows, NEW w \in Worker, Worked(w)
  PROVE  HandSound(w)'
<1>0. Memory /\ w \in Process
  BY KeeperIsNoWorker DEF SessionInv, Types
<1> SUFFICES ASSUME pc'[w] \in WithCommand PROVE HandSound(w)'
  BY DEF HandSound
<1>1. CASE ClaimCommand(w)
  <2>1. pc[w] = "claim" /\ Still(w)
    BY <1>1, WorkStill DEF ClaimCommand
  <2>2. CASE \E i \in Pending(on[w]) :
          /\ op' = [op EXCEPT ![w] = i] /\ Goto(w, "guard") /\ UNCHANGED on
          /\ ops' = [ops EXCEPT ![on[w]][i].status = "running"]
    BY <2>1, <2>2, ClaimOps
  <2>3. CASE Raises(w) \/ (Goto(w, "loop") /\ Stays)
    BY <1>0, <2>3, RaisesStill, StaysStill DEF WithCommand
  <2> QED
    BY <1>1, <2>2, <2>3 DEF ClaimCommand
<1>2. CASE Choose(w) \/ Proposed(w)
  <2>1. pc[w] \in {"choose", "proposed"}
    BY <1>2 DEF Choose, Proposed
  <2>2. CASE \E kind \in {"reset", "step"} : Internal(w, kind)
    BY <2>1, <2>2, InternalOps
  <2>3. CASE Completes(w) \/ Raises(w) \/ (Goto(w, "propose") /\ Stays)
    BY <1>0, <2>3, RaisesStill, RetiresStill, StaysStill DEF Completes, WithCommand
  <2> QED
    BY <1>2, <2>2, <2>3 DEF Choose, Proposed
<1>3. CASE ~ ClaimCommand(w) /\ ~ Choose(w) /\ ~ Proposed(w)
  <2>1. /\ pc[w] \in WithCommand /\ on'[w] = on[w] /\ op'[w] = op[w]
        /\ \/ /\ pc'[w] = "guard" <=> pc[w] = "guard"
              /\ pc'[w] \in {"reset", "step"} => pc[w] \in {"reset", "step"}
           \/ pc[w] = "guard" /\ FenceHolds(w) /\ ~ StopReason(on[w])
    BY <1>3, WorkMoves
  <2> DEFINE o == ops[on[w]][op[w]]
  <2>2. op[w] \in DOMAIN ops[on[w]] /\ OpInHand(w, o)
    BY <2>1, InHand
  <2>3. CASE UNCHANGED ops
    <3>1. CASE /\ pc'[w] = "guard" <=> pc[w] = "guard"
               /\ pc'[w] \in {"reset", "step"} => pc[w] \in {"reset", "step"}
      BY <2>1, <2>2, <2>3, <3>1, HandStays
    <3>2. CASE pc[w] = "guard" /\ FenceHolds(w) /\ ~ StopReason(on[w])
      <4>1. o.kind \in {"reset", "step"} /\ o.status = "running"
        BY <3>2, GuardGoes
      <4>2. ops'[on'[w]][op'[w]] = o /\ op'[w] \in DOMAIN ops'[on'[w]]
        BY <2>1, <2>2, <2>3
      <4> HIDE DEF o
      <4>3. o.began = 0
        BY <2>2, <3>2 DEF OpInHand
      <4> QED
        BY <4>1, <4>2, <4>3 DEF HandSound, OpInHand, Uncertainties, Stoppers
    <3> QED
      BY <2>1, <3>1, <3>2
  <2>4. CASE ~ UNCHANGED ops
    <3>1. CASE pc'[w] \in {"provision", "act"} /\ ops' = [ops EXCEPT ![on[w]][op[w]].began = @ + 1]
      <4>1. /\ op[w] \in DOMAIN ops'[on[w]]
            /\ ops'[on[w]][op[w]].status = o.status /\ ops'[on[w]][op[w]].kind = o.kind
        BY <2>1, <3>1, BeganOps
      <4>2. pc[w] # "guard"
        <5>1. \/ pc'[w] = "guard" <=> pc[w] = "guard"
              \/ UNCHANGED ops
          BY Zenon, <1>0, <1>3, <2>1, <3>1 DEF Worked, Guard, Begin, Open, Loop, ResetCloses, ResetAdmits,
             Provision, Attach, Observe, Observed, Step, Act, Answer, Detach, Forget, Propose, Raise,
             Finish, GiveUp, Heartbeat, LeaseLost, Stopped, tables
        <5> QED
          BY <2>4, <3>1, <5>1
      <4> HIDE DEF o
      <4>3. /\ o.status \in Uncertainties /\ o.status \notin {"pending", "cancelled"}
            /\ o.kind \notin Stoppers
        BY <2>2, <4>2 DEF OpInHand
      <4> QED
        BY SMTT(30), <2>1, <3>1, <4>1, <4>3 DEF HandSound, OpInHand
    <3>2. CASE \E status \in {"completed", "failed"} : \E state, step : \E place \in {"home", "detach"} :
                 Complete(w, status, state, step, place)
      BY <1>0, <3>2, CompleteStill DEF WithCommand
    <3> QED
      BY <2>4, <3>1, <3>2, WorkOps
  <2> QED
    BY <2>3, <2>4
<1> QED
  BY <1>1, <1>2, <1>3

LEMMA HandsStep ==
  ASSUME SessionInv, Next
  PROVE  \A w \in Worker : HandSound(w)'
<1> USE KeeperIsNoWorker
<1>0. Memory /\ Tables
  BY DEF SessionInv, Types
<1>1. ASSUME Rows, UNCHANGED ops, NEW w \in Worker, pc'[w] = pc[w] \/ pc'[w] \notin WithCommand,
             (on'[w] = on[w] /\ op'[w] = op[w]) \/ pc'[w] \notin WithCommand
      PROVE  HandSound(w)'
  <2>1. CASE pc'[w] \notin WithCommand
    BY <2>1 DEF HandSound
  <2>2. CASE pc'[w] \in WithCommand
    <3>1. /\ pc'[w] = pc[w] /\ on'[w] = on[w] /\ op'[w] = op[w] /\ pc[w] \in WithCommand
      BY <1>1, <2>2
    <3>2. op[w] \in DOMAIN ops'[on[w]] /\ ops'[on[w]][op[w]] = ops[on[w]][op[w]]
      BY <1>1, <3>1, InHand
    <3> QED
      BY <1>1, <3>1, <3>2, HandStays
  <2> QED
    BY <2>1, <2>2
<1>2. CASE Rows /\ ~ \E p \in Process : Commit(p) /\ Committed(p)
  <2>1. ASSUME NEW v \in Worker, Worked(v), NEW w \in Worker PROVE HandSound(w)'
    <3>1. CASE w = v
      BY <1>2, <2>1, <3>1, HandWorks
    <3>2. CASE w # v
      <4>1. pc'[w] = pc[w] /\ on'[w] = on[w] /\ op'[w] = op[w]
        BY <2>1, <3>2, WorkStill DEF Still
      <4>2. CASE UNCHANGED ops
        BY <1>1, <1>2, <4>1, <4>2
      <4>3. CASE ~ UNCHANGED ops
        <5>1. CASE pc[w] \notin WithCommand
          BY <4>1, <5>1 DEF HandSound
        <5>2. CASE pc[w] \in WithCommand
          <6>1. on[w] \in Session /\ on[w] # on[v]
            BY <2>1, <3>2, <4>3, <5>2, WorkOps, RunsAlone, InHand DEF Running
          <6>2. ops'[on[w]] = ops[on[w]]
            BY <2>1, <4>3, <6>1, WorkOps
          <6> QED
            BY <1>2, <4>1, <5>2, <6>2, HandStays, InHand
        <5> QED
          BY <5>1, <5>2
      <4> QED
        BY <4>2, <4>3
    <3> QED
      BY <3>1, <3>2
  <2>2. ASSUME NEW p \in Process, Retired(p), ~ (Commit(p) /\ Committed(p)), NEW w \in Worker PROVE HandSound(w)'
    <3>1. UNCHANGED ops
      <4>1. CASE Commit(p)
        BY <2>2, <4>1 DEF Commit
      <4> QED
        BY SMTT(30), <2>2, <4>1 DEF Retired, Retire, Clean, EndCampaign, EndEpisode, Wake, Died, tables
    <3>2. pc'[p] \notin WithCommand
      <4>1. CASE Retire(p) \/ Commit(p) \/ Clean(p)
        BY <1>0, <2>2, <4>1, LeaveStill DEF Retire, Commit, Clean, Goto, Memory, WithCommand
      <4>2. CASE EndCampaign(p) \/ EndEpisode(p) \/ Wake(p) \/ Died(p)
        BY <1>0, <4>2, LeaveStill, IdleStill, StaysStill DEF EndCampaign, EndEpisode, Wake, Died, WithCommand
      <4> QED
        BY SMTT(30), <2>2, <4>1, <4>2 DEF Retired
    <3>3. w = p \/ (pc'[w] = pc[w] /\ on'[w] = on[w] /\ op'[w] = op[w])
      BY <2>2, RetiringStill DEF Still
    <3> QED
      BY <1>1, <1>2, <3>1, <3>2, <3>3
  <2>3. ASSUME NEW s \in Session, Served(s), NEW w \in Worker PROVE HandSound(w)'
    <3>1. /\ pc'[w] = pc[w] \/ pc'[w] \notin WithCommand
          /\ (on'[w] = on[w] /\ op'[w] = op[w]) \/ pc'[w] \notin WithCommand
      BY <2>3, ServingStill DEF Still, memory, WithCommand
    <3>2. CASE UNCHANGED ops
      BY <1>1, <1>2, <3>1, <3>2
    <3>3. ASSUME NEW kind \in {"reset", "step", "close", "cancel"}, Submit(s, kind) PROVE HandSound(w)'
      <4> DEFINE o == NewOp(s, kind, IF session[s].state \in Terminal THEN "completed" ELSE "pending")
      <4>1. ops' = [ops EXCEPT ![s] = Append(@, o)] /\ UNCHANGED <<pc, memory>>
        BY <3>3 DEF Submit
      <4>2. o \in Op
        BY <1>0, NewOpTypes
      <4> HIDE DEF o
      <4>3. /\ \A r \in Session \ {s} : ops'[r] = ops[r]
            /\ DOMAIN ops[s] = 1..Len(ops[s]) /\ DOMAIN ops'[s] = 1..(Len(ops[s]) + 1) /\ Len(ops[s]) \in Nat
            /\ \A j \in DOMAIN ops[s] : ops'[s][j] = ops[s][j]
        BY <1>0, <4>1, <4>2, AppendedOp
      <4>4. pc'[w] = pc[w] /\ on'[w] = on[w] /\ op'[w] = op[w]
        BY <4>1 DEF memory
      <4>5. CASE pc[w] \notin WithCommand
        BY <4>4, <4>5 DEF HandSound
      <4>6. CASE pc[w] \in WithCommand
        <5>1. on[w] \in Session /\ op[w] \in DOMAIN ops[on[w]]
          BY <4>6, InHand
        <5>2. op[w] \in DOMAIN ops'[on[w]] /\ ops'[on[w]][op[w]] = ops[on[w]][op[w]]
          BY <4>3, <5>1
        <5> QED
          BY <1>2, <4>4, <4>6, <5>2, HandStays
      <4> QED
        BY <4>5, <4>6
    <3> QED
      BY <2>3, <3>2, <3>3
      DEF Served, CreateSession, ClientHeartbeat, CancelCampaign, Expire, Maintain, TimePasses, Claim, tables
  <2> QED
    BY StepCases, <1>2, <2>1, <2>2, <2>3
<1>3. ASSUME NEW p \in Process, Commit(p), Committed(p), NEW w \in Worker PROVE HandSound(w)'
  <2>1. /\ on[p] \in Session /\ \A s \in Session \ {on[p]} : session'[s] = session[s]
        /\ session'[on[p]].state \in Terminal
        /\ ops' = [ops EXCEPT ![on[p]] = [i \in DOMAIN @ |-> EndedOp(@[i])]]
        /\ pc' = [pc EXCEPT ![p] = "campaign"]
    BY Zenon, <1>3, CommitRow DEF Commit, Goto
  <2>2. /\ \A r \in Session \ {on[p]} : ops'[r] = ops[r]
        /\ DOMAIN ops'[on[p]] = DOMAIN ops[on[p]]
        /\ \A i \in DOMAIN ops[on[p]] : ops'[on[p]][i] = EndedOp(ops[on[p]][i])
    BY <1>0, <2>1, EndedOps
  <2>3. Still(p)
    BY <1>3, RetiringStill DEF Retired
  <2>4. CASE w = p \/ pc[w] \notin WithCommand
    BY <1>0, <2>1, <2>3, <2>4 DEF HandSound, Still, Memory, WithCommand
  <2>5. CASE w # p /\ pc[w] \in WithCommand
    <3> DEFINE o == ops[on[w]][op[w]]
    <3>1. /\ pc'[w] = pc[w] /\ on'[w] = on[w] /\ op'[w] = op[w]
      BY <2>3, <2>5 DEF Still
    <3>2. on[w] \in Session /\ op[w] \in DOMAIN ops[on[w]] /\ o \in Op /\ OpInHand(w, o)
      BY <2>5, InHand
    <3>3. CASE on[w] # on[p]
      <4>1. ops'[on'[w]][op'[w]] = o /\ op'[w] \in DOMAIN ops'[on'[w]] /\ session'[on'[w]] = session[on[w]]
        BY <2>1, <2>2, <3>1, <3>2, <3>3
      <4> HIDE DEF o
      <4> QED
        BY <3>1, <3>2, <4>1 DEF HandSound, OpInHand, Ended
    <3>4. CASE on[w] = on[p]
      <4>1. ops'[on'[w]][op'[w]] = EndedOp(o) /\ op'[w] \in DOMAIN ops'[on'[w]] /\ Ended(on[w])'
        BY <2>1, <2>2, <3>1, <3>2, <3>4 DEF Ended
      <4> HIDE DEF o
      <4>2. /\ EndedOp(o).kind = o.kind /\ EndedOp(o).began = o.began
            /\ EndedOp(o).status = IF o.status # "running" THEN o.status
                                   ELSE IF o.kind \in Stoppers THEN "completed" ELSE "indeterminate"
        BY <3>2 DEF EndedOp, Op, OpInHand, Stoppers
      <4> QED
        BY <3>1, <3>2, <4>1, <4>2 DEF HandSound, OpInHand, Uncertainties
    <3> QED
      BY <3>3, <3>4
  <2> QED
    BY <2>4, <2>5
<1> QED
  BY <1>2, <1>3, RowsStep

LEMMA CommandsStep ==
  ASSUME SessionInv, Next
  PROVE  Commands'
BY OpsSoundStep, HandsStep DEF Commands, OpsSound, HandSound

-----------------------------------------------------------------------------
(* Capsules.                                                               *)

Shrinks == \A s \in Session : Attached(s)' \subseteq Attached(s)

LEMMA ShrinksSame ==
  ASSUME UNCHANGED episodes
  PROVE  Shrinks
BY DEF Shrinks, Attached

LEMMA AttachedChange ==
  ASSUME SessionInv, NEW s \in Session, NEW i, NEW e,
         i \in DOMAIN episodes[s] =>
           e \in Episode /\ (e.capsule = "attached" => episodes[s][i].capsule = "attached")
  PROVE  episodes' = [episodes EXCEPT ![s][i] = e] =>
           Shrinks /\ (e.capsule # "attached" => i \notin Attached(s)')
<1>a. SUFFICES ASSUME episodes' = [episodes EXCEPT ![s][i] = e]
               PROVE  Shrinks /\ (e.capsule # "attached" => i \notin Attached(s)')
  OBVIOUS
<1>1. Tables
  BY DEF SessionInv, Types
<1>2. /\ \A r \in Session : DOMAIN episodes'[r] = DOMAIN episodes[r]
      /\ \A r \in Session \ {s} : episodes'[r] = episodes[r]
      /\ \A j \in DOMAIN episodes[s] : episodes'[s][j] = IF j = i THEN e ELSE episodes[s][j]
  BY <1>a, <1>1, EpisodeChange
<1> QED
  BY <1>2 DEF Shrinks, Attached

LEMMA GoneShrinks ==
  ASSUME SessionInv, NEW s \in Session, NEW i,
         \/ episodes' = [episodes EXCEPT ![s][i] = Gone]
         \/ episodes' = [episodes EXCEPT ![s][i].capsule = "gone"]
  PROVE  Shrinks /\ i \notin Attached(s)'
<1>1. Gone \in Episode /\ Gone.capsule = "gone"
  BY DEF Gone, Episode
<1>2. CASE episodes' = [episodes EXCEPT ![s][i] = Gone]
  <2> DEFINE e == Gone
  <2>1. /\ e \in Episode /\ e.capsule = "gone"
        /\ episodes' = [episodes EXCEPT ![s][i] = e]
    BY <1>1, <1>2
  <2> HIDE DEF e
  <2> QED
    BY <2>1, AttachedChange
<1>3. CASE episodes' = [episodes EXCEPT ![s][i].capsule = "gone"]
  <2> DEFINE e == [episodes[s][i] EXCEPT !.capsule = "gone"]
  <2>1. i \in DOMAIN episodes[s] => episodes[s][i] \in Episode
    BY EpisodesTypes, LenProperties, ElementOfSeq DEF SessionInv, Types
  <2>2. i \in DOMAIN episodes[s] => e \in Episode /\ e.capsule = "gone"
    BY <2>1 DEF Episode
  <2>3. episodes' = [episodes EXCEPT ![s][i] = e]
    BY <1>3
  <2>4. Tables
    BY DEF SessionInv, Types
  <2> HIDE DEF e
  <2>5. DOMAIN episodes'[s] = DOMAIN episodes[s]
    BY <2>2, <2>3, <2>4, EpisodeChange
  <2>6. i \notin DOMAIN episodes[s] => i \notin Attached(s)'
    BY <2>5 DEF Attached
  <2> QED
    BY <2>2, <2>3, <2>6, AttachedChange
<1> QED
  BY <1>2, <1>3

LEMMA EndedShrinks ==
  ASSUME SessionInv, NEW s \in Session, NEW i
  PROVE  episodes' = [episodes EXCEPT ![s][i].row = "ended"] => Shrinks
<1>a. SUFFICES ASSUME episodes' = [episodes EXCEPT ![s][i].row = "ended"] PROVE Shrinks
  OBVIOUS
<1> DEFINE e == [episodes[s][i] EXCEPT !.row = "ended"]
<1>1. i \in DOMAIN episodes[s] => episodes[s][i] \in Episode
  BY EpisodesTypes, LenProperties, ElementOfSeq DEF SessionInv, Types
<1>2. i \in DOMAIN episodes[s] => e \in Episode /\ e.capsule = episodes[s][i].capsule
  BY <1>1 DEF Episode
<1>3. episodes' = [episodes EXCEPT ![s][i] = e]
  BY <1>a
<1> HIDE DEF e
<1> QED
  BY <1>2, <1>3, AttachedChange

LEMMA HalfClosedShrinks ==
  ASSUME SessionInv, NEW s \in Session, NEW i, NEW e \in HalfClosed(episodes[s][i]),
         episodes' = [episodes EXCEPT ![s][i] = e]
  PROVE  Shrinks
<1>1. i \in DOMAIN episodes[s] => e \in Episode
  BY HalfClosedTypes
<1>2. e.capsule = "attached" => episodes[s][i].capsule = "attached"
  BY DEF HalfClosed
<1> QED
  BY <1>1, <1>2, AttachedChange

LEMMA AddedShrinks ==
  ASSUME SessionInv, NEW s \in Session, NEW row \in {"open", "ended"}, NEW capsule \in {"made", "gone"}
  PROVE  episodes' = [episodes EXCEPT ![s] = Append(@, [row |-> row, capsule |-> capsule])] => Shrinks
<1>a. SUFFICES ASSUME episodes' = [episodes EXCEPT ![s] = Append(@, [row |-> row, capsule |-> capsule])]
               PROVE  Shrinks
  OBVIOUS
<1> DEFINE e == [row |-> row, capsule |-> capsule]
<1>1. Tables /\ e \in Episode /\ e.capsule # "attached" /\ episodes' = [episodes EXCEPT ![s] = Append(@, e)]
  BY <1>a DEF SessionInv, Types, Episode
<1> HIDE DEF e
<1>2. /\ \A r \in Session \ {s} : episodes'[r] = episodes[r]
      /\ Len(episodes[s]) \in Nat /\ DOMAIN episodes[s] = 1..Len(episodes[s])
      /\ DOMAIN episodes'[s] = 1..(Len(episodes[s]) + 1)
      /\ \A j \in DOMAIN episodes[s] : episodes'[s][j] = episodes[s][j]
      /\ episodes'[s][Len(episodes[s]) + 1] = e
  BY <1>1, AppendedEpisode
<1>3. \A j \in DOMAIN episodes'[s] : j \in DOMAIN episodes[s] \/ episodes'[s][j] = e
  BY <1>2
<1> QED
  BY <1>1, <1>2, <1>3 DEF Shrinks, Attached

LEMMA NoEpisodeZero ==
  ASSUME SessionInv, NEW s \in Session
  PROVE  0 \notin Attached(s) /\ Len(episodes[s]) + 1 \notin Attached(s)
BY LenProperties DEF SessionInv, Types, Tables, Attached

\* Only attaching adds to what is attached.
LEMMA ShrinksStep ==
  ASSUME SessionInv, Next
  PROVE  Shrinks \/ \E w \in Worker : Attach(w) /\ FenceHolds(w)
<1> USE KeeperIsNoWorker
<1>0. \A p \in Process : pc[p] # "idle" => on[p] \in Session
  BY OnSession
<1>1. ASSUME NEW w \in Worker, Worked(w), ~ (Attach(w) /\ FenceHolds(w)) PROVE Shrinks
  <2>1. CASE UNCHANGED episodes
    BY <2>1, ShrinksSame
  <2>2. CASE ResetCloses(w) \/ Detach(w)
    <3>1. on[w] \in Session
      BY <1>0, <2>2 DEF ResetCloses, Detach
    <3>2. \/ episodes' = [episodes EXCEPT ![on[w]][env[w]] = Gone]
          \/ \E e \in HalfClosed(episodes[on[w]][env[w]]) : episodes' = [episodes EXCEPT ![on[w]][env[w]] = e]
      BY <2>2 DEF ResetCloses, Detach
    <3> QED
      BY <3>1, <3>2, GoneShrinks, HalfClosedShrinks
  <2>3. CASE Provision(w)
    <3>1. on[w] \in Session
      BY <1>0, <2>3 DEF Provision
    <3>2. \/ UNCHANGED episodes
          \/ \E row \in {"open", "ended"} : \E capsule \in {"made", "gone"} :
               episodes' = [episodes EXCEPT ![on[w]] = Append(@, [row |-> row, capsule |-> capsule])]
      BY <2>3 DEF Provision
    <3> QED
      BY <2>1, <3>1, <3>2, AddedShrinks
  <2>4. CASE Attach(w)
    BY <1>1, <2>1, <2>4 DEF Attach
  <2> QED
    BY Zenon, <1>1, <2>1, <2>2, <2>3, <2>4
    DEF Worked, Begin, Open, Loop, ClaimCommand, Guard, ResetAdmits, Observe, Observed, Step, Act,
        Answer, Forget, Choose, Propose, Proposed, Raise, Finish, GiveUp, Heartbeat, LeaseLost,
        Stopped, tables
<1>2. ASSUME NEW p \in Process, Retired(p) PROVE Shrinks
  <2>1. CASE UNCHANGED episodes
    BY <2>1, ShrinksSame
  <2>2. CASE Clean(p)
    <3> DEFINE h == CapsuleToClean(p)
    <3>1. on[p] \in Session
      BY <1>0, <2>2 DEF Clean
    <3>2. \/ UNCHANGED episodes
          \/ episodes' = [episodes EXCEPT ![on[p]][h] = Gone]
          \/ episodes' = [episodes EXCEPT ![on[p]][h].capsule = "gone"]
          \/ \E e \in HalfClosed(episodes[on[p]][h]) : episodes' = [episodes EXCEPT ![on[p]][h] = e]
      BY <2>2 DEF Clean
    <3> HIDE DEF h
    <3> QED
      BY <2>1, <3>1, <3>2, GoneShrinks, HalfClosedShrinks
  <2>3. CASE EndEpisode(p)
    <3>1. on[p] \in Session
      BY <1>0, <2>3 DEF EndEpisode
    <3> DEFINE e == plan[p].episode
    <3>2. UNCHANGED episodes \/ episodes' = [episodes EXCEPT ![on[p]][e].row = "ended"]
      BY SMTT(30), <2>3 DEF EndEpisode
    <3> HIDE DEF e
    <3> QED
      BY <2>1, <3>1, <3>2, EndedShrinks
  <2>4. CASE Commit(p)
    BY <2>1, <2>4 DEF Commit
  <2> QED
    BY <1>2, <2>1, <2>2, <2>3, <2>4 DEF Retired, Retire, EndCampaign, Wake, Died, tables
<1>3. ASSUME NEW s \in Session, Served(s) PROVE Shrinks
  BY <1>3, ShrinksSame
  DEF Served, CreateSession, ClientHeartbeat, CancelCampaign, Expire, Maintain, Submit, TimePasses, Claim, tables
<1> QED
  BY StepCases, <1>1, <1>2, <1>3

LEMMA HandlesStep ==
  ASSUME SessionInv, Next, NEW s \in Session
  PROVE  \/ session'[s].handle = session[s].handle
         \/ \E w \in Worker : on[w] = s /\ ((Attach(w) /\ FenceHolds(w)) \/ Forget(w))
         \/ \E p \in Process : on[p] = s /\ Commit(p) /\ Committed(p)
<1> USE KeeperIsNoWorker
<1>0. Tables /\ Memory /\ \A p \in Process : pc[p] # "idle" => on[p] \in Session /\ session[on[p]] \in Row
  BY OnSession DEF SessionInv, Types, Tables
<1>1. CASE UNCHANGED session
  BY <1>1
<1>2. ASSUME NEW w \in Worker, Worked(w)
      PROVE  \/ session'[s].handle = session[s].handle
             \/ on[w] = s /\ ((Attach(w) /\ FenceHolds(w)) \/ Forget(w))
  <2>1. CASE Begin(w)
    <3>1. on[w] \in Session
      BY <1>0, <2>1 DEF Begin
    <3> QED
      BY <1>0, <2>1, <3>1, BeginRow
  <2>2. CASE Attach(w) \/ Forget(w)
    <3>1. on[w] # s => session'[s] = session[s]
      <4>1. session' = session \/ \E r : session' = [session EXCEPT ![on[w]] = r]
        BY <2>2 DEF Attach, Forget
      <4> QED
        BY <1>0, <4>1 DEF Tables
    <3>2. Attach(w) /\ ~ FenceHolds(w) => session'[s] = session[s]
      BY DEF Attach
    <3> QED
      BY <2>2, <3>1, <3>2
  <2>3. CASE ResetAdmits(w) \/ Observed(w) \/ Answer(w) \/ Step(w)
    <3>1. \/ UNCHANGED session
          \/ \E state, step : session' = [session EXCEPT ![on[w]].state = state, ![on[w]].step = step]
      BY <2>3 DEF ResetAdmits, Observed, Answer, Step, Complete, NewStep
    <3>2. ASSUME NEW state, NEW step, session' = [session EXCEPT ![on[w]].state = state, ![on[w]].step = step]
          PROVE  session'[s].handle = session[s].handle
      <4> DEFINE r == [session[on[w]] EXCEPT !.state = state, !.step = step]
      <4>1. on[w] \in Session /\ session[on[w]] \in Row
        BY <1>0, <2>3 DEF ResetAdmits, Observed, Answer, Step
      <4>2. session' = [session EXCEPT ![on[w]] = r] /\ r.handle = session[on[w]].handle
        BY <3>2, <4>1 DEF Row
      <4> HIDE DEF r
      <4> QED
        BY <1>0, <4>1, <4>2 DEF Tables
    <3> QED
      BY <3>1, <3>2
  <2> QED
    BY Zenon, <1>2, <2>1, <2>2, <2>3
    DEF Worked, Open, Loop, ClaimCommand, Guard, ResetCloses, Provision, Observe, Act, Detach,
        Choose, Propose, Proposed, Raise, Finish, GiveUp, Heartbeat, LeaseLost, Stopped, tables
<1>3. ASSUME NEW p \in Process, Retired(p)
      PROVE  session'[s].handle = session[s].handle \/ (on[p] = s /\ Commit(p) /\ Committed(p))
  <2>1. CASE Commit(p)
    <3>1. Committed(p) \/ session' = session
      BY <2>1 DEF Commit
    <3>2. Committed(p) /\ on[p] # s => session'[s] = session[s]
      BY <2>1, CommitRow
    <3> QED
      BY <2>1, <3>1, <3>2
  <2> QED
    BY <1>3, <2>1 DEF Retired, Retire, Clean, EndCampaign, EndEpisode, Wake, Died, tables
<1>4. ASSUME NEW r \in Session, Served(r) PROVE session'[s].handle = session[s].handle
  <2>1. CASE CreateSession(r)
    <3> DEFINE x == [session[r] EXCEPT !.state = "queued"]
    <3>1. session' = [session EXCEPT ![r] = x] /\ x.handle = session[r].handle
      BY <1>0, <2>1 DEF CreateSession, Tables, Row
    <3> HIDE DEF x
    <3> QED
      BY <1>0, <3>1 DEF Tables
  <2>2. ASSUME NEW kind, Submit(r, kind) PROVE session'[s].handle = session[s].handle
    <3> DEFINE stop == IF session[r].state \in Terminal \/ kind \notin {"close", "cancel"}
                       THEN session[r].stop
                       ELSE IF kind = "cancel" THEN "client_cancelled" ELSE "client_closed"
               x == [session[r] EXCEPT !.stop = stop]
    <3>1. session' = [session EXCEPT ![r] = x]
      BY <2>2 DEF Submit
    <3> HIDE DEF stop
    <3>2. x.handle = session[r].handle
      BY <1>0 DEF Tables, Row
    <3> HIDE DEF x
    <3> QED
      BY <1>0, <3>1, <3>2 DEF Tables
  <2> QED
    BY <1>4, <2>1, <2>2
    DEF Served, ClientHeartbeat, CancelCampaign, Expire, Maintain, TimePasses, Claim, tables
<1> QED
  BY StepCases, <1>2, <1>3, <1>4

LEMMA AttachedOn ==
  ASSUME Shrinks, NEW p, on[p] \in Session, on'[p] = on[p]
  PROVE  Attached(on[p])' \subseteq Attached(on[p])
<1>1. PICK s \in Session : s = on[p]
  OBVIOUS
<1>2. Attached(s)' \subseteq Attached(s)
  BY DEF Shrinks
<1> QED
  BY <1>1, <1>2 DEF Attached

LEMMA HandEmpty ==
  ASSUME NEW p, Attached(on[p])' = {}
  PROVE  CapsuleInHand(p)'
BY DEF CapsuleInHand

LEMMA HandKept ==
  ASSUME SessionInv, Shrinks, NEW p \in Process, pc[p] # "idle",
         pc'[p] = pc[p], on'[p] = on[p], fence'[p] = fence[p], env'[p] = env[p], plan'[p] = plan[p],
         session'[on[p]].fence = session[on[p]].fence \/ session'[on[p]].fence # fence[p]
  PROVE  CapsuleInHand(p)'
<1>1. on[p] \in Session /\ CapsuleInHand(p)
  BY OnSession DEF SessionInv, Capsules
<1>2. Attached(on[p])' \subseteq Attached(on[p])
  BY <1>1, AttachedOn
<1>3. CapsuleToClean(p)' = CapsuleToClean(p)
  BY DEF CapsuleToClean
<1> QED
  BY <1>1, <1>2, <1>3 DEF CapsuleInHand

LEMMA HandMoves ==
  ASSUME SessionInv, Shrinks, NEW p \in Process, pc[p] # "idle", on'[p] = on[p], env'[p] = env[p],
         pc'[p] \in Running => pc[p] \in Running \/ env[p] # 0,
         pc'[p] \notin {"begin", "clean", "commit"}
  PROVE  CapsuleInHand(p)'
<1>1. on[p] \in Session /\ CapsuleInHand(p)
  BY OnSession DEF SessionInv, Capsules
<1>2. Attached(on[p])' \subseteq Attached(on[p])
  BY <1>1, AttachedOn
<1> QED
  BY <1>1, <1>2 DEF CapsuleInHand

\* The worker that attaches is the only one with anything to say about the capsules.
LEMMA AttachStep ==
  ASSUME SessionInv, Types', Next, NEW w \in Worker, Attach(w), FenceHolds(w)
  PROVE  Capsules'
<1> USE KeeperIsNoWorker
<1>s. PICK s \in Session, i \in Nat : s = on[w] /\ i = env[w]
  BY OnSession DEF Attach, SessionInv, Types, Memory
<1>0. /\ Tables /\ Memory /\ s \in Session /\ pc[w] \in Running /\ pc[w] # "idle" /\ i \in Nat
      /\ session[s].fence = fence[w] /\ Works(w, s)
      /\ session[s] \in Row
  BY <1>s DEF Attach, FenceHolds, Running, WithCommand, SessionInv, Types, Memory, Works, Tables
<1>1. Attached(s) \subseteq {i}
  BY <1>s, <1>0 DEF SessionInv, Capsules, CapsuleInHand
<1>2. Attached(s)' \subseteq {i} /\ \A r \in Session \ {s} : Attached(r)' = Attached(r)
  <2> DEFINE e == [episodes[s][i] EXCEPT !.capsule = "attached"]
  <2>1. i \in DOMAIN episodes[s] => episodes[s][i] \in Episode
    BY <1>0, EpisodesTypes, LenProperties, ElementOfSeq
  <2>2. i \in DOMAIN episodes[s] => e \in Episode
    BY <2>1 DEF Episode
  <2>3. episodes' = [episodes EXCEPT ![s][i] = e]
    BY <1>s DEF Attach
  <2> HIDE DEF e
  <2>4. /\ \A r \in Session : DOMAIN episodes'[r] = DOMAIN episodes[r]
        /\ \A r \in Session \ {s} : episodes'[r] = episodes[r]
        /\ \A j \in DOMAIN episodes[s] : episodes'[s][j] = IF j = i THEN e ELSE episodes[s][j]
    BY <1>0, <2>2, <2>3, EpisodeChange
  <2> QED
    BY <1>1, <2>4 DEF Attached
<1>3. session'[s].handle = i /\ session'[s].fence = fence[w] /\ \A r \in Session \ {s} : session'[r] = session[r]
  <2> DEFINE x == [session[s] EXCEPT !.episode = i, !.handle = i]
  <2>1. session' = [session EXCEPT ![s] = x]
    BY <1>s DEF Attach
  <2>2. x.handle = i /\ x.fence = session[s].fence
    BY <1>0 DEF Row
  <2> HIDE DEF x
  <2> QED
    BY <1>0, <2>1, <2>2 DEF Tables
<1>4. /\ UNCHANGED <<job, on, fence, env, plan>> /\ pc' = [pc EXCEPT ![w] = "observe"]
  BY DEF Attach, Stays, Goto
<1>5. \A r \in Session : Attached(r)' \subseteq {session'[r].handle}
  BY <1>2, <1>3 DEF SessionInv, Capsules
<1>6. \A r \in Session : job'[r].attempts = 0 => Attached(r)' = {}
  <2>1. 1 <= fence[w] /\ fence[w] <= job[s].attempts /\ job[s].attempts \in Nat /\ fence[w] \in Nat
    BY <1>s, <1>0 DEF SessionInv, Leases, Tables, Memory
  <2>2. job[s].attempts # 0
    BY <2>1
  <2>3. \A r \in Session : job[r].attempts = 0 => Attached(r) = {}
    BY DEF SessionInv, Capsules
  <2> QED
    BY <1>2, <1>4, <2>2, <2>3
<1>7. ASSUME NEW p \in Process, pc'[p] # "idle" PROVE CapsuleInHand(p)'
  <2>1. CASE p = w
    <3>1. pc'[p] = "observe" /\ env'[p] = i /\ on'[p] = s
      BY <1>s, <1>0, <1>4, <2>1 DEF Memory
    <3>2. Attached(on[p])' = Attached(s)'
      BY <3>1 DEF Attached
    <3> QED
      BY <1>2, <3>1, <3>2 DEF CapsuleInHand
  <2>2. CASE p # w
    <3>1. pc'[p] = pc[p] /\ on'[p] = on[p] /\ fence'[p] = fence[p] /\ env'[p] = env[p] /\ plan'[p] = plan[p]
      BY <1>0, <1>4, <2>2 DEF Memory
    <3>2. on[p] \in Session /\ CapsuleInHand(p)
      BY <1>7, <3>1, OnSession DEF SessionInv, Capsules
    <3>3. CASE on[p] # s
      <4>0. PICK r \in Session \ {s} : r = on[p]
        BY <3>2, <3>3
      <4>1. Attached(on[p])' = Attached(on[p]) /\ session'[on'[p]] = session[on[p]]
        <5>1. Attached(r)' = Attached(r) /\ session'[r] = session[r]
          BY <1>2, <1>3, <4>0
        <5>2. Attached(on[p])' = Attached(r)'
          BY <3>1, <4>0 DEF Attached
        <5> QED
          BY <3>1, <4>0, <5>1, <5>2
      <4>2. CapsuleToClean(p)' = CapsuleToClean(p)
        BY <3>1 DEF CapsuleToClean
      <4> QED
        BY <3>1, <3>2, <4>1, <4>2 DEF CapsuleInHand
    <3>4. CASE on[p] = s
      <4>1. fence[p] # fence[w]
        <5>1. CASE p = Keeper
          <6>1. Fenced(w)
            BY <1>s, <1>0, FenceMeansLive DEF Running, WithCommand, Late, Attach
          <6>2. fence[Keeper] < fence[w]
            BY <1>s, <1>0, <1>7, <3>1, <3>4, <5>1, <6>1, FencedAlone DEF Works
          <6> QED
            BY <1>0, <5>1, <6>2 DEF Memory
        <5>2. CASE p \in Worker
          BY <1>s, <1>0, <1>7, <2>2, <3>1, <3>4, <5>2 DEF SessionInv, Leases, Works
        <5> QED
          BY <5>1, <5>2 DEF Process
      <4>2. fence[w] = 1
        BY <1>0 DEF SessionInv, Runs1
      <4>3. pc[p] \notin Running /\ env[p] = 0
        <5>1. CASE p = Keeper
          BY <5>1 DEF SessionInv, Places, Whereabouts, Keeping, Running, WithCommand
        <5>2. CASE p \in Worker
          BY <4>1, <4>2, <5>2 DEF SessionInv, Runs1
        <5> QED
          BY <5>1, <5>2 DEF Process
      <4> QED
        BY <1>3, <3>1, <3>4, <4>1, <4>2, <4>3 DEF CapsuleInHand
    <3> QED
      BY <3>3, <3>4
  <2> QED
    BY <2>1, <2>2
<1> QED
  BY <1>5, <1>6, <1>7 DEF Capsules

LEMMA WorkGoes ==
  ASSUME SessionInv, NEW w \in Worker, Worked(w), ~ Begin(w)
  PROVE  \/ UNCHANGED <<pc, memory>>
         \/ pc'[w] = "idle"
         \/ /\ on'[w] = on[w] /\ pc[w] # "idle" /\ env'[w] = env[w]
            /\ pc'[w] \notin {"begin", "clean", "commit"}
         \/ /\ ResetCloses(w) \/ Detach(w) \/ Provision(w)
            /\ env' # env
<1> DEFINE Goes == /\ on'[w] = on[w] /\ pc[w] # "idle" /\ env'[w] = env[w]
                   /\ pc'[w] \notin {"begin", "clean", "commit"}
<1>0. Memory /\ w \in Process
  BY KeeperIsNoWorker DEF SessionInv, Types
<1>1. ASSUME Raises(w), pc[w] # "idle" PROVE Goes
  BY <1>0, <1>1, RaisesStill DEF Raises
<1>2. ASSUME NEW state, NEW then, Retires(w, state, then), UNCHANGED <<on, fence, op, env>>, pc[w] # "idle"
      PROVE Goes
  BY <1>0, <1>2, RetiresStill
<1>3. ASSUME Home(w), Stays, pc[w] # "idle" PROVE Goes
  <2>1. pc'[w] \in {"choose", "loop"}
    BY <1>0, <1>3, HomeStill
  <2> QED
    BY <1>3, <2>1 DEF Stays
<1>4. ASSUME NEW place, Goto(w, place), UNCHANGED <<on, env>>, pc[w] # "idle",
             place \notin {"begin", "clean", "commit"} PROVE Goes
  BY <1>0, <1>4 DEF Goto, Memory
<1>5. ASSUME NEW status, NEW state, NEW step, NEW place \in {"home", "detach"}, pc[w] # "idle",
             Complete(w, status, state, step, place) PROVE Goes
  BY <1>1, <1>3, <1>4, <1>5 DEF Complete, Stays
<1> HIDE DEF Goes
<1>6. CASE Open(w)
  <2>1. (UNCHANGED pc /\ Stays) \/ (Home(w) /\ Stays) \/ (Goto(w, "raise") /\ Stays)
    BY <1>6 DEF Open
  <2> QED
    BY <1>3, <1>4, <1>6, <2>1 DEF Open, Stays, memory, Goes
<1>7. CASE Loop(w)
  BY <1>2, <1>4, <1>7 DEF Loop, Stays, Goes
<1>8. CASE ClaimCommand(w)
  BY <1>1, <1>4, <1>8 DEF ClaimCommand, Stays, Goes
<1>9. CASE Guard(w)
  BY <1>1, <1>4, <1>9, GuardGoes DEF Guard, Stays, Goes
<1>10. CASE ResetAdmits(w)
  BY <1>5, <1>4, <1>10 DEF ResetAdmits, Stays, Goes
<1>11. CASE Attach(w) \/ Observe(w) \/ Act(w) \/ Propose(w)
  BY <1>1, <1>4, <1>11 DEF Attach, Observe, Act, Propose, Stays, Goes
<1>12. CASE Observed(w) \/ Answer(w)
  BY <1>5, <1>12 DEF Observed, Answer, Goes
<1>13. CASE Step(w)
  BY <1>4, <1>5, <1>13 DEF Step, Goes
<1>14. CASE Forget(w)
  BY <1>3, <1>14 DEF Forget, Goes
<1>15. CASE Choose(w) \/ Proposed(w)
  <2>1. ASSUME NEW kind, Internal(w, kind), pc[w] # "idle" PROVE Goes
    BY <1>1, <1>4, <2>1 DEF Internal
  <2>2. ASSUME Completes(w), pc[w] # "idle" PROVE Goes
    BY <1>2, <2>2 DEF Completes
  <2>3. Goes
    BY <1>1, <1>4, <1>15, <2>1, <2>2 DEF Choose, Proposed, Stays
  <2> QED
    BY <2>3 DEF Goes
<1>16. CASE Raise(w) \/ Finish(w)
  BY <1>0, <1>16, IdleStill DEF Raise, Finish
<1>17. CASE GiveUp(w) \/ Heartbeat(w)
  BY <1>17 DEF GiveUp, Heartbeat
<1>18. CASE LeaseLost(w)
  BY <1>0, <1>2, <1>18, IdleStill DEF LeaseLost, Awaits, Goes
<1>19. CASE Stopped(w)
  BY <1>1, <1>19 DEF Stopped, Goes
<1>20. CASE ResetCloses(w) \/ Detach(w) \/ Provision(w)
  <2>1. CASE env' # env
    BY <1>20, <2>1
  <2>2. CASE env' = env
    <3>1. CASE Raises(w)
      BY <1>1, <1>20, <3>1 DEF ResetCloses, Detach, Provision, Goes
    <3>2. CASE \E state, then : Retires(w, state, then) /\ UNCHANGED <<on, fence, op, env>>
      BY <1>2, <1>20, <3>2 DEF ResetCloses, Detach, Provision, Goes
    <3>3. CASE UNCHANGED pc /\ UNCHANGED on /\ ResetCloses(w)
      BY <2>2, <3>3 DEF ResetCloses
    <3>4. CASE UNCHANGED on /\ (Goto(w, "forget") \/ Goto(w, "attach"))
      BY <1>4, <1>20, <2>2, <3>4 DEF ResetCloses, Detach, Provision, Goes
    <3> QED
      BY ZenonT(30), <1>20, <3>1, <3>2, <3>3, <3>4 DEF ResetCloses, Detach, Provision
  <2> QED
    BY <2>1, <2>2
<1> QED
  BY <1>6, <1>7, <1>8, <1>9, <1>10, <1>11, <1>12, <1>13, <1>14, <1>15, <1>16, <1>17, <1>18, <1>19,
     <1>20 DEF Worked

LEMMA HandWorker ==
  ASSUME SessionInv, Types', Next, Shrinks, NEW w \in Worker, Worked(w), pc'[w] # "idle"
  PROVE  CapsuleInHand(w)'
<1> USE KeeperIsNoWorker
<1>0. /\ Memory /\ Tables /\ Whereabouts
      /\ pc[w] # "idle" => on[w] \in Session /\ CapsuleInHand(w)
  BY OnSession DEF SessionInv, Types, Places, Capsules
<1>1. CASE Begin(w)
  <2>1. on[w] \in Session /\ pc[w] = "begin" /\ env[w] = 0 /\ 1 <= fence[w] /\ fence[w] \in Nat
    BY <1>0, <1>1 DEF Begin, Whereabouts, SessionInv, Leases, Works, Memory
  <2>2. /\ on'[w] = on[w] /\ env'[w] = env[w]
        /\ pc'[w] \in {"finish", "retire"} \/ (pc'[w] = "open" /\ fence[w] <= 1)
    BY <1>0, <1>1, <2>1, BeginRow DEF Memory
  <2>3. CASE pc'[w] = "open" /\ fence[w] <= 1
    <3>1. fence[w] = 1
      BY <2>1, <2>3
    <3>2. Attached(on[w]) = {}
      BY <1>0, <2>1, <3>1 DEF CapsuleInHand
    <3>3. Attached(on[w])' = {}
      BY <2>1, <2>2, <3>2, AttachedOn
    <3> QED
      BY <3>3, HandEmpty
  <2>4. CASE pc'[w] \in {"finish", "retire"}
    BY <2>1, <2>2, <2>4, HandMoves DEF Running, WithCommand
  <2> QED
    BY <2>2, <2>3, <2>4
<1>2. CASE UNCHANGED <<pc, memory>> /\ ~ Begin(w)
  BY <1>0, <1>2, HandKept, WorkKept DEF memory, FencesKept
<1>3. CASE /\ on'[w] = on[w] /\ pc[w] # "idle" /\ env'[w] = env[w]
           /\ pc'[w] \notin {"begin", "clean", "commit"} /\ ~ Begin(w)
  <2>1. pc'[w] \in Running => pc[w] \in Running \/ env[w] # 0
    BY <1>3, WorkKept DEF RunsKept
  <2> QED
    BY <1>3, <2>1, HandMoves
<1>4. CASE (ResetCloses(w) \/ Detach(w)) /\ env' # env
  <2>1. on[w] \in Session /\ on'[w] = on[w] /\ pc[w] \in Running
    BY <1>0, <1>4 DEF ResetCloses, Detach, Running, WithCommand, Raises
  <2>2. Attached(on[w]) \subseteq {env[w]}
    BY <1>0, <2>1 DEF CapsuleInHand, Running, WithCommand
  <2>3. episodes' = [episodes EXCEPT ![on[w]][env[w]] = Gone]
    BY <1>4 DEF ResetCloses, Detach, Raises
  <2>4. PICK s \in Session, i \in Nat : s = on[w] /\ i = env[w]
    BY <1>0, <2>1 DEF Memory
  <2>5. i \notin Attached(s)'
    BY <2>3, <2>4, GoneShrinks
  <2>6. Attached(on[w])' = Attached(s)'
    BY <2>1, <2>4 DEF Attached
  <2>7. Attached(on[w])' \subseteq Attached(on[w])
    BY <2>1, AttachedOn
  <2>8. Attached(on[w])' = {}
    BY <2>2, <2>4, <2>5, <2>6, <2>7
  <2> QED
    BY <2>8, HandEmpty
<1>5. CASE Provision(w) /\ env' # env
  <2>1. on[w] \in Session /\ on'[w] = on[w] /\ pc[w] \in Running /\ env[w] = 0
    BY <1>0, <1>5 DEF Provision, Running, WithCommand, Raises, Whereabouts
  <2>2. Attached(on[w]) \subseteq {0} /\ 0 \notin Attached(on[w])
    BY <1>0, <2>1, NoEpisodeZero DEF CapsuleInHand, Running, WithCommand
  <2>3. Attached(on[w])' = {}
    BY <2>1, <2>2, AttachedOn
  <2> QED
    BY <2>3, HandEmpty
<1> QED
  BY <1>1, <1>2, <1>3, <1>4, <1>5, WorkGoes

LEMMA HandRetiring ==
  ASSUME SessionInv, Types', Next, Shrinks, NEW p \in Process, Retired(p), pc'[p] # "idle"
  PROVE  CapsuleInHand(p)'
<1> USE KeeperIsNoWorker
<1>0. /\ Memory /\ Tables /\ Whereabouts /\ FencesKept
      /\ pc[p] # "idle" /\ on[p] \in Session /\ CapsuleInHand(p)
      /\ on'[p] = on[p] /\ fence'[p] = fence[p]
      /\ session'[on[p]].fence = session[on[p]].fence
  <2>1. RunsKept /\ FencesKept
    BY RetiringKept
  <2> QED
    BY <2>1, OnSession DEF SessionInv, Types, Places, Capsules, RunsKept, FencesKept
<1>1. Attached(on[p])' \subseteq Attached(on[p])
  BY <1>0, AttachedOn
<1>2. CASE Leave(p) \/ Idle(p)
  <2>1. pc'[p] = "finish" /\ env'[p] = env[p]
    <3>1. CASE Idle(p)
      BY <1>0, <3>1, IdleStill
    <3>2. CASE Goto(p, "finish") /\ Stays
      BY <1>0, <3>2 DEF Goto, Stays, Memory
    <3> QED
      BY <1>2, <3>1, <3>2 DEF Leave
  <2> QED
    BY <1>0, <2>1, HandMoves DEF Running, WithCommand
<1>3. CASE Retire(p)
  <2>1. CASE session[on[p]].fence # fence[p]
    BY <1>2, <1>3, <2>1 DEF Retire
  <2>2. CASE session[on[p]].fence = fence[p]
    <3>1. /\ pc'[p] = "clean" /\ env'[p] = env[p] /\ plan'[p].handle = session[on[p]].handle
          /\ pc[p] = "retire" /\ UNCHANGED episodes
      <4> DEFINE x == [plan[p] EXCEPT !.handle = session[on[p]].handle, !.episode = session[on[p]].episode]
      <4>1. plan' = [plan EXCEPT ![p] = x] /\ plan[p] \in Plan
        BY <1>0, <1>3, <2>2 DEF Retire, Memory
      <4>2. x.handle = session[on[p]].handle
        BY <4>1 DEF Plan
      <4> HIDE DEF x
      <4> QED
        BY <1>0, <1>3, <2>2, <4>1, <4>2 DEF Retire, Goto, Memory, tables
    <3>2. Attached(on[p]) \subseteq {session[on[p]].handle}
      BY <1>0 DEF SessionInv, Capsules
    <3>3. env[p] # 0 => Attached(on[p]) \subseteq {env[p]}
      BY <1>0 DEF CapsuleInHand
    <3>4. Attached(on[p])' \subseteq {CapsuleToClean(p)'}
      BY <1>1, <3>1, <3>2, <3>3 DEF CapsuleToClean
    <3> QED
      BY <1>1, <3>1, <3>3, <3>4 DEF CapsuleInHand, Running, WithCommand
  <2> QED
    BY <2>1, <2>2
<1>4. CASE Clean(p)
  <2> DEFINE h == CapsuleToClean(p)
  <2>1. pc'[p] = "commit" /\ pc[p] = "clean"
    BY <1>0, <1>4 DEF Clean, Goto, Memory
  <2>2. fence[p] = session[on[p]].fence => Attached(on[p]) \subseteq {h}
    BY <1>0, <2>1 DEF CapsuleInHand
  <2>3. CASE /\ episodes' = [episodes EXCEPT ![on[p]][h] = Gone]
                \/ episodes' = [episodes EXCEPT ![on[p]][h].capsule = "gone"]
             /\ env' = [env EXCEPT ![p] = 0]
    <3>1. PICK s \in Session : s = on[p]
      BY <1>0
    <3>2. PICK i : i = h
      OBVIOUS
    <3>3. i \notin Attached(s)'
      <4> HIDE DEF h
      <4> QED
        BY <2>3, <3>1, <3>2, GoneShrinks
    <3>4. Attached(on[p])' = Attached(s)'
      BY <1>0, <3>1 DEF Attached
    <3>5. fence[p] = session[on[p]].fence => Attached(on[p])' = {}
      BY <1>1, <2>2, <3>2, <3>3, <3>4
    <3>6. env'[p] = 0
      BY <1>0, <2>3 DEF Memory
    <3> QED
      BY <1>0, <2>1, <3>5, <3>6 DEF CapsuleInHand, Running, WithCommand
  <2>4. CASE plan' = [plan EXCEPT ![p].dirty = TRUE] /\ env' = env
    <3>1. plan'[p].dirty
      BY <1>0, <2>4 DEF Memory, Plan
    <3>2. env[p] # 0 => Attached(on[p]) \subseteq {env[p]}
      BY <1>0 DEF CapsuleInHand
    <3> QED
      BY <1>1, <2>1, <2>4, <3>1, <3>2 DEF CapsuleInHand, Running, WithCommand
  <2>5. CASE h = 0 /\ env' = env
    <3>1. 0 \notin Attached(on[p])
      BY <1>0, NoEpisodeZero
    <3>2. fence[p] = session[on[p]].fence => Attached(on[p])' = {}
      BY <1>1, <2>2, <2>5, <3>1
    <3>3. env[p] # 0 => Attached(on[p]) \subseteq {env[p]}
      BY <1>0 DEF CapsuleInHand
    <3> QED
      BY <1>0, <1>1, <2>1, <2>5, <3>2, <3>3 DEF CapsuleInHand, Running, WithCommand
  <2> QED
    BY <1>4, <2>3, <2>4, <2>5 DEF Clean
<1>5. CASE Commit(p)
  <2>1. CASE Committed(p)
    <3>1. pc'[p] = "campaign" /\ env'[p] = env[p]
      BY <1>0, <1>5, <2>1 DEF Commit, Goto, Memory
    <3> QED
      BY <1>0, <3>1, HandMoves DEF Running, WithCommand
  <2> QED
    BY <1>2, <1>5, <2>1 DEF Commit
<1>6. CASE EndCampaign(p) \/ EndEpisode(p)
  <2>1. CASE Stays /\ \E place \in {"episode", "raise", "wake"} : Goto(p, place)
    <3>1. pc'[p] \in {"episode", "raise", "wake"} /\ env'[p] = env[p]
      BY <1>0, <2>1 DEF Goto, Memory, Stays
    <3> QED
      BY <1>0, <3>1, HandMoves DEF Running, WithCommand
  <2> QED
    BY <1>2, <1>6, <2>1 DEF EndCampaign, EndEpisode
<1>7. CASE Wake(p) \/ Died(p)
  BY <1>2, <1>7 DEF Wake, Died
<1> QED
  BY <1>3, <1>4, <1>5, <1>6, <1>7 DEF Retired
LEMMA AttemptsGrow ==
  ASSUME SessionInv, Next, NEW s \in Session
  PROVE  job'[s].attempts >= job[s].attempts
<1> USE DEF SessionInv, Types
<1>1. job[s].attempts \in Nat
  BY DEF Tables
<1>2. CASE UNCHANGED job \/ JobsKept
  BY <1>1, <1>2 DEF JobsKept
<1>3. ASSUME NEW w \in Worker, NEW r \in Session, Claim(w, r) PROVE job'[s].attempts >= job[s].attempts
  BY <1>1, <1>3, ClaimRows
<1> QED
  BY Zenon, <1>2, <1>3, StepKept DEF Begin, Maintain, tables

\* The capsules on record stay on record while they are attached.
LEMMA RecordsStep ==
  ASSUME SessionInv, Next, Shrinks, ~ \E w \in Worker : Attach(w) /\ FenceHolds(w), NEW s \in Session
  PROVE  Attached(s)' \subseteq {session'[s].handle}
<1>1. Attached(s) \subseteq {session[s].handle} /\ Attached(s)' \subseteq Attached(s)
  BY DEF SessionInv, Capsules, Shrinks
<1>2. ASSUME NEW w \in Worker, on[w] = s, Forget(w) PROVE Attached(s) = {}
  <2>1. w \in Process /\ pc[w] = "forget" /\ env[w] = 0
    BY <1>2, KeeperIsNoWorker DEF Forget, SessionInv, Places, Whereabouts
  <2>2. CapsuleInHand(w)
    BY <2>1 DEF SessionInv, Capsules
  <2> QED
    BY <1>2, <2>1, <2>2, NoEpisodeZero DEF CapsuleInHand, Running
<1>3. ASSUME NEW p \in Process, on[p] = s, Commit(p), Committed(p)
      PROVE  Attached(s) = {} \/ session'[s].handle = session[s].handle
  <2>1. pc[p] = "commit" /\ session[s].fence = fence[p]
    BY <1>3 DEF Commit, Committed
  <2>2. CapsuleInHand(p)
    BY <2>1 DEF SessionInv, Capsules
  <2>3. ~ plan[p].dirty => Attached(s) = {}
    BY <1>3, <2>1, <2>2 DEF CapsuleInHand
  <2>4. plan[p].dirty => session'[s].handle = session[s].handle
    BY <1>3, CommitRow
  <2> QED
    BY <2>3, <2>4
<1> QED
  BY <1>1, <1>2, <1>3, HandlesStep

LEMMA OthersHand ==
  ASSUME SessionInv, Next, Shrinks, NEW p \in Process, Still(p), FencesKept,
         NEW q \in Process \ {p}, pc'[q] # "idle"
  PROVE  CapsuleInHand(q)'
<1>1. /\ pc[q] # "idle" /\ pc'[q] = pc[q] /\ on'[q] = on[q] /\ fence'[q] = fence[q]
      /\ env'[q] = env[q] /\ plan'[q] = plan[q]
  BY DEF Still
<1>2. on[q] \in Session
  BY <1>1, OnSession
<1> QED
  BY <1>1, <1>2, HandKept DEF FencesKept

LEMMA BeginHands ==
  ASSUME SessionInv, Next, Shrinks, NEW w \in Worker, Begin(w), Still(w),
         NEW q \in Process \ {w}, pc'[q] # "idle"
  PROVE  CapsuleInHand(q)'
<1>1. /\ pc[q] # "idle" /\ pc'[q] = pc[q] /\ on'[q] = on[q] /\ fence'[q] = fence[q]
      /\ env'[q] = env[q] /\ plan'[q] = plan[q]
  BY DEF Still
<1>2. on[q] \in Session /\ on[w] \in Session /\ pc[w] = "begin" /\ pc[w] # "idle"
  BY <1>1, OnSession, KeeperIsNoWorker DEF Begin
<1>3. CASE on[q] = on[w]
  <2>1. Works(w, on[w]) /\ Works(q, on[w])
    BY <1>1, <1>2, <1>3 DEF Works
  <2>2. fence[q] # fence[w]
    <3>1. CASE q = Keeper
      BY <3>1, <1>2, <2>1 DEF SessionInv, Leases
    <3>2. CASE q \in Worker
      BY <3>2, <1>2, <2>1 DEF SessionInv, Leases
    <3> QED
      BY <3>1, <3>2 DEF Process
  <2>3. session'[on[q]].fence \in {session[on[q]].fence, fence[w]}
    BY <1>2, <1>3, BeginRow DEF SessionInv, Types
  <2> QED
    BY <1>1, <2>2, <2>3, HandKept
<1>4. CASE on[q] # on[w]
  <2>1. session'[on[q]] = session[on[q]]
    BY <1>2, <1>4, BeginRow DEF SessionInv, Types
  <2> QED
    BY <1>1, <2>1, HandKept
<1> QED
  BY <1>3, <1>4

LEMMA ClaimHand ==
  ASSUME SessionInv, Shrinks, NEW w \in Worker, NEW s \in Session, Claim(w, s)
  PROVE  CapsuleInHand(w)'
<1>1. /\ w \in Process /\ pc[w] = "idle" /\ pc'[w] = "begin" /\ on'[w] = s
      /\ fence'[w] = job[s].attempts + 1 /\ env'[w] = env[w] /\ env[w] = 0
  BY KeeperIsNoWorker DEF Claim, SessionInv, Types, Memory, Places, Whereabouts
<1>2. job[s].attempts \in Nat
  BY DEF SessionInv, Types, Tables
<1>3. fence'[w] = 1 => Attached(s)' = {}
  BY <1>1, <1>2 DEF SessionInv, Capsules, Shrinks
<1>4. Attached(on[w])' = Attached(s)'
  BY <1>1 DEF Attached
<1> QED
  BY <1>1, <1>3, <1>4 DEF CapsuleInHand, Running, WithCommand

LEMMA MaintainHand ==
  ASSUME SessionInv, NEW s \in Session, Maintain(s)
  PROVE  CapsuleInHand(Keeper)'
<1>1. pc'[Keeper] = "retire" /\ env'[Keeper] = 0
  BY KeeperIsNoWorker DEF Maintain, Retires, Goto, SessionInv, Types, Memory, Places, Whereabouts
<1> QED
  BY <1>1 DEF CapsuleInHand, Running, WithCommand

LEMMA HandsOfAll ==
  ASSUME SessionInv, Types', Next, Shrinks, NEW q \in Process, pc'[q] # "idle"
  PROVE  CapsuleInHand(q)'
<1>1. ASSUME NEW w \in Worker, Worked(w) PROVE CapsuleInHand(q)'
  <2>1. Still(w) /\ w \in Process
    BY <1>1, WorkStill, KeeperIsNoWorker
  <2>2. CASE q = w
    BY <1>1, <2>2, HandWorker
  <2>3. CASE q # w /\ Begin(w)
    BY <2>1, <2>3, BeginHands
  <2>4. CASE q # w /\ ~ Begin(w)
    BY <1>1, <2>1, <2>4, WorkKept, OthersHand
  <2> QED
    BY <2>2, <2>3, <2>4
<1>2. ASSUME NEW p \in Process, Retired(p) PROVE CapsuleInHand(q)'
  <2>1. CASE q = p
    BY <1>2, <2>1, HandRetiring
  <2>2. CASE q # p
    BY <1>2, <2>2, RetiringStill, RetiringKept, OthersHand
  <2> QED
    BY <2>1, <2>2
<1>3. ASSUME NEW s \in Session, Served(s) PROVE CapsuleInHand(q)'
  <2>1. ASSUME NEW w \in Worker, Claim(w, s) PROVE CapsuleInHand(q)'
    <3>1. FencesKept /\ Still(w) /\ w \in Process
      BY <2>1, SessionSame, KeeperIsNoWorker DEF Claim, Still, SessionInv, Types, Memory
    <3> QED
      BY <2>1, <3>1, ClaimHand, OthersHand
  <2>2. CASE Maintain(s)
    <3>1. FencesKept
      BY <2>2, SessionSame DEF Maintain, tables
    <3>2. Still(Keeper)
      BY <2>2 DEF Maintain, Retires, Goto, Still, SessionInv, Types, Memory
    <3> QED
      BY <2>2, <3>1, <3>2, MaintainHand, OthersHand, KeeperIsNoWorker
  <2>3. CASE ~ Maintain(s) /\ ~ \E w \in Worker : Claim(w, s)
    <3>1. UNCHANGED <<pc, memory>>
      BY <1>3, <2>3, ServingStill
    <3>2. FencesKept
      BY <1>3, <2>3, ServingKept
    <3>3. on[q] \in Session
      BY <3>1, OnSession
    <3> QED
      BY <3>1, <3>2, <3>3, HandKept DEF FencesKept, memory
  <2> QED
    BY <2>1, <2>2, <2>3
<1> QED
  BY <1>1, <1>2, <1>3, StepCases

LEMMA CapsulesStep ==
  ASSUME SessionInv, Types', Next
  PROVE  Capsules'
<1>1. CASE \E w \in Worker : Attach(w) /\ FenceHolds(w)
  BY <1>1, AttachStep
<1>2. CASE ~ \E w \in Worker : Attach(w) /\ FenceHolds(w)
  <2>1. Shrinks
    BY <1>2, ShrinksStep
  <2>2. \A s \in Session : Attached(s)' \subseteq {session'[s].handle}
    BY <1>2, <2>1, RecordsStep
  <2>3. ASSUME NEW s \in Session, job'[s].attempts = 0 PROVE Attached(s)' = {}
    <3>1. job[s].attempts \in Nat
      BY DEF SessionInv, Types, Tables
    <3>2. job[s].attempts = 0
      BY <2>3, <3>1, AttemptsGrow
    <3> QED
      BY <3>2, <2>1 DEF SessionInv, Capsules, Shrinks
  <2>4. \A q \in Process : pc'[q] # "idle" => CapsuleInHand(q)'
    BY <2>1, HandsOfAll
  <2> QED
    BY <2>2, <2>3, <2>4 DEF Capsules
<1> QED
  BY <1>1, <1>2
\* What a step can do to the operations of a session: one is claimed, completed or
\* ended with the session, and none of it once the session is over.
Completing(s) ==
  /\ UNCHANGED unanswered
  /\ \E w \in Worker : on[w] = s /\ pc[w] \in {"reset", "observed", "step", "answer"}

Moves(s, i) ==
  /\ i \in DOMAIN ops'[s] /\ ops'[s][i].kind = ops[s][i].kind
  /\ \/ ops'[s][i].status = ops[s][i].status
     \/ ~ Ended(s) /\ ops[s][i].status = "pending" /\ ops'[s][i].status = "running"
     \/ /\ ~ Ended(s) /\ Completing(s)
        /\ ops[s][i].status = "running" /\ ops'[s][i].status \in {"completed", "failed"}
     \/ ~ Ended(s) /\ ops'[s][i] = EndedOp(ops[s][i])

OpsMove == \A s \in Session :
  /\ \A i \in DOMAIN ops[s] : Moves(s, i)
  /\ \A i \in DOMAIN ops'[s] \ DOMAIN ops[s] : ops'[s][i].status # "indeterminate"

LEMMA MovesSame ==
  ASSUME UNCHANGED ops
  PROVE  OpsMove
BY DEF OpsMove, Moves

LEMMA MovesChange ==
  ASSUME SessionInv, NEW s \in Session, NEW i \in DOMAIN ops[s], NEW o \in Op,
         o.kind = ops[s][i].kind,
         \/ o.status = ops[s][i].status
         \/ ~ Ended(s) /\ ops[s][i].status = "pending" /\ o.status = "running"
         \/ /\ ~ Ended(s) /\ Completing(s)
            /\ ops[s][i].status = "running" /\ o.status \in {"completed", "failed"}
  PROVE  ops' = [ops EXCEPT ![s][i] = o] => OpsMove
<1>a. SUFFICES ASSUME ops' = [ops EXCEPT ![s][i] = o] PROVE OpsMove
  OBVIOUS
<1>1. /\ \A r \in Session \ {s} : ops'[r] = ops[r]
      /\ \A r \in Session : DOMAIN ops'[r] = DOMAIN ops[r]
      /\ \A j \in DOMAIN ops[s] : ops'[s][j] = IF j = i THEN o ELSE ops[s][j]
  BY <1>a, OpChange DEF SessionInv, Types
<1>2. ASSUME NEW r \in Session, NEW j \in DOMAIN ops[r] PROVE Moves(r, j)
  <2>1. CASE r = s /\ j = i
    BY <1>1, <2>1 DEF Moves
  <2>2. CASE ~ (r = s /\ j = i)
    <3>1. j \in DOMAIN ops'[r] /\ ops'[r][j] = ops[r][j]
      BY <1>1, <1>2, <2>2
    <3> QED
      BY <3>1 DEF Moves
  <2> QED
    BY <2>1, <2>2
<1> QED
  BY <1>1, <1>2 DEF OpsMove

LEMMA MovesAppend ==
  ASSUME SessionInv, NEW s \in Session, NEW o \in Op, o.status # "indeterminate"
  PROVE  ops' = [ops EXCEPT ![s] = Append(@, o)] => OpsMove
<1>a. SUFFICES ASSUME ops' = [ops EXCEPT ![s] = Append(@, o)] PROVE OpsMove
  OBVIOUS
<1>1. /\ \A r \in Session \ {s} : ops'[r] = ops[r]
      /\ Len(ops[s]) \in Nat /\ DOMAIN ops[s] = 1..Len(ops[s])
      /\ DOMAIN ops'[s] = 1..(Len(ops[s]) + 1)
      /\ \A j \in DOMAIN ops[s] : ops'[s][j] = ops[s][j]
      /\ ops'[s][Len(ops[s]) + 1] = o
  BY <1>a, AppendedOp DEF SessionInv, Types
<1>2. /\ \A j \in DOMAIN ops[s] : j \in DOMAIN ops'[s] /\ ops'[s][j] = ops[s][j]
      /\ \A j \in DOMAIN ops'[s] \ DOMAIN ops[s] : ops'[s][j] = o
  BY <1>1
<1>3. \A r \in Session \ {s} : ops'[r] = ops[r]
  BY <1>1
<1> QED
  BY <1>2, <1>3 DEF OpsMove, Moves

LEMMA MovesComplete ==
  ASSUME SessionInv, NEW w \in Worker, pc[w] \in {"reset", "observed", "step", "answer"},
         UNCHANGED unanswered, NEW status \in {"completed", "failed"},
         NEW state, NEW step, NEW place, Complete(w, status, state, step, place)
  PROVE  OpsMove
<1>1. CASE UNCHANGED ops
  BY <1>1, MovesSame
<1>2. CASE Completable(w) /\ ops' = [ops EXCEPT ![on[w]][op[w]].status = status]
  <2> DEFINE o == [ops[on[w]][op[w]] EXCEPT !.status = status]
  <2>0. pc[w] \in WithCommand /\ pc[w] \notin Late /\ pc[w] # "idle"
    BY DEF WithCommand, Late
  <2>1. on[w] \in Session /\ op[w] \in DOMAIN ops[on[w]] /\ ops[on[w]][op[w]] \in Op
    BY <2>0, InHand
  <2>2. o \in Op /\ ops' = [ops EXCEPT ![on[w]][op[w]] = o]
    BY <1>2, <2>0, OpUpdates
  <2>3. o.status = status /\ o.kind = ops[on[w]][op[w]].kind
    BY <2>1 DEF Op
  <2> HIDE DEF o
  <2>4. ops[on[w]][op[w]].status = "running" /\ ~ Ended(on[w])
    BY <1>2, <2>0, FenceMeansLive DEF Completable
  <2>5. Completing(on[w])
    BY DEF Completing
  <2> QED
    BY <2>1, <2>2, <2>3, <2>4, <2>5, MovesChange
<1> QED
  BY <1>1, <1>2 DEF Complete

LEMMA MovesBegan ==
  ASSUME SessionInv, NEW w \in Worker, pc[w] \in WithCommand
  PROVE  ops' = [ops EXCEPT ![on[w]][op[w]].began = @ + 1] => OpsMove
<1>a. SUFFICES ASSUME ops' = [ops EXCEPT ![on[w]][op[w]].began = @ + 1] PROVE OpsMove
  OBVIOUS
<1> DEFINE o == [ops[on[w]][op[w]] EXCEPT !.began = @ + 1]
<1>1. on[w] \in Session /\ op[w] \in DOMAIN ops[on[w]] /\ ops[on[w]][op[w]] \in Op
  BY InHand
<1>2. o \in Op /\ ops' = [ops EXCEPT ![on[w]][op[w]] = o]
  BY <1>a, OpUpdates
<1>3. o.status = ops[on[w]][op[w]].status /\ o.kind = ops[on[w]][op[w]].kind
  BY <1>1 DEF Op
<1> HIDE DEF o
<1> QED
  BY <1>1, <1>2, <1>3, MovesChange

LEMMA MovesInternal ==
  ASSUME SessionInv, NEW w \in Worker, pc[w] # "idle", NEW kind \in {"reset", "step"}, Internal(w, kind)
  PROVE  OpsMove
<1>1. CASE UNCHANGED ops
  BY <1>1, MovesSame
<1>2. CASE ops' = [ops EXCEPT ![on[w]] = Append(@, NewOp(on[w], kind, "running"))]
  <2>1. on[w] \in Session /\ Tables
    BY OnSession, KeeperIsNoWorker DEF SessionInv, Types
  <2>2. NewOp(on[w], kind, "running") \in Op /\ NewOp(on[w], kind, "running").status = "running"
    BY <2>1, NewOpTypes DEF NewOp
  <2> QED
    BY <1>2, <2>1, <2>2, MovesAppend
<1> QED
  BY <1>1, <1>2 DEF Internal

LEMMA MovesClaim ==
  ASSUME SessionInv, NEW s \in Session, ~ Ended(s), NEW i \in Pending(s)
  PROVE  ops' = [ops EXCEPT ![s][i].status = "running"] => OpsMove
<1>a. SUFFICES ASSUME ops' = [ops EXCEPT ![s][i].status = "running"] PROVE OpsMove
  OBVIOUS
<1> DEFINE o == [ops[s][i] EXCEPT !.status = "running"]
<1>1. i \in DOMAIN ops[s] /\ ops[s][i].status = "pending"
  BY DEF Pending
<1>2. ops[s][i] \in Op
  BY <1>1, LenProperties, ElementOfSeq DEF SessionInv, Types, Tables
<1>3. /\ o \in Op /\ o.status = "running" /\ o.kind = ops[s][i].kind
      /\ ops' = [ops EXCEPT ![s][i] = o]
  BY <1>a, <1>2 DEF Op
<1> HIDE DEF o
<1> QED
  BY <1>1, <1>3, MovesChange

LEMMA MovesCommit ==
  ASSUME SessionInv, NEW p \in Process, Commit(p), Committed(p)
  PROVE  OpsMove
<1>1. on[p] \in Session /\ ~ Ended(on[p]) /\ Tables
  BY CommitRow DEF SessionInv, Types
<1>2. ops' = [ops EXCEPT ![on[p]] = [i \in DOMAIN @ |-> EndedOp(@[i])]]
  BY DEF Commit
<1>3. /\ \A r \in Session \ {on[p]} : ops'[r] = ops[r]
      /\ DOMAIN ops'[on[p]] = DOMAIN ops[on[p]]
      /\ \A i \in DOMAIN ops[on[p]] : ops'[on[p]][i] = EndedOp(ops[on[p]][i])
  BY <1>1, <1>2, EndedOps
<1>4. ASSUME NEW i \in DOMAIN ops[on[p]] PROVE Moves(on[p], i)
  <2>1. ops[on[p]][i] \in Op
    BY <1>1, LenProperties, ElementOfSeq DEF Tables
  <2>2. EndedOp(ops[on[p]][i]).kind = ops[on[p]][i].kind
    BY <2>1 DEF EndedOp, Op
  <2> QED
    BY <1>1, <1>3, <2>2 DEF Moves
<1>5. ASSUME NEW r \in Session \ {on[p]}, NEW i \in DOMAIN ops[r] PROVE Moves(r, i)
  BY <1>3 DEF Moves
<1> QED
  BY <1>3, <1>4, <1>5 DEF OpsMove

LEMMA OpsMoveStep ==
  ASSUME SessionInv, Next
  PROVE  OpsMove
<1>0. \A p \in Process : pc[p] # "idle" => on[p] \in Session
  BY OnSession
<1>1. ASSUME NEW w \in Worker, Worked(w) PROVE OpsMove
  <2>1. CASE UNCHANGED ops
    BY <2>1, MovesSame
  <2>2. CASE ClaimCommand(w)
    <3>1. pc[w] = "claim" /\ on[w] \in Session
      BY <1>0, <2>2, KeeperIsNoWorker DEF ClaimCommand
    <3>2. \/ UNCHANGED ops
          \/ /\ FenceHolds(w)
             /\ \E i \in Pending(on[w]) : ops' = [ops EXCEPT ![on[w]][i].status = "running"]
      BY <2>2 DEF ClaimCommand
    <3>3. FenceHolds(w) => ~ Ended(on[w])
      BY <3>1, FenceMeansLive DEF Late
    <3> QED
      BY <2>1, <3>1, <3>2, <3>3, MovesClaim
  <2>3. CASE ResetAdmits(w) \/ Observed(w) \/ Answer(w) \/ Step(w)
    <3>1. pc[w] \in {"reset", "observed", "step", "answer"} /\ pc[w] \in WithCommand
      BY <2>3 DEF ResetAdmits, Observed, Answer, Step, WithCommand
    <3>2. \/ /\ \E status \in {"completed", "failed"} : \E state, step : \E place \in {"home", "detach"} :
                  Complete(w, status, state, step, place)
             /\ UNCHANGED unanswered
          \/ ops' = [ops EXCEPT ![on[w]][op[w]].began = @ + 1]
      BY <2>3 DEF ResetAdmits, Observed, Answer, Step, world, calls
    <3> QED
      BY <3>1, <3>2, MovesComplete, MovesBegan
  <2>4. CASE Choose(w) \/ Proposed(w)
    <3>1. pc[w] # "idle"
      BY <2>4 DEF Choose, Proposed
    <3>2. UNCHANGED ops \/ \E kind \in {"reset", "step"} : Internal(w, kind)
      BY <2>4 DEF Choose, Proposed, Completes
    <3> QED
      BY <2>1, <3>1, <3>2, MovesInternal
  <2> QED
    BY Zenon, <1>1, <2>1, <2>2, <2>3, <2>4
    DEF Worked, Begin, Open, Loop, Guard, ResetCloses, Provision, Attach, Observe, Act, Detach,
        Forget, Propose, Raise, Finish, GiveUp, Heartbeat, LeaseLost, Stopped, tables
<1>2. ASSUME NEW p \in Process, Retired(p) PROVE OpsMove
  <2>1. CASE UNCHANGED ops
    BY <2>1, MovesSame
  <2>2. CASE Commit(p)
    BY Zenon, <2>1, <2>2, MovesCommit DEF Commit
  <2> QED
    BY <1>2, <2>1, <2>2 DEF Retired, Retire, Clean, EndCampaign, EndEpisode, Wake, Died, tables
<1>3. ASSUME NEW s \in Session, Served(s) PROVE OpsMove
  <2>1. CASE UNCHANGED ops
    BY <2>1, MovesSame
  <2>2. ASSUME NEW kind \in {"reset", "step", "close", "cancel"}, Submit(s, kind) PROVE OpsMove
    <3> DEFINE o == NewOp(s, kind, IF Ended(s) THEN "completed" ELSE "pending")
    <3>1. o \in Op /\ o.status \in {"completed", "pending"}
      BY Zenon, NewOpTypes DEF NewOp, SessionInv, Types
    <3>2. ops' = [ops EXCEPT ![s] = Append(@, o)]
      BY <2>2 DEF Submit, Ended
    <3> HIDE DEF o
    <3> QED
      BY <3>1, <3>2, MovesAppend
  <2> QED
    BY <1>3, <2>1, <2>2
    DEF Served, CreateSession, ClientHeartbeat, CancelCampaign, Expire, Maintain, TimePasses, Claim, tables
<1> QED
  BY <1>1, <1>2, <1>3, StepCases
\* A run asks and is answered for its own session.
Asking == {"step", "act", "choose", "propose"}

AskKept(s) == s \in unanswered' <=> s \in unanswered

LEMMA WorkPays ==
  ASSUME SessionInv, NEW w \in Worker, Worked(w)
  PROVE  /\ pc[w] \notin Asking => UNCHANGED unanswered
         /\ pc[w] \in Asking => \A s \in Session \ {on[w]} : AskKept(s)
BY AskedStep DEF AskKept, Asking

LEMMA OthersPayNothing ==
  ASSUME SessionInv
  PROVE  /\ \A p \in Process : Retired(p) => UNCHANGED unanswered
         /\ \A s \in Session : Served(s) => UNCHANGED unanswered
<1>1. ASSUME NEW p \in Process, Retired(p) PROVE UNCHANGED unanswered
  BY Zenon, <1>1
  DEF Retired, Retire, Clean, Commit, EndCampaign, EndEpisode, Wake, Died, tables, world, calls
<1>2. ASSUME NEW s \in Session, Served(s) PROVE UNCHANGED unanswered
  BY <1>2 DEF Served, CreateSession, ClientHeartbeat, CancelCampaign, Expire, Maintain, Submit,
              TimePasses, Claim, tables, world, calls
<1> QED
  BY <1>1, <1>2

\* Whose session a step asks for.
LEMMA PayerStep ==
  ASSUME SessionInv, Next, NEW s \in Session
  PROVE  \/ AskKept(s)
         \/ \E w \in Worker : Worked(w) /\ on[w] = s /\ pc[w] \in Asking
<1>1. ASSUME NEW w \in Worker, Worked(w)
      PROVE  AskKept(s) \/ (on[w] = s /\ pc[w] \in Asking)
  BY <1>1, WorkPays DEF AskKept
<1>2. UNCHANGED unanswered => AskKept(s)
  BY DEF AskKept
<1> QED
  BY <1>1, <1>2, StepCases, OthersPayNothing

LEMMA Balance ==
  ASSUME SessionInv, NEW w \in Worker, pc[w] \in Running \ {"act", "propose"}
  PROVE  on[w] \notin unanswered
BY DEF SessionInv, Calls

\* Who asks has claimed.
LEMMA AskerClaimed ==
  ASSUME SessionInv, NEW w \in Worker, pc[w] \in Asking
  PROVE  on[w] \in Session /\ job[on[w]].attempts > 0
<1>1. w \in Process /\ on[w] \in Session /\ pc[w] # "idle" /\ pc[w] \in Running
  BY OnSession, KeeperIsNoWorker DEF Asking, Running, WithCommand
<1>2. 1 <= fence[w] /\ fence[w] <= job[on[w]].attempts
  BY <1>1 DEF SessionInv, Leases, Works
<1>3. fence[w] \in Nat /\ job[on[w]].attempts \in Nat
  BY <1>1 DEF SessionInv, Types, Tables, Memory
<1> QED
  BY <1>1, <1>2, <1>3

\* A run that goes on has its answer.
LEMMA PaidUp ==
  ASSUME SessionInv, NEW w \in Worker, Worked(w), pc'[w] \in Running \ {"act", "propose"}
  PROVE  on'[w] \notin unanswered'
<1>0. w \in Process /\ Memory
  BY KeeperIsNoWorker DEF SessionInv, Types
<1>1. CASE pc[w] \in Running \ {"act", "propose"} /\ on'[w] = on[w] /\ UNCHANGED unanswered
  BY <1>1, Balance
<1>2. CASE Begin(w)
  <2>1. on[w] \in Session /\ pc[w] = "begin" /\ pc[w] # "idle"
    BY <1>0, <1>2, OnSession DEF Begin
  <2>2. UNCHANGED <<unanswered, on>>
    BY <1>2 DEF Begin, world, calls, Raises, Stays
  <2>3. fence[w] \in Nat /\ 1 <= fence[w]
    BY <1>0, <2>1 DEF SessionInv, Leases, Works, Memory
  <2>4. fence[w] <= 1
    BY <1>0, <1>2, <2>1, BeginRow DEF SessionInv, Types, Memory, Running, WithCommand
  <2>5. fence[w] = 1
    BY <2>3, <2>4
  <2>6. on[w] \notin unanswered
    BY <2>1, <2>5 DEF SessionInv, Calls
  <2> QED
    BY <2>2, <2>6
<1>3. CASE Act(w) \/ Propose(w)
  <2>1. pc'[w] # "retire"
    BY DEF Running, WithCommand
  <2>2. ~ Raises(w)
    BY <1>0, <2>1, RaisesStill
  <2>3. unanswered' = unanswered \ {on[w]} /\ UNCHANGED on
    BY <1>3, <2>2 DEF Act, Propose, ProposalRecorded, Stays
  <2> QED
    BY <2>3
<1>4. CASE Step(w) \/ Choose(w)
  <2>1. pc[w] \in Running \ {"act", "propose"}
    BY <1>4 DEF Step, Choose, Running, WithCommand
  <2>2. on'[w] = on[w]
    BY <1>4 DEF Step, Choose, Complete, Raises, Stays, Internal, Completes
  <2>3. ~ Goto(w, "act") /\ ~ Goto(w, "propose") /\ ~ Raises(w)
    BY <1>0, RaisesStill DEF Goto, Memory, Running, WithCommand
  <2>4. UNCHANGED unanswered
    BY <1>4, <2>3 DEF Step, Choose, calls
  <2> QED
    BY <1>1, <2>1, <2>2, <2>4
<1>5. CASE Stopped(w) \/ LeaseLost(w) \/ Raise(w) \/ Finish(w)
  <2>1. pc'[w] \in {"retire", "idle"}
    BY <1>0, <1>5, RaisesStill, IdleStill, RetiresStill DEF Stopped, LeaseLost, Raise, Finish
  <2> QED
    BY <2>1 DEF Running, WithCommand
<1>6. CASE GiveUp(w) \/ Heartbeat(w)
  <2>1. UNCHANGED <<unanswered, pc, on>>
    BY <1>6 DEF GiveUp, Heartbeat, world, calls, memory
  <2> QED
    BY <1>1, <2>1
<1>7. CASE Observe(w) \/ Loop(w) \/ Guard(w)
  <2>1. UNCHANGED <<unanswered, on>> /\ pc[w] \in Running \ {"act", "propose"}
    BY SMTT(30), <1>7 DEF Observe, Loop, Guard, tables, world, calls, Raises, Stays, Running, WithCommand
  <2> QED
    BY <1>1, <2>1
<1>8. CASE \/ Open(w) \/ ClaimCommand(w) \/ ResetCloses(w) \/ Provision(w) \/ Attach(w)
           \/ Detach(w) \/ Forget(w)
  <2>1. UNCHANGED <<unanswered, on>> /\ pc[w] \in Running \ {"act", "propose"}
    BY SMTT(30), <1>8 DEF Open, ClaimCommand, ResetCloses, Provision, Attach, Detach, Forget,
                tables, world, calls, Raises, Stays, Running, WithCommand
  <2> QED
    BY <1>1, <2>1
<1>9. CASE ResetAdmits(w) \/ Observed(w) \/ Answer(w)
  <2>1. UNCHANGED <<unanswered, on>> /\ pc[w] \in Running \ {"act", "propose"}
    BY <1>9 DEF ResetAdmits, Observed, Answer, Complete, world, calls, Raises, Stays, Running, WithCommand
  <2> QED
    BY <1>1, <2>1
<1>10. CASE Proposed(w)
  <2>1. UNCHANGED <<unanswered, on>> /\ pc[w] \in Running \ {"act", "propose"}
    BY <1>10 DEF Proposed, Completes, Internal, world, calls, Raises, Running, WithCommand
  <2> QED
    BY <1>1, <2>1
<1> QED
  BY <1>2, <1>3, <1>4, <1>5, <1>6, <1>7, <1>8, <1>9, <1>10 DEF Worked

\* A run begins by a claim and goes on by its worker's own steps.
LEMMA RetiringLeaves ==
  ASSUME SessionInv, NEW p \in Process, Retired(p)
  PROVE  pc'[p] \notin Running /\ pc'[p] # "begin"
<1>0. Memory
  BY DEF SessionInv, Types
<1>1. pc'[p] \in {"idle", "finish", "clean", "commit", "campaign", "episode", "wake", "raise"}
  <2>1. CASE Leave(p)
    BY <1>0, <2>1, LeaveStill
  <2>2. CASE Idle(p)
    BY <1>0, <2>2, IdleStill
  <2>3. CASE \E place \in {"clean", "commit", "campaign", "episode", "wake", "raise"} : Goto(p, place)
    BY <1>0, <2>3 DEF Memory, Goto
  <2> QED
    BY Zenon, <2>1, <2>2, <2>3 DEF Retired, Retire, Clean, Commit, EndCampaign, EndEpisode, Wake, Died
<1> QED
  BY <1>1 DEF Running, WithCommand

LEMMA StaysOrWorks ==
  ASSUME SessionInv, Next, NEW w \in Worker, pc'[w] \in Running \cup {"begin"}, ~ Worked(w)
  PROVE  \/ pc'[w] = pc[w] /\ on'[w] = on[w] /\ fence'[w] = fence[w]
         \/ pc'[w] = "begin" /\ \E s \in Session : Claim(w, s)
<1>0. w \in Process /\ w # Keeper
  BY KeeperIsNoWorker
<1>1. ASSUME NEW v \in Worker, Worked(v)
      PROVE  pc'[w] = pc[w] /\ on'[w] = on[w] /\ fence'[w] = fence[w]
  BY <1>0, <1>1, WorkStill DEF Still
<1>2. ASSUME NEW p \in Process, Retired(p)
      PROVE  pc'[w] = pc[w] /\ on'[w] = on[w] /\ fence'[w] = fence[w]
  BY <1>0, <1>2, RetiringStill, RetiringLeaves DEF Still
<1>3. ASSUME NEW s \in Session, Served(s)
      PROVE  \/ pc'[w] = pc[w] /\ on'[w] = on[w] /\ fence'[w] = fence[w]
             \/ pc'[w] = "begin" /\ Claim(w, s)
  BY <1>0, <1>3, ServingStill DEF Still, memory
<1> QED
  BY <1>1, <1>2, <1>3, StepCases

LEMMA BeginsUnpaid ==
  ASSUME SessionInv, Next, NEW w \in Worker, pc'[w] = "begin", fence'[w] = 1
  PROVE  on'[w] \notin unanswered'
<1>0. w \in Process /\ Memory
  BY KeeperIsNoWorker DEF SessionInv, Types
<1>1. ASSUME NEW s \in Session, Claim(w, s) PROVE on'[w] \notin unanswered'
  <2>1. on'[w] = s /\ fence'[w] = job[s].attempts + 1 /\ UNCHANGED unanswered
    BY <1>0, <1>1 DEF Claim, Memory, world, calls
  <2>2. job[s].attempts = 0
    BY <2>1 DEF SessionInv, Types, Tables
  <2> QED
    BY <2>1, <2>2 DEF SessionInv, Calls
<1>2. ASSUME pc[w] = "begin", on'[w] = on[w], fence'[w] = fence[w] PROVE on'[w] \notin unanswered'
  <2>1. on[w] \in Session /\ on[w] \notin unanswered /\ Works(w, on[w])
    BY <1>0, <1>2, OnSession DEF SessionInv, Calls, Works
  <2>2. ASSUME NEW v \in Worker, on[v] = on[w], pc[v] \in Asking PROVE FALSE
    <3>1. pc[v] \in Running /\ pc[v] # "begin" /\ Works(v, on[w])
      BY <2>2 DEF Asking, Running, WithCommand, Works
    <3>2. fence[v] = 1
      BY <3>1 DEF SessionInv, Runs1
    <3>3. v # w
      BY <1>2, <3>1
    <3> QED
      BY <1>2, <2>1, <3>1, <3>2, <3>3 DEF SessionInv, Leases
  <2>3. AskKept(on[w])
    BY <2>1, <2>2, PayerStep
  <2> QED
    BY <1>2, <2>1, <2>3 DEF AskKept
<1>3. CASE Worked(w)
  <2>1. CASE Begin(w)
    <3>1. on[w] \in Session
      BY <1>0, <2>1, OnSession DEF Begin
    <3>2. pc'[w] \in {"finish", "retire", "open"}
      BY <1>0, <2>1, <3>1, BeginRow DEF SessionInv, Types, Memory
    <3> QED
      BY <3>2
  <2>2. CASE ~ Begin(w)
    <3>1. pc[w] = "begin" /\ on'[w] = on[w] /\ fence'[w] = fence[w]
      BY <1>0, <1>3, <2>2, WorkKept DEF RunsKept
    <3> QED
      BY <1>2, <3>1
  <2> QED
    BY <2>1, <2>2
<1>4. CASE ~ Worked(w)
  BY <1>1, <1>2, <1>4, StaysOrWorks
<1> QED
  BY <1>3, <1>4

LEMMA BalanceStep ==
  ASSUME SessionInv, Next, NEW w \in Worker, pc'[w] \in Running \ {"act", "propose"}
  PROVE  on'[w] \notin unanswered'
<1>1. CASE Worked(w)
  BY <1>1, PaidUp
<1>2. CASE ~ Worked(w)
  <2>1. pc'[w] # "begin"
    BY DEF Running, WithCommand
  <2>2. pc'[w] = pc[w] /\ on'[w] = on[w]
    BY <1>2, <2>1, StaysOrWorks
  <2>3. on[w] \in Session
    BY <2>2, OnSession, KeeperIsNoWorker DEF Running, WithCommand
  <2>4. ASSUME NEW v \in Worker, Worked(v), on[v] = on[w], pc[v] \in Asking PROVE FALSE
    BY <1>2, <2>2, <2>4, RunsAlone DEF Asking, Running, WithCommand
  <2>5. AskKept(on[w])
    BY <2>3, <2>4, PayerStep
  <2> QED
    BY <2>2, <2>5, Balance DEF AskKept
<1> QED
  BY <1>1, <1>2

\* Doubt about a session's calls is lifted only by recording them.
Doubt(s) ==
  \E i \in DOMAIN ops[s] : ops[s][i].status \in Uncertainties /\ ops[s][i].kind \notin Stoppers

LEMMA DoubtStays ==
  ASSUME SessionInv, Next, NEW s \in Session, Doubt(s)
  PROVE  Doubt(s)' \/ Completing(s)
<1>1. PICK i \in DOMAIN ops[s] : ops[s][i].status \in Uncertainties /\ ops[s][i].kind \notin Stoppers
  BY DEF Doubt
<1>2. Moves(s, i)
  BY OpsMoveStep DEF OpsMove
<1>3. i \in DOMAIN ops'[s] /\ ops'[s][i].kind \notin Stoppers
  BY <1>1, <1>2 DEF Moves
<1>4. CASE ops'[s][i].status \in Uncertainties
  BY <1>3, <1>4 DEF Doubt
<1>5. CASE Completing(s)
  BY <1>5
<1>6. CASE ops'[s][i] = EndedOp(ops[s][i])
  <2>1. ops[s][i] \in Op
    BY LenProperties, ElementOfSeq DEF SessionInv, Types, Tables
  <2>2. ops'[s][i].status \in Uncertainties
    BY <1>1, <1>6, <2>1 DEF EndedOp, Op, Uncertainties, Stoppers
  <2> QED
    BY <1>4, <2>2
<1> QED
  BY <1>1, <1>2, <1>4, <1>5, <1>6 DEF Moves, Uncertainties

LEMMA InHandDoubt ==
  ASSUME SessionInv, NEW w \in Worker, pc[w] \in {"step", "act"}
  PROVE  on[w] \in Session /\ Doubt(on[w])
<1>1. pc[w] \in WithCommand /\ pc[w] # "guard"
  BY DEF WithCommand
<1> QED
  BY <1>1, InHand DEF OpInHand, Doubt

LEMMA AccountedStep ==
  ASSUME SessionInv, Next, NEW s \in Session \ Managed
  PROVE  Accounted(s)'
<1>1. SUFFICES ASSUME s \in unanswered' PROVE Doubt(s)'
  BY DEF Accounted, Doubt
<1>2. Doubt(s)
  <2>1. CASE AskKept(s)
    BY <1>1, <2>1 DEF AskKept, SessionInv, Calls, Accounted, Doubt
  <2>2. ASSUME NEW w \in Worker, on[w] = s, pc[w] \in Asking PROVE Doubt(s)
    BY <2>2, InHandDoubt DEF Asking, SessionInv, Places, Whereabouts
  <2> QED
    BY <2>1, <2>2, PayerStep
<1>3. ~ Completing(s)
  BY <1>1, Balance DEF Completing, Running, WithCommand
<1> QED
  BY <1>2, <1>3, DoubtStays

LEMMA CallsStep ==
  ASSUME SessionInv, Next
  PROVE  Calls'
<1>1. ASSUME NEW s \in Session, job'[s].attempts = 0 PROVE s \notin unanswered'
  <2>1. job[s].attempts \in Nat /\ job'[s].attempts >= job[s].attempts
    BY AttemptsGrow DEF SessionInv, Types, Tables
  <2>2. job[s].attempts = 0
    BY <1>1, <2>1
  <2>3. ASSUME NEW w \in Worker, on[w] = s, pc[w] \in Asking PROVE FALSE
    BY <2>2, <2>3, AskerClaimed
  <2>4. AskKept(s)
    BY <2>3, PayerStep
  <2> QED
    BY <2>2, <2>4 DEF AskKept, SessionInv, Calls
<1>2. \A w \in Worker : pc'[w] = "begin" /\ fence'[w] = 1 => on'[w] \notin unanswered'
  BY BeginsUnpaid
<1>3. \A w \in Worker : pc'[w] \in Running \ {"act", "propose"} => on'[w] \notin unanswered'
  BY BalanceStep
<1>4. \A s \in Session \ Managed : Accounted(s)'
  BY AccountedStep
<1> QED
  BY <1>1, <1>2, <1>3, <1>4 DEF Calls
\* Sessions come into being by CreateSession alone.
LEMMA OnlyCreatedChange ==
  ASSUME SessionInv, Next, NEW s \in Session, s \notin Created
  PROVE  session'[s] = session[s] \/ CreateSession(s)
<1>0. (\A p \in Process : pc[p] # "idle" => on[p] \in Created) /\ session \in [Session -> Row]
  BY SMTT(30) DEF SessionInv, Places, Types, Tables
<1>1. ASSUME NEW w \in Worker, Worked(w) PROVE session'[s] = session[s]
  <2>1. CASE UNCHANGED session
    BY <2>1
  <2>2. CASE Begin(w) \/ Attach(w) \/ Forget(w)
    <3>1. on[w] # s
      BY <1>0, <2>2, KeeperIsNoWorker DEF Begin, Attach, Forget
    <3> QED
      BY <1>0, <2>2, <3>1 DEF Begin, Attach, Forget
  <2>3. CASE ResetAdmits(w) \/ Observed(w) \/ Answer(w) \/ Step(w)
    <3>1. on[w] # s
      BY <1>0, <2>3, KeeperIsNoWorker DEF ResetAdmits, Observed, Answer, Step
    <3>2. UNCHANGED session \/ \E status, state, step, place : Complete(w, status, state, step, place)
      BY SMTT(30), <2>3 DEF ResetAdmits, Observed, Answer, Step
    <3> QED
      BY <1>0, <3>1, <3>2 DEF Complete
  <2> QED
    BY <1>1, <2>1, <2>2, <2>3
    DEF Worked, Open, Loop, ClaimCommand, Guard, ResetCloses, Provision, Observe, Act, Detach,
        Choose, Propose, Proposed, Raise, Finish, GiveUp, Heartbeat, LeaseLost, Stopped, tables
<1>2. ASSUME NEW p \in Process, Retired(p) PROVE session'[s] = session[s]
  <2>1. CASE Commit(p)
    <3>1. on[p] # s
      BY <1>0, <2>1 DEF Commit
    <3> QED
      BY <1>0, <2>1, <3>1 DEF Commit
  <2> QED
    BY <1>2, <2>1 DEF Retired, Retire, Clean, EndCampaign, EndEpisode, Wake, Died, tables
<1>3. ASSUME NEW r \in Session, Served(r) PROVE session'[s] = session[s] \/ CreateSession(s)
  <2>1. CASE CreateSession(r)
    BY <1>0, <2>1 DEF CreateSession
  <2>2. ASSUME NEW kind \in {"reset", "step", "close", "cancel"}, Submit(r, kind)
        PROVE  session'[s] = session[s]
    BY <1>0, <2>2 DEF Submit
  <2> QED
    BY <1>3, <2>1, <2>2
    DEF Served, ClientHeartbeat, CancelCampaign, Expire, Maintain, TimePasses, Claim, tables
<1> QED
  BY <1>1, <1>2, <1>3, StepCases

LEMMA CreatedStay ==
  ASSUME SessionInv, Next
  PROVE  Created \subseteq Created'
<1>1. CASE FencesKept
  BY <1>1 DEF FencesKept, Created
<1>2. ASSUME NEW w \in Worker, Begin(w) PROVE Created \subseteq Created'
  <2>1. on[w] \in Session
    BY <1>2, OnSession, KeeperIsNoWorker DEF Begin
  <2>2. /\ \A s \in Session \ {on[w]} : session'[s] = session[s]
        /\ UNCHANGED session \/ session'[on[w]].state = "ready"
    BY <1>2, <2>1, BeginRow DEF SessionInv, Types
  <2> QED
    BY <2>2 DEF Created
<1>3. CASE UNCHANGED session
  BY <1>3 DEF Created
<1> QED
  BY <1>1, <1>2, <1>3, StepKept DEF Maintain, Claim, tables

LEMMA Creates ==
  ASSUME SessionInv, NEW s \in Session, CreateSession(s)
  PROVE  s \notin Created /\ Created' = Created \cup {s} /\ UNCHANGED pc
<1>1. /\ s \notin Created /\ session'[s].state = "queued" /\ UNCHANGED pc
      /\ \A r \in Session \ {s} : session'[r] = session[r]
  BY DEF CreateSession, Created, SessionInv, Types, Tables, Row
<1> QED
  BY <1>1 DEF Created

LEMMA CreatedStep ==
  ASSUME SessionInv, Next, ~ \E s \in Session : CreateSession(s)
  PROVE  Created' = Created
BY CreatedStay, OnlyCreatedChange DEF Created

\* Excess.
LEMMA ExcessTypes ==
  ASSUME SessionInv, NEW s \in Session
  PROVE  Excess[s] \in Nat
BY Numbers DEF Excess, SessionInv, Types, Money

LEMMA ExcessThen ==
  ASSUME SessionInv, Next, NEW s \in Session
  PROVE  Excess'[s] \in Nat /\ Excess[s] <= Excess'[s]
<1>1. /\ used[s] \in Nat /\ used'[s] \in Nat /\ used'[s] >= used[s] /\ Cost \in Nat
  BY UsageStep, Numbers DEF Grows, SessionInv, Types, Money
<1>2. /\ Excess[s] = (IF used[s] > Cost THEN used[s] - Cost ELSE 0)
      /\ Excess'[s] = (IF used'[s] > Cost THEN used'[s] - Cost ELSE 0)
  BY DEF Excess
<1> QED
  BY <1>1, <1>2

\* A charge is at most what was reserved and what was used in excess.
LEMMA ChargeWithin ==
  ASSUME SessionInv, Next, NEW p \in Process, Commit(p), Committed(p)
  PROVE  /\ Charged(on[p], EndState(p)) \in Nat
         /\ Charged(on[p], EndState(p)) <= Cost + Excess'[on[p]]
<1>1. PICK s \in Session : s = on[p]
  BY CommitRow
<1>2. used' = used /\ used[s] \in Nat /\ Cost \in Nat
  BY Numbers DEF Commit, SessionInv, Types, Money
<1>3. Charged(s, EndState(p)) \in {Cost, used[s]}
  BY DEF Charged
<1>4. Excess'[s] = (IF used'[s] > Cost THEN used'[s] - Cost ELSE 0)
  BY DEF Excess
<1>5. Charged(s, EndState(p)) \in Nat /\ Charged(s, EndState(p)) <= Cost + Excess'[s]
  BY <1>2, <1>3, <1>4
<1> QED
  BY <1>1, <1>5
\* Who writes the owner's account.
LEMMA OwnerStep ==
  ASSUME SessionInv, Next
  PROVE  \/ UNCHANGED owner /\ Created' = Created
         \/ \E s \in Session \ Created : CreateSession(s) /\ Created' = Created \cup {s}
         \/ \E p \in Process : Commit(p) /\ Committed(p) /\ Created' = Created
<1>1. ASSUME NEW w \in Worker, Worked(w) PROVE UNCHANGED owner
  BY Zenon, <1>1
  DEF Worked, Begin, Open, Loop, ClaimCommand, Guard, ResetCloses, ResetAdmits, Provision, Attach,
      Observe, Observed, Step, Act, Answer, Detach, Forget, Choose, Propose, Proposed, Raise, Finish,
      GiveUp, Heartbeat, LeaseLost, Stopped, tables
<1>2. ASSUME NEW p \in Process, Retired(p)
      PROVE  UNCHANGED owner \/ (Commit(p) /\ Committed(p))
  BY Zenon, <1>2 DEF Retired, Retire, Clean, Commit, EndCampaign, EndEpisode, Wake, Died, tables
<1>3. ASSUME NEW s \in Session, Served(s)
      PROVE  UNCHANGED owner \/ CreateSession(s)
  BY <1>3 DEF Served, ClientHeartbeat, CancelCampaign, Expire, Maintain, Submit, TimePasses, Claim, tables
<1>4. ASSUME NEW p \in Process, Commit(p), NEW s \in Session, CreateSession(s) PROVE FALSE
  <2>1. pc' # pc
    BY <1>4 DEF Commit, Goto, Leave, Idle, SessionInv, Types, Memory
  <2> QED
    BY <1>4, <2>1, Creates
<1>5. \/ UNCHANGED owner
      \/ \E s \in Session : CreateSession(s)
      \/ \E p \in Process : Commit(p) /\ Committed(p)
  BY <1>1, <1>2, <1>3, StepCases
<1>6. CASE \E s \in Session : CreateSession(s)
  BY <1>6, Creates
<1>7. CASE ~ \E s \in Session : CreateSession(s)
  BY <1>5, <1>7, CreatedStep
<1> QED
  BY <1>6, <1>7

\* What the accounts say when sessions only go on, when one is created, and when
\* one is released.
LEMMA ReleasedTypes ==
  ASSUME SessionInv
  PROVE  /\ Released \subseteq Created /\ IsFiniteSet(Released) /\ IsFiniteSet(Created)
         /\ Unreleased = Created \ Released /\ IsFiniteSet(Unreleased)
         /\ \A s \in Session : s \in Released <=> Ended(s)
<1>1. \A s \in Session : s \in Released <=> Ended(s)
  BY DEF SessionInv, Accounts, Released
<1>2. Released \subseteq Created
  BY <1>1 DEF Ended, Terminal, Created, Released
<1>3. IsFiniteSet(Created)
  BY DEF SessionInv, Accounts
<1>4. Unreleased = Created \ Released
  BY DEF Unreleased, Released, Created
<1>5. IsFiniteSet(Released) /\ IsFiniteSet(Unreleased)
  BY <1>2, <1>3, <1>4, FS_Subset
<1> QED
  BY <1>1, <1>2, <1>3, <1>4, <1>5

LEMMA ExcessSums ==
  ASSUME SessionInv, Next
  PROVE  /\ SumFunctionOnSet(Excess', Released) \in Nat
         /\ SumFunctionOnSet(Excess, Released) <= SumFunctionOnSet(Excess', Released)
<1> DEFINE Same == [s \in Session |-> s]
           before == Excess
           after == Excess'
<1>1. /\ IsFiniteSet(Released) /\ Released \subseteq Session
      /\ \A s \in Released : /\ before[s] \in Nat /\ after[s] \in Nat /\ before[s] <= after[s]
                            /\ Same[s] = s
  BY ReleasedTypes, ExcessTypes, ExcessThen DEF Released
<1>2. /\ \A x \in Released : Same[x] \in Released /\ before[x] \in Nat /\ before[x] <= after[Same[x]]
      /\ \A x, y \in Released : Same[x] = Same[y] => x = y
      /\ \A x \in Released : after[x] \in Nat
  BY <1>1
<1> HIDE DEF Same, before, after
<1>3. SumFunctionOnSet(before, Released) <= SumFunctionOnSet(after, Released)
  BY <1>1, <1>2, SumInjection
<1>4. SumFunctionOnSet(after, Released) \in Nat
  BY <1>1, <1>2, SumType
<1> QED
  BY <1>3, <1>4 DEF before, after

LEMMA RowsReleased ==
  ASSUME SessionInv, Next, Rows
  PROVE  /\ Released' = Released
         /\ \A s \in Session : session'[s].released <=> Ended(s)'
         /\ SumFunctionOnSet(Excess', Released) \in Nat
         /\ SumFunctionOnSet(Excess, Released) <= SumFunctionOnSet(Excess', Released)
         /\ Unreleased' = Created' \ Released
<1>1. Released' = Released
  BY DEF Rows, RowStays, Released
<1>2. \A s \in Session : session'[s].released <=> Ended(s)'
  BY DEF Rows, RowStays, SessionInv, Accounts
<1>4. /\ SumFunctionOnSet(Excess', Released) \in Nat
      /\ SumFunctionOnSet(Excess, Released) <= SumFunctionOnSet(Excess', Released)
  BY ExcessSums
<1>5. Unreleased' = Created' \ Released
  BY <1>1 DEF Unreleased, Released, Created
<1> QED
  BY <1>1, <1>2, <1>4, <1>5

LEMMA SpentIs ==
  ASSUME SessionInv
  PROVE  /\ owner.spent \in Nat /\ owner.reserved \in Int /\ Cost \in Nat /\ CostLimit \in Nat
         /\ Cardinality(Unreleased) \in Nat
         /\ SumFunctionOnSet(Excess, Released) \in Nat
         /\ owner.reserved = Cost * Cardinality(Unreleased)
         /\ owner.spent + owner.reserved <= CostLimit + SumFunctionOnSet(Excess, Released)
<1>1. SumFunctionOnSet(Excess, Released) \in Nat
  BY ReleasedTypes, ExcessTypes, SumType DEF Released
<1> QED
  BY <1>1, Numbers, ReleasedTypes, FS_CardinalityType
  DEF SessionInv, Accounts, ReservationsAddUp, Types, Money

LEMMA Distribute == ASSUME NEW m \in Nat, NEW n \in Int PROVE m * (n + 1) = m * n + m
OBVIOUS

LEMMA CreatesAccounts ==
  ASSUME SessionInv, Next, Rows, NEW s \in Session \ Created, CreateSession(s),
         Created' = Created \cup {s}
  PROVE  Accounts'
<1>1. IsFiniteSet(Created')
  BY ReleasedTypes, FS_AddElement
<1>2. s \notin Unreleased /\ s \notin Released /\ Unreleased' = Unreleased \cup {s}
  BY ReleasedTypes, RowsReleased
<1>3. Cardinality(Unreleased') = Cardinality(Unreleased) + 1
  BY <1>2, ReleasedTypes, FS_AddElement
<1>4. owner'.reserved = owner.reserved + Cost /\ owner'.spent = owner.spent
  BY DEF CreateSession, SessionInv, Types, Money
<1>5. owner.spent + owner.reserved + Cost <= CostLimit
  BY DEF CreateSession, WithinQuota
<1> DEFINE n == Cardinality(Unreleased)
<1>6. n \in Nat /\ owner.reserved = Cost * n /\ Cardinality(Unreleased') = n + 1
  BY <1>3, SpentIs
<1> HIDE DEF n
<1>7. owner'.reserved = Cost * (n + 1)
  BY <1>4, <1>6, SpentIs, Distribute
<1>8. owner'.spent + owner'.reserved <= CostLimit + SumFunctionOnSet(Excess', Released')
  <2> DEFINE after == SumFunctionOnSet(Excess', Released')
  <2>1. after \in Nat
    BY RowsReleased
  <2> HIDE DEF after
  <2>2. owner'.spent + owner'.reserved <= CostLimit + after
    BY <1>4, <1>5, <2>1, SpentIs
  <2> QED
    BY <2>2 DEF after
<1>9. ReservationsAddUp'
  BY <1>6, <1>7, <1>8 DEF ReservationsAddUp
<1> QED
  BY <1>1, <1>9, RowsReleased DEF Accounts

LEMMA KeepsAccounts ==
  ASSUME SessionInv, Next, Rows, UNCHANGED owner, Created' = Created
  PROVE  Accounts'
<1>1. Unreleased' = Unreleased
  BY ReleasedTypes, RowsReleased
<1>2. owner'.spent + owner'.reserved <= CostLimit + SumFunctionOnSet(Excess', Released')
  <2> DEFINE before == SumFunctionOnSet(Excess, Released)
             after == SumFunctionOnSet(Excess', Released')
  <2>1. before \in Nat /\ after \in Nat /\ before <= after
    BY RowsReleased, SpentIs
  <2>2. owner.spent + owner.reserved <= CostLimit + before
    BY SpentIs
  <2> HIDE DEF before, after
  <2>3. owner'.spent + owner'.reserved <= CostLimit + after
    BY <2>1, <2>2, SpentIs
  <2> QED
    BY <2>3 DEF after
<1>3. ReservationsAddUp'
  BY <1>1, <1>2, SpentIs DEF ReservationsAddUp
<1> QED
  BY <1>3, RowsReleased, ReleasedTypes DEF Accounts

LEMMA ReleasesAccounts ==
  ASSUME SessionInv, Next, NEW p \in Process, Commit(p), Committed(p), Created' = Created
  PROVE  Accounts'
<1>0. PICK s \in Session : s = on[p]
  BY CommitRow
<1>1. /\ ~ Ended(s) /\ \A r \in Session \ {s} : session'[r] = session[r]
      /\ session'[s].state \in Terminal /\ session'[s].released = TRUE
  BY <1>0, CommitRow
<1>2. s \in Created
  BY <1>0 DEF SessionInv, Places, Commit
<1>3. /\ s \notin Released /\ s \in Unreleased /\ Released' = Released \cup {s}
      /\ Unreleased' = Unreleased \ {s}
  <2>1. s \notin Released
    BY <1>1, ReleasedTypes
  <2>2. Released' = Released \cup {s}
    BY <1>1 DEF Released
  <2>3. Unreleased' = Created' \ Released'
    BY DEF Unreleased, Created, Released
  <2> QED
    BY <1>2, <2>1, <2>2, <2>3, ReleasedTypes
<1>4. \A r \in Session : session'[r].released <=> Ended(r)'
  BY <1>1 DEF Ended, SessionInv, Accounts
<1> DEFINE charge == Charged(s, EndState(p))
<1>6. charge \in Nat /\ charge <= Cost + Excess'[s] /\ Excess'[s] \in Nat
  BY <1>0, ChargeWithin, ExcessThen
<1>7. owner'.reserved = owner.reserved - Cost /\ owner'.spent = owner.spent + charge
  BY <1>0 DEF Commit
<1> HIDE DEF charge
<1>8. SumFunctionOnSet(Excess', Released') = SumFunctionOnSet(Excess', Released) + Excess'[s]
  <2>1. \A r \in Released \cup {s} : Excess'[r] \in Nat
    BY ExcessThen DEF Released
  <2> QED
    BY <1>3, <2>1, ReleasedTypes, SumAdd
<1>9. owner'.spent + owner'.reserved <= CostLimit + SumFunctionOnSet(Excess', Released')
  <2> DEFINE e == Excess'[s]
             start == SumFunctionOnSet(Excess, Released)
             before == SumFunctionOnSet(Excess', Released)
             after == SumFunctionOnSet(Excess', Released')
  <2>1. /\ e \in Nat /\ charge <= Cost + e /\ charge \in Nat
        /\ start \in Nat /\ before \in Nat /\ start <= before /\ after = before + e
        /\ owner.spent + owner.reserved <= CostLimit + start
    BY <1>6, <1>8, SpentIs, ExcessSums
  <2> HIDE DEF e, start, before, after
  <2>2. owner'.spent + owner'.reserved <= CostLimit + after
    BY <1>7, <2>1, SpentIs
  <2> QED
    BY <2>2 DEF after
<1>10. ReservationsAddUp'
  <2> DEFINE n == Cardinality(Unreleased')
  <2>1. n = Cardinality(Unreleased) - 1
    BY <1>3, ReleasedTypes, FS_RemoveElement
  <2>2. n \in Int /\ Cardinality(Unreleased) = n + 1
    <3> DEFINE m == Cardinality(Unreleased)
    <3>1. m \in Nat /\ n = m - 1
      BY <2>1, SpentIs
    <3> HIDE DEF m, n
    <3>2. n \in Int /\ m = n + 1
      BY <3>1
    <3> QED
      BY <3>2 DEF m
  <2> HIDE DEF n
  <2>3. owner.reserved = Cost * n + Cost
    BY <2>2, SpentIs, Distribute
  <2>4. Cost * n \in Int
    BY <2>2, SpentIs
  <2>5. owner'.reserved = Cost * n
    BY <1>7, <2>3, <2>4, SpentIs
  <2> QED
    BY <1>9, <2>5 DEF ReservationsAddUp, n
<1> QED
  BY <1>4, <1>10, ReleasedTypes DEF Accounts

LEMMA AccountsStep ==
  ASSUME SessionInv, Next
  PROVE  Accounts'
<1>1. CASE Rows
  BY <1>1, OwnerStep, CreatesAccounts, KeepsAccounts, ReleasesAccounts
<1>2. ASSUME NEW p \in Process, Commit(p), Committed(p) PROVE Accounts'
  <2>1. pc' # pc
    BY <1>2 DEF Commit, Goto, SessionInv, Types, Memory
  <2>2. Created' = Created
    BY <2>1, CreatedStep, Creates
  <2> QED
    BY <1>2, <2>2, ReleasesAccounts
<1> QED
  BY <1>1, <1>2, RowsStep
(***************************************************************************)
(* The invariant holds always.                                             *)
(***************************************************************************)
LEMMA InitTypes ==
  ASSUME Init
  PROVE  Types
<1>1. Tables
  <2>1. session \in [Session -> Row]
    BY DEF Init, NewSession, Row, State
  <2>2. ops \in [Session -> Seq(Op)]
    BY DEF Init
  <2>3. episodes \in [Session -> Seq([row : {"open", "verifying", "ended"},
                                       capsule : {"made", "attached", "gone"}])]
    BY DEF Init
  <2>4. job \in [Session -> [status : JobStatus, owner : Worker \cup {NoWorker},
                             expired : BOOLEAN, attempts : Nat]]
    BY DEF Init, JobStatus
  <2>5. campaign \in [Session -> CampaignStatus]
    BY DEF Init, CampaignStatus
  <2>6. cancelled \subseteq Session /\ woken \subseteq Session /\ overdue \in [Session -> {"no", "silent", "late"}] /\ crashes \in 0..MaxCrashes
    BY Numbers DEF Init
  <2> QED
    BY <2>1, <2>2, <2>3, <2>4, <2>5, <2>6 DEF Tables
<1>2. Money
  BY DEF Init, Money
<1>3. Memory
  BY DEF Init, Memory, Place, NoPlan, Plan, Terminal
<1> QED
  BY <1>1, <1>2, <1>3 DEF Types

LEMMA InitInv ==
  ASSUME Init
  PROVE  SessionInv
<1>1. /\ \A p \in Process : pc[p] = "idle" /\ env[p] = 0
      /\ \A s \in Session : /\ session[s].fence = 0 /\ session[s].state = "new"
                            /\ session[s].released = FALSE /\ job[s].attempts = 0
                            /\ ops[s] = << >> /\ episodes[s] = << >>
                            /\ used[s] = 0 /\ s \notin unanswered
      /\ owner.reserved = 0 /\ owner.spent = 0
  BY DEF Init, NewSession
<1>2. "idle" \notin Running /\ "idle" \notin WithCommand
  BY DEF Running, WithCommand
<1>3. Places
  BY <1>1, KeeperIsNoWorker DEF Places, Whereabouts, Keeping
<1>4. Leases
  BY <1>1, KeeperIsNoWorker DEF Leases, Works
<1>5. Runs1
  BY <1>1, <1>2, KeeperIsNoWorker DEF Runs1
<1>6. Commands
  BY <1>1, <1>2, KeeperIsNoWorker DEF Commands
<1>7. Capsules
  BY <1>1 DEF Capsules, Attached
<1>8. Calls
  BY <1>1, <1>2, KeeperIsNoWorker, Numbers DEF Calls, Accounted
<1>9. Accounts
  <2>1. Created = {} /\ Released = {} /\ Unreleased = {}
    BY <1>1 DEF Created, Released, Unreleased
  <2>2. IsFiniteSet(Created) /\ Cardinality(Unreleased) = 0
    BY <2>1, FS_EmptySet
  <2>3. SumFunctionOnSet(Excess, Released) = 0
    BY <2>1, SumEmpty
  <2>4. ReservationsAddUp
    BY <1>1, <2>2, <2>3, Numbers DEF ReservationsAddUp
  <2> QED
    BY <1>1, <2>2, <2>4 DEF Accounts, Ended, Terminal
<1> QED
  BY <1>3, <1>4, <1>5, <1>6, <1>7, <1>8, <1>9, InitTypes DEF SessionInv

LEMMA StutterInv ==
  ASSUME SessionInv, UNCHANGED vars
  PROVE  SessionInv'
<1> USE DEF vars, tables, world, calls, memory
<1>1. Types' /\ Places' /\ Runs1'
  BY DEF SessionInv, Types, Tables, Money, Memory, Places, Whereabouts, Runs1, Created, Ended, Fenced
<1>2. Leases'
  BY DEF SessionInv, Leases, Works
<1>3. Commands'
  BY DEF SessionInv, Commands, OpSound, OpInHand, Ended
<1>4. Capsules'
  BY DEF SessionInv, Capsules, CapsuleInHand, Attached, CapsuleToClean
<1>5. Calls'
  BY DEF SessionInv, Calls, Accounted
<1>6. Accounts'
  BY DEF SessionInv, Accounts, Created, Ended, Excess, Released, ReservationsAddUp, Unreleased
<1> QED
  BY <1>1, <1>2, <1>3, <1>4, <1>5, <1>6 DEF SessionInv

LEMMA SessionInvStep ==
  ASSUME SessionInv, [Next]_vars
  PROVE  SessionInv'
<1>1. CASE Next
  <2>1. Types'
    BY <1>1, TablesStep, MoneyStep, MemoryStep DEF Types
  <2> QED
    BY <1>1, <2>1, PlacesStep, LeasesStep, RunsStep, CommandsStep, CapsulesStep, CallsStep, AccountsStep
    DEF SessionInv
<1> QED
  BY <1>1, StutterInv

\* What the theorems below rest on, in every reachable state of every instance.
LEMMA SessionAlways == Spec => []SessionInv
<1>1. Init => SessionInv
  BY InitInv
<1>2. SessionInv /\ [Next]_vars => SessionInv'
  BY SessionInvStep
<1> QED
  BY <1>1, <1>2, PTL DEF Spec

\* Type correctness: rows, commands and places keep their form, and neither the owner's
\* reservation nor what is still to be collected ever becomes negative.
THEOREM SessionTypes == Spec => []TypeOK
<1>1. SessionInv => TypeOK
  <2> SUFFICES ASSUME SessionInv PROVE TypeOK
    OBVIOUS
  <2>1. owner \in [reserved : Nat, spent : Nat]
    <3> DEFINE n == Cardinality(Unreleased)
    <3>1. owner.reserved = Cost * n /\ n \in Nat /\ Cost \in Nat
      BY SpentIs
    <3> HIDE DEF n
    <3>2. owner.reserved \in Nat
      BY <3>1
    <3> QED
      BY <3>2 DEF SessionInv, Types, Money
  <2> QED
    BY <2>1 DEF TypeOK, SessionInv, Types, Tables, Money, Memory, Row
<1> QED
  BY <1>1, SessionAlways, PTL

\* No blind replay, whichever workers claim, lose and retire a session: the effect of
\* an operation is begun at most once, and never if the client is told it was
\* cancelled (claim_command, retire).
THEOREM EffectsNeverRepeat == Spec => []EffectsBeginOnce
<1>1. SessionInv => EffectsBeginOnce
  BY DEF SessionInv, Commands, OpSound, EffectsBeginOnce
<1> QED
  BY <1>1, SessionAlways, PTL

\* A session that is over has answered every command, and no capsule of it is attached
\* but the one still on record (retire, submit).
THEOREM EndedSessionsStayClean == Spec => []EndedSessionsAreClean
<1>1. SessionInv => EndedSessionsAreClean
  <2> SUFFICES ASSUME SessionInv, NEW s \in Session, session[s].state \in Terminal
               PROVE  /\ ~ InProgress(s)
                      /\ \A e \in DOMAIN episodes[s] :
                           episodes[s][e].capsule = "attached" => session[s].handle = e
    BY DEF EndedSessionsAreClean
  <2>1. ~ InProgress(s)
    BY DEF SessionInv, Commands, OpSound, Ended, InProgress
  <2>2. \A e \in DOMAIN episodes[s] : episodes[s][e].capsule = "attached" => session[s].handle = e
    BY DEF SessionInv, Capsules, Attached
  <2> QED
    BY <2>1, <2>2
<1> QED
  BY <1>1, SessionAlways, PTL

\* The owner's reservation is what the sessions not yet released reserved, and with what
\* was spent it passes the quota by what released sessions used beyond their own limit at
\* most (create_session, release).
THEOREM ReservationsAlwaysAddUp == Spec => []ReservationsAddUp
<1>1. SessionInv => ReservationsAddUp
  BY DEF SessionInv, Accounts
<1> QED
  BY <1>1, SessionAlways, PTL

\* A session without a registered attacker is charged all it reserved if it is released
\* while its running command has asked a model and has no answer (release).
THEOREM UncertainCallsAlwaysCharged == Spec => UncertainCallsAreCharged
<1>1. ASSUME SessionInv, [Next]_vars, NEW s \in unanswered \ Managed,
             ~ session[s].released, session'[s].released
      PROVE  owner'.spent - owner.spent >= Cost
  <2>1. s \in Session /\ ~ Ended(s)
    BY <1>1 DEF SessionInv, Types, Money, Accounts
  <2>2. CASE Rows
    BY <1>1, <2>1, <2>2 DEF Rows, RowStays
  <2>3. CASE UNCHANGED vars
    BY <1>1, <2>3 DEF vars, tables
  <2>4. ASSUME NEW p \in Process, Commit(p), Committed(p) PROVE owner'.spent - owner.spent >= Cost
    <3>1. on[p] = s
      BY <1>1, <2>1, <2>4, CommitRow
    <3>2. PICK i \in DOMAIN ops[s] : ops[s][i].status \in Uncertainties
      BY <1>1, <2>1 DEF SessionInv, Calls, Accounted
    <3>3. ops[s][i].status = "running"
      BY <1>1, <2>1, <3>2 DEF SessionInv, Commands, OpSound, Uncertainties
    <3>4. Charged(s, EndState(p)) = Cost
      BY <3>3 DEF Charged, Uncertain
    <3>5. owner'.spent = owner.spent + Cost
      BY <2>4, <3>1, <3>4 DEF Commit
    <3> QED
      BY <1>1, <3>5, Numbers DEF SessionInv, Types, Money
  <2> QED
    BY <1>1, <2>2, <2>3, <2>4, RowsStep
<1>2. SessionInv /\ [Next]_vars =>
        [\A s \in unanswered \ Managed :
           ~ session[s].released /\ session'[s].released => owner'.spent - owner.spent >= Cost]_vars
  BY <1>1
<1> QED
  BY <1>2, SessionAlways, PTL DEF Spec, UncertainCallsAreCharged

\* An answer the client was given stands, whoever retires the session meanwhile
\* (complete, retire).
THEOREM AnswersStand == Spec => AnswersAreFinal
<1>1. ASSUME SessionInv, [Next]_vars, NEW s \in Session, NEW i \in DOMAIN ops[s],
             ops[s][i].status \in Finished
      PROVE  ops'[s][i].status = ops[s][i].status
  <2>1. CASE Next
    <3>1. Moves(s, i)
      BY <1>1, <2>1, OpsMoveStep DEF OpsMove
    <3>2. EndedOp(ops[s][i]) = ops[s][i]
      BY <1>1 DEF EndedOp, Finished
    <3> QED
      BY <1>1, <3>1, <3>2 DEF Moves, Finished
  <2>2. CASE UNCHANGED vars
    BY <2>2 DEF vars, tables
  <2> QED
    BY <1>1, <2>1, <2>2
<1>2. SessionInv /\ [Next]_vars =>
        [\A s \in Session : \A i \in DOMAIN ops[s] :
           ops[s][i].status \in Finished => ops'[s][i].status = ops[s][i].status]_vars
  BY <1>1
<1> QED
  BY <1>2, SessionAlways, PTL DEF Spec, AnswersAreFinal

\* A session that is over stays as it ended, whoever still runs or retires it.
THEOREM SessionsEndOnce == Spec => EndsOnce
<1>1. ASSUME SessionInv, [Next]_vars, NEW s \in Session, session[s].state \in Terminal
      PROVE  session'[s].state = session[s].state
  <2>1. CASE Rows
    BY <1>1, <2>1 DEF Rows, RowStays, Ended
  <2>2. ASSUME NEW p \in Process, Commit(p), Committed(p) PROVE session'[s].state = session[s].state
    BY <1>1, <2>2, CommitRow DEF Ended
  <2>3. CASE UNCHANGED vars
    BY <2>3 DEF vars, tables
  <2> QED
    BY <1>1, <2>1, <2>2, <2>3, RowsStep
<1>2. SessionInv /\ [Next]_vars =>
        [\A s \in Session : session[s].state \in Terminal => session'[s].state = session[s].state]_vars
  BY <1>1
<1> QED
  BY <1>2, SessionAlways, PTL DEF Spec, EndsOnce
=============================================================================
