--------------------------- MODULE ResearchSession ---------------------------
(***************************************************************************)
(* Research sessions: the API records commands, the worker that leases the *)
(* session's job executes them in a live environment, and whatever goes    *)
(* wrong the session is retired, which answers every command, releases the *)
(* owner's reservation and destroys the capsule.                           *)
(*                                                                         *)
(* Transactions that take the owner's lock (lock_owner) are one step; so   *)
(* is claim_job, which locks the job row.  A worker's awaits lie between   *)
(* its steps: there its lease may move on, a guarded call may be stopped,  *)
(* and the process may die.  A finished fence check says nothing about the *)
(* step after it.                                                          *)
(*                                                                         *)
(* Simplifications: money is counted in units, a proposal being admitted   *)
(* with one; the request keys are left out (a repeated key changes         *)
(* nothing); a campaign's status change is one step, its race with the     *)
(* API's cancellation being the subject of CampaignRun; the retry delay of *)
(* a job is left out.                                                      *)
(***************************************************************************)
EXTENDS CampaignLifecycle, FiniteSets, FiniteSetsExt

CONSTANTS
  Session,           \* sessions a client may create
  Worker,            \* worker processes
  Keeper,            \* the maintenance task of a worker process
  NoWorker, NoSession,
  Managed,           \* the sessions driven by a registered attacker
  Evaluated,         \* the sessions an evaluation created
  Cost,              \* limits.max_cost
  CostLimit,         \* research_owner_cost_limit
  MaxSessions,       \* research_max_sessions_per_owner
  MaxEpisodes,       \* limits.max_episodes
  MaxAttempts,       \* worker_max_attempts
  MaxCommands,       \* bound: commands a client sends a session
  MaxOps,            \* bound: operations of a registered attacker
  Usage,             \* bound: what one proposal or step may turn out to cost
  MaxCrashes,        \* bound: processes that die
  Cancellable,       \* bound: sessions whose campaign the API cancels
  TimelyHeartbeats   \* assumption: a worker that is alive renews in time

ASSUME SessionConstants ==
  /\ NoWorker \notin Worker /\ Keeper \notin Worker /\ NoSession \notin Session
  /\ {Managed, Evaluated, Cancellable} \subseteq SUBSET Session
  /\ {Cost, CostLimit, MaxEpisodes, MaxCommands, MaxOps, MaxCrashes} \subseteq Nat
  /\ {MaxSessions, MaxAttempts} \subseteq Nat \ {0}
  /\ Usage \subseteq Nat
  /\ TimelyHeartbeats \in BOOLEAN

VARIABLES
  \* tables
  session,      \* research_sessions
  ops,          \* episode_commands of each session, oldest first
  job,          \* the work_leases row of each session
  campaign,     \* the status of each session's campaign
  cancelled,    \* the sessions with campaigns.cancellation_requested
  used,         \* campaigns.cost_used
  owner,        \* research_owners: reserved_cost and spent_cost
  episodes,     \* episodes of each session's campaign, with their capsules
  woken,        \* sessions whose evaluation was enqueued again
  \* the world
  overdue,      \* which of the session's time limits has passed
  flight,       \* what the target's model calls cost that are not collected yet
  unanswered,   \* sessions whose operation under way asked a model
  crashes,
  \* memory of the processes
  pc, on, fence, op, env, envStep, plan

tables == <<session, ops, job, campaign, cancelled, used, owner, episodes, woken>>
memory == <<on, fence, op, env, envStep, plan>>
calls == <<flight, unanswered>>
world == <<overdue, calls, crashes>>
vars == <<tables, world, pc, memory>>

Process == Worker \cup {Keeper}
-----------------------------------------------------------------------------
Terminal == {"closed", "cancelled", "expired", "interrupted", "completed"}
State == {"new", "queued", "ready", "active", "episode_done"} \cup Terminal
Finished == {"completed", "failed", "indeterminate", "cancelled"}

Op == [kind : {"reset", "step", "close", "cancel"},
       status : {"pending", "running"} \cup Finished,
       episode : Nat, index : Nat,   \* of a step: its episode, expected_step_index
       began : Nat]                  \* how often its effect was begun

Place == {"idle", "begin", "open", "loop", "claim", "guard", "reset", "provision",
          "attach", "observe", "observed", "step", "act", "answer", "detach",
          "forget", "choose", "propose", "proposed", "retire", "clean", "commit",
          "campaign", "episode", "wake", "raise", "finish"}

\* What retire was called with, what it read first, how its clean-up went,
\* and what happens once it has returned.
Plan == [state : Terminal, handle : Nat, episode : Nat, dirty : BOOLEAN,
         then : {"finish", "idle"}]
NoPlan == [state |-> "interrupted", handle |-> 0, episode |-> 0,
           dirty |-> FALSE, then |-> "finish"]

NewSession == [state |-> "new", fence |-> 0, worker |-> NoWorker, stop |-> "none",
               episode |-> 0, step |-> 0, handle |-> 0, released |-> FALSE]

TypeOK ==
  /\ session \in [Session -> [state : State, fence : Nat, worker : Worker \cup {NoWorker},
                              stop : {"none", "client_closed", "client_cancelled", "other"},
                              episode : Nat, step : Nat, handle : Nat, released : BOOLEAN]]
  /\ ops \in [Session -> Seq(Op)]
  /\ job \in [Session -> [status : JobStatus, owner : Worker \cup {NoWorker},
                          expired : BOOLEAN, attempts : Nat]]
  /\ campaign \in [Session -> CampaignStatus]
  /\ cancelled \subseteq Session
  /\ used \in [Session -> Nat]
  /\ owner \in [reserved : Nat, spent : Nat]
  /\ episodes \in [Session -> Seq([row : {"open", "verifying", "ended"},
                                   capsule : {"made", "attached", "gone"}])]
  /\ woken \subseteq Session
  /\ overdue \in [Session -> {"no", "silent", "late"}]
  /\ flight \in [Session -> Nat]
  /\ unanswered \subseteq Session
  /\ crashes \in 0..MaxCrashes
  /\ pc \in [Process -> Place]
  /\ on \in [Process -> Session \cup {NoSession}]
  /\ fence \in [Process -> Nat]
  /\ op \in [Process -> Nat]
  /\ env \in [Process -> Nat]
  /\ envStep \in [Process -> Nat]
  /\ plan \in [Process -> Plan]

Init ==
  /\ session = [s \in Session |-> NewSession]
  /\ ops = [s \in Session |-> << >>]
  /\ job = [s \in Session |-> [status |-> "PENDING", owner |-> NoWorker,
                               expired |-> FALSE, attempts |-> 0]]
  /\ campaign = [s \in Session |-> "CREATED"]
  /\ cancelled = {}
  /\ used = [s \in Session |-> 0]
  /\ owner = [reserved |-> 0, spent |-> 0]
  /\ episodes = [s \in Session |-> << >>]
  /\ woken = {}
  /\ overdue = [s \in Session |-> "no"]
  /\ flight = [s \in Session |-> 0]
  /\ unanswered = {}
  /\ crashes = 0
  /\ pc = [p \in Process |-> "idle"]
  /\ on = [p \in Process |-> NoSession]
  /\ fence = [p \in Process |-> 0]
  /\ op = [p \in Process |-> 0]
  /\ env = [p \in Process |-> 0]
  /\ envStep = [p \in Process |-> 0]
  /\ plan = [p \in Process |-> NoPlan]
-----------------------------------------------------------------------------
(* The API: create_session, submit and the heartbeat endpoint.             *)

Created == {s \in Session : session[s].state # "new"}
Live == {s \in Created : session[s].state \notin Terminal}

\* Variant: what other sessions reserved is not counted.
WithinQuotaSpent == owner.spent + Cost <= CostLimit

WithinQuota == owner.spent + owner.reserved + Cost <= CostLimit

CreateSession(s) ==
  /\ session[s].state = "new"
  /\ Cardinality(Live) < MaxSessions
  /\ WithinQuota
  /\ session' = [session EXCEPT ![s].state = "queued"]
  /\ owner' = [owner EXCEPT !.reserved = @ + Cost]
  /\ UNCHANGED <<ops, job, campaign, cancelled, used, episodes, woken, world, pc, memory>>

InProgress(s) == \E i \in DOMAIN ops[s] : ops[s][i].status \in {"pending", "running"}

\* submit's refusals; a step names the next index of the current episode.
Acceptable(s, kind) ==
  \/ kind \in {"close", "cancel"}
  \/ /\ session[s].state \notin Terminal
     /\ s \notin Managed
     /\ ~ InProgress(s)
     /\ kind = "step" => session[s].state = "active"
     /\ kind = "reset" /\ s \in Evaluated => session[s].episode = 0

NewOp(s, kind, status) ==
  [kind |-> kind, status |-> status, began |-> 0,
   episode |-> IF kind = "step" THEN session[s].episode ELSE 0,
   index |-> IF kind = "step" THEN session[s].step + 1 ELSE 0]

\* A command for a session that is over is answered at once.
Submit(s, kind) ==
  LET over == session[s].state \in Terminal IN
  /\ s \in Created
  /\ Acceptable(s, kind)
  /\ Len(ops[s]) < MaxCommands
  /\ ops' = [ops EXCEPT ![s] = Append(@, NewOp(s, kind, IF over THEN "completed" ELSE "pending"))]
  /\ session' = [session EXCEPT ![s].stop =
                   IF over \/ kind \notin {"close", "cancel"} THEN @
                   ELSE IF kind = "cancel" THEN "client_cancelled" ELSE "client_closed"]
  /\ overdue' = [overdue EXCEPT ![s] = IF @ = "silent" THEN "no" ELSE @]
  /\ UNCHANGED <<job, campaign, cancelled, used, owner, episodes, woken, calls, crashes, pc, memory>>

\* The client lets heartbeat_seconds pass, or max_seconds pass.
TimePasses(s, limit) ==
  /\ s \in Live
  /\ overdue[s] # "late"
  /\ overdue[s] = "no" \/ limit = "late"
  /\ limit = "silent" => s \notin Managed
  /\ overdue' = [overdue EXCEPT ![s] = limit]
  /\ UNCHANGED <<tables, calls, crashes, pc, memory>>

\* The heartbeat endpoint.
ClientHeartbeat(s) ==
  /\ s \in Created
  /\ overdue[s] = "silent"
  /\ overdue' = [overdue EXCEPT ![s] = "no"]
  /\ UNCHANGED <<tables, calls, crashes, pc, memory>>

\* API cancellation of the session's campaign, which no job of its own type
\* runs: the campaign is FAILED at once, the session's job goes on.
CancelCampaign(s) ==
  /\ s \in Created \cap Cancellable
  /\ campaign[s] \notin TerminalCampaign
  /\ campaign' = [campaign EXCEPT ![s] = "FAILED"]
  /\ cancelled' = cancelled \cup {s}
  /\ UNCHANGED <<session, ops, job, used, owner, episodes, woken, world, pc, memory>>
-----------------------------------------------------------------------------
(* The lease.                                                              *)

Runs(w, s) == pc[w] # "idle" /\ on[w] = s

Claimable(s) ==
  /\ job[s].attempts < MaxAttempts
  /\ \/ job[s].status = "PENDING"
     \/ job[s].status = "LEASED" /\ job[s].expired

Exhausted == {s \in Created : /\ job[s].status = "LEASED"
                              /\ job[s].expired
                              /\ job[s].attempts >= MaxAttempts}

FailedRow(row) == [row EXCEPT !.status = "FAILED", !.owner = NoWorker, !.expired = FALSE]

\* claim_job fails the exhausted jobs and leases at most one other.
ClaimJob(w, S) ==
  job' = [s \in Session |->
            IF s \in S THEN [status |-> "LEASED", owner |-> w, expired |-> FALSE,
                             attempts |-> job[s].attempts + 1]
            ELSE IF s \in Exhausted THEN FailedRow(job[s])
            ELSE job[s]]

Claim(w, s) ==
  /\ pc[w] = "idle"
  /\ s \in Created
  /\ Claimable(s)
  /\ ClaimJob(w, {s})
  /\ pc' = [pc EXCEPT ![w] = "begin"]
  /\ on' = [on EXCEPT ![w] = s]
  /\ fence' = [fence EXCEPT ![w] = job[s].attempts + 1]
  /\ UNCHANGED <<session, ops, campaign, cancelled, used, owner, episodes, woken, world,
                 op, env, envStep, plan>>

GiveUp(w) ==
  /\ pc[w] = "idle"
  /\ Exhausted # {}
  /\ \A s \in Created : ~ Claimable(s)
  /\ ClaimJob(w, {})
  /\ UNCHANGED <<session, ops, campaign, cancelled, used, owner, episodes, woken, world, pc, memory>>

Expire(s) ==
  /\ job[s].status = "LEASED"
  /\ ~ job[s].expired
  /\ TimelyHeartbeats => ~ Runs(job[s].owner, s)
  /\ job' = [job EXCEPT ![s].expired = TRUE]
  /\ UNCHANGED <<session, ops, campaign, cancelled, used, owner, episodes, woken, world, pc, memory>>

HoldsLease(w) == job[on[w]].owner = w /\ job[on[w]].status = "LEASED"

\* Where the run awaits something, so that the heartbeat gets its turn.
Awaits(w) ==
  \/ pc[w] \in {"loop", "reset", "provision", "observe", "act", "detach", "propose"}
  \/ pc[w] = "clean" /\ (env[w] # 0 \/ plan[w].handle # 0)

Heartbeat(w) ==
  /\ Awaits(w)
  /\ HoldsLease(w)
  /\ job[on[w]].expired
  /\ job' = [job EXCEPT ![on[w]].expired = FALSE]
  /\ UNCHANGED <<session, ops, campaign, cancelled, used, owner, episodes, woken, world, pc, memory>>

\* fence_check, given that fence_check raises when this is false.
FenceHolds(w) ==
  LET s == on[w] IN
  /\ session[s].fence = fence[w]
  /\ job[s].owner = session[s].worker
  /\ job[s].status = "LEASED"
  /\ ~ job[s].expired

StopReason(s) == session[s].stop # "none" \/ overdue[s] # "no"
-----------------------------------------------------------------------------
(* Moving about in a run.                                                  *)

Goto(p, place) == pc' = [pc EXCEPT ![p] = place]

\* What an idle process has in memory: the environment is gone with it.
Idle(p) ==
  /\ Goto(p, "idle")
  /\ on' = [on EXCEPT ![p] = NoSession]
  /\ fence' = [fence EXCEPT ![p] = 0]
  /\ op' = [op EXCEPT ![p] = 0]
  /\ env' = [env EXCEPT ![p] = 0]
  /\ envStep' = [envStep EXCEPT ![p] = 0]
  /\ plan' = [plan EXCEPT ![p] = NoPlan]

\* retire is called with the given state, and is followed by then.
Retires(p, state, then) ==
  /\ Goto(p, "retire")
  /\ plan' = [plan EXCEPT ![p] = [NoPlan EXCEPT !.state = state, !.then = then]]

\* An exception reaches run's handler.
Raises(p) == Retires(p, "interrupted", "finish") /\ UNCHANGED <<on, fence, op, env, envStep>>

\* A command's execution is over.
Home(p) == Goto(p, IF on[p] \in Managed THEN "choose" ELSE "loop")

Stays == UNCHANGED <<on, fence, op, env, envStep, plan>>

\* What the target's model calls cost is recorded when the step or the closing
\* environment collects it, as far as the calls are answered by then.
Collect(s, cost) ==
  /\ used' = [used EXCEPT ![s] = @ + cost]
  /\ flight' = [flight EXCEPT ![s] = @ - cost]

Collects(s) == \E cost \in 0..flight[s] : Collect(s, cost)

\* What a process stopped while it awaits its environment may have collected.
Collected(p) == IF env[p] # 0 THEN Collects(on[p]) ELSE UNCHANGED <<used, flight>>

Died(p) ==
  /\ pc[p] # "idle"
  /\ crashes < MaxCrashes
  /\ crashes' = crashes + 1
  /\ Collected(p)
  /\ Idle(p)
  /\ UNCHANGED <<session, ops, job, campaign, cancelled, owner, episodes, woken, overdue, unanswered>>

\* The heartbeat finds that the lease moved on and cancels the run: it
\* retires the session, unless that is what was cancelled.
LeaseLost(w) ==
  /\ Awaits(w)
  /\ ~ HoldsLease(w)
  /\ plan[w].then # "idle"
  /\ IF pc[w] = "clean"
     THEN Idle(w)
     ELSE Retires(w, "interrupted", "idle") /\ UNCHANGED <<on, fence, op, env, envStep>>
  /\ Collected(w)
  /\ UNCHANGED <<session, ops, job, campaign, cancelled, owner, episodes, woken,
                 overdue, unanswered, crashes>>

\* What a proposal turned out to cost is recorded, whatever was reserved for it.
ProposalRecorded(s) ==
  /\ \E cost \in Usage : used' = [used EXCEPT ![s] = @ + cost]
  /\ unanswered' = unanswered \ {s}
  /\ UNCHANGED flight

\* guarded, at any later look at the row: what it awaits is stopped.  A
\* proposal that is stopped is still recorded, if the fence holds.
Stopped(w) ==
  LET s == on[w] IN
  /\ pc[w] \in {"reset", "provision", "observe", "act", "detach", "propose"}
  /\ ~ FenceHolds(w) \/ StopReason(s)
  /\ Raises(w)
  /\ IF pc[w] # "propose" THEN Collected(w) /\ UNCHANGED unanswered
     ELSE IF FenceHolds(w) THEN ProposalRecorded(s)
     ELSE UNCHANGED <<used, calls>>
  /\ UNCHANGED <<session, ops, job, campaign, cancelled, owner, episodes, woken, overdue, crashes>>
-----------------------------------------------------------------------------
(* run: from the claim to the commands.                                    *)

\* Variant: a session is over only if its client ended it.
OverByClient(s) == session[s].state \in {"closed", "cancelled"}

Over(s) == session[s].state \in Terminal

\* A session some worker had before is only retired.
Begin(w) ==
  LET s == on[w] IN
  /\ pc[w] = "begin"
  /\ IF Over(s)
     THEN Goto(w, "finish") /\ Stays /\ UNCHANGED session
     ELSE /\ session' = [session EXCEPT ![s].fence = fence[w], ![s].worker = w,
                                        ![s].state = "ready"]
          /\ IF session[s].fence > 0 \/ fence[w] > 1
             THEN Raises(w)
             ELSE Goto(w, "open") /\ Stays
  /\ UNCHANGED <<ops, job, campaign, cancelled, used, owner, episodes, woken, world>>

\* The campaign is taken to RUNNING, a status at a time.
NextStatus == [CREATED |-> "VALIDATING", VALIDATING |-> "READY", READY |-> "RUNNING"]

Open(w) ==
  LET s == on[w] IN
  /\ pc[w] = "open"
  /\ IF campaign[s] \in DOMAIN NextStatus
     THEN /\ campaign' = [campaign EXCEPT ![s] = NextStatus[campaign[s]]]
          /\ IF campaign[s] = "READY" THEN Home(w) ELSE UNCHANGED pc
     ELSE Goto(w, "raise") /\ UNCHANGED campaign
  /\ Stays
  /\ UNCHANGED <<session, ops, job, cancelled, used, owner, episodes, woken, world>>

Loop(w) ==
  LET s == on[w] IN
  /\ pc[w] = "loop"
  /\ IF StopReason(s)
     THEN /\ Retires(w, CASE session[s].stop = "client_cancelled" -> "cancelled"
                          [] session[s].stop = "client_closed" -> "closed"
                          [] OTHER -> "expired", "finish")
          /\ UNCHANGED <<on, fence, op, env, envStep>>
     ELSE Goto(w, "claim") /\ Stays
  /\ UNCHANGED <<tables, world>>

Pending(s) == {i \in DOMAIN ops[s] : ops[s][i].status = "pending"}

\* claim_command; without a command the target's health is looked at.
ClaimCommand(w) ==
  LET s == on[w] IN
  /\ pc[w] = "claim"
  /\ \/ ~ FenceHolds(w) /\ Raises(w) /\ UNCHANGED ops
     \/ /\ FenceHolds(w)
        /\ Pending(s) = {}
        /\ \/ Goto(w, "loop") /\ Stays
           \/ env[w] # 0 /\ Raises(w)
        /\ UNCHANGED ops
     \/ /\ FenceHolds(w)
        /\ \E i \in Pending(s) :
             /\ \A j \in Pending(s) : i <= j
             /\ ops' = [ops EXCEPT ![s][i].status = "running"]
             /\ op' = [op EXCEPT ![w] = i]
        /\ Goto(w, "guard")
        /\ UNCHANGED <<on, fence, env, envStep, plan>>
  /\ UNCHANGED <<session, job, campaign, cancelled, used, owner, episodes, woken, world>>

\* guarded looks once before the command starts.
Guard(w) ==
  /\ pc[w] = "guard"
  /\ IF FenceHolds(w) /\ ~ StopReason(on[w])
     THEN Goto(w, ops[on[w]][op[w]].kind) /\ Stays
     ELSE Raises(w)
  /\ UNCHANGED <<tables, world>>
-----------------------------------------------------------------------------
(* execute and complete.                                                   *)

\* Variant: a worker completes its command whatever became of its lease.
CompletableUnfenced(w) == TRUE

Completable(w) == FenceHolds(w) /\ ops[on[w]][op[w]].status = "running"

NewStep(old, step) == step

\* complete, after which the run goes on at place; it raises without a lease,
\* and a registered attacker's search raises when its command failed.
Complete(w, status, state, step, place) ==
  LET s == on[w] IN
  IF Completable(w)
  THEN /\ ops' = [ops EXCEPT ![s][op[w]].status = status]
       /\ session' = [session EXCEPT ![s].state = state, ![s].step = NewStep(@, step)]
       /\ IF status = "failed" /\ s \in Managed THEN Raises(w)
          ELSE (IF place = "home" THEN Home(w) ELSE Goto(w, place)) /\ Stays
  ELSE Raises(w) /\ UNCHANGED <<ops, session>>

Gone == [row |-> "ended", capsule |-> "gone"]

\* What closing an environment leaves when a part of it raised.
HalfClosed(e) == [row : {"verifying", "ended"}, capsule : {e.capsule, "gone"}] \ {Gone}

\* The environment of an earlier episode is closed before a new one is made;
\* its target's calls have to be answered and collected for that.
ResetCloses(w) ==
  LET s == on[w] IN
  /\ pc[w] = "reset"
  /\ env[w] # 0
  /\ \/ /\ episodes' = [episodes EXCEPT ![s][env[w]] = Gone]
        /\ Collect(s, flight[s])
        /\ env' = [env EXCEPT ![w] = 0]
        /\ UNCHANGED <<pc, on, fence, op, envStep, plan>>
     \/ /\ \E e \in HalfClosed(episodes[s][env[w]]) : episodes' = [episodes EXCEPT ![s][env[w]] = e]
        /\ Collects(s)
        /\ Raises(w)
  /\ UNCHANGED <<session, ops, job, campaign, cancelled, owner, woken, overdue, unanswered, crashes>>

\* The episode's budget is looked at, also against what was used so far.
ResetAdmits(w) ==
  LET s == on[w]
      full == Len(episodes[s]) >= MaxEpisodes
  IN
  /\ pc[w] = "reset"
  /\ env[w] = 0
  /\ \/ /\ full \/ used[s] > 0
        /\ Complete(w, "failed", "episode_done", session[s].step, "home")
     \/ /\ ~ full
        /\ ops' = [ops EXCEPT ![s][op[w]].began = @ + 1]
        /\ Goto(w, "provision")
        /\ Stays
        /\ UNCHANGED session
  /\ UNCHANGED <<job, campaign, cancelled, used, owner, episodes, woken, world>>

\* _new_environment: the capsule is up, or it failed and was cleaned up (or
\* that failed too), or the campaign is being cancelled.
Provision(w) ==
  LET s == on[w]
      Adds(row, capsule) == episodes' = [episodes EXCEPT ![s] = Append(@, [row |-> row, capsule |-> capsule])]
  IN
  /\ pc[w] = "provision"
  /\ IF s \in cancelled
     THEN Retires(w, "interrupted", "idle") /\ UNCHANGED <<on, fence, op, env, envStep, episodes>>
     ELSE \/ /\ Adds("open", "made")
             /\ Goto(w, "attach")
             /\ env' = [env EXCEPT ![w] = Len(episodes[s]) + 1]
             /\ envStep' = [envStep EXCEPT ![w] = 0]
             /\ UNCHANGED <<on, fence, op, plan>>
          \/ /\ \E capsule \in {"made", "gone"} : Adds("ended", capsule)
             /\ Raises(w)
  /\ UNCHANGED <<session, ops, job, campaign, cancelled, used, owner, woken, world>>

Attach(w) ==
  LET s == on[w] IN
  /\ pc[w] = "attach"
  /\ IF FenceHolds(w)
     THEN /\ session' = [session EXCEPT ![s].episode = env[w], ![s].handle = env[w]]
          /\ episodes' = [episodes EXCEPT ![s][env[w]].capsule = "attached"]
          /\ Goto(w, "observe")
          /\ Stays
     ELSE Raises(w) /\ UNCHANGED <<session, episodes>>
  /\ UNCHANGED <<ops, job, campaign, cancelled, used, owner, woken, world>>

\* The target is reset, and its first observation completes the command.
Observe(w) ==
  /\ pc[w] = "observe"
  /\ \/ Goto(w, "observed") /\ Stays
     \/ Raises(w)
  /\ UNCHANGED <<tables, world>>

Observed(w) ==
  /\ pc[w] = "observed"
  /\ Complete(w, "completed", "active", 0, "home")
  /\ UNCHANGED <<job, campaign, cancelled, used, owner, episodes, woken, world>>

\* A proposal is admitted if its reservation fits beside what was recorded so far.
Affordable(s) == used[s] + 1 <= Cost

\* The step is checked again; its action may make the target call a model, for
\* which the session's limit is not looked at.
Step(w) ==
  LET s == on[w]
      o == ops[s][op[w]]
  IN
  /\ pc[w] = "step"
  /\ IF env[w] # 0 /\ session[s].state = "active" /\ session[s].episode = o.episode
        /\ session[s].step + 1 = o.index
     THEN /\ ops' = [ops EXCEPT ![s][op[w]].began = @ + 1]
          /\ \E cost \in Usage :
               /\ flight' = [flight EXCEPT ![s] = @ + cost]
               /\ unanswered' = IF cost > 0 THEN unanswered \cup {s} ELSE unanswered
          /\ envStep' = [envStep EXCEPT ![w] = @ + 1]
          /\ Goto(w, "act")
          /\ UNCHANGED <<on, fence, op, env, plan, session>>
     ELSE /\ Complete(w, "failed", session[s].state, session[s].step, "home")
          /\ UNCHANGED calls
  /\ UNCHANGED <<job, campaign, cancelled, used, owner, episodes, woken, overdue, crashes>>

\* The target answers; a call it made may still be in flight then, and is
\* collected by a later step, by the closing environment, or never.
Act(w) ==
  LET s == on[w] IN
  /\ pc[w] = "act"
  /\ Collects(s)
  /\ \/ /\ unanswered' = unanswered \ {s}
        /\ Goto(w, "answer")
        /\ Stays
     \/ Raises(w) /\ UNCHANGED unanswered
  /\ UNCHANGED <<session, ops, job, campaign, cancelled, owner, episodes, woken, overdue, crashes>>

\* The result completes the command; the episode may be done with it.
Answer(w) ==
  /\ pc[w] = "answer"
  /\ \E done \in BOOLEAN :
       Complete(w, "completed", IF done THEN "episode_done" ELSE "active", envStep[w],
                IF done THEN "detach" ELSE "home")
  /\ UNCHANGED <<job, campaign, cancelled, used, owner, episodes, woken, world>>

Detach(w) ==
  LET s == on[w] IN
  /\ pc[w] = "detach"
  /\ \/ /\ episodes' = [episodes EXCEPT ![s][env[w]] = Gone]
        /\ Collect(s, flight[s])
        /\ env' = [env EXCEPT ![w] = 0]
        /\ Goto(w, "forget")
        /\ UNCHANGED <<on, fence, op, envStep, plan>>
     \/ /\ \E e \in HalfClosed(episodes[s][env[w]]) : episodes' = [episodes EXCEPT ![s][env[w]] = e]
        /\ Collects(s)
        /\ Raises(w)
  /\ UNCHANGED <<session, ops, job, campaign, cancelled, owner, woken, overdue, unanswered, crashes>>

Forget(w) ==
  LET s == on[w] IN
  /\ pc[w] = "forget"
  /\ session' = [session EXCEPT ![s].handle = IF session[s].fence = fence[w] THEN 0 ELSE @]
  /\ Home(w)
  /\ Stays
  /\ UNCHANGED <<ops, job, campaign, cancelled, used, owner, episodes, woken, world>>
-----------------------------------------------------------------------------
(* managed: the search of a registered attacker, through the same commands.*)

\* internal_command: the command is running from the start.
Internal(w, kind) ==
  LET s == on[w] IN
  /\ Len(ops[s]) < MaxOps
  /\ IF FenceHolds(w)
     THEN /\ ops' = [ops EXCEPT ![s] = Append(@, NewOp(s, kind, "running"))]
          /\ op' = [op EXCEPT ![w] = Len(ops[s]) + 1]
          /\ Goto(w, "guard")
          /\ UNCHANGED <<on, fence, env, envStep, plan>>
     ELSE Raises(w) /\ UNCHANGED ops

\* The search is over, or was cancelled, or its budget is spent.
Completes(w) ==
  Retires(w, "completed", "finish") /\ UNCHANGED <<on, fence, op, env, envStep, ops>>

\* The model is unhealthy, or the search begins an episode, asks for the next
\* action, or ends.
Choose(w) ==
  LET s == on[w] IN
  /\ pc[w] = "choose"
  /\ \/ /\ ops[s] = << >>
        /\ Raises(w)
        /\ UNCHANGED <<ops, unanswered>>
     \/ /\ Len(episodes[s]) < MaxEpisodes
        /\ ~ StopReason(s)
        /\ Internal(w, "reset")
        /\ UNCHANGED unanswered
     \/ /\ StopReason(s) \/ episodes[s] # << >>
        /\ Completes(w)
        /\ UNCHANGED unanswered
     \/ /\ env[w] # 0
        /\ ~ StopReason(s)
        /\ Affordable(s)
        /\ IF FenceHolds(w)
           THEN /\ unanswered' = unanswered \cup {s}
                /\ Goto(w, "propose")
                /\ Stays
           ELSE Raises(w) /\ UNCHANGED unanswered
        /\ UNCHANGED ops
  /\ UNCHANGED <<session, job, campaign, cancelled, used, owner, episodes, woken, overdue, flight, crashes>>

\* The model answers or fails; its usage is recorded if the fence holds.
Propose(w) ==
  LET s == on[w] IN
  /\ pc[w] = "propose"
  /\ IF FenceHolds(w)
     THEN /\ ProposalRecorded(s)
          /\ \/ Goto(w, "proposed") /\ Stays
             \/ Raises(w)
     ELSE Raises(w) /\ UNCHANGED <<used, calls>>
  /\ UNCHANGED <<session, ops, job, campaign, cancelled, owner, episodes, woken, overdue, crashes>>

Proposed(w) ==
  /\ pc[w] = "proposed"
  /\ IF StopReason(on[w]) THEN Completes(w) ELSE Internal(w, "step")
  /\ UNCHANGED <<session, job, campaign, cancelled, used, owner, episodes, woken, world>>
-----------------------------------------------------------------------------
(* retire, by the worker's run or by the maintenance task.                 *)

\* retire returns.
Leave(p) ==
  IF p = Keeper \/ plan[p].then = "idle" THEN Idle(p) ELSE Goto(p, "finish") /\ Stays

Retire(p) ==
  LET s == on[p] IN
  /\ pc[p] = "retire"
  /\ IF session[s].fence # fence[p]
     THEN Leave(p)
     ELSE /\ plan' = [plan EXCEPT ![p].handle = session[s].handle, ![p].episode = session[s].episode]
          /\ Goto(p, "clean")
          /\ UNCHANGED <<on, fence, op, env, envStep>>
  /\ UNCHANGED <<tables, world>>

CapsuleToClean(p) == IF env[p] # 0 THEN env[p] ELSE plan[p].handle

\* The environment in memory is closed, or else the capsule on record is
\* destroyed; either may fail.  A target that was closed before is not drained.
Clean(p) ==
  LET s == on[p]
      h == CapsuleToClean(p)
  IN
  /\ pc[p] = "clean"
  /\ \/ /\ h # 0
        /\ episodes' = [episodes EXCEPT ![s][h] =
                          IF env[p] # 0 THEN Gone ELSE [@ EXCEPT !.capsule = "gone"]]
        /\ Collected(p)
        /\ env' = [env EXCEPT ![p] = 0]
        /\ UNCHANGED plan
     \/ /\ h # 0
        /\ IF env[p] # 0
           THEN \E e \in HalfClosed(episodes[s][h]) : episodes' = [episodes EXCEPT ![s][h] = e]
           ELSE UNCHANGED episodes
        /\ Collected(p)
        /\ plan' = [plan EXCEPT ![p].dirty = TRUE]
        /\ UNCHANGED env
     \/ h = 0 /\ UNCHANGED <<episodes, env, plan, used, flight>>
  /\ Goto(p, "commit")
  /\ UNCHANGED <<session, ops, job, campaign, cancelled, owner, woken, overdue, unanswered, crashes,
                 on, fence, op, envStep>>

\* A client's close or cancel decides over the state retire was called with.
EndState(p) ==
  CASE session[on[p]].stop = "client_closed" -> "closed"
    [] session[on[p]].stop = "client_cancelled" -> "cancelled"
    [] OTHER -> plan[p].state

\* Variants: answers to what was pending are forgotten, or a running command
\* is called cancelled.
EndedOpRunningOnly(o) ==
  IF o.status # "running" THEN o
  ELSE [o EXCEPT !.status = IF o.kind \in {"close", "cancel"} THEN "completed" ELSE "indeterminate"]
EndedOpUncertain(o) ==
  IF o.status \notin {"pending", "running"} THEN o
  ELSE [o EXCEPT !.status = IF o.kind \in {"close", "cancel"} THEN "completed" ELSE "cancelled"]

EndedOp(o) ==
  IF o.status \notin {"pending", "running"} THEN o
  ELSE [o EXCEPT !.status = IF o.kind \in {"close", "cancel"} THEN "completed"
                            ELSE IF o.status = "running" THEN "indeterminate"
                            ELSE "cancelled"]

Uncertain(s) == \E i \in DOMAIN ops[s] : ops[s][i].status = "running"

\* Variant: a client that ends the session is charged what was recorded.
ChargedByState(s, state) == IF state = "interrupted" THEN Cost ELSE used[s]

\* What release adds to the owner's spent cost.
Charged(s, state) == IF Uncertain(s) \/ state = "interrupted" THEN Cost ELSE used[s]

Committed(p) ==
  session[on[p]].fence = fence[p] /\ session[on[p]].state \notin Terminal

Commit(p) ==
  LET s == on[p]
      state == EndState(p)
      client == session[s].stop \in {"client_closed", "client_cancelled"}
  IN
  /\ pc[p] = "commit"
  /\ IF Committed(p)
     THEN /\ session' = [session EXCEPT
               ![s].state = state,
               ![s].stop = IF client THEN @ ELSE "other",
               ![s].handle = IF plan[p].dirty THEN @ ELSE 0,
               ![s].released = TRUE]
          /\ ops' = [ops EXCEPT ![s] = [i \in DOMAIN @ |-> EndedOp(@[i])]]
          /\ owner' = [reserved |-> owner.reserved - Cost, spent |-> owner.spent + Charged(s, state)]
          /\ plan' = [plan EXCEPT ![p].state = state]
          /\ Goto(p, "campaign")
          /\ UNCHANGED <<on, fence, op, env, envStep>>
     ELSE Leave(p) /\ UNCHANGED <<session, ops, owner>>
  /\ UNCHANGED <<job, campaign, cancelled, used, episodes, woken, world>>

\* The campaign is ended: a status it may not take raises.
EndCampaign(p) ==
  LET s == on[p]
      to == IF plan[p].state \in {"closed", "completed"} THEN "COMPLETED" ELSE "FAILED"
  IN
  /\ pc[p] = "campaign"
  /\ \/ /\ campaign[s] \in {"COMPLETED", "FAILED"}
        /\ Goto(p, "episode") /\ Stays /\ UNCHANGED campaign
     \/ /\ campaign[s] \notin {"COMPLETED", "FAILED"}
        /\ IF to \in CampaignTransitions[campaign[s]]
           THEN campaign' = [campaign EXCEPT ![s] = to] /\ Goto(p, "episode") /\ Stays
           ELSE /\ UNCHANGED campaign
                /\ IF p = Keeper \/ plan[p].then = "idle" THEN Idle(p) ELSE Goto(p, "raise") /\ Stays
  /\ UNCHANGED <<session, ops, job, cancelled, used, owner, episodes, woken, world>>

EndEpisode(p) ==
  LET s == on[p]
      e == plan[p].episode
  IN
  /\ pc[p] = "episode"
  /\ episodes' = IF e # 0 /\ episodes[s][e].row = "open"
                 THEN [episodes EXCEPT ![s][e].row = "ended"] ELSE episodes
  /\ Goto(p, "wake")
  /\ Stays
  /\ UNCHANGED <<session, ops, job, campaign, cancelled, used, owner, woken, world>>

\* The evaluation that created the session is enqueued again.
Wake(p) ==
  /\ pc[p] = "wake"
  /\ woken' = woken \cup ({on[p]} \cap Evaluated)
  /\ Leave(p)
  /\ UNCHANGED <<session, ops, job, campaign, cancelled, used, owner, episodes, world>>

\* fail_or_retry_job, which raises like the run if the row is not ours.
Raise(w) ==
  LET s == on[w] IN
  /\ pc[w] = "raise"
  /\ job' = IF ~ HoldsLease(w) THEN job
            ELSE [job EXCEPT ![s] = IF @.attempts >= MaxAttempts THEN FailedRow(@)
                                    ELSE [@ EXCEPT !.status = "PENDING", !.owner = NoWorker,
                                                   !.expired = FALSE]]
  /\ Idle(w)
  /\ UNCHANGED <<session, ops, campaign, cancelled, used, owner, episodes, woken, world>>

\* finish_job, which raises if the row is not ours.
Finish(w) ==
  LET s == on[w] IN
  /\ pc[w] = "finish"
  /\ job' = IF job[s].owner # w THEN job
            ELSE [job EXCEPT ![s] = [@ EXCEPT !.status = "COMPLETED", !.owner = NoWorker,
                                              !.expired = FALSE]]
  /\ Idle(w)
  /\ UNCHANGED <<session, ops, campaign, cancelled, used, owner, episodes, woken, world>>

\* Variant: maintenance leaves the jobs that failed for good alone.
UnclaimablePending(s) == job[s].status = "PENDING" /\ StopReason(s)

\* A session whose job nobody will claim, or whose time is up before one did.
Unclaimable(s) ==
  \/ job[s].status = "FAILED"
  \/ job[s].status = "PENDING" /\ StopReason(s)

\* maintain: such a session is retired with the fence it has.
Maintain(s) ==
  /\ pc[Keeper] = "idle"
  /\ s \in Live
  /\ Unclaimable(s)
  /\ on' = [on EXCEPT ![Keeper] = s]
  /\ fence' = [fence EXCEPT ![Keeper] = session[s].fence]
  /\ Retires(Keeper, IF job[s].status = "FAILED" THEN "interrupted" ELSE "expired", "idle")
  /\ UNCHANGED <<tables, world, op, env, envStep>>
-----------------------------------------------------------------------------
RetireStep(p) ==
  Retire(p) \/ Clean(p) \/ Commit(p) \/ EndCampaign(p) \/ EndEpisode(p) \/ Wake(p)

RunStep(w) ==
  \/ Begin(w) \/ Open(w) \/ Loop(w) \/ ClaimCommand(w) \/ Guard(w)
  \/ ResetCloses(w) \/ ResetAdmits(w) \/ Provision(w) \/ Attach(w) \/ Observe(w) \/ Observed(w)
  \/ Step(w) \/ Act(w) \/ Answer(w) \/ Detach(w) \/ Forget(w)
  \/ Choose(w) \/ Propose(w) \/ Proposed(w)
  \/ RetireStep(w) \/ Raise(w) \/ Finish(w)

Poll(w) == GiveUp(w) \/ \E s \in Session : Claim(w, s)

Next ==
  \/ \E w \in Worker : RunStep(w) \/ Poll(w) \/ Heartbeat(w) \/ LeaseLost(w) \/ Stopped(w)
  \/ RetireStep(Keeper)
  \/ \E p \in Process : Died(p)
  \/ \E s \in Session :
       \/ CreateSession(s) \/ ClientHeartbeat(s) \/ CancelCampaign(s)
       \/ Expire(s) \/ Maintain(s)
       \/ \E kind \in {"reset", "step", "close", "cancel"} : Submit(s, kind)
       \/ \E limit \in {"silent", "late"} : TimePasses(s, limit)

Spec == Init /\ [][Next]_vars

\* Workers go on with what they do and poll when idle, the maintenance task
\* looks every five seconds, clocks advance.  Clients and crashes are free.
Fairness ==
  /\ \A w \in Worker : WF_vars(RunStep(w)) /\ WF_vars(Poll(w))
  /\ WF_vars(RetireStep(Keeper))
  /\ WF_vars(\E s \in Session : Maintain(s))
  /\ \A s \in Session : WF_vars(Expire(s)) /\ WF_vars(TimePasses(s, "late"))

FairSpec == Spec /\ Fairness
-----------------------------------------------------------------------------
(* What sessions promise.                                                  *)

Unreleased == {s \in Created : ~ session[s].released}

Released == {s \in Session : session[s].released}

\* What a session used beyond its limits.max_cost: nothing compares a provider's
\* usage with what was reserved.
Excess == [s \in Session |-> IF used[s] > Cost THEN used[s] - Cost ELSE 0]

\* The owner's reservation is what the sessions not yet released reserved,
\* and together with what was spent it passes the quota by no more than what
\* released sessions used in excess (create_session, release).
ReservationsAddUp ==
  /\ owner.reserved = Cost * Cardinality(Unreleased)
  /\ owner.spent + owner.reserved <= CostLimit + SumFunctionOnSet(Excess, Released)

\* No blind replay: whatever worker claims, stops or is superseded, the effect
\* of an operation is begun at most once, and never if the client is told it
\* was cancelled (claim_command, retire).
EffectsBeginOnce ==
  \A s \in Session : \A i \in DOMAIN ops[s] :
    /\ ops[s][i].began <= 1
    /\ ops[s][i].status = "cancelled" => ops[s][i].began = 0

\* Completed commands retain their results, and so do the others that were
\* answered, whoever retires the session meanwhile (complete, retire).
AnswersAreFinal ==
  [][\A s \in Session : \A i \in DOMAIN ops[s] :
       ops[s][i].status \in Finished => ops'[s][i].status = ops[s][i].status]_vars

\* A session that is over has answered everything it was sent, and a capsule it had
\* on record is gone or still on record (retire, submit).
EndedSessionsAreClean ==
  \A s \in Session : session[s].state \in Terminal =>
    /\ ~ InProgress(s)
    /\ \A e \in DOMAIN episodes[s] : episodes[s][e].capsule = "attached" => session[s].handle = e

\* "An uncertain provider call consumes its reservation": a session is charged
\* all it reserved if it is released while its running command has asked the
\* target's model and has no answer, whoever retires it, whoever died (release).
\* Only commands are looked at: what a registered attacker was asked between its
\* commands is not charged if the client ends the session before it is recorded.
UncertainCallsAreCharged ==
  [][\A s \in unanswered \ Managed :
       ~ session[s].released /\ session'[s].released => owner'.spent - owner.spent >= Cost]_vars

\* A session that is over stays as it ended, whoever still runs it.
EndsOnce ==
  [][\A s \in Session : session[s].state \in Terminal => session'[s].state = session[s].state]_vars

\* Every session that is created ends, and its quota is free again.
SessionsEnd == \A s \in Session : s \in Created ~> session[s].released

\* The evaluation a session belongs to is looked at again once it is over.
EvaluationGoesOn == \A s \in Evaluated : session[s].state \in Terminal ~> s \in woken
=============================================================================
