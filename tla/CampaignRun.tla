----------------------------- MODULE CampaignRun -----------------------------
(***************************************************************************)
(* CampaignRunner.run and the episodes it creates, as the worker that      *)
(* claimed the campaign's job executes them.  Together with the queue of   *)
(* CampaignQueue this is the life of a campaign.                           *)
(***************************************************************************)
EXTENDS CampaignQueue

\* What most steps of run leave alone: they read the tables and decide.
Decides == UNCHANGED <<tables, api>>

\* run reads the campaign it was called with.
Start(w) ==
  LET c == working[w] IN
  /\ At(w, "start")
  /\ IF status[c] \in TerminalCampaign
     THEN Goto(w, "finish") /\ UNCHANGED tx
     ELSE IF cancelled[c] \/ status[c] = "CANCELLING"
     THEN SetCampaign(w, "FAILED", "finish")
     ELSE IF status[c] = "CREATED"
     THEN SetCampaign(w, "VALIDATING", "validate")
     ELSE Goto(w, "validate") /\ UNCHANGED tx
  /\ UNCHANGED local /\ Decides

\* Containment preflight, image readiness and the model configuration.
Validate(w) ==
  /\ At(w, "validate")
  /\ \/ Goto(w, "ready") /\ UNCHANGED tx
     \/ Goto(w, "raise") /\ UNCHANGED tx
     \/ Goto(w, "block") /\ UNCHANGED tx
     \/ SetCampaign(w, "REJECTED", "finish")
     \/ SetCampaign(w, "REJECTED", "raise")
  /\ UNCHANGED local /\ Decides

Ready(w) ==
  /\ At(w, "ready")
  /\ IF status[working[w]] = "VALIDATING"
     THEN SetCampaign(w, "READY", "check")
     ELSE Goto(w, "check") /\ UNCHANGED tx
  /\ UNCHANGED local /\ Decides

\* The first look at the cancellation after validation.
Check(w) ==
  LET c == working[w] IN
  /\ At(w, "check")
  /\ IF cancelled[c]
     THEN CancelBy(c) /\ Goto(w, "fail")
     ELSE Goto(w, "running") /\ UNCHANGED <<status, job>>
  /\ UNCHANGED <<cancelled, episodes, local, tx, api>>

Running(w) ==
  /\ At(w, "running")
  /\ IF status[working[w]] = "READY"
     THEN SetCampaign(w, "RUNNING", "enter")
     ELSE Goto(w, "enter") /\ UNCHANGED tx
  /\ UNCHANGED local /\ Decides

\* The wall-time budget may be spent; otherwise the episodes already on
\* record, failed ones included, count against max_episodes.
Enter(w) ==
  LET prior == Len(episodes[working[w]]) IN
  /\ At(w, "enter")
  /\ \/ Goto(w, "raise") /\ UNCHANGED left
     \/ /\ left' = [left EXCEPT ![w] = IF prior < MaxEpisodes THEN MaxEpisodes - prior ELSE 0]
        /\ Goto(w, "loop")
  /\ UNCHANGED <<working, current, outcome, tx>> /\ Decides

\* Variant: the range of the loop has no end.
LoopUnbounded(w) ==
  /\ At(w, "loop")
  /\ IF cancelled[working[w]]
     THEN Goto(w, "after") /\ UNCHANGED left
     ELSE Goto(w, "create") /\ left' = [left EXCEPT ![w] = @ - 1]
  /\ UNCHANGED <<working, current, outcome, tx>> /\ Decides

Loop(w) ==
  /\ At(w, "loop")
  /\ IF cancelled[working[w]] \/ left[w] = 0
     THEN Goto(w, "after") /\ UNCHANGED left
     ELSE Goto(w, "create") /\ left' = [left EXCEPT ![w] = @ - 1]
  /\ UNCHANGED <<working, current, outcome, tx>> /\ Decides

\* _new_environment looks at the cancellation, and so does create_episode.
CreateEpisode(w) ==
  /\ At(w, "create")
  /\ \/ cancelled[working[w]] /\ (Goto(w, "lost") \/ Goto(w, "raise")) /\ UNCHANGED tx
     \/ ~ cancelled[working[w]] /\ Open(w, "create", "PENDING", "provision", {}) /\ UNCHANGED pc
  /\ UNCHANGED local /\ Decides

\* Its commit also counts the episode on the campaign's row.
CommitCreate(w) ==
  LET c == working[w] IN
  /\ tx[w].kind = "create"
  /\ Unlocked(c)
  /\ episodes' = [episodes EXCEPT ![c] = Append(@, "PENDING")]
  /\ current' = [current EXCEPT ![w] = Len(episodes[c]) + 1]
  /\ Goto(w, tx[w].next)
  /\ tx' = [tx EXCEPT ![w] = NoTx]
  /\ UNCHANGED <<status, cancelled, job, working, left, outcome, api>>

-----------------------------------------------------------------------------
(* One episode: _new_environment, the search, and ManagedEpisodeEnvironment*)
(* .close.                                                                 *)

SetOutcome(w, o) == outcome' = [outcome EXCEPT ![w] = o]

\* Cleaning up failed; a run already being stopped may still end as stopped.
CleanupFails(w) ==
  \/ SetOutcome(w, "error")
  \/ outcome[w] \in {"timeout", "lost"} /\ UNCHANGED outcome

Provision(w) ==
  /\ At(w, "provision")
  /\ SetEpisode(w, "PROVISIONING", "prepare", "raise")
  /\ UNCHANGED local /\ Decides

\* The capsule is provisioned and probed, or is not.
Prepare(w) ==
  /\ At(w, "prepare")
  /\ \/ SetEpisode(w, "READY", "execute", "abort") /\ UNCHANGED outcome
     \/ \E o \in {"error", "image"} :
          SetOutcome(w, o) /\ Goto(w, "abort") /\ UNCHANGED tx
  /\ UNCHANGED <<working, current, left>> /\ Decides

\* Reward and novelty are configured, or cannot be.
Execute(w) ==
  /\ At(w, "execute")
  /\ \/ SetEpisode(w, "EXECUTING", "search", "abort") /\ UNCHANGED outcome
     \/ SetOutcome(w, "error") /\ Goto(w, "abort") /\ UNCHANGED tx
  /\ UNCHANGED <<working, current, left>> /\ Decides

\* The search of one episode ends: with success it is the last one.
Search(w) ==
  /\ At(w, "search")
  /\ \E o \in {"ok", "won", "error"} :
       /\ SetOutcome(w, o)
       /\ left' = [left EXCEPT ![w] = IF o = "won" \/ cancelled[working[w]] THEN 0 ELSE @]
  /\ Goto(w, "close")
  /\ UNCHANGED <<working, current, tx>> /\ Decides

\* The environment is there, but the factory of a search cannot link the
\* invocation that proposed its branch: nobody got it who would close it, and
\* the episode stays as it is, with its capsule.
Unlinked(w) ==
  /\ At(w, "search")
  /\ SetOutcome(w, "error")
  /\ Goto(w, "closed")
  /\ UNCHANGED <<working, current, left, tx>> /\ Decides

\* The except branch of _new_environment, once the delegate is closed.  A
\* refused status change arrives here with the outcome still "ok".
Abort(w) ==
  /\ At(w, "abort")
  /\ IF CurrentStatus(w) \in OpenEpisode \ {"VERIFYING"}
     THEN SetEpisode(w, "FAILED", "destroy", "destroy")
     ELSE Goto(w, "destroy") /\ UNCHANGED tx
  /\ SetOutcome(w, IF outcome[w] = "ok" THEN "error" ELSE outcome[w])
  /\ UNCHANGED <<working, current, left>> /\ Decides

Close(w) ==
  /\ At(w, "close")
  /\ IF CurrentStatus(w) = "EXECUTING"
     THEN SetEpisode(w, "VERIFYING", "judge", "destroy")
     ELSE Goto(w, "judge") /\ UNCHANGED tx
  /\ CleanupFails(w) \/ UNCHANGED outcome
  /\ UNCHANGED <<working, current, left>> /\ Decides

\* The result on record.  A run that is being stopped may have reached its
\* goal, and stopping it may have failed the delegate.
Results(w) ==
  [ok |-> {"EXHAUSTED"}, won |-> {"SUCCEEDED"}, error |-> {"FAILED"}, image |-> {"FAILED"},
   timeout |-> JudgedEpisode, lost |-> JudgedEpisode][outcome[w]]

\* The result is recorded, then findings and the evidence bundle are written.
Judge(w) ==
  /\ At(w, "judge")
  /\ IF CurrentStatus(w) = "VERIFYING"
     THEN \E result \in Results(w) : SetEpisode(w, result, "destroy", "destroy")
     ELSE Goto(w, "destroy") /\ UNCHANGED tx
  /\ CleanupFails(w) \/ UNCHANGED outcome
  /\ UNCHANGED <<working, current, left>> /\ Decides

Destroy(w) ==
  /\ At(w, "destroy")
  /\ \/ /\ IF CurrentStatus(w) \in JudgedEpisode
           THEN SetEpisode(w, "DESTROYED", "closed", "closed")
           ELSE Goto(w, "closed") /\ UNCHANGED tx
        /\ UNCHANGED outcome
     \/ CleanupFails(w) /\ Goto(w, "closed") /\ UNCHANGED tx
  /\ UNCHANGED <<working, current, left>> /\ Decides

AfterEpisode ==
  [ok |-> "loop", won |-> "loop", error |-> "raise", image |-> "block",
   timeout |-> "raise", lost |-> "lost"]

Closed(w) ==
  /\ At(w, "closed")
  /\ Goto(w, AfterEpisode[outcome[w]])
  /\ current' = [current EXCEPT ![w] = 0]
  /\ SetOutcome(w, IF outcome[w] = "lost" THEN "lost" ELSE "ok")
  /\ UNCHANGED <<working, left, tx>> /\ Decides

-----------------------------------------------------------------------------
(* The end of run.                                                         *)

After(w) ==
  /\ At(w, "after")
  /\ IF ~ cancelled[working[w]]
     THEN SetCampaign(w, "COMPLETED", "finalize")
     ELSE IF status[working[w]] \notin TerminalCampaign
     THEN SetCampaign(w, "FAILED", "finalize")
     ELSE Goto(w, "finalize") /\ UNCHANGED tx
  /\ UNCHANGED local /\ Decides

\* The hardening runs of a completed campaign are finalized and the
\* experiment is recorded, or that raises.
Finalize(w) ==
  /\ At(w, "finalize")
  /\ Goto(w, "finish") \/ Goto(w, "raise")
  /\ UNCHANGED <<local, tx>> /\ Decides

\* _fail_campaign, after which the run has returned.
Fail(w) ==
  LET end == IF outcome[w] = "lost" THEN "idle" ELSE "finish" IN
  /\ At(w, "fail")
  /\ IF status[working[w]] \notin TerminalCampaign
     THEN SetCampaign(w, "FAILED", end) /\ UNCHANGED local
     ELSE IF end = "idle" THEN Idle(w)
     ELSE Goto(w, end) /\ UNCHANGED <<tx, local>>
  /\ Decides

\* _block_for_image.
Block(w) ==
  /\ At(w, "block")
  /\ IF cancelled[working[w]]
     THEN Goto(w, "fail") /\ UNCHANGED tx
     ELSE SetCampaign(w, "BLOCKED", "finish")
  /\ UNCHANGED local /\ Decides

\* The except CancelledError branch of run.
Lost(w) ==
  /\ At(w, "lost")
  /\ IF cancelled[working[w]]
     THEN Goto(w, "fail") /\ UNCHANGED <<tx, local>>
     ELSE Idle(w)
  /\ Decides

-----------------------------------------------------------------------------
(* The heartbeat runs while the run awaits something.                      *)

Awaits(w) ==
  \E p \in {"validate", "prepare", "execute", "search", "abort", "close", "destroy", "finalize"} :
    At(w, p)

HoldsLease(w) ==
  job[working[w]].owner = w /\ job[working[w]].status = "LEASED"

Heartbeat(w) ==
  /\ Awaits(w)
  /\ outcome[w] # "lost"
  /\ HoldsLease(w)
  /\ job[working[w]].expired
  /\ job' = [job EXCEPT ![working[w]].expired = FALSE]
  /\ UNCHANGED <<status, cancelled, episodes, pc, local, tx, api>>

\* Where a cancelled await leaves the run.  The except branch awaits the
\* delegate's close before anything else and catches no cancellation there:
\* the episode is left as it is, with its capsule.
StoppedAt ==
  [validate |-> "idle", prepare |-> "abort", execute |-> "abort", search |-> "close",
   abort |-> "closed", close |-> "close", destroy |-> "closed", finalize |-> "lost"]

\* A heartbeat that renews nothing cancels the run where it awaits, also one
\* that its wall-time budget has stopped before.
LeaseLost(w) ==
  /\ Awaits(w)
  /\ outcome[w] # "lost"
  /\ ~ HoldsLease(w)
  /\ IF StoppedAt[pc[w]] = "idle"
     THEN Idle(w)
     ELSE /\ Goto(w, StoppedAt[pc[w]])
          /\ SetOutcome(w, "lost")
          /\ UNCHANGED <<working, current, left, tx>>
  /\ Decides

\* The wall-time budget runs out while the run awaits something in an episode,
\* once.  To a run cancelled before it is one more cancellation.
WallTime(w) ==
  /\ Awaits(w)
  /\ pc[w] \notin {"validate", "finalize"}
  /\ outcome[w] # "timeout"
  /\ Goto(w, StoppedAt[pc[w]])
  /\ SetOutcome(w, IF outcome[w] = "lost" THEN "lost" ELSE "timeout")
  /\ UNCHANGED <<working, current, left, tx>>
  /\ Decides

-----------------------------------------------------------------------------
RunStep(w) ==
  \/ Start(w) \/ Validate(w) \/ Ready(w) \/ Check(w) \/ Running(w) \/ Enter(w)
  \/ Loop(w) \/ CreateEpisode(w) \/ CommitCreate(w)
  \/ Provision(w) \/ Prepare(w) \/ Execute(w) \/ Search(w) \/ Unlinked(w)
  \/ Abort(w) \/ Close(w) \/ Judge(w) \/ Destroy(w) \/ Closed(w)
  \/ After(w) \/ Finalize(w) \/ Fail(w) \/ Block(w) \/ Lost(w)
  \/ CommitCampaign(w) \/ CommitEpisode(w)
  \/ Finish(w) \/ CommitFinish(w)
  \/ FailOrRetry(w) \/ CommitRetry(w) \/ CommitGiveUp(w)

PollQueue(w) ==
  /\ InTime
  /\ Reap(w) \/ \E c \in Campaign : Claim(w, c)

Cancels(c) == CancelRead(c) \/ CancelFlush(c) \/ CancelCommit(c)

Next ==
  \/ \E w \in Worker : \/ RunStep(w) \/ PollQueue(w) \/ Heartbeat(w)
                       \/ LeaseLost(w) \/ WallTime(w) \/ Crash(w)
  \/ \E c \in Campaign : Expire(c) \/ BackoffElapses(c) \/ Cancels(c)

Spec == Init /\ [][Next]_vars

\* A worker process goes on with its run and, when idle, polls the queue; a
\* request that reached the API ends; clocks advance.  Nobody has to crash,
\* to cancel, or to renew.
Fairness ==
  /\ \A w \in Worker : WF_vars(RunStep(w)) /\ WF_vars(PollQueue(w))
  /\ \A c \in Campaign : /\ WF_vars(Expire(c))
                         /\ WF_vars(BackoffElapses(c))
                         /\ WF_vars(CancelFlush(c) \/ CancelCommit(c))

FairSpec == Spec /\ Fairness
-----------------------------------------------------------------------------
(* What the queue and the run promise.                                     *)

Runners(c) == {w \in Worker : Runs(w, c)}

\* A campaign is executed by one worker at a time, as long as workers that
\* are alive renew their leases in time (claim_job, heartbeat).
OneRunner ==
  TimelyHeartbeats => \A c \in Campaign : \A v, w \in Worker :
                         Runs(v, c) /\ Runs(w, c) => v = w

\* A run that was stopped, or failed, and creates no further episode.
Leaving(w) ==
  \/ pc[w] = "raise"
  \/ pc[w] \in {"lost", "fail"} /\ outcome[w] = "lost"

\* While a campaign is executed, an episode that is open is the one its worker
\* drives, until a stopped or failed run is leaving: what an earlier attempt
\* left open was failed before this one began.  While nobody executes it, an
\* episode is open only if a claim of the row is still to come, which fails
\* it, or if the row was cancelled under its runner (_fail_stale_episodes,
\* fail_or_retry_job, ManagedEpisodeEnvironment.close).
OpenEpisodesAreDriven ==
  \A c \in Campaign :
    /\ \A w \in Runners(c) : ~ Leaving(w) => OpenIn(episodes[c]) \subseteq {current[w]}
    /\ Runners(c) = {} /\ job[c].status \in {"COMPLETED", "FAILED"}
         => OpenIn(episodes[c]) = {}
    /\ Runners(c) = {} /\ job[c].status = "PENDING" /\ OpenIn(episodes[c]) # {}
         => job[c].attempts \in 1 .. MaxAttempts - 1

\* The result of an episode is written once: afterwards its capsule is
\* destroyed and nothing else happens to it (set_episode_status against the
\* recovery in claim_job).
EpisodeResultIsFinal ==
  [][\A c \in Campaign : \A i \in DOMAIN episodes[c] :
       episodes[c][i] \notin OpenEpisode
         => episodes'[c][i] \in {episodes[c][i], "DESTROYED"}]_vars

\* A campaign that ended stays as it ended (CAMPAIGN_TRANSITIONS), whatever
\* its workers, their recoveries and the reaper had read before, unless a
\* cancellation struck: then the commits of both sides may cross.
TerminalIsFinal ==
  [][\A c \in Campaign :
       status[c] \in TerminalCampaign /\ ~cancelled'[c] => status'[c] = status[c]]_vars

\* A row is finished or released only by the worker its lease names, even if
\* a cancellation has ended it meanwhile.
OnlyOwnerSettles ==
  [][\A w \in Worker :
       tx[w].kind \in {"finish", "retry", "giveup"} /\ job' # job /\ tx'[w] # tx[w]
         => job[working[w]].owner = w]_vars

\* Whatever crashes, every job is settled in the end and nobody runs it.
EveryJobSettles ==
  \A c \in Campaign : <>[](job[c].status \in SettledJob /\ Runners(c) = {})

\* Whatever crashes, every campaign ends, unless somebody cancels it: a
\* cancellation may write over the ending.
EveryCampaignEnds ==
  \A c \in Campaign : <>[](status[c] \in TerminalCampaign \/ cancelled[c])

\* A campaign whose cancellation is durable does not remain CANCELLING.
CancelledCampaignEnds ==
  \A c \in Campaign : cancelled[c] ~> status[c] \in TerminalCampaign

\* The queue and the run keep the ledger of attempts.
Runner(c) == IF Runners(c) = {} THEN NoWorker ELSE CHOOSE w \in Worker : w \in Runners(c)

Ledger == INSTANCE AttemptLedger WITH
  runner <- [c \in Campaign |-> Runner(c)],
  attempts <- [c \in Campaign |-> job[c].attempts]

\* Every step of the queue is a step of the ledger or none of its business,
\* and every attempt ends (claim_job, heartbeat, finish_job).
KeepsLedger == Ledger!FairSpec
=============================================================================
