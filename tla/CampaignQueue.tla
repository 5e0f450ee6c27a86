---------------------------- MODULE CampaignQueue ----------------------------
(***************************************************************************)
(* The tables behind a campaign and the operations on its queue row:       *)
(* workers claim the row under a lease, renew it, and finish, retry or     *)
(* give it up, while the API cancels campaigns and workers crash.  What a  *)
(* worker does between the claim and the end is module CampaignRun.        *)
(*                                                                         *)
(* The database runs at its default isolation, and the repository reads a  *)
(* row, decides, and writes the changed columns at commit without a        *)
(* version check.  Every such transaction is therefore two steps: the read *)
(* that opens it and leaves what it decided in tx (cancelTx for the API),  *)
(* and the commit.  Statements that are one UPDATE, or that hold the job   *)
(* row's lock from read to commit (claim_job), are one step.               *)
(*                                                                         *)
(* Simplifications: one job runs at a time in a worker process; the order  *)
(* among claimable rows is left open; time is the two flags "expired" and  *)
(* "ready" of a job; the episodes of a campaign run one after another, as  *)
(* in the linear search and the exact replay.                              *)
(***************************************************************************)
EXTENDS CampaignLifecycle, FiniteSets

CONSTANTS
  Campaign,          \* campaigns, each with the one queue row created with it
  Worker,            \* worker processes
  NoWorker,          \* the owner of a row nobody leases
  NoCampaign,        \* what an idle worker works on
  MaxAttempts,       \* worker_max_attempts
  MaxEpisodes,       \* the attack task's max_episodes
  MaxCancels,        \* bound: cancel requests that reach a campaign
  TimelyHeartbeats   \* assumption: a worker that is alive renews in time (InTime)

ASSUME ConstantsAssumption ==
  /\ NoWorker \notin Worker
  /\ NoCampaign \notin Campaign
  /\ MaxAttempts \in Nat \ {0}
  /\ MaxEpisodes \in Nat
  /\ MaxCancels \in Nat
  /\ TimelyHeartbeats \in BOOLEAN

VARIABLES
  \* tables
  status,       \* campaigns.status
  cancelled,    \* campaigns.cancellation_requested
  job,          \* the work_leases row of each campaign
  episodes,     \* the episodes of each campaign, in the order of creation
  \* memory of a worker process
  pc,           \* where its run_once stands
  working,      \* the campaign of its claimed job
  current,      \* the index of the episode it has open, 0 for none
  left,         \* episodes its loop may still create
  outcome,      \* how the open episode, or the run, is ending
  tx,           \* the transaction it has open, if any
  \* memory of an API request that cancels a campaign
  cancelTx, cancels

tables == <<status, cancelled, job, episodes>>
local == <<working, current, left, outcome>>
api == <<cancelTx, cancels>>
vars == <<tables, pc, local, tx, api>>

-----------------------------------------------------------------------------
JobRow == [status : JobStatus, owner : Worker \cup {NoWorker},
           expired : BOOLEAN,     \* lease_expires_at is past
           ready : BOOLEAN,       \* available_at is past
           attempts : Nat]

\* Where a worker stands: each is a call of run_once that is about to be made.
Place == {"idle", "start", "validate", "ready", "check", "running", "enter",
          "loop", "create", "provision", "prepare", "execute", "search", "abort",
          "close", "judge", "destroy", "closed", "after", "finalize", "fail",
          "block", "lost", "raise", "finish"}

Outcome == {"ok", "won", "error", "image", "timeout", "lost"}

Tx == [kind : {"none", "campaign", "episode", "create", "finish", "retry", "giveup"},
       to : CampaignStatus \cup EpisodeStatus \cup {"none"},
       next : Place,
       stale : SUBSET Nat]

NoTx == [kind |-> "none", to |-> "none", next |-> "idle", stale |-> {}]

CancelTx == [at : {"none", "read", "locked"}, sawStatus : CampaignStatus,
             sawCancelled : BOOLEAN, sawJob : JobStatus]

NoCancelTx == [at |-> "none", sawStatus |-> "CREATED",
               sawCancelled |-> FALSE, sawJob |-> "PENDING"]

TypeOK ==
  /\ status \in [Campaign -> CampaignStatus]
  /\ cancelled \in [Campaign -> BOOLEAN]
  /\ job \in [Campaign -> JobRow]
  /\ episodes \in [Campaign -> Seq(EpisodeStatus)]
  /\ pc \in [Worker -> Place]
  /\ working \in [Worker -> Campaign \cup {NoCampaign}]
  /\ current \in [Worker -> Nat]
  /\ left \in [Worker -> Nat]
  /\ outcome \in [Worker -> Outcome]
  /\ tx \in [Worker -> Tx]
  /\ cancelTx \in [Campaign -> CancelTx]
  /\ cancels \in [Campaign -> Nat]

QueuedJob == [status |-> "PENDING", owner |-> NoWorker, expired |-> FALSE,
              ready |-> TRUE, attempts |-> 0]

Init ==
  /\ status = [c \in Campaign |-> "CREATED"]
  /\ cancelled = [c \in Campaign |-> FALSE]
  /\ job = [c \in Campaign |-> QueuedJob]
  /\ episodes = [c \in Campaign |-> << >>]
  /\ pc = [w \in Worker |-> "idle"]
  /\ working = [w \in Worker |-> NoCampaign]
  /\ current = [w \in Worker |-> 0]
  /\ left = [w \in Worker |-> 0]
  /\ outcome = [w \in Worker |-> "ok"]
  /\ tx = [w \in Worker |-> NoTx]
  /\ cancelTx = [c \in Campaign |-> NoCancelTx]
  /\ cancels = [c \in Campaign |-> 0]

-----------------------------------------------------------------------------
(* The queue: claim_job, heartbeat, expiry and backoff.                    *)

Runs(w, c) == pc[w] # "idle" /\ working[w] = c

\* Assumption on polls: a lease that somebody works under may run out, but is
\* renewed before the next poll of a worker finds it.
InTime ==
  TimelyHeartbeats =>
    \A c \in Campaign : job[c].status = "LEASED" /\ job[c].expired => ~ Runs(job[c].owner, c)

\* The row lock a cancelling transaction holds on its campaign, unless what
\* it wrote is what it had read.
Unlocked(c) ==
  cancelTx[c].at = "locked" => cancelTx[c].sawCancelled /\ cancelTx[c].sawStatus = "CANCELLING"

\* Variants: leases are claimed without waiting for their end, or never.
ClaimableUnexpired ==
  {c \in Campaign : /\ job[c].ready
                    /\ job[c].attempts < MaxAttempts
                    /\ job[c].status \in {"PENDING", "LEASED"}}
ClaimablePending ==
  {c \in Campaign : /\ job[c].ready
                    /\ job[c].attempts < MaxAttempts
                    /\ job[c].status = "PENDING"}

Claimable ==
  {c \in Campaign : /\ job[c].ready
                    /\ job[c].attempts < MaxAttempts
                    /\ \/ job[c].status = "PENDING"
                       \/ job[c].status = "LEASED" /\ job[c].expired}

\* Variant: one attempt too late.
ExhaustedLate ==
  {c \in Campaign : /\ job[c].status = "LEASED"
                    /\ job[c].expired
                    /\ job[c].attempts > MaxAttempts}

\* Expired on the last attempt: the next claim fails the job for good.
Exhausted ==
  {c \in Campaign : /\ job[c].status = "LEASED"
                    /\ job[c].expired
                    /\ job[c].attempts >= MaxAttempts}

\* Variant: only a first claim is counted.
LeasedRowUncounted(w, row) ==
  [row EXCEPT !.status = "LEASED", !.owner = w, !.expired = FALSE, !.ready = TRUE,
              !.attempts = IF row.status = "PENDING" THEN @ + 1 ELSE @]

LeasedRow(w, row) ==
  [row EXCEPT !.status = "LEASED", !.owner = w, !.expired = FALSE,
              !.ready = TRUE, !.attempts = @ + 1]

FailedRow(row) ==
  [row EXCEPT !.status = "FAILED", !.owner = NoWorker, !.expired = FALSE]

\* Variant: the campaign is failed whatever it was.
ReconciledAlways(c) == "FAILED"

\* What giving up a job makes of its campaign, "none" if that has ended.
Reconciled(c) == IF status[c] \in TerminalCampaign THEN "none" ELSE "FAILED"

\* Variant: recovery begins at the third attempt.
RecoveredLate(S) == Exhausted \cup {d \in S : job[d].attempts > 1}

\* Jobs whose open episodes claim_job records as FAILED when it leases S.
Recovered(S) == Exhausted \cup {d \in S : job[d].attempts > 0}

\* One call of claim_job: it fails the exhausted jobs and leases at most one
\* job, of the campaigns S, whose earlier attempt's episodes it fails.
ClaimJob(w, S) ==
  /\ \A d \in Exhausted : Unlocked(d)
  /\ job' = [d \in Campaign |->
               IF d \in S THEN LeasedRow(w, job[d])
               ELSE IF d \in Exhausted THEN FailedRow(job[d])
               ELSE job[d]]
  /\ status' = [d \in Campaign |->
                  IF d \in Exhausted /\ Reconciled(d) = "FAILED"
                  THEN "FAILED" ELSE status[d]]
  /\ episodes' = [d \in Campaign |->
                    IF d \in Recovered(S)
                    THEN FailEpisodes(episodes[d], OpenIn(episodes[d]))
                    ELSE episodes[d]]
  /\ UNCHANGED <<cancelled, current, left, outcome, tx, api>>

Claim(w, c) ==
  /\ pc[w] = "idle"
  /\ c \in Claimable
  /\ ClaimJob(w, {c})
  /\ pc' = [pc EXCEPT ![w] = "start"]
  /\ working' = [working EXCEPT ![w] = c]

Reap(w) ==
  /\ pc[w] = "idle"
  /\ Claimable = {}
  /\ Exhausted # {}
  /\ ClaimJob(w, {})
  /\ UNCHANGED <<pc, working>>

\* lease_expires_at passes.
Expire(c) ==
  /\ job[c].status = "LEASED"
  /\ ~ job[c].expired
  /\ job' = [job EXCEPT ![c].expired = TRUE]
  /\ UNCHANGED <<status, cancelled, episodes, pc, local, tx, api>>

\* available_at passes.
BackoffElapses(c) ==
  /\ job[c].status = "PENDING"
  /\ ~ job[c].ready
  /\ job' = [job EXCEPT ![c].ready = TRUE]
  /\ UNCHANGED <<status, cancelled, episodes, pc, local, tx, api>>

-----------------------------------------------------------------------------
(* Transactions of a worker.                                               *)

At(w, place) == pc[w] = place /\ tx[w].kind = "none"

Goto(w, place) == pc' = [pc EXCEPT ![w] = place]

Open(w, kind, to, next, stale) ==
  tx' = [tx EXCEPT ![w] = [kind |-> kind, to |-> to, next |-> next, stale |-> stale]]

\* The process has nothing claimed: run_once returned, or the process died.
Idle(w) ==
  /\ Goto(w, "idle")
  /\ working' = [working EXCEPT ![w] = NoCampaign]
  /\ current' = [current EXCEPT ![w] = 0]
  /\ left' = [left EXCEPT ![w] = 0]
  /\ outcome' = [outcome EXCEPT ![w] = "ok"]
  /\ tx' = [tx EXCEPT ![w] = NoTx]

\* The read of set_campaign_status(c, to).
SetCampaign(w, to, next) ==
  LET from == status[working[w]] IN
  \/ from = to /\ Goto(w, next) /\ UNCHANGED tx
  \/ to \in CampaignTransitions[from] /\ Open(w, "campaign", to, next, {}) /\ UNCHANGED pc
  \/ /\ from # to
     /\ to \notin CampaignTransitions[from]
     /\ Goto(w, "raise")
     /\ UNCHANGED tx

CommitCampaign(w) ==
  LET c == working[w] IN
  /\ tx[w].kind = "campaign"
  /\ Unlocked(c)
  /\ status' = [status EXCEPT ![c] = tx[w].to]
  /\ IF tx[w].next = "idle"
     THEN Idle(w)
     ELSE Goto(w, tx[w].next) /\ tx' = [tx EXCEPT ![w] = NoTx] /\ UNCHANGED local
  /\ UNCHANGED <<cancelled, job, episodes, api>>

CurrentStatus(w) == episodes[working[w]][current[w]]

\* The read of set_episode_status(episode, to); an illegal change raises.
SetEpisode(w, to, next, illegal) ==
  LET from == CurrentStatus(w) IN
  \/ from = to /\ Goto(w, next) /\ UNCHANGED tx
  \/ to \in EpisodeTransitions[from] /\ Open(w, "episode", to, next, {}) /\ UNCHANGED pc
  \/ /\ from # to
     /\ to \notin EpisodeTransitions[from]
     /\ Goto(w, illegal)
     /\ UNCHANGED tx

CommitEpisode(w) ==
  /\ tx[w].kind = "episode"
  /\ episodes' = [episodes EXCEPT ![working[w]][current[w]] = tx[w].to]
  /\ Goto(w, tx[w].next)
  /\ tx' = [tx EXCEPT ![w] = NoTx]
  /\ UNCHANGED <<status, cancelled, job, local, api>>

-----------------------------------------------------------------------------
(* How a claimed job ends.                                                 *)

\* A worker that ends a job it does not own gets a KeyError, which nothing
\* above run_once handles: the process dies.
NotOurs(w) == Idle(w)

\* The read of finish_job.
Finish(w) ==
  /\ At(w, "finish")
  /\ \/ /\ job[working[w]].owner = w
        /\ Open(w, "finish", "none", "idle", {})
        /\ UNCHANGED <<pc, local>>
     \/ job[working[w]].owner # w /\ NotOurs(w)
  /\ UNCHANGED <<tables, api>>

CommitFinish(w) ==
  /\ tx[w].kind = "finish"
  /\ job' = [job EXCEPT ![working[w]].status = "COMPLETED",
                        ![working[w]].owner = NoWorker,
                        ![working[w]].expired = FALSE]
  /\ Idle(w)
  /\ UNCHANGED <<status, cancelled, episodes, api>>

\* The read of fail_or_retry_job: a retry while attempts remain, otherwise
\* the end of the job, of its campaign and of the episodes still open.
FailOrRetry(w) ==
  LET c == working[w] IN
  /\ At(w, "raise")
  /\ IF job[c].owner # w \/ job[c].status # "LEASED"
     THEN NotOurs(w)
     ELSE /\ IF job[c].attempts < MaxAttempts
             THEN Open(w, "retry", "none", "idle", {})
             ELSE Open(w, "giveup", Reconciled(c), "idle", OpenIn(episodes[c]))
          /\ UNCHANGED <<pc, local>>
  /\ UNCHANGED <<tables, api>>

CommitRetry(w) ==
  /\ tx[w].kind = "retry"
  /\ job' = [job EXCEPT ![working[w]].status = "PENDING",
                        ![working[w]].owner = NoWorker,
                        ![working[w]].expired = FALSE,
                        ![working[w]].ready = FALSE]
  /\ Idle(w)
  /\ UNCHANGED <<status, cancelled, episodes, api>>

CommitGiveUp(w) ==
  LET c == working[w] IN
  /\ tx[w].kind = "giveup"
  /\ tx[w].to = "FAILED" => Unlocked(c)
  /\ job' = [job EXCEPT ![c] = FailedRow(@)]
  /\ status' = IF tx[w].to = "FAILED" THEN [status EXCEPT ![c] = "FAILED"] ELSE status
  /\ episodes' = [episodes EXCEPT ![c] = FailEpisodes(@, tx[w].stale)]
  /\ Idle(w)
  /\ UNCHANGED <<cancelled, api>>

Crash(w) ==
  /\ pc[w] # "idle"
  /\ Idle(w)
  /\ UNCHANGED <<tables, api>>

-----------------------------------------------------------------------------
(* cancel_campaign, called through the API.                                *)

\* It reads the campaign, and returns at once when that is terminal.
CancelRead(c) ==
  /\ cancels[c] < MaxCancels
  /\ cancelTx[c].at = "none"
  /\ status[c] \notin TerminalCampaign
  /\ cancelTx' = [cancelTx EXCEPT ![c] = [at |-> "read", sawStatus |-> status[c],
                                          sawCancelled |-> cancelled[c],
                                          sawJob |-> "PENDING"]]
  /\ cancels' = [cancels EXCEPT ![c] = @ + 1]
  /\ UNCHANGED <<tables, pc, local, tx>>

\* Reading the queue flushes the campaign's new columns, and with them takes
\* the campaign's row lock.
CancelFlush(c) ==
  /\ cancelTx[c].at = "read"
  /\ cancelTx' = [cancelTx EXCEPT ![c].at = "locked", ![c].sawJob = job[c].status]
  /\ UNCHANGED <<tables, pc, local, tx, cancels>>

\* The commit.  A column is written only if it differs from what was read:
\* the owner of the row, read as null, stays what it has become meanwhile.
CancelCommit(c) ==
  LET seen == cancelTx[c]
      ends == seen.sawJob # "LEASED"
  IN /\ seen.at = "locked"
     /\ cancelled' = [cancelled EXCEPT ![c] = TRUE]
     /\ status' = [status EXCEPT ![c] =
                      IF ends THEN "FAILED"
                      ELSE IF seen.sawStatus = "CANCELLING" THEN @
                      ELSE "CANCELLING"]
     /\ job' = [job EXCEPT ![c].status =
                   IF seen.sawJob = "PENDING" THEN "CANCELLED" ELSE @]
     /\ cancelTx' = [cancelTx EXCEPT ![c] = NoCancelTx]
     /\ UNCHANGED <<episodes, pc, local, tx, cancels>>

\* cancel_campaign called by a worker that found the request, in one step.
CancelBy(c) ==
  LET row == job[c].status IN
  /\ Unlocked(c)
  /\ status' = [status EXCEPT ![c] =
                   IF @ \in TerminalCampaign THEN @
                   ELSE IF row = "LEASED" THEN "CANCELLING" ELSE "FAILED"]
  /\ job' = [job EXCEPT ![c].status =
                IF row = "PENDING" /\ status[c] \notin TerminalCampaign
                THEN "CANCELLED" ELSE @]
=============================================================================
