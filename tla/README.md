# Verification of the adversarial agent platform

TLA+ models of the platform's control core (`backend/src/adversarial_agent_mvp`), checked
with TLC and, where marked, proved with TLAPS. Paths below are relative to that directory
unless they begin with `src/`.

Contents: [inventory](#1-inventory), [modules](#2-modules), [runs](#3-runs),
[fairness](#4-fairness), [proofs](#5-proofs), [disagreements found](#6-disagreements-between-code-and-documentation),
[what is not modelled](#7-what-is-not-modelled), [plan](#8-plan).

## 1. Inventory

The platform runs *campaigns* and *research sessions* against an agent under test. An HTTP
API writes rows to a database (SQLite or PostgreSQL). Worker processes poll a work queue in
that database, lease a row, and execute it: they ask the *capsule supervisor* for a capsule
(two docker containers on a network of their own: the Blue gateway and the target), drive the
target through the gateway step by step, judge the episode, and destroy the capsule. Results,
findings, evidence and usage go back to the database and to an artifact store.

| Component | State | Operations | Hard behaviour | What makes it correct |
|---|---|---|---|---|
| Status tables (`contracts.py`, `storage.py` 455-506) | - | transition checks | - | a status only moves along the tables |
| Work queue (`storage.py` 969-1028, 1741-1998) | `campaigns`, `episodes`, `work_leases` | create, claim, heartbeat, finish, fail or retry, cancel | transactions that read, decide and write at commit; leases that expire under a live worker; crashes | one runner per campaign; a settled row leaves an ended campaign; what a crash leaves open is failed before the next attempt |
| Campaign run (`orchestrator.py`) | memory of the worker, campaign and episode rows | run, new environment, close, judge, fail, block | cancellation at every await; partial clean-up; wall-time limit | an episode's result is written once; an open episode has a driver |
| Worker process (`worker.py`) | slots, runner, heartbeat task, maintenance task | run_once, heartbeat, maintenance | exceptions that escape, lost leases | the run of a lost lease ends; the process gets free |
| Capsule supervisor (`supervisor.py`, `capsule.py`) | semaphore, handles, docker resources | create, destroy, reap, start-up reconciliation, shutdown | concurrent destroys, failed and timed-out docker commands, restarts | slots add up; destroyed means gone; old capsules go |
| Research sessions (`research.py`, `research_worker.py`) | sessions, commands, owners' quota | create, submit, heartbeat, begin, execute, retire, release, maintain | superseded workers, crashes between effect and answer, concurrent retires | no blind replay; answers are final; reservations add up; every session ends |
| Research evaluations (`research_evaluations.py`) | evaluation records, child sessions | schedule, aggregate | re-scheduling by children, crashes | every case gets one session, and the result is recorded once, from all of them |
| Research transfers (`research_transfers.py`) | uploads, dataset records, reserved bytes, files | transfer, finalise, cancel, expire, freeze and export a dataset | requests that await the disk with the row unlocked, restarts, two runs of one job | the owner's bytes add up; a completed upload is whole; a dataset holds what was frozen |
| Request limits (`research_requests.py`) | one counter per window | admit a request | window boundary | no more than the limit in a window |
| Target inference (`inference_mailbox.py`, `inference.py`) | mailbox, broker's budget and records | submit, claim, reply, settle | lost claims, a queue of four, teardown | a request is dispatched at most once; budgets hold; every record is collected |
| Blue gateway (`blue_gateway.py`, `blue.py`, `policy.py`) | registry of episodes | bootstrap, reset, process, drain, remove | repeated calls, drain against process | an effect happens once per correlation id; the verifier's signals are those of the world; nothing happens after a drain |
| Target adapter (`target_adapter.py`, `environment.py`, `interventions.py`, `aml_target_protocol`) | trace cursor, receipts | reset, step, deliver | unknown deliveries, forged and late identifiers | a receipt says what was delivered; the trace the worker reads is whole |
| Budget and usage (`budget.py`, `storage.py` 1030-1132) | counters, campaign row | admit, add usage, record the target's usage | one column with two writers, attempts that start from what earlier ones used | limits hold over all attempts |
| Red search (`red.py`) | frontier, memory, replayed prefixes | propose, expand, replay | concurrent branches that fail or are cancelled, a second attempt on what the first left | the best node wins and can be replayed; no branch outlives the search; attempts share one budget |
| Hardening (`orchestrator.py` 1225-1338, `api.py`) | hardening runs, child campaigns, the finding | request, create, finalise, bundle | children that end before the run's row exists or without a completion; two finalisers; cancellations written late | a run ends when its children do; a verdict is final, unless a cancellation overtakes it, and proved by the children |
| Verifier, virtual world (`verifier.py`, `virtual_world.py`) | trace, simulated services | record, judge, snapshot | - | verdicts follow the rules |
| Promotion statistics, evidence, artifacts, catalogue, models, tokens, telemetry, API views, reference target, migrations, UI | documents and files | load, hash, sign, render | - | functional |

How they interact: API and workers share only the database; the heartbeat runs in the same
process as the run and cancels it; the worker calls the supervisor over HTTP, and the
supervisor calls docker; the supervisor and the gateway exchange bootstrap, requests and
traces over HTTP; the maintenance task of every worker process retires sessions that no
worker can claim, concurrently with workers that still run them.

PROJECT.json lists the hazards of this code with the properties that watch them.

## 2. Modules

### Campaigns

* `CampaignLifecycle`: the status vocabularies, the two transition tables and
  `_fail_stale_episodes`.
* `CampaignQueue` (extends it): the tables, and one action per operation on the queue row.
  A repository transaction is a read that leaves its decision in `tx[w]` (`cancelTx[c]` for the
  API) and a commit that writes the decided columns, whatever the row has become: this is what
  the default isolation of the database and an ORM without version column do. `claim_job` locks
  its row (`FOR UPDATE SKIP LOCKED`) and is one step; `heartbeat` is one UPDATE.
  `expired` and `ready` stand for `lease_expires_at` and `available_at` being past.
* `CampaignRun` (extends it): `CampaignRunner.run` as a program counter per worker,
  `pc[w]`, with one action per stage: `Start`, `Validate`, `Ready`, `Check`, `Running`, `Enter`,
  `Loop`, `CreateEpisode`, `Provision`, `Prepare`, `Execute`, `Search`, `Unlinked`, `Abort`, `Close`, `Judge`,
  `Destroy`, `Closed`, `After`, `Finalize`, `Fail`, `Block`, `Lost`; the heartbeat's cancellation
  (`LeaseLost`) and the wall-time limit (`WallTime`) arrive at awaits only, among them the
  close of the delegate in `_new_environment`'s own handler (`abort`), where a cancellation skips the FAILED write and the
  destroy; `Unlinked` is the factory of a search that fails once the environment is there. A crash clears the
  worker's memory at any step. The properties are stated here.
* `AttemptLedger`: the abstract promise of the queue, which executes nothing: attempts of a
  campaign follow one another, each has one worker, there are at most `MaxAttempts`, and each
  ends. `CampaignRun!Ledger` is the refinement mapping: the runner of a campaign is the worker
  whose `pc` is not idle, the attempts are `attempt_count`.

Simplifications: one job at a time in a worker process; the order among claimable rows is
open; episodes run one after another (linear search and exact replay; the adaptive search is
`RedSearch`); a worker's own call of `cancel_campaign` is one step; token and cost budgets are
in `RedSearch`; aborts by the database's deadlock detection are ignored (they behave as a raise).

### Capsules

* `CapsuleSupervisor`: `SupervisorState` with its semaphore and handles, the calls of `create`
  and `destroy` (per caller: the worker's DELETE, the reaper, `close()`, a failed create),
  `DockerCapsuleRuntime`'s order of resources, start-up reconciliation and shutdown. A docker
  command is a step; it fails, or takes effect and is reported failed (time-out). Removing a
  missing container may or may not be an error, which differs between docker versions.

Simplifications: the reaper takes its capsules one at a time, which its strong fairness makes
up for; the probes of the network boundary are one refusal; the gateway's own DELETE and the
relay are left out of `destroy`; a docker command still running when the supervisor dies has
its effect before or not at all.

### Blue gateway

* `VirtualWorld`: the five simulated services (`virtual_world.py`) as operators on a record: what an
  effect does, what it answers, which private events it emits.
* `BlueEngine` (extends it): policy decision, transformation and verifier signals of one effect
  (`blue.py`, `policy.py`, `verifier.py`).
* `InterventionDelivery`: prepare, overlay, finish and receipts of `interventions.py`, with the payload
  rules of the target protocol.
* `BlueGateway` (extends the two): one episode between the worker's adapter (`Prepare`, `Reset`, `Invoke`, the
  trace's cursor, `Drain`, removal) and a target that attempts effects whenever it likes, repeats them,
  forges delivery identifiers and reuses correlation ids. A body under `episode.lock` never suspends and is one step;
  `target_lock` is held across the call of the target, which the adapter may give up while the
  gateway goes on. `told`, `handed` and `drained` are history: what the target was answered, which
  deliveries were put into a tool's answer, and that a drain was answered.

What the `approved` flag of the payment state means for policies is `Approved`, set by `payment.approve`, as in the code.

Simplifications: capability tokens, the inference mailbox (`TargetInference`), path names of operations
and the network between the parties are left out; texts are their labels; random identifiers are positions.

### Red search

* `RedActions`: mutation, deduplication, choice, ranking and novelty of actions, as operators.
* `StrategyMemory`: the strategy store: retrieval, hints, what a trajectory credits or adds.
* `RedSearch` (extends both): the five kinds of run of a campaign (`ADAPTIVE`, `NEARBY_BYPASS`, `LINEAR`,
  `EXACT_REPLAY`, `BENIGN_REGRESSION`) with the budget tracker and the usage on the campaign's row. What the
  target's own model calls use is added to the same column (`TargetCharge`); a tracker knows what it found there when its attempt
  began (`target.known`), and not what is added meanwhile. The beam
  search keeps the frontier, the best node and the candidates; its branches run side by side, each
  in an episode of its own whose prefix it replays and compares. Every branch may fail, diverge or
  be cancelled at each await, or lose its environment when the factory fails after it was made (`Leave`); the attempt may be lost and is then repeated. `Collect` folds the gathered results in rank order: what
  each shows that is new, the store, the best node, the heap.

Simplifications: statuses (`CampaignRun`), the observer, costs (counted like tokens) and the tracker's own wall
clock are left out; weights are the defaults of the configuration; ablations are off; a mutation's
wording is its name.

### Hardening

* `Hardening`: `create_hardening` and `replay_finding` in the API's order (associate, children exact,
  bypass, benign, row last), the children as workers claim, run and end them, `_finalize_hardening_runs` (`Look`, `Read` for each child, `Judge`)
  with its three proofs, `complete_hardening_run` (`Write`) and the bundle. A cancellation (`AskCancel`, `CancelWrites`) reads a child while
  it is open and writes CANCELLING or FAILED over whatever it has become, also over COMPLETED; `Reopens` is the reverse, a status of
  the run written over a cancellation. A child's execution is
  reduced to how it ends and what its episodes put on record.

Simplifications: all runs are of one finding, each under a policy version of its own; a child is
executed as `CampaignRun` and `RedSearch` describe.

### Research sessions

* `ResearchSession`: the API's `create_session`, `submit` and heartbeat; the queue row of the
  session; the run of `ResearchSessionRunner` (external mode: `Loop`, `ClaimCommand`, `Guard`,
  then `ResetCloses` ... `Observed` for a reset and `Step`, `Act`, `Answer`, `Detach`, `Forget` for a
  step; managed mode: `Choose`, `Propose`, `Proposed`); `retire` as the steps `Retire`, `Clean`,
  `Commit`, `EndCampaign`, `EndEpisode`, `Wake`; the maintenance task (`Keeper`) which calls the same
  `retire`. Transactions under the owner's lock (`lock_owner`) are one step. `flight` is what the target's model calls cost
  that nobody has collected yet: a step collects those that are answered by then, a later step or the closing
  environment (`Collects`) the others, or nobody if the process dies first. What a call costs is any member of `Usage`, since
  no usage is compared with a reservation. `began` counts how often the effect of an operation was begun, and `unanswered`
  holds the sessions whose operation under way has asked a model: both are history.

Simplifications: money is counted in units, and a proposal is admitted with one; request keys are left out (a repeated key
returns the first answer and changes nothing); a campaign's status change is one step, its
race with a cancellation being the subject of `CampaignRun`; the retry delay of the job is left
out; the maintenance task takes one session at a time; an episode that fails while it is
provisioned is added in its final status.

### Research artifacts

* `ResearchArtifacts`: the owner's row with `reserved_bytes`, the uploads with their handlers (bytes,
  finalisation, cancellation, expiry, API restart), dataset snapshots (freeze, export) and evaluations (schedule, sessions of the
  cases, wake-up, report). Transactions run under the owner's lock and are one step, with one exception: who gives uploads up - a
  cancellation, or maintenance for all that expired - unlinks their files and commits after that, or does not. `Discard` removes the file
  (`lost`), `GiveUp` is the commit, `RollBack` a failed commit or the death of the process, and no other transaction runs
  between (`Unlocked`). A handler awaits
  the disk and the store with the upload's row unlocked; a job's run in a thread goes on after its lease is lost.
  The worker that ended a session schedules the evaluation, or does not get that far (`asleep`).

Simplifications: contents of objects (a file is partial or whole), the store (an object without a row is never
looked at), idempotency keys with other content, and the sessions themselves.

### Target inference

* `TargetInference`: the mailbox of the gateway (`order`, `claimed`, `result`, `records`), the handler of
  the target's post (`Check`, `Submit`, `Answer`, `TimeOut`), the supervisor's relay (`Claim`, `Post`,
  `FailClosed` and their variants with a lost message), the broker (`Work` reserves, `Dispatch` settles)
  and the worker's adapter (`Collect`, `Drain`, `GiveUp`), with `DockerCapsuleRuntime.destroy` as `StopRelay`
  and `RemoveEpisode` at any time. The provider may use up to `MaxUse`, which may be more than the
  reservation: the code does not check what is reported against it, so the budget can be exceeded, by the
  excess of one call. What lies between two awaits is one step; the handler's check of
  `draining` and its `submit` are two, because the body is read in between. `spent`, `calls` and `drained`
  are history: what the provider used, how often it was called, and what the mailbox held when the
  drain began.

Simplifications: one episode; a request identifier carries one input (another input is refused and
changes nothing); one reservation for all calls, and cost goes with tokens; a usage the
provider reports is true; server errors of the gateway, and messages lost between
worker and gateway, are left out (the close fails on them).

## 3. Runs

| Run | Instance | Question |
|---|---|---|
| `campaign_attempts` | 1 campaign, 2 workers, 3 attempts, 2 episodes, 2 cancel requests, fair | can a crash, a failure or a cancellation anywhere leave two runners, an undriven episode, a changed result or ending, an unsettled job; is the ledger kept? |
| `stuck_cancelling` | 1 campaign, 1 cancel request, fair | counterexample, section 6 |
| `capsule_slots` | 2 capsules for 1 slot, 1 fault, 1 restart, fair | slots, destroyed means gone, nothing left behind, old capsules go |
| `capsule_slot_lost` | 1 capsule, no fault | counterexample, section 6 |
| `blue_gateway` | three targets, 2 correlation ids, 2 resets, 2 turns, 2 receipts | effects once, true receipts, the verifier's view of the world, the trace, the drain |
| `red_search` | all five kinds, 3 episodes of 2 steps, 2 branches, 4 tokens for the attacker's model, up to 4 used by the target, 2 attempts | budgets over attempts, no branch left running, nodes that can be replayed, best winner, credits, termination |
| `hardening_open` | 1 run, 2 attempts per child, fair | counterexample, section 6 |
| `research_handover` | 1 session, 2 workers, late heartbeats, 3 commands | no replay, final answers, one end, charges, nothing left unanswered |
| `research_sessions_end` | an external and a managed session, quota for one, calls that may cost twice the reservation, the managed one's campaign cancelled, 1 crash, fair | reservations add up; every session ends |
| `research_stuck` | 1 session, 2 workers, late heartbeats, 1 crash, fair | counterexample, section 6 |
| `research_artifacts` | two uploads that do not fit together, two that do, one beside a dataset, or an evaluation of 2 case pairs; 2 handlers, 2 runs, fair | the owner's bytes, whole uploads, faithful results that arrive |
| `target_inference` | 2 requests posted twice, budget for 1.5 reservations, 3 lost messages | calls once, honest records, budget, charges, close |

Bounds. Two workers are enough for every race the code can have over one row: a lease has a
current and a former holder, and a third worker would repeat what the former does. One campaign
is enough, because no two campaigns share a row: `claim_job` looks at all rows, but fails and leases
each by its own columns; that several campaigns do not disturb each other's runner is proved (section 5). Three attempts
reach first, middle and last. Two capsules for one slot make creates wait. Three commands are a
reset and two steps, the least that gives an episode a second index, or a reset and a step with a
close on top. `MaxCommands` bounds what a client submits and `MaxOps` what a managed session's attacker does. `research_handover` has no crashes of its own: with late heartbeats a worker may stop at
any step for as long as it likes, and what a second one then sees is what it would see of a dead one;
`research_sessions_end` has the crashes, with the operations of a managed session.
`target_inference` lets a call use one token more than its reservation; it has two requests, so that one waits while the other is worked on, and a token
budget that one reservation leaves too small for the next. Three lost messages let the relay use up
all its three attempts to deliver one result; two failed claims in a row stand for the hundred of the
code; posting each request twice is the least that makes a duplicate.
`blue_gateway` has two correlation ids, so that one is reused while another is fresh; two resets, so that
memory and deliveries of one scenario meet the next; and targets whose effects are chosen so
that policies block, transform and approve and every verifier rule has something to see.
`red_search` has two branches in flight and a beam of one, so that a branch's failure meets its
sibling and a frontier is cut. Four calls of the attacker's model are two rounds of proposal and ranking, so that
the second round replays a prefix whose node was scored and compares it (`Comparable`), and some of these replays diverge, win or
run out of steps; invariants that deny each of these cases were refuted by TLC. A target that uses all four tokens at once exhausts the next attempt's budget before it begins.
`research_artifacts` asks for one of four things in a behaviour (`MCAsked`), because what they share is the owner's row: two
uploads that exceed the quota together, two that one maintenance pass can expire, a dataset that does not fit beside an upload, and an evaluation whose two case pairs let
one session's end schedule it while others are open; `MaxRequests` lets an upload be transferred and completed twice where nothing else is looked at.
`research_sessions_end` lets the campaign of the managed session be cancelled, which `Provision` finds when it starts an episode.
`MaxCancels`, `MaxCrashes`, `MaxFaults`, `MaxDeletes`, `MaxStops`, `MaxCommands`, `MaxOps`, `MaxResets`, `MaxTurns`, `MaxRequests`, `MaxSends` and
`MaxLost` bound the environment, not the code (`MaxTurns` and the receipt limit are also limits of the code, made small). Deadlock checking is off: all these systems stop when the clients have nothing left
to ask and the bounds are used up. Workers, the correlation ids of `blue_gateway` and the requests of
`target_inference` are symmetric in the safety runs; no run with a liveness property
uses symmetry.

`TimelyHeartbeats = TRUE` is an assumption: a worker that is alive renews in time. For campaigns it
is as weak as it can be: a lease may run out under a living worker, but is renewed before the next poll of
a worker finds it (`InTime`, a condition on polls); for sessions the lease of a living worker does not run out. The heartbeat is a task
of the same event loop with a third of the lease as interval, so it holds unless the loop is blocked or
the database is slow. `research_handover` and `research_stuck` set it to FALSE.

## 4. Fairness

`CampaignRun!Fairness`, `CapsuleSupervisor!Fairness` and `ResearchSession!Fairness` give weak
fairness to the steps of a process that runs (asyncio resumes a task whose await is done, and
HTTP and docker calls have time-outs), to polling (`run_forever` loops), to the maintenance task
(every five seconds) and to clocks. Nobody has to crash, cancel, submit or renew. The reaper is
given strong fairness per capsule because its snapshot contains every expired capsule, which
the one-at-a-time model would not guarantee otherwise.

`RedSearch` has weak fairness of `Progress`, the steps of the run itself: whatever is ready goes on, and
every call of model and target is answered or fails by its time limit; losing the attempt and cancelling are free. `ResearchArtifacts` has strong fairness of `Computing`: workers claim, run and
finish jobs, and sessions end (the subject of `SessionsEnd`); it is strong because these steps wait for the owner's lock, which a transaction that gives
uploads up takes again and again while others wait, and who waits for a lock gets it. Such a transaction ends (weak fairness of `GiveUp \/ RollBack`).
That an evaluation is scheduled by the worker that ended its session is not assumed; requests, losses and restarts are free.
`Hardening!Fairness` lets workers claim and go on, and a poll fail a child that is out of attempts, where no cancellation has taken the child's job.

## 5. Proofs

The modules `*Proofs` hold for any sets of campaigns, workers, capsules, requests, sessions, correlation ids and hardening
runs, finite or not, and any values of the bounds that satisfy the named assumptions of their modules: for inference,
`Request` is finite; for artifacts (`ArtifactConstants`), `Upload` is finite with sizes in `Nat`; for the gateway, routes name
services (`WorldConstants`) and policies the four decisions (`PolicyConstants`), and for the verifier the scenario does not start in one of
its own forbidden states (`CleanStart`: the code leaves that to the operator's acceptance checks, `scenarios.py` 99); for the red search the bounds are numbers,
at least one episode and one candidate, and the source, which is the episode of a finding or a list of benign actions that may not be empty, has an action (`ActionsAssumption`, `SearchAssumption`: the ranges of `contracts.py` and
`red_contracts.py`); what actions, strategies, hints and observations are made of is left open. `Hardening` has none.
A theorem about heartbeats in time says so in its statement. Every theorem but `QueueKeepsLedger` (a step simulation) is of
the form: an inductive invariant holds initially, every action keeps it, and it implies the property or what a step may do.

| Module | Theorems, and the run's property each states | Invariant |
|---|---|---|
| `CampaignProofs` | `TypeCorrect` (`TypeOK`), `OneRunnerAlways` (`OneRunner`), `QueueKeepsLedger` (safety of `KeepsLedger`), `OpenEpisodesAlwaysDriven` (`OpenEpisodesAreDriven`), `EpisodeResultsLast` (`EpisodeResultIsFinal`), `EndingsLast` (`TerminalIsFinal`), `OwnersSettle` (`OnlyOwnerSettles`) | `TypeInv`, `LeaseInv`, `EpisodeInv` |
| `SupervisorProofs` | `DestroyedStaysGone` (`DestroyedIsGone`), `NothingEverLeftBehind` (`NothingLeftBehind`), `SlotsAlwaysAddUp` (`SlotsAddUp`), `SupervisorTypes` (`TypeOK`) | `SupInv`, `SlotsKept` |
| `InferenceProofs` | `NeverSentAfterAllAlways` (`NeverSentAfterAll`), `AnswersRecordedOnce` (`RecordedOnce`), `BudgetAlwaysCovers` (`BudgetCoversCalls`), `UsageChargedOnce` (`ChargedOnce`), `ClosingSettles` (`ClosedIsSettled`) | `SendInv`, `RecordInv`, `SpendInv`, `UsageInv` |
| `SessionProofs` | `EffectsNeverRepeat` (`EffectsBeginOnce`), `AnswersStand` (`AnswersAreFinal`), `SessionsEndOnce` (`EndsOnce`), `EndedSessionsStayClean` (`EndedSessionsAreClean`), `ReservationsAlwaysAddUp` (`ReservationsAddUp`), `UncertainCallsAlwaysCharged` (`UncertainCallsAreCharged`), `SessionTypes` (`TypeOK`) | `SessionInv` |
| `ArtifactProofs` | `UploadsAlwaysWhole` (`UploadsAreWhole`), `ResultsAlwaysFaithful` (`ResultsAreFaithful`), `StorageAlwaysAddsUp` (`StorageAddsUp`) | `UploadInv`, `JobInv`, `StorageAddsUp` |
| `GatewayProofs` | `ExecutedAtMostOnce` (`ExecutedOnce`), `ReceiptsAlwaysTrue` (`ReceiptsAreTrue`), `TraceAlwaysComplete` (`TraceIsComplete`), `DrainedAlwaysQuiet` (`DrainedStaysQuiet`), `VerifierAlwaysSeesTheWorld` (`VerifierSeesTheWorld`) | `GatewayInv`, `VerifierInv` |
| `SearchProofs` | `BudgetAlwaysShared` (`AttemptsShareTheBudget`), `NothingEverRunsAfter` (`NothingRunsAfterTheSearch`), `NodesAlwaysReplay` (`NodesAreReplayable`), `TheBestWins` (`WinnerIsBest`), `WinsAlwaysCredited` (`WinsAreCredited`), `SearchInvariant` (`TypeOK` and the rest of `Inv`) | `Inv`: `Phases`, `Episodes`, `Tokens`, `Trajectories`, `Bests`, `Credits`; and `InTheBudget`, `Quiet`, `LeftOpen` |
| `SearchProofs`, last part (`H == INSTANCE Hardening`) | `VerdictIsFinalAlways`, `PassedIsProvedAlways` (of no run: the module's only run is a counterexample; TLC agrees with both on one run with two of its children, one of which is cancelled, and refutes the first without its exception) | `HInv`: `AnsweredFirst` and its companions |
| `SumProofs` | lemmas about `SumFunctionOnSet` and about folds over sequences | - |

**Campaigns.** `TypeOK` is not inductive: what a transaction decided must fit the row it is going to be written to.
`TypeInv` is the conjunction of the tables, the counters, the memory of runs and of API requests, with the
relation between an open transaction and its worker's campaign. `LeaseInv` says that a worker that
runs a campaign is the owner on its row, whose status is LEASED or, after a cancellation, CANCELLED. Each action is
shown either to leave the runners of other campaigns and their rows alone or to be a claim, and a claim needs a
pending row or an expired one, which by `LeaseInv` and `InTime` nobody runs. Under timely heartbeats
every behaviour of the queue and the run is one of `AttemptLedger` (safety): a claim maps to `Begin`, the end of a
run in any way to `End`, everything else stutters; `LeaseInv` gives `runner[c] = NoWorker` before a claim.

`EpisodeInv` adds which statuses the driven episode can have at each stage of the run (`Stage`), unless a cancellation in the handler or a failing
factory has just left it as it was (`Abandons`); that no other episode of the campaign is open until a stopped or failed run is leaving
(`Leaving`); that a transaction writes what its stage may write (`TxFits`); and that a row nobody holds leaves
an episode open only if it was claimed before and can be claimed again (`Unclaimed`): whoever claims it next, or gives it up, fails what is open. `Frame` says that a step of one worker leaves the others and their campaigns alone, so that each
action is looked at for its own campaign only. All four theorems assume `TimelyHeartbeats`, without which
the properties are false (section 6).

**Capsules.** `SupInv` says of every cleanup in progress that it has failed or still has to do whatever the capsule has in
docker, and how much of a capsule can exist at each place of its creation; the network is removed last, so a target on it
cannot keep it from being removed. `SlotsKept` counts: every step takes a slot and adds one holder, gives one back
and removes one, or changes neither. That `free` is never negative (`SupervisorTypes`) needs the count.

**Target inference.** That no call is made twice is not inductive: a request the relay works on must
not have been sent before. `SendInv` adds that what was sent was claimed, what the relay works on is claimed and
unsent, what broker and relay call not dispatched is unsent, and a request on record as not dispatched is
answered and not in the relay's hands. So a time-out can only strike an unclaimed request, and a claim only an
unanswered one. `RecordInv` says what a record is (the result of a request that is done) and that the mailbox holds a
request once; `SpendInv` that the broker's count is the sum of its charges, a reservation for what is not
settled; `UsageInv` that the adapter's cursor separates the records that are billed.

**Research sessions.** `SessionInv` has eight parts, and a step keeps a part by what the others say of the state before it:

1. `Types`; the reservation is only an integer here, and that it is not negative follows from part 8.
2. `Places`: what a process can have in memory where it is, and that it runs only sessions that exist.
3. `Leases`: every claim has a fence of its own, so at most one worker has the fence on the session's row;
   the maintenance task, which retires with a fence it read, has it only when no lease with it is left.
4. `Runs1`: commands are executed by the first claim only, since a session that some worker had is only retired;
   once the session is over, no fence check that its run still makes succeeds.
5. `Commands`: the command in a worker's hand is running, or was ended under it as indeterminate; its effect has not begun before
   it does; what is pending or running belongs to a session that is not over.
6. `Capsules`: the capsule on record is the only one attached, the run has it in memory, and whoever retires the
   session with the fence on its row cleans that one.
7. `Calls`: a session has asked a model without an answer only while its worker is in a call, or while the command that asked
   is running or was ended as indeterminate.
8. `Accounts`: a session is released exactly when it ends, and the owner's two amounts are what `ReservationsAddUp` says.

Neither replay nor release is prevented in one place of the code: part 5 needs parts 3 and 4, as a superseded worker
goes on until its next fence check; parts 6 and 8 need that two processes that retire one session side by side
commit once (`CommitterAlone`, `CommitRow`). Steps are classified first (`Worked`, `Retired`, `Served`), and locality lemmas
(`Still`, `Rows`, `OpsMove`, `Shrinks`, `MoneyKept`) say what a step leaves alone, so that each part is looked at
only where it can be disturbed. No theorem assumes timely heartbeats.

**Research artifacts.** `UploadInv` says that at most one handler is at work on an upload, at a place which its status allows
(`PlaceFits`), that what a transaction gives up does not change before it ends (`Giving`, by the lock), and that the file of an upload given up, or being given up, is one its handler still removes (`FileOwned`): a status given up never
returns, so the handler finds it when it takes the row again. `JobInv` says what the runs of a job, of which several may go on at once,
hold in memory. A cutoff is a number of completed operations, so the selection computed later or again is the same; a
session that is over stays as it is, so samples once judged stay judged (`JudgedStays`). `StorageAddsUp` needs both: a step
that changes `reserved` moves one upload into or out of those that count, or records one result for the first time.

**Blue gateway.** `RequestInv` says that the adapter has one call at a time, and waits for it. From that, a delivery is
active during its invocation and no longer (`DeliveryInv`), so no reset meets one, and receipts are numbered as they come.
`CallInv` says that a correlation id is in the audit log, once, exactly if its answer is remembered; `TraceInv` that what
the adapter has read is a prefix of the log, unless a reset was asked for, which may have emptied it; `DrainInv` that an answered drain
leaves no reset and a closed adapter. These treat world, policies and verifier as opaque. `VerifierInv` looks into them: for each
service and each policy decision, the state after an effect carries a forbidden trace exactly if the state before did or one of the effect's
events is of the forbidden kind (`ExecuteSeen`), other services leave the trace alone, and a reset renews world and signals in one step.

**Red search.** Tables, run and branches each know a part of what the properties relate, and the invariant says how the parts agree:

1. `Phases`: where the run is, how many branches it has and for which episodes; a branch has no result before it closes, and
   outside `gather` and `episode` all of them are done or were left by their factory. A branch that was left counts as failed, so `Collect` raises or sees the
   cancellation (`LeftOpen`). Together this is `NothingRunsAfterTheSearch` and more.
2. `Episodes`: the seeds in the table are 0, 1, 2, ... (a scripted run has one), and unless the campaign is cancelled the table holds
   the episodes of earlier attempts (`base`), those explored, and those of the branches that have begun: the first `k` of the queue,
   because the semaphore serves them in order (`Waiting`). So the seed `base + episode - 1` a branch computes from its own number is
   the next one of the table, and the tracker, which an attempt starts from the table, refuses no episode that was ranked within
   what remains; and it lets none begin for which the table has no room (`InTheBudgetNext`). A cancellation leaves holes at the end of the queue, but no branch begins after it.
3. `Tokens`: the tracker knows what the attacker's model has used, and what the target had used when the attempt began; each attempt passes
   the bound by one call at most. An attempt that begins with the bound used up has no proposal admitted, hence no node and no branch that
   sends anything (`Quiet`).
4. `Trajectories`: what a branch has gathered at its next step (`Underway`): with a prefix that has scores, exactly those
   of its parent; otherwise one reward per answer, and their sum. `NodesAreReplayable` is not inductive without it, nor without
   what a result must be before it is collected (`ResultFits`).
5. `Bests`: while the search goes on no node has reached a forbidden state and `best` is a best one of all nodes, those pruned
   included. That `BestOf` returns a maximum is shown along the fold (`TopGrows`, `BestIs`).
6. `Credits`: every id credited is of an earlier attempt or of an episode explored before (`IdsBelow`), so a result that is
   collected is not credited yet, and a win adds one to a set and to its count (`CreditStep`, `RecordedIs`).

`MovesInv` treats every step of a branch alike: it changes that branch only, keeps its episode, keeps it active until it closes, and what it
does to the trajectory is shown in `ReplayMoves` and `CandidateMoves`. The other actions have a lemma each.

**Hardening.** Two workers may both have read a hardening run as PENDING, and `complete_hardening_run` does not look at the
status again, so the second write is harmless only if both decide the same. That a child is over does not suffice: a cancellation
that read it before may still write over its status. What does not come back is its worker: a child that is not open and that no worker runs
(`Gone`) stays so, nothing is put on record for it any more, and its status stays unless a cancellation read it in time (`GoneStays`, `StepFreezes`). A child
read as COMPLETED is gone, whatever became of its status since (`IsSo`, `ReadIsSo`). So a verdict of PASSED rests on evidence that stays,
and every verdict is the one of the statuses on record (`Settled`) unless a cancellation excuses it; the invariant says so of what a
worker is about to write (`WritesTheVerdict`) and of the row (`HasTheVerdict`), which comes last (`AnsweredFirst`).

**Sums.** The community modules define sums by recursion over a finite set, and the library's induction takes an
operator, which the provers cannot instantiate. `SumProofs` argues by the smallest exception instead: if a set of finite
subsets is not empty, it has a member without a smaller one (`SmallestException`, from the well-founded order of
subsets), and such a member is refuted. From that it has the value of a sum by any of its members, additivity, and
comparison along an injection. The same argument, with the highest position as the next element, gives what `FoldLeft` accumulates: there is a
sequence of values, one for each position, each of which the step makes of the one before (`SequenceFold`), and what the step
keeps holds of all of them (`FoldTrail`). So what `Deduplicated`, `Pushed`, `BestOf`, `Recorded` and `Total` compute is proved for sequences of
any length, without induction over data.

Only model-checked: the liveness properties `EveryJobSettles`, `EveryCampaignEnds`, `OldCapsulesGo`, `SessionsEnd`,
`ResultsArrive` and `SearchEnds` and the fairness of the ledger (part of `KeepsLedger`), since TLAPS has no rules for ENABLED here. Every
invariant and every action property of a passing run is a theorem.

## 6. Disagreements between code and documentation

Each is the counterexample of a run, with the line it contradicts in PROJECT.json.

* `stuck_cancelling`: a cancellation overwrites a final status with CANCELLING, for good.
* `capsule_slot_lost`: two destroys of one capsule both fail on what the other removed, and the
  slot is held until the supervisor restarts.
* `research_stuck`: the session's fence moves backwards, and nobody retires the session.
* `hardening_open`: only the completion of a child looks at its hardening run, so a run whose last child
  ends in any other way, or before the run's row exists, stays PENDING.

Some properties hold only within the assumption their run or their statement names. Each fails when
that is dropped as follows, for a reason that lies in the code:

* What `OneRunner` says of `TimelyHeartbeats = TRUE` is false otherwise: a worker whose lease expired runs on until its next heartbeat
  is refused (`worker.py` 101), beside the one that claimed the campaign.

* `OpenEpisodesAreDriven` with `TimelyHeartbeats = FALSE`: `create_episode` looks at the
  cancellation and not at the lease (`storage.py` 1232), so a superseded worker may open an episode
  after the recovery of `_fail_stale_episodes` and crash.
* `OnlyOwnerSettles` with `TimelyHeartbeats = FALSE`: `finish_job` compares `owner_id` when it reads
  the row and updates it by its key at commit (`storage.py` 1940), so a former owner can settle the
  row of the next one.
* `OpenEpisodesAreDriven` lets a run that was stopped, or failed, leave an episode open. A cancellation that arrives while
  `_new_environment`'s handler closes the delegate (`orchestrator.py` 838) skips the FAILED write and the destroy, and an exception of
  the factory after that (`orchestrator.py` 948) leaves an EXECUTING episode to nobody. The episode stays open, with its capsule, until
  the next claim of the row, or its last attempt's end, fails it; under a campaign that was cancelled meanwhile it may stay open.
* `AttemptsShareTheBudget` counts the attacker's tokens. The target's are added to the same column (`storage.py` 1104-1132)
  without the attempt's tracker (`target_adapter.py` 317), so the row may pass `max_model_tokens` by whatever the target uses; only the next attempt sees it.
* `ReservationsAddUp` lets the owner's sum pass the quota by what released sessions used in excess of their `max_cost`: a
  provider's usage is not compared with the reservation (`inference.py` 286-300), and `release` charges it as it is (`research.py` 230).
* `UncertainCallsAreCharged` speaks of a command that has no answer. A target may answer a step while a model call it made is still
  in flight; that call is charged only if a later step or the closing environment collects it (`target_adapter.py` 298-325),
  and not if the worker dies first and the client then closes the session.
* `UncertainCallsAreCharged` leaves out managed sessions: the attacker model is called between commands
  (`research_worker.py` 474), where no command is running. If the fence no longer holds when the model answers - the
  lease ran out, or the worker died - its usage is not recorded, and if the client closes or cancels the session,
  `release` charges only what was recorded (`research.py` 230).
* `DrainedStaysQuiet` excludes a drain that meets a reset under way: the reset waits for the target and, when it goes on, reopens
  the drained episode (`blue_gateway.py` 133).
* `WinsAreCredited` with several campaigns at once: each writes the strategy store it loaded when it began
  (`orchestrator.py` 176-179), so the updates of one replace those of the other. The run has one campaign.
* `ResultsArrive` lets an evaluation wait for ever if the last worker that ended one of its sessions did not schedule it. It does so
  after its commit (`research_worker.py` 340-351): a crash in between prevents it, and so does, without any crash, a
  client that closes a session while it is queued, because `set_campaign_status` refuses CREATED to COMPLETED (`storage.py` 456) and
  raises before the evaluation is enqueued. `EvaluationGoesOn` (stated in `ResearchSession`, listed in no run) fails for both reasons.
* `UploadsAreWhole` allows an upload without its file: it is unlinked before the transaction that gives the upload up commits
  (`research_transfers.py` 166-169, `research_worker.py` 146-156), so a rollback leaves it `uploaded` or
  `finalizing` over nothing. Finalising it then fails, and it may be transferred again.
* `VerdictIsFinal` and `PassedIsProved` except runs one of whose children was being cancelled: a verdict of PASSED may be
  followed by FAILED if a cancellation writes over a completed child between the two finalisers, and a child of a run that passed may be CANCELLING or FAILED
  afterwards (`storage.py` 984-1028).
* `NothingLeftBehind` speaks of a docker that works (`faults = 0`): a create refused for its image, a Blue that does not get ready, racing
  destroys and restarts leave nothing behind. A docker command that fails, also one that took effect without an answer (`MakeFails`), may leave
  something until the next start-up reconciliation, and no property says that it is gone then.

Three observations about hardening that no property states: two runs of one finding overwrite its status and
policy version, so that a finding may be HARDENED while it names a version nobody has tested; a second
finaliser's `complete_hardening_run` clears the `artifact_id` the first one linked; and a request
that fails half-way leaves its children running without a run.

`ClosedIsSettled` speaks of the requests the mailbox had at the drain. It cannot say all: the gateway's
handler looks at `draining` before it reads the body of a post (`blue_gateway.py` 435-445), so a request can
enter the mailbox after the drain, when the adapter has collected its last record, and still be
dispatched; its call is never charged to the campaign.

## 7. What is not modelled

PROJECT.json names every part with its reason. In short:

* **Slots of one worker process.** `run_forever` gathers all its slots before it polls again; the model has one job
  per process.
* **Research requests.** One counter per minute in front of the API; a refused request is as if
  it had not been sent.
* **Parts of modelled components**: the reproduction mode of sessions; the probes and the relay's own
  clean-up in the supervisor; the routes of the API that only parse and show; capability checks in the gateway.
* **Pure functions without state**: promotion statistics (floating point numbers over a finished sample),
  hashing, signing and packing of evidence and tokens, loading of scenario documents.
* **No control state of their own**: telemetry, views, settings, schema migrations, the web interface,
  and the reference target (the gateway's target may do anything its routes allow).

## 8. Plan

Done: campaigns with their queue, run and search; the supervisor; the gateway with its engine and
deliveries; target inference; research sessions, transfers, datasets and evaluations; hardening.

Next models: several campaigns that share one strategy store, and the slots of a worker process.
