-------------------------------- MODULE RedSearch --------------------------------
(***************************************************************************)
(* The Red search of one campaign (red.py), as CampaignRunner drives it    *)
(* (_run_adaptive, _run_linear, _run_exact_replay, _run_benign) with the   *)
(* budget of budget.py: best-first beam search whose branches replay their *)
(* prefix in environments of their own, side by side, or one episode after *)
(* the other.  A run may fail or be lost at any time and is tried again;   *)
(* the campaign may be cancelled at any time.                              *)
(*                                                                         *)
(* Steps.  What runs between two awaits is one step: a branch looks at the *)
(* cancellation, the budget and the episode table and opens its episode,   *)
(* or takes an answer of the target, compares it and sends the next        *)
(* action; the gathered results are processed at once.                     *)
(*                                                                         *)
(* Left out.  The statuses of campaign and episodes (CampaignRun).  What   *)
(* the search tells its observer.  Costs, which are counted like tokens,   *)
(* and the model's cost in the priority.  The weights are the defaults of  *)
(* SearchConfig and NoveltyConfig, and the ablations of the experiment use *)
(* everything.  The tracker's own wall clock, which asyncio.timeout        *)
(* forestalls.                                                             *)
(***************************************************************************)
EXTENDS RedActions, StrategyMemory

CONSTANTS
  Kinds,         \* which runs: "ADAPTIVE", "NEARBY_BYPASS", "LINEAR", "EXACT_REPLAY", "BENIGN_REGRESSION"
  MaxEpisodes, MaxSteps, Concurrency, BeamWidth,
  MaxTokens,     \* max_model_tokens; every call of the attacker's model takes one
  TargetTokens,  \* what the target's own model calls may have taken when they are collected
  MaxTarget,     \* bound: tokens of the target
  MaxAttempts,   \* of the campaign's job
  Source,        \* the actions of the source episode, also the benign actions
  SourceSeed,
  Proposals,     \* the sequences of actions the model may propose
  Scores,        \* the scores it may give, per number of candidates
  Greetings,     \* what the target may show after a reset
  Answers        \* to a step: [observation, reward, done, terminal]

\* A sequence of whatever it holds: what an action is made of does not matter to the search.
IsSeq(s) == s \in Seq(ToSet(s))

\* The task's own bounds (contracts.py) are at least one.
ASSUME SearchAssumption ==
  /\ Kinds \subseteq {"ADAPTIVE", "NEARBY_BYPASS", "LINEAR", "EXACT_REPLAY", "BENIGN_REGRESSION"}
  /\ MaxEpisodes \in Nat \ {0} /\ MaxSteps \in Nat /\ Concurrency \in Nat /\ BeamWidth \in Nat
  /\ MaxTokens \in Nat /\ MaxAttempts \in Nat /\ TargetTokens \subseteq Nat /\ MaxTarget \in Nat
  /\ IsSeq(Source) /\ Source # <<>> /\ SourceSeed \in Nat
  /\ \A p \in Proposals : IsSeq(p)
  /\ \A scores \in Scores : \A i \in DOMAIN scores : scores[i] \in Nat
  /\ \A a \in Answers :
       a \in [observation : {a.observation}, reward : Int, done : BOOLEAN, terminal : BOOLEAN]

VARIABLES
  kind,
  cancelled,     \* campaign.cancellation_requested
  campaign,      \* the tables: [seeds of its episodes in their order, tokens of its model calls]
  target,        \* the target's own calls: [used: their tokens, known: what this attempt began with]
  memory,        \* the strategy store
  attempt,
  budget,        \* the tracker of this attempt: [episodes, tokens]
  run,           \* this attempt: [at, base, explored, state, candidates, winner]
  frontier,      \* the heap, best first
  best, nodes, seen,
  branches       \* the gathered branches in rank order, or the one episode

tables == <<cancelled, campaign, target, memory>>
search == <<frontier, best, nodes, seen>>
vars == <<kind, tables, attempt, budget, run, search, branches>>

Adaptive == kind \in {"ADAPTIVE", "NEARBY_BYPASS"}

NoNode == [id |-> <<0, 0>>, actions |-> <<>>, observations |-> <<>>, rewards |-> <<>>, reward |-> 0,
           novelty |-> 0, depth |-> 0, terminal |-> FALSE, terminated |-> FALSE, score |-> 0]

\* a bypass starts where the source's last action was sent; it has no observations of that
Root == [NoNode EXCEPT !.actions = IF kind = "NEARBY_BYPASS" THEN Front(Source) ELSE <<>>,
                       !.depth = IF kind = "NEARBY_BYPASS" THEN Len(Source) - 1 ELSE 0]

\* in hundredths of hundredths: reward + novelty - 0.01 * depth + 0.05 * score
Priority(node) == 100 * node.reward + 100 * node.novelty - 100 * node.depth + 5 * node.score

Remaining == MaxEpisodes - run.base - run.explored

ChannelSet == ToSet(Channels)

-----------------------------------------------------------------------------
(* Attempts.                                                               *)

NotStarted == [at |-> "waiting", base |-> 0, explored |-> 0, state |-> NoNode, candidates |-> <<>>,
               winner |-> NoNode]

\* the tracker starts from what the campaign has used: tokens_used counts both models
CampaignBudget == [episodes |-> Len(campaign.seeds), tokens |-> campaign.tokens + target.used]

Begin ==
  /\ \/ run.at = "waiting"
     \/ run.at \in {"raised", "lost"} /\ attempt < MaxAttempts
  /\ attempt' = attempt + 1
  /\ budget' = CampaignBudget
  /\ target' = [target EXCEPT !.known = target.used]
  /\ run' = [NotStarted EXCEPT !.at = IF cancelled THEN "returned" ELSE "select",
                               !.base = Len(campaign.seeds)]
  /\ frontier' = IF Adaptive THEN <<Root>> ELSE <<>>
  /\ best' = NoNode
  /\ nodes' = {}
  /\ seen' = NothingSeen
  /\ branches' = <<>>
  /\ UNCHANGED <<kind, cancelled, campaign, memory>>

\* Collecting the target's calls adds their tokens to the campaign's row, which the
\* tracker of the attempt is not told.
TargetCharge ==
  \E tokens \in TargetTokens :
    /\ target.used + tokens <= MaxTarget
    /\ target' = [target EXCEPT !.used = @ + tokens]

\* what an action leaves alone that only collects
collected == <<kind, cancelled, campaign, memory, attempt, budget>>

\* the worker dies, loses its lease, shuts down, or the wall-time budget is used up
Lose ==
  /\ run.at \in {"select", "rank", "gather", "episode"}
  /\ run' = [run EXCEPT !.at = "lost"]
  /\ branches' = <<>>
  /\ TargetCharge
  /\ UNCHANGED <<collected, search>>

Cancel ==
  /\ ~cancelled
  /\ cancelled' = TRUE
  /\ UNCHANGED <<kind, campaign, target, memory, attempt, budget, run, search, branches>>

Raise == run' = [run EXCEPT !.at = "raised"]

Finish(node) == run' = [run EXCEPT !.at = "returned", !.winner = node]

\* a model call is recorded before the budget refuses it
Charge == campaign' = [campaign EXCEPT !.tokens = @ + 1]

Affordable == budget.tokens + 1 <= MaxTokens

Spend == budget' = IF Affordable THEN [budget EXCEPT !.tokens = @ + 1] ELSE budget

-----------------------------------------------------------------------------
(* The loop of BestFirstBeamSearch.run.                                    *)

StopSearch ==
  /\ Adaptive /\ run.at = "select"
  /\ frontier = <<>> \/ Remaining <= 0 \/ cancelled
  /\ Finish(IF best = NoNode THEN Root ELSE best)
  /\ UNCHANGED <<kind, tables, attempt, budget, search, branches>>

Selects == Adaptive /\ run.at = "select" /\ frontier # <<>> /\ Remaining > 0

\* a node of full depth is not expanded
Exhaust ==
  /\ Selects /\ ~cancelled
  /\ frontier[1].depth >= MaxSteps
  /\ frontier' = Tail(frontier)
  /\ UNCHANGED <<kind, tables, attempt, budget, run, best, nodes, seen, branches>>

\* the children of a bypass's root are mutations of the source's last action
Seeded(state) == kind = "NEARBY_BYPASS" /\ Len(state.actions) < Len(Source)

MutationsOf(action, prefix) ==
  Mutations(action, prefix, Hints(memory, ChannelSet, action.strategy))

Candidates(state, proposed) ==
  IF Seeded(state) THEN FirstOf(MutationsOf(Last(Source), Front(Source)), Count)
  ELSE Chosen(Deduplicated(proposed),
              IF state.actions = <<>> THEN <<>>
              ELSE MutationsOf(Last(state.actions), Front(state.actions)))

Expanded(state, candidates) ==
  run' = [run EXCEPT !.at = IF candidates = <<>> THEN "select" ELSE "rank",
                     !.state = state, !.candidates = candidates]

\* the model is asked for candidates unless they are mutations of the source
Propose ==
  /\ Selects /\ ~cancelled
  /\ frontier[1].depth < MaxSteps
  /\ frontier' = Tail(frontier)
  /\ IF Seeded(frontier[1])
     THEN Expanded(frontier[1], Candidates(frontier[1], <<>>)) /\ UNCHANGED <<campaign, budget>>
     ELSE /\ Charge /\ Spend
          /\ \/ Affordable /\ \E p \in Proposals : Expanded(frontier[1], Candidates(frontier[1], p))
             \/ Raise
  /\ UNCHANGED <<kind, cancelled, target, memory, attempt, best, nodes, seen, branches>>

NoResult == [kind |-> "none", node |-> NoNode]

Queued(item, episode) ==
  [action |-> item.action, score |-> item.score, episode |-> episode, at |-> "queued",
   observations |-> <<>>, rewards |-> <<>>, reward |-> 0, result |-> NoResult]

WithinBudget(ranked) == FirstOf(ranked, Remaining)

Rank ==
  /\ run.at = "rank"
  /\ Charge /\ Spend
  /\ \/ /\ Affordable
        /\ \E scores \in Scores :
             LET ranked == WithinBudget(Ranked(run.candidates, scores))
             IN branches' = [i \in DOMAIN ranked |-> Queued(ranked[i], run.explored + i)]
        /\ run' = [run EXCEPT !.at = "gather"]
     \/ Raise /\ UNCHANGED branches
  /\ UNCHANGED <<kind, cancelled, target, memory, attempt, search>>

-----------------------------------------------------------------------------
(* One branch: _execute_candidate, _new_environment and close.             *)

Running(i) == branches[i].at \in {"provision", "reset", "think", "ready", "step", "close"}

Result(result, node) == [kind |-> result, node |-> node]

Update(i, changes) == branches' = [branches EXCEPT ![i] = changes]

Ends(i, result) == Update(i, [branches[i] EXCEPT !.at = "done", !.result = Result(result, NoNode)])

\* Variant: a branch that failed keeps its place.
RunningOrFailed(i) == Running(i) \/ branches[i].result.kind = "failed"

HoldsGate(i) == Running(i)

\* the semaphore serves the branches in their order
Admitted(i) ==
  /\ branches[i].at = "queued"
  /\ \A j \in 1..(i - 1) : branches[j].at # "queued"
  /\ Cardinality({j \in DOMAIN branches : HoldsGate(j)}) < Concurrency

\* Variant: the seeds of an attempt do not start where the campaign's episodes end.
TaskSeed(i) == branches[i].episode - 1

Seed(i) ==
  CASE Adaptive -> run.base + branches[i].episode - 1
    [] kind = "LINEAR" -> Len(campaign.seeds)
    [] kind = "EXACT_REPLAY" -> SourceSeed
    [] OTHER -> 0

StartsEpisode(i) ==
  IF budget.episodes >= MaxEpisodes
  THEN Ends(i, "refused") /\ UNCHANGED <<campaign, budget>>
  ELSE /\ budget' = [budget EXCEPT !.episodes = @ + 1]
       /\ campaign' = [campaign EXCEPT !.seeds = Append(@, Seed(i))]
       /\ Update(i, [branches[i] EXCEPT !.at = "provision"])

\* the budget has counted an episode the table refuses
StopsBefore(i, result) ==
  /\ Ends(i, result)
  /\ budget' = IF result = "failed" /\ budget.episodes < MaxEpisodes
               THEN [budget EXCEPT !.episodes = @ + 1] ELSE budget
  /\ UNCHANGED campaign

\* cancelled before the branch, before the environment, or before the episode is created
BeginBranch(i) ==
  /\ run.at = "gather"
  /\ Admitted(i)
  /\ \/ ~cancelled /\ StartsEpisode(i)
     \/ cancelled /\ \E result \in {"skipped", "cancelled", "failed"} : StopsBefore(i, result)
  /\ UNCHANGED <<kind, cancelled, target, memory, attempt, run, search>>

Active == run.at \in {"gather", "episode"}

\* without an environment there is nothing to close
Provision(i) ==
  /\ Active
  /\ branches[i].at = "provision"
  /\ \/ Ends(i, "failed")
     \/ Update(i, [branches[i] EXCEPT !.at = "reset"])
  /\ UNCHANGED <<kind, tables, attempt, budget, run, search>>

\* the environment is there, but the factory cannot link the invocation that proposed the
\* branch: nobody gets the environment, and nobody closes it
Leave(i) ==
  /\ run.at = "gather"
  /\ branches[i].at = "provision"
  /\ Update(i, [branches[i] EXCEPT !.at = "left", !.result = Result("failed", NoNode)])
  /\ UNCHANGED <<kind, tables, attempt, budget, run, search>>

Closing(i, result, node) ==
  Update(i, [branches[i] EXCEPT !.at = "close", !.result = Result(result, node)])

Prefix == run.state.actions

\* the parent's observations are all there: they can be compared, and its rewards stand
Comparable == Prefix # <<>> /\ Len(run.state.observations) = Len(Prefix) + 1

ResetBranch(i) ==
  /\ run.at = "gather"
  /\ branches[i].at = "reset"
  /\ \/ Closing(i, "failed", NoNode)
     \/ \E o \in Greetings :
          IF cancelled THEN Closing(i, "cancelled", NoNode)
          ELSE IF Comparable /\ o # run.state.observations[1] THEN Closing(i, "diverged", NoNode)
          ELSE Update(i, [branches[i] EXCEPT
                 !.at = "step", !.observations = <<o>>,
                 !.rewards = IF Comparable THEN run.state.rewards ELSE <<>>,
                 !.reward = IF Comparable THEN run.state.reward ELSE 0])
  /\ UNCHANGED <<kind, tables, attempt, budget, run, search>>

\* the position of the action under way among the prefix and the candidate
Turn(i) == Len(branches[i].observations)

\* the branch with an answer of the target in it
Answered(i, answer, scored) ==
  [branches[i] EXCEPT
     !.observations = Append(@, answer.observation),
     !.rewards = IF scored THEN Append(@, answer.reward) ELSE @,
     !.reward = IF scored THEN @ + answer.reward ELSE @]

NodeOf(branch, actions, depth, answer) ==
  [NoNode EXCEPT !.id = <<attempt, branch.episode>>, !.actions = actions, !.depth = depth,
     !.observations = branch.observations, !.rewards = branch.rewards, !.reward = branch.reward,
     !.score = branch.score, !.terminal = answer.terminal, !.terminated = answer.done]

\* Variant: the rewards of a replayed prefix never count.
ScoredNever == FALSE

\* the rewards of a prefix nobody scored yet count
ScoredOnReplay == ~Comparable

StepFails(i) ==
  /\ run.at = "gather"
  /\ branches[i].at = "step"
  /\ Closing(i, "failed", NoNode)
  /\ TargetCharge
  /\ UNCHANGED <<collected, run, search>>

ReplayStep(i) ==
  /\ run.at = "gather"
  /\ branches[i].at = "step" /\ Turn(i) <= Len(Prefix)
  /\ \E answer \in Answers :
       LET branch == Answered(i, answer, ScoredOnReplay)
           expected == run.state.observations[Turn(i) + 1]
       IN IF Comparable /\ answer.observation # expected THEN Closing(i, "diverged", NoNode)
          ELSE IF answer.terminal
          THEN Update(i, [branch EXCEPT !.at = "close",
                 !.result = Result("node", NodeOf(branch, Prefix, run.state.depth, answer))])
          ELSE IF answer.done THEN Closing(i, "exhausted", NoNode)
          ELSE IF cancelled THEN Closing(i, "cancelled", NoNode)
          ELSE Update(i, branch)
  /\ TargetCharge
  /\ UNCHANGED <<collected, run, search>>

CandidateStep(i) ==
  /\ run.at = "gather"
  /\ branches[i].at = "step" /\ Turn(i) > Len(Prefix)
  /\ \E answer \in Answers :
       LET branch == Answered(i, answer, TRUE)
           node == NodeOf(branch, Append(Prefix, branch.action), run.state.depth + 1, answer)
       IN Update(i, [branch EXCEPT !.at = "close", !.result = Result("node", node)])
  /\ TargetCharge
  /\ UNCHANGED <<collected, run, search>>

\* an error while closing takes the place of the result
CloseBranch(i) ==
  /\ Active
  /\ branches[i].at = "close"
  /\ \/ Ends(i, "failed")
     \/ Update(i, [branches[i] EXCEPT !.at = "done"])
  /\ TargetCharge
  /\ UNCHANGED <<collected, run, search>>

-----------------------------------------------------------------------------
(* The gathered results, taken in rank order.                              *)

\* after the nodes of a higher or the same priority
Insert(heap, node) ==
  InsertAt(heap, Cardinality({i \in DOMAIN heap : Priority(heap[i]) >= Priority(node)}) + 1, node)

\* a node that ended its episode is not expanded
Push(heap, node) ==
  IF node = NoNode \/ node.terminal \/ node.terminated THEN heap ELSE Insert(heap, node)

\* Variant: the first of the nodes stays the best.
FirstOfBoth(node, other) == IF node = NoNode THEN other ELSE node

BetterOf(node, other) ==
  IF other # NoNode /\ (node = NoNode \/ Priority(other) > Priority(node)) THEN other ELSE node

Credit(store, node) == IF node = NoNode THEN store ELSE RecordOutcome(store, node)

Pushed(heap, results) == FoldLeft(Push, heap, results)

BestOf(node, results) == FoldLeft(BetterOf, node, results)

Recorded(store, results) == FoldLeft(Credit, store, results)

\* what the node's last turn showed; the search marks it when the episode is over
Shown(node) == [observation |-> Last(node.observations), terminated |-> node.terminated]

\* what is seen when the branches before this one have been looked at
SeenBefore(i) ==
  LET reached == {branches[j].result.node : j \in 1..(i - 1)} \ {NoNode}
  IN [actions |-> seen.actions \union {Fingerprint(Last(node.actions)) : node \in reached},
      observations |-> seen.observations \union {Shown(node) : node \in reached}]

\* the nodes in rank order, whose novelty counts what the earlier ones have shown
Results ==
  [i \in DOMAIN branches |->
     LET node == branches[i].result.node
     IN IF node = NoNode THEN NoNode
        ELSE [node EXCEPT !.novelty = Novelty(SeenBefore(i), Last(node.actions), Shown(node))]]

Failures == {i \in DOMAIN branches : branches[i].result.kind \in {"failed", "cancelled", "refused"}}

\* Variant: the first failure ends the gathering.
SomeFailed == (\A i \in DOMAIN branches : branches[i].at = "done") \/ Failures # {}

AllGathered == \A i \in DOMAIN branches : branches[i].at \in {"done", "left"}

\* the first failure is raised; cancelled, it is the end of the campaign
EndedBy(failure) == IF branches[failure].result.kind = "cancelled" THEN "returned" ELSE "raised"

Collect ==
  /\ run.at = "gather"
  /\ AllGathered
  /\ seen' = SeenBefore(Len(branches) + 1)
  /\ LET results == Results
         reached == [i \in DOMAIN results |-> IF results[i].terminal THEN results[i] ELSE NoNode]
         winner == BestOf(NoNode, reached)
     IN /\ nodes' = nodes \union (ToSet(results) \ {NoNode})
        /\ memory' = Recorded(memory, results)
        /\ best' = BestOf(best, results)
        /\ frontier' = FirstOf(Pushed(frontier, results), BeamWidth)
        /\ run' = [run EXCEPT
             !.explored = @ + Cardinality({i \in DOMAIN branches : branches[i].result.kind # "skipped"}),
             !.at = IF Failures # {} THEN EndedBy(Min(Failures))
                    ELSE IF winner # NoNode THEN "returned" ELSE "select",
             !.winner = IF Failures = {} THEN winner ELSE NoNode]
  /\ UNCHANGED <<kind, cancelled, campaign, target, attempt, budget, branches>>

-----------------------------------------------------------------------------
(* One episode after the other: linear search, exact replay, benign        *)
(* actions.  There is one branch, and its script grows as it is sent.      *)

Scripted == kind \in {"EXACT_REPLAY", "BENIGN_REGRESSION"}

NextEpisode ==
  /\ ~Adaptive /\ run.at = "select"
  /\ IF \/ kind = "LINEAR" /\ (cancelled \/ Len(campaign.seeds) >= MaxEpisodes)
        \/ Scripted /\ campaign.seeds # <<>>
     THEN Finish(NoNode) /\ UNCHANGED branches
     ELSE /\ run' = [run EXCEPT !.at = "episode", !.state = NoNode]
          /\ branches' = <<Queued([action |-> Source[1], score |-> 0], 1)>>
  /\ UNCHANGED <<kind, tables, attempt, budget, search>>

BeginEpisode ==
  /\ run.at = "episode"
  /\ branches[1].at = "queued"
  /\ \/ ~cancelled /\ StartsEpisode(1)
     \/ cancelled /\ \E result \in {"cancelled", "failed"} : StopsBefore(1, result)
  /\ UNCHANGED <<kind, cancelled, target, memory, attempt, run, search>>

ResetEpisode ==
  /\ run.at = "episode"
  /\ branches[1].at = "reset"
  /\ \/ Closing(1, "failed", NoNode)
     \/ \E o \in Greetings :
          Update(1, [branches[1] EXCEPT !.at = "think", !.observations = <<o>>])
  /\ UNCHANGED <<kind, tables, attempt, budget, run, search>>

\* all steps are sent; the benign run does not look at the cancellation
Sent == Turn(1) > IF Scripted THEN Len(Source) ELSE MaxSteps

EndEpisode ==
  /\ run.at = "episode"
  /\ branches[1].at = "think"
  /\ Sent \/ (cancelled /\ kind # "BENIGN_REGRESSION")
  /\ Closing(1, IF Sent THEN "exhausted" ELSE "cancelled", NoNode)
  /\ UNCHANGED <<kind, tables, attempt, budget, run, search>>

\* the next action: the script's, or what the model proposes first
Think ==
  /\ run.at = "episode"
  /\ branches[1].at = "think"
  /\ ~Sent
  /\ cancelled => kind = "BENIGN_REGRESSION"
  /\ IF Scripted
     THEN /\ Update(1, [branches[1] EXCEPT !.at = "step", !.action = Source[Turn(1)]])
          /\ UNCHANGED <<campaign, budget>>
     ELSE /\ Charge /\ Spend
          /\ \/ /\ Affordable
                /\ \E p \in Proposals :
                     IF p = <<>> THEN Closing(1, "exhausted", NoNode)
                     ELSE Update(1, [branches[1] EXCEPT !.at = "ready", !.action = p[1]])
             \/ Closing(1, "failed", NoNode)
  /\ UNCHANGED <<kind, cancelled, target, memory, attempt, run, search>>

\* linear search looks at the cancellation again before it sends what was proposed
Send ==
  /\ run.at = "episode"
  /\ branches[1].at = "ready"
  /\ IF cancelled THEN Closing(1, "cancelled", NoNode)
     ELSE Update(1, [branches[1] EXCEPT !.at = "step"])
  /\ UNCHANGED <<kind, tables, attempt, budget, run, search>>

EpisodeStep ==
  /\ run.at = "episode"
  /\ branches[1].at = "step"
  /\ \/ Closing(1, "failed", NoNode)
     \/ \E answer \in Answers :
          LET branch == Answered(1, answer, TRUE)
          IN IF answer.done
             THEN Update(1, [branch EXCEPT !.at = "close",
                    !.result = Result(IF answer.terminal THEN "won" ELSE "exhausted", NoNode)])
             ELSE Update(1, [branch EXCEPT !.at = "think"])
  /\ TargetCharge
  /\ UNCHANGED <<collected, run, search>>

\* linear search goes on until an episode succeeds; a replay has one
EpisodeEnds ==
  /\ run.at = "episode"
  /\ branches[1].at = "done"
  /\ LET result == branches[1].result.kind
     IN run' = [run EXCEPT
          !.at = CASE result \in {"failed", "refused"} -> "raised"
                   [] result \in {"won", "cancelled"} -> "returned"
                   [] OTHER -> IF kind = "LINEAR" THEN "select" ELSE "returned"]
  /\ branches' = <<>>
  /\ UNCHANGED <<kind, tables, attempt, budget, search>>

-----------------------------------------------------------------------------

Init ==
  /\ kind \in Kinds
  /\ cancelled = FALSE
  /\ campaign = [seeds |-> <<>>, tokens |-> 0]
  /\ target = [used |-> 0, known |-> 0]
  /\ memory = SeedMemory
  /\ attempt = 0
  /\ budget = [episodes |-> 0, tokens |-> 0]
  /\ run = NotStarted
  /\ frontier = <<>> /\ best = NoNode /\ nodes = {} /\ seen = NothingSeen
  /\ branches = <<>>

BeamSearch ==
  \/ StopSearch \/ Exhaust \/ Propose \/ Rank \/ Collect
  \/ \E i \in DOMAIN branches :
       \/ BeginBranch(i) \/ Provision(i) \/ Leave(i) \/ ResetBranch(i)
       \/ StepFails(i) \/ ReplayStep(i) \/ CandidateStep(i) \/ CloseBranch(i)

OneByOne ==
  \/ NextEpisode \/ BeginEpisode \/ ResetEpisode \/ EndEpisode \/ Think \/ Send
  \/ EpisodeStep \/ EpisodeEnds

Progress == Begin \/ BeamSearch \/ OneByOne

Next == Progress \/ Lose \/ Cancel

\* the worker goes on with what is ready, and every call of the target has a time limit
Spec == Init /\ [][Next]_vars /\ WF_vars(Progress)

-----------------------------------------------------------------------------
(* Properties.                                                             *)

\* A campaign has one budget for all its attempts: together they begin no more episodes than
\* one may; no two of these run with the same seed, whichever attempt they belong to; no
\* branch the search decided to execute is refused by the episode budget; the attacker's
\* model oversteps the token budget by one call per attempt; and an attempt that begins when
\* the target's own calls have used it up sends nothing a model proposed (what they use
\* meanwhile is not counted).
AttemptsShareTheBudget ==
  /\ \A i, j \in DOMAIN campaign.seeds : campaign.seeds[i] = campaign.seeds[j] => i = j
  /\ Len(campaign.seeds) <= MaxEpisodes
  /\ \A i \in DOMAIN branches : branches[i].result.kind # "refused"
  /\ campaign.tokens <= MaxTokens + attempt
  /\ target.known >= MaxTokens /\ ~Scripted =>
       nodes = {} /\ \A i \in DOMAIN branches : branches[i].at \notin {"ready", "step"}

\* When the search has returned or raised, none of its branches is still in an
\* environment: the campaign's status is final then, and its episodes have to be.  If one
\* was left that nobody got hold of, the attempt has raised, so that the next claim of
\* the row fails its episode, or the campaign is cancelled.
NothingRunsAfterTheSearch ==
  run.at \in {"returned", "raised"} =>
    /\ \A i \in DOMAIN branches : ~Running(i)
    /\ (\E i \in DOMAIN branches : branches[i].at = "left") => run.at = "raised" \/ cancelled

Total(rewards) == FoldLeft(LAMBDA x, y : x + y, 0, rewards)

\* Every node that may be expanded carries all of its own trajectory - an observation per
\* turn, a reward per action and their sum - whether it grew from a replayed branch, from
\* scratch or from the actions of another campaign: what a replay is compared with.
NodesAreReplayable ==
  \A i \in DOMAIN frontier : frontier[i] # Root =>
    /\ Len(frontier[i].observations) = Len(frontier[i].actions) + 1
    /\ Len(frontier[i].rewards) = Len(frontier[i].actions)
    /\ frontier[i].depth = Len(frontier[i].actions)
    /\ frontier[i].reward = Total(frontier[i].rewards)

\* The node a search returns is one that reached a forbidden state if any did, and no
\* other such node - or else no node at all, pruned ones included - has a higher priority.
WinnerIsBest ==
  run.at = "returned" /\ nodes # {} /\ run.winner # NoNode =>
    LET reached == {n \in nodes : n.terminal}
    IN /\ run.winner \in (IF reached = {} THEN nodes ELSE reached)
       /\ \A n \in (IF reached = {} THEN nodes ELSE reached) : Priority(n) <= Priority(run.winner)

\* Every node that reached a forbidden state is credited to a strategy of the store, a
\* known one or one learned from it, and no strategy has more wins than trajectories that
\* won with it.
WinsAreCredited ==
  /\ \A n \in nodes : n.terminal => \E s \in DOMAIN memory : n.id \in memory[s].won
  /\ \A s \in DOMAIN memory :
       memory[s].wins = Cardinality(memory[s].won) /\ memory[s].wins <= memory[s].attempts

\* Every attempt ends, however its branches end and whenever it is cancelled.
SearchEnds == <>[](run.at \in {"returned", "raised", "lost"})
================================================================================
