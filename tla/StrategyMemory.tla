----------------------------- MODULE StrategyMemory -----------------------------
(***************************************************************************)
(* The strategy store of the Red search (red.py StrategyMemory, kept in    *)
(* the repository by orchestrator.py): what worked before, how often it    *)
(* was tried, and what is learned from a trajectory that used none of it.  *)
(* Operators over a function from strategies to their record.              *)
(*                                                                         *)
(* A strategy is its own identity [channels, depth, outcome]; the task's   *)
(* seeds have the outcome "seed".  Running means are kept as sums.  Every  *)
(* strategy has the task's tags, and preconditions are left out: neither   *)
(* orders what one task learned.                                           *)
(***************************************************************************)
EXTENDS Integers, FiniteSets, Sequences

CONSTANTS
  Seeds,          \* the task's seed_strategy_ids that are in the store
  StrategyLimit   \* 5 in the code

NoStrategy == [channels |-> {}, depth |-> 0, outcome |-> "none"]

Unused == [attempts |-> 0, wins |-> 0, reward |-> 0, won |-> {}]

SeedMemory == [s \in Seeds |-> Unused]

\* retrieve: overlap with the task first, then the success rate, then the mean reward (at last
\* the id, a hash: which of two is free here)
Overlap(s, channels) ==
  (IF s \in Seeds THEN 100 ELSE 0) + 5 * Cardinality(s.channels \intersect channels)

Rate(sum, record) == IF record.attempts = 0 THEN 0 ELSE (1000 * sum) \div record.attempts

Better(memory, channels, s, t) ==
  LET a == Overlap(s, channels)  b == Overlap(t, channels)
      p == Rate(memory[s].wins, memory[s])  q == Rate(memory[t].wins, memory[t])
      x == Rate(memory[s].reward, memory[s])  y == Rate(memory[t].reward, memory[t])
  IN \/ a > b
     \/ a = b /\ p > q
     \/ a = b /\ p = q /\ x > y

\* the strategies a search is given, the best of the others left out beyond the limit
Retrieved(memory, channels) ==
  {s \in DOMAIN memory :
     Cardinality({t \in DOMAIN memory : Better(memory, channels, t, s)}) < StrategyLimit}

\* the one the mutation engine takes its hints from when the action names none of them
HintSource(memory, channels, strategy) ==
  LET retrieved == Retrieved(memory, channels)
  IN IF strategy \in retrieved THEN strategy
     ELSE CHOOSE s \in retrieved : \A t \in retrieved : ~Better(memory, channels, t, s)

HintsOf(strategy) ==
  CASE strategy.outcome = "terminal" -> <<"rephrase", "change_channel", "change_timing">>
    [] strategy.outcome = "progress" ->
         <<"extend_near_success", "change_role_context", "change_sequence">>
    [] OTHER -> <<>>

Hints(memory, channels, strategy) ==
  IF DOMAIN memory = {} THEN <<>> ELSE HintsOf(HintSource(memory, channels, strategy))

\* what is learned from a trajectory
Learned(node) ==
  [channels |-> {node.actions[i].channel : i \in DOMAIN node.actions},
   depth |-> node.depth,
   outcome |-> IF node.terminal THEN "terminal" ELSE "progress"]

\* the known strategies a trajectory used
Used(memory, node) ==
  {node.actions[i].strategy : i \in DOMAIN node.actions} \intersect DOMAIN memory

Credited(record, node) ==
  [attempts |-> record.attempts + 1,
   wins |-> record.wins + (IF node.terminal THEN 1 ELSE 0),
   reward |-> record.reward + node.reward,
   won |-> IF node.terminal THEN record.won \union {node.id} ELSE record.won]

\* Variant: an id nobody knows counts as a strategy that was used.
TaughtUnnamed(memory, node) ==
  IF /\ \A i \in DOMAIN node.actions : node.actions[i].strategy = NoStrategy
     /\ Len(node.actions) > 0 /\ (node.terminal \/ node.reward > 0)
  THEN {Learned(node)} ELSE Used(memory, node)

\* the known strategies of the trajectory, or the new one a success without any of them teaches
Taught(memory, node) ==
  IF Used(memory, node) = {} /\ Len(node.actions) > 0 /\ (node.terminal \/ node.reward > 0)
  THEN {Learned(node)} ELSE Used(memory, node)

RecordOutcome(memory, node) ==
  [s \in DOMAIN memory \union Taught(memory, node) |->
     LET record == IF s \in DOMAIN memory THEN memory[s] ELSE Unused
     IN IF s \in Taught(memory, node) THEN Credited(record, node) ELSE record]
================================================================================
