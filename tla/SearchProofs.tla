------------------------------ MODULE SearchProofs ------------------------------
(***************************************************************************)
(* The Red search of a campaign, for any budget, actions and answers; and  *)
(* the verdict of the hardening run that asked for such campaigns.         *)
(*                                                                         *)
(* The search relates what three parties know: the tables count episodes   *)
(* and tokens, the run counts what it explored and has queued, and each of *)
(* its branches knows its own episode and trajectory.  The invariant says  *)
(* how these agree at every place of the run, also when an earlier attempt *)
(* was lost with episodes begun, and while branches begin, fail and close  *)
(* side by side.                                                           *)
(***************************************************************************)
EXTENDS RedSearch, SumProofs, SequenceTheorems

-----------------------------------------------------------------------------
(* The invariant.                                                          *)

Observation == Greetings \union {a.observation : a \in Answers}

IsNode(n) ==
  /\ n \in [id : Nat \X Nat, actions : {n.actions}, observations : Seq(Observation),
            rewards : Seq(Int), reward : Int, novelty : Int, depth : Nat, terminal : BOOLEAN,
            terminated : BOOLEAN, score : Int]
  /\ IsSeq(n.actions)

BranchPlace == {"queued", "provision", "reset", "think", "ready", "step", "close", "done",
                "left"}

ResultKind ==
  {"none", "failed", "refused", "skipped", "cancelled", "diverged", "exhausted", "won", "node"}

IsBranch(b) ==
  /\ b \in [action : {b.action}, score : Int, episode : Nat, at : BranchPlace,
            observations : Seq(Observation), rewards : Seq(Int), reward : Int,
            result : [kind : ResultKind, node : {b.result.node}]]
  /\ IsNode(b.result.node)

Phase == {"waiting", "select", "rank", "gather", "episode", "returned", "raised", "lost"}

IsRun(r) ==
  /\ r \in [at : Phase, base : Nat, explored : Nat, state : {r.state}, candidates : {r.candidates},
            winner : {r.winner}]
  /\ IsNode(r.state) /\ IsSeq(r.candidates) /\ IsNode(r.winner)

IsStore(store) ==
  /\ store = [s \in DOMAIN store |-> store[s]]
  /\ \A s \in DOMAIN store :
       store[s] \in [attempts : Nat, wins : Nat, reward : Int, won : SUBSET (Nat \X Nat)]

TypeOK ==
  /\ kind \in Kinds /\ cancelled \in BOOLEAN /\ attempt \in Nat
  /\ campaign \in [seeds : Seq(Nat), tokens : Nat]
  /\ target \in [used : Nat, known : Nat]
  /\ budget \in [episodes : Nat, tokens : Nat]
  /\ IsRun(run)
  /\ IsSeq(frontier) /\ \A i \in DOMAIN frontier : IsNode(frontier[i])
  /\ IsNode(best) /\ \A n \in nodes : IsNode(n)
  /\ IsSeq(branches) /\ \A i \in DOMAIN branches : IsBranch(branches[i])
  /\ IsStore(memory)

Searching == run.at \in {"select", "rank", "gather"}

\* Where the run is and what its branches do.
Phases ==
  /\ run.at = "waiting" <=> attempt = 0
  /\ run.at \in {"rank", "gather"} => Adaptive
  /\ run.at = "rank" => Remaining > 0
  /\ run.at = "gather" => Len(branches) <= Remaining
  /\ run.at = "gather" => \A i \in DOMAIN branches : branches[i].episode = run.explored + i
  /\ run.at = "episode" => ~Adaptive /\ Len(branches) = 1
  /\ ~Active => \A i \in DOMAIN branches : branches[i].at \in {"done", "left"}
  /\ \A i \in DOMAIN branches :
       branches[i].at \notin {"close", "done", "left"} => branches[i].result = NoResult

\* The episodes the branches were queued for are those that come next in the table.
Waiting(k) ==
  /\ k <= Len(branches)
  /\ \A i \in DOMAIN branches : branches[i].at = "queued" <=> i > k
  /\ ~cancelled => Len(campaign.seeds) = run.base + run.explored + k

Episodes ==
  /\ ~Scripted => \A i \in DOMAIN campaign.seeds : campaign.seeds[i] = i - 1
  /\ Scripted => Len(campaign.seeds) <= 1
  /\ ~cancelled /\ (Searching \/ run.at = "episode") => budget.episodes = Len(campaign.seeds)
  /\ run.at = "gather" => \E k \in 0..Len(branches) : Waiting(k)
  /\ ~cancelled /\ Adaptive /\ run.at \in {"select", "rank"} =>
       Len(campaign.seeds) = run.base + run.explored
  /\ run.at = "episode" /\ branches[1].at = "queued" /\ ~cancelled =>
       /\ Len(campaign.seeds) < MaxEpisodes
       /\ Scripted => campaign.seeds = <<>>
  /\ \A i \in DOMAIN branches : branches[i].result.kind # "refused"
  /\ \A i \in DOMAIN branches : branches[i].result.kind = "skipped" => cancelled

Tokens ==
  /\ campaign.tokens <= MaxTokens + attempt
  /\ Searching \/ (run.at = "episode" /\ branches[1].result.kind # "failed") =>
       /\ budget.tokens = campaign.tokens + target.known
       /\ campaign.tokens < MaxTokens + attempt

\* A node with all of its own trajectory.
Replayable(node) ==
  /\ Len(node.observations) = Len(node.actions) + 1
  /\ Len(node.rewards) = Len(node.actions)
  /\ node.depth = Len(node.actions)
  /\ node.reward = Total(node.rewards)

\* What a branch has gathered when its next step is under way.
Underway(b) ==
  /\ Len(b.observations) \in 1..(Len(Prefix) + 1)
  /\ Comparable => b.rewards = run.state.rewards /\ b.reward = run.state.reward
  /\ ~Comparable => /\ Len(b.rewards) = Len(b.observations) - 1
                    /\ b.reward = Total(b.rewards)

ResultFits(b) ==
  LET node == b.result.node
  IN node # NoNode =>
       /\ node.id = <<attempt, b.episode>>
       /\ node.actions # <<>>
       /\ ~node.terminal /\ ~node.terminated => Replayable(node)

Trajectories ==
  /\ \A i \in DOMAIN frontier : frontier[i] = Root \/ Replayable(frontier[i])
  /\ run.at \in {"rank", "gather"} => run.state = Root \/ Replayable(run.state)
  /\ run.at = "gather" =>
       \A i \in DOMAIN branches :
         /\ branches[i].at = "step" => Underway(branches[i])
         /\ ResultFits(branches[i])

\* The best of the nodes, none of which reached a forbidden state yet.
Bests ==
  /\ NoNode \notin nodes
  /\ ~Adaptive => nodes = {} /\ best = NoNode
  /\ \A n \in nodes : n.actions # <<>>
  /\ Searching =>
       /\ \A n \in nodes : ~n.terminal
       /\ IF nodes = {} THEN best = NoNode
          ELSE best \in nodes /\ \A n \in nodes : Priority(n) <= Priority(best)

\* The ids of the nodes that were credited: of earlier attempts, or of this one's earlier episodes.
IdsBelow(e) ==
  \A s \in DOMAIN memory : \A id \in memory[s].won :
    id[1] < attempt \/ (id[1] = attempt /\ id[2] <= e)

Credits ==
  /\ \A n \in nodes : n.terminal => \E s \in DOMAIN memory : n.id \in memory[s].won
  /\ \A s \in DOMAIN memory :
       /\ IsFiniteSet(memory[s].won)
       /\ memory[s].wins = Cardinality(memory[s].won) /\ memory[s].wins <= memory[s].attempts
       /\ \A id \in memory[s].won : id[1] <= attempt
  /\ Adaptive /\ (run.at \in {"rank", "gather"} \/ (run.at = "select" /\ ~cancelled)) =>
       IdsBelow(run.explored)

Inv == TypeOK /\ Phases /\ Episodes /\ Tokens /\ Trajectories /\ Bests /\ WinnerIsBest /\ Credits
-----------------------------------------------------------------------------
(* The folds of the model, one step after the other.                       *)

\* Deduplicated adds the actions one by one.
LEMMA KeepFold ==
  ASSUME NEW n \in Nat, NEW s, DOMAIN s = 1..n, NEW V, <<>> \in V,
         \A v \in V, i \in 1..n : Keep(v, s[i]) \in V
  PROVE  Deduplicated(s) \in V
<1> DEFINE h == [p \in V \X (1..n) |-> Keep(p[1], s[p[2]])]
           Step(g) == [t \in SUBSET (1..n) |->
                         IF t = {} THEN <<>> ELSE Keep(g[t \ {Max(t)}], s[Max(t)])]
           G == CHOOSE g : g = Step(g)
<1>1. PICK g : /\ \A t \in SUBSET (1..n) : g[t] \in V
               /\ g = [t \in SUBSET (1..n) |-> NextStep(<<>>, h, Highest(n), g, t)]
               /\ \A t \in SUBSET (1..n) : t # {} => Highest(n)[t] \in t
  <2>1. \A v \in V, i \in 1..n : h[<<v, i>>] \in V
    OBVIOUS
  <2> HIDE DEF h
  <2> QED BY <2>1, SequenceFold
<1>2. g = Step(g)
  <2>1. ASSUME NEW t \in SUBSET (1..n), t # {}
        PROVE  h[<<g[t \ {Highest(n)[t]}], Highest(n)[t]>>] = Keep(g[t \ {Max(t)}], s[Max(t)])
    <3>1. Max(t) = Highest(n)[t]
      BY DEF Max, Highest
    <3>2. Highest(n)[t] \in 1..n /\ g[t \ {Highest(n)[t]}] \in V
      BY <1>1, <2>1
    <3> HIDE DEF Highest
    <3> QED BY <3>1, <3>2
  <2> HIDE DEF h
  <2> QED BY <1>1, <2>1 DEF NextStep
<1>3. Deduplicated(s) = G[1..n]
  BY DEF Deduplicated, FoldLeft, MapThenFoldSet
<1>4. G = Step(G)
  BY <1>2
<1> HIDE DEF G
<1>5. G[{}] = <<>>
  BY <1>4
<1>6. ASSUME NEW i \in 1..n PROVE G[1..i] = Keep(G[1..(i - 1)], s[i])
  <2>1. i \in 1..i /\ 1..i \in SUBSET (1..n)
    OBVIOUS
  <2>2. Max(1..i) = i /\ (1..i) \ {i} = 1..(i - 1)
    BY <2>1, HighestIs DEF Max, Highest
  <2> QED BY <1>4, <2>1, <2>2
<1>7. \A i \in 1..n : G[1..(i - 1)] \in V => G[1..i] \in V
  BY <1>6
<1> HIDE DEF h, Step
<1>8. \A i \in 0..n : G[1..i] \in V
  BY <1>5, <1>7, FoldTrail
<1> QED BY <1>3, <1>8

\* Pushed pushes the results one by one.
LEMMA PushFold ==
  ASSUME NEW n \in Nat, NEW s, DOMAIN s = 1..n, NEW V, NEW b \in V,
         \A v \in V, i \in 1..n : Push(v, s[i]) \in V
  PROVE  Pushed(b, s) \in V
<1> DEFINE h == [p \in V \X (1..n) |-> Push(p[1], s[p[2]])]
           Step(g) == [t \in SUBSET (1..n) |->
                         IF t = {} THEN b ELSE Push(g[t \ {Max(t)}], s[Max(t)])]
           G == CHOOSE g : g = Step(g)
<1>1. PICK g : /\ \A t \in SUBSET (1..n) : g[t] \in V
               /\ g = [t \in SUBSET (1..n) |-> NextStep(b, h, Highest(n), g, t)]
               /\ \A t \in SUBSET (1..n) : t # {} => Highest(n)[t] \in t
  <2>1. \A v \in V, i \in 1..n : h[<<v, i>>] \in V
    OBVIOUS
  <2> HIDE DEF h
  <2> QED BY <2>1, SequenceFold
<1>2. g = Step(g)
  <2>1. ASSUME NEW t \in SUBSET (1..n), t # {}
        PROVE  h[<<g[t \ {Highest(n)[t]}], Highest(n)[t]>>] = Push(g[t \ {Max(t)}], s[Max(t)])
    <3>1. Max(t) = Highest(n)[t]
      BY DEF Max, Highest
    <3>2. Highest(n)[t] \in 1..n /\ g[t \ {Highest(n)[t]}] \in V
      BY <1>1, <2>1
    <3> HIDE DEF Highest
    <3> QED BY <3>1, <3>2
  <2> HIDE DEF h
  <2> QED BY <1>1, <2>1 DEF NextStep
<1>3. Pushed(b, s) = G[1..n]
  BY DEF Pushed, FoldLeft, MapThenFoldSet
<1>4. G = Step(G)
  BY <1>2
<1> HIDE DEF G
<1>5. G[{}] = b
  BY <1>4
<1>6. ASSUME NEW i \in 1..n PROVE G[1..i] = Push(G[1..(i - 1)], s[i])
  <2>1. i \in 1..i /\ 1..i \in SUBSET (1..n)
    OBVIOUS
  <2>2. Max(1..i) = i /\ (1..i) \ {i} = 1..(i - 1)
    BY <2>1, HighestIs DEF Max, Highest
  <2> QED BY <1>4, <2>1, <2>2
<1>7. \A i \in 1..n : G[1..(i - 1)] \in V => G[1..i] \in V
  BY <1>6
<1> HIDE DEF h, Step
<1>8. \A i \in 0..n : G[1..i] \in V
  BY <1>5, <1>7, FoldTrail
<1> QED BY <1>3, <1>8

BestTrail(f, V, b, s, n) ==
  /\ f \in [0..n -> V] /\ f[0] = b /\ f[n] = BestOf(b, s)
  /\ \A i \in 1..n : f[i] = BetterOf(f[i - 1], s[i])

\* BestOf compares the results one by one.
LEMMA BestFold ==
  ASSUME NEW n \in Nat, NEW s, DOMAIN s = 1..n, NEW V, NEW b \in V,
         \A v \in V, i \in 1..n : BetterOf(v, s[i]) \in V
  PROVE  \E f : BestTrail(f, V, b, s, n)
<1> DEFINE h == [p \in V \X (1..n) |-> BetterOf(p[1], s[p[2]])]
           Step(g) == [t \in SUBSET (1..n) |->
                         IF t = {} THEN b ELSE BetterOf(g[t \ {Max(t)}], s[Max(t)])]
           G == CHOOSE g : g = Step(g)
<1>1. PICK g : /\ \A t \in SUBSET (1..n) : g[t] \in V
               /\ g = [t \in SUBSET (1..n) |-> NextStep(b, h, Highest(n), g, t)]
               /\ \A t \in SUBSET (1..n) : t # {} => Highest(n)[t] \in t
  <2>1. \A v \in V, i \in 1..n : h[<<v, i>>] \in V
    OBVIOUS
  <2> HIDE DEF h
  <2> QED BY <2>1, SequenceFold
<1>2. g = Step(g)
  <2>1. ASSUME NEW t \in SUBSET (1..n), t # {}
        PROVE  h[<<g[t \ {Highest(n)[t]}], Highest(n)[t]>>] = BetterOf(g[t \ {Max(t)}], s[Max(t)])
    <3>1. Max(t) = Highest(n)[t]
      BY DEF Max, Highest
    <3>2. Highest(n)[t] \in 1..n /\ g[t \ {Highest(n)[t]}] \in V
      BY <1>1, <2>1
    <3> HIDE DEF Highest
    <3> QED BY <3>1, <3>2
  <2> HIDE DEF h
  <2> QED BY <1>1, <2>1 DEF NextStep
<1>3. BestOf(b, s) = G[1..n]
  BY DEF BestOf, FoldLeft, MapThenFoldSet
<1>4. G = Step(G)
  BY <1>2
<1> HIDE DEF G
<1>5. G[{}] = b
  BY <1>4
<1>6. ASSUME NEW i \in 1..n PROVE G[1..i] = BetterOf(G[1..(i - 1)], s[i])
  <2>1. i \in 1..i /\ 1..i \in SUBSET (1..n)
    OBVIOUS
  <2>2. Max(1..i) = i /\ (1..i) \ {i} = 1..(i - 1)
    BY <2>1, HighestIs DEF Max, Highest
  <2> QED BY <1>4, <2>1, <2>2
<1>7. \A i \in 1..n : G[1..(i - 1)] \in V => G[1..i] \in V
  BY <1>6
<1> HIDE DEF h, Step
<1> DEFINE f == [i \in 0..n |-> G[1..i]]
<1>8. f \in [0..n -> V] /\ f[0] = b /\ f[n] = G[1..n]
  <2>1. \A i \in 0..n : G[1..i] \in V
    BY <1>5, <1>7, FoldTrail
  <2>2. 1..0 = {}
    OBVIOUS
  <2> QED BY <1>5, <2>1, <2>2
<1>9. \A i \in 1..n : f[i] = BetterOf(f[i - 1], s[i])
  BY <1>6, <1>8
<1>10. BestTrail(f, V, b, s, n)
  BY <1>3, <1>8, <1>9 DEF BestTrail
<1> QED BY <1>10

CreditTrail(f, V, b, s, n) ==
  /\ f \in [0..n -> V] /\ f[0] = b /\ f[n] = Recorded(b, s)
  /\ \A i \in 1..n : f[i] = Credit(f[i - 1], s[i])

\* Recorded credits the results one by one.
LEMMA CreditFold ==
  ASSUME NEW n \in Nat, NEW s, DOMAIN s = 1..n, NEW V, NEW b \in V,
         \A v \in V, i \in 1..n : Credit(v, s[i]) \in V
  PROVE  \E f : CreditTrail(f, V, b, s, n)
<1> DEFINE h == [p \in V \X (1..n) |-> Credit(p[1], s[p[2]])]
           Step(g) == [t \in SUBSET (1..n) |->
                         IF t = {} THEN b ELSE Credit(g[t \ {Max(t)}], s[Max(t)])]
           G == CHOOSE g : g = Step(g)
<1>1. PICK g : /\ \A t \in SUBSET (1..n) : g[t] \in V
               /\ g = [t \in SUBSET (1..n) |-> NextStep(b, h, Highest(n), g, t)]
               /\ \A t \in SUBSET (1..n) : t # {} => Highest(n)[t] \in t
  <2>1. \A v \in V, i \in 1..n : h[<<v, i>>] \in V
    OBVIOUS
  <2> HIDE DEF h
  <2> QED BY <2>1, SequenceFold
<1>2. g = Step(g)
  <2>1. ASSUME NEW t \in SUBSET (1..n), t # {}
        PROVE  h[<<g[t \ {Highest(n)[t]}], Highest(n)[t]>>] = Credit(g[t \ {Max(t)}], s[Max(t)])
    <3>1. Max(t) = Highest(n)[t]
      BY DEF Max, Highest
    <3>2. Highest(n)[t] \in 1..n /\ g[t \ {Highest(n)[t]}] \in V
      BY <1>1, <2>1
    <3> HIDE DEF Highest
    <3> QED BY <3>1, <3>2
  <2> HIDE DEF h
  <2> QED BY <1>1, <2>1 DEF NextStep
<1>3. Recorded(b, s) = G[1..n]
  BY DEF Recorded, FoldLeft, MapThenFoldSet
<1>4. G = Step(G)
  BY <1>2
<1> HIDE DEF G
<1>5. G[{}] = b
  BY <1>4
<1>6. ASSUME NEW i \in 1..n PROVE G[1..i] = Credit(G[1..(i - 1)], s[i])
  <2>1. i \in 1..i /\ 1..i \in SUBSET (1..n)
    OBVIOUS
  <2>2. Max(1..i) = i /\ (1..i) \ {i} = 1..(i - 1)
    BY <2>1, HighestIs DEF Max, Highest
  <2> QED BY <1>4, <2>1, <2>2
<1>7. \A i \in 1..n : G[1..(i - 1)] \in V => G[1..i] \in V
  BY <1>6
<1> HIDE DEF h, Step
<1> DEFINE f == [i \in 0..n |-> G[1..i]]
<1>8. f \in [0..n -> V] /\ f[0] = b /\ f[n] = G[1..n]
  <2>1. \A i \in 0..n : G[1..i] \in V
    BY <1>5, <1>7, FoldTrail
  <2>2. 1..0 = {}
    OBVIOUS
  <2> QED BY <1>5, <2>1, <2>2
<1>9. \A i \in 1..n : f[i] = Credit(f[i - 1], s[i])
  BY <1>6, <1>8
<1>10. CreditTrail(f, V, b, s, n)
  BY <1>3, <1>8, <1>9 DEF CreditTrail
<1> QED BY <1>10

SumTrail(f, V, s, n) ==
  /\ f \in [0..n -> V] /\ f[0] = 0 /\ f[n] = Total(s)
  /\ \A i \in 1..n : f[i] = (f[i - 1] + s[i])

\* Total adds the rewards one by one.
LEMMA SumFold ==
  ASSUME NEW n \in Nat, NEW s, DOMAIN s = 1..n, NEW V, 0 \in V,
         \A v \in V, i \in 1..n : (v + s[i]) \in V
  PROVE  \E f : SumTrail(f, V, s, n)
<1> DEFINE h == [p \in V \X (1..n) |-> (p[1] + s[p[2]])]
           Step(g) == [t \in SUBSET (1..n) |->
                         IF t = {} THEN 0 ELSE (g[t \ {Max(t)}] + s[Max(t)])]
           G == CHOOSE g : g = Step(g)
<1>1. PICK g : /\ \A t \in SUBSET (1..n) : g[t] \in V
               /\ g = [t \in SUBSET (1..n) |-> NextStep(0, h, Highest(n), g, t)]
               /\ \A t \in SUBSET (1..n) : t # {} => Highest(n)[t] \in t
  <2>1. \A v \in V, i \in 1..n : h[<<v, i>>] \in V
    OBVIOUS
  <2> HIDE DEF h
  <2> QED BY <2>1, SequenceFold
<1>2. g = Step(g)
  <2>1. ASSUME NEW t \in SUBSET (1..n), t # {}
        PROVE  h[<<g[t \ {Highest(n)[t]}], Highest(n)[t]>>] = (g[t \ {Max(t)}] + s[Max(t)])
    <3>1. Max(t) = Highest(n)[t]
      BY DEF Max, Highest
    <3>2. Highest(n)[t] \in 1..n /\ g[t \ {Highest(n)[t]}] \in V
      BY <1>1, <2>1
    <3> HIDE DEF Highest
    <3> QED BY <3>1, <3>2
  <2> HIDE DEF h
  <2> QED BY <1>1, <2>1 DEF NextStep
<1>3. Total(s) = G[1..n]
  BY DEF Total, FoldLeft, MapThenFoldSet
<1>4. G = Step(G)
  BY <1>2
<1> HIDE DEF G
<1>5. G[{}] = 0
  BY <1>4
<1>6. ASSUME NEW i \in 1..n PROVE G[1..i] = (G[1..(i - 1)] + s[i])
  <2>1. i \in 1..i /\ 1..i \in SUBSET (1..n)
    OBVIOUS
  <2>2. Max(1..i) = i /\ (1..i) \ {i} = 1..(i - 1)
    BY <2>1, HighestIs DEF Max, Highest
  <2> QED BY <1>4, <2>1, <2>2
<1>7. \A i \in 1..n : G[1..(i - 1)] \in V => G[1..i] \in V
  BY <1>6
<1> HIDE DEF h, Step
<1> DEFINE f == [i \in 0..n |-> G[1..i]]
<1>8. f \in [0..n -> V] /\ f[0] = 0 /\ f[n] = G[1..n]
  <2>1. \A i \in 0..n : G[1..i] \in V
    BY <1>5, <1>7, FoldTrail
  <2>2. 1..0 = {}
    OBVIOUS
  <2> QED BY <1>5, <2>1, <2>2
<1>9. \A i \in 1..n : f[i] = (f[i - 1] + s[i])
  BY <1>6, <1>8
<1>10. SumTrail(f, V, s, n)
  BY <1>3, <1>8, <1>9 DEF SumTrail
<1> QED BY <1>10

-----------------------------------------------------------------------------
(* Sequences, and what the search makes of them.                           *)

\* A sequence of some set is a sequence.
LEMMA SeqIsSeq == ASSUME NEW X, NEW s \in Seq(X) PROVE IsSeq(s)
<1>1. Len(s) \in Nat /\ s = [i \in 1..Len(s) |-> s[i]] /\ DOMAIN s = 1..Len(s)
  OBVIOUS
<1>2. \A i \in 1..Len(s) : s[i] \in ToSet(s)
  BY <1>1 DEF ToSet
<1> QED BY <1>1, <1>2 DEF IsSeq

\* The positions of a sequence and what is at them.
LEMMA SeqDomain ==
  ASSUME NEW s, IsSeq(s)
  PROVE  /\ Len(s) \in Nat /\ DOMAIN s = 1..Len(s) /\ \A i \in DOMAIN s : s[i] \in ToSet(s)
         /\ s \in Seq(ToSet(s)) /\ (s = <<>> <=> Len(s) = 0)
BY DEF IsSeq

LEMMA WiderSeq == ASSUME NEW X, NEW Y, NEW s \in Seq(X), X \subseteq Y PROVE s \in Seq(Y)
<1>1. Len(s) \in Nat /\ s \in [1..Len(s) -> X]
  OBVIOUS
<1> QED BY <1>1

\* A function on the first numbers is a sequence.
LEMMA FunctionIsSeq ==
  ASSUME NEW n \in Nat, NEW f, f = [i \in 1..n |-> f[i]]
  PROVE  IsSeq(f) /\ Len(f) = n
<1>1. \A i \in 1..n : f[i] \in ToSet(f)
  BY DEF ToSet
<1>2. f \in [1..n -> ToSet(f)]
  BY <1>1
<1>3. f \in Seq(ToSet(f)) /\ Len(f) = n
  BY <1>2
<1> QED BY <1>3 DEF IsSeq

\* What is put together of sequences is a sequence.
LEMMA AppendIsSeq ==
  ASSUME NEW s, IsSeq(s), NEW e
  PROVE  /\ IsSeq(Append(s, e)) /\ Len(Append(s, e)) = Len(s) + 1 /\ Append(s, e) # <<>>
         /\ Append(s, e)[Len(s) + 1] = e
         /\ \A i \in 1..Len(s) : Append(s, e)[i] = s[i]
<1> DEFINE X == ToSet(s) \union {e}
<1>1. s \in Seq(X)
  BY WiderSeq DEF IsSeq
<1>2. e \in X
  OBVIOUS
<1> HIDE DEF X
<1>3. Append(s, e) \in Seq(X) /\ Len(Append(s, e)) = Len(s) + 1 /\ Append(s, e)[Len(s) + 1] = e
  BY <1>1, <1>2
<1>4. \A i \in 1..Len(s) : Append(s, e)[i] = s[i]
  BY <1>1, <1>2
<1>5. IsSeq(Append(s, e)) /\ Append(s, e) # <<>>
  <2>1. Len(s) \in Nat /\ Len(<<>>) = 0
    BY <1>1
  <2>2. Len(Append(s, e)) # Len(<<>>)
    BY <1>3, <2>1
  <2>3. IsSeq(Append(s, e))
    BY <1>3, SeqIsSeq
  <2> QED BY <2>2, <2>3
<1> QED BY <1>3, <1>4, <1>5

LEMMA ConcatIsSeq ==
  ASSUME NEW s, IsSeq(s), NEW t, IsSeq(t)
  PROVE  IsSeq(s \o t) /\ Len(s \o t) = Len(s) + Len(t)
<1> DEFINE X == ToSet(s) \union ToSet(t)
<1>1. s \in Seq(X) /\ t \in Seq(X)
  BY WiderSeq DEF IsSeq
<1> HIDE DEF X
<1>2. s \o t \in Seq(X) /\ Len(s \o t) = Len(s) + Len(t)
  BY <1>1
<1> QED BY <1>2, SeqIsSeq

\* So is a part of one: from its beginning ...
LEMMA PartOfSeq ==
  ASSUME NEW X, NEW s \in Seq(X), NEW m \in Int, NEW n \in Int, 1 <= m, n <= Len(s)
  PROVE  /\ SubSeq(s, m, n) \in Seq(X)
         /\ Len(SubSeq(s, m, n)) = IF m <= n THEN n - m + 1 ELSE 0
         /\ \A i \in 1..Len(SubSeq(s, m, n)) : SubSeq(s, m, n)[i] = s[m + i - 1]
OBVIOUS

LEMMA FirstOfSeq ==
  ASSUME NEW X, NEW s \in Seq(X), NEW n \in Int
  PROVE  /\ FirstOf(s, n) \in Seq(X)
         /\ Len(FirstOf(s, n)) <= Len(s) /\ (n >= 0 => Len(FirstOf(s, n)) <= n)
         /\ \A i \in DOMAIN FirstOf(s, n) : i \in DOMAIN s /\ FirstOf(s, n)[i] = s[i]
<1> DEFINE m == IF n < Len(s) THEN n ELSE Len(s)
<1>1. m \in Int /\ m <= Len(s) /\ m <= n /\ FirstOf(s, n) = SubSeq(s, 1, m) /\ Len(s) \in Nat
  BY DEF FirstOf
<1> HIDE DEF m
<1>2. /\ SubSeq(s, 1, m) \in Seq(X)
      /\ Len(SubSeq(s, 1, m)) = IF 1 <= m THEN m ELSE 0
      /\ \A i \in 1..Len(SubSeq(s, 1, m)) : SubSeq(s, 1, m)[i] = s[i]
  BY <1>1, PartOfSeq
<1>3. DOMAIN SubSeq(s, 1, m) = 1..Len(SubSeq(s, 1, m)) /\ DOMAIN s = 1..Len(s)
  BY <1>2
<1> QED BY <1>1, <1>2, <1>3

LEMMA FirstIsSeq ==
  ASSUME NEW s, IsSeq(s), NEW n \in Int
  PROVE  IsSeq(FirstOf(s, n))
BY FirstOfSeq, SeqIsSeq DEF IsSeq

\* ... or all but its last element.
LEMMA FrontSeq ==
  ASSUME NEW s, IsSeq(s), s # <<>>
  PROVE  IsSeq(Front(s)) /\ Len(Front(s)) = Len(s) - 1
<1>1. Len(s) \in Nat \ {0} /\ s \in Seq(ToSet(s))
  BY SeqDomain
<1> DEFINE X == ToSet(s)
           n == Len(s) - 1
<1>2. Front(s) \in Seq(X) /\ Len(Front(s)) = n
  <2>1. s \in Seq(X) /\ n \in Nat /\ n <= Len(s) /\ 1 <= 1
    BY <1>1
  <2>2. Front(s) = SubSeq(s, 1, n)
    BY DEF Front
  <2> HIDE DEF X, n
  <2>3. SubSeq(s, 1, n) \in Seq(X) /\ Len(SubSeq(s, 1, n)) = IF 1 <= n THEN n - 1 + 1 ELSE 0
    BY <2>1, PartOfSeq
  <2> QED BY <2>1, <2>2, <2>3
<1> QED BY <1>2, SeqIsSeq

\* Deduplication keeps a sequence of actions.
LEMMA DeduplicatedIsSeq == ASSUME NEW s, IsSeq(s) PROVE IsSeq(Deduplicated(s))
<1> DEFINE X == ToSet(s)
           n == Len(s)
           V == Seq(X)
<1>1. n \in Nat /\ DOMAIN s = 1..n /\ <<>> \in V
  BY SeqDomain
<1>2. \A i \in 1..n : s[i] \in X
  BY SeqDomain
<1>3. \A v \in V, i \in 1..n : Keep(v, s[i]) \in V
  <2> SUFFICES ASSUME NEW v \in V, NEW i \in 1..n PROVE Append(v, s[i]) \in V
    BY DEF Keep
  <2> HIDE DEF X, n
  <2> QED BY <1>2
<1> HIDE DEF X, n, V
<1>4. Deduplicated(s) \in V
  BY <1>1, <1>3, KeepFold
<1> QED BY <1>4, SeqIsSeq DEF V

\* Insertion keeps a heap of nodes.
LEMMA InsertIsIn ==
  ASSUME NEW X, NEW heap \in Seq(X), NEW e \in X
  PROVE  Insert(heap, e) \in Seq(X)
<1> DEFINE S == {i \in DOMAIN heap : Priority(heap[i]) >= Priority(e)}
           k == Cardinality(S) + 1
<1>1. k \in 1..(Len(heap) + 1)
  <2>0. Len(heap) \in Nat
    OBVIOUS
  <2>1. IsFiniteSet(1..Len(heap)) /\ Cardinality(1..Len(heap)) = Len(heap)
    BY <2>0, FS_Interval
  <2>2. S \subseteq 1..Len(heap)
    OBVIOUS
  <2> HIDE DEF S
  <2>3. Cardinality(S) \in Nat /\ Cardinality(S) <= Len(heap)
    BY <2>1, <2>2, FS_Subset, FS_CardinalityType
  <2> QED BY <2>0, <2>1, <2>3
<1> HIDE DEF k
<1>2. SubSeq(heap, 1, k - 1) \in Seq(X) /\ SubSeq(heap, k, Len(heap)) \in Seq(X)
  BY <1>1, PartOfSeq
<1>3. SubSeq(heap, 1, k - 1) \o <<e>> \o SubSeq(heap, k, Len(heap)) \in Seq(X)
  BY <1>2
<1> QED BY <1>3 DEF Insert, InsertAt, k

\* What is pushed on the heap is a node that did not end its episode, the others are left out.
LEMMA PushedIn ==
  ASSUME NEW X, NEW heap \in Seq(X), NEW n \in Nat, NEW s, DOMAIN s = 1..n,
         \A i \in 1..n : s[i] # NoNode /\ ~s[i].terminal /\ ~s[i].terminated => s[i] \in X
  PROVE  Pushed(heap, s) \in Seq(X)
<1> DEFINE V == Seq(X)
<1>1. \A v \in V, i \in 1..n : Push(v, s[i]) \in V
  BY InsertIsIn DEF Push
<1>2. heap \in V
  OBVIOUS
<1> HIDE DEF V
<1>3. Pushed(heap, s) \in V
  BY <1>1, <1>2, PushFold
<1> QED BY <1>3 DEF V

-----------------------------------------------------------------------------
(* The sum of a trajectory's rewards.                                      *)

\* The sums of the beginnings of a trajectory, one after the other.
LEMMA TotalTrail ==
  ASSUME NEW r \in Seq(Int)
  PROVE  \E f : SumTrail(f, Int, r, Len(r))
<1> DEFINE V == Int
           n == Len(r)
<1>1. n \in Nat /\ DOMAIN r = 1..n /\ 0 \in V
  OBVIOUS
<1>2. \A v \in V, i \in 1..n : (v + r[i]) \in V
  OBVIOUS
<1>3. \E f : SumTrail(f, V, r, n)
  <2> HIDE DEF V, n
  <2> QED BY <1>1, <1>2, SumFold
<1> QED BY <1>3

LEMMA TotalEmpty == Total(<<>>) = 0
<1>1. <<>> \in Seq(Int) /\ Len(<<>>) = 0
  OBVIOUS
<1>2. PICK f : SumTrail(f, Int, <<>>, Len(<<>>))
  BY <1>1, TotalTrail
<1> QED BY <1>1, <1>2 DEF SumTrail

\* One more reward adds to the sum: what the branch accumulates is the total of its rewards.
LEMMA TotalAppend ==
  ASSUME NEW r \in Seq(Int), NEW x \in Int
  PROVE  Total(Append(r, x)) = Total(r) + x
<1> DEFINE n == Len(r)
           a == Append(r, x)
<1>1. n \in Nat /\ a \in Seq(Int) /\ Len(a) = n + 1 /\ a[n + 1] = x /\ \A i \in 1..n : a[i] = r[i]
  OBVIOUS
<1> HIDE DEF n, a
<1>2. PICK f : SumTrail(f, Int, r, n)
  BY TotalTrail DEF n
<1>3. PICK g : SumTrail(g, Int, a, n + 1)
  BY <1>1, TotalTrail
<1> DEFINE P == {i \in 0..n : f[i] = g[i]}
<1>4. 0 \in P
  BY <1>1, <1>2, <1>3 DEF SumTrail
<1>5. \A i \in 1..n : i - 1 \in P => i \in P
  BY <1>1, <1>2, <1>3 DEF SumTrail
<1>6. n \in P
  <2> HIDE DEF P
  <2>1. \A i \in 0..n : i \in P
    BY <1>1, <1>4, <1>5, AllPositions
  <2> QED BY <1>1, <2>1
<1>7. g[n + 1] = g[n] + x
  BY <1>1, <1>3 DEF SumTrail
<1> QED BY <1>2, <1>3, <1>6, <1>7 DEF a, SumTrail

-----------------------------------------------------------------------------
(* The candidates: a list whose positions can be sorted by their score.     *)

Precedes(sc, i, j) == sc[i] > sc[j] \/ (sc[i] = sc[j] /\ i < j)

\* Every list of scores can be sorted: each position has its rank, the number of those before it.
LEMMA SortedExists ==
  ASSUME NEW n \in Nat, NEW sc \in [1..n -> Int]
  PROVE  \E p \in [1..n -> 1..n] : \A j, k \in 1..n : j < k => Precedes(sc, p[j], p[k])
<1> DEFINE S == 1..n
           Before(i) == {j \in S : Precedes(sc, j, i)}
           rank == [i \in S |-> Cardinality(Before(i)) + 1]
<1>1. IsFiniteSet(S) /\ Cardinality(S) = n
  BY FS_Interval
<1>2. ASSUME NEW i \in S
      PROVE  IsFiniteSet(Before(i)) /\ Cardinality(Before(i)) \in 0..(n - 1)
  <2>1. Before(i) \subseteq S /\ i \notin Before(i)
    BY DEF Precedes
  <2>2. IsFiniteSet(Before(i)) /\ Cardinality(Before(i)) \in Nat /\ Cardinality(Before(i)) <= n
    <3> HIDE DEF S, Before
    <3> QED BY <1>1, <2>1, FS_Subset, FS_CardinalityType
  <2>3. Cardinality(Before(i)) # n
    <3> HIDE DEF S, Before
    <3> QED BY <1>1, <1>2, <2>1, FS_Subset
  <2> HIDE DEF Before
  <2> QED BY <2>2, <2>3
<1>3. ASSUME NEW i \in S, NEW j \in S, Precedes(sc, i, j) PROVE rank[i] < rank[j]
  <2>1. Before(i) \subseteq Before(j) /\ i \in Before(j) /\ i \notin Before(i)
    BY <1>3 DEF Precedes
  <2>2. Cardinality(Before(i)) <= Cardinality(Before(j)) /\ Cardinality(Before(i)) # Cardinality(Before(j))
    <3> HIDE DEF S, Before
    <3> QED BY <1>2, <2>1, FS_Subset
  <2> HIDE DEF Before
  <2>3. Cardinality(Before(i)) \in Int /\ Cardinality(Before(j)) \in Int
    BY <1>2
  <2> QED BY <2>2, <2>3
<1>4. \A i, j \in S : i # j => Precedes(sc, i, j) \/ Precedes(sc, j, i)
  BY DEF Precedes
<1>5. rank \in [S -> S]
  <2> HIDE DEF Before
  <2> QED BY <1>2
<1> HIDE DEF rank
<1>6. \A i, j \in S : rank[i] = rank[j] => i = j
  <2> SUFFICES ASSUME NEW i \in S, NEW j \in S, rank[i] = rank[j], i # j PROVE FALSE
    OBVIOUS
  <2>1. rank[i] \in Int /\ rank[j] \in Int
    BY <1>5
  <2>2. ~Precedes(sc, i, j) /\ ~Precedes(sc, j, i)
    BY <1>3, <2>1
  <2> QED BY <1>4, <2>2
<1>7. \A k \in S : \E i \in S : rank[i] = k
  <2>1. rank \in Injection(S, S)
    BY <1>5, <1>6 DEF Injection, IsInjective
  <2>2. rank \in Surjection(S, S)
    <3> HIDE DEF S
    <3> QED BY <1>1, <2>1, FS_Injection
  <2> QED BY <2>2 DEF Surjection
<1> DEFINE p == [k \in S |-> CHOOSE i \in S : rank[i] = k]
<1>8. \A k \in S : p[k] \in S /\ rank[p[k]] = k
  BY <1>7
<1>9. p \in [S -> S]
  BY <1>8
<1>10. ASSUME NEW j \in S, NEW k \in S, j < k PROVE Precedes(sc, p[j], p[k])
  <2> HIDE DEF p
  <2>1. rank[p[j]] = j /\ rank[p[k]] = k /\ p[j] \in S /\ p[k] \in S /\ ~(k < j) /\ j # k
    BY <1>8, <1>10
  <2>2. ~Precedes(sc, p[k], p[j])
    BY <1>3, <2>1
  <2> QED BY <1>4, <2>1, <2>2
<1> QED BY <1>9, <1>10

\* The ranking holds every candidate once, with an integer for its score.
LEMMA RankedIs ==
  ASSUME NEW candidates, IsSeq(candidates), NEW scores,
         \A i \in DOMAIN scores : scores[i] \in Nat
  PROVE  /\ IsSeq(Ranked(candidates, scores))
         /\ \A k \in DOMAIN Ranked(candidates, scores) :
              Ranked(candidates, scores)[k] =
                [action |-> Ranked(candidates, scores)[k].action,
                 score |-> Ranked(candidates, scores)[k].score]
              /\ Ranked(candidates, scores)[k].score \in Int
<1> DEFINE n == Len(candidates)
           score(i) == IF i \in DOMAIN scores THEN scores[i] ELSE 50 - i
           sc == [i \in 1..n |-> score(i)]
           order == Sorted(n, LAMBDA i, j : score(i) > score(j) \/ (score(i) = score(j) /\ i < j))
           items == [k \in DOMAIN candidates |->
                       [action |-> candidates[order[k]], score |-> score(order[k])]]
<1>1. n \in Nat /\ DOMAIN candidates = 1..n
  BY SeqDomain
<1>2. \A i \in 1..n : score(i) \in Int
  OBVIOUS
<1>3. order \in [1..n -> 1..n]
  <2>1. sc \in [1..n -> Int]
    BY <1>2
  <2>2. \E p \in [1..n -> 1..n] : \A j, k \in 1..n : j < k => Precedes(sc, p[j], p[k])
    <3> HIDE DEF sc, n
    <3> QED BY <1>1, <2>1, SortedExists
  <2>3. PICK p \in [1..n -> 1..n] : \A j, k \in 1..n : j < k => Precedes(sc, p[j], p[k])
    BY <2>2
  <2>4. \A j, k \in 1..n : j < k => \/ score(p[j]) > score(p[k])
                                    \/ score(p[j]) = score(p[k]) /\ p[j] < p[k]
    <3> SUFFICES ASSUME NEW j \in 1..n, NEW k \in 1..n, j < k
                 PROVE  \/ score(p[j]) > score(p[k])
                        \/ score(p[j]) = score(p[k]) /\ p[j] < p[k]
      OBVIOUS
    <3>1. p[j] \in 1..n /\ p[k] \in 1..n /\ Precedes(sc, p[j], p[k])
      BY <2>3
    <3>2. sc[p[j]] = score(p[j]) /\ sc[p[k]] = score(p[k])
      BY <3>1
    <3> HIDE DEF sc, score
    <3> QED BY <3>1, <3>2 DEF Precedes
  <2> HIDE DEF sc, score, n
  <2> QED BY <2>4 DEF Sorted
<1>4. Ranked(candidates, scores) = items
  BY DEF Ranked
<1> HIDE DEF order, n
<1>5. \A k \in 1..n : items[k] = [action |-> items[k].action, score |-> items[k].score]
                      /\ items[k].score \in Int
  <2> SUFFICES ASSUME NEW k \in 1..n
               PROVE  items[k] = [action |-> items[k].action, score |-> items[k].score]
                      /\ items[k].score \in Int
    OBVIOUS
  <2>1. items[k] = [action |-> candidates[order[k]], score |-> score(order[k])]
    BY <1>1
  <2>2. score(order[k]) \in Int
    BY <1>2, <1>3
  <2> HIDE DEF items, score
  <2> QED BY <2>1, <2>2
<1>6. IsSeq(items)
  BY <1>1, FunctionIsSeq
<1>7. DOMAIN items = 1..n
  BY <1>1
<1> HIDE DEF items
<1> QED BY <1>4, <1>5, <1>6, <1>7

\* Whatever is proposed, seeded or mutated, the candidates of a node are a sequence.
LEMMA MutationsAreSeq ==
  ASSUME NEW action, NEW prefix, NEW hints
  PROVE  IsSeq(Mutations(action, prefix, hints))
<1> DEFINE applied == SelectSeq(AllDimensions, LAMBDA d : Applies(d, action, prefix))
           rank(i) == HintRank(applied[i], hints)
           order == SortSeq([i \in DOMAIN applied |-> i],
                      LAMBDA i, j : rank(i) < rank(j) \/ (rank(i) = rank(j) /\ i < j))
           list == [k \in 1..Len(applied) |-> Mutated(applied[order[k]], action, prefix)]
<1>1. Mutations(action, prefix, hints) = FirstOf(Deduplicated(list), MaxMutations)
  BY DEF Mutations
<1>2. Len(applied) \in Nat
  OBVIOUS
<1>3. IsSeq(list)
  <2> HIDE DEF applied, order
  <2> QED BY <1>2, FunctionIsSeq
<1> HIDE DEF list
<1> QED BY <1>1, <1>3, DeduplicatedIsSeq, FirstIsSeq, ActionsAssumption

LEMMA RestIsSeq ==
  ASSUME NEW s, IsSeq(s), NEW n \in Nat
  PROVE  IsSeq(SubSeq(s, n + 1, Len(s)))
<1>1. Len(s) \in Nat /\ s \in Seq(ToSet(s))
  BY SeqDomain
<1>2. SubSeq(s, n + 1, Len(s)) \in Seq(ToSet(s))
  BY <1>1, PartOfSeq
<1> QED BY <1>2, SeqIsSeq

LEMMA ChosenIsSeq ==
  ASSUME NEW proposals, IsSeq(proposals), NEW mutations, IsSeq(mutations)
  PROVE  IsSeq(Chosen(proposals, mutations))
<1> DEFINE slots == IF Len(mutations) < Count \div 2 THEN Len(mutations)
                    ELSE IF Count \div 2 < 1 THEN 1 ELSE Count \div 2
           first == IF slots < Count THEN Count - slots ELSE 0
           all == FirstOf(proposals, first) \o FirstOf(mutations, slots)
                    \o SubSeq(proposals, first + 1, Len(proposals))
                    \o SubSeq(mutations, slots + 1, Len(mutations))
<1>1. Count \in Nat /\ Count \div 2 \in Nat
  BY ActionsAssumption
<1>2. Len(mutations) \in Nat
  BY SeqDomain
<1>3. slots \in Nat /\ first \in Nat
  BY <1>1, <1>2
<1>4. Chosen(proposals, mutations) =
        IF mutations = <<>> THEN FirstOf(proposals, Count) ELSE FirstOf(Deduplicated(all), Count)
  BY DEF Chosen
<1>5. IsSeq(all)
  <2> HIDE DEF slots, first
  <2>1. IsSeq(FirstOf(proposals, first)) /\ IsSeq(FirstOf(mutations, slots))
    BY <1>3, FirstIsSeq
  <2>2. /\ IsSeq(SubSeq(proposals, first + 1, Len(proposals)))
        /\ IsSeq(SubSeq(mutations, slots + 1, Len(mutations)))
    BY <1>3, RestIsSeq
  <2> QED BY <2>1, <2>2, ConcatIsSeq
<1> HIDE DEF all
<1> QED BY <1>1, <1>4, <1>5, DeduplicatedIsSeq, FirstIsSeq

LEMMA CandidatesAreSeq ==
  ASSUME NEW state, NEW proposed, IsSeq(proposed)
  PROVE  IsSeq(Candidates(state, proposed))
<1>1. \A a, p : IsSeq(MutationsOf(a, p))
  BY MutationsAreSeq DEF MutationsOf
<1>2. IsSeq(<<>>) /\ Count \in Nat
  <2>1. <<>> \in Seq({})
    OBVIOUS
  <2> QED BY <2>1, SeqIsSeq, ActionsAssumption
<1>3. IsSeq(Deduplicated(proposed))
  BY DeduplicatedIsSeq
<1> QED BY <1>1, <1>2, <1>3, FirstIsSeq, ChosenIsSeq DEF Candidates

-----------------------------------------------------------------------------
(* Nodes, branches and runs as they are put together.                      *)

LEMMA EmptyIsSeq == IsSeq(<<>>)
<1>1. <<>> \in Seq({})
  OBVIOUS
<1> QED BY <1>1, SeqIsSeq

\* The placeholder has the shape of a node.
LEMMA NoNodeIs == IsNode(NoNode)
BY EmptyIsSeq DEF IsNode, NoNode

LEMMA NoNodeFields ==
  /\ NoNode.actions = <<>> /\ NoNode.observations = <<>> /\ NoNode.rewards = <<>>
  /\ NoNode.id = <<0, 0>> /\ ~NoNode.terminal
BY DEF NoNode

\* The root has all but the last action of the source.
LEMMA SourceIs == IsSeq(Source) /\ Len(Source) \in Nat \ {0} /\ IsSeq(Front(Source))
                  /\ Len(Front(Source)) = Len(Source) - 1
BY SearchAssumption, SeqDomain, FrontSeq

LEMMA RootFields ==
  /\ Root = [id |-> <<0, 0>>, actions |-> Root.actions, observations |-> <<>>, rewards |-> <<>>,
             reward |-> 0, novelty |-> 0, depth |-> Root.depth, terminal |-> FALSE,
             terminated |-> FALSE, score |-> 0]
  /\ IsSeq(Root.actions) /\ Root.depth = Len(Root.actions) /\ Root.depth \in Nat
<1>1. Root.actions = IF kind = "NEARBY_BYPASS" THEN Front(Source) ELSE <<>>
  BY DEF Root, NoNode
<1>2. Root.depth = IF kind = "NEARBY_BYPASS" THEN Len(Source) - 1 ELSE 0
  BY DEF Root, NoNode
<1>3. Len(<<>>) = 0
  OBVIOUS
<1>4. IsSeq(Root.actions) /\ Root.depth = Len(Root.actions) /\ Root.depth \in Nat
  BY <1>1, <1>2, <1>3, EmptyIsSeq, SourceIs
<1>5. ASSUME NEW a, NEW d
      PROVE  [NoNode EXCEPT !.actions = a, !.depth = d] \in
               [id : {<<0, 0>>}, actions : {a}, observations : {<<>>}, rewards : {<<>>},
                reward : {0}, novelty : {0}, depth : {d}, terminal : {FALSE},
                terminated : {FALSE}, score : {0}]
  BY DEF NoNode
<1>6. Root = [id |-> <<0, 0>>, actions |-> Root.actions, observations |-> <<>>, rewards |-> <<>>,
             reward |-> 0, novelty |-> 0, depth |-> Root.depth, terminal |-> FALSE,
             terminated |-> FALSE, score |-> 0]
  <2> DEFINE a == Root.actions
             d == Root.depth
  <2>1. Root = [NoNode EXCEPT !.actions = a, !.depth = d]
    BY <1>1, <1>2 DEF Root
  <2> HIDE DEF a, d
  <2>2. Root = [id |-> <<0, 0>>, actions |-> a, observations |-> <<>>, rewards |-> <<>>,
             reward |-> 0, novelty |-> 0, depth |-> d, terminal |-> FALSE,
             terminated |-> FALSE, score |-> 0]
    BY <1>5, <2>1
  <2> QED BY <2>2 DEF a, d
<1> QED BY <1>4, <1>6

LEMMA RootIs == IsNode(Root)
<1> DEFINE d == Root.depth
           a == Root.actions
           r == [id |-> <<0, 0>>, actions |-> a, observations |-> <<>>, rewards |-> <<>>,
             reward |-> 0, novelty |-> 0, depth |-> d, terminal |-> FALSE,
             terminated |-> FALSE, score |-> 0]
<1>1. IsSeq(a) /\ d \in Nat /\ Root = r
  BY RootFields
<1> HIDE DEF d, a
<1>2. IsNode(r)
  BY <1>1 DEF IsNode
<1> QED BY <1>1, <1>2

\* An answer, and the branch and the node it makes.
LEMMA AnswerIs ==
  ASSUME NEW answer \in Answers
  PROVE  /\ answer.observation \in Observation /\ answer.reward \in Int
         /\ answer.done \in BOOLEAN /\ answer.terminal \in BOOLEAN
<1>1. answer \in [observation : {answer.observation}, reward : Int, done : BOOLEAN, terminal : BOOLEAN]
  BY SearchAssumption
<1> QED BY <1>1 DEF Observation

LEMMA NodeOfIs ==
  ASSUME NEW b, IsBranch(b), NEW actions, IsSeq(actions), NEW depth \in Nat,
         NEW answer \in Answers, attempt \in Nat
  PROVE  /\ IsNode(NodeOf(b, actions, depth, answer))
         /\ NodeOf(b, actions, depth, answer) =
              [id |-> <<attempt, b.episode>>, actions |-> actions, observations |-> b.observations,
               rewards |-> b.rewards, reward |-> b.reward, novelty |-> 0, depth |-> depth,
               terminal |-> answer.terminal, terminated |-> answer.done, score |-> b.score]
<1> DEFINE r == [id |-> <<attempt, b.episode>>, actions |-> actions,
    observations |-> b.observations,
               rewards |-> b.rewards, reward |-> b.reward, novelty |-> 0, depth |-> depth,
               terminal |-> answer.terminal, terminated |-> answer.done, score |-> b.score]
<1>1. NodeOf(b, actions, depth, answer) = r
  <2>1. ASSUME NEW id, NEW os, NEW rs, NEW rw, NEW sc, NEW te, NEW td
        PROVE  [NoNode EXCEPT !.id = id, !.actions = actions, !.depth = depth,
                  !.observations = os, !.rewards = rs, !.reward = rw, !.score = sc,
                  !.terminal = te, !.terminated = td] \in
               [id : {id}, actions : {actions}, observations : {os}, rewards : {rs}, reward : {rw},
                novelty : {0}, depth : {depth}, terminal : {te}, terminated : {td}, score : {sc}]
    BY DEF NoNode
  <2>2. NodeOf(b, actions, depth, answer) \in
          [id : {<<attempt, b.episode>>}, actions : {actions}, observations : {b.observations},
           rewards : {b.rewards}, reward : {b.reward}, novelty : {0}, depth : {depth},
           terminal : {answer.terminal}, terminated : {answer.done}, score : {b.score}]
    BY <2>1, Zenon DEF NodeOf
  <2> QED BY <2>2
<1>2. /\ b.observations \in Seq(Observation) /\ b.rewards \in Seq(Int) /\ b.reward \in Int
      /\ b.score \in Int /\ b.episode \in Nat
  BY DEF IsBranch
<1>3. answer.terminal \in BOOLEAN /\ answer.done \in BOOLEAN
  BY AnswerIs
<1>4. IsNode(r)
  BY <1>2, <1>3 DEF IsNode
<1> QED BY <1>1, <1>4

\* A branch with one of its fields changed is a branch.
LEMMA BranchAt ==
  ASSUME NEW b, IsBranch(b), NEW at \in BranchPlace
  PROVE  /\ IsBranch([b EXCEPT !.at = at])
         /\ [b EXCEPT !.at = at].at = at
         /\ [b EXCEPT !.at = at].result = b.result
         /\ [b EXCEPT !.at = at].episode = b.episode
BY DEF IsBranch

Ended(b, at, k, n) == [b EXCEPT !.at = at, !.result = Result(k, n)]

LEMMA BranchResult ==
  ASSUME NEW b, IsBranch(b), NEW at \in BranchPlace, NEW k \in ResultKind, NEW n, IsNode(n)
  PROVE  /\ IsBranch(Ended(b, at, k, n)) /\ Ended(b, at, k, n).at = at
         /\ Ended(b, at, k, n).episode = b.episode
         /\ Ended(b, at, k, n).result.kind = k /\ Ended(b, at, k, n).result.node = n
<1> DEFINE c == [b EXCEPT !.at = at, !.result = Result(k, n)]
<1>1. /\ IsBranch(c) /\ c.at = at /\ c.episode = b.episode
      /\ c.result.kind = k /\ c.result.node = n
  BY DEF IsBranch, Result
<1>2. Ended(b, at, k, n) = c
  BY DEF Ended
<1> HIDE DEF c
<1> QED BY <1>1, <1>2

LEMMA BranchAction ==
  ASSUME NEW b, IsBranch(b), NEW at \in BranchPlace, NEW a,
         NEW c, c = [b EXCEPT !.at = at, !.action = a]
  PROVE  /\ IsBranch(c) /\ c.at = at /\ c.episode = b.episode /\ c.result = b.result
BY DEF IsBranch

WithTurn(b, o, rs, r) == [b EXCEPT !.observations = Append(@, o), !.rewards = rs, !.reward = r]

LEMMA WithTurnIs ==
  ASSUME NEW b, IsBranch(b), NEW o \in Observation, NEW rs \in Seq(Int), NEW r \in Int
  PROVE  LET c == WithTurn(b, o, rs, r)
         IN /\ IsBranch(c) /\ c.at = b.at /\ c.episode = b.episode /\ c.result = b.result
            /\ c.observations = Append(b.observations, o)
            /\ Len(c.observations) = Len(b.observations) + 1
            /\ c.rewards = rs /\ c.reward = r /\ c.action = b.action
<1> DEFINE os == Append(b.observations, o)
           c == [b EXCEPT !.observations = os, !.rewards = rs, !.reward = r]
<1>1. b.observations \in Seq(Observation)
  BY DEF IsBranch
<1>2. os \in Seq(Observation) /\ Len(os) = Len(b.observations) + 1
  BY <1>1
<1>3. WithTurn(b, o, rs, r) = c
  BY DEF WithTurn
<1> HIDE DEF os
<1>5. /\ c.at = b.at /\ c.episode = b.episode /\ c.result = b.result /\ c.action = b.action
      /\ c.observations = os /\ c.rewards = rs /\ c.reward = r
  BY DEF IsBranch
<1>8. IsBranch(c)
  BY <1>2 DEF IsBranch
<1> HIDE DEF c
<1> QED BY <1>2, <1>3, <1>5, <1>8 DEF os

LEMMA Turned ==
  ASSUME NEW i, IsBranch(branches[i]), NEW answer \in Answers
  PROVE  /\ answer.observation \in Observation
         /\ Append(branches[i].rewards, answer.reward) \in Seq(Int)
         /\ branches[i].reward + answer.reward \in Int
         /\ branches[i].rewards \in Seq(Int) /\ branches[i].reward \in Int
         /\ answer.reward \in Int
<1>1. /\ branches[i].rewards \in Seq(Int) /\ branches[i].reward \in Int
      /\ answer.observation \in Observation /\ answer.reward \in Int
  BY AnswerIs DEF IsBranch
<1> QED BY <1>1

-----------------------------------------------------------------------------
(* What a branch does in its environment: only the branch changes.          *)

Inside == {"provision", "reset", "think", "ready", "step", "close"}

\* What it says of a branch when it is left, ends as cancelled, or sends an action.
Honest(i, b) ==
  /\ b.at = "left" => b.result.kind = "failed" /\ run.at = "gather"
  /\ b.result.kind = "cancelled" => cancelled \/ branches[i].result.kind = "cancelled"
  /\ b.at \in {"ready", "step"} /\ run.at # "gather" =>
       /\ run.at = "episode" /\ branches[i].result.kind # "failed"
       /\ branches[i].at \in {"ready", "step"} \/ Scripted \/ Affordable

Keeps(i, b) ==
  /\ IsBranch(b) /\ Honest(i, b)
  /\ b.episode = branches[i].episode
  /\ b.at # "queued"
  /\ b.result.kind \in {"refused", "skipped"} => b.result.kind = branches[i].result.kind
  /\ branches[i].result.kind = "failed" => b.result.kind = "failed"
  /\ b.at \notin {"close", "done", "left"} => b.result = NoResult
  /\ run.at = "gather" => (b.at = "step" => Underway(b)) /\ ResultFits(b)

\* what the target's calls used may be collected
Collects == target'.known = target.known /\ target' \in [used : Nat, known : Nat]

Others == UNCHANGED <<collected, run, search>> /\ Collects

Moves(i) ==
  /\ Active /\ branches[i].at \in Inside /\ Others
  /\ \E b : Keeps(i, b) /\ Update(i, b)

LEMMA ChargesCollect == ASSUME TypeOK, TargetCharge \/ UNCHANGED target PROVE Collects
<1>1. target \in [used : Nat, known : Nat] /\ TargetTokens \subseteq Nat
  BY SearchAssumption DEF TypeOK
<1>2. CASE UNCHANGED target
  BY <1>1, <1>2 DEF Collects
<1>3. CASE TargetCharge
  <2>1. PICK tokens \in TargetTokens : target' = [target EXCEPT !.used = @ + tokens]
    BY <1>3 DEF TargetCharge
  <2> QED BY <1>1, <2>1 DEF Collects
<1> QED BY <1>2, <1>3

\* What a branch is made of.
LEMMA BranchIs ==
  ASSUME TypeOK, NEW i \in DOMAIN branches
  PROVE  IsBranch(branches[i]) /\ attempt \in Nat
BY DEF TypeOK

LEMMA NoResultFields == NoResult.kind = "none" /\ NoResult.node = NoNode
BY DEF NoResult

LEMMA NoNodeFits == ASSUME NEW b, b.result.node = NoNode PROVE ResultFits(b)
BY DEF ResultFits

\* A branch that ends without a node.
LEMMA EndsWell ==
  ASSUME TypeOK, Phases, NEW i \in DOMAIN branches, branches[i].at \in Inside, Active, Others,
         NEW at \in {"close", "done", "left"}, NEW k \in ResultKind \ {"refused", "skipped"},
         branches[i].at = "close" => k = "failed",
         at = "left" => k = "failed" /\ run.at = "gather", k = "cancelled" => cancelled,
         Update(i, [branches[i] EXCEPT !.at = at, !.result = Result(k, NoNode)])
  PROVE  Moves(i)
<1> DEFINE c == [branches[i] EXCEPT !.at = at, !.result = Result(k, NoNode)]
<1>0. c = Ended(branches[i], at, k, NoNode)
      /\ at \in BranchPlace /\ k \in ResultKind /\ IsBranch(branches[i]) /\ IsNode(NoNode)
  BY BranchIs, NoNodeIs DEF BranchPlace, Ended
<1> HIDE DEF c
<1>1. IsBranch(c) /\ c.at = at /\ c.episode = branches[i].episode /\ c.result.kind = k
      /\ c.result.node = NoNode
  BY <1>0, BranchResult
<1>2. ResultFits(c)
  BY <1>1, NoNodeFits
<1>3. branches[i].result.kind = "failed" => k = "failed"
  BY NoResultFields DEF Phases, Inside
<1>4. Keeps(i, c)
  BY <1>1, <1>2, <1>3 DEF Keeps, Honest
<1>5. Update(i, c)
  BY DEF c
<1> QED BY <1>4, <1>5 DEF Moves

\* A branch that fails.
LEMMA FailsWell ==
  ASSUME TypeOK, Phases, NEW i \in DOMAIN branches, branches[i].at \in Inside, Active, Others,
         NEW at \in {"close", "done", "left"}, at = "left" => run.at = "gather",
         Update(i, [branches[i] EXCEPT !.at = at, !.result = Result("failed", NoNode)])
  PROVE  Moves(i)
<1>1. PICK k : k = "failed"
  OBVIOUS
<1>2. k \in ResultKind \ {"refused", "skipped"} /\ k # "cancelled"
  BY <1>1 DEF ResultKind
<1>3. Update(i, [branches[i] EXCEPT !.at = at, !.result = Result(k, NoNode)])
  BY <1>1
<1> QED BY <1>1, <1>2, <1>3, EndsWell

\* A branch that goes on.
LEMMA GoesOn ==
  ASSUME TypeOK, Phases, NEW i \in DOMAIN branches, branches[i].at \in Inside \ {"close"}, Active,
         Others, NEW b, IsBranch(b), b.episode = branches[i].episode, b.at \in Inside \ {"close"},
         b.result = branches[i].result, run.at = "gather" /\ b.at = "step" => Underway(b),
         b.at \in {"ready", "step"} =>
           run.at = "gather" \/ branches[i].at = "ready" \/ Scripted \/ Affordable,
         Update(i, b)
  PROVE  Moves(i)
<1>1. branches[i].result = NoResult
  BY DEF Phases, Inside
<1>2. b.result.node = NoNode /\ b.result.kind = "none" /\ branches[i].result.kind = "none"
  BY <1>1, NoResultFields
<1>3. ResultFits(b)
  BY <1>2, NoNodeFits
<1>4. Keeps(i, b)
  BY <1>1, <1>2, <1>3 DEF Keeps, Honest, Inside, Active
<1> QED BY <1>4 DEF Moves, Inside

\* Each step of a branch moves it as Moves describes.
LEMMA ProvisionMoves ==
  ASSUME TypeOK, Phases, NEW i \in DOMAIN branches, Provision(i)
  PROVE  Moves(i)
<1>1. Active /\ Others /\ branches[i].at \in Inside \ {"close"}
  BY ChargesCollect DEF Provision, Others, Inside, tables, collected
<1>2. CASE Ends(i, "failed")
  BY <1>1, <1>2, FailsWell DEF Ends
<1>3. CASE Update(i, [branches[i] EXCEPT !.at = "reset"])
  <2> DEFINE c == [branches[i] EXCEPT !.at = "reset"]
  <2>1. IsBranch(c) /\ c.at = "reset" /\ c.result = branches[i].result
        /\ c.episode = branches[i].episode
    BY BranchIs, BranchAt DEF BranchPlace
  <2>2. Update(i, c)
    BY <1>3
  <2> HIDE DEF c
  <2> QED BY <1>1, <2>1, <2>2, GoesOn DEF Inside
<1> QED BY <1>2, <1>3 DEF Provision

LEMMA LeaveMoves ==
  ASSUME TypeOK, Phases, NEW i \in DOMAIN branches, Leave(i)
  PROVE  Moves(i)
<1>1. Active /\ Others /\ branches[i].at \in Inside \ {"close"}
  BY ChargesCollect DEF Leave, Others, Inside, Active, tables, collected
<1>2. run.at = "gather"
  BY DEF Leave
<1> QED BY <1>1, <1>2, FailsWell DEF Leave

LEMMA StepFailsMoves ==
  ASSUME TypeOK, Phases, NEW i \in DOMAIN branches, StepFails(i)
  PROVE  Moves(i)
<1>1. Active /\ Others /\ branches[i].at \in Inside \ {"close"}
  BY ChargesCollect DEF StepFails, Others, Inside, Active
<1> QED BY <1>1, FailsWell DEF StepFails, Closing

LEMMA CloseMoves ==
  ASSUME TypeOK, Phases, Trajectories, NEW i \in DOMAIN branches, CloseBranch(i)
  PROVE  Moves(i)
<1>1. Active /\ Others /\ branches[i].at = "close"
  BY ChargesCollect DEF CloseBranch, Others
<1>2. CASE Ends(i, "failed")
  BY <1>1, <1>2, FailsWell DEF Ends, Inside
<1>3. CASE Update(i, [branches[i] EXCEPT !.at = "done"])
  <2> DEFINE c == [branches[i] EXCEPT !.at = "done"]
  <2>1. IsBranch(c) /\ c.at = "done" /\ c.result = branches[i].result
        /\ c.episode = branches[i].episode
    BY BranchIs, BranchAt DEF BranchPlace
  <2>2. Update(i, c)
    BY <1>3
  <2> HIDE DEF c
  <2>3. run.at = "gather" => ResultFits(c)
    BY <2>1 DEF Trajectories, ResultFits
  <2>4. Keeps(i, c)
    BY <2>1, <2>3 DEF Keeps, Honest
  <2> QED BY <1>1, <2>2, <2>4 DEF Moves, Inside
<1> QED BY <1>2, <1>3 DEF CloseBranch

\* The node that is expanded, whose prefix the branches replay.
LEMMA ParentIs ==
  ASSUME TypeOK, Trajectories, run.at \in {"rank", "gather"}
  PROVE  /\ IsSeq(Prefix) /\ Len(Prefix) \in Nat /\ run.state.depth = Len(Prefix)
         /\ run.state.rewards \in Seq(Int) /\ run.state.reward \in Int
         /\ Comparable => Replayable(run.state)
<1>1. IsNode(run.state)
  BY DEF TypeOK, IsRun
<1>2. IsSeq(Prefix) /\ run.state.rewards \in Seq(Int) /\ run.state.reward \in Int
  BY <1>1 DEF IsNode, Prefix
<1>3. Len(Prefix) \in Nat
  BY <1>2, SeqDomain
<1>4. CASE run.state = Root
  <2>1. Root.observations = <<>> /\ Root.depth = Len(Root.actions)
    BY RootFields
  <2>2. Len(<<>>) = 0
    OBVIOUS
  <2>3. ~Comparable
    BY <1>3, <1>4, <2>1, <2>2 DEF Comparable
  <2> QED BY <1>2, <1>3, <1>4, <2>1, <2>3 DEF Prefix
<1>5. CASE Replayable(run.state)
  BY <1>2, <1>3, <1>5 DEF Replayable, Prefix
<1> QED BY <1>4, <1>5 DEF Trajectories

LEMMA ResetBranchMoves ==
  ASSUME TypeOK, Phases, Trajectories, NEW i \in DOMAIN branches, ResetBranch(i)
  PROVE  Moves(i)
<1>1. run.at = "gather" /\ Active /\ Others /\ branches[i].at \in Inside \ {"close"}
  BY ChargesCollect DEF ResetBranch, Others, Inside, Active, tables, collected
<1>2. ASSUME NEW k \in {"failed", "cancelled", "diverged"}, Closing(i, k, NoNode),
             k = "cancelled" => cancelled PROVE Moves(i)
  BY <1>1, <1>2, EndsWell DEF Closing, ResultKind
<1> DEFINE c(o) == [branches[i] EXCEPT
                 !.at = "step", !.observations = <<o>>,
                 !.rewards = IF Comparable THEN run.state.rewards ELSE <<>>,
                 !.reward = IF Comparable THEN run.state.reward ELSE 0]
<1>3. ASSUME NEW o \in Greetings, Update(i, c(o)) PROVE Moves(i)
  <2> DEFINE rs == IF Comparable THEN run.state.rewards ELSE <<>>
             r == IF Comparable THEN run.state.reward ELSE 0
             b == [branches[i] EXCEPT !.at = "step", !.observations = <<o>>, !.rewards = rs, !.reward = r]
  <2>1. rs \in Seq(Int) /\ r \in Int /\ <<o>> \in Seq(Observation)
    BY <1>1, <1>3, ParentIs DEF Observation
  <2>2. IsBranch(branches[i])
    BY BranchIs
  <2>3. Update(i, b)
    BY <1>3
  <2>4. /\ IsBranch(b) /\ b.at = "step" /\ b.episode = branches[i].episode
        /\ b.result = branches[i].result /\ b.observations = <<o>> /\ b.rewards = rs /\ b.reward = r
    <3> HIDE DEF rs, r
    <3> QED BY <2>1, <2>2 DEF IsBranch, BranchPlace
  <2> HIDE DEF b
  <2>5. Underway(b)
    <3>1. Len(b.observations) = 1 /\ Len(<<>>) = 0
      BY <2>4
    <3> QED BY <1>1, <2>4, <3>1, ParentIs, TotalEmpty DEF Underway
  <2> QED BY <1>1, <2>3, <2>4, <2>5, GoesOn DEF Inside
<1> QED BY <1>2, <1>3 DEF ResetBranch

\* A replayed step keeps the scores of a prefix that has some, and sums those of the others.
LEMMA ReplayMoves ==
  ASSUME TypeOK, Phases, Trajectories, NEW i \in DOMAIN branches, ReplayStep(i)
  PROVE  Moves(i)
<1>1. /\ run.at = "gather" /\ Active /\ Others /\ branches[i].at \in Inside \ {"close"}
      /\ branches[i].at = "step"
  BY ChargesCollect DEF ReplayStep, Others, Inside, Active
<1>2. ASSUME NEW k \in {"exhausted", "cancelled", "diverged"}, Closing(i, k, NoNode),
             k = "cancelled" => cancelled PROVE Moves(i)
  BY <1>1, <1>2, EndsWell DEF Closing, ResultKind
<1>3. PICK answer \in Answers :
         LET branch == Answered(i, answer, ScoredOnReplay)
           expected == run.state.observations[Turn(i) + 1]
         IN IF Comparable /\ answer.observation # expected THEN Closing(i, "diverged", NoNode)
          ELSE IF answer.terminal
          THEN Update(i, [branch EXCEPT !.at = "close",
                 !.result = Result("node", NodeOf(branch, Prefix, run.state.depth, answer))])
          ELSE IF answer.done THEN Closing(i, "exhausted", NoNode)
          ELSE IF cancelled THEN Closing(i, "cancelled", NoNode)
          ELSE Update(i, branch)
  BY DEF ReplayStep
<1> DEFINE b == Answered(i, answer, ScoredOnReplay)
           old == branches[i]
<1>4. Underway(old) /\ Turn(i) = Len(old.observations) /\ Turn(i) <= Len(Prefix)
  BY <1>1 DEF Trajectories, Turn, ReplayStep
<1>5. IsBranch(old) /\ attempt \in Nat /\ ScoredOnReplay \in BOOLEAN
  BY BranchIs DEF ScoredOnReplay, Comparable
<1>6. /\ IsBranch(b) /\ b.at = old.at /\ b.episode = old.episode /\ b.result = old.result
      /\ Len(b.observations) = Len(old.observations) + 1
      /\ b.rewards = IF ScoredOnReplay THEN Append(old.rewards, answer.reward) ELSE old.rewards
      /\ b.reward = IF ScoredOnReplay THEN old.reward + answer.reward ELSE old.reward
  <2> DEFINE rs == IF ScoredOnReplay THEN Append(old.rewards, answer.reward) ELSE old.rewards
             r == IF ScoredOnReplay THEN old.reward + answer.reward ELSE old.reward
  <2>1. b = WithTurn(old, answer.observation, rs, r)
    BY DEF Answered, WithTurn
  <2>2. answer.observation \in Observation /\ rs \in Seq(Int) /\ r \in Int
    BY <1>5, Turned
  <2> HIDE DEF b, rs, r, old
  <2>3. /\ IsBranch(b) /\ b.at = old.at /\ b.episode = old.episode /\ b.result = old.result
        /\ Len(b.observations) = Len(old.observations) + 1 /\ b.rewards = rs /\ b.reward = r
    BY <1>5, <2>1, <2>2, WithTurnIs
  <2> QED BY <2>3 DEF rs, r
<1> HIDE DEF b
<1>7. CASE Update(i, b)
  <2>1. Underway(b)
    <3>1. old.rewards \in Seq(Int) /\ old.reward \in Int /\ answer.reward \in Int
      BY <1>5, AnswerIs DEF IsBranch
    <3>2. Total(Append(old.rewards, answer.reward)) = Total(old.rewards) + answer.reward
      BY <3>1, TotalAppend
    <3>3. Len(Append(old.rewards, answer.reward)) = Len(old.rewards) + 1 /\ Len(old.rewards) \in Nat
      BY <3>1
    <3>4. Len(Prefix) \in Nat /\ Len(old.observations) \in Nat
      BY <1>1, <1>4, ParentIs DEF Underway
    <3>5. Len(b.observations) \in 1..(Len(Prefix) + 1)
      BY <1>4, <1>6, <3>4
    <3>6. CASE Comparable
      BY <1>4, <1>6, <3>5, <3>6 DEF Underway, ScoredOnReplay
    <3>7. CASE ~Comparable
      BY <1>4, <1>6, <3>2, <3>3, <3>4, <3>5, <3>7 DEF Underway, ScoredOnReplay
    <3> QED BY <3>6, <3>7
  <2> QED BY <1>1, <1>6, <1>7, <2>1, GoesOn
<1>8. CASE answer.terminal
           /\ Update(i, [b EXCEPT !.at = "close",
                 !.result = Result("node", NodeOf(b, Prefix, run.state.depth, answer))])
  <2> DEFINE n == NodeOf(b, Prefix, run.state.depth, answer)
             c == [b EXCEPT !.at = "close", !.result = Result("node", n)]
  <2>1. /\ IsNode(n) /\ n.id = <<attempt, b.episode>> /\ n.actions = Prefix
        /\ n.terminal = answer.terminal
    <3>1. IsSeq(Prefix) /\ run.state.depth \in Nat
      BY <1>1, ParentIs
    <3> QED BY <1>5, <1>6, <3>1, NodeOfIs
  <2> HIDE DEF n
  <2>3. Update(i, c)
    BY <1>8 DEF n
  <2>8. c = Ended(b, "close", "node", n)
        /\ "close" \in BranchPlace /\ "node" \in ResultKind
    BY DEF Ended, BranchPlace, ResultKind
  <2> HIDE DEF c
  <2>2. /\ IsBranch(c) /\ c.at = "close" /\ c.episode = b.episode /\ c.result.kind = "node"
        /\ c.result.node = n
    BY <1>6, <2>1, <2>8, BranchResult
  <2>4. Prefix # <<>>
    <3>1. Len(Prefix) \in Nat /\ Len(Prefix) >= 1 /\ Len(<<>>) = 0
      BY <1>1, <1>4, ParentIs DEF Underway
    <3> QED BY <3>1
  <2>5. ResultFits(c)
    BY <1>8, <2>1, <2>2, <2>4 DEF ResultFits
  <2>6. old.result.kind = "none"
    BY <1>1, NoResultFields DEF Phases
  <2>7. Keeps(i, c)
    BY <1>6, <2>2, <2>5, <2>6 DEF Keeps, Honest
  <2> QED BY <1>1, <2>3, <2>7 DEF Moves
<1> QED BY <1>2, <1>3, <1>7, <1>8 DEF b

\* The step of the candidate itself makes a node with a complete trajectory.
LEMMA CandidateMoves ==
  ASSUME TypeOK, Phases, Trajectories, NEW i \in DOMAIN branches, CandidateStep(i)
  PROVE  Moves(i)
<1>1. /\ run.at = "gather" /\ Active /\ Others /\ branches[i].at \in Inside \ {"close"}
      /\ branches[i].at = "step"
  BY ChargesCollect DEF CandidateStep, Others, Inside, Active
<1>2. PICK answer \in Answers :
       LET branch == Answered(i, answer, TRUE)
           node == NodeOf(branch, Append(Prefix, branch.action), run.state.depth + 1, answer)
       IN Update(i, [branch EXCEPT !.at = "close", !.result = Result("node", node)])
  BY DEF CandidateStep
<1> DEFINE b == Answered(i, answer, TRUE)
           old == branches[i]
<1>3. Underway(old) /\ Turn(i) = Len(old.observations) /\ Turn(i) > Len(Prefix)
  BY <1>1 DEF Trajectories, Turn, CandidateStep
<1>4. IsBranch(old) /\ attempt \in Nat
  BY BranchIs
<1>5. /\ IsBranch(b) /\ b.episode = old.episode
      /\ Len(b.observations) = Len(old.observations) + 1
      /\ b.rewards = Append(old.rewards, answer.reward)
      /\ b.reward = old.reward + answer.reward
  <2> DEFINE rs == Append(old.rewards, answer.reward)
             r == old.reward + answer.reward
  <2>1. b = WithTurn(old, answer.observation, rs, r)
    BY DEF Answered, WithTurn
  <2>2. answer.observation \in Observation /\ rs \in Seq(Int) /\ r \in Int
    BY <1>4, Turned
  <2> HIDE DEF b, rs, r, old
  <2>3. /\ IsBranch(b) /\ b.episode = old.episode
        /\ Len(b.observations) = Len(old.observations) + 1 /\ b.rewards = rs /\ b.reward = r
    BY <1>4, <2>1, <2>2, WithTurnIs
  <2> QED BY <2>3 DEF rs, r
<1> HIDE DEF b
<1> DEFINE n == NodeOf(b, Append(Prefix, b.action), run.state.depth + 1, answer)
           c == [b EXCEPT !.at = "close", !.result = Result("node", n)]
<1>6. /\ IsSeq(Append(Prefix, b.action)) /\ Len(Append(Prefix, b.action)) = Len(Prefix) + 1
      /\ Append(Prefix, b.action) # <<>> /\ run.state.depth + 1 \in Nat
      /\ run.state.depth = Len(Prefix) /\ Len(Prefix) \in Nat
  BY <1>1, ParentIs, AppendIsSeq
<1>7. /\ IsNode(n) /\ n.id = <<attempt, b.episode>> /\ n.actions = Append(Prefix, b.action)
      /\ n.depth = Len(Prefix) + 1 /\ n.observations = b.observations /\ n.rewards = b.rewards
      /\ n.reward = b.reward
  <2> DEFINE a == Append(Prefix, b.action)
             d == run.state.depth + 1
  <2>1. n = NodeOf(b, a, d, answer) /\ IsSeq(a) /\ d \in Nat /\ d = Len(Prefix) + 1
    BY <1>6
  <2> HIDE DEF n, a, d
  <2>2. /\ IsNode(n) /\ n.id = <<attempt, b.episode>> /\ n.actions = a
        /\ n.depth = d /\ n.observations = b.observations /\ n.rewards = b.rewards
        /\ n.reward = b.reward
    BY <1>4, <1>5, <2>1, NodeOfIs
  <2> QED BY <2>1, <2>2 DEF a
<1> HIDE DEF n
<1>8. Replayable(n)
  <2>1. old.rewards \in Seq(Int) /\ old.reward \in Int /\ answer.reward \in Int
    BY <1>4, AnswerIs DEF IsBranch
  <2>2. Total(b.rewards) = Total(old.rewards) + answer.reward /\ Len(b.rewards) = Len(old.rewards) + 1
    BY <1>5, <2>1, TotalAppend
  <2>3. Len(old.observations) = Len(Prefix) + 1
    BY <1>3, <1>6 DEF Underway
  <2>4. Len(old.rewards) = Len(Prefix) /\ old.reward = Total(old.rewards)
    <3>1. CASE Comparable
      BY <1>1, <1>3, <3>1, ParentIs DEF Underway, Replayable, Prefix
    <3>2. CASE ~Comparable
      BY <1>3, <1>6, <2>3, <3>2 DEF Underway
    <3> QED BY <3>1, <3>2
  <2> QED BY <1>5, <1>6, <1>7, <2>1, <2>2, <2>3, <2>4 DEF Replayable
<1>10. Update(i, c)
  BY <1>2 DEF n, b
<1>14. c = Ended(b, "close", "node", n)
       /\ "close" \in BranchPlace /\ "node" \in ResultKind
  BY DEF Ended, BranchPlace, ResultKind
<1> HIDE DEF c
<1>9. /\ IsBranch(c) /\ c.at = "close" /\ c.episode = b.episode /\ c.result.kind = "node"
      /\ c.result.node = n
  BY <1>5, <1>7, <1>14, BranchResult
<1>11. ResultFits(c)
  BY <1>6, <1>7, <1>8, <1>9 DEF ResultFits
<1>12. old.result.kind = "none"
  BY <1>1, NoResultFields DEF Phases
<1>13. Keeps(i, c)
  BY <1>5, <1>9, <1>11, <1>12 DEF Keeps, Honest
<1> QED BY <1>1, <1>10, <1>13 DEF Moves

\* The steps of an episode that is driven one by one, without nodes.
LEMMA EpisodeMoves ==
  ASSUME TypeOK, Phases, NEW i \in DOMAIN branches, i = 1,
         ResetEpisode \/ EndEpisode \/ Send \/ EpisodeStep
  PROVE  Moves(i)
<1>1. run.at = "episode" /\ run.at # "gather" /\ Active
  BY DEF ResetEpisode, EndEpisode, Send, EpisodeStep, Active
<1>2. Others /\ branches[i].at \in Inside \ {"close"}
  BY ChargesCollect DEF ResetEpisode, EndEpisode, Send, EpisodeStep, Others, Inside, tables, collected
<1>3. ASSUME NEW k \in {"failed", "exhausted", "cancelled"}, Closing(1, k, NoNode),
             k = "cancelled" => cancelled PROVE Moves(i)
  BY <1>1, <1>2, <1>3, EndsWell DEF Closing, ResultKind
<1>4. IsBranch(branches[i])
  BY BranchIs
<1>5. ASSUME NEW b, IsBranch(b), b.episode = branches[i].episode, b.at \in {"think", "step"},
             b.result = branches[i].result, Update(1, b),
             b.at = "step" => branches[i].at = "ready"
      PROVE  Moves(i)
  BY <1>1, <1>2, <1>5, GoesOn DEF Inside
<1>6. CASE ResetEpisode
  <2>1. ASSUME NEW o \in Greetings,
               Update(1, [branches[1] EXCEPT !.at = "think", !.observations = <<o>>])
        PROVE  Moves(i)
    <3> DEFINE b == [branches[i] EXCEPT !.at = "think", !.observations = <<o>>]
    <3>1. <<o>> \in Seq(Observation)
      BY DEF Observation
    <3>2. IsBranch(b) /\ b.episode = branches[i].episode /\ b.at = "think"
          /\ b.result = branches[i].result
      BY <1>4, <3>1 DEF IsBranch, BranchPlace
    <3>3. Update(1, b)
      BY <2>1
    <3> HIDE DEF b
    <3> QED BY <1>5, <3>2, <3>3
  <2> QED BY <1>3, <1>6, <2>1 DEF ResetEpisode
<1>7. CASE EndEpisode
  BY <1>3, <1>7 DEF EndEpisode
<1>8. CASE Send
  <2>1. ASSUME Update(1, [branches[1] EXCEPT !.at = "step"])
        PROVE  Moves(i)
    <3> DEFINE b == [branches[i] EXCEPT !.at = "step"]
    <3>2. IsBranch(b) /\ b.episode = branches[i].episode /\ b.at = "step"
          /\ b.result = branches[i].result
      BY <1>4, BranchAt DEF BranchPlace
    <3>3. Update(1, b)
      BY <2>1
    <3> HIDE DEF b
    <3>4. branches[i].at = "ready"
      BY <1>8 DEF Send
    <3> QED BY <1>5, <3>2, <3>3, <3>4
  <2> QED BY <1>3, <1>8, <2>1 DEF Send
<1>9. CASE EpisodeStep
  <2>1. ASSUME NEW answer \in Answers,
               LET branch == Answered(1, answer, TRUE)
               IN IF answer.done
                  THEN Update(1, [branch EXCEPT !.at = "close",
                         !.result = Result(IF answer.terminal THEN "won" ELSE "exhausted", NoNode)])
                  ELSE Update(1, [branch EXCEPT !.at = "think"])
        PROVE  Moves(i)
    <3> DEFINE old == branches[i]
               rs == Append(old.rewards, answer.reward)
               r == old.reward + answer.reward
               a == Answered(1, answer, TRUE)
               k == IF answer.terminal THEN "won" ELSE "exhausted"
    <3>1. a = WithTurn(old, answer.observation, rs, r)
      BY DEF Answered, WithTurn
    <3>2. answer.observation \in Observation /\ rs \in Seq(Int) /\ r \in Int
      BY <1>4, Turned
    <3>3. /\ IsBranch(a) /\ a.episode = old.episode /\ a.result = old.result
      <4> HIDE DEF a, rs, r, old
      <4>1. IsBranch(old)
        BY <1>4 DEF old
      <4> QED BY <3>1, <3>2, <4>1, WithTurnIs
    <3>4. IF answer.done THEN Update(1, Ended(a, "close", k, NoNode))
                         ELSE Update(1, [a EXCEPT !.at = "think"])
      BY <2>1 DEF Ended
    <3>8. k \in ResultKind /\ k \notin {"refused", "skipped", "cancelled"}
      BY DEF ResultKind
    <3> HIDE DEF a, k
    <3>5. CASE Update(1, Ended(a, "close", k, NoNode))
      <4> DEFINE c == Ended(a, "close", k, NoNode)
      <4>1. /\ IsBranch(c) /\ c.at = "close" /\ c.episode = a.episode
            /\ c.result.kind = k /\ c.result.node = NoNode
        BY <3>3, <3>8, BranchResult, NoNodeIs DEF BranchPlace
      <4>2. old.result.kind = "none"
        BY <1>2, NoResultFields DEF Phases, Inside
      <4> HIDE DEF c
      <4>3. Keeps(i, c)
        BY <1>1, <3>3, <3>8, <4>1, <4>2 DEF Keeps, Honest
      <4> QED BY <1>1, <1>2, <3>5, <4>3 DEF Moves, c
    <3>6. CASE Update(1, [a EXCEPT !.at = "think"])
      <4> DEFINE c == [a EXCEPT !.at = "think"]
      <4>1. IsBranch(c) /\ c.at = "think" /\ c.episode = a.episode /\ c.result = a.result
        BY <3>3, BranchAt DEF BranchPlace
      <4>2. Update(1, c)
        BY <3>6
      <4> HIDE DEF c
      <4> QED BY <1>5, <3>3, <4>1, <4>2
    <3> QED BY <3>4, <3>5, <3>6
  <2> QED BY <1>3, <1>9, <2>1 DEF EpisodeStep
<1> QED BY <1>6, <1>7, <1>8, <1>9

-----------------------------------------------------------------------------
(* The run of an attempt, one change at a time.                            *)

\* A run with what an action changes of it.
RunWith(at, base, explored, state, candidates, winner) ==
  [at |-> at, base |-> base, explored |-> explored, state |-> state, candidates |-> candidates,
   winner |-> winner]

RunFits(r, at, base, e, n, s, w) ==
  /\ IsRun(r) /\ r.at = at /\ r.base = base /\ r.explored = e
  /\ r.state = n /\ r.candidates = s /\ r.winner = w

\* A run with other values is a run ...
LEMMA RunWithIs ==
  ASSUME NEW at \in Phase, NEW base \in Nat, NEW e \in Nat, NEW n, IsNode(n), NEW s, IsSeq(s),
         NEW w, IsNode(w)
  PROVE  RunFits(RunWith(at, base, e, n, s, w), at, base, e, n, s, w)
<1> DEFINE r == RunWith(at, base, e, n, s, w)
<1>1. /\ r.at = at /\ r.base = base /\ r.explored = e /\ r.state = n /\ r.candidates = s
      /\ r.winner = w
  BY DEF RunWith
<1>2. r \in [at : Phase, base : Nat, explored : Nat, state : {n}, candidates : {s}, winner : {w}]
  BY DEF RunWith
<1>3. IsRun(r)
  <2> HIDE DEF r
  <2> QED BY <1>1, <1>2 DEF IsRun
<1> QED BY <1>1, <1>3 DEF RunFits

Explored(e, at, w) == [run EXCEPT !.explored = e, !.at = at, !.winner = w]

\* ... and each update of an action is one of these.
LEMMA RunChanges ==
  ASSUME IsRun(run), NEW at, NEW n, NEW s, NEW w
  PROVE  /\ [run EXCEPT !.at = at] =
              RunWith(at, run.base, run.explored, run.state, run.candidates, run.winner)
         /\ [run EXCEPT !.at = at, !.winner = w] =
              RunWith(at, run.base, run.explored, run.state, run.candidates, w)
         /\ [run EXCEPT !.at = at, !.state = n] =
              RunWith(at, run.base, run.explored, n, run.candidates, run.winner)
         /\ [run EXCEPT !.at = at, !.state = n, !.candidates = s] =
              RunWith(at, run.base, run.explored, n, s, run.winner)
<1>1. run = RunWith(run.at, run.base, run.explored, run.state, run.candidates, run.winner)
  BY DEF IsRun, RunWith
<1> DEFINE at0 == run.at
           b0 == run.base
           e0 == run.explored
           n0 == run.state
           s0 == run.candidates
           w0 == run.winner
<1>2. run \in [at : {at0}, base : {b0}, explored : {e0}, state : {n0}, candidates : {s0}, winner : {w0}]
  BY <1>1 DEF RunWith
<1> HIDE DEF at0, b0, e0, n0, s0, w0
<1>3. [run EXCEPT !.at = at] = RunWith(at, b0, e0, n0, s0, w0)
  <2> DEFINE r == [run EXCEPT !.at = at]
  <2>1. r \in
          [at : {at}, base : {b0}, explored : {e0}, state : {n0}, candidates : {s0}, winner : {w0}]
    BY <1>2
  <2> HIDE DEF r
  <2>2. r = RunWith(at, b0, e0, n0, s0, w0)
    BY <2>1 DEF RunWith
  <2> QED BY <2>2 DEF r
<1>4. [run EXCEPT !.at = at, !.winner = w] = RunWith(at, b0, e0, n0, s0, w)
  <2> DEFINE r == [run EXCEPT !.at = at, !.winner = w]
  <2>1. r \in
          [at : {at}, base : {b0}, explored : {e0}, state : {n0}, candidates : {s0}, winner : {w}]
    BY <1>2
  <2> HIDE DEF r
  <2>2. r = RunWith(at, b0, e0, n0, s0, w)
    BY <2>1 DEF RunWith
  <2> QED BY <2>2 DEF r
<1>5. [run EXCEPT !.at = at, !.state = n] = RunWith(at, b0, e0, n, s0, w0)
  <2> DEFINE r == [run EXCEPT !.at = at, !.state = n]
  <2>1. r \in
          [at : {at}, base : {b0}, explored : {e0}, state : {n}, candidates : {s0}, winner : {w0}]
    BY <1>2
  <2> HIDE DEF r
  <2>2. r = RunWith(at, b0, e0, n, s0, w0)
    BY <2>1 DEF RunWith
  <2> QED BY <2>2 DEF r
<1>6. [run EXCEPT !.at = at, !.state = n, !.candidates = s] = RunWith(at, b0, e0, n, s, w0)
  <2> DEFINE r == [run EXCEPT !.at = at, !.state = n, !.candidates = s]
  <2>1. r \in
          [at : {at}, base : {b0}, explored : {e0}, state : {n}, candidates : {s}, winner : {w0}]
    BY <1>2
  <2> HIDE DEF r
  <2>2. r = RunWith(at, b0, e0, n, s, w0)
    BY <2>1 DEF RunWith
  <2> QED BY <2>2 DEF r
<1> QED BY <1>3, <1>4, <1>5, <1>6 DEF b0, e0, n0, s0, w0

\* After a search step the run has explored more and perhaps has a winner.
LEMMA RunExplores ==
  ASSUME IsRun(run), NEW e, NEW at, NEW w
  PROVE  Explored(e, at, w) = RunWith(at, run.base, e, run.state, run.candidates, w)
<1>1. run = RunWith(run.at, run.base, run.explored, run.state, run.candidates, run.winner)
  BY DEF IsRun, RunWith
<1> DEFINE at0 == run.at
           b0 == run.base
           e0 == run.explored
           n0 == run.state
           s0 == run.candidates
           w0 == run.winner
<1>2. run \in [at : {at0}, base : {b0}, explored : {e0}, state : {n0}, candidates : {s0}, winner : {w0}]
  BY <1>1 DEF RunWith
<1> HIDE DEF at0, b0, e0, n0, s0, w0
<1>3. [run EXCEPT !.explored = e, !.at = at, !.winner = w] = RunWith(at, b0, e, n0, s0, w)
  <2> DEFINE r == [run EXCEPT !.explored = e, !.at = at, !.winner = w]
  <2>1. r \in
          [at : {at}, base : {b0}, explored : {e}, state : {n0}, candidates : {s0}, winner : {w}]
    BY <1>2
  <2> HIDE DEF r
  <2>2. r = RunWith(at, b0, e, n0, s0, w)
    BY <2>1 DEF RunWith
  <2> QED BY <2>2 DEF r
<1> QED BY <1>3 DEF Explored, b0, n0, s0

\* The run of a new attempt.
LEMMA RunBegins ==
  ASSUME NEW at, NEW base
  PROVE  [NotStarted EXCEPT !.at = at, !.base = base] = RunWith(at, base, 0, NoNode, <<>>, NoNode)
<1>1. [NotStarted EXCEPT !.at = at, !.base = base] \in
        [at : {at}, base : {base}, explored : {0}, state : {NoNode}, candidates : {<<>>},
         winner : {NoNode}]
  BY DEF NotStarted
<1> DEFINE r == [NotStarted EXCEPT !.at = at, !.base = base]
<1>2. r \in
        [at : {at}, base : {base}, explored : {0}, state : {NoNode}, candidates : {<<>>},
         winner : {NoNode}]
  BY <1>1
<1> HIDE DEF r
<1>3. r = RunWith(at, base, 0, NoNode, <<>>, NoNode)
  BY <1>2 DEF RunWith
<1> QED BY <1>3 DEF r

LEMMA RunIs ==
  ASSUME TypeOK
  PROVE  IsRun(run) /\ IsNode(run.state) /\ IsSeq(run.candidates) /\ IsNode(run.winner)
BY DEF TypeOK, IsRun

LEMMA RunFields ==
  ASSUME TypeOK
  PROVE  run.base \in Nat /\ run.explored \in Nat /\ run.at \in Phase
BY DEF TypeOK, IsRun

LEMMA KindIs ==
  ASSUME TypeOK
  PROVE  /\ kind \in {"ADAPTIVE", "NEARBY_BYPASS", "LINEAR", "EXACT_REPLAY", "BENIGN_REGRESSION"}
         /\ ~Adaptive => kind = "LINEAR" \/ Scripted
         /\ Adaptive => ~Scripted /\ kind # "LINEAR"
<1>1. kind \in {"ADAPTIVE", "NEARBY_BYPASS", "LINEAR", "EXACT_REPLAY", "BENIGN_REGRESSION"}
  BY SearchAssumption DEF TypeOK
<1> QED BY <1>1 DEF Adaptive, Scripted

-----------------------------------------------------------------------------
(* The steps that leave the nodes and the store alone.                      *)

\* What is said of nodes, trajectories and the store needs no more than the variables it names.
LEMMA SameNodes ==
  ASSUME Bests, Credits, WinnerIsBest, UNCHANGED <<kind, memory, attempt, best, nodes>>,
         run'.explored = run.explored,
         Adaptive /\ Searching' => Searching,
         Adaptive /\ run'.at = "returned" => run.at = "returned" /\ run'.winner = run.winner,
         Adaptive /\ (run'.at \in {"rank", "gather"} \/ (run'.at = "select" /\ ~cancelled')) =>
           run.at \in {"rank", "gather"} \/ (run.at = "select" /\ ~cancelled)
  PROVE  Bests' /\ Credits' /\ WinnerIsBest'
<1>1. Adaptive' = Adaptive
  BY DEF Adaptive
<1>2. Bests'
  <2>1. ~Adaptive => nodes = {} /\ best = NoNode
    BY DEF Bests
  <2> HIDE DEF Adaptive, Searching
  <2> QED BY <1>1, <2>1 DEF Bests
<1>3. IdsBelow(run.explored)' <=> IdsBelow(run.explored)
  BY DEF IdsBelow
<1>4. Credits'
  BY <1>1, <1>3 DEF Credits
<1>5. WinnerIsBest'
  <2>1. ~Adaptive => nodes = {}
    BY DEF Bests
  <2> QED BY <2>1 DEF WinnerIsBest
<1> QED BY <1>2, <1>4, <1>5

\* Before the first attempt.
LEMMA InitInv == Init => Inv
<1> SUFFICES ASSUME Init PROVE Inv
  OBVIOUS
<1>1. TypeOK
  <2>1. IsRun(run) /\ IsNode(NoNode) /\ IsSeq(<<>>)
    BY NoNodeIs, EmptyIsSeq DEF Init, NotStarted, IsRun, Phase
  <2>2. IsStore(memory)
    BY DEF Init, SeedMemory, Unused, IsStore
  <2>3. kind \in Kinds /\ cancelled = FALSE /\ attempt = 0 /\ frontier = <<>> /\ best = NoNode
        /\ nodes = {} /\ branches = <<>>
    BY DEF Init
  <2>4. campaign \in [seeds : Seq(Nat), tokens : Nat] /\ budget \in [episodes : Nat, tokens : Nat]
    BY DEF Init
  <2>5. DOMAIN <<>> = {} /\ target \in [used : Nat, known : Nat]
    BY DEF Init
  <2> QED BY <2>1, <2>2, <2>3, <2>4, <2>5 DEF TypeOK
<1>2. run.at = "waiting" /\ Len(<<>>) = 0
  BY DEF Init, NotStarted
<1>3. Phases
  BY <1>2 DEF Init, Phases, Active
<1>4. Episodes
  BY <1>2 DEF Init, Episodes, Searching
<1>5. Tokens
  BY <1>2, SearchAssumption DEF Init, Tokens, Searching
<1>6. Trajectories
  BY <1>2 DEF Init, Trajectories
<1>7. Bests /\ WinnerIsBest
  BY <1>2 DEF Init, Bests, Searching, WinnerIsBest
<1>8. Credits
  <2>1. IsFiniteSet({}) /\ Cardinality({}) = 0
    BY FS_EmptySet
  <2>2. \A s \in DOMAIN memory : memory[s] = Unused
    BY DEF Init, SeedMemory
  <2>3. Unused.won = {} /\ Unused.wins = 0 /\ Unused.attempts = 0
    BY DEF Unused
  <2>4. nodes = {}
    BY DEF Init
  <2> QED BY <1>2, <2>1, <2>2, <2>3, <2>4 DEF Credits
<1> QED BY <1>1, <1>3, <1>4, <1>5, <1>6, <1>7, <1>8 DEF Inv

\* A cancellation may come at any time: what it excuses is excused from then on.
LEMMA CancelInv == Inv /\ Cancel => Inv'
<1> SUFFICES ASSUME Inv, Cancel PROVE Inv'
  OBVIOUS
<1>1. /\ cancelled' = TRUE
      /\ UNCHANGED <<kind, campaign, target, memory, attempt, budget, run, search, branches>>
  BY DEF Cancel
<1>2. TypeOK'
  BY <1>1 DEF Inv, TypeOK, search
<1>3. Phases'
  BY <1>1 DEF Inv, Phases, Adaptive, Remaining, Active, NoResult
<1>4. Episodes'
  BY <1>1 DEF Inv, Episodes, Scripted, Waiting
<1>5. Tokens'
  BY <1>1 DEF Inv, Tokens, Searching
<1>6. Trajectories'
  BY <1>1 DEF Inv, Trajectories, Root, Replayable, Underway, Prefix, Comparable, ResultFits, search
<1>7. Bests' /\ Credits' /\ WinnerIsBest'
  <2>1. Searching' <=> Searching
    BY <1>1 DEF Searching
  <2> QED BY <1>1, <2>1, SameNodes DEF Inv, search
<1> QED BY <1>2, <1>3, <1>4, <1>5, <1>6, <1>7 DEF Inv

LEMMA StutterInv == Inv /\ UNCHANGED vars => Inv'
<1> SUFFICES ASSUME Inv, UNCHANGED vars PROVE Inv'
  OBVIOUS
<1>1. UNCHANGED <<kind, cancelled, campaign, target, memory, attempt, budget, run, frontier, best, nodes, branches>>
  BY DEF vars, tables, search
<1>2. TypeOK'
  BY <1>1 DEF Inv, TypeOK
<1>3. Phases'
  BY <1>1 DEF Inv, Phases, Adaptive, Remaining, Active, NoResult
<1>4. Episodes'
  BY <1>1 DEF Inv, Episodes, Scripted, Waiting, Searching, Adaptive
<1>5. Tokens'
  BY <1>1 DEF Inv, Tokens, Searching
<1>6. Trajectories'
  BY <1>1 DEF Inv, Trajectories, Root, Replayable, Underway, Prefix, Comparable, ResultFits
<1>7. Bests' /\ Credits' /\ WinnerIsBest'
  <2>1. Searching' <=> Searching
    BY <1>1 DEF Searching
  <2> QED BY <1>1, <2>1, SameNodes DEF Inv
<1> QED BY <1>2, <1>3, <1>4, <1>5, <1>6, <1>7 DEF Inv

-----------------------------------------------------------------------------
(* The steps of an attempt that no branch takes part in.                    *)

\* An attempt that is lost leaves the tables as they are.
LEMMA LoseInv == Inv /\ Lose => Inv'
<1> SUFFICES ASSUME Inv, Lose PROVE Inv'
  OBVIOUS
<1>1. /\ run' = [run EXCEPT !.at = "lost"] /\ branches' = <<>>
      /\ UNCHANGED <<kind, cancelled, campaign, memory, attempt, budget, frontier, best, nodes>>
      /\ run.at # "waiting" /\ target' \in [used : Nat, known : Nat]
  BY ChargesCollect DEF Lose, collected, search, Inv, Collects
<1>2. IsRun(run') /\ run'.at = "lost" /\ run'.base = run.base /\ run'.explored = run.explored
  <2>1. run' = RunWith("lost", run.base, run.explored, run.state, run.candidates, run.winner)
    BY <1>1, RunChanges, RunIs DEF Inv
  <2>2. RunFits(run', "lost", run.base, run.explored, run.state, run.candidates, run.winner)
    BY <2>1, RunWithIs, RunIs, RunFields DEF Inv, Phase
  <2> QED BY <2>2 DEF RunFits
<1>3. DOMAIN <<>> = {} /\ IsSeq(<<>>)
  BY EmptyIsSeq
<1>4. TypeOK'
  BY <1>1, <1>2, <1>3 DEF Inv, TypeOK
<1>5. Phases'
  BY <1>1, <1>2, <1>3 DEF Inv, Phases
<1>6. Episodes'
  BY <1>1, <1>2, <1>3 DEF Inv, Episodes, Searching, Scripted
<1>7. Tokens'
  BY <1>1, <1>2 DEF Inv, Tokens, Searching
<1>8. Trajectories'
  BY <1>1, <1>2 DEF Inv, Trajectories, Root, Replayable
<1>9. Bests' /\ Credits' /\ WinnerIsBest'
  BY <1>1, <1>2, SameNodes DEF Inv, Searching
<1> QED BY <1>4, <1>5, <1>6, <1>7, <1>8, <1>9 DEF Inv

\* The search stops for want of nodes or of episodes, or as it is cancelled.
LEMMA StopSearchInv == Inv /\ StopSearch => Inv'
<1> SUFFICES ASSUME Inv, StopSearch PROVE Inv'
  OBVIOUS
<1> DEFINE w == IF best = NoNode THEN Root ELSE best
<1>1. /\ run' = [run EXCEPT !.at = "returned", !.winner = w]
      /\ UNCHANGED <<kind, cancelled, campaign, target, memory, attempt, budget, frontier, best, nodes, branches>>
      /\ run.at = "select" /\ Adaptive
  BY DEF StopSearch, Finish, tables, search
<1>2. IsNode(w)
  BY RootIs DEF Inv, TypeOK
<1> HIDE DEF w
<1>3. /\ IsRun(run') /\ run'.at = "returned" /\ run'.base = run.base /\ run'.explored = run.explored
      /\ run'.winner = w
  <2>1. run' = RunWith("returned", run.base, run.explored, run.state, run.candidates, w)
    BY <1>1, RunChanges, RunIs DEF Inv
  <2>2. RunFits(run', "returned", run.base, run.explored, run.state, run.candidates, w)
    BY <1>2, <2>1, RunWithIs, RunIs, RunFields DEF Inv, Phase
  <2> QED BY <2>2 DEF RunFits
<1>4. TypeOK'
  BY <1>1, <1>3 DEF Inv, TypeOK
<1>5. Phases'
  BY <1>1, <1>3 DEF Inv, Phases, Active, NoResult
<1>6. Episodes'
  BY <1>1, <1>3 DEF Inv, Episodes, Searching, Scripted
<1>7. Tokens'
  BY <1>1, <1>3 DEF Inv, Tokens, Searching
<1>8. Trajectories'
  BY <1>1, <1>3 DEF Inv, Trajectories, Root, Replayable
<1>9. Bests'
  BY <1>1, <1>3 DEF Inv, Bests, Searching, Adaptive
<1>10. Credits'
  BY <1>1, <1>3 DEF Inv, Credits, Adaptive
<1>11. WinnerIsBest'
  <2>1. /\ NoNode \notin nodes /\ \A n \in nodes : ~n.terminal
        /\ IF nodes = {} THEN best = NoNode
           ELSE best \in nodes /\ \A n \in nodes : Priority(n) <= Priority(best)
    BY <1>1 DEF Inv, Bests, Searching
  <2>2. {n \in nodes : n.terminal} = {}
    BY <2>1
  <2>3. nodes # {} => w = best
    BY <2>1 DEF w
  <2> QED BY <1>1, <1>3, <2>1, <2>2, <2>3 DEF WinnerIsBest
<1> QED BY <1>4, <1>5, <1>6, <1>7, <1>8, <1>9, <1>10, <1>11 DEF Inv

\* A new attempt starts from what the tables count, not from what the last one knew.
LEMMA BeginInv == Inv /\ Begin => Inv'
<1> SUFFICES ASSUME Inv, Begin PROVE Inv'
  OBVIOUS
<1> DEFINE at == IF cancelled THEN "returned" ELSE "select"
           base == Len(campaign.seeds)
<1>1. /\ run' = [NotStarted EXCEPT !.at = at, !.base = base] /\ branches' = <<>>
      /\ attempt' = attempt + 1 /\ budget' = CampaignBudget /\ best' = NoNode /\ nodes' = {}
      /\ UNCHANGED <<kind, cancelled, campaign, memory>>
      /\ target' = [target EXCEPT !.known = target.used]
      /\ frontier' = IF Adaptive THEN <<Root>> ELSE <<>>
  BY DEF Begin, tables
<1>2. base \in Nat /\ at \in Phase /\ campaign.tokens \in Nat /\ attempt \in Nat
      /\ cancelled \in BOOLEAN /\ target \in [used : Nat, known : Nat]
  BY DEF Inv, TypeOK, Phase
<1>3. /\ IsRun(run') /\ run'.at = at /\ run'.base = base /\ run'.explored = 0
      /\ run'.winner = NoNode
  <2> HIDE DEF at, base
  <2>1. run' = RunWith(at, base, 0, NoNode, <<>>, NoNode)
    BY <1>1, RunBegins
  <2>2. RunFits(run', at, base, 0, NoNode, <<>>, NoNode)
    BY <1>2, <2>1, RunWithIs, NoNodeIs, EmptyIsSeq
  <2> QED BY <2>2 DEF RunFits
<1>4. DOMAIN <<>> = {} /\ IsSeq(<<>>) /\ Len(<<>>) = 0
  BY EmptyIsSeq
<1>5. IsSeq(<<Root>>) /\ IsNode(Root) /\ DOMAIN <<Root>> = {1} /\ <<Root>>[1] = Root /\ IsNode(NoNode)
  <2>1. \A r : <<r>> \in Seq({r}) /\ DOMAIN <<r>> = {1} /\ <<r>>[1] = r
    OBVIOUS
  <2> QED BY <2>1, SeqIsSeq, RootIs, NoNodeIs
<1>6. Root' = Root /\ Adaptive' = Adaptive
  BY <1>1 DEF Root, Adaptive
<1>7. at \in {"returned", "select"}
  OBVIOUS
<1>8. /\ budget' = [episodes |-> base, tokens |-> campaign.tokens + target'.known]
      /\ target' \in [used : Nat, known : Nat]
  BY <1>1, <1>2 DEF CampaignBudget
<1>9. TypeOK'
  <2>1. /\ kind' \in Kinds /\ cancelled' \in BOOLEAN /\ attempt' \in Nat
        /\ campaign' \in [seeds : Seq(Nat), tokens : Nat] /\ IsStore(memory)'
    BY <1>1, <1>2 DEF Inv, TypeOK
  <2>2. budget' \in [episodes : Nat, tokens : Nat]
    BY <1>2, <1>8
  <2>3. IsSeq(frontier') /\ \A i \in DOMAIN frontier' : IsNode(frontier'[i])
    BY <1>1, <1>4, <1>5
  <2>4. IsNode(best') /\ \A n \in nodes' : IsNode(n)
    BY <1>1, <1>5
  <2>5. IsSeq(branches') /\ \A i \in DOMAIN branches' : IsBranch(branches'[i])
    BY <1>1, <1>4
  <2> QED BY <1>3, <1>8, <2>1, <2>2, <2>3, <2>4, <2>5 DEF TypeOK
<1> HIDE DEF at, base
<1>10. Phases'
  BY <1>1, <1>2, <1>3, <1>4, <1>7 DEF Phases
<1>11. Episodes'
  <2>1. /\ ~Scripted => \A i \in DOMAIN campaign.seeds : campaign.seeds[i] = i - 1
        /\ Scripted => Len(campaign.seeds) <= 1
    BY DEF Inv, Episodes
  <2>2. Scripted' = Scripted
    BY <1>1 DEF Scripted
  <2>3. budget'.episodes = Len(campaign.seeds) /\ Len(campaign.seeds) = run'.base + run'.explored
    BY <1>2, <1>3, <1>8 DEF base
  <2> QED BY <1>1, <1>3, <1>4, <1>7, <2>1, <2>2, <2>3 DEF Episodes
<1>12. Tokens'
  <2>1. campaign.tokens <= MaxTokens + attempt /\ MaxTokens \in Nat
    BY SearchAssumption DEF Inv, Tokens
  <2>2. campaign.tokens < MaxTokens + (attempt + 1)
    BY <1>2, <2>1
  <2> QED BY <1>1, <1>2, <1>3, <1>7, <1>8, <2>1, <2>2 DEF Tokens
<1>13. Trajectories'
  BY <1>1, <1>3, <1>4, <1>5, <1>6, <1>7 DEF Trajectories
<1>14. Bests' /\ WinnerIsBest'
  BY <1>1, <1>6 DEF Bests, WinnerIsBest
<1>15. Credits'
  <2>1. \A s \in DOMAIN memory : \A id \in memory[s].won : id[1] \in Nat /\ id[1] <= attempt
    BY DEF Inv, Credits, TypeOK, IsStore
  <2>2. \A s \in DOMAIN memory : \A id \in memory[s].won : id[1] < attempt + 1
    BY <1>2, <2>1
  <2>3. IdsBelow(run.explored)'
    BY <1>1, <2>2 DEF IdsBelow
  <2>4. \A s \in DOMAIN memory : \A id \in memory[s].won : id[1] <= attempt + 1
    BY <1>2, <2>1
  <2> QED BY <1>1, <2>3, <2>4 DEF Inv, Credits
<1> QED BY <1>9, <1>10, <1>11, <1>12, <1>13, <1>14, <1>15 DEF Inv

-----------------------------------------------------------------------------
(* Expanding a node.                                                        *)

\* Taking the first node off the heap.
LEMMA TailSeq ==
  ASSUME NEW s, IsSeq(s), s # <<>>
  PROVE  /\ IsSeq(Tail(s)) /\ s[1] \in ToSet(s) /\ 1 \in DOMAIN s
         /\ \A i \in DOMAIN Tail(s) : i + 1 \in DOMAIN s /\ Tail(s)[i] = s[i + 1]
<1> DEFINE X == ToSet(s)
<1>1. s \in Seq(X) /\ Len(s) \in Nat /\ Len(s) # 0
  BY SeqDomain
<1> HIDE DEF X
<1>2. Tail(s) \in Seq(X) /\ Len(Tail(s)) = Len(s) - 1
  BY <1>1
<1>3. \A i \in 1..(Len(s) - 1) : Tail(s)[i] = s[i + 1]
  BY <1>1
<1>4. DOMAIN Tail(s) = 1..(Len(s) - 1) /\ DOMAIN s = 1..Len(s)
  BY <1>1, <1>2
<1>5. IsSeq(Tail(s))
  BY <1>2, SeqIsSeq
<1>6. 1 \in DOMAIN s /\ s[1] \in ToSet(s)
  BY <1>1, <1>4, SeqDomain
<1> QED BY <1>1, <1>3, <1>4, <1>5, <1>6

\* A charge is added to the tracker and to the table alike.
LEMMA ChargeIs ==
  ASSUME TypeOK, Tokens, Searching \/ (run.at = "episode" /\ branches[1].result.kind # "failed"),
         run.at # "waiting", Phases, Charge, Spend
  PROVE  /\ campaign' \in [seeds : Seq(Nat), tokens : Nat]
         /\ budget' \in [episodes : Nat, tokens : Nat]
         /\ campaign'.seeds = campaign.seeds /\ budget'.episodes = budget.episodes
         /\ campaign'.tokens <= MaxTokens + attempt
         /\ Affordable => /\ budget'.tokens = campaign'.tokens + target.known
                          /\ campaign'.tokens < MaxTokens + attempt
<1>1. campaign \in [seeds : Seq(Nat), tokens : Nat] /\ budget \in [episodes : Nat, tokens : Nat]
      /\ attempt \in Nat /\ attempt # 0 /\ target.known \in Nat
  BY DEF TypeOK, Phases
<1>2. budget.tokens = campaign.tokens + target.known /\ campaign.tokens < MaxTokens + attempt /\ MaxTokens \in Nat
  BY SearchAssumption DEF Tokens
<1> DEFINE c == [campaign EXCEPT !.tokens = @ + 1]
           b == [budget EXCEPT !.tokens = @ + 1]
<1>3. /\ c \in [seeds : Seq(Nat), tokens : Nat] /\ c.seeds = campaign.seeds
      /\ c.tokens = campaign.tokens + 1
  BY <1>1
<1>4. /\ b \in [episodes : Nat, tokens : Nat] /\ b.episodes = budget.episodes
      /\ b.tokens = budget.tokens + 1
  BY <1>1
<1>5. campaign' = c /\ budget' = IF Affordable THEN b ELSE budget
  BY DEF Charge, Spend
<1> HIDE DEF c, b
<1>6. CASE Affordable
  <2>1. campaign.tokens \in Nat /\ budget.tokens + 1 <= MaxTokens /\ budget' = b
    BY <1>1, <1>5, <1>6 DEF Affordable
  <2>2. campaign' = c /\ campaign.tokens + 1 <= MaxTokens
    BY <1>1, <1>2, <1>5, <2>1
  <2>3. campaign.tokens + 1 < MaxTokens + attempt
    BY <1>1, <1>2, <2>1, <2>2
  <2> QED BY <1>1, <1>2, <1>3, <1>4, <2>1, <2>2, <2>3
<1>7. CASE ~Affordable
  BY <1>1, <1>2, <1>3, <1>5, <1>7
<1> QED BY <1>6, <1>7

\* A node that is too deep, or has no candidates, is dropped.
LEMMA ExhaustInv == Inv /\ Exhaust => Inv'
<1> SUFFICES ASSUME Inv, Exhaust PROVE Inv'
  OBVIOUS
<1>1. /\ run.at = "select" /\ frontier # <<>> /\ frontier' = Tail(frontier)
      /\ UNCHANGED <<kind, cancelled, campaign, target, memory, attempt, budget, run, best, nodes, branches>>
  BY DEF Exhaust, Selects, tables
<1>2. IsSeq(frontier) /\ \A i \in DOMAIN frontier : IsNode(frontier[i]) /\
        (frontier[i] = Root \/ Replayable(frontier[i]))
  BY DEF Inv, TypeOK, Trajectories
<1>3. IsSeq(frontier') /\ \A i \in DOMAIN frontier' : IsNode(frontier'[i]) /\
        (frontier'[i] = Root \/ Replayable(frontier'[i]))
  BY <1>1, <1>2, TailSeq
<1>4. TypeOK'
  BY <1>1, <1>3 DEF Inv, TypeOK
<1>5. Phases'
  BY <1>1 DEF Inv, Phases, Adaptive, Remaining, Active, NoResult
<1>6. Episodes'
  BY <1>1 DEF Inv, Episodes, Scripted, Waiting, Searching, Adaptive
<1>7. Tokens'
  BY <1>1 DEF Inv, Tokens, Searching
<1>8. Trajectories'
  <2>1. Root' = Root
    BY <1>1 DEF Root
  <2> QED BY <1>1, <1>3, <2>1 DEF Trajectories
<1>9. Bests' /\ Credits' /\ WinnerIsBest'
  <2>1. Searching' <=> Searching
    BY <1>1 DEF Searching
  <2> QED BY <1>1, <2>1, SameNodes DEF Inv
<1> QED BY <1>4, <1>5, <1>6, <1>7, <1>8, <1>9 DEF Inv

\* A model call within the budget proposes the candidates of a node.
LEMMA ProposeInv == Inv /\ Propose => Inv'
<1> SUFFICES ASSUME Inv, Propose PROVE Inv'
  OBVIOUS
<1> DEFINE f == frontier[1]
<1>1. /\ run.at = "select" /\ Adaptive /\ Remaining > 0 /\ ~cancelled
      /\ frontier # <<>> /\ frontier' = Tail(frontier)
      /\ UNCHANGED <<kind, cancelled, target, memory, attempt, best, nodes, branches>>
  BY DEF Propose, Selects
<1>2. IsSeq(frontier) /\ \A i \in DOMAIN frontier : IsNode(frontier[i]) /\
        (frontier[i] = Root \/ Replayable(frontier[i]))
  BY DEF Inv, TypeOK, Trajectories
<1>3. IsSeq(frontier') /\ \A i \in DOMAIN frontier' : IsNode(frontier'[i]) /\
        (frontier'[i] = Root \/ Replayable(frontier'[i]))
  BY <1>1, <1>2, TailSeq
<1>4. IsNode(f) /\ (f = Root \/ Replayable(f))
  BY <1>1, <1>2, TailSeq
<1>5. Searching /\ run.at # "waiting"
  BY <1>1 DEF Searching
<1>6. \/ /\ \E p : IsSeq(p) /\ Expanded(f, Candidates(f, p))
         /\ \/ UNCHANGED <<campaign, budget>>
            \/ Affordable /\ Charge /\ Spend
      \/ Raise /\ Charge /\ Spend
  BY EmptyIsSeq, SearchAssumption DEF Propose
<1>7. /\ campaign' \in [seeds : Seq(Nat), tokens : Nat]
      /\ budget' \in [episodes : Nat, tokens : Nat]
      /\ campaign'.seeds = campaign.seeds /\ budget'.episodes = budget.episodes
      /\ campaign'.tokens <= MaxTokens + attempt
      /\ ~Raise => budget'.tokens = campaign'.tokens + target.known /\ campaign'.tokens < MaxTokens + attempt
  <2>1. CASE UNCHANGED <<campaign, budget>>
    BY <1>5, <2>1 DEF Inv, TypeOK, Tokens
  <2>2. CASE Charge /\ Spend
    BY <1>5, <1>6, <2>2, ChargeIs DEF Inv, Tokens
  <2> QED BY <1>6, <2>1, <2>2
<1> DEFINE Outcome(at, n, s) ==
             /\ at \in {"select", "rank", "raised"}
             /\ RunFits(run', at, run.base, run.explored, n, s, run.winner)
             /\ at = "rank" => n = Root \/ Replayable(n)
             /\ at # "raised" => ~Raise
<1>8. \E at, n, s : Outcome(at, n, s)
  <2>1. ASSUME NEW p, IsSeq(p), Expanded(f, Candidates(f, p)) PROVE \E at, n, s : Outcome(at, n, s)
    <3> DEFINE s == Candidates(f, p)
               at == IF s = <<>> THEN "select" ELSE "rank"
    <3>1. IsSeq(s)
      BY <2>1, CandidatesAreSeq
    <3>2. run' = [run EXCEPT !.at = at, !.state = f, !.candidates = s]
      BY <2>1 DEF Expanded
    <3>3. at \in {"select", "rank"} /\ at \in Phase
      BY DEF Phase
    <3> HIDE DEF at, s, f
    <3>4. run' = RunWith(at, run.base, run.explored, f, s, run.winner)
      BY <3>2, RunChanges, RunIs DEF Inv
    <3>5. RunFits(run', at, run.base, run.explored, f, s, run.winner)
      BY <1>4, <3>1, <3>3, <3>4, RunWithIs, RunIs, RunFields DEF Inv
    <3>6. ~Raise
      <4>1. ASSUME Raise PROVE run' = RunWith("raised", run.base, run.explored, run.state, run.candidates, run.winner)
        BY <4>1, RunChanges, RunIs DEF Inv, Raise
      <4>2. ASSUME Raise PROVE run'.at = "raised"
        BY <4>1, <4>2 DEF RunWith
      <4> QED BY <3>3, <3>5, <4>2 DEF RunFits
    <3>7. Outcome(at, f, s)
      BY <1>4, <3>3, <3>5, <3>6 DEF f
    <3> QED BY <3>7
  <2>2. ASSUME Raise PROVE \E at, n, s : Outcome(at, n, s)
    <3>1. run' = RunWith("raised", run.base, run.explored, run.state, run.candidates, run.winner)
      BY <2>2, RunChanges, RunIs DEF Inv, Raise
    <3>2. RunFits(run', "raised", run.base, run.explored, run.state, run.candidates, run.winner)
      BY <3>1, RunWithIs, RunIs, RunFields DEF Inv, Phase
    <3>3. Outcome("raised", run.state, run.candidates)
      BY <3>2
    <3> QED BY <3>3
  <2> HIDE DEF Outcome
  <2> QED BY <1>6, <2>1, <2>2
<1>9. /\ IsRun(run') /\ run'.base = run.base /\ run'.explored = run.explored
      /\ run'.at \in {"select", "rank", "raised"}
      /\ run'.at = "rank" => run'.state = Root \/ Replayable(run'.state)
      /\ run'.at # "raised" => ~Raise
  BY <1>8 DEF RunFits
<1> HIDE DEF f
<1>10. Adaptive' = Adaptive /\ Root' = Root /\ Remaining' = Remaining /\ Scripted' = Scripted
  BY <1>1, <1>9 DEF Adaptive, Root, Remaining, Scripted
<1>11. TypeOK'
  BY <1>1, <1>3, <1>7, <1>9 DEF Inv, TypeOK
<1>12. Phases'
  <2> HIDE DEF Adaptive, Remaining
  <2> QED BY <1>1, <1>9, <1>10 DEF Inv, Phases, Active, NoResult
<1>13. Episodes'
  <2> HIDE DEF Adaptive, Scripted
  <2>1. /\ budget.episodes = Len(campaign.seeds) /\ Len(campaign.seeds) = run.base + run.explored
        /\ \A i \in DOMAIN branches : branches[i].result.kind # "refused"
        /\ \A i \in DOMAIN branches : branches[i].result.kind = "skipped" => cancelled
        /\ ~Scripted => \A i \in DOMAIN campaign.seeds : campaign.seeds[i] = i - 1
        /\ Scripted => Len(campaign.seeds) <= 1
    BY <1>1, <1>5 DEF Inv, Episodes
  <2> QED BY <1>1, <1>7, <1>9, <1>10, <2>1 DEF Episodes
<1>14. Tokens'
  BY <1>1, <1>7, <1>9 DEF Tokens, Searching
<1>15. Trajectories'
  BY <1>1, <1>3, <1>9, <1>10 DEF Trajectories
<1>16. Bests' /\ Credits' /\ WinnerIsBest'
  BY <1>1, <1>5, <1>9, SameNodes DEF Inv
<1> QED BY <1>11, <1>12, <1>13, <1>14, <1>15, <1>16 DEF Inv

-----------------------------------------------------------------------------
(* The branches and episodes of an attempt.                                 *)

\* The branches of the ranked candidates.
LEMMA QueuedIs ==
  ASSUME NEW item, item.score \in Int, NEW e \in Nat
  PROVE  /\ IsBranch(Queued(item, e)) /\ Queued(item, e).at = "queued"
         /\ Queued(item, e).episode = e /\ Queued(item, e).result = NoResult
<1> DEFINE a == item.action
           sc == item.score
           b == [action |-> a, score |-> sc, episode |-> e, at |-> "queued",
                 observations |-> <<>>, rewards |-> <<>>, reward |-> 0, result |-> NoResult]
<1>1. Queued(item, e) = b
  BY DEF Queued
<1>2. NoResult = [kind |-> "none", node |-> NoNode]
  BY DEF NoResult
<1> HIDE DEF a, sc
<1>3. /\ b.at = "queued" /\ b.episode = e /\ b.result = NoResult /\ b.result.node = NoNode
  BY <1>2
<1>4. sc \in Int
  BY DEF sc
<1>5. <<>> \in Seq(Observation) /\ <<>> \in Seq(Int)
  OBVIOUS
<1>6. IsBranch(b)
  BY <1>2, <1>4, <1>5, NoNodeIs DEF IsBranch, BranchPlace, ResultKind
<1> QED BY <1>1, <1>3, <1>6

\* One branch is replaced, the others stay.
LEMMA Replaced ==
  ASSUME TypeOK, NEW i \in DOMAIN branches, NEW b, IsBranch(b), Update(i, b)
  PROVE  /\ IsSeq(branches') /\ Len(branches') = Len(branches)
         /\ DOMAIN branches = 1..Len(branches) /\ DOMAIN branches' = 1..Len(branches)
         /\ Len(branches) \in Nat
         /\ branches'[i] = b /\ \A j \in DOMAIN branches : j # i => branches'[j] = branches[j]
         /\ \A j \in DOMAIN branches' : IsBranch(branches'[j])
<1>1. IsSeq(branches) /\ \A j \in DOMAIN branches : IsBranch(branches[j])
  BY DEF TypeOK
<1>2. Len(branches) \in Nat /\ DOMAIN branches = 1..Len(branches)
  BY <1>1, SeqDomain
<1>3. branches' = [branches EXCEPT ![i] = b]
  BY DEF Update
<1>4. DOMAIN branches' = 1..Len(branches)
  BY <1>2, <1>3
<1>5. branches = [j \in 1..Len(branches) |-> branches[j]]
  <2>1. branches \in Seq(ToSet(branches))
    BY <1>1 DEF IsSeq
  <2> QED BY <2>1
<1>6. branches' = [j \in 1..Len(branches) |-> branches'[j]]
  BY <1>2, <1>3, <1>5
<1>7. IsSeq(branches') /\ Len(branches') = Len(branches)
  BY <1>2, <1>6, FunctionIsSeq
<1>8. branches'[i] = b /\ \A j \in DOMAIN branches : j # i => branches'[j] = branches[j]
  BY <1>3, <1>5
<1> QED BY <1>1, <1>2, <1>4, <1>7, <1>8

\* The ranked candidates, no more than episodes remain, are queued for the next episodes.
LEMMA RankInv == Inv /\ Rank => Inv'
<1> SUFFICES ASSUME Inv, Rank PROVE Inv'
  OBVIOUS
<1>1. /\ run.at = "rank" /\ Charge /\ Spend
      /\ UNCHANGED <<kind, cancelled, target, memory, attempt, frontier, best, nodes>>
  BY DEF Rank, search
<1>2. Searching /\ Adaptive /\ Remaining > 0 /\ Remaining \in Int
  BY <1>1, RunFields, SearchAssumption DEF Inv, Phases, Searching, Remaining
<1>3. /\ campaign' \in [seeds : Seq(Nat), tokens : Nat]
      /\ budget' \in [episodes : Nat, tokens : Nat]
      /\ campaign'.seeds = campaign.seeds /\ budget'.episodes = budget.episodes
      /\ campaign'.tokens <= MaxTokens + attempt
      /\ Affordable => /\ budget'.tokens = campaign'.tokens + target.known
                       /\ campaign'.tokens < MaxTokens + attempt
  BY <1>1, <1>2, ChargeIs DEF Inv
<1>4. /\ budget.episodes = Len(campaign.seeds) \/ cancelled
      /\ ~cancelled => Len(campaign.seeds) = run.base + run.explored
      /\ \A i \in DOMAIN branches : branches[i].result.kind # "refused"
      /\ \A i \in DOMAIN branches : branches[i].result.kind = "skipped" => cancelled
      /\ ~Scripted => \A i \in DOMAIN campaign.seeds : campaign.seeds[i] = i - 1
      /\ Scripted => Len(campaign.seeds) <= 1
      /\ run.base \in Nat /\ run.explored \in Nat
  BY <1>1, <1>2, RunFields DEF Inv, Episodes
<1>5. \A at \in Phase : run' = [run EXCEPT !.at = at] =>
        RunFits(run', at, run.base, run.explored, run.state, run.candidates, run.winner)
  <2> SUFFICES ASSUME NEW at \in Phase, run' = [run EXCEPT !.at = at]
               PROVE  RunFits(run', at, run.base, run.explored, run.state, run.candidates, run.winner)
    OBVIOUS
  <2>1. run' = RunWith(at, run.base, run.explored, run.state, run.candidates, run.winner)
    BY RunChanges, RunIs DEF Inv
  <2> QED BY <2>1, RunWithIs, RunIs, RunFields DEF Inv
<1>6. Adaptive' = Adaptive /\ Root' = Root /\ Scripted' = Scripted
  BY <1>1 DEF Adaptive, Root, Scripted
<1>7. CASE Raise /\ UNCHANGED branches
  <2>1. RunFits(run', "raised", run.base, run.explored, run.state, run.candidates, run.winner)
    BY <1>5, <1>7 DEF Raise, Phase
  <2>2. IsRun(run') /\ run'.at = "raised" /\ run'.base = run.base /\ run'.explored = run.explored
    BY <2>1 DEF RunFits
  <2>3. TypeOK'
    BY <1>1, <1>3, <1>7, <2>2 DEF Inv, TypeOK
  <2>4. Phases'
    BY <1>1, <1>7, <2>2 DEF Inv, Phases, Active, NoResult
  <2>5. Episodes'
    <3> HIDE DEF Scripted
    <3> QED BY <1>1, <1>3, <1>4, <1>6, <1>7, <2>2 DEF Episodes, Searching
  <2>6. Tokens'
    BY <1>1, <1>3, <2>2 DEF Tokens, Searching
  <2>7. Trajectories'
    BY <1>1, <1>6, <2>2 DEF Inv, Trajectories
  <2>8. Bests' /\ Credits' /\ WinnerIsBest'
    BY <1>1, <1>2, <2>2, SameNodes DEF Inv, Searching
  <2> QED BY <2>3, <2>4, <2>5, <2>6, <2>7, <2>8 DEF Inv
<1>8. ASSUME NEW scores \in Scores, Affordable,
             LET ranked == WithinBudget(Ranked(run.candidates, scores))
             IN branches' = [i \in DOMAIN ranked |-> Queued(ranked[i], run.explored + i)],
             run' = [run EXCEPT !.at = "gather"]
      PROVE  Inv'
  <2> DEFINE all == Ranked(run.candidates, scores)
             ranked == FirstOf(all, Remaining)
             n == Len(ranked)
  <2>1. RunFits(run', "gather", run.base, run.explored, run.state, run.candidates, run.winner)
    BY <1>5, <1>8 DEF Phase
  <2>2. IsRun(run') /\ run'.at = "gather" /\ run'.base = run.base /\ run'.explored = run.explored
        /\ run'.state = run.state
    BY <2>1 DEF RunFits
  <2>3. IsSeq(all) /\ \A k \in DOMAIN all : all[k].score \in Int
    <3>1. IsSeq(run.candidates) /\ \A i \in DOMAIN scores : scores[i] \in Nat
      BY RunIs, SearchAssumption DEF Inv
    <3> QED BY <3>1, RankedIs
  <2> HIDE DEF all
  <2>4. IsSeq(ranked) /\ n \in Nat /\ DOMAIN ranked = 1..n /\ n <= Remaining
        /\ \A k \in 1..n : ranked[k].score \in Int
    <3>1. /\ FirstOf(all, Remaining) \in Seq(ToSet(all)) /\ Len(FirstOf(all, Remaining)) <= Remaining
          /\ \A i \in DOMAIN FirstOf(all, Remaining) :
               i \in DOMAIN all /\ FirstOf(all, Remaining)[i] = all[i]
      BY <1>2, <2>3, FirstOfSeq DEF IsSeq
    <3>2. IsSeq(ranked)
      BY <3>1, SeqIsSeq
    <3>3. n \in Nat /\ DOMAIN ranked = 1..n
      BY <3>2, SeqDomain
    <3> QED BY <2>3, <3>1, <3>2, <3>3
  <2>5. branches' = [i \in 1..n |-> Queued(ranked[i], run.explored + i)]
    BY <1>8, <2>4 DEF WithinBudget, all
  <2> HIDE DEF n, ranked
  <2>6. IsSeq(branches') /\ Len(branches') = n /\ DOMAIN branches' = 1..n
    BY <2>4, <2>5, FunctionIsSeq
  <2>7. ASSUME NEW i \in 1..n
        PROVE  /\ IsBranch(branches'[i]) /\ branches'[i].at = "queued"
               /\ branches'[i].episode = run.explored + i /\ branches'[i].result = NoResult
    <3>1. run.explored + i \in Nat /\ ranked[i].score \in Int
      BY <1>4, <2>4
    <3>2. branches'[i] = Queued(ranked[i], run.explored + i)
      BY <2>5
    <3> QED BY <3>1, <3>2, QueuedIs
  <2>8. Remaining' = Remaining
    BY <2>2 DEF Remaining
  <2>9. TypeOK'
    BY <1>1, <1>3, <2>2, <2>6, <2>7 DEF Inv, TypeOK
  <2>10. Phases'
    <3> HIDE DEF Adaptive, Remaining
    <3>1. NoResult' = NoResult /\ attempt # 0 /\ Active'
      BY <1>1, <2>2 DEF NoResult, Inv, Phases, Active
    <3> QED BY <1>1, <1>2, <1>6, <2>2, <2>4, <2>6, <2>7, <2>8, <3>1 DEF Phases
  <2>11. Episodes'
    <3> HIDE DEF Adaptive, Scripted
    <3>1. Waiting(0)'
      BY <1>1, <1>3, <1>4, <2>2, <2>4, <2>6, <2>7 DEF Waiting
    <3>2. \E k \in 0..Len(branches') : Waiting(k)'
      BY <2>4, <2>6, <3>1
    <3>3. \A i \in DOMAIN branches' : branches'[i].result.kind = "none"
      BY <2>6, <2>7, NoResultFields
    <3> QED BY <1>1, <1>3, <1>4, <1>6, <2>2, <3>2, <3>3 DEF Episodes
  <2>12. Tokens'
    BY <1>1, <1>3, <1>8, <2>2 DEF Tokens
  <2>13. Trajectories'
    <3>1. \A i \in DOMAIN branches' : branches'[i].result.node = NoNode /\ branches'[i].at # "step"
      BY <2>6, <2>7, NoResultFields
    <3> QED BY <1>1, <1>6, <2>2, <3>1 DEF Inv, Trajectories, ResultFits
  <2>14. Bests' /\ Credits' /\ WinnerIsBest'
    BY <1>1, <1>2, <2>2, SameNodes DEF Inv
  <2> QED BY <2>9, <2>10, <2>11, <2>12, <2>13, <2>14 DEF Inv
<1> QED BY <1>7, <1>8 DEF Rank

\* A branch that moves keeps the invariant.
LEMMA MovesInv == ASSUME Inv, NEW i \in DOMAIN branches, Moves(i) PROVE Inv'
<1>1. PICK b : Keeps(i, b) /\ Update(i, b)
  BY DEF Moves
<1>2. /\ Active /\ branches[i].at \in Inside
      /\ UNCHANGED <<kind, cancelled, campaign, memory, attempt, budget, run, frontier, best, nodes>>
      /\ target'.known = target.known /\ target' \in [used : Nat, known : Nat]
  BY DEF Moves, Others, Collects, collected, search
<1>3. IsBranch(b) /\ b.at # "queued" /\ branches[i].at # "queued" /\ b.episode = branches[i].episode
  BY <1>1, <1>2 DEF Keeps, Inside
<1>4. /\ IsSeq(branches') /\ Len(branches') = Len(branches)
      /\ DOMAIN branches = 1..Len(branches) /\ DOMAIN branches' = 1..Len(branches)
      /\ Len(branches) \in Nat
      /\ branches'[i] = b /\ \A j \in DOMAIN branches : j # i => branches'[j] = branches[j]
      /\ \A j \in DOMAIN branches' : IsBranch(branches'[j])
  BY <1>1, <1>3, Replaced DEF Inv
<1>5. /\ Adaptive' = Adaptive /\ Root' = Root /\ Scripted' = Scripted /\ Remaining' = Remaining
      /\ Active' = Active /\ Searching' = Searching /\ NoResult' = NoResult
  BY <1>2 DEF Adaptive, Root, Scripted, Remaining, Active, Searching, NoResult
<1>6. TypeOK'
  BY <1>2, <1>4 DEF Inv, TypeOK
<1>7. Phases'
  <2>1. \A j \in DOMAIN branches' : branches'[j].episode = branches[j].episode
    BY <1>3, <1>4
  <2>2. \A j \in DOMAIN branches' : branches'[j].at \notin {"close", "done", "left"} => branches'[j].result = NoResult
    BY <1>1, <1>4 DEF Keeps, Inv, Phases
  <2> HIDE DEF Adaptive, Active, Remaining
  <2> QED BY <1>2, <1>4, <1>5, <2>1, <2>2 DEF Inv, Phases
<1>8. Episodes'
  <2> HIDE DEF Adaptive, Scripted, Searching
  <2>1. \A j \in DOMAIN branches' : branches'[j].at = "queued" <=> branches[j].at = "queued"
    BY <1>3, <1>4
  <2>2. \A j \in DOMAIN branches' : branches'[j].result.kind \in {"refused", "skipped"} =>
          branches'[j].result.kind = branches[j].result.kind
    BY <1>1, <1>4 DEF Keeps
  <2>3. \A k : Waiting(k) => Waiting(k)'
    BY <1>2, <1>4, <2>1 DEF Waiting
  <2>4. run.at = "episode" => 1 \in DOMAIN branches
    BY <1>4 DEF Inv, Phases
  <2>5. /\ \A j \in DOMAIN branches' : branches'[j].result.kind # "refused"
        /\ \A j \in DOMAIN branches' : branches'[j].result.kind = "skipped" => cancelled
    BY <1>4, <2>2 DEF Inv, Episodes
  <2>6. run.at = "gather" => \E k \in 0..Len(branches') : Waiting(k)'
    BY <1>4, <2>3 DEF Inv, Episodes
  <2> QED BY <1>2, <1>4, <1>5, <2>1, <2>4, <2>5, <2>6 DEF Inv, Episodes
<1>9. Tokens'
  <2>1. run.at = "episode" => 1 \in DOMAIN branches
    BY <1>4 DEF Inv, Phases
  <2>2. \A j \in DOMAIN branches : branches[j].result.kind = "failed" => branches'[j].result.kind = "failed"
    BY <1>1, <1>4 DEF Keeps
  <2> QED BY <1>2, <1>5, <2>1, <2>2 DEF Inv, Tokens
<1>10. Trajectories'
  <2>1. run.at = "gather" => \A j \in DOMAIN branches' :
          (branches'[j].at = "step" => Underway(branches'[j])) /\ ResultFits(branches'[j])
    BY <1>1, <1>4 DEF Keeps, Inv, Trajectories
  <2> QED BY <1>2, <1>5, <2>1 DEF Inv, Trajectories, Underway, Prefix, Comparable, ResultFits
<1>11. Bests' /\ Credits' /\ WinnerIsBest'
  <2> HIDE DEF Searching
  <2> QED BY <1>2, <1>5, SameNodes DEF Inv
<1> QED BY <1>6, <1>7, <1>8, <1>9, <1>10, <1>11 DEF Inv

\* What a branch is when it has begun: it has an episode or ends without one.
Begun(i, b) ==
  /\ IsBranch(b) /\ b.episode = branches[i].episode
  /\ \/ b.at = "provision" /\ b.result = NoResult
     \/ /\ b.at = "done" /\ b.result.node = NoNode
        /\ b.result.kind \in {"skipped", "cancelled", "failed"} /\ cancelled

Table == UNCHANGED <<kind, cancelled, target, memory, attempt, run, search>>

Charged ==
  /\ campaign' \in [seeds : Seq(Nat), tokens : Nat] /\ budget' \in [episodes : Nat, tokens : Nat]
  /\ campaign'.tokens = campaign.tokens /\ budget'.tokens = budget.tokens

LEMMA StartsIs ==
  ASSUME Inv, NEW i \in DOMAIN branches, branches[i].at = "queued",
         budget.episodes < MaxEpisodes, Seed(i) \in Nat, StartsEpisode(i)
  PROVE  /\ Charged /\ budget'.episodes = budget.episodes + 1
         /\ Len(campaign'.seeds) = Len(campaign.seeds) + 1 /\ Len(campaign.seeds) \in Nat
         /\ DOMAIN campaign'.seeds = 1..(Len(campaign.seeds) + 1)
         /\ DOMAIN campaign.seeds = 1..Len(campaign.seeds)
         /\ \A j \in DOMAIN campaign.seeds : campaign'.seeds[j] = campaign.seeds[j]
         /\ campaign'.seeds[Len(campaign.seeds) + 1] = Seed(i)
         /\ \E b : Begun(i, b) /\ Update(i, b)
<1>1. campaign \in [seeds : Seq(Nat), tokens : Nat] /\ budget \in [episodes : Nat, tokens : Nat]
      /\ IsBranch(branches[i]) /\ branches[i].result = NoResult
  BY DEF Inv, TypeOK, Phases
<1>2. /\ budget' = [budget EXCEPT !.episodes = @ + 1]
      /\ campaign' = [campaign EXCEPT !.seeds = Append(@, Seed(i))]
      /\ Update(i, [branches[i] EXCEPT !.at = "provision"])
  <2>1. ~(budget.episodes >= MaxEpisodes)
    BY <1>1, SearchAssumption
  <2> QED BY <2>1 DEF StartsEpisode
<1> DEFINE s == campaign.seeds
           x == Seed(i)
           b == [branches[i] EXCEPT !.at = "provision"]
<1>3. s \in Seq(Nat) /\ x \in Nat
  BY <1>1
<1>4. campaign' \in [seeds : {Append(s, x)}, tokens : {campaign.tokens}]
  BY <1>1, <1>2
<1>5. budget' \in [episodes : Nat, tokens : Nat] /\ budget'.tokens = budget.tokens
      /\ budget'.episodes = budget.episodes + 1
  BY <1>1, <1>2
<1>6. IsBranch(b) /\ b.at = "provision" /\ b.result = NoResult /\ b.episode = branches[i].episode
  BY <1>1, BranchAt DEF BranchPlace
<1>7. Begun(i, b) /\ Update(i, b)
  <2>1. Update(i, b)
    BY <1>2
  <2> HIDE DEF b
  <2> QED BY <1>6, <2>1 DEF Begun
<1> HIDE DEF x, s, b
<1>8. /\ Append(s, x) \in Seq(Nat) /\ Len(Append(s, x)) = Len(s) + 1 /\ Len(s) \in Nat
      /\ DOMAIN Append(s, x) = 1..(Len(s) + 1) /\ DOMAIN s = 1..Len(s)
      /\ \A j \in 1..Len(s) : Append(s, x)[j] = s[j]
      /\ Append(s, x)[Len(s) + 1] = x
  BY <1>3
<1>9. campaign'.seeds = Append(s, x) /\ campaign'.tokens = campaign.tokens
      /\ campaign' \in [seeds : Seq(Nat), tokens : Nat]
  BY <1>1, <1>4, <1>8
<1>10. Charged
  BY <1>5, <1>9 DEF Charged
<1> QED BY <1>5, <1>7, <1>8, <1>9, <1>10 DEF s, x

\* A branch that does not begin leaves the table as it is.
LEMMA StopsIs ==
  ASSUME Inv, NEW i \in DOMAIN branches, branches[i].at = "queued", cancelled,
         NEW k \in {"skipped", "cancelled", "failed"}, StopsBefore(i, k)
  PROVE  Charged /\ campaign' = campaign /\ \E b : Begun(i, b) /\ Update(i, b)
<1>1. campaign \in [seeds : Seq(Nat), tokens : Nat] /\ budget \in [episodes : Nat, tokens : Nat]
      /\ IsBranch(branches[i])
  BY DEF Inv, TypeOK
<1> DEFINE b == Ended(branches[i], "done", k, NoNode)
<1>2. Update(i, b) /\ campaign' = campaign
  BY DEF StopsBefore, Ends, Ended
<1>3. budget' \in [episodes : Nat, tokens : Nat] /\ budget'.tokens = budget.tokens
  <2>1. [budget EXCEPT !.episodes = @ + 1] \in [episodes : Nat, tokens : Nat]
        /\ [budget EXCEPT !.episodes = @ + 1].tokens = budget.tokens
    BY <1>1
  <2>2. budget' = [budget EXCEPT !.episodes = @ + 1] \/ budget' = budget
    BY DEF StopsBefore
  <2> QED BY <1>1, <2>1, <2>2
<1>4. /\ IsBranch(b) /\ b.at = "done" /\ b.episode = branches[i].episode /\ b.result.kind = k
      /\ b.result.node = NoNode
  <2>1. "done" \in BranchPlace /\ k \in ResultKind
    BY DEF BranchPlace, ResultKind
  <2> QED BY <1>1, <2>1, BranchResult, NoNodeIs
<1> HIDE DEF b
<1>5. Begun(i, b)
  BY <1>4 DEF Begun
<1> QED BY <1>1, <1>2, <1>3, <1>5 DEF Charged

\* All but the table of the episodes, which both kinds of search fill in their own way.
LEMMA BegunInv ==
  ASSUME Inv, NEW i \in DOMAIN branches, Active, branches[i].at = "queued",
         NEW b, Begun(i, b), Update(i, b), Table, Charged, Episodes'
  PROVE  Inv'
<1>1. UNCHANGED <<kind, cancelled, target, memory, attempt, run, frontier, best, nodes>>
  BY DEF Table, search
<1>2. /\ IsSeq(branches') /\ Len(branches') = Len(branches)
      /\ DOMAIN branches = 1..Len(branches) /\ DOMAIN branches' = 1..Len(branches)
      /\ Len(branches) \in Nat
      /\ branches'[i] = b /\ \A j \in DOMAIN branches : j # i => branches'[j] = branches[j]
      /\ \A j \in DOMAIN branches' : IsBranch(branches'[j])
  BY Replaced DEF Inv, Begun
<1>3. /\ Adaptive' = Adaptive /\ Root' = Root /\ Remaining' = Remaining
      /\ Active' = Active /\ Searching' = Searching /\ NoResult' = NoResult
  BY <1>1 DEF Adaptive, Root, Remaining, Active, Searching, NoResult
<1>4. b.result.node = NoNode /\ b.at # "step" /\ branches[i].result = NoResult
  BY NoResultFields DEF Begun, Inv, Phases
<1>5. TypeOK'
  BY <1>1, <1>2 DEF Inv, TypeOK, Charged
<1>6. Phases'
  <2>1. \A j \in DOMAIN branches' : branches'[j].episode = branches[j].episode
    BY <1>2 DEF Begun
  <2>2. \A j \in DOMAIN branches' : branches'[j].at \notin {"close", "done", "left"} => branches'[j].result = NoResult
    BY <1>2 DEF Begun, Inv, Phases
  <2> HIDE DEF Adaptive, Active, Remaining
  <2> QED BY <1>1, <1>2, <1>3, <2>1, <2>2 DEF Inv, Phases
<1>7. Tokens'
  <2>1. run.at = "episode" => 1 \in DOMAIN branches
    BY <1>2 DEF Inv, Phases
  <2>2. \A j \in DOMAIN branches : branches[j].result.kind = "failed" => branches'[j].result.kind = "failed"
    BY <1>2, <1>4, NoResultFields
  <2> QED BY <1>1, <1>3, <2>1, <2>2 DEF Inv, Tokens, Charged
<1>8. Trajectories'
  <2>1. run.at = "gather" => \A j \in DOMAIN branches' :
          (branches'[j].at = "step" => Underway(branches'[j])) /\ ResultFits(branches'[j])
    BY <1>2, <1>4, NoNodeFits DEF Inv, Trajectories
  <2> QED BY <1>1, <1>3, <2>1 DEF Inv, Trajectories, Underway, Prefix, Comparable, ResultFits
<1>9. Bests' /\ Credits' /\ WinnerIsBest'
  <2> HIDE DEF Searching
  <2> QED BY <1>1, <1>3, SameNodes DEF Inv
<1> QED BY <1>5, <1>6, <1>7, <1>8, <1>9 DEF Inv

\* The semaphore serves the branches in their order: the next one takes the next episode of the table.
LEMMA BeginBranchInv == ASSUME Inv, NEW i \in DOMAIN branches, BeginBranch(i) PROVE Inv'
<1>1. /\ run.at = "gather" /\ Active /\ branches[i].at = "queued" /\ Table
      /\ \A j \in 1..(i - 1) : branches[j].at # "queued"
  BY DEF BeginBranch, Admitted, Active, Table
<1>2. UNCHANGED <<kind, cancelled, target, memory, attempt, run>>
  BY <1>1 DEF Table
<1>3. PICK k \in 0..Len(branches) : Waiting(k)
  BY <1>1 DEF Inv, Episodes
<1>4. IsSeq(branches) /\ Len(branches) \in Nat /\ DOMAIN branches = 1..Len(branches)
  BY SeqDomain DEF Inv, TypeOK
<1>5. i = k + 1 /\ k + 1 \in 0..Len(branches)
  BY <1>1, <1>3, <1>4 DEF Waiting
<1>6. Adaptive /\ Len(branches) <= Remaining /\ branches[i].episode = run.explored + i /\ ~Scripted
  BY <1>1, KindIs DEF Inv, Phases
<1>7. run.base \in Nat /\ run.explored \in Nat /\ MaxEpisodes \in Nat
      /\ budget \in [episodes : Nat, tokens : Nat] /\ Len(campaign.seeds) \in Nat
      /\ DOMAIN campaign.seeds = 1..Len(campaign.seeds)
  BY RunFields, SearchAssumption DEF Inv, TypeOK
<1>8. Adaptive' = Adaptive /\ Scripted' = Scripted /\ Searching' = Searching
  BY <1>2 DEF Adaptive, Scripted, Searching
<1>9. /\ \A j \in DOMAIN branches : branches[j].result.kind # "refused"
      /\ \A j \in DOMAIN branches : branches[j].result.kind = "skipped" => cancelled
      /\ \A j \in DOMAIN campaign.seeds : campaign.seeds[j] = j - 1
      /\ ~cancelled => budget.episodes = Len(campaign.seeds)
  BY <1>1, <1>6 DEF Inv, Episodes, Searching
<1>10. ASSUME NEW b, Begun(i, b), Update(i, b),
              ~cancelled => Len(campaign'.seeds) = Len(campaign.seeds) + 1
       PROVE  /\ \E m \in 0..Len(branches') : Waiting(m)'
              /\ \A j \in DOMAIN branches' : branches'[j].result.kind # "refused"
              /\ \A j \in DOMAIN branches' : branches'[j].result.kind = "skipped" => cancelled'
  <2>1. /\ Len(branches') = Len(branches) /\ DOMAIN branches' = 1..Len(branches)
        /\ branches'[i] = b /\ \A j \in DOMAIN branches : j # i => branches'[j] = branches[j]
    BY <1>10, Replaced DEF Inv, Begun
  <2>2. b.at # "queued" /\ b.result.kind # "refused" /\ (b.result.kind = "skipped" => cancelled)
    BY <1>10, NoResultFields DEF Begun
  <2>3. \A j \in DOMAIN branches' : branches'[j].at = "queued" <=> j > k + 1
    BY <1>3, <1>4, <1>5, <2>1, <2>2 DEF Waiting
  <2>4. ~cancelled => Len(campaign'.seeds) = run.base + run.explored + (k + 1)
    BY <1>3, <1>7, <1>10 DEF Waiting
  <2>5. Waiting(k + 1)'
    BY <1>2, <1>5, <2>1, <2>3, <2>4 DEF Waiting
  <2> QED BY <1>2, <1>4, <1>5, <1>9, <2>1, <2>2, <2>5
<1>11. CASE ~cancelled /\ StartsEpisode(i)
  <2>1. Len(campaign.seeds) = run.base + run.explored + k
    BY <1>3, <1>11 DEF Waiting
  <2>2. Seed(i) = Len(campaign.seeds)
    <3>1. Seed(i) = run.base + branches[i].episode - 1
      <4>1. kind \in {"ADAPTIVE", "NEARBY_BYPASS"}
        BY <1>6 DEF Adaptive
      <4> DEFINE x == run.base + branches[i].episode - 1
      <4> HIDE DEF x
      <4>2. Seed(i) = CASE Adaptive -> x [] kind = "LINEAR" -> Len(campaign.seeds)
                        [] kind = "EXACT_REPLAY" -> SourceSeed [] OTHER -> 0
        BY DEF Seed, x
      <4>3. Seed(i) = x
        BY <1>6, <4>1, <4>2
      <4> QED BY <4>3 DEF x
    <3>2. k \in Int
      BY <1>4
    <3> QED BY <1>5, <1>6, <1>7, <2>1, <3>1, <3>2
  <2>3. budget.episodes < MaxEpisodes
    BY <1>5, <1>6, <1>7, <1>9, <1>11, <2>1 DEF Remaining
  <2>4. /\ Charged /\ budget'.episodes = budget.episodes + 1
        /\ Len(campaign'.seeds) = Len(campaign.seeds) + 1
        /\ DOMAIN campaign'.seeds = 1..(Len(campaign.seeds) + 1)
        /\ \A j \in DOMAIN campaign.seeds : campaign'.seeds[j] = campaign.seeds[j]
        /\ campaign'.seeds[Len(campaign.seeds) + 1] = Len(campaign.seeds)
        /\ \E b : Begun(i, b) /\ Update(i, b)
    BY <1>1, <1>7, <1>11, <2>2, <2>3, StartsIs
  <2>5. PICK b : Begun(i, b) /\ Update(i, b)
    BY <2>4
  <2>6. \A j \in DOMAIN campaign'.seeds : campaign'.seeds[j] = j - 1
    <3>1. \A n \in Nat : \A j \in 1..(n + 1) : j \in 1..n \/ (j = n + 1 /\ n = j - 1)
      OBVIOUS
    <3> QED BY <1>7, <1>9, <2>4, <3>1
  <2>7. Episodes'
    <3> HIDE DEF Adaptive, Scripted
    <3> QED BY <1>1, <1>2, <1>6, <1>8, <1>9, <1>10, <1>11, <2>4, <2>5, <2>6 DEF Episodes
  <2> QED BY <1>1, <2>4, <2>5, <2>7, BegunInv
<1>12. ASSUME cancelled, NEW result \in {"skipped", "cancelled", "failed"}, StopsBefore(i, result)
       PROVE  Inv'
  <2>1. Charged /\ campaign' = campaign /\ \E b : Begun(i, b) /\ Update(i, b)
    BY <1>1, <1>12, StopsIs
  <2>2. PICK b : Begun(i, b) /\ Update(i, b)
    BY <2>1
  <2>3. Episodes'
    <3> HIDE DEF Adaptive, Scripted
    <3> QED BY <1>1, <1>2, <1>6, <1>8, <1>9, <1>10, <1>12, <2>1, <2>2 DEF Episodes
  <2> QED BY <1>1, <2>1, <2>2, <2>3, BegunInv
<1> QED BY <1>11, <1>12 DEF BeginBranch

\* An episode that is driven one by one takes the next of the table, or is refused.
LEMMA BeginEpisodeInv == Inv /\ BeginEpisode => Inv'
<1> SUFFICES ASSUME Inv, BeginEpisode PROVE Inv'
  OBVIOUS
<1> DEFINE i == 1
<1>1. run.at = "episode" /\ Active /\ branches[i].at = "queued" /\ Table
  BY DEF BeginEpisode, Active, Table
<1>2. UNCHANGED <<kind, cancelled, target, memory, attempt, run>>
  BY <1>1 DEF Table
<1>3. IsSeq(branches) /\ DOMAIN branches = 1..1 /\ ~Adaptive /\ i \in DOMAIN branches
  BY <1>1, SeqDomain DEF Inv, TypeOK, Phases
<1>4. kind = "LINEAR" \/ Scripted
  BY <1>3, KindIs DEF Inv
<1>5. /\ MaxEpisodes \in Nat /\ SourceSeed \in Nat
      /\ budget \in [episodes : Nat, tokens : Nat] /\ Len(campaign.seeds) \in Nat
      /\ DOMAIN campaign.seeds = 1..Len(campaign.seeds)
  BY SearchAssumption DEF Inv, TypeOK
<1>6. Adaptive' = Adaptive /\ Scripted' = Scripted /\ Searching' = Searching
  BY <1>2 DEF Adaptive, Scripted, Searching
<1>7. /\ ~Scripted => \A j \in DOMAIN campaign.seeds : campaign.seeds[j] = j - 1
      /\ Scripted => Len(campaign.seeds) <= 1
      /\ ~cancelled => /\ budget.episodes = Len(campaign.seeds) /\ Len(campaign.seeds) < MaxEpisodes
                       /\ Scripted => campaign.seeds = <<>>
  BY <1>1 DEF Inv, Episodes
<1>8. Seed(i) \in Nat /\ (~Scripted => Seed(i) = Len(campaign.seeds))
  BY <1>3, <1>4, <1>5 DEF Seed, Scripted
<1> HIDE DEF i
<1>9. ASSUME NEW b, Begun(i, b), Update(i, b)
      PROVE  /\ branches'[1].at # "queued"
             /\ \A j \in DOMAIN branches' : branches'[j].result.kind # "refused"
             /\ \A j \in DOMAIN branches' : branches'[j].result.kind = "skipped" => cancelled'
  <2>1. DOMAIN branches' = 1..1 /\ branches'[i] = b
    BY <1>3, <1>9, Replaced DEF Inv, Begun
  <2>2. b.at # "queued" /\ b.result.kind # "refused" /\ (b.result.kind = "skipped" => cancelled)
    BY <1>9, NoResultFields DEF Begun
  <2> QED BY <1>2, <2>1, <2>2 DEF i
<1>10. CASE ~cancelled /\ StartsEpisode(i)
  <2>1. budget.episodes < MaxEpisodes
    BY <1>7, <1>10
  <2>2. /\ Charged /\ budget'.episodes = budget.episodes + 1
        /\ Len(campaign'.seeds) = Len(campaign.seeds) + 1
        /\ DOMAIN campaign'.seeds = 1..(Len(campaign.seeds) + 1)
        /\ \A j \in DOMAIN campaign.seeds : campaign'.seeds[j] = campaign.seeds[j]
        /\ campaign'.seeds[Len(campaign.seeds) + 1] = Seed(i)
        /\ \E b : Begun(i, b) /\ Update(i, b)
    BY <1>1, <1>3, <1>8, <1>10, <2>1, StartsIs
  <2>3. PICK b : Begun(i, b) /\ Update(i, b)
    BY <2>2
  <2>4. ~Scripted => \A j \in DOMAIN campaign'.seeds : campaign'.seeds[j] = j - 1
    <3>1. \A n \in Nat : \A j \in 1..(n + 1) : j \in 1..n \/ (j = n + 1 /\ n = j - 1)
      OBVIOUS
    <3> QED BY <1>5, <1>7, <1>8, <2>2, <3>1
  <2>5. Scripted => Len(campaign'.seeds) <= 1
    BY <1>7, <1>10, <2>2
  <2>6. Episodes'
    <3> HIDE DEF Adaptive, Scripted
    <3> QED BY <1>1, <1>2, <1>6, <1>7, <1>9, <1>10, <2>2, <2>3, <2>4, <2>5 DEF Episodes
  <2> QED BY <1>1, <1>3, <2>2, <2>3, <2>6, BegunInv
<1>11. ASSUME cancelled, NEW result \in {"cancelled", "failed"}, StopsBefore(i, result)
       PROVE  Inv'
  <2>1. Charged /\ campaign' = campaign /\ \E b : Begun(i, b) /\ Update(i, b)
    BY <1>1, <1>3, <1>11, StopsIs
  <2>2. PICK b : Begun(i, b) /\ Update(i, b)
    BY <2>1
  <2>3. Episodes'
    <3> HIDE DEF Adaptive, Scripted
    <3> QED BY <1>1, <1>2, <1>6, <1>7, <1>9, <1>11, <2>1, <2>2 DEF Episodes
  <2> QED BY <1>1, <1>3, <2>1, <2>2, <2>3, BegunInv
<1> QED BY <1>10, <1>11 DEF BeginEpisode, i

\* The next of such episodes is queued while the budget lasts.
LEMMA NextEpisodeInv == Inv /\ NextEpisode => Inv'
<1> SUFFICES ASSUME Inv, NextEpisode PROVE Inv'
  OBVIOUS
<1>1. /\ run.at = "select" /\ ~Adaptive /\ Searching
      /\ UNCHANGED <<kind, cancelled, campaign, target, memory, attempt, budget, frontier, best, nodes>>
  BY DEF NextEpisode, tables, search, Searching
<1>2. Adaptive' = Adaptive /\ Root' = Root /\ Scripted' = Scripted /\ NoResult' = NoResult
  BY <1>1 DEF Adaptive, Root, Scripted, NoResult
<1>3. kind = "LINEAR" \/ Scripted
  BY <1>1, KindIs DEF Inv
<1>4. /\ ~Scripted => \A j \in DOMAIN campaign.seeds : campaign.seeds[j] = j - 1
      /\ Scripted => Len(campaign.seeds) <= 1
      /\ ~cancelled => budget.episodes = Len(campaign.seeds)
      /\ \A i \in DOMAIN branches : branches[i].result.kind # "refused"
      /\ \A i \in DOMAIN branches : branches[i].result.kind = "skipped" => cancelled
  BY <1>1 DEF Inv, Episodes
<1>5. budget.tokens = campaign.tokens + target.known /\ campaign.tokens < MaxTokens + attempt
      /\ campaign.tokens <= MaxTokens + attempt /\ attempt # 0
  BY <1>1 DEF Inv, Tokens, Phases
<1>6. CASE Finish(NoNode) /\ UNCHANGED branches
  <2>1. run' = RunWith("returned", run.base, run.explored, run.state, run.candidates, NoNode)
    BY <1>6, RunChanges, RunIs DEF Inv, Finish
  <2>2. RunFits(run', "returned", run.base, run.explored, run.state, run.candidates, NoNode)
    BY <2>1, RunWithIs, RunIs, RunFields, NoNodeIs DEF Inv, Phase
  <2>3. IsRun(run') /\ run'.at = "returned" /\ run'.explored = run.explored
    BY <2>2 DEF RunFits
  <2>4. TypeOK'
    BY <1>1, <1>6, <2>3 DEF Inv, TypeOK
  <2>5. Phases'
    BY <1>1, <1>5, <1>6, <2>3 DEF Inv, Phases, Active, NoResult
  <2>6. Episodes'
    <3> HIDE DEF Adaptive, Scripted
    <3> QED BY <1>1, <1>2, <1>4, <1>6, <2>3 DEF Episodes, Searching
  <2>7. Tokens'
    BY <1>1, <1>5, <2>3 DEF Tokens, Searching
  <2>8. Trajectories'
    BY <1>1, <1>2, <2>3 DEF Inv, Trajectories
  <2>9. Bests' /\ Credits' /\ WinnerIsBest'
    BY <1>1, <2>3, SameNodes DEF Inv
  <2> QED BY <2>4, <2>5, <2>6, <2>7, <2>8, <2>9 DEF Inv
<1>7. ASSUME run' = [run EXCEPT !.at = "episode", !.state = NoNode],
             branches' = <<Queued([action |-> Source[1], score |-> 0], 1)>>,
             kind = "LINEAR" => ~cancelled /\ Len(campaign.seeds) < MaxEpisodes,
             Scripted => campaign.seeds = <<>>
      PROVE  Inv'
  <2> DEFINE item == [action |-> Source[1], score |-> 0]
             b == Queued(item, 1)
  <2>1. run' = RunWith("episode", run.base, run.explored, NoNode, run.candidates, run.winner)
    BY <1>7, RunChanges, RunIs DEF Inv
  <2>2. RunFits(run', "episode", run.base, run.explored, NoNode, run.candidates, run.winner)
    BY <2>1, RunWithIs, RunIs, RunFields, NoNodeIs DEF Inv, Phase
  <2>3. IsRun(run') /\ run'.at = "episode" /\ run'.explored = run.explored
    BY <2>2 DEF RunFits
  <2>4. item.score \in Int
    OBVIOUS
  <2>5. branches' = <<b>>
    BY <1>7
  <2> HIDE DEF item
  <2>6. IsBranch(b) /\ b.at = "queued" /\ b.episode = 1 /\ b.result = NoResult
    BY <2>4, QueuedIs
  <2> HIDE DEF b
  <2>7. IsSeq(branches') /\ Len(branches') = 1 /\ DOMAIN branches' = 1..1 /\ branches'[1] = b
    <3>1. \A c : <<c>> \in Seq({c}) /\ Len(<<c>>) = 1 /\ DOMAIN <<c>> = 1..1 /\ <<c>>[1] = c
      OBVIOUS
    <3> QED BY <2>5, <3>1, SeqIsSeq
  <2>8. TypeOK'
    BY <1>1, <2>3, <2>6, <2>7 DEF Inv, TypeOK
  <2>9. Phases'
    <3> HIDE DEF Adaptive
    <3> QED BY <1>1, <1>2, <1>5, <2>3, <2>6, <2>7 DEF Phases, Active
  <2>10. Episodes'
    <3>1. Len(<<>>) = 0 /\ MaxEpisodes \in Nat \ {0}
      BY SearchAssumption
    <3>2. Len(campaign.seeds) < MaxEpisodes
      BY <1>3, <1>7, <3>1
    <3>3. b.result.kind = "none"
      BY <2>6, NoResultFields
    <3> HIDE DEF Adaptive, Scripted
    <3> QED BY <1>1, <1>2, <1>4, <1>7, <2>3, <2>7, <3>2, <3>3 DEF Episodes
  <2>11. Tokens'
    BY <1>1, <1>5, <2>3 DEF Tokens
  <2>12. Trajectories'
    BY <1>1, <1>2, <2>3 DEF Inv, Trajectories
  <2>13. Bests' /\ Credits' /\ WinnerIsBest'
    BY <1>1, <2>3, SameNodes DEF Inv
  <2> QED BY <2>8, <2>9, <2>10, <2>11, <2>12, <2>13 DEF Inv
<1>8. ~(Len(campaign.seeds) >= MaxEpisodes) => Len(campaign.seeds) < MaxEpisodes
  BY SearchAssumption DEF Inv, TypeOK
<1> QED BY <1>6, <1>7, <1>8 DEF NextEpisode

\* An episode ended: it is won, lost, or the next one may come.
LEMMA EpisodeEndsInv == Inv /\ EpisodeEnds => Inv'
<1> SUFFICES ASSUME Inv, EpisodeEnds PROVE Inv'
  OBVIOUS
<1> DEFINE result == branches[1].result.kind
           at == CASE result \in {"failed", "refused"} -> "raised"
                   [] result \in {"won", "cancelled"} -> "returned"
                   [] OTHER -> IF kind = "LINEAR" THEN "select" ELSE "returned"
<1>1. /\ run.at = "episode" /\ branches' = <<>> /\ run' = [run EXCEPT !.at = at]
      /\ UNCHANGED <<kind, cancelled, campaign, target, memory, attempt, budget, frontier, best, nodes>>
  BY DEF EpisodeEnds, tables, search
<1>2. at \in {"raised", "returned", "select"} /\ (at = "select" => result # "failed") /\ at \in Phase
  BY DEF Phase
<1> HIDE DEF at
<1>3. run' = RunWith(at, run.base, run.explored, run.state, run.candidates, run.winner)
  BY <1>1, RunChanges, RunIs DEF Inv
<1>4. RunFits(run', at, run.base, run.explored, run.state, run.candidates, run.winner)
  BY <1>2, <1>3, RunWithIs, RunIs, RunFields DEF Inv
<1>5. IsRun(run') /\ run'.at = at /\ run'.explored = run.explored /\ run'.base = run.base
  BY <1>4 DEF RunFits
<1>6. DOMAIN <<>> = {} /\ IsSeq(<<>>)
  BY EmptyIsSeq
<1>7. ~Adaptive /\ attempt # 0
  BY <1>1 DEF Inv, Phases
<1>8. Adaptive' = Adaptive /\ Root' = Root /\ Scripted' = Scripted
  BY <1>1 DEF Adaptive, Root, Scripted
<1>9. TypeOK'
  BY <1>1, <1>5, <1>6 DEF Inv, TypeOK
<1>10. Phases'
  BY <1>1, <1>2, <1>5, <1>6, <1>7 DEF Phases
<1>11. Episodes'
  <2>1. /\ ~Scripted => \A j \in DOMAIN campaign.seeds : campaign.seeds[j] = j - 1
        /\ Scripted => Len(campaign.seeds) <= 1
        /\ ~cancelled => budget.episodes = Len(campaign.seeds)
    BY <1>1 DEF Inv, Episodes
  <2> HIDE DEF Adaptive, Scripted
  <2> QED BY <1>1, <1>2, <1>5, <1>6, <1>7, <1>8, <2>1 DEF Episodes
<1>12. Tokens'
  BY <1>1, <1>2, <1>5 DEF Inv, Tokens, Searching
<1>13. Trajectories'
  BY <1>1, <1>2, <1>5, <1>8 DEF Inv, Trajectories
<1>14. Bests' /\ Credits' /\ WinnerIsBest'
  BY <1>1, <1>5, <1>7, SameNodes DEF Inv
<1> QED BY <1>9, <1>10, <1>11, <1>12, <1>13, <1>14 DEF Inv

\* What a call of the model leaves of the counters.
Fine == budget'.tokens = campaign'.tokens + target.known /\ campaign'.tokens < MaxTokens + attempt

Paid ==
  /\ campaign' \in [seeds : Seq(Nat), tokens : Nat]
  /\ budget' \in [episodes : Nat, tokens : Nat]
  /\ campaign'.seeds = campaign.seeds /\ budget'.episodes = budget.episodes
  /\ campaign'.tokens <= MaxTokens + attempt
  /\ Scripted \/ Affordable => Fine

Goes(i, b) == Keeps(i, b) /\ Update(i, b) /\ (b.result.kind # "failed" => Fine)

LEMMA ThinkIs ==
  ASSUME Inv, Think
  PROVE  1 \in DOMAIN branches /\ Paid /\ \E b : Goes(1, b)
<1> DEFINE i == 1
           old == branches[i]
<1>1. /\ run.at = "episode" /\ run.at # "gather" /\ Active /\ old.at = "think"
      /\ UNCHANGED <<kind, cancelled, target, memory, attempt, run, frontier, best, nodes>>
  BY DEF Think, search, Active
<1>2. IsSeq(branches) /\ DOMAIN branches = 1..1 /\ ~Adaptive /\ i \in DOMAIN branches
  BY <1>1, SeqDomain DEF Inv, TypeOK, Phases
<1>3. IsBranch(old) /\ old.result = NoResult /\ old.result.kind = "none"
  BY <1>1, <1>2, NoResultFields DEF Inv, TypeOK, Phases
<1> HIDE DEF i
<1>4. Paid
  <2>1. ASSUME UNCHANGED <<campaign, budget>> PROVE Paid
    BY <1>1, <1>3, <2>1 DEF Inv, TypeOK, Tokens, i, Paid, Fine
  <2>2. ASSUME Charge /\ Spend, ~Scripted PROVE Paid
    BY <1>1, <1>3, <2>2, ChargeIs DEF Inv, Tokens, i, Paid, Fine
  <2> QED BY <2>1, <2>2 DEF Think
<1>5. \E b : Goes(i, b)
  <2>1. ASSUME NEW a, NEW at \in {"step", "ready"}, Fine, Scripted \/ Affordable,
               Update(1, [old EXCEPT !.at = at, !.action = a])
        PROVE  \E b : Goes(i, b)
    <3> DEFINE b == [old EXCEPT !.at = at, !.action = a]
    <3>1. Update(i, b)
      BY <2>1 DEF i
    <3>2. IsBranch(b) /\ b.at = at /\ b.episode = old.episode /\ b.result = old.result
      <4>1. at \in BranchPlace
        BY DEF BranchPlace
      <4> HIDE DEF old
      <4> QED BY <1>3, <4>1 DEF IsBranch
    <3> HIDE DEF b
    <3>3. ResultFits(b)
      BY <1>3, <3>2, NoResultFields, NoNodeFits
    <3>4. Keeps(i, b)
      BY <1>1, <1>3, <2>1, <3>2, <3>3 DEF Keeps, Honest
    <3>5. Goes(i, b)
      BY <2>1, <3>1, <3>4 DEF Goes
        <3> QED BY <3>5
  <2>2. ASSUME NEW k \in {"exhausted", "failed"}, Closing(1, k, NoNode), k = "failed" \/ Fine
        PROVE  \E b : Goes(i, b)
    <3> DEFINE b == Ended(old, "close", k, NoNode)
    <3>1. Update(i, b)
      BY <2>2 DEF i, Closing, Ended
    <3>2. /\ IsBranch(b) /\ b.at = "close" /\ b.episode = old.episode /\ b.result.kind = k
          /\ b.result.node = NoNode
      <4>1. "close" \in BranchPlace /\ k \in ResultKind
        BY DEF BranchPlace, ResultKind
      <4> QED BY <1>3, <4>1, BranchResult, NoNodeIs
    <3> HIDE DEF b
    <3>3. ResultFits(b)
      BY <3>2, NoNodeFits
    <3>4. Keeps(i, b)
      BY <1>1, <1>3, <3>2, <3>3 DEF Keeps, Honest
    <3>5. Goes(i, b)
      BY <2>2, <3>1, <3>2, <3>4 DEF Goes
        <3> QED BY <3>5
  <2>3. CASE Scripted
    <3>1. Update(1, [old EXCEPT !.at = "step", !.action = Source[Turn(1)]]) /\ Fine
      BY <1>4, <2>3 DEF Think, i, Paid
    <3> HIDE DEF old
    <3> QED BY <2>1, <2>3, <3>1
  <2>4. CASE ~Scripted
    <3>1. \/ /\ Affordable
             /\ \E p \in Proposals :
                  \/ Closing(1, "exhausted", NoNode)
                  \/ Update(1, [old EXCEPT !.at = "ready", !.action = p[1]])
          \/ Closing(1, "failed", NoNode)
      BY <2>4 DEF Think, i
    <3> HIDE DEF old
    <3> QED BY <1>4, <2>1, <2>2, <3>1 DEF Paid
  <2> QED BY <2>3, <2>4
<1> QED BY <1>2, <1>4, <1>5 DEF i

\* A model call for the next action of an episode.
LEMMA ThinkInv == Inv /\ Think => Inv'
<1> SUFFICES ASSUME Inv, Think PROVE Inv'
  OBVIOUS
<1> DEFINE i == 1
           old == branches[i]
<1>1. /\ run.at = "episode" /\ run.at # "gather" /\ Active /\ old.at = "think"
      /\ UNCHANGED <<kind, cancelled, target, memory, attempt, run, frontier, best, nodes>>
  BY DEF Think, search, Active
<1>2. IsSeq(branches) /\ DOMAIN branches = 1..1 /\ ~Adaptive /\ i \in DOMAIN branches
  BY <1>1, SeqDomain DEF Inv, TypeOK, Phases
<1>3. IsBranch(old) /\ old.result = NoResult /\ old.result.kind = "none"
  BY <1>1, <1>2, NoResultFields DEF Inv, TypeOK, Phases
<1> HIDE DEF i
<1>4. Paid
  BY ThinkIs
<1>6. PICK b : Goes(i, b)
  BY ThinkIs DEF i
<1>7. /\ IsSeq(branches') /\ Len(branches') = 1 /\ DOMAIN branches' = 1..1 /\ branches'[1] = b
      /\ IsBranch(b)
  <2>1. Keeps(i, b) /\ Update(i, b) /\ IsBranch(b)
    BY <1>6 DEF Goes, Keeps
  <2>2. Len(branches) = 1
    BY <1>1 DEF Inv, Phases
  <2> QED BY <1>2, <2>1, <2>2, Replaced DEF Inv, i
<1>8. /\ b.at # "queued" /\ b.result.kind \notin {"refused", "skipped"}
      /\ b.at \notin {"close", "done", "left"} => b.result = NoResult
      /\ b.result.kind # "failed" => Fine
  BY <1>3, <1>6 DEF Goes, Keeps
<1> USE DEF Goes, Paid
<1> HIDE DEF old
<1>9. Adaptive' = Adaptive /\ Root' = Root /\ Scripted' = Scripted /\ Active' /\ NoResult' = NoResult
  BY <1>1 DEF Adaptive, Root, Scripted, Active, NoResult
<1>10. TypeOK'
  BY <1>1, <1>4, <1>7 DEF Inv, TypeOK
<1>11. Phases'
  <2> HIDE DEF Adaptive, Active
  <2> QED BY <1>1, <1>2, <1>7, <1>8, <1>9 DEF Inv, Phases
<1>12. Episodes'
  <2>1. /\ ~Scripted => \A j \in DOMAIN campaign.seeds : campaign.seeds[j] = j - 1
        /\ Scripted => Len(campaign.seeds) <= 1
        /\ ~cancelled => budget.episodes = Len(campaign.seeds)
    BY <1>1 DEF Inv, Episodes
  <2> HIDE DEF Adaptive, Scripted
  <2> QED BY <1>1, <1>4, <1>7, <1>8, <1>9, <2>1 DEF Episodes
<1>13. Tokens'
  BY <1>1, <1>4, <1>7, <1>8 DEF Tokens, Searching, Fine
<1>14. Trajectories'
  BY <1>1, <1>9 DEF Inv, Trajectories
<1>15. Bests' /\ Credits' /\ WinnerIsBest'
  BY <1>1, <1>2, SameNodes DEF Inv, Searching
<1> QED BY <1>10, <1>11, <1>12, <1>13, <1>14, <1>15 DEF Inv

-----------------------------------------------------------------------------
(* Collecting the results: the best of the nodes.                           *)

\* Priorities are numbers, so that the nodes are ordered by them.
LEMMA PriorityIs == ASSUME NEW x, IsNode(x) PROVE Priority(x) \in Int
BY DEF IsNode, Priority

\* x is the best of the nodes of S.
Top(x, S) == IF S = {} THEN x = NoNode ELSE x \in S /\ \A y \in S : Priority(y) <= Priority(x)

\* The better of a node and the best so far is the best of one node more.
LEMMA TopGrows ==
  ASSUME NEW S, NEW x, NEW y, \A z \in S : IsNode(z), IsNode(y), IsNode(x),
         NoNode \notin S, Top(x, S)
  PROVE  Top(BetterOf(x, y), S \union ({y} \ {NoNode}))
<1>1. \A z \in S : Priority(z) \in Int
  BY PriorityIs
<1>2. Priority(x) \in Int /\ Priority(y) \in Int
  BY PriorityIs
<1>3. x = NoNode <=> S = {}
  BY DEF Top
<1> QED BY <1>1, <1>2, <1>3 DEF Top, BetterOf

\* BestOf returns the best of the nodes it was given.
LEMMA BestIs ==
  ASSUME NEW n \in Nat, NEW s, DOMAIN s = 1..n, NEW b, IsNode(b), \A i \in 1..n : IsNode(s[i])
  PROVE  Top(BestOf(b, s), ({b} \union {s[i] : i \in 1..n}) \ {NoNode})
<1> DEFINE V == {b} \union {s[i] : i \in 1..n}
           Some(i) == ({b} \union {s[j] : j \in 1..i}) \ {NoNode}
<1>1. \A v \in V, i \in 1..n : BetterOf(v, s[i]) \in V
  BY DEF BetterOf
<1>2. b \in V /\ \A v \in V : IsNode(v)
  OBVIOUS
<1>3. PICK f : BestTrail(f, V, b, s, n)
  <2> HIDE DEF V
  <2> QED BY <1>1, <1>2, BestFold
<1> DEFINE P == {i \in 0..n : Top(f[i], Some(i))}
<1>4. 0 \in P
  <2>1. Some(0) = {b} \ {NoNode} /\ f[0] = b
    BY <1>3 DEF BestTrail
  <2>2. Priority(b) \in Int
    BY PriorityIs
  <2> HIDE DEF Some
  <2> QED BY <2>1, <2>2 DEF Top
<1>5. ASSUME NEW i \in 1..n, i - 1 \in P PROVE i \in P
  <2>1. Some(i) = Some(i - 1) \union ({s[i]} \ {NoNode})
    <3>1. 1..i = (1..(i - 1)) \union {i}
      OBVIOUS
    <3> QED BY <3>1
  <2>2. (\A z \in Some(i - 1) : IsNode(z)) /\ NoNode \notin Some(i - 1)
    OBVIOUS
  <2>3. f[i] = BetterOf(f[i - 1], s[i]) /\ f[i - 1] \in V
    BY <1>3 DEF BestTrail
  <2>4. IsNode(f[i - 1]) /\ IsNode(s[i]) /\ Top(f[i - 1], Some(i - 1))
    BY <1>2, <1>5, <2>3
  <2> HIDE DEF Some
  <2>5. Top(f[i], Some(i))
    BY <2>1, <2>2, <2>3, <2>4, TopGrows
  <2> QED BY <2>5
<1>6. n \in P
  <2> HIDE DEF P
  <2>1. \A i \in 0..n : i \in P
    BY <1>4, <1>5, AllPositions
  <2> QED BY <2>1
<1> HIDE DEF V
<1> QED BY <1>3, <1>6 DEF BestTrail

-----------------------------------------------------------------------------
(* Collecting the results: what the store learns.                           *)

Record == [attempts : Nat, wins : Nat, reward : Int, won : SUBSET (Nat \X Nat)]

StoresOver(D) == UNION {[T -> Record] : T \in SUBSET D}

\* The stores over a set of strategies.
LEMMA StoreIs == ASSUME NEW v, NEW D PROVE v \in StoresOver(D) <=> IsStore(v) /\ DOMAIN v \subseteq D
<1>1. ASSUME v \in StoresOver(D) PROVE IsStore(v) /\ DOMAIN v \subseteq D
  <2>1. PICK T \in SUBSET D : v \in [T -> Record]
    BY <1>1 DEF StoresOver
  <2>2. DOMAIN v = T /\ v = [s \in T |-> v[s]] /\ \A s \in T : v[s] \in Record
    BY <2>1
  <2> QED BY <2>2 DEF IsStore, Record
<1>2. ASSUME IsStore(v), DOMAIN v \subseteq D PROVE v \in StoresOver(D)
  <2>1. v = [s \in DOMAIN v |-> v[s]] /\ \A s \in DOMAIN v : v[s] \in Record
    BY <1>2 DEF IsStore, Record
  <2>2. v \in [DOMAIN v -> Record]
    BY <2>1
  <2> QED BY <1>2, <2>2 DEF StoresOver
<1> QED BY <1>1, <1>2

Sound(store) ==
  \A s \in DOMAIN store :
    /\ IsFiniteSet(store[s].won)
    /\ store[s].wins = Cardinality(store[s].won) /\ store[s].wins <= store[s].attempts
    /\ \A id \in store[s].won : id[1] <= attempt

Below(store, e) ==
  \A s \in DOMAIN store : \A id \in store[s].won :
    id[1] < attempt \/ (id[1] = attempt /\ id[2] <= e)

\* What a result is: nothing, or a node of this attempt's i-th branch after those explored.
Fruit(r, e) ==
  /\ IsNode(r)
  /\ r # NoNode => /\ r.id = <<attempt, e>> /\ r.actions # <<>>
                   /\ ~r.terminal /\ ~r.terminated => Replayable(r)

IsCredited(r, store) == \E s \in DOMAIN store : r.id \in store[s].won

\* c is the record with the trajectory r counted.
Counted(c, record, r) ==
  /\ c \in Record /\ c.attempts = record.attempts + 1
  /\ c.wins = IF r.terminal THEN record.wins + 1 ELSE record.wins
  /\ c.won = IF r.terminal THEN record.won \union {r.id} ELSE record.won

LEMMA CreditedIs ==
  ASSUME NEW record \in Record, NEW r, IsNode(r)
  PROVE  Counted(Credited(record, r), record, r)
<1>1. r.id \in Nat \X Nat /\ r.reward \in Int /\ r.terminal \in BOOLEAN
  BY DEF IsNode
<1>2. /\ record.attempts \in Nat /\ record.wins \in Nat /\ record.reward \in Int
      /\ record.won \in SUBSET (Nat \X Nat)
  BY DEF Record
<1> DEFINE at == record.attempts + 1
           wi == record.wins + (IF r.terminal THEN 1 ELSE 0)
           re == record.reward + r.reward
           wo == IF r.terminal THEN record.won \union {r.id} ELSE record.won
           c == [attempts |-> at, wins |-> wi, reward |-> re, won |-> wo]
<1>3. at \in Nat /\ wi \in Nat /\ re \in Int /\ wo \in SUBSET (Nat \X Nat)
      /\ wi = IF r.terminal THEN record.wins + 1 ELSE record.wins
  BY <1>1, <1>2
<1>4. Credited(record, r) = c
  BY DEF Credited
<1> HIDE DEF at, wi, re, wo
<1>5. c \in Record /\ c.attempts = at /\ c.wins = wi /\ c.won = wo
  BY <1>3 DEF Record
<1> HIDE DEF c
<1> QED BY <1>3, <1>4, <1>5 DEF Counted, at, wo

\* Known strategies are taught, or a new one; a success teaches some strategy.
LEMMA TaughtIs ==
  ASSUME NEW v, NEW r, IsNode(r)
  PROVE  /\ Taught(v, r) \subseteq DOMAIN v \union {Learned(r)}
         /\ r.terminal /\ r.actions # <<>> => Taught(v, r) # {}
<1>1. Used(v, r) \subseteq DOMAIN v
  BY DEF Used
<1>2. r.actions # <<>> => Len(r.actions) > 0
  <2>1. IsSeq(r.actions)
    BY DEF IsNode
  <2>2. Len(r.actions) \in Nat /\ (r.actions = <<>> <=> Len(r.actions) = 0)
    BY <2>1, SeqDomain
  <2> QED BY <2>2
<1> QED BY <1>1, <1>2 DEF Taught

Old(v, s) == IF s \in DOMAIN v THEN v[s] ELSE Unused

\* w is the store v with the trajectory r recorded.
Outcome(w, v, r) ==
  /\ IsStore(w) /\ DOMAIN w = DOMAIN v \union Taught(v, r)
  /\ \A s \in DOMAIN w :
       Old(v, s) \in Record
       /\ w[s] = IF s \in Taught(v, r) THEN Credited(Old(v, s), r) ELSE Old(v, s)

LEMMA RecordIs ==
  ASSUME NEW v, IsStore(v), NEW r, IsNode(r)
  PROVE  Outcome(RecordOutcome(v, r), v, r)
<1> DEFINE D == DOMAIN v \union Taught(v, r)
           new(s) == IF s \in Taught(v, r) THEN Credited(Old(v, s), r) ELSE Old(v, s)
           w == [s \in D |-> new(s)]
<1>1. RecordOutcome(v, r) = w
  BY DEF RecordOutcome, Old
<1>2. Unused \in Record
  BY DEF Unused, Record
<1>3. \A s \in D : Old(v, s) \in Record
  BY <1>2 DEF IsStore, Record, Old
<1>4. \A s \in D : new(s) \in Record
  BY <1>3, CreditedIs DEF Counted
<1>5. DOMAIN w = D /\ \A s \in D : w[s] = new(s)
  OBVIOUS
<1>6. IsStore(w)
  <2> HIDE DEF new, D
  <2> QED BY <1>4 DEF IsStore, Record
<1> HIDE DEF w
<1>7. Outcome(w, v, r)
  BY <1>3, <1>5, <1>6 DEF Outcome
<1> QED BY <1>1, <1>7

\* A result of a later episode than those credited so far is credited once.
LEMMA CreditStep ==
  ASSUME attempt \in Nat, NEW v, IsStore(v), Sound(v), NEW e \in Nat, Below(v, e),
         NEW r, Fruit(r, e + 1)
  PROVE  /\ IsStore(Credit(v, r)) /\ Sound(Credit(v, r)) /\ Below(Credit(v, r), e + 1)
         /\ DOMAIN Credit(v, r) \subseteq DOMAIN v \union {Learned(r)}
         /\ \A s \in DOMAIN v : s \in DOMAIN Credit(v, r) /\ v[s].won \subseteq Credit(v, r)[s].won
         /\ r.terminal => IsCredited(r, Credit(v, r))
<1> DEFINE w == Credit(v, r)
<1>1. \A s \in DOMAIN v : v[s] \in Record
  BY DEF IsStore, Record
<1>2. CASE r = NoNode
  <2>1. w = v /\ ~r.terminal
    BY <1>2, NoNodeFields DEF Credit
  <2>2. Below(v, e + 1)
    <3> SUFFICES ASSUME NEW s \in DOMAIN v, NEW id \in v[s].won
                 PROVE  id[1] < attempt \/ (id[1] = attempt /\ id[2] <= e + 1)
      BY DEF Below
    <3>1. id[1] \in Nat /\ id[2] \in Nat
      BY <1>1 DEF Record
    <3> QED BY <3>1 DEF Below
  <2> HIDE DEF w
  <2> QED BY <2>1, <2>2 DEF w
<1>3. CASE r # NoNode
  <2> DEFINE old(s) == Old(v, s)
  <2>1. w = RecordOutcome(v, r) /\ IsNode(r) /\ r.id = <<attempt, e + 1>> /\ r.actions # <<>>
    BY <1>3 DEF Credit, Fruit
  <2>2. /\ IsStore(w) /\ DOMAIN w = DOMAIN v \union Taught(v, r)
        /\ \A s \in DOMAIN w : /\ old(s) \in Record
                               /\ w[s] = IF s \in Taught(v, r) THEN Credited(old(s), r) ELSE old(s)
    <3>1. Outcome(w, v, r)
      <4> HIDE DEF w
      <4> QED BY <2>1, RecordIs
    <3> HIDE DEF w
    <3> QED BY <3>1 DEF Outcome
  <2>3. /\ Taught(v, r) \subseteq DOMAIN v \union {Learned(r)}
        /\ r.terminal => Taught(v, r) # {}
    BY <2>1, TaughtIs
  <2> HIDE DEF w
  <2>4. ASSUME NEW s \in DOMAIN w
        PROVE  /\ IsFiniteSet(old(s).won) /\ old(s).wins = Cardinality(old(s).won)
               /\ old(s).wins <= old(s).attempts
               /\ \A id \in old(s).won : id[1] < attempt \/ (id[1] = attempt /\ id[2] <= e)
    <3>1. CASE s \in DOMAIN v
      BY <3>1 DEF Sound, Below, Old
    <3>2. CASE s \notin DOMAIN v
      <4>1. IsFiniteSet({}) /\ Cardinality({}) = 0
        BY FS_EmptySet
      <4> QED BY <3>2, <4>1 DEF Unused, Old
    <3> QED BY <3>1, <3>2
  <2>5. ASSUME NEW s \in DOMAIN w
        PROVE  \/ w[s] = old(s)
               \/ /\ s \in Taught(v, r) /\ w[s].attempts = old(s).attempts + 1
                  /\ w[s].wins = IF r.terminal THEN old(s).wins + 1 ELSE old(s).wins
                  /\ w[s].won = IF r.terminal THEN old(s).won \union {r.id} ELSE old(s).won
    <3>1. CASE s \in Taught(v, r)
      <4>1. w[s] = Credited(old(s), r) /\ old(s) \in Record
        BY <2>2, <3>1
      <4> HIDE DEF old
      <4>2. Counted(w[s], old(s), r)
        BY <2>1, <4>1, CreditedIs
      <4> QED BY <3>1, <4>2 DEF Counted
    <3>2. CASE s \notin Taught(v, r)
      BY <2>2, <3>2
    <3> QED BY <3>1, <3>2
  <2>6. \A s \in Taught(v, r) : r.terminal => r.id \in w[s].won
    <3> SUFFICES ASSUME NEW s \in Taught(v, r), r.terminal PROVE r.id \in w[s].won
      OBVIOUS
    <3>1. s \in DOMAIN w /\ w[s] = Credited(old(s), r) /\ old(s) \in Record
      BY <2>2
    <3> HIDE DEF old
    <3>2. Counted(w[s], old(s), r)
      BY <2>1, <3>1, CreditedIs
    <3> QED BY <3>2 DEF Counted
  <2>7. r.terminal => IsCredited(r, w)
    BY <2>2, <2>3, <2>6 DEF IsCredited
  <2>8. \A s \in DOMAIN v : s \in DOMAIN w /\ v[s].won \subseteq w[s].won
    BY <2>2, <2>5 DEF Old
  <2>9. ASSUME NEW s \in DOMAIN w
        PROVE  /\ IsFiniteSet(w[s].won) /\ w[s].wins = Cardinality(w[s].won)
               /\ w[s].wins <= w[s].attempts
               /\ \A id \in w[s].won : id[1] <= attempt
               /\ \A id \in w[s].won : id[1] < attempt \/ (id[1] = attempt /\ id[2] <= e + 1)
    <3> DEFINE o == old(s)
               ids == o.won
    <3>1. o \in Record /\ ids \in SUBSET (Nat \X Nat) /\ o.wins \in Nat /\ o.attempts \in Nat
      BY <2>2 DEF Record
    <3>2. /\ IsFiniteSet(ids) /\ o.wins = Cardinality(ids) /\ o.wins <= o.attempts
          /\ \A id \in ids : id[1] < attempt \/ (id[1] = attempt /\ id[2] <= e)
      BY <2>4
    <3>3. \/ w[s] = o
          \/ /\ w[s].attempts = o.attempts + 1
             /\ w[s].wins = IF r.terminal THEN o.wins + 1 ELSE o.wins
             /\ w[s].won = IF r.terminal THEN ids \union {r.id} ELSE ids
      BY <2>5
    <3> HIDE DEF o
    <3>4. \A id \in ids : id[1] \in Nat /\ id[2] \in Nat
      BY <3>1
    <3> HIDE DEF ids
    <3>5. r.id[1] = attempt /\ r.id[2] = e + 1
      BY <2>1
    <3>6. r.id \notin ids
      BY <3>2, <3>5
    <3>7. IsFiniteSet(ids \union {r.id}) /\ Cardinality(ids \union {r.id}) = Cardinality(ids) + 1
      BY <3>2, <3>6, FS_AddElement
    <3>8. \A id \in ids \union {r.id} :
            id[1] <= attempt /\ (id[1] < attempt \/ (id[1] = attempt /\ id[2] <= e + 1))
      BY <3>2, <3>4, <3>5
    <3>9. w[s].won \in {ids, ids \union {r.id}}
      BY <3>3 DEF ids
    <3>10. /\ IsFiniteSet(w[s].won) /\ w[s].wins = Cardinality(w[s].won)
           /\ w[s].wins <= w[s].attempts
      BY <3>1, <3>2, <3>3, <3>7 DEF ids
    <3> QED BY <3>8, <3>9, <3>10
  <2>10. Sound(w) /\ Below(w, e + 1)
    BY <2>9 DEF Sound, Below
  <2> QED BY <2>2, <2>3, <2>7, <2>8, <2>10 DEF w
<1> QED BY <1>2, <1>3

\* So the results of a search step are credited once each.
LEMMA RecordedIs ==
  ASSUME attempt \in Nat, NEW n \in Nat, NEW s, DOMAIN s = 1..n, NEW e \in Nat,
         \A i \in 1..n : Fruit(s[i], e + i),
         NEW b, IsStore(b), Sound(b), Below(b, e)
  PROVE  /\ IsStore(Recorded(b, s)) /\ Sound(Recorded(b, s)) /\ Below(Recorded(b, s), e + n)
         /\ \A r : IsCredited(r, b) => IsCredited(r, Recorded(b, s))
         /\ \A i \in 1..n : s[i].terminal => IsCredited(s[i], Recorded(b, s))
<1> DEFINE D == DOMAIN b \union {Learned(s[i]) : i \in 1..n}
           V == StoresOver(D)
<1>1. b \in V
  BY StoreIs
<1>2. ASSUME NEW v \in V, NEW i \in 1..n PROVE Credit(v, s[i]) \in V
  <2>1. IsStore(v) /\ DOMAIN v \subseteq D
    BY StoreIs
  <2>2. IsNode(s[i])
    BY DEF Fruit
  <2>3. IsStore(RecordOutcome(v, s[i])) /\ DOMAIN RecordOutcome(v, s[i]) \subseteq DOMAIN v \union {Learned(s[i])}
    <3>1. Outcome(RecordOutcome(v, s[i]), v, s[i])
      BY <2>1, <2>2, RecordIs
    <3>2. Taught(v, s[i]) \subseteq DOMAIN v \union {Learned(s[i])}
      BY <2>2, TaughtIs
    <3> QED BY <3>1, <3>2 DEF Outcome
  <2>4. Learned(s[i]) \in D
    OBVIOUS
  <2> HIDE DEF D
  <2>5. RecordOutcome(v, s[i]) \in V
    BY <2>1, <2>3, <2>4, StoreIs
  <2> QED BY <2>5 DEF Credit
<1>3. PICK f : CreditTrail(f, V, b, s, n)
  <2> HIDE DEF V
  <2> QED BY <1>1, <1>2, CreditFold
<1> HIDE DEF V, D
<1> DEFINE Good(i, v) ==
             /\ IsStore(v) /\ Sound(v) /\ Below(v, e + i)
             /\ \A t \in DOMAIN b : t \in DOMAIN v /\ b[t].won \subseteq v[t].won
             /\ \A j \in 1..i : s[j].terminal => IsCredited(s[j], v)
           P == {i \in 0..n : Good(i, f[i])}
<1>4. 0 \in P
  <2>1. f[0] = b /\ e + 0 = e /\ 1..0 = {}
    BY <1>3 DEF CreditTrail
  <2> QED BY <2>1
<1>5. ASSUME NEW i \in 1..n, i - 1 \in P PROVE i \in P
  <2> DEFINE v == f[i - 1]
             w == f[i]
             r == s[i]
             d == e + (i - 1)
  <2>1. w = Credit(v, r) /\ d \in Nat /\ d + 1 = e + i
    BY <1>3 DEF CreditTrail
  <2>2. Good(i - 1, v) /\ Fruit(r, d + 1)
    BY <1>5, <2>1
  <2>3. \A j \in 1..i : j \in 1..(i - 1) \/ j = i
    OBVIOUS
  <2>4. IsStore(v) /\ Sound(v) /\ Below(v, d)
    BY <2>2
  <2> HIDE DEF v, w, d
  <2>5. /\ IsStore(w) /\ Sound(w) /\ Below(w, d + 1)
        /\ \A t \in DOMAIN v : t \in DOMAIN w /\ v[t].won \subseteq w[t].won
        /\ r.terminal => IsCredited(r, w)
    <3> HIDE DEF r
    <3> QED BY <2>1, <2>2, <2>4, CreditStep
  <2>6. \A t \in DOMAIN b : t \in DOMAIN w /\ b[t].won \subseteq w[t].won
    BY <2>2, <2>5
  <2>7. \A x : IsCredited(x, v) => IsCredited(x, w)
    BY <2>5 DEF IsCredited
  <2>8. \A j \in 1..i : s[j].terminal => IsCredited(s[j], w)
    BY <2>2, <2>3, <2>5, <2>7
  <2>9. Good(i, w)
    BY <2>1, <2>5, <2>6, <2>8
  <2> HIDE DEF Good
  <2> QED BY <2>9 DEF w
<1>6. n \in P
  <2> HIDE DEF P
  <2>1. \A i \in 0..n : i \in P
    BY <1>4, <1>5, AllPositions
  <2> QED BY <2>1
<1>7. f[n] = Recorded(b, s)
  BY <1>3 DEF CreditTrail
<1>8. Good(n, Recorded(b, s))
  BY <1>6, <1>7
<1> QED BY <1>8 DEF IsCredited

-----------------------------------------------------------------------------
(* Collecting the results.                                                  *)

\* The novelty does not touch what the invariant says of a node.
LEMMA RatedIs ==
  ASSUME NEW m, IsNode(m), NEW x \in Int, NEW r, r = [m EXCEPT !.novelty = x]
  PROVE  /\ IsNode(r) /\ r.id = m.id /\ r.actions = m.actions /\ r.observations = m.observations
         /\ r.rewards = m.rewards /\ r.reward = m.reward /\ r.depth = m.depth
         /\ r.terminal = m.terminal /\ r.terminated = m.terminated
<1>1. /\ r.id = m.id /\ r.actions = m.actions /\ r.observations = m.observations
      /\ r.rewards = m.rewards /\ r.reward = m.reward /\ r.depth = m.depth
      /\ r.terminal = m.terminal /\ r.terminated = m.terminated
  BY DEF IsNode
<1>2. r \in [id : Nat \X Nat, actions : {m.actions}, observations : Seq(Observation),
            rewards : Seq(Int), reward : Int, novelty : Int, depth : Nat, terminal : BOOLEAN,
            terminated : BOOLEAN, score : Int]
  BY DEF IsNode
<1>3. IsSeq(m.actions)
  BY DEF IsNode
<1>4. IsNode(r)
  BY <1>1, <1>2, <1>3 DEF IsNode
<1> QED BY <1>1, <1>4

\* The results are nodes of the episodes of this step.
LEMMA ResultsAre ==
  ASSUME Inv, run.at = "gather"
  PROVE  /\ Len(branches) \in Nat /\ DOMAIN branches = 1..Len(branches)
         /\ DOMAIN Results = 1..Len(branches)
         /\ \A i \in 1..Len(branches) : Fruit(Results[i], run.explored + i)
<1>1. Len(branches) \in Nat /\ DOMAIN branches = 1..Len(branches)
  BY SeqDomain DEF Inv, TypeOK
<1>2. DOMAIN Results = 1..Len(branches)
  BY <1>1 DEF Results
<1>3. ASSUME NEW i \in 1..Len(branches) PROVE Fruit(Results[i], run.explored + i)
  <2> DEFINE m == branches[i].result.node
             x == Novelty(SeenBefore(i), Last(m.actions), Shown(m))
             r == [m EXCEPT !.novelty = x]
  <2>1. Results[i] = IF m = NoNode THEN NoNode ELSE r
    BY <1>1 DEF Results
  <2>2. x \in Int
    BY DEF Novelty
  <2>3. IsNode(m) /\ branches[i].episode = run.explored + i
    BY <1>1 DEF Inv, TypeOK, Phases, IsBranch
  <2>4. m # NoNode => /\ m.id = <<attempt, run.explored + i>> /\ m.actions # <<>>
                      /\ ~m.terminal /\ ~m.terminated => Replayable(m)
    BY <1>1, <2>3 DEF Inv, Trajectories, ResultFits
  <2> HIDE DEF m, x
  <2>5. /\ IsNode(r) /\ r.id = m.id /\ r.actions = m.actions /\ r.observations = m.observations
         /\ r.rewards = m.rewards /\ r.reward = m.reward /\ r.depth = m.depth
         /\ r.terminal = m.terminal /\ r.terminated = m.terminated
    BY <2>2, <2>3, RatedIs
  <2> HIDE DEF r
  <2>6. CASE m = NoNode
    BY <2>1, <2>6, NoNodeIs DEF Fruit
  <2>7. CASE m # NoNode
    BY <2>1, <2>4, <2>5, <2>7 DEF Fruit, Replayable
  <2> QED BY <2>6, <2>7
<1> QED BY <1>1, <1>2, <1>3

\* How many of the branches count as explored.
LEMMA ExploredIs ==
  ASSUME Inv, run.at = "gather",
         NEW c, c = Cardinality({i \in DOMAIN branches : branches[i].result.kind # "skipped"})
  PROVE  c \in Nat /\ (~cancelled => c = Len(branches))
<1> DEFINE S == {i \in DOMAIN branches : branches[i].result.kind # "skipped"}
           m == Len(branches)
<1>1. m \in Nat /\ DOMAIN branches = 1..m
  BY ResultsAre
<1>2. ~cancelled => S = 1..m
  BY <1>1 DEF Inv, Episodes
<1>3. S \subseteq 1..m
  BY <1>1
<1> HIDE DEF S, m
<1>4. IsFiniteSet(1..m) /\ Cardinality(1..m) = m
  BY <1>1, FS_Interval
<1>5. Cardinality(S) \in Nat
  BY <1>3, <1>4, FS_Subset, FS_CardinalityType
<1> QED BY <1>2, <1>4, <1>5 DEF S, m

\* Collecting keeps the invariant: the best, the credits and the winner are of the same nodes.
LEMMA CollectInv == Inv /\ Collect => Inv'
<1> SUFFICES ASSUME Inv, Collect PROVE Inv'
  OBVIOUS
<1> DEFINE m == Len(branches)
           e == run.explored
           R == Results
           reached == [i \in DOMAIN R |-> IF R[i].terminal THEN R[i] ELSE NoNode]
           winner == BestOf(NoNode, reached)
           heap == Pushed(frontier, R)
           c == Cardinality({i \in DOMAIN branches : branches[i].result.kind # "skipped"})
           at == IF Failures # {} THEN EndedBy(Min(Failures))
                 ELSE IF winner # NoNode THEN "returned" ELSE "select"
           w == IF Failures = {} THEN winner ELSE NoNode
<1>1. /\ run.at = "gather" /\ \A i \in DOMAIN branches : branches[i].at \in {"done", "left"}
      /\ nodes' = nodes \union (ToSet(R) \ {NoNode})
      /\ memory' = Recorded(memory, R) /\ best' = BestOf(best, R)
      /\ frontier' = FirstOf(heap, BeamWidth)
      /\ run' = [run EXCEPT !.explored = @ + c, !.at = at, !.winner = w]
      /\ UNCHANGED <<kind, cancelled, campaign, target, attempt, budget, branches>>
  BY DEF Collect, AllGathered
<1>2. Searching /\ Adaptive /\ attempt \in Nat /\ attempt # 0 /\ e \in Nat /\ run.base \in Nat
  BY <1>1, RunFields DEF Inv, TypeOK, Phases, Searching
<1>3. m \in Nat /\ DOMAIN branches = 1..m /\ DOMAIN R = 1..m /\ \A i \in 1..m : Fruit(R[i], e + i)
  BY <1>1, ResultsAre
<1>4. c \in Nat /\ (~cancelled => c = m)
  BY <1>1, ExploredIs
<1>5. at \in {"raised", "returned", "select"} /\ at \in Phase
      /\ (at = "select" => Failures = {} /\ winner = NoNode)
  BY DEF EndedBy, Phase
<1>6. \A i \in 1..m : IsNode(R[i])
  BY <1>3 DEF Fruit
<1>7. DOMAIN reached = 1..m /\ \A i \in 1..m : reached[i] = IF R[i].terminal THEN R[i] ELSE NoNode
  BY <1>3
<1>8. ToSet(R) = {R[i] : i \in 1..m}
  BY <1>3 DEF ToSet
<1> HIDE DEF m, e, R, reached, heap, c, at
<1>9. \A i \in 1..m : IsNode(reached[i])
  BY <1>6, <1>7, NoNodeIs
<1> DEFINE T == ({NoNode} \union {reached[i] : i \in 1..m}) \ {NoNode}
           S == ({best} \union {R[i] : i \in 1..m}) \ {NoNode}
<1>10. Top(winner, T)
  BY <1>3, <1>7, <1>9, BestIs, NoNodeIs
<1>11. Top(best', S)
  BY <1>1, <1>3, <1>6, BestIs DEF Inv, TypeOK
<1>12. IsNode(winner) /\ IsNode(best') /\ IsNode(w)
  BY <1>6, <1>9, <1>10, <1>11, NoNodeIs DEF Top, Inv, TypeOK
<1> HIDE DEF winner, w
<1>13. /\ IsRun(run') /\ run'.at = at /\ run'.base = run.base /\ run'.explored = e + c
       /\ run'.winner = w
  <2> DEFINE x == e + c
  <2>1. run' = [run EXCEPT !.explored = x, !.at = at, !.winner = w] /\ x \in Nat
    BY <1>1, <1>2, <1>4 DEF e
  <2> HIDE DEF x
  <2>2. run' = RunWith(at, run.base, x, run.state, run.candidates, w)
    <3>1. run' = Explored(x, at, w)
      BY <2>1 DEF Explored
    <3>2. IsRun(run)
      BY RunIs DEF Inv
    <3> QED BY <3>1, <3>2, RunExplores
  <2>3. RunFits(run', at, run.base, x, run.state, run.candidates, w)
    BY <1>2, <1>5, <1>12, <2>1, <2>2, RunWithIs, RunIs DEF Inv
  <2> QED BY <2>3 DEF RunFits, x
<1>14. /\ IsStore(memory') /\ Sound(memory')
       /\ Below(memory, e) => Below(memory', e + m)
       /\ \A r : IsCredited(r, memory) => IsCredited(r, memory')
       /\ \A i \in 1..m : R[i].terminal => IsCredited(R[i], memory')
  <2>1. IsStore(memory) /\ Sound(memory) /\ Below(memory, e)
    BY <1>1, <1>2 DEF Inv, TypeOK, Credits, IdsBelow, Sound, Below, e
  <2> QED BY <1>1, <1>2, <1>3, <2>1, RecordedIs
<1>15. /\ IsSeq(frontier')
       /\ \A i \in DOMAIN frontier' : IsNode(frontier'[i]) /\ (frontier'[i] = Root \/ Replayable(frontier'[i]))
  <2> DEFINE X == ToSet(frontier) \union {r \in ToSet(R) : Replayable(r)}
  <2>1. IsSeq(frontier) /\ \A i \in DOMAIN frontier :
          IsNode(frontier[i]) /\ (frontier[i] = Root \/ Replayable(frontier[i]))
    BY DEF Inv, TypeOK, Trajectories
  <2>2. frontier \in Seq(X)
    BY <2>1, WiderSeq DEF IsSeq
  <2>3. \A i \in 1..m : R[i] # NoNode /\ ~R[i].terminal /\ ~R[i].terminated => R[i] \in X
    BY <1>3, <1>8 DEF Fruit
  <2>4. \A x \in X : IsNode(x) /\ (x = Root \/ Replayable(x))
    BY <1>6, <1>8, <2>1 DEF ToSet
  <2> HIDE DEF X
  <2>5. heap \in Seq(X)
    BY <1>3, <2>2, <2>3, PushedIn DEF heap
  <2>6. frontier' \in Seq(X)
    BY <1>1, <2>5, FirstOfSeq, SearchAssumption
  <2>7. \A i \in DOMAIN frontier' : frontier'[i] \in X
    BY <2>6
  <2> QED BY <2>4, <2>6, <2>7, SeqIsSeq
<1>16. Adaptive' = Adaptive /\ Root' = Root /\ Scripted' = Scripted /\ NoResult' = NoResult
  BY <1>1 DEF Adaptive, Root, Scripted, NoResult
<1>17. TypeOK'
  <2>1. \A r \in nodes' : IsNode(r)
    BY <1>1, <1>6, <1>8 DEF Inv, TypeOK
  <2> QED BY <1>1, <1>12, <1>13, <1>14, <1>15, <2>1 DEF Inv, TypeOK
<1>18. Phases'
  BY <1>1, <1>2, <1>5, <1>13, <1>16 DEF Phases
<1>19. Episodes'
  <2>1. /\ ~Scripted => \A j \in DOMAIN campaign.seeds : campaign.seeds[j] = j - 1
        /\ Scripted => Len(campaign.seeds) <= 1
        /\ ~cancelled => budget.episodes = Len(campaign.seeds)
        /\ \A i \in DOMAIN branches : branches[i].result.kind # "refused"
        /\ \A i \in DOMAIN branches : branches[i].result.kind = "skipped" => cancelled
    BY <1>1, <1>2 DEF Inv, Episodes
  <2>2. PICK k \in 0..m : Waiting(k)
    BY <1>1 DEF Inv, Episodes, m
  <2>3. k = m
    <3>1. \A i \in 1..m : i <= k
      BY <1>1, <1>3, <2>2 DEF Waiting
    <3> QED BY <1>3, <3>1
  <2>4. ~cancelled => Len(campaign.seeds) = run'.base + run'.explored
    BY <1>2, <1>3, <1>4, <1>13, <2>2, <2>3 DEF Waiting, e
  <2> HIDE DEF Adaptive, Scripted
  <2> QED BY <1>1, <1>5, <1>13, <1>16, <2>1, <2>4 DEF Episodes
<1>20. Tokens'
  BY <1>1, <1>2, <1>5, <1>13 DEF Inv, Tokens, Searching
<1>21. Trajectories'
  BY <1>5, <1>13, <1>15, <1>16 DEF Trajectories
<1>22. /\ NoNode \notin nodes /\ \A n \in nodes : n.actions # <<>> /\ ~n.terminal /\ IsNode(n)
       /\ IF nodes = {} THEN best = NoNode
          ELSE best \in nodes /\ \A n \in nodes : Priority(n) <= Priority(best)
  BY <1>2 DEF Inv, TypeOK, Bests
<1>23. nodes' = nodes \union ({R[i] : i \in 1..m} \ {NoNode})
  BY <1>1, <1>8
<1>24. T = {n \in nodes' : n.terminal}
  <2>1. \A i \in 1..m : reached[i] = IF R[i].terminal THEN R[i] ELSE NoNode
    BY <1>7
  <2> QED BY <1>22, <1>23, <2>1, NoNodeFields
<1>25. Bests'
  <2>1. NoNode \notin nodes' /\ \A n \in nodes' : n.actions # <<>>
    BY <1>3, <1>22, <1>23 DEF Fruit
  <2>2. winner = NoNode => \A n \in nodes' : ~n.terminal
    BY <1>10, <1>24 DEF Top
  <2>3. IF nodes' = {} THEN best' = NoNode
        ELSE best' \in nodes' /\ \A n \in nodes' : Priority(n) <= Priority(best')
    <3>1. S \subseteq nodes' /\ (S = {} <=> nodes' = {})
      BY <1>22, <1>23
    <3>2. S # {} => best' \in S /\ \A n \in S : Priority(n) <= Priority(best')
      BY <1>11 DEF Top
    <3>3. S = {} => best' = NoNode
      BY <1>11 DEF Top
    <3>4. ASSUME NEW n \in nodes', S # {} PROVE Priority(n) <= Priority(best')
      <4>1. CASE n \in S
        BY <3>2, <3>4, <4>1
      <4>2. CASE n \notin S
        <5>1. n \in nodes /\ best \in S /\ Priority(n) <= Priority(best)
          BY <1>22, <1>23, <3>4, <4>2
        <5>2. Priority(best) <= Priority(best')
          BY <3>2, <5>1
        <5>3. Priority(n) \in Int /\ Priority(best) \in Int /\ Priority(best') \in Int
          BY <1>12, <1>22, <5>1, PriorityIs
        <5> QED BY <5>1, <5>2, <5>3
      <4> QED BY <4>1, <4>2
    <3> HIDE DEF S
    <3> QED BY <3>1, <3>2, <3>3, <3>4
  <2> HIDE DEF Adaptive
  <2> QED BY <1>2, <1>5, <1>13, <1>16, <2>1, <2>2, <2>3 DEF Bests, Searching
<1>26. WinnerIsBest'
  <2>1. ASSUME w # NoNode PROVE T # {} /\ w \in T /\ \A n \in T : Priority(n) <= Priority(w)
    BY <1>10, <2>1 DEF w, Top
  <2> HIDE DEF T
  <2> QED BY <1>13, <1>24, <2>1 DEF WinnerIsBest
<1>27. Credits'
  <2>1. \A n \in nodes' : n.terminal => IsCredited(n, memory')
    BY <1>14, <1>22, <1>23
  <2>2. at = "select" /\ ~cancelled => IdsBelow(run.explored)'
    <3>1. Below(memory, e)
      BY <1>1, <1>2 DEF Inv, Credits, IdsBelow, Below, e
    <3>2. ~cancelled => Below(memory', run'.explored)
      BY <1>4, <1>13, <1>14, <3>1
    <3> QED BY <1>1, <3>2 DEF IdsBelow, Below
  <2>3. Sound(memory')
    BY <1>14
  <2> HIDE DEF Adaptive
  <2> QED BY <1>1, <1>5, <1>13, <2>1, <2>2, <2>3 DEF Credits, Sound, IsCredited
<1> QED BY <1>17, <1>18, <1>19, <1>20, <1>21, <1>25, <1>26, <1>27 DEF Inv

-----------------------------------------------------------------------------
(* The attempts together begin no more episodes than one may.  Each has a   *)
(* tracker of its own: it is right because it starts from the table and     *)
(* counts on with it, which is what Episodes says.                          *)

InTheBudget == Len(campaign.seeds) <= MaxEpisodes

\* Only the begin of an episode writes to the table of episodes.
LEMMA SeedsStay ==
  ASSUME Inv, [Next]_vars,
         ~ \E i \in DOMAIN branches : BeginBranch(i),
         ~ BeginEpisode
  PROVE  campaign'.seeds = campaign.seeds
<1> USE DEF collected
<1>1. campaign \in [seeds : Seq(Nat), tokens : Nat]
  BY DEF Inv, TypeOK
<1>2. Charge => campaign'.seeds = campaign.seeds
  BY <1>1 DEF Charge
<1>3. CASE Begin \/ Lose \/ Cancel \/ UNCHANGED vars
  BY <1>3 DEF Begin, Lose, Cancel, vars, tables
<1>4. CASE BeamSearch
  <2>1. CASE StopSearch \/ Exhaust \/ Rank \/ Collect
    BY <2>1, <1>2 DEF StopSearch, Exhaust, Rank, Collect, tables
  <2>2. CASE Propose
    BY <2>2, <1>2 DEF Propose
  <2>3. ASSUME NEW i \in DOMAIN branches,
               \/ Provision(i) \/ Leave(i) \/ ResetBranch(i) \/ StepFails(i) \/ ReplayStep(i)
               \/ CandidateStep(i) \/ CloseBranch(i)
        PROVE  campaign'.seeds = campaign.seeds
    BY <2>3 DEF Provision, Leave, ResetBranch, StepFails, ReplayStep, CandidateStep, CloseBranch, tables
  <2> QED BY <1>4, <2>1, <2>2, <2>3 DEF BeamSearch
<1>5. CASE OneByOne
  <2>1. CASE Think
    BY <2>1, <1>2 DEF Think
  <2>2. CASE NextEpisode \/ ResetEpisode \/ EndEpisode \/ Send \/ EpisodeStep \/ EpisodeEnds
    BY <2>2 DEF NextEpisode, ResetEpisode, EndEpisode, Send, EpisodeStep, EpisodeEnds, tables
  <2> QED BY <1>5, <2>1, <2>2 DEF OneByOne
<1> QED BY <1>3, <1>4, <1>5 DEF Next, Progress

\* The tracker lets an episode begin only if the table has room for it.
LEMMA InTheBudgetNext == ASSUME Inv, InTheBudget, [Next]_vars PROVE InTheBudget'
<1>1. /\ campaign \in [seeds : Seq(Nat), tokens : Nat] /\ budget \in [episodes : Nat, tokens : Nat]
      /\ MaxEpisodes \in Nat
  BY SearchAssumption DEF Inv, TypeOK
<1>2. ASSUME NEW i \in DOMAIN branches, BeginBranch(i) \/ (i = 1 /\ BeginEpisode) PROVE InTheBudget'
  <2>1. CASE cancelled
    <3>1. campaign' = campaign
      BY <1>2, <2>1 DEF BeginBranch, BeginEpisode, StopsBefore
    <3> QED BY <3>1 DEF InTheBudget
  <2>2. CASE ~cancelled
    <3>1. StartsEpisode(i) /\ budget.episodes = Len(campaign.seeds)
      BY <1>2, <2>2 DEF BeginBranch, BeginEpisode, Inv, Episodes, Searching
    <3>2. CASE campaign' = campaign
      BY <3>2 DEF InTheBudget
    <3>3. CASE campaign' # campaign
      <4>1. /\ budget.episodes < MaxEpisodes
            /\ campaign' = [campaign EXCEPT !.seeds = Append(@, Seed(i))]
        BY <1>1, <3>1, <3>3 DEF StartsEpisode
      <4> DEFINE seed == Seed(i)
      <4>2. campaign'.seeds = Append(campaign.seeds, seed)
        BY <1>1, <4>1
      <4> HIDE DEF seed
      <4>3. Len(campaign'.seeds) = Len(campaign.seeds) + 1
        BY <1>1, <4>2
      <4> QED BY <1>1, <3>1, <4>1, <4>3 DEF InTheBudget
    <3> QED BY <3>2, <3>3
  <2> QED BY <2>1, <2>2
<1>3. CASE BeginEpisode
  <2>1. 1 \in DOMAIN branches
    <3>1. IsSeq(branches) /\ Len(branches) = 1
      BY <1>3 DEF BeginEpisode, Inv, TypeOK, Phases
    <3>2. DOMAIN branches = 1..1
      BY <3>1, SeqDomain
    <3> QED BY <3>2
  <2> QED BY <1>2, <1>3, <2>1
<1>4. CASE ~ BeginEpisode /\ ~ \E i \in DOMAIN branches : BeginBranch(i)
  BY <1>4, SeedsStay DEF InTheBudget
<1> QED BY <1>2, <1>3, <1>4

-----------------------------------------------------------------------------
(* What else the steps keep: who may send, and who was left.                *)

Sends(b) == b.at \in {"ready", "step"}

\* The target's own calls had used up the tokens when the attempt began.
Quiet ==
  target.known >= MaxTokens /\ ~Scripted =>
    run.at # "gather" /\ nodes = {} /\ \A i \in DOMAIN branches : ~Sends(branches[i])

\* A branch that was left raises, unless the search ends as cancelled.
LeftOpen ==
  /\ \A i \in DOMAIN branches : branches[i].at = "left" => branches[i].result.kind = "failed"
  /\ \A i \in DOMAIN branches : branches[i].result.kind = "cancelled" => cancelled
  /\ (\E i \in DOMAIN branches : branches[i].at = "left") =>
       run.at \in {"gather", "raised"} \/ cancelled

LEMMA NotAffordable ==
  ASSUME Inv, target.known >= MaxTokens,
         Searching \/ (run.at = "episode" /\ branches[1].result.kind # "failed")
  PROVE  ~Affordable
<1>1. budget.tokens = campaign.tokens + target.known
  BY DEF Inv, Tokens
<1>2. campaign.tokens \in Nat /\ target.known \in Nat /\ MaxTokens \in Nat
  BY SearchAssumption DEF Inv, TypeOK
<1> QED BY <1>1, <1>2 DEF Affordable

\* A branch that begins.
LEMMA BegunHonest ==
  ASSUME Inv, NEW i \in DOMAIN branches, branches[i].at = "queued",
         \/ ~cancelled /\ StartsEpisode(i)
         \/ cancelled /\ \E result \in {"skipped", "cancelled", "failed"} : StopsBefore(i, result)
  PROVE  \E b : IsBranch(b) /\ Honest(i, b) /\ Update(i, b)
<1>1. IsBranch(branches[i]) /\ branches[i].result = NoResult
  BY DEF Inv, TypeOK, Phases
<1>2. ASSUME NEW k \in {"skipped", "cancelled", "failed", "refused"}, Ends(i, k),
             k = "cancelled" => cancelled
      PROVE  \E b : IsBranch(b) /\ Honest(i, b) /\ Update(i, b)
  <2> DEFINE c == Ended(branches[i], "done", k, NoNode)
  <2>1. Update(i, c)
    BY <1>2 DEF Ends, Ended
  <2>2. IsBranch(c) /\ c.at = "done" /\ c.result.kind = k
    <3>1. "done" \in BranchPlace /\ k \in ResultKind
      BY DEF BranchPlace, ResultKind
    <3> QED BY <1>1, <3>1, BranchResult, NoNodeIs
  <2> HIDE DEF c
  <2> QED BY <1>2, <2>1, <2>2 DEF Honest
<1>3. ASSUME Update(i, [branches[i] EXCEPT !.at = "provision"])
      PROVE  \E b : IsBranch(b) /\ Honest(i, b) /\ Update(i, b)
  <2> DEFINE c == [branches[i] EXCEPT !.at = "provision"]
  <2>1. Update(i, c) /\ IsBranch(c) /\ c.at = "provision" /\ c.result.kind = "none"
    BY <1>1, <1>3, BranchAt, NoResultFields DEF BranchPlace
  <2> HIDE DEF c
  <2> QED BY <2>1 DEF Honest
<1> QED BY <1>2, <1>3 DEF StartsEpisode, StopsBefore

\* A step of a branch or of an episode changes one branch, as Honest says.
OneBranch ==
  \/ \E i \in DOMAIN branches :
       \/ BeginBranch(i) \/ Provision(i) \/ Leave(i) \/ ResetBranch(i)
       \/ StepFails(i) \/ ReplayStep(i) \/ CandidateStep(i) \/ CloseBranch(i)
  \/ BeginEpisode \/ ResetEpisode \/ EndEpisode \/ Think \/ Send \/ EpisodeStep

LEMMA OneBranchIs ==
  ASSUME Inv, OneBranch
  PROVE  /\ UNCHANGED <<kind, cancelled, run, nodes>> /\ target'.known = target.known
         /\ \E i \in DOMAIN branches : \E b : IsBranch(b) /\ Honest(i, b) /\ Update(i, b)
<1>1. TypeOK /\ Phases /\ Trajectories
  BY DEF Inv
<1>2. ASSUME NEW i \in DOMAIN branches, Moves(i)
      PROVE  /\ UNCHANGED <<kind, cancelled, run, nodes>> /\ target'.known = target.known
             /\ \E b : IsBranch(b) /\ Honest(i, b) /\ Update(i, b)
  BY <1>2 DEF Moves, Others, Collects, collected, search, Keeps
<1>3. ASSUME NEW i \in DOMAIN branches,
             \/ Provision(i) \/ Leave(i) \/ ResetBranch(i)
             \/ StepFails(i) \/ ReplayStep(i) \/ CandidateStep(i) \/ CloseBranch(i)
      PROVE  Moves(i)
  BY <1>1, <1>3, ProvisionMoves, LeaveMoves, ResetBranchMoves, StepFailsMoves, ReplayMoves,
     CandidateMoves, CloseMoves
<1>4. ASSUME NEW i \in DOMAIN branches, BeginBranch(i)
      PROVE  /\ UNCHANGED <<kind, cancelled, run, nodes>> /\ target'.known = target.known
             /\ \E b : IsBranch(b) /\ Honest(i, b) /\ Update(i, b)
  BY <1>4, BegunHonest DEF BeginBranch, Admitted, search
<1>5. ASSUME run.at = "episode" PROVE 1 \in DOMAIN branches
  <2>1. IsSeq(branches) /\ Len(branches) = 1
    BY <1>1, <1>5 DEF TypeOK, Phases
  <2>2. DOMAIN branches = 1..1
    BY <2>1, SeqDomain
  <2> QED BY <2>2
<1>6. ASSUME BeginEpisode
      PROVE  /\ UNCHANGED <<kind, cancelled, run, nodes>> /\ target'.known = target.known
             /\ \E i \in DOMAIN branches : \E b : IsBranch(b) /\ Honest(i, b) /\ Update(i, b)
  BY <1>5, <1>6, BegunHonest DEF BeginEpisode, search
<1>7. ASSUME ResetEpisode \/ EndEpisode \/ Send \/ EpisodeStep
      PROVE  \E i \in DOMAIN branches : Moves(i)
  BY <1>1, <1>5, <1>7, EpisodeMoves DEF ResetEpisode, EndEpisode, Send, EpisodeStep
<1>8. ASSUME Think
      PROVE  /\ UNCHANGED <<kind, cancelled, run, nodes>> /\ target'.known = target.known
             /\ \E i \in DOMAIN branches : \E b : IsBranch(b) /\ Honest(i, b) /\ Update(i, b)
  <2>1. UNCHANGED <<kind, cancelled, run, nodes>> /\ target'.known = target.known
    BY <1>8 DEF Think, search
  <2>2. 1 \in DOMAIN branches /\ \E b : Goes(1, b)
    BY <1>8, ThinkIs
  <2> QED BY <2>1, <2>2 DEF Goes, Keeps
<1> QED BY <1>2, <1>3, <1>4, <1>6, <1>7, <1>8 DEF OneBranch

\* The other steps: what they make of the run, the nodes and the branches.
LEMMA RunAt ==
  ASSUME TypeOK
  PROVE  /\ \A at : [run EXCEPT !.at = at].at = at
         /\ \A at, w : [run EXCEPT !.at = at, !.winner = w].at = at
         /\ \A at, n : [run EXCEPT !.at = at, !.state = n].at = at
         /\ \A at, n, c : [run EXCEPT !.at = at, !.state = n, !.candidates = c].at = at
         /\ \A e, at, w : [run EXCEPT !.explored = e, !.at = at, !.winner = w].at = at
BY DEF TypeOK, IsRun

LEMMA QuietNext == ASSUME Inv, Quiet, [Next]_vars PROVE Quiet'
<1>1. CASE Begin
  <2>1. branches' = <<>> /\ nodes' = {}
    BY <1>1 DEF Begin
  <2>2. run'.at # "gather"
    <3> DEFINE at == IF cancelled THEN "returned" ELSE "select"
               base == Len(campaign.seeds)
    <3>1. run' = [NotStarted EXCEPT !.at = at, !.base = base]
      BY <1>1 DEF Begin
    <3>2. run' = RunWith(at, base, 0, NoNode, <<>>, NoNode) /\ at # "gather"
      BY <3>1, RunBegins
    <3> HIDE DEF at, base
    <3> QED BY <3>2 DEF RunWith
  <2> QED BY <2>1, <2>2 DEF Quiet
<1>2. SUFFICES ASSUME ~Begin, target'.known >= MaxTokens, ~Scripted'
               PROVE  run'.at # "gather" /\ nodes' = {} /\ \A i \in DOMAIN branches' : ~Sends(branches'[i])
  BY <1>1 DEF Quiet
<1>3. TypeOK
  BY DEF Inv
<1>4. CASE OneBranch
  <2>1. /\ UNCHANGED <<kind, cancelled, run, nodes>> /\ target'.known = target.known
        /\ \E i \in DOMAIN branches : \E b : IsBranch(b) /\ Honest(i, b) /\ Update(i, b)
    BY <1>4, OneBranchIs
  <2>2. PICK i \in DOMAIN branches : \E b : IsBranch(b) /\ Honest(i, b) /\ Update(i, b)
    BY <2>1
  <2>3. PICK b : IsBranch(b) /\ Honest(i, b) /\ Update(i, b)
    BY <2>2
  <2>4. target.known >= MaxTokens /\ ~Scripted
    BY <1>2, <2>1 DEF Scripted
  <2>5. run.at # "gather" /\ nodes = {} /\ \A j \in DOMAIN branches : ~Sends(branches[j])
    BY <2>4 DEF Quiet
  <2>6. ~Sends(b)
    <3> SUFFICES ASSUME Sends(b) PROVE FALSE
      OBVIOUS
    <3>1. /\ run.at = "episode" /\ branches[i].result.kind # "failed" /\ ~Sends(branches[i])
          /\ Scripted \/ Affordable
      BY <2>3, <2>5 DEF Honest, Sends
    <3>2. i = 1
      <4>1. DOMAIN branches = 1..Len(branches) /\ Len(branches) = 1
        BY <1>3, <2>3, <3>1, Replaced DEF Inv, Phases
      <4> QED BY <4>1
    <3> QED BY <2>4, <3>1, <3>2, NotAffordable
  <2>7. DOMAIN branches' = DOMAIN branches
        /\ \A j \in DOMAIN branches' : branches'[j] = b \/ branches'[j] = branches[j]
    BY <1>3, <2>3, Replaced
  <2> QED BY <2>1, <2>5, <2>6, <2>7
<1>5. CASE ~OneBranch
  <2>1. target'.known = target.known /\ kind' = kind
    <3> USE DEF tables, search, collected
    <3>1. CASE Lose
      BY <1>3, <3>1, ChargesCollect DEF Lose, Collects
    <3>2. CASE Cancel \/ UNCHANGED vars
      BY <3>2 DEF Cancel, vars
    <3>3. CASE StopSearch \/ Exhaust \/ Propose \/ Rank \/ Collect
      BY <3>3 DEF StopSearch, Exhaust, Propose, Rank, Collect
    <3>4. CASE NextEpisode \/ EpisodeEnds
      BY <3>4 DEF NextEpisode, EpisodeEnds
    <3> QED BY <1>2, <1>5, <3>1, <3>2, <3>3, <3>4 DEF Next, Progress, BeamSearch, OneByOne, OneBranch
  <2>2. target.known >= MaxTokens /\ ~Scripted
    BY <1>2, <2>1 DEF Scripted
  <2>3. run.at # "gather" /\ nodes = {} /\ \A j \in DOMAIN branches : ~Sends(branches[j])
    BY <2>2 DEF Quiet
  <2>4. CASE Lose
    BY <1>3, <2>3, <2>4, RunAt DEF Lose, search
  <2>5. CASE Cancel \/ UNCHANGED vars
    BY <2>3, <2>5 DEF Cancel, vars, search
  <2>6. CASE StopSearch
    BY <1>3, <2>3, <2>6, RunAt DEF StopSearch, Finish, search
  <2>7. CASE Exhaust
    BY <2>3, <2>7 DEF Exhaust
  <2>8. CASE Propose
    <3>1. UNCHANGED <<nodes, branches>>
      BY <2>8 DEF Propose
    <3>2. Raise \/ \E at \in {"select", "rank"} : \E n, c :
                   run' = [run EXCEPT !.at = at, !.state = n, !.candidates = c]
      BY <2>8 DEF Propose, Expanded
    <3>3. run'.at # "gather"
      <4>1. CASE Raise
        BY <1>3, <4>1, RunAt DEF Raise
      <4>2. ASSUME NEW at \in {"select", "rank"}, NEW n, NEW c,
                   run' = [run EXCEPT !.at = at, !.state = n, !.candidates = c]
            PROVE  run'.at # "gather"
        <5>1. [run EXCEPT !.at = at, !.state = n, !.candidates = c].at = at
          BY <1>3, RunAt
        <5> QED BY <4>2, <5>1
      <4> QED BY <3>2, <4>1, <4>2
    <3> QED BY <2>3, <3>1, <3>3
  <2>9. CASE Rank
    <3>1. Searching
      BY <2>9 DEF Rank, Searching
    <3>2. ~Affordable
      BY <2>2, <3>1, NotAffordable
    <3>3. Raise /\ UNCHANGED <<branches, nodes>>
      BY <2>9, <3>2 DEF Rank, search
    <3> QED BY <1>3, <2>3, <3>3, RunAt DEF Raise
  <2>10. CASE Collect
    BY <2>3, <2>10 DEF Collect
  <2>11. CASE NextEpisode
    <3>1. nodes' = nodes
      BY <2>11 DEF NextEpisode, search
    <3>2. CASE Finish(NoNode) /\ UNCHANGED branches
      BY <1>3, <2>3, <3>1, <3>2, RunAt DEF Finish
    <3>3. CASE /\ run' = [run EXCEPT !.at = "episode", !.state = NoNode]
               /\ branches' = <<Queued([action |-> Source[1], score |-> 0], 1)>>
      <4> DEFINE q == Queued([action |-> Source[1], score |-> 0], 1)
      <4>1. ~Sends(q)
        BY DEF Sends, Queued
      <4> HIDE DEF q
      <4>2. branches' = <<q>>
        BY <3>3 DEF q
      <4>3. \A j \in DOMAIN branches' : branches'[j] = q
        BY <4>2
      <4> QED BY <1>3, <2>3, <3>1, <3>3, <4>1, <4>3, RunAt
    <3> QED BY <2>11, <3>2, <3>3 DEF NextEpisode
  <2>12. CASE EpisodeEnds
    <3>1. branches' = <<>> /\ nodes' = nodes
      BY <2>12 DEF EpisodeEnds, search
    <3>2. \E at \in {"raised", "returned", "select"} : run' = [run EXCEPT !.at = at]
      BY <2>12 DEF EpisodeEnds
    <3> QED BY <1>3, <2>3, <3>1, <3>2, RunAt
  <2> QED BY <1>2, <1>5, <2>4, <2>5, <2>6, <2>7, <2>8, <2>9, <2>10, <2>11, <2>12
      DEF Next, Progress, BeamSearch, OneByOne, OneBranch
<1> QED BY <1>4, <1>5

LEMMA LeftOpenNext == ASSUME Inv, LeftOpen, [Next]_vars PROVE LeftOpen'
<1>1. TypeOK
  BY DEF Inv
<1>2. CASE OneBranch
  <2>1. /\ UNCHANGED <<kind, cancelled, run, nodes>>
        /\ \E i \in DOMAIN branches : \E b : IsBranch(b) /\ Honest(i, b) /\ Update(i, b)
    BY <1>2, OneBranchIs
  <2>2. PICK i \in DOMAIN branches : \E b : IsBranch(b) /\ Honest(i, b) /\ Update(i, b)
    BY <2>1
  <2>3. PICK b : IsBranch(b) /\ Honest(i, b) /\ Update(i, b)
    BY <2>2
  <2>4. DOMAIN branches' = DOMAIN branches
        /\ \A j \in DOMAIN branches' : branches'[j] = b \/ branches'[j] = branches[j]
    BY <1>1, <2>3, Replaced
  <2> QED BY <2>1, <2>3, <2>4 DEF LeftOpen, Honest
<1>3. CASE Begin \/ Lose \/ EpisodeEnds
  BY <1>3 DEF Begin, Lose, EpisodeEnds, LeftOpen
<1>4. CASE Cancel \/ UNCHANGED vars
  BY <1>4 DEF Cancel, vars, tables, LeftOpen
<1>5. CASE StopSearch \/ Exhaust \/ Propose \/ (Rank /\ UNCHANGED branches)
  <2>1. UNCHANGED <<cancelled, branches>> /\ run.at \in {"select", "rank"}
    BY <1>5 DEF StopSearch, Exhaust, Propose, Rank, Selects, tables
  <2> QED BY <2>1 DEF LeftOpen
<1>6. ASSUME cancelled' = cancelled, \A j \in DOMAIN branches' : branches'[j].at = "queued" /\ branches'[j].result = NoResult
      PROVE  LeftOpen'
  BY <1>6, NoResultFields DEF LeftOpen
<1>7. CASE Rank /\ ~UNCHANGED branches
  <2>1. PICK scores \in Scores :
          LET ranked == WithinBudget(Ranked(run.candidates, scores))
          IN branches' = [i \in DOMAIN ranked |-> Queued(ranked[i], run.explored + i)]
    BY <1>7 DEF Rank
  <2> DEFINE ranked == WithinBudget(Ranked(run.candidates, scores))
  <2>2. branches' = [i \in DOMAIN ranked |-> Queued(ranked[i], run.explored + i)]
    BY <2>1
  <2> HIDE DEF ranked
  <2>3. \A j \in DOMAIN branches' : branches'[j].at = "queued" /\ branches'[j].result = NoResult
    BY <2>2 DEF Queued
  <2> QED BY <1>6, <1>7, <2>3 DEF Rank
<1>8. CASE NextEpisode
  <2>1. cancelled' = cancelled /\ run.at = "select"
    BY <1>8 DEF NextEpisode, tables
  <2>2. CASE UNCHANGED branches
    BY <2>1, <2>2 DEF LeftOpen
  <2>3. CASE branches' = <<Queued([action |-> Source[1], score |-> 0], 1)>>
    <3> DEFINE q == Queued([action |-> Source[1], score |-> 0], 1)
    <3>1. q.at = "queued" /\ q.result = NoResult
      BY DEF Queued
    <3>2. branches' = <<q>>
      BY <2>3
    <3> HIDE DEF q
    <3>3. \A j \in DOMAIN branches' : branches'[j] = q
      BY <3>2
    <3> QED BY <1>6, <2>1, <3>1, <3>3
  <2> QED BY <1>8, <2>2, <2>3 DEF NextEpisode
<1>9. CASE Collect
  <2>1. UNCHANGED <<cancelled, branches>>
    BY <1>9 DEF Collect
  <2>2. ASSUME NEW i \in DOMAIN branches, branches[i].at = "left", ~cancelled PROVE run'.at = "raised"
    <3>1. branches[i].result.kind = "failed" /\ i \in Failures
      BY <2>2 DEF LeftOpen, Failures
    <3>2. Min(Failures) \in Failures
      <4>1. DOMAIN branches = 1..Len(branches)
        BY <1>1, SeqDomain DEF TypeOK
      <4>2. Failures \subseteq Nat /\ Failures # {}
        BY <3>1, <4>1 DEF Failures
      <4> QED BY <4>2, SmallestElement DEF Min
    <3>3. branches[Min(Failures)].result.kind # "cancelled"
      BY <2>2, <3>2 DEF LeftOpen, Failures
    <3>4. EndedBy(Min(Failures)) = "raised"
      BY <3>3 DEF EndedBy
    <3> DEFINE e == run.explored + Cardinality({j \in DOMAIN branches : branches[j].result.kind # "skipped"})
    <3>5. \E w : run' = [run EXCEPT !.explored = e, !.at = "raised", !.winner = w]
      BY <1>9, <3>1, <3>4 DEF Collect
    <3> HIDE DEF e
    <3> QED BY <1>1, <3>5, RunAt
  <2> QED BY <2>1, <2>2 DEF LeftOpen
<1> QED BY <1>2, <1>3, <1>4, <1>5, <1>7, <1>8, <1>9
    DEF Next, Progress, BeamSearch, OneByOne, OneBranch

-----------------------------------------------------------------------------
(* The theorems.                                                            *)

\* The steps of the branches.
LEMMA BranchInv ==
  ASSUME Inv, NEW i \in DOMAIN branches,
         \/ BeginBranch(i) \/ Provision(i) \/ Leave(i) \/ ResetBranch(i)
         \/ StepFails(i) \/ ReplayStep(i) \/ CandidateStep(i) \/ CloseBranch(i)
  PROVE  Inv'
<1>1. TypeOK /\ Phases /\ Trajectories
  BY DEF Inv
<1>2. CASE BeginBranch(i)
  BY <1>2, BeginBranchInv
<1>3. CASE Provision(i)
  BY <1>1, <1>3, ProvisionMoves, MovesInv
<1>4. CASE ResetBranch(i)
  BY <1>1, <1>4, ResetBranchMoves, MovesInv
<1>5. CASE StepFails(i)
  BY <1>1, <1>5, StepFailsMoves, MovesInv
<1>6. CASE ReplayStep(i)
  BY <1>1, <1>6, ReplayMoves, MovesInv
<1>7. CASE CandidateStep(i)
  BY <1>1, <1>7, CandidateMoves, MovesInv
<1>8. CASE CloseBranch(i)
  BY <1>1, <1>8, CloseMoves, MovesInv
<1>9. CASE Leave(i)
  BY <1>1, <1>9, LeaveMoves, MovesInv
<1> QED BY <1>2, <1>3, <1>4, <1>5, <1>6, <1>7, <1>8, <1>9

\* The steps of an episode.
LEMMA EpisodeInv ==
  ASSUME Inv, ResetEpisode \/ EndEpisode \/ Send \/ EpisodeStep
  PROVE  Inv'
<1> DEFINE i == 1
<1>1. TypeOK /\ Phases /\ run.at = "episode"
  BY DEF Inv, ResetEpisode, EndEpisode, Send, EpisodeStep
<1>2. IsSeq(branches) /\ Len(branches) = 1
  BY <1>1 DEF TypeOK, Phases
<1>3. i \in DOMAIN branches
  <2>1. DOMAIN branches = 1..1
    BY <1>2, SeqDomain
  <2> QED BY <2>1
<1> HIDE DEF i
<1>4. Moves(i)
  BY <1>1, <1>3, EpisodeMoves DEF i
<1> QED BY <1>3, <1>4, MovesInv

\* Every step keeps the invariant.
LEMMA NextInv == Inv /\ [Next]_vars => Inv'
<1> SUFFICES ASSUME Inv, [Next]_vars PROVE Inv'
  OBVIOUS
<1>1. CASE Begin
  BY <1>1, BeginInv
<1>2. CASE BeamSearch
  BY <1>2, StopSearchInv, ExhaustInv, ProposeInv, RankInv, CollectInv, BranchInv DEF BeamSearch
<1>3. CASE OneByOne
  BY <1>3, NextEpisodeInv, BeginEpisodeInv, ThinkInv, EpisodeEndsInv, EpisodeInv DEF OneByOne
<1>4. CASE Lose
  BY <1>4, LoseInv
<1>5. CASE Cancel
  BY <1>5, CancelInv
<1>6. CASE UNCHANGED vars
  BY <1>6, StutterInv
<1> QED BY <1>1, <1>2, <1>3, <1>4, <1>5, <1>6 DEF Next, Progress

\* The invariant, type correctness first, holds of every search: any bounds that the
\* assumption allows, any proposals, scores and answers, any failures, losses and cancellations.
THEOREM SearchInvariant == Spec => []Inv
BY InitInv, NextInv, PTL DEF Spec

\* The attempts of a campaign share one budget: together they begin no more episodes than one may,
\* none that is queued is refused, the attacker's tokens pass their bound by one call per attempt at
\* most, an attempt that begins with the bound used up by the target's calls sends nothing a model
\* proposed, and no two episodes have one seed, whatever an earlier attempt left behind
\* (BudgetTracker, CampaignRunner.run, _run_adaptive, record_target_inference).
THEOREM BudgetAlwaysShared == Spec => []AttemptsShareTheBudget
<1>1. Inv /\ InTheBudget /\ Quiet => AttemptsShareTheBudget
  <2> SUFFICES ASSUME Inv, InTheBudget, Quiet PROVE AttemptsShareTheBudget
    OBVIOUS
  <2>1. DOMAIN campaign.seeds = 1..Len(campaign.seeds) /\ Len(campaign.seeds) \in Nat
    BY DEF Inv, TypeOK
  <2>2. \A i, j \in DOMAIN campaign.seeds : campaign.seeds[i] = campaign.seeds[j] => i = j
    <3>1. CASE Scripted
      BY <2>1, <3>1 DEF Inv, Episodes
    <3>2. CASE ~Scripted
      BY <2>1, <3>2 DEF Inv, Episodes
    <3> QED BY <3>1, <3>2
  <2> QED BY <2>2 DEF AttemptsShareTheBudget, InTheBudget, Inv, Episodes, Tokens, Quiet, Sends
<1>2. Init => InTheBudget /\ Quiet
  BY SearchAssumption DEF Init, InTheBudget, Quiet, NotStarted
<1>3. Inv /\ InTheBudget /\ Quiet /\ [Next]_vars => InTheBudget' /\ Quiet'
  BY InTheBudgetNext, QuietNext
<1> QED BY <1>1, <1>2, <1>3, SearchInvariant, PTL DEF Spec

\* No branch runs when the search is over: gather waits for all of them, also when one failed
\* or the campaign is cancelled; and if the factory left an environment to nobody, the search has
\* raised or the campaign is cancelled (BestFirstBeamSearch.run, _run_adaptive).
THEOREM NothingEverRunsAfter == Spec => []NothingRunsAfterTheSearch
<1>1. Inv /\ LeftOpen => NothingRunsAfterTheSearch
  BY DEF Inv, Phases, Active, NothingRunsAfterTheSearch, Running, LeftOpen
<1>2. Init => LeftOpen
  BY DEF Init, LeftOpen
<1>3. Inv /\ LeftOpen /\ [Next]_vars => LeftOpen'
  BY LeftOpenNext
<1> QED BY <1>1, <1>2, <1>3, SearchInvariant, PTL DEF Spec

\* A node on the heap has the observations and the rewards of all its actions, those of the
\* prefix it replayed included (_execute_candidate).
THEOREM NodesAlwaysReplay == Spec => []NodesAreReplayable
<1>1. Inv => NodesAreReplayable
  BY DEF Inv, Trajectories, Replayable, NodesAreReplayable
<1> QED BY <1>1, SearchInvariant, PTL

\* The node a search returns is the best of those that reached a forbidden state, or the best
\* of all if none did (BestFirstBeamSearch.run).
THEOREM TheBestWins == Spec => []WinnerIsBest
<1>1. Inv => WinnerIsBest
  BY DEF Inv
<1> QED BY <1>1, SearchInvariant, PTL

\* Every node that reached a forbidden state is credited to a strategy, and a strategy counts
\* as wins just these, each once, over all attempts (StrategyMemory.record_outcome).
THEOREM WinsAlwaysCredited == Spec => []WinsAreCredited
<1>1. Inv => WinsAreCredited
  BY DEF Inv, Credits, WinsAreCredited
<1> QED BY <1>1, SearchInvariant, PTL

-----------------------------------------------------------------------------
(***************************************************************************)
(* The children of a hardening run are such campaigns: an exact replay, a  *)
(* search of the neighbourhood, a benign regression.  What follows is      *)
(* about the run that asked for them, for any number of runs and attempts. *)
(***************************************************************************)
CONSTANT Run

VARIABLES request, asked, row, bundled, finding, child, cancel, attempts, evidence, pc, statuses,
          verdict

H == INSTANCE Hardening

(***************************************************************************)
(* Two workers may write a verdict of one run, at any distance from each   *)
(* other.  What makes the second one harmless is that a child that is over *)
(* has been left by its worker, so that nothing is put on record for it any*)
(* more; its status can change only by a cancellation that read it before. *)
(* A child read as COMPLETED is therefore gone for good, whatever became of*)
(* its status by the time the verdict is written.                          *)
(***************************************************************************)
AnsweredFirst == \A r \in Run : row[r] # "none" => request[r] = "answered"

LeftWhenOver ==
  \A c \in H!Child :
    /\ child[c] = "COMPLETED" => pc[c] \notin H!Running
    /\ cancel[c] = "none" => child[c] # "CANCELLING" /\ (pc[c] \in H!Running => child[c] = "open")

Gone(c) == child[c] \notin {"none", "open"} /\ pc[c] \notin H!Running

Stays(c) == child[c] = "COMPLETED" \/ cancel[c] # "none"

\* What a worker knows of a child it has read as being over.
IsSo(c, status) ==
  /\ status = "COMPLETED" => Gone(c) /\ Stays(c)
  /\ cancel[c] = "none" => Gone(c) /\ child[c] = status

Looking ==
  \A c \in H!Child : pc[c] = "look" => row[H!RunOf(c)] # "none"

ReadIsSo ==
  \A c \in H!Child : pc[c] = "look" =>
    \A k \in asked[H!RunOf(c)] :
      statuses[c][k] \in H!TerminalCampaign => IsSo(<<H!RunOf(c), k>>, statuses[c][k])

Excused(r) == \E c \in H!Children(r) : cancel[c] # "none"

Statuses(r) == [k \in H!Kind |-> child[<<r, k>>]]

Settled(r, v) ==
  /\ row[r] # "none"
  /\ \/ Excused(r)
     \/ v = H!Verdict(r, Statuses(r)) /\ \A c \in H!Children(r) : Gone(c)
  /\ v = "PASSED" => \A c \in H!Children(r) : Gone(c) /\ Stays(c) /\ H!Proved(c)

WritesTheVerdict == \A c \in H!Child : pc[c] = "write" => Settled(H!RunOf(c), verdict[c])

HasTheVerdict == \A r \in Run : row[r] \in H!Judged => Settled(r, row[r])

HInv ==
  /\ H!TypeOK
  /\ AnsweredFirst
  /\ LeftWhenOver
  /\ Looking
  /\ ReadIsSo
  /\ WritesTheVerdict
  /\ HasTheVerdict

LEMMA RunOfChild == \A c \in H!Child : H!RunOf(c) \in Run
BY DEF H!Child, H!RunOf

LEMMA ChildOfRun ==
  \A r \in Run : \A k \in H!Kind : <<r, k>> \in H!Child /\ H!RunOf(<<r, k>>) = r /\ H!KindOf(<<r, k>>) = k
BY DEF H!Child, H!RunOf, H!KindOf

LEMMA ChildrenAre ==
  ASSUME H!TypeOK, NEW r \in Run
  PROVE  /\ \A k \in asked[r] : k \in H!Kind /\ <<r, k>> \in H!Children(r)
         /\ \A c \in H!Children(r) : c \in H!Child /\ H!KindOf(c) \in asked[r] /\ c = <<r, H!KindOf(c)>>
<1>1. asked[r] \subseteq H!Kind
  BY DEF H!TypeOK
<1>2. ASSUME NEW c \in H!Children(r) PROVE c \in H!Child /\ H!KindOf(c) \in asked[r] /\ c = <<r, H!KindOf(c)>>
  BY <1>2 DEF H!Children, H!Child, H!RunOf, H!KindOf
<1>3. QED BY <1>1, <1>2, ChildOfRun DEF H!Children

LEMMA VerdictIsJudged == \A r \in Run : \A status : H!Verdict(r, status) \in H!Judged
BY DEF H!Verdict, H!Judged

-----------------------------------------------------------------------------
LEMMA HTypeInit == H!Init => H!TypeOK
<1> SUFFICES ASSUME H!Init PROVE H!TypeOK
  OBVIOUS
<1>1. H!Unread \in [H!Kind -> H!ChildStatus]
  BY DEF H!Unread, H!ChildStatus
<1>2. QED BY <1>1 DEF H!Init, H!TypeOK, H!Request, H!RunStatus, H!FindingStatus, H!ChildStatus, H!Place,
    H!Judged

LEMMA FactsAreFacts == \A c \in H!Child : H!Facts[H!KindOf(c)] \subseteq SUBSET H!Fact
<1> SUFFICES ASSUME NEW c \in H!Child PROVE H!Facts[H!KindOf(c)] \subseteq SUBSET H!Fact
  OBVIOUS
<1>1. H!KindOf(c) \in {"exact", "bypass", "benign"}
  BY DEF H!Child, H!KindOf, H!Kind
<1>2. H!Facts["exact"] \subseteq SUBSET H!Fact
  BY DEF H!Facts, H!Fact
<1>3. H!Facts["bypass"] \subseteq SUBSET H!Fact
  BY DEF H!Facts, H!Fact
<1>4. H!Facts["benign"] \subseteq SUBSET H!Fact
  BY DEF H!Facts, H!Fact
<1>5. QED BY <1>1, <1>2, <1>3, <1>4

\* A step of the API touches no child, no worker and no cancellation.
LEMMA ApiKeeps ==
  ASSUME NEW r \in Run, H!ApiStep(r)
  PROVE  /\ UNCHANGED <<child, cancel, H!workers>>
         /\ bundled' = bundled \/ bundled' = [bundled EXCEPT ![r] = TRUE]
BY DEF H!ApiStep, H!AskHardening, H!AskReplay, H!CreateRun, H!LoseRequest, H!AskBundle, H!api

\* Neither a child, nor a worker, nor a cancellation touches what was asked for.
LEMMA ChildKeeps ==
  ASSUME NEW c \in H!Child, H!CreateChild(c) \/ H!QueueStep(c) \/ H!RunStep(c) \/ H!CancelStep(c)
  PROVE  UNCHANGED <<request, asked>>
<1>1. CASE H!CreateChild(c) \/ H!QueueStep(c) \/ H!CancelStep(c)
  BY <1>1 DEF H!CreateChild, H!QueueStep, H!Claim, H!Dropped, H!Dies, H!CancelStep, H!AskCancel,
      H!CancelWrites, H!Reopens, H!api
<1>2. CASE H!RunStep(c)
  BY <1>2 DEF H!RunStep, H!Repeats, H!BeginEpisode, H!Record, H!Finish, H!Complete, H!Refused,
      H!Cancelled, H!Look, H!Read, H!Judge, H!Write, H!Bundle, H!api
<1>3. QED BY <1>1, <1>2

LEMMA HTypeNext == H!TypeOK /\ [H!Next]_(H!vars) => H!TypeOK'
<1> SUFFICES ASSUME H!TypeOK, [H!Next]_(H!vars) PROVE H!TypeOK'
  OBVIOUS
<1> USE DEF H!TypeOK
<1>1. ASSUME NEW r \in Run, H!ApiStep(r) PROVE H!TypeOK'
  <2>1. asked' \in [Run -> SUBSET H!Kind]
    <3>1. {"exact"} \subseteq H!Kind /\ {"bypass"} \subseteq H!Kind
      BY DEF H!Kind
    <3>2. \A kinds \in H!Requestable : kinds \subseteq H!Kind
      BY DEF H!Requestable
    <3>3. QED BY <1>1, <3>1, <3>2 DEF H!ApiStep, H!AskHardening, H!AskReplay, H!CreateRun,
        H!LoseRequest, H!AskBundle, H!api
  <2>2. UNCHANGED <<child, cancel, H!workers>> /\ bundled' \in [Run -> BOOLEAN]
    BY <1>1, ApiKeeps
  <2>3. request' \in [Run -> H!Request] /\ row' \in [Run -> H!RunStatus]
    BY <1>1 DEF H!ApiStep, H!AskHardening, H!AskReplay, H!CreateRun, H!LoseRequest, H!AskBundle,
        H!api, H!Request, H!RunStatus
  <2>4. finding' \in [status : H!FindingStatus, policy : SUBSET Run]
    BY <1>1 DEF H!ApiStep, H!AskHardening, H!AskReplay, H!CreateRun, H!LoseRequest, H!AskBundle,
        H!api, H!Associate, H!FindingStatus
  <2>5. QED BY <2>1, <2>2, <2>3, <2>4 DEF H!workers
<1>2. ASSUME NEW c \in H!Child, H!CreateChild(c) \/ H!QueueStep(c) \/ H!CancelStep(c) PROVE H!TypeOK'
  <2> USE DEF H!Place, H!ChildStatus, H!TerminalCampaign
  <2>1. CASE H!CreateChild(c)
    BY <2>1 DEF H!CreateChild, H!workers, H!api
  <2>2. CASE H!Claim(c)
    BY <2>2 DEF H!Claim, H!Goto, H!Running, H!api, H!hardening
  <2>3. CASE H!Dropped(c) \/ H!CancelWrites(c) \/ H!Reopens(c)
    BY <2>3 DEF H!Dropped, H!CancelWrites, H!Reopens, H!workers, H!api, H!hardening
  <2>4. CASE H!Dies(c)
    BY <2>4 DEF H!Dies, H!Goto, H!api, H!hardening
  <2>5. CASE H!AskCancel(c)
    BY <2>5 DEF H!AskCancel, H!workers, H!api, H!hardening
  <2>6. QED BY <1>2, <2>1, <2>2, <2>3, <2>4, <2>5 DEF H!QueueStep, H!CancelStep
<1>3. ASSUME NEW c \in H!Child, H!RunStep(c) PROVE H!TypeOK'
  <2>1. CASE H!Repeats(c) \/ H!BeginEpisode(c) \/ H!Finish(c)
    <3>1. "episode" \in H!Fact
      BY DEF H!Fact
    <3>2. pc' \in [H!Child -> H!Place]
      BY <2>1 DEF H!Repeats, H!BeginEpisode, H!Finish, H!Goto, H!Place, H!Running
    <3>3. evidence' \in [H!Child -> SUBSET H!Fact]
      BY <2>1, <3>1 DEF H!Repeats, H!BeginEpisode, H!Finish
    <3>4. QED BY <2>1, <3>2, <3>3 DEF H!Repeats, H!BeginEpisode, H!Finish, H!api, H!hardening
  <2>2. CASE H!Record(c)
    BY <2>2, FactsAreFacts DEF H!Record, H!Goto, H!Place, H!Running, H!api, H!hardening
  <2>3. CASE H!Complete(c) \/ H!Refused(c) \/ H!Cancelled(c)
    BY <2>3 DEF H!Complete, H!Refused, H!Cancelled, H!Goto, H!Place, H!ChildStatus, H!TerminalCampaign,
        H!api, H!hardening
  <2>4. CASE H!Look(c)
    <3>1. H!Unread \in [H!Kind -> H!ChildStatus]
      BY DEF H!Unread, H!ChildStatus
    <3>2. QED BY <2>4, <3>1 DEF H!Look, H!Goto, H!Place, H!api, H!hardening
  <2>5. CASE H!Read(c)
    <3>1. H!ToRead(c) \subseteq H!Kind
      BY RunOfChild DEF H!ToRead
    <3>2. PICK k \in H!Kind : statuses' = [statuses EXCEPT ![c][k] = child[<<H!RunOf(c), k>>]]
      BY <2>5, <3>1 DEF H!Read
    <3>3. child[<<H!RunOf(c), k>>] \in H!ChildStatus
      BY RunOfChild, ChildOfRun
    <3>4. statuses' \in [H!Child -> [H!Kind -> H!ChildStatus]]
      BY <3>2, <3>3
    <3>5. QED BY <2>5, <3>4 DEF H!Read, H!api, H!hardening
  <2>6. CASE H!Judge(c)
    <3>1. H!Verdict(H!RunOf(c), statuses[c]) \in H!Judged
      BY RunOfChild, VerdictIsJudged
    <3>2. verdict' \in [H!Child -> H!Judged]
      BY <2>6, <3>1 DEF H!Judge
    <3>3. pc' \in [H!Child -> H!Place]
      BY <2>6 DEF H!Judge, H!Goto, H!Place
    <3>4. QED BY <2>6, <3>2, <3>3 DEF H!Judge, H!api, H!hardening
  <2>7. CASE H!Write(c)
    <3>1. \A v \in H!Judged : H!FindingAfter[v] \in H!FindingStatus
      BY DEF H!FindingAfter, H!FindingStatus, H!Judged
    <3>2. QED BY <2>7, <3>1, RunOfChild DEF H!Write, H!Goto, H!Place, H!RunStatus, H!api
  <2>8. CASE H!Bundle(c)
    BY <2>8, RunOfChild DEF H!Bundle, H!Goto, H!Place, H!api
  <2>9. QED BY <1>3, <2>1, <2>2, <2>3, <2>4, <2>5, <2>6, <2>7, <2>8 DEF H!RunStep
<1>4. CASE UNCHANGED H!vars
  BY <1>4 DEF H!vars
<1>5. QED BY <1>1, <1>2, <1>3, <1>4 DEF H!Next

-----------------------------------------------------------------------------
(* What one child's step leaves of the others, and of the child itself.    *)

LEMMA OthersStay ==
  ASSUME H!TypeOK, NEW c \in H!Child,
         H!CreateChild(c) \/ H!QueueStep(c) \/ H!RunStep(c) \/ H!CancelStep(c)
  PROVE  \A d \in H!Child : d # c =>
           /\ child'[d] = child[d] /\ cancel'[d] = cancel[d] /\ evidence'[d] = evidence[d]
           /\ pc'[d] = pc[d] /\ statuses'[d] = statuses[d] /\ verdict'[d] = verdict[d]
<1> USE DEF H!TypeOK
<1>1. CASE H!CreateChild(c) \/ H!QueueStep(c) \/ H!CancelStep(c)
  BY <1>1 DEF H!CreateChild, H!QueueStep, H!Claim, H!Dropped, H!Dies, H!CancelStep, H!AskCancel,
      H!CancelWrites, H!Reopens, H!Goto, H!workers
<1>2. CASE H!Repeats(c) \/ H!BeginEpisode(c) \/ H!Record(c) \/ H!Finish(c) \/ H!Complete(c)
  BY <1>2 DEF H!Repeats, H!BeginEpisode, H!Record, H!Finish, H!Complete, H!Goto
<1>3. CASE H!Refused(c) \/ H!Cancelled(c) \/ H!Look(c) \/ H!Judge(c) \/ H!Write(c) \/ H!Bundle(c)
  BY <1>3 DEF H!Refused, H!Cancelled, H!Look, H!Judge, H!Write, H!Bundle, H!Goto
<1>4. CASE H!Read(c)
  <2>1. UNCHANGED <<child, cancel, evidence, pc, verdict>>
    BY <1>4 DEF H!Read
  <2>2. \A d \in H!Child : d # c => statuses'[d] = statuses[d]
    BY <1>4 DEF H!Read
  <2>3. QED BY <2>1, <2>2
<1>5. QED BY <1>1, <1>2, <1>3, <1>4 DEF H!RunStep

\* A child that is over and left is not worked on, and comes back to no queue.
LEMMA GoneStays ==
  ASSUME H!TypeOK, LeftWhenOver, NEW c \in H!Child, Gone(c),
         H!CreateChild(c) \/ H!QueueStep(c) \/ H!RunStep(c) \/ H!CancelStep(c)
  PROVE  /\ Gone(c)' /\ evidence'[c] = evidence[c]
         /\ cancel[c] = "none" => cancel'[c] = "none" /\ child'[c] = child[c]
<1> USE DEF H!TypeOK, Gone
<1>1. CASE H!CreateChild(c) \/ H!QueueStep(c)
  BY <1>1 DEF H!CreateChild, H!Missing, H!QueueStep, H!Claim, H!Dropped, H!NotOver, H!Dies, H!Goto,
      H!workers, LeftWhenOver, H!Running
<1>2. CASE H!CancelStep(c)
  BY <1>2 DEF H!CancelStep, H!AskCancel, H!CancelWrites, H!Reopens, H!NotOver, H!workers,
      LeftWhenOver, H!Running
<1>3. CASE H!RunStep(c)
  <2>1. pc'[c] \notin H!Running
    BY <1>3 DEF H!RunStep, H!Repeats, H!BeginEpisode, H!Record, H!Finish, H!Complete, H!Refused,
        H!Cancelled, H!Look, H!Read, H!Judge, H!Write, H!Bundle, H!Goto, H!Running
  <2>2. UNCHANGED <<child, cancel, evidence>>
    BY <1>3 DEF H!RunStep, H!Repeats, H!BeginEpisode, H!Record, H!Finish, H!Complete, H!Refused,
        H!Cancelled, H!Look, H!Read, H!Judge, H!Write, H!Bundle, H!Running
  <2>3. QED BY <2>1, <2>2
<1>4. QED BY <1>1, <1>2, <1>3

LEMMA CancelStays ==
  ASSUME H!TypeOK, NEW c \in H!Child, cancel[c] # "none",
         H!CreateChild(c) \/ H!QueueStep(c) \/ H!RunStep(c) \/ H!CancelStep(c)
  PROVE  cancel'[c] # "none"
<1>1. UNCHANGED cancel \/ H!CancelWrites(c) \/ H!AskCancel(c)
  BY DEF H!CreateChild, H!QueueStep, H!Claim, H!Dropped, H!Dies, H!CancelStep, H!Reopens, H!RunStep,
      H!Repeats, H!BeginEpisode, H!Record, H!Finish, H!Complete, H!Refused, H!Cancelled, H!Look,
      H!Read, H!Judge, H!Write, H!Bundle
<1>2. QED BY <1>1 DEF H!TypeOK, H!CancelWrites, H!AskCancel

LEMMA LeftWhenOverNext ==
  ASSUME H!TypeOK, LeftWhenOver, [H!Next]_(H!vars)
  PROVE  LeftWhenOver'
<1> USE DEF H!TypeOK, LeftWhenOver
<1>1. ASSUME NEW r \in Run, H!ApiStep(r) PROVE LeftWhenOver'
  BY <1>1, ApiKeeps DEF H!workers
<1>2. ASSUME NEW c \in H!Child, H!CreateChild(c) \/ H!QueueStep(c) \/ H!RunStep(c) \/ H!CancelStep(c)
      PROVE  LeftWhenOver'
  <2>1. /\ child'[c] = "COMPLETED" => pc'[c] \notin H!Running
        /\ cancel'[c] = "none" => child'[c] # "CANCELLING" /\ (pc'[c] \in H!Running => child'[c] = "open")
    <3> USE DEF H!Running
    <3>1. CASE H!CreateChild(c)
      BY <3>1 DEF H!CreateChild, H!Missing, H!workers
    <3>2. CASE H!QueueStep(c)
      BY <3>2 DEF H!QueueStep, H!Claim, H!Dropped, H!NotOver, H!Dies, H!Goto, H!workers
    <3>3. CASE H!CancelStep(c)
      BY <3>3 DEF H!CancelStep, H!AskCancel, H!CancelWrites, H!Reopens, H!NotOver, H!workers
    <3>4. CASE H!Repeats(c) \/ H!BeginEpisode(c) \/ H!Record(c) \/ H!Finish(c)
      BY <3>4 DEF H!Repeats, H!BeginEpisode, H!Record, H!Finish, H!Goto
    <3>5. CASE H!Complete(c) \/ H!Refused(c) \/ H!Cancelled(c)
      BY <3>5 DEF H!Complete, H!Refused, H!Cancelled, H!NotOver, H!Goto
    <3>6. CASE H!Look(c) \/ H!Read(c) \/ H!Judge(c) \/ H!Write(c) \/ H!Bundle(c)
      BY <3>6 DEF H!Look, H!Read, H!Judge, H!Write, H!Bundle, H!Goto
    <3>7. QED BY <1>2, <3>1, <3>2, <3>3, <3>4, <3>5, <3>6 DEF H!RunStep
  <2>2. QED BY <1>2, <2>1, OthersStay
<1>3. CASE UNCHANGED H!vars
  BY <1>3 DEF H!vars
<1>4. QED BY <1>1, <1>2, <1>3 DEF H!Next

-----------------------------------------------------------------------------
(* What is over and left stays as it is.                                   *)

Frozen ==
  /\ \A r \in Run : request[r] = "answered" => request'[r] = "answered" /\ asked'[r] = asked[r]
  /\ \A c \in H!Child : cancel[c] # "none" => cancel'[c] # "none"
  /\ \A c \in H!Child : Gone(c) =>
       /\ Gone(c)' /\ evidence'[c] = evidence[c]
       /\ cancel[c] = "none" => cancel'[c] = "none" /\ child'[c] = child[c]

LEMMA StepFreezes == H!TypeOK /\ LeftWhenOver /\ [H!Next]_(H!vars) => Frozen
<1> SUFFICES ASSUME H!TypeOK, LeftWhenOver, [H!Next]_(H!vars) PROVE Frozen
  OBVIOUS
<1>1. ASSUME NEW r \in Run, H!ApiStep(r) PROVE Frozen
  <2>1. \A q \in Run : request[q] = "answered" => request'[q] = "answered" /\ asked'[q] = asked[q]
    BY <1>1 DEF H!TypeOK, H!ApiStep, H!AskHardening, H!AskReplay, H!CreateRun, H!LoseRequest,
        H!AskBundle, H!api
  <2>2. QED BY <1>1, <2>1, ApiKeeps DEF Frozen, Gone, H!workers
<1>2. ASSUME NEW c \in H!Child, H!CreateChild(c) \/ H!QueueStep(c) \/ H!RunStep(c) \/ H!CancelStep(c)
      PROVE  Frozen
  <2>1. UNCHANGED <<request, asked>>
    BY <1>2, ChildKeeps
  <2>2. ASSUME NEW d \in H!Child, cancel[d] # "none" PROVE cancel'[d] # "none"
    <3>1. CASE d = c
      BY <1>2, <2>2, <3>1, CancelStays
    <3>2. CASE d # c
      BY <1>2, <2>2, <3>2, OthersStay
    <3>3. QED BY <3>1, <3>2
  <2>3. ASSUME NEW d \in H!Child, Gone(d)
        PROVE  /\ Gone(d)' /\ evidence'[d] = evidence[d]
               /\ cancel[d] = "none" => cancel'[d] = "none" /\ child'[d] = child[d]
    <3>1. CASE d = c
      BY <1>2, <2>3, <3>1, GoneStays
    <3>2. CASE d # c
      BY <1>2, <2>3, <3>2, OthersStay DEF Gone
    <3>3. QED BY <3>1, <3>2
  <2>4. QED BY <2>1, <2>2, <2>3 DEF Frozen
<1>3. CASE UNCHANGED H!vars
  BY <1>3 DEF H!vars, Frozen, Gone
<1>4. QED BY <1>1, <1>2, <1>3 DEF H!Next

LEMMA IsSoFrozen ==
  ASSUME NEW c \in H!Child, NEW status, Frozen, IsSo(c, status)
  PROVE  IsSo(c, status)'
<1>1. cancel'[c] = "none" => cancel[c] = "none"
  BY DEF Frozen
<1>2. Gone(c) => Gone(c)' /\ (cancel[c] = "none" => child'[c] = child[c])
  BY DEF Frozen
<1>3. CASE cancel[c] = "none"
  BY <1>1, <1>2, <1>3 DEF IsSo, Stays
<1>4. CASE cancel[c] # "none"
  BY <1>1, <1>2, <1>4 DEF IsSo, Stays
<1>5. QED BY <1>3, <1>4

LEMMA ChildrenFrozen ==
  ASSUME NEW r \in Run, AnsweredFirst, Frozen, row[r] # "none"
  PROVE  asked'[r] = asked[r] /\ H!Children(r)' = H!Children(r)
BY DEF AnsweredFirst, Frozen, H!Children

\* What a verdict follows from, for children that stay as they are.
LEMMA SameVerdict ==
  ASSUME H!TypeOK, NEW r \in Run, NEW status, asked'[r] = asked[r], H!Children(r)' = H!Children(r),
         \A c \in H!Children(r) : evidence'[c] = evidence[c]
  PROVE  H!Verdict(r, status)' = H!Verdict(r, status)
<1>1. H!AllCompleted(r, status)' <=> H!AllCompleted(r, status)
  BY DEF H!AllCompleted
<1>2. \A c \in H!Children(r) : H!Proved(c)' <=> H!Proved(c)
  BY DEF H!Proved, H!ExactProved, H!BypassProved, H!BenignProved
<1>3. H!Bypassed(r)' <=> H!Bypassed(r)
  BY DEF H!Bypassed
<1>4. QED BY <1>1, <1>2, <1>3 DEF H!Verdict

LEMMA SettledFrozen ==
  ASSUME H!TypeOK, NEW r \in Run, NEW v, AnsweredFirst, Frozen, Settled(r, v), row'[r] # "none"
  PROVE  Settled(r, v)'
<1>1. asked'[r] = asked[r] /\ H!Children(r)' = H!Children(r)
  BY ChildrenFrozen DEF Settled
<1>2. \A c \in H!Children(r) : c \in H!Child
  BY DEF H!Children
<1>3. ASSUME v = "PASSED", NEW c \in H!Children(r) PROVE (Gone(c) /\ Stays(c) /\ H!Proved(c))'
  <2>1. Gone(c) /\ Stays(c) /\ H!Proved(c)
    BY <1>3 DEF Settled
  <2>2. Gone(c)' /\ evidence'[c] = evidence[c] /\ Stays(c)'
    BY <2>1, <1>2 DEF Frozen, Stays
  <2>3. QED BY <2>1, <2>2 DEF H!Proved, H!ExactProved, H!BypassProved, H!BenignProved
<1>4. \/ Excused(r)'
      \/ v = H!Verdict(r, Statuses(r))' /\ \A c \in H!Children(r)' : Gone(c)'
  <2>1. CASE Excused(r)
    <3>1. PICK c \in H!Children(r) : cancel[c] # "none"
      BY <2>1 DEF Excused
    <3>2. cancel'[c] # "none" /\ c \in H!Children(r)'
      BY <3>1, <1>1, <1>2 DEF Frozen
    <3>3. QED BY <3>2 DEF Excused
  <2>2. CASE ~ Excused(r)
    <3>1. v = H!Verdict(r, Statuses(r)) /\ \A c \in H!Children(r) : Gone(c) /\ cancel[c] = "none"
      BY <2>2 DEF Settled, Excused
    <3>2. \A c \in H!Children(r) : Gone(c)' /\ child'[c] = child[c] /\ evidence'[c] = evidence[c]
      BY <3>1, <1>2 DEF Frozen
    <3>3. PICK status : status = [k \in H!Kind |-> IF k \in asked[r] THEN child[<<r, k>>] ELSE "none"]
      OBVIOUS
    <3>4. H!Verdict(r, Statuses(r)) = H!Verdict(r, status)
      <4>1. \A k \in asked[r] : k \in H!Kind /\ Statuses(r)[k] = status[k]
        BY <3>3, ChildrenAre DEF Statuses
      <4>2. QED BY <4>1 DEF H!Verdict, H!AllCompleted
    <3>5. H!Verdict(r, Statuses(r))' = H!Verdict(r, status)'
      <4>1. \A k \in asked[r] : k \in H!Kind /\ Statuses(r)'[k] = status[k]
        BY <3>2, <3>3, ChildrenAre DEF Statuses
      <4>2. QED BY <4>1, <1>1 DEF H!Verdict, H!AllCompleted
    <3>6. H!Verdict(r, status)' = H!Verdict(r, status)
      BY <1>1, <3>2, SameVerdict
    <3>7. QED BY <1>1, <3>1, <3>2, <3>4, <3>5, <3>6
  <2>3. QED BY <2>1, <2>2
<1>5. QED BY <1>1, <1>3, <1>4 DEF Settled

-----------------------------------------------------------------------------
LEMMA HInvInit == H!Init => HInv
<1> SUFFICES ASSUME H!Init PROVE HInv
  OBVIOUS
<1>1. H!TypeOK
  BY HTypeInit
<1>2. \A c \in H!Child : pc[c] = "idle" /\ child[c] = "none"
  BY DEF H!Init
<1>3. \A r \in Run : row[r] = "none"
  BY DEF H!Init
<1>4. QED BY <1>1, <1>2, <1>3
          DEF HInv, AnsweredFirst, LeftWhenOver, Looking, ReadIsSo, WritesTheVerdict, HasTheVerdict,
              H!Judged, H!Running

\* Rows appear when their request is answered, and keep being there.
LEMMA RowsStay ==
  ASSUME HInv, [H!Next]_(H!vars)
  PROVE  /\ \A r \in Run : row[r] # "none" => row'[r] # "none"
         /\ AnsweredFirst'
<1> USE DEF HInv, H!TypeOK
<1>1. ASSUME NEW r \in Run, H!ApiStep(r)
      PROVE  /\ \A q \in Run : row[q] # "none" => row'[q] # "none"
             /\ AnsweredFirst'
  BY <1>1 DEF AnsweredFirst, H!ApiStep, H!AskHardening, H!AskReplay, H!CreateRun, H!LoseRequest,
      H!AskBundle, H!api
<1>2. ASSUME NEW c \in H!Child, H!CreateChild(c) \/ H!QueueStep(c) \/ H!RunStep(c) \/ H!CancelStep(c)
      PROVE  /\ \A q \in Run : row[q] # "none" => row'[q] # "none"
             /\ AnsweredFirst'
  <2>1. UNCHANGED <<request, asked>>
    BY <1>2, ChildKeeps
  <2>2. CASE H!Write(c)
    BY <2>1, <2>2, RunOfChild DEF H!Write, AnsweredFirst, WritesTheVerdict, Settled, H!Judged
  <2>3. CASE ~ H!Write(c)
    <3>1. UNCHANGED row
      BY <1>2, <2>3 DEF H!CreateChild, H!QueueStep, H!Claim, H!Dropped, H!Dies, H!CancelStep,
          H!AskCancel, H!CancelWrites, H!Reopens, H!RunStep, H!Repeats, H!BeginEpisode, H!Record,
          H!Finish, H!Complete, H!Refused, H!Cancelled, H!Look, H!Read, H!Judge, H!Bundle,
          H!hardening
    <3>2. QED BY <2>1, <3>1 DEF AnsweredFirst
  <2>4. QED BY <2>2, <2>3
<1>3. CASE UNCHANGED H!vars
  BY <1>3 DEF H!vars, AnsweredFirst
<1>4. QED BY <1>1, <1>2, <1>3 DEF H!Next, AnsweredFirst

\* Who looks at a run now did so before, or has found it just now; what it has
\* read of its children it had read before, or reads just now.
LEMMA LookingNext ==
  ASSUME HInv, [H!Next]_(H!vars)
  PROVE  Looking'
<1> USE DEF HInv, H!TypeOK
<1>1. \A r \in Run : row[r] # "none" => row'[r] # "none"
  BY RowsStay
<1>2. ASSUME NEW c \in H!Child, pc'[c] = "look" PROVE pc[c] = "look" \/ row[H!RunOf(c)] = "PENDING"
  <2>1. ASSUME NEW r \in Run, H!ApiStep(r) PROVE pc[c] = "look"
    BY <1>2, <2>1, ApiKeeps DEF H!workers
  <2>2. ASSUME NEW d \in H!Child, d # c,
               H!CreateChild(d) \/ H!QueueStep(d) \/ H!RunStep(d) \/ H!CancelStep(d)
        PROVE  pc[c] = "look"
    BY <1>2, <2>2, OthersStay
  <2>3. CASE H!CreateChild(c) \/ H!QueueStep(c) \/ H!CancelStep(c)
    BY <1>2, <2>3 DEF H!CreateChild, H!QueueStep, H!Claim, H!Dropped, H!Dies, H!CancelStep,
        H!AskCancel, H!CancelWrites, H!Reopens, H!Goto, H!workers
  <2>4. CASE H!RunStep(c)
    BY <1>2, <2>4 DEF H!RunStep, H!Repeats, H!BeginEpisode, H!Record, H!Finish, H!Complete,
        H!Refused, H!Cancelled, H!Look, H!Read, H!Judge, H!Write, H!Bundle, H!Goto
  <2>5. CASE UNCHANGED H!vars
    BY <1>2, <2>5 DEF H!vars
  <2>6. QED BY <2>1, <2>2, <2>3, <2>4, <2>5 DEF H!Next
<1>3. QED BY <1>1, <1>2, RunOfChild DEF Looking

\* What a worker reads of a child just now.
LEMMA ReadNow ==
  ASSUME LeftWhenOver, NEW c \in H!Child, child[c] \in H!TerminalCampaign
  PROVE  IsSo(c, child[c])
BY DEF IsSo, Gone, Stays, LeftWhenOver, H!TerminalCampaign

LEMMA ReadIsSoNext ==
  ASSUME HInv, [H!Next]_(H!vars)
  PROVE  ReadIsSo'
<1> USE DEF HInv, H!TypeOK
<1>1. Frozen
  BY StepFreezes
<1>2. ASSUME NEW c \in H!Child, pc'[c] = "look", NEW k \in asked'[H!RunOf(c)],
             statuses'[c][k] \in H!TerminalCampaign
      PROVE  IsSo(<<H!RunOf(c), k>>, statuses[c][k])'
  <2> DEFINE d == <<H!RunOf(c), k>>
  <2>1. H!RunOf(c) \in Run
    BY RunOfChild
  <2>2. CASE pc[c] = "look" /\ statuses'[c][k] = statuses[c][k]
    <3>1. row[H!RunOf(c)] # "none"
      BY <2>2 DEF Looking
    <3>2. k \in asked[H!RunOf(c)] /\ d \in H!Child
      BY <3>1, <1>1, <1>2, <2>1, ChildrenFrozen, ChildOfRun
    <3>3. IsSo(d, statuses[c][k])
      BY <1>2, <2>2, <3>2 DEF ReadIsSo
    <3>4. \A status : IsSo(d, status) => IsSo(d, status)'
      BY <1>1, <3>2, IsSoFrozen
    <3>5. QED BY <2>2, <3>3, <3>4 DEF IsSo
  <2>3. CASE ~ (pc[c] = "look" /\ statuses'[c][k] = statuses[c][k])
    <3>1. H!Look(c) \/ H!Read(c)
      <4>1. ASSUME NEW r \in Run, H!ApiStep(r) PROVE FALSE
        BY <1>2, <2>3, <4>1, ApiKeeps DEF H!workers
      <4>2. ASSUME NEW e \in H!Child, e # c,
                   H!CreateChild(e) \/ H!QueueStep(e) \/ H!RunStep(e) \/ H!CancelStep(e)
            PROVE  FALSE
        BY <1>2, <2>3, <4>2, OthersStay
      <4>3. ASSUME H!CreateChild(c) \/ H!QueueStep(c) \/ H!CancelStep(c) PROVE FALSE
        BY <1>2, <2>3, <4>3 DEF H!CreateChild, H!QueueStep, H!Claim, H!Dropped, H!Dies, H!CancelStep,
            H!AskCancel, H!CancelWrites, H!Reopens, H!Goto, H!workers
      <4>4. ASSUME H!RunStep(c), ~ H!Look(c), ~ H!Read(c) PROVE FALSE
        BY <1>2, <2>3, <4>4 DEF H!RunStep, H!Repeats, H!BeginEpisode, H!Record, H!Finish, H!Complete,
            H!Refused, H!Cancelled, H!Judge, H!Write, H!Bundle, H!Goto
      <4>5. ASSUME UNCHANGED H!vars PROVE FALSE
        BY <1>2, <2>3, <4>5 DEF H!vars
      <4>6. QED BY <4>1, <4>2, <4>3, <4>4, <4>5 DEF H!Next
    <3>2. ~ H!Look(c)
      <4>1. SUFFICES ASSUME H!Look(c) PROVE FALSE
        OBVIOUS
      <4>2. statuses'[c] = H!Unread /\ UNCHANGED asked
        BY <4>1 DEF H!Look, H!api
      <4>3. k \in H!Kind
        BY <1>2, <2>1, <4>2
      <4>4. QED BY <1>2, <4>2, <4>3 DEF H!Unread, H!TerminalCampaign
    <3>3. UNCHANGED <<asked, child, cancel, pc>> /\ pc[c] = "look"
      BY <3>1, <3>2 DEF H!Read, H!api
    <3>4. statuses'[c][k] = child[d]
      <4>1. PICK l \in H!ToRead(c) : statuses' = [statuses EXCEPT ![c][l] = child[<<H!RunOf(c), l>>]]
        BY <3>1, <3>2 DEF H!Read
      <4>2. l \in H!Kind /\ k \in H!Kind
        BY <1>2, <2>1, <3>3 DEF H!ToRead
      <4>3. l = k
        BY <2>3, <3>3, <4>1, <4>2
      <4>4. QED BY <4>1, <4>2, <4>3
    <3>5. d \in H!Child
      BY <1>2, <2>1, <3>3, ChildOfRun
    <3>6. IsSo(d, child[d])
      BY <1>2, <3>4, <3>5, ReadNow
    <3>7. QED BY <3>3, <3>4, <3>6 DEF IsSo, Gone, Stays
  <2>4. QED BY <2>2, <2>3
<1>3. QED BY <1>2 DEF ReadIsSo

\* A worker about to write was about to write before, or has judged just now.
LEMMA JudgedNow ==
  ASSUME HInv, NEW c \in H!Child, H!Judge(c), pc'[c] = "write"
  PROVE  Settled(H!RunOf(c), verdict[c])'
<1> DEFINE r == H!RunOf(c)
<1> USE DEF HInv
<1>1. r \in Run /\ pc[c] = "look" /\ row[r] # "none"
  BY RunOfChild DEF H!Judge, Looking
<1>2. UNCHANGED <<asked, row, child, cancel, evidence>> /\ UNCHANGED statuses
  BY DEF H!Judge, H!api, H!hardening
<1>3. H!Over(r, statuses[c]) /\ verdict'[c] = H!Verdict(r, statuses[c])
  BY DEF H!Judge, H!Goto, H!TypeOK
<1>4. \A d \in H!Child : pc'[d] \in H!Running => pc[d] \in H!Running
  BY DEF H!Judge, H!Goto, H!TypeOK, H!Running
<1>5. \A k \in asked[r] : k \in H!Kind /\ <<r, k>> \in H!Children(r) /\ IsSo(<<r, k>>, statuses[c][k])
  BY <1>1, <1>3, ChildrenAre DEF ReadIsSo, H!Over
<1>6. \A d \in H!Children(r) : d \in H!Child /\ H!KindOf(d) \in asked[r] /\ d = <<r, H!KindOf(d)>>
  BY <1>1, ChildrenAre
<1>7. \/ Excused(r)
      \/ verdict'[c] = H!Verdict(r, Statuses(r)) /\ \A d \in H!Children(r) : Gone(d)
  <2>1. SUFFICES ASSUME ~ Excused(r)
                 PROVE  verdict'[c] = H!Verdict(r, Statuses(r)) /\ \A d \in H!Children(r) : Gone(d)
    OBVIOUS
  <2>2. \A k \in asked[r] : Gone(<<r, k>>) /\ Statuses(r)[k] = statuses[c][k]
    BY <1>5, <2>1 DEF IsSo, Excused, Statuses
  <2>3. H!Verdict(r, Statuses(r)) = H!Verdict(r, statuses[c])
    BY <2>2 DEF H!Verdict, H!AllCompleted
  <2>4. \A d \in H!Children(r) : Gone(d)
    BY <1>6, <2>2
  <2>5. QED BY <1>3, <2>3, <2>4
<1>8. ASSUME verdict'[c] = "PASSED", NEW d \in H!Children(r)
      PROVE  Gone(d) /\ Stays(d) /\ H!Proved(d)
  <2>1. H!AllCompleted(r, statuses[c]) /\ \A e \in H!Children(r) : H!Proved(e)
    BY <1>3, <1>8 DEF H!Verdict
  <2>2. statuses[c][H!KindOf(d)] = "COMPLETED" /\ IsSo(<<r, H!KindOf(d)>>, statuses[c][H!KindOf(d)])
    BY <1>5, <1>6, <1>8, <2>1 DEF H!AllCompleted
  <2>3. d = <<r, H!KindOf(d)>>
    BY <1>6, <1>8
  <2>4. Gone(d) /\ Stays(d)
    BY <2>2, <2>3 DEF IsSo
  <2>5. QED BY <1>8, <2>1, <2>4
<1>9. Settled(r, verdict'[c])
  BY <1>1, <1>7, <1>8 DEF Settled
<1>10. \A d \in H!Child : Gone(d) => Gone(d)'
  BY <1>2, <1>4 DEF Gone
<1>11. H!Children(r)' = H!Children(r)
  BY <1>2 DEF H!Children
<1>12. \A d \in H!Children(r) : (Gone(d) => Gone(d)') /\ (Stays(d) => Stays(d)') /\ (H!Proved(d) => H!Proved(d)')
  BY <1>2, <1>6, <1>10 DEF Stays, H!Proved, H!ExactProved, H!BypassProved, H!BenignProved
<1>13. H!Verdict(r, Statuses(r))' = H!Verdict(r, Statuses(r)) /\ Excused(r)' = Excused(r)
  BY <1>2, <1>11 DEF H!Verdict, Statuses, H!AllCompleted, H!Bypassed, H!Proved, H!ExactProved,
      H!BypassProved, H!BenignProved, Excused
<1>14. \/ Excused(r)'
       \/ (verdict[c] = H!Verdict(r, Statuses(r)) /\ \A d \in H!Children(r) : Gone(d))'
  <2>1. CASE Excused(r)
    BY <2>1, <1>13
  <2>2. CASE verdict'[c] = H!Verdict(r, Statuses(r)) /\ \A d \in H!Children(r) : Gone(d)
    BY <2>2, <1>11, <1>12, <1>13
  <2>3. QED BY <1>7, <2>1, <2>2
<1>15. (verdict[c] = "PASSED" => \A d \in H!Children(r) : Gone(d) /\ Stays(d) /\ H!Proved(d))'
  BY <1>8, <1>11, <1>12
<1>16. row'[r] # "none"
  BY <1>1, <1>2
<1>17. QED BY <1>14, <1>15, <1>16 DEF Settled

LEMMA WritesTheVerdictNext ==
  ASSUME HInv, [H!Next]_(H!vars)
  PROVE  WritesTheVerdict'
<1> USE DEF HInv, H!TypeOK
<1>1. Frozen
  BY StepFreezes
<1>2. \A r \in Run : row[r] # "none" => row'[r] # "none"
  BY RowsStay
<1>3. ASSUME NEW c \in H!Child, pc[c] = "write", verdict'[c] = verdict[c]
      PROVE  Settled(H!RunOf(c), verdict[c])'
  <2>1. Settled(H!RunOf(c), verdict[c])
    BY <1>3 DEF WritesTheVerdict
  <2>2. H!RunOf(c) \in Run /\ row'[H!RunOf(c)] # "none"
    BY <2>1, <1>2, RunOfChild DEF Settled
  <2>3. \A v : Settled(H!RunOf(c), v) => Settled(H!RunOf(c), v)'
    BY <1>1, <2>2, SettledFrozen
  <2>4. QED BY <2>1, <2>3, <1>3 DEF Settled
<1>4. ASSUME NEW c \in H!Child, pc'[c] = "write", ~ (pc[c] = "write" /\ verdict'[c] = verdict[c])
      PROVE  H!Judge(c)
  <2>1. ASSUME NEW r \in Run, H!ApiStep(r) PROVE FALSE
    BY <1>4, <2>1, ApiKeeps DEF H!workers
  <2>2. ASSUME NEW d \in H!Child, d # c,
               H!CreateChild(d) \/ H!QueueStep(d) \/ H!RunStep(d) \/ H!CancelStep(d)
        PROVE  FALSE
    BY <1>4, <2>2, OthersStay
  <2>3. ASSUME H!CreateChild(c) \/ H!QueueStep(c) \/ H!CancelStep(c) PROVE FALSE
    BY <1>4, <2>3 DEF H!CreateChild, H!QueueStep, H!Claim, H!Dropped, H!Dies, H!CancelStep,
        H!AskCancel, H!CancelWrites, H!Reopens, H!Goto, H!workers
  <2>4. ASSUME H!RunStep(c) PROVE H!Judge(c)
    BY <1>4, <2>4 DEF H!RunStep, H!Repeats, H!BeginEpisode, H!Record, H!Finish, H!Complete,
        H!Refused, H!Cancelled, H!Look, H!Read, H!Write, H!Bundle, H!Goto
  <2>5. ASSUME UNCHANGED H!vars PROVE FALSE
    BY <1>4, <2>5 DEF H!vars
  <2>6. QED BY <2>1, <2>2, <2>3, <2>4, <2>5 DEF H!Next
<1>5. ASSUME NEW c \in H!Child, pc'[c] = "write" PROVE Settled(H!RunOf(c), verdict[c])'
  BY <1>3, <1>4, <1>5, JudgedNow
<1>6. QED BY <1>5 DEF WritesTheVerdict

\* A row gets its verdict from a worker that had settled it, and keeps it unless
\* a cancellation excuses the change.
LEMMA HasTheVerdictNext ==
  ASSUME HInv, [H!Next]_(H!vars)
  PROVE  /\ HasTheVerdict'
         /\ \A r \in Run : row[r] \in H!Judged /\ row'[r] # row[r] => Excused(r)
<1> USE DEF HInv
<1>1. Frozen
  BY StepFreezes
<1>2. AnsweredFirst /\ \A r \in Run : row[r] # "none" => row'[r] # "none"
  BY RowsStay
<1>3. ASSUME NEW r \in Run, NEW v, Settled(r, v) PROVE Settled(r, v)'
  <2>1. row'[r] # "none"
    BY <1>2, <1>3 DEF Settled
  <2>2. QED BY <1>1, <1>3, <2>1, SettledFrozen
<1>4. ASSUME NEW r \in Run, row[r] \in H!Judged, row'[r] = row[r] PROVE Settled(r, row[r])'
  <2>1. \A v : Settled(r, v) => Settled(r, v)'
    BY <1>3
  <2>2. QED BY <1>4, <2>1 DEF HasTheVerdict, Settled
<1>5. ASSUME NEW c \in H!Child, H!Write(c)
      PROVE  /\ HasTheVerdict'
             /\ \A r \in Run : row[r] \in H!Judged /\ row'[r] # row[r] => Excused(r)
  <2>1. Settled(H!RunOf(c), verdict[c]) /\ H!RunOf(c) \in Run
    BY <1>5, RunOfChild DEF H!Write, WritesTheVerdict
  <2>2. /\ row'[H!RunOf(c)] = verdict[c]
        /\ \A r \in Run : r # H!RunOf(c) => row'[r] = row[r]
    BY <1>5, <2>1 DEF H!Write, H!TypeOK
  <2>3. \A r \in Run : row[r] \in H!Judged /\ row'[r] # row[r] => Excused(r)
    BY <2>1, <2>2 DEF HasTheVerdict, Settled
  <2>4. Settled(H!RunOf(c), verdict[c])'
    <3>1. \A v : Settled(H!RunOf(c), v) => Settled(H!RunOf(c), v)'
      BY <1>3, <2>1
    <3>2. verdict'[c] = verdict[c]
      BY <1>5 DEF H!Write
    <3>3. QED BY <2>1, <3>1, <3>2 DEF Settled
  <2>5. ASSUME NEW r \in Run, row'[r] \in H!Judged PROVE Settled(r, row[r])'
    <3>1. CASE r = H!RunOf(c)
      <4>1. verdict'[c] = verdict[c]
        BY <1>5 DEF H!Write
      <4>2. QED BY <2>2, <2>4, <3>1, <4>1 DEF Settled
    <3>2. CASE r # H!RunOf(c)
      BY <1>4, <2>2, <2>5, <3>2
    <3>3. QED BY <3>1, <3>2
  <2>6. QED BY <2>3, <2>5 DEF HasTheVerdict
<1>6. ASSUME \A r \in Run : row'[r] # row[r] => row'[r] = "PENDING" /\ row[r] \notin H!Judged
      PROVE  /\ HasTheVerdict'
             /\ \A r \in Run : row[r] \in H!Judged /\ row'[r] # row[r] => Excused(r)
  BY <1>4, <1>6 DEF HasTheVerdict, H!Judged
<1>7. ASSUME ~ (\E c \in H!Child : H!Write(c))
      PROVE  \A r \in Run : row'[r] # row[r] => row'[r] = "PENDING" /\ row[r] \notin H!Judged
  <2>1. ASSUME NEW q \in Run, H!ApiStep(q)
        PROVE  \A r \in Run : row'[r] # row[r] => row'[r] = "PENDING" /\ row[r] \notin H!Judged
    BY <2>1 DEF H!TypeOK, AnsweredFirst, H!ApiStep, H!AskHardening, H!AskReplay, H!CreateRun,
        H!LoseRequest, H!AskBundle, H!api, H!Judged
  <2>2. ASSUME NEW c \in H!Child, H!CreateChild(c) \/ H!QueueStep(c) \/ H!RunStep(c) \/ H!CancelStep(c)
        PROVE  UNCHANGED row
    BY <2>2, <1>7 DEF H!CreateChild, H!QueueStep, H!Claim, H!Dropped, H!Dies, H!CancelStep,
        H!AskCancel, H!CancelWrites, H!Reopens, H!RunStep, H!Repeats, H!BeginEpisode, H!Record,
        H!Finish, H!Complete, H!Refused, H!Cancelled, H!Look, H!Read, H!Judge, H!Bundle,
        H!hardening
  <2>3. CASE UNCHANGED H!vars
    BY <2>3 DEF H!vars
  <2>4. QED BY <2>1, <2>2, <2>3 DEF H!Next
<1>8. QED BY <1>5, <1>6, <1>7

LEMMA HInvNext == HInv /\ [H!Next]_(H!vars) => HInv'
<1> SUFFICES ASSUME HInv, [H!Next]_(H!vars) PROVE HInv'
  OBVIOUS
<1>1. H!TypeOK /\ LeftWhenOver
  BY DEF HInv
<1>2. H!TypeOK' /\ LeftWhenOver'
  BY <1>1, HTypeNext, LeftWhenOverNext
<1>3. AnsweredFirst' /\ Looking' /\ ReadIsSo' /\ WritesTheVerdict' /\ HasTheVerdict'
  BY RowsStay, LookingNext, ReadIsSoNext, WritesTheVerdictNext, HasTheVerdictNext
<1>4. QED BY <1>2, <1>3 DEF HInv

LEMMA HInvAlways == H!Spec => []HInv
BY HInvInit, HInvNext, PTL DEF H!Spec

-----------------------------------------------------------------------------
\* The verdict of a hardening run changes only by a cancellation that had read
\* one of its children while that was open, whichever workers complete the
\* children and however late they write (_finalize_hardening_runs, cancel_campaign).
THEOREM VerdictIsFinalAlways == H!Spec => H!VerdictIsFinal
<1>1. HInv /\ [H!Next]_(H!vars) =>
        [\A r \in Run : row[r] \in H!Judged /\ row'[r] # row[r] =>
           \E c \in H!Children(r) : cancel[c] # "none"]_(H!vars)
  BY HasTheVerdictNext DEF Excused
<1>2. QED BY <1>1, HInvAlways, PTL DEF H!Spec, H!VerdictIsFinal

\* A hardening run that passed had all its children completed, and each of them
\* proved its part and does so still; its status stays COMPLETED unless a
\* cancellation that began before writes over it (_finalize_hardening_runs,
\* _exact_replay_policy_proof, cancel_campaign).
THEOREM PassedIsProvedAlways == H!Spec => []H!PassedIsProved
<1>1. HInv => H!PassedIsProved
  <2> SUFFICES ASSUME HInv, NEW r \in Run, row[r] = "PASSED", NEW c \in H!Children(r)
               PROVE  H!Proved(c) /\ (child[c] = "COMPLETED" \/ cancel[c] # "none")
    BY DEF H!PassedIsProved
  <2>1. Settled(r, "PASSED")
    BY DEF HInv, HasTheVerdict, H!Judged
  <2>2. QED BY <2>1 DEF Settled, Stays
<1>2. QED BY <1>1, HInvAlways, PTL
=============================================================================
