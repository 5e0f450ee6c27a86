------------------------------- MODULE RedActions -------------------------------
(***************************************************************************)
(* What the Red search does with single actions (red.py): mutation,        *)
(* deduplication, the choice of candidates, their ranking and novelty.     *)
(* Operators only.                                                         *)
(*                                                                         *)
(* An action is [channel, text, strategy].  A text is a sequence: the      *)
(* mutations applied to a base, outermost first, and what they take over   *)
(* from the prefix; their wording is left out.  Scores, rewards and        *)
(* novelty are in hundredths.  Two different actions share no words, so    *)
(* the similarity of action tokens is 0.                                   *)
(***************************************************************************)
EXTENDS Integers, Sequences, SequencesExt

CONSTANTS
  Channels,      \* the task's available_channels, a sequence
  Dimensions,    \* MutationConfig.dimensions
  MaxMutations,  \* max_mutations_per_expansion
  Count          \* candidates_per_expansion

ASSUME ActionsAssumption == MaxMutations \in Nat /\ Count \in Nat \ {0}

Fingerprint(action) == [channel |-> action.channel, text |-> action.text]

\* unless it has the fingerprint of one of them
Keep(kept, action) ==
  IF \E i \in DOMAIN kept : Fingerprint(kept[i]) = Fingerprint(action) THEN kept
  ELSE Append(kept, action)

\* the first action of each fingerprint
Deduplicated(actions) == FoldLeft(Keep, <<>>, actions)

FirstOf(s, n) == SubSeq(s, 1, IF n < Len(s) THEN n ELSE Len(s))

\* the positions 1..n sorted by a strict order on them
Sorted(n, Before(_, _)) ==
  CHOOSE p \in [1..n -> 1..n] : \A j, k \in 1..n : j < k => Before(p[j], p[k])

-----------------------------------------------------------------------------
(* MutationEngine.                                                         *)

AllDimensions ==
  <<"rephrase", "change_sequence", "change_channel", "split_action", "combine_prefixes",
    "extend_near_success", "change_timing", "change_role_context">>

OtherChannels(action) == SelectSeq(Channels, LAMBDA c : c # action.channel)

Applies(dimension, action, prefix) ==
  /\ dimension \in Dimensions
  /\ dimension = "change_channel" => OtherChannels(action) # <<>>
  /\ dimension = "combine_prefixes" => prefix # <<>>

Mutated(dimension, action, prefix) ==
  LET previous(n) == FlattenSeq([i \in 1..n |-> prefix[Len(prefix) - n + i].text])
  IN CASE dimension = "change_channel" -> [action EXCEPT !.channel = OtherChannels(action)[1]]
       [] dimension = "change_sequence" ->
            [action EXCEPT !.text = <<dimension>> \o @ \o previous(IF prefix = <<>> THEN 0 ELSE 1)]
       [] dimension = "combine_prefixes" ->
            [action EXCEPT !.text = <<dimension>> \o previous(IF Len(prefix) < 2 THEN 1 ELSE 2) \o @]
       [] OTHER -> [action EXCEPT !.text = <<dimension>> \o @]

\* hinted dimensions first, in the order of the hints
HintRank(dimension, hints) ==
  IF Contains(hints, dimension)
  THEN CHOOSE i \in DOMAIN hints : hints[i] = dimension /\ \A j \in 1..(i - 1) : hints[j] # dimension
  ELSE Len(hints) + 1

Mutations(action, prefix, hints) ==
  LET applied == SelectSeq(AllDimensions, LAMBDA d : Applies(d, action, prefix))
      rank(i) == HintRank(applied[i], hints)
      order == SortSeq([i \in DOMAIN applied |-> i],
                      LAMBDA i, j : rank(i) < rank(j) \/ (rank(i) = rank(j) /\ i < j))
  IN FirstOf(Deduplicated([k \in 1..Len(applied) |-> Mutated(applied[order[k]], action, prefix)]),
             MaxMutations)

-----------------------------------------------------------------------------
(* BestFirstBeamSearch: candidates, ranking, novelty.                      *)

\* half of the slots, and at least one, are for mutations; what is left over fills the rest
Chosen(proposals, mutations) ==
  LET slots == IF Len(mutations) < Count \div 2 THEN Len(mutations)
               ELSE IF Count \div 2 < 1 THEN 1 ELSE Count \div 2
      first == IF slots < Count THEN Count - slots ELSE 0
      rest(s, n) == SubSeq(s, n + 1, Len(s))
  IN IF mutations = <<>> THEN FirstOf(proposals, Count)
     ELSE FirstOf(Deduplicated(FirstOf(proposals, first) \o FirstOf(mutations, slots)
                                 \o rest(proposals, first) \o rest(mutations, slots)), Count)

\* the model's scores, a function of some positions; the others come after them in their order
Ranked(candidates, scores) ==
  LET score(i) == IF i \in DOMAIN scores THEN scores[i] ELSE 50 - i
      order == Sorted(Len(candidates),
                      LAMBDA i, j : score(i) > score(j) \/ (score(i) = score(j) /\ i < j))
  IN [k \in DOMAIN candidates |-> [action |-> candidates[order[k]], score |-> score(order[k])]]

NothingSeen == [actions |-> {}, observations |-> {}]

Novelty(seen, action, observation) ==
  (IF Fingerprint(action) \in seen.actions THEN -25 ELSE 70)
    + (IF observation \in seen.observations THEN 0 ELSE 30)
================================================================================
