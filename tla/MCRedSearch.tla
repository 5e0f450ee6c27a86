------------------------------ MODULE MCRedSearch ------------------------------
(* Three episodes of two steps, branches two at a time, a beam of one, two    *)
(* attempts; four calls of the attacker's model, so that a second ranking is  *)
(* paid for and a scored prefix replayed; the target may use as much at once. *)
EXTENDS RedSearch

MCChannels == <<"chat", "file">>
Act(channel, text) == [channel |-> channel, text |-> <<text>>, strategy |-> NoStrategy]
Foreign == [channels |-> {"chat"}, depth |-> 0, outcome |-> "foreign"]

MCSource == <<Act("chat", "a"), Act("chat", "b")>>

\* nothing; twice the same; three, one of which names a strategy nobody knows
MCProposals ==
  {<<>>, <<Act("chat", "a"), Act("chat", "a")>>,
   <<Act("chat", "a"), [Act("chat", "b") EXCEPT !.strategy = Foreign], Act("file", "c")>>}

\* the model ranks only the second candidate: none where there is one
MCScores == {[i \in {2} |-> 80]}

Ans(o, r, done, terminal) == [observation |-> o, reward |-> r, done |-> done, terminal |-> terminal]
MCAnswers ==
  {Ans("o1", 40, FALSE, FALSE), Ans("o1", 0, TRUE, FALSE), Ans("o2", 100, TRUE, TRUE)}
================================================================================
