--------------------------- MODULE MCResearchArtifacts ---------------------------
(* Two uploads that do not fit together, and two that do; a dataset that does   *)
(* not fit beside an upload; an evaluation of two pairs, by two runs.           *)
EXTENDS ResearchArtifacts

CONSTANTS u1, u2, u3

MCSize == [u \in Upload |-> IF u = u2 THEN 2 ELSE 1]

\* the first candidate does worse
MCOutcome == [c \in Case |-> {IF c = <<1, "candidate">> THEN "failed" ELSE "completed"}]

MCAsked == {{u1, u2}, {u1, u3}, {u1, "dataset"}, {"evaluation"}}

\* an upload is transferred and completed twice where nothing but it is looked at
MCRequests == [asking \in MCAsked |-> CASE asking = {u1, u2} -> 4 [] asking = {u1, u3} -> 2 [] OTHER -> 1]
================================================================================
