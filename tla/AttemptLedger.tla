--------------------------- MODULE AttemptLedger ---------------------------
(***************************************************************************)
(* What the job queue promises to whoever executes a campaign: attempts    *)
(* follow one another, each has one worker, a worker has one campaign, and *)
(* there are at most MaxAttempts of them.  An attempt may end in any way.  *)
(***************************************************************************)
EXTENDS Naturals

CONSTANTS Campaign, Worker, NoWorker, MaxAttempts

VARIABLES
  runner,     \* the worker that executes a campaign, or NoWorker
  attempts    \* attempts begun so far

ledger == <<runner, attempts>>

Init ==
  /\ runner = [c \in Campaign |-> NoWorker]
  /\ attempts = [c \in Campaign |-> 0]

Begin(w, c) ==
  /\ runner[c] = NoWorker
  /\ \A d \in Campaign : runner[d] # w
  /\ attempts[c] < MaxAttempts
  /\ runner' = [runner EXCEPT ![c] = w]
  /\ attempts' = [attempts EXCEPT ![c] = @ + 1]

End(c) ==
  /\ runner[c] # NoWorker
  /\ runner' = [runner EXCEPT ![c] = NoWorker]
  /\ UNCHANGED attempts

Next == \E c \in Campaign : End(c) \/ \E w \in Worker : Begin(w, c)

\* Every attempt ends.
Spec == Init /\ [][Next]_ledger
FairSpec == Spec /\ \A c \in Campaign : WF_ledger(End(c))
=============================================================================
