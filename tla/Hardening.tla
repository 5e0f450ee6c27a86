------------------------------ MODULE Hardening ------------------------------
(***************************************************************************)
(* Hardening runs: a finding is tried again under a policy version, by up  *)
(* to three child campaigns that repeat the attack, search its             *)
(* neighbourhood and repeat benign behaviour.  The API creates the children*)
(* first and the run's row last; whichever worker completes a child then   *)
(* judges the run, if all its children are over.                           *)
(*                                                                         *)
(* A child is claimed, run and ended as CampaignRun describes it: here it  *)
(* is open until it has one of the terminal statuses, and one worker at a  *)
(* time runs it (OneRunner).  A cancellation that read the child while it  *)
(* was open writes whatever the child has become since.  What its episodes *)
(* put on record is reduced to the facts the proofs of the judgement ask   *)
(* for.  All runs are of one finding, each under a policy version of its   *)
(* own.                                                                    *)
(***************************************************************************)
EXTENDS CampaignLifecycle

CONSTANTS
  Run,           \* requests for a hardening run, and the runs they create
  MaxAttempts    \* worker_max_attempts

VARIABLES
  request,   \* how far the API has got with each request
  asked,     \* the kinds of children it asks for
  row,       \* hardening_runs.status
  bundled,   \* whether the row has its artifact_id
  finding,   \* the finding's status, and the run whose policy version it names
  child,     \* campaigns.status of the children
  cancel,    \* whether a cancellation has read the child while it was open,
             \* and whether one has set its cancellation_requested
  attempts,  \* attempts of their jobs
  evidence,  \* what their episodes put on record
  pc,        \* where the worker that runs a child is
  statuses,  \* the statuses of the run's children it has read, "none" for the others
  verdict    \* the status it is about to write

vars == <<request, asked, row, bundled, finding, child, cancel, attempts, evidence, pc, statuses,
          verdict>>

Kind == {"exact", "bypass", "benign"}
Child == Run \X Kind

RunOf(c) == c[1]
KindOf(c) == c[2]

\* An episode, and in it: an effect like the source's that the policy blocked,
\* a step, a finding, the summary of a benign regression.
Fact == {"episode", "block", "step", "finding", "passed", "failed"}

ChildStatus == {"none", "open", "CANCELLING"} \cup TerminalCampaign
Judged == {"PASSED", "BYPASS_FOUND", "FAILED"}
RunStatus == {"none", "PENDING"} \cup Judged
FindingStatus == {"OPEN", "HARDENING", "HARDENED", "BYPASS_FOUND"}
Request == {"new", "children", "answered", "lost"}
Running == {"run", "record", "finish", "complete"}
Place == {"idle", "judge", "look", "write", "bundle"} \cup Running

TypeOK ==
  /\ request \in [Run -> Request]
  /\ asked \in [Run -> SUBSET Kind]
  /\ row \in [Run -> RunStatus]
  /\ bundled \in [Run -> BOOLEAN]
  /\ finding \in [status : FindingStatus, policy : SUBSET Run]
  /\ child \in [Child -> ChildStatus]
  /\ cancel \in [Child -> {"none", "asked", "requested"}]
  /\ attempts \in [Child -> Nat]
  /\ evidence \in [Child -> SUBSET Fact]
  /\ pc \in [Child -> Place]
  /\ statuses \in [Child -> [Kind -> ChildStatus]]
  /\ verdict \in [Child -> Judged]

Unread == [k \in Kind |-> "none"]

Init ==
  /\ request = [r \in Run |-> "new"]
  /\ asked = [r \in Run |-> {}]
  /\ row = [r \in Run |-> "none"]
  /\ bundled = [r \in Run |-> FALSE]
  /\ finding = [status |-> "OPEN", policy |-> {}]
  /\ child = [c \in Child |-> "none"]
  /\ cancel = [c \in Child |-> "none"]
  /\ attempts = [c \in Child |-> 0]
  /\ evidence = [c \in Child |-> {}]
  /\ pc = [c \in Child |-> "idle"]
  /\ statuses = [c \in Child |-> Unread]
  /\ verdict = [c \in Child |-> "FAILED"]

Children(r) == {c \in Child : RunOf(c) = r /\ KindOf(c) \in asked[r]}

Goto(c, place) == pc' = [pc EXCEPT ![c] = place]

api == <<request, asked>>
hardening == <<row, bundled, finding>>
workers == <<attempts, evidence, pc, statuses, verdict>>
-----------------------------------------------------------------------------
(* The API.                                                                *)

\* HardeningCreate asks for at least one check.
Requestable == (SUBSET Kind) \ {{}}

\* associate_finding_policy
Associate(r) == finding' = [status |-> "HARDENING", policy |-> {r}]

\* create_hardening begins.
AskHardening(r) ==
  /\ request[r] = "new"
  /\ \E kinds \in Requestable : asked' = [asked EXCEPT ![r] = kinds]
  /\ Associate(r)
  /\ request' = [request EXCEPT ![r] = "children"]
  /\ UNCHANGED <<row, bundled, child, cancel, workers>>

\* replay_finding under another policy version begins; it asks for one child.
AskReplay(r) ==
  /\ request[r] = "new"
  /\ \E kind \in {"exact", "bypass"} : asked' = [asked EXCEPT ![r] = {kind}]
  /\ Associate(r)
  /\ request' = [request EXCEPT ![r] = "children"]
  /\ UNCHANGED <<row, bundled, child, cancel, workers>>

Missing(r) == {c \in Children(r) : child[c] = "none"}

\* The children are created in this order.
Before(k, l) ==
  \/ k = "exact" /\ l # "exact"
  \/ k = "bypass" /\ l = "benign"

CreateChild(c) ==
  /\ request[RunOf(c)] = "children"
  /\ c \in Missing(RunOf(c))
  /\ \A d \in Missing(RunOf(c)) : ~ Before(KindOf(d), KindOf(c))
  /\ child' = [child EXCEPT ![c] = "open"]
  /\ UNCHANGED <<api, row, bundled, finding, cancel, workers>>

\* create_hardening_run
CreateRun(r) ==
  /\ request[r] = "children"
  /\ Missing(r) = {}
  /\ row' = [row EXCEPT ![r] = "PENDING"]
  /\ finding' = [status |-> "HARDENING", policy |-> {r}]
  /\ request' = [request EXCEPT ![r] = "answered"]
  /\ UNCHANGED <<asked, bundled, child, cancel, workers>>

\* The request is refused half-way, or the API dies: its children stay.
LoseRequest(r) ==
  /\ request[r] = "children"
  /\ request' = [request EXCEPT ![r] = "lost"]
  /\ UNCHANGED <<asked, row, bundled, finding, child, cancel, workers>>
-----------------------------------------------------------------------------
(* cancel_campaign, by any number of clients.                              *)

NotOver(c) == child[c] \in {"open", "CANCELLING"}

AskCancel(c) ==
  /\ NotOver(c)
  /\ cancel[c] = "none"
  /\ cancel' = [cancel EXCEPT ![c] = "asked"]
  /\ UNCHANGED <<api, hardening, child, workers>>

\* What it writes depends on whether it finds a leased job, not on what has
\* become of the child since it was read.
CancelWrites(c) ==
  /\ cancel[c] # "none"
  /\ \E status \in {"CANCELLING", "FAILED"} : child' = [child EXCEPT ![c] = status]
  /\ cancel' = [cancel EXCEPT ![c] = "requested"]
  /\ UNCHANGED <<api, hardening, workers>>
-----------------------------------------------------------------------------
(* The workers that run the children.                                      *)

Claim(c) ==
  /\ pc[c] = "idle"
  /\ child[c] = "open"
  /\ cancel[c] # "requested"
  /\ attempts[c] < MaxAttempts
  /\ attempts' = [attempts EXCEPT ![c] = @ + 1]
  /\ Goto(c, "run")
  /\ UNCHANGED <<api, hardening, child, cancel, evidence, statuses, verdict>>

\* What an episode of a child may put on record.
Facts ==
  [exact |-> SUBSET {"step", "block", "finding"},
   bypass |-> SUBSET {"step", "finding"},
   benign |-> {{"step", "passed"}, {"step", "failed"}}]

\* The row was read before a cancellation wrote it, and VALIDATING, READY or
\* RUNNING is written after that.
Reopens(c) ==
  /\ pc[c] = "run"
  /\ child[c] \in {"CANCELLING", "FAILED"}
  /\ child' = [child EXCEPT ![c] = "open"]
  /\ UNCHANGED <<api, hardening, cancel, workers>>

\* An exact replay and a benign regression are not repeated once an attempt
\* has begun their episode, however far it came; a search goes on.
Repeats(c) ==
  /\ pc[c] = "run"
  /\ "episode" \in evidence[c]
  /\ Goto(c, "finish")
  /\ UNCHANGED <<api, hardening, child, cancel, attempts, evidence, statuses, verdict>>

BeginEpisode(c) ==
  /\ pc[c] = "run"
  /\ "episode" \in evidence[c] => KindOf(c) = "bypass"
  /\ evidence' = [evidence EXCEPT ![c] = @ \cup {"episode"}]
  /\ Goto(c, "record")
  /\ UNCHANGED <<api, hardening, child, cancel, attempts, statuses, verdict>>

Record(c) ==
  /\ pc[c] = "record"
  /\ \E facts \in Facts[KindOf(c)] : evidence' = [evidence EXCEPT ![c] = @ \cup facts]
  /\ Goto(c, "finish")
  /\ UNCHANGED <<api, hardening, child, cancel, attempts, statuses, verdict>>

\* The child is not cancelled when it is looked at last, ...
Finish(c) ==
  /\ pc[c] = "finish"
  /\ cancel[c] # "requested"
  /\ Goto(c, "complete")
  /\ UNCHANGED <<api, hardening, child, cancel, attempts, evidence, statuses, verdict>>

\* ... and COMPLETED may follow CANCELLING.
Complete(c) ==
  /\ pc[c] = "complete"
  /\ child' = [child EXCEPT ![c] = "COMPLETED"]
  /\ Goto(c, "judge")
  /\ UNCHANGED <<api, hardening, cancel, attempts, evidence, statuses, verdict>>

\* The other ends of a child, none of which looks at the hardening run:
\* refused or blocked before its first episode, ...
Refused(c) ==
  /\ pc[c] = "run"
  /\ \E end \in {"REJECTED", "BLOCKED"} : child' = [child EXCEPT ![c] = end]
  /\ Goto(c, "idle")
  /\ UNCHANGED <<api, hardening, cancel, attempts, evidence, statuses, verdict>>

\* ... found cancelled while it runs (_fail_campaign) ...
Cancelled(c) ==
  /\ pc[c] \in Running
  /\ cancel[c] = "requested"
  /\ child' = IF NotOver(c) THEN [child EXCEPT ![c] = "FAILED"] ELSE child
  /\ Goto(c, "idle")
  /\ UNCHANGED <<api, hardening, cancel, attempts, evidence, statuses, verdict>>

\* ... or when it is claimed, or out of attempts.
Dropped(c) ==
  /\ pc[c] = "idle"
  /\ NotOver(c)
  /\ cancel[c] = "requested" \/ attempts[c] = MaxAttempts
  /\ child' = [child EXCEPT ![c] = "FAILED"]
  /\ UNCHANGED <<api, hardening, cancel, workers>>

\* The attempt fails or its worker dies.  A child that is over by then is
\* claimed again to no effect: run returns at once.
Dies(c) ==
  /\ pc[c] # "idle"
  /\ Goto(c, "idle")
  /\ UNCHANGED <<api, hardening, child, cancel, attempts, evidence, statuses, verdict>>
-----------------------------------------------------------------------------
(* _finalize_hardening_runs                                                *)

\* The worker decides by the statuses it has read, one child after the other.
Over(r, status) == \A k \in asked[r] : status[k] \in TerminalCampaign

AllCompleted(r, status) == \A k \in asked[r] : status[k] = "COMPLETED"

\* An effect like the source's was blocked, and its forbidden state not reached.
ExactProved(c) == "block" \in evidence[c] /\ "finding" \notin evidence[c]

\* Variants were tried, and none found anything.
BypassProved(c) == {"episode", "step"} \subseteq evidence[c] /\ "finding" \notin evidence[c]

BenignProved(c) == "passed" \in evidence[c] /\ "failed" \notin evidence[c]

Proved(c) ==
  /\ KindOf(c) = "exact" => ExactProved(c)
  /\ KindOf(c) = "bypass" => BypassProved(c)
  /\ KindOf(c) = "benign" => BenignProved(c)

Bypassed(r) ==
  \E c \in Children(r) : KindOf(c) \in {"exact", "bypass"} /\ "finding" \in evidence[c]

Verdict(r, status) ==
  IF AllCompleted(r, status) /\ \A c \in Children(r) : Proved(c) THEN "PASSED"
  ELSE IF AllCompleted(r, status) /\ Bypassed(r) THEN "BYPASS_FOUND"
  ELSE "FAILED"

\* The run is read first ...
Look(c) ==
  /\ pc[c] = "judge"
  /\ IF row[RunOf(c)] = "PENDING" THEN Goto(c, "look") ELSE Goto(c, "idle")
  /\ statuses' = [statuses EXCEPT ![c] = Unread]
  /\ UNCHANGED <<api, hardening, child, cancel, attempts, evidence, verdict>>

ToRead(c) == {k \in asked[RunOf(c)] : statuses[c][k] = "none"}

\* ... then its children ...
Read(c) ==
  /\ pc[c] = "look"
  /\ \E k \in ToRead(c) :
       /\ \A l \in ToRead(c) : ~ Before(l, k)
       /\ statuses' = [statuses EXCEPT ![c][k] = child[<<RunOf(c), k>>]]
  /\ UNCHANGED <<api, hardening, child, cancel, attempts, evidence, pc, verdict>>

\* ... and what they put on record, if they were all over.
Judge(c) ==
  LET r == RunOf(c) IN
  /\ pc[c] = "look"
  /\ ToRead(c) = {}
  /\ IF Over(r, statuses[c])
     THEN verdict' = [verdict EXCEPT ![c] = Verdict(r, statuses[c])] /\ Goto(c, "write")
     ELSE UNCHANGED verdict /\ Goto(c, "idle")
  /\ UNCHANGED <<api, hardening, child, cancel, attempts, evidence, statuses>>

FindingAfter == [PASSED |-> "HARDENED", BYPASS_FOUND |-> "BYPASS_FOUND", FAILED |-> "HARDENING"]

\* complete_hardening_run, which does not look at the row's status again.
Write(c) ==
  LET r == RunOf(c) IN
  /\ pc[c] = "write"
  /\ row' = [row EXCEPT ![r] = verdict[c]]
  /\ bundled' = [bundled EXCEPT ![r] = FALSE]
  /\ finding' = [finding EXCEPT !.status = FindingAfter[verdict[c]]]
  /\ Goto(c, "bundle")
  /\ UNCHANGED <<api, child, cancel, attempts, evidence, statuses, verdict>>

\* build_hardening_bundle, which may fail, and link_hardening_artifact.
Bundle(c) ==
  LET r == RunOf(c) IN
  /\ pc[c] = "bundle"
  /\ bundled' = bundled \/ bundled' = [bundled EXCEPT ![r] = TRUE]
  /\ Goto(c, "idle")
  /\ UNCHANGED <<api, row, finding, child, cancel, attempts, evidence, statuses, verdict>>

\* The evidence of a judged run may be asked for again.
AskBundle(r) ==
  /\ row[r] \in Judged
  /\ bundled' = [bundled EXCEPT ![r] = TRUE]
  /\ UNCHANGED <<api, row, finding, child, cancel, workers>>
-----------------------------------------------------------------------------
RunStep(c) ==
  \/ Repeats(c) \/ BeginEpisode(c) \/ Record(c) \/ Finish(c) \/ Complete(c)
  \/ Refused(c) \/ Cancelled(c) \/ Look(c) \/ Read(c) \/ Judge(c) \/ Write(c) \/ Bundle(c)

QueueStep(c) == Claim(c) \/ Dropped(c) \/ Dies(c)

CancelStep(c) == AskCancel(c) \/ CancelWrites(c) \/ Reopens(c)

ApiStep(r) ==
  \/ AskHardening(r) \/ AskReplay(r) \/ CreateRun(r) \/ LoseRequest(r) \/ AskBundle(r)

Next ==
  \/ \E r \in Run : ApiStep(r)
  \/ \E c \in Child : CreateChild(c) \/ QueueStep(c) \/ RunStep(c) \/ CancelStep(c)

Spec == Init /\ [][Next]_vars

\* Idle workers poll, and go on with what they claimed; a child out of attempts
\* is failed by a later poll, unless a cancellation has taken its job.
\* Clients, cancellations and crashes are free.
Fairness ==
  \A c \in Child :
    /\ WF_vars(RunStep(c))
    /\ WF_vars(cancel[c] = "none" /\ Claim(c))
    /\ WF_vars(cancel[c] = "none" /\ Dropped(c))

FairSpec == Spec /\ Fairness
-----------------------------------------------------------------------------
\* "Close a hardening loop once every requested child campaign is terminal"
\* (the docstring of _finalize_hardening_runs).
HardeningCloses ==
  \A r \in Run :
    row[r] = "PENDING" /\ (\A c \in Children(r) : child[c] \in TerminalCampaign)
      ~> row[r] # "PENDING"

\* Only a cancellation that began while a child of the run was open and is
\* written after its end can change a verdict, although the workers of two
\* children may both have read the run as PENDING and both write theirs
\* (_finalize_hardening_runs, cancel_campaign).
VerdictIsFinal ==
  [][\A r \in Run :
       row[r] \in Judged /\ row'[r] # row[r] => \E c \in Children(r) : cancel[c] # "none"]_vars

\* A run passes only if every child it asked for was completed and proved its
\* part; what they proved remains so, and so does their completion where no
\* cancellation began before it (_finalize_hardening_runs).
PassedIsProved ==
  \A r \in Run : row[r] = "PASSED" =>
    \A c \in Children(r) : Proved(c) /\ (child[c] = "COMPLETED" \/ cancel[c] # "none")
=============================================================================
