--------------------------- MODULE CampaignProofs ---------------------------
(* Theorems about CampaignRun, for every value of its constants: its types; *)
(* one runner per campaign, and the ledger of attempts the queue keeps;     *)
(* what becomes of a campaign's episodes and of its status.  All but the    *)
(* first assume that a live worker renews its lease in time.                *)
EXTENDS CampaignRun, TLAPS

(***************************************************************************)
(* Type correctness.  The type invariant is not inductive: a commit writes *)
(* whatever its transaction holds, so an open transaction has to hold a    *)
(* status of the table it is on, and belong to a worker that has a job.    *)
(***************************************************************************)
TablesOK ==
  /\ status \in [Campaign -> CampaignStatus]
  /\ cancelled \in [Campaign -> BOOLEAN]
  /\ job \in [Campaign -> JobRow]
  /\ episodes \in [Campaign -> Seq(EpisodeStatus)]

CountersOK ==
  /\ current \in [Worker -> Nat]
  /\ left \in [Worker -> Nat]
  /\ outcome \in [Worker -> Outcome]

TxOK(w) ==
  /\ tx[w].kind # "none" => pc[w] # "idle"
  /\ tx[w].kind = "campaign" => tx[w].to \in CampaignStatus
  /\ tx[w].kind = "episode" => tx[w].to \in EpisodeStatus
  /\ tx[w].kind \in {"episode", "create"} => tx[w].next # "idle"

RunOK ==
  /\ pc \in [Worker -> Place]
  /\ working \in [Worker -> Campaign \cup {NoCampaign}]
  /\ tx \in [Worker -> Tx]
  /\ \A w \in Worker : pc[w] # "idle" => working[w] \in Campaign
  /\ \A w \in Worker : TxOK(w)

ApiOK ==
  /\ cancelTx \in [Campaign -> CancelTx]
  /\ cancels \in [Campaign -> Nat]

TypeInv == TablesOK /\ CountersOK /\ RunOK /\ ApiOK

LEMMA TypeInvTypeOK == TypeInv => TypeOK
BY DEF TypeInv, TablesOK, CountersOK, RunOK, ApiOK, TypeOK

LEMMA Statuses ==
  /\ TerminalCampaign \subseteq CampaignStatus
  /\ OpenEpisode \subseteq EpisodeStatus
  /\ JudgedEpisode \subseteq EpisodeStatus
BY DEF TerminalCampaign, CampaignStatus, OpenEpisode, JudgedEpisode, EpisodeStatus

-----------------------------------------------------------------------------
(* What the operators actions are built from preserve.                     *)

LEMMA FailEpisodesType ==
  ASSUME NEW es \in Seq(EpisodeStatus), NEW stale
  PROVE  FailEpisodes(es, stale) \in Seq(EpisodeStatus)
BY DEF FailEpisodes, EpisodeStatus

LEMMA OpenInType ==
  ASSUME NEW es \in Seq(EpisodeStatus)
  PROVE  OpenIn(es) \in SUBSET Nat
BY DEF OpenIn

LEMMA GotoOK ==
  ASSUME RunOK, NEW w \in Worker, pc[w] # "idle", NEW next \in Place \ {"idle"},
         Goto(w, next), UNCHANGED <<working, tx>>
  PROVE  RunOK'
BY DEF RunOK, TxOK, Goto

LEMMA OpenOK ==
  ASSUME RunOK, NEW w \in Worker, pc[w] # "idle",
         NEW kind \in {"campaign", "episode", "create", "finish", "retry", "giveup"},
         NEW to \in CampaignStatus \cup EpisodeStatus \cup {"none"},
         NEW next \in Place, NEW stale \in SUBSET Nat,
         kind = "campaign" => to \in CampaignStatus,
         kind = "episode" => to \in EpisodeStatus,
         kind \in {"episode", "create"} => next # "idle",
         Open(w, kind, to, next, stale), UNCHANGED <<pc, working>>
  PROVE  RunOK'
<1>1. tx' \in [Worker -> Tx]
  BY DEF RunOK, Open, Tx
<1>2. ASSUME NEW v \in Worker PROVE TxOK(v)'
  BY DEF RunOK, TxOK, Open
<1>3. QED BY <1>1, <1>2 DEF RunOK

LEMMA CloseTxOK ==
  ASSUME RunOK, NEW w \in Worker, pc[w] # "idle", NEW next \in Place \ {"idle"},
         Goto(w, next), tx' = [tx EXCEPT ![w] = NoTx], UNCHANGED working
  PROVE  RunOK'
<1>1. tx' \in [Worker -> Tx]
  BY DEF RunOK, NoTx, Tx, Place
<1>2. ASSUME NEW v \in Worker PROVE TxOK(v)'
  BY DEF RunOK, TxOK, NoTx, Goto
<1>3. QED BY <1>1, <1>2 DEF RunOK, Goto

LEMMA IdleOK ==
  ASSUME RunOK, CountersOK, NEW w \in Worker, Idle(w)
  PROVE  RunOK' /\ CountersOK'
<1>1. tx' \in [Worker -> Tx]
  BY DEF RunOK, Idle, NoTx, Tx, Place
<1>2. pc' \in [Worker -> Place]
  BY DEF RunOK, Idle, Goto, Place
<1>3. ASSUME NEW v \in Worker PROVE TxOK(v)'
  BY DEF RunOK, TxOK, Idle, NoTx, Goto
<1>4. RunOK'
  BY <1>1, <1>2, <1>3 DEF RunOK, Idle, Goto
<1>5. CountersOK'
  BY DEF CountersOK, Idle, Outcome
<1>6. QED BY <1>4, <1>5

LEMMA SetCampaignOK ==
  ASSUME RunOK, NEW w \in Worker, pc[w] # "idle",
         NEW to \in CampaignStatus, NEW next \in Place,
         next = "idle" => status[working[w]] # to,
         SetCampaign(w, to, next), UNCHANGED working
  PROVE  RunOK'
<1>1. CASE Goto(w, next) /\ UNCHANGED tx /\ next # "idle"
  BY <1>1, GotoOK
<1>2. CASE Goto(w, "raise") /\ UNCHANGED tx
  BY <1>2, GotoOK DEF Place
<1>3. CASE Open(w, "campaign", to, next, {}) /\ UNCHANGED pc
  BY <1>3, OpenOK
<1>4. QED BY <1>1, <1>2, <1>3 DEF SetCampaign

LEMMA SetEpisodeOK ==
  ASSUME RunOK, NEW w \in Worker, pc[w] # "idle",
         NEW to \in EpisodeStatus, NEW next \in Place \ {"idle"},
         NEW illegal \in Place \ {"idle"},
         SetEpisode(w, to, next, illegal), UNCHANGED working
  PROVE  RunOK'
<1>1. CASE Goto(w, next) /\ UNCHANGED tx
  BY <1>1, GotoOK
<1>2. CASE Goto(w, illegal) /\ UNCHANGED tx
  BY <1>2, GotoOK
<1>3. CASE Open(w, "episode", to, next, {}) /\ UNCHANGED pc
  BY <1>3, OpenOK
<1>4. QED BY <1>1, <1>2, <1>3 DEF SetEpisode

-----------------------------------------------------------------------------
(* Every step keeps the type invariant.                                    *)

LEMMA TypeInvInit == Init => TypeInv
<1> SUFFICES ASSUME Init PROVE TypeInv
  OBVIOUS
<1>1. TablesOK
  BY DEF Init, TablesOK, CampaignStatus, JobRow, QueuedJob, JobStatus
<1>2. CountersOK
  BY DEF Init, CountersOK, Outcome
<1>3. RunOK
  BY DEF Init, RunOK, TxOK, NoTx, Tx, Place
<1>4. ApiOK
  BY DEF Init, ApiOK, CancelTx, NoCancelTx, CampaignStatus, JobStatus
<1>5. QED BY <1>1, <1>2, <1>3, <1>4 DEF TypeInv

\* The steps of a run that read the tables and decide what comes next.
LEMMA GotoInv ==
  ASSUME TypeInv, NEW w \in Worker, pc[w] # "idle", NEW next \in Place \ {"idle"},
         Goto(w, next), UNCHANGED <<working, tx>>, CountersOK', Decides
  PROVE  TypeInv'
<1>1. RunOK'
  BY GotoOK DEF TypeInv
<1>2. QED BY <1>1 DEF TypeInv, Decides, tables, api, TablesOK, ApiOK

LEMMA SetCampaignInv ==
  ASSUME TypeInv, NEW w \in Worker, pc[w] # "idle",
         NEW to \in CampaignStatus, NEW next \in Place,
         next = "idle" => status[working[w]] # to,
         SetCampaign(w, to, next), UNCHANGED working, CountersOK', Decides
  PROVE  TypeInv'
<1>1. RunOK'
  BY SetCampaignOK DEF TypeInv
<1>2. QED BY <1>1 DEF TypeInv, Decides, tables, api, TablesOK, ApiOK

LEMMA SetEpisodeInv ==
  ASSUME TypeInv, NEW w \in Worker, pc[w] # "idle",
         NEW to \in EpisodeStatus, NEW next \in Place \ {"idle"},
         NEW illegal \in Place \ {"idle"},
         SetEpisode(w, to, next, illegal), UNCHANGED working, CountersOK', Decides
  PROVE  TypeInv'
<1>1. RunOK'
  BY SetEpisodeOK DEF TypeInv
<1>2. QED BY <1>1 DEF TypeInv, Decides, tables, api, TablesOK, ApiOK

LEMMA IdleInv ==
  ASSUME TypeInv, NEW w \in Worker, Idle(w), TablesOK', ApiOK'
  PROVE  TypeInv'
BY IdleOK DEF TypeInv

LEMMA StartInv == ASSUME TypeInv, NEW w \in Worker, Start(w) PROVE TypeInv'
<1>1. pc[w] # "idle" /\ UNCHANGED working /\ Decides
  BY DEF Start, At, local
<1>2. CountersOK'
  BY DEF TypeInv, Start, CountersOK, local
<1>3. CASE Goto(w, "finish") /\ UNCHANGED tx
  BY <1>1, <1>2, <1>3, GotoInv DEF Place
<1>4. CASE Goto(w, "validate") /\ UNCHANGED tx
  BY <1>1, <1>2, <1>4, GotoInv DEF Place
<1>5. CASE SetCampaign(w, "FAILED", "finish")
  BY <1>1, <1>2, <1>5, SetCampaignInv DEF Place, CampaignStatus
<1>6. CASE SetCampaign(w, "VALIDATING", "validate")
  BY <1>1, <1>2, <1>6, SetCampaignInv DEF Place, CampaignStatus
<1>7. QED BY <1>3, <1>4, <1>5, <1>6 DEF Start

LEMMA ValidateInv == ASSUME TypeInv, NEW w \in Worker, Validate(w) PROVE TypeInv'
<1>1. pc[w] # "idle" /\ UNCHANGED working /\ Decides
  BY DEF Validate, At, local
<1>2. CountersOK'
  BY DEF TypeInv, Validate, CountersOK, local
<1>3. ASSUME NEW next \in {"ready", "raise", "block"}, Goto(w, next), UNCHANGED tx
      PROVE  TypeInv'
  BY <1>1, <1>2, <1>3, GotoInv DEF Place
<1>4. ASSUME NEW next \in {"finish", "raise"}, SetCampaign(w, "REJECTED", next)
      PROVE  TypeInv'
  BY <1>1, <1>2, <1>4, SetCampaignInv DEF Place, CampaignStatus
<1>5. QED BY <1>3, <1>4 DEF Validate

LEMMA ReadyInv == ASSUME TypeInv, NEW w \in Worker, Ready(w) PROVE TypeInv'
<1>1. pc[w] # "idle" /\ UNCHANGED working /\ Decides
  BY DEF Ready, At, local
<1>2. CountersOK'
  BY DEF TypeInv, Ready, CountersOK, local
<1>3. CASE Goto(w, "check") /\ UNCHANGED tx
  BY <1>1, <1>2, <1>3, GotoInv DEF Place
<1>4. CASE SetCampaign(w, "READY", "check")
  BY <1>1, <1>2, <1>4, SetCampaignInv DEF Place, CampaignStatus
<1>5. QED BY <1>3, <1>4 DEF Ready

LEMMA RunningInv == ASSUME TypeInv, NEW w \in Worker, Running(w) PROVE TypeInv'
<1>1. pc[w] # "idle" /\ UNCHANGED working /\ Decides
  BY DEF Running, At, local
<1>2. CountersOK'
  BY DEF TypeInv, Running, CountersOK, local
<1>3. CASE Goto(w, "enter") /\ UNCHANGED tx
  BY <1>1, <1>2, <1>3, GotoInv DEF Place
<1>4. CASE SetCampaign(w, "RUNNING", "enter")
  BY <1>1, <1>2, <1>4, SetCampaignInv DEF Place, CampaignStatus
<1>5. QED BY <1>3, <1>4 DEF Running

LEMMA CheckInv == ASSUME TypeInv, NEW w \in Worker, Check(w) PROVE TypeInv'
<1>1. pc[w] # "idle" /\ UNCHANGED working /\ working[w] \in Campaign
  BY DEF TypeInv, RunOK, Check, At, local
<1>2. CountersOK' /\ ApiOK'
  BY DEF TypeInv, Check, CountersOK, ApiOK, local, api
<1>3. RunOK'
  <2>1. \E next \in {"fail", "running"} : Goto(w, next)
    BY DEF Check
  <2>2. UNCHANGED tx
    BY DEF Check
  <2>3. QED BY <1>1, <2>1, <2>2, GotoOK DEF TypeInv, Place
<1>4. TablesOK'
  <2>1. CASE CancelBy(working[w])
    <3>1. status' \in [Campaign -> CampaignStatus]
      <4>1. status \in [Campaign -> CampaignStatus]
        BY DEF TypeInv, TablesOK
      <4>2. \E s \in {status[working[w]], "CANCELLING", "FAILED"} :
               status' = [status EXCEPT ![working[w]] = s]
        BY <2>1 DEF CancelBy
      <4>3. QED BY <1>1, <4>1, <4>2 DEF CampaignStatus
    <3>2. job' \in [Campaign -> JobRow]
      <4>1. job \in [Campaign -> JobRow]
        BY DEF TypeInv, TablesOK
      <4>2. \E s \in {job[working[w]].status, "CANCELLED"} :
               job' = [job EXCEPT ![working[w]].status = s]
        BY <2>1 DEF CancelBy
      <4>3. QED BY <1>1, <4>1, <4>2 DEF JobRow, JobStatus
    <3>3. QED BY <3>1, <3>2 DEF TypeInv, TablesOK, Check
  <2>2. CASE UNCHANGED <<status, job>>
    BY <2>2 DEF TypeInv, TablesOK, Check
  <2>3. QED BY <2>1, <2>2 DEF Check
<1>5. QED BY <1>2, <1>3, <1>4 DEF TypeInv

LEMMA EnterInv == ASSUME TypeInv, NEW w \in Worker, Enter(w) PROVE TypeInv'
<1>1. pc[w] # "idle" /\ working[w] \in Campaign /\ UNCHANGED <<working, tx>> /\ Decides
  BY DEF TypeInv, RunOK, Enter, At
<1>2. Len(episodes[working[w]]) \in Nat
  BY <1>1 DEF TypeInv, TablesOK
<1>3. CountersOK'
  <2>1. CASE UNCHANGED left
    BY <2>1 DEF TypeInv, CountersOK, Enter
  <2>2. CASE left' = [left EXCEPT ![w] = IF Len(episodes[working[w]]) < MaxEpisodes
                                         THEN MaxEpisodes - Len(episodes[working[w]]) ELSE 0]
    <3>1. left' \in [Worker -> Nat]
      BY <2>2, <1>2, ConstantsAssumption DEF TypeInv, CountersOK
    <3>2. QED BY <3>1 DEF TypeInv, CountersOK, Enter
  <2>3. QED BY <2>1, <2>2 DEF Enter
<1>4. \E next \in {"raise", "loop"} : Goto(w, next)
  BY DEF Enter
<1>5. QED BY <1>1, <1>3, <1>4, GotoInv DEF Place

LEMMA LoopInv == ASSUME TypeInv, NEW w \in Worker, Loop(w) PROVE TypeInv'
<1>1. pc[w] # "idle" /\ UNCHANGED <<working, tx>> /\ Decides
  BY DEF Loop, At
<1>2. CountersOK'
  BY DEF TypeInv, CountersOK, Loop
<1>3. \E next \in {"after", "create"} : Goto(w, next)
  BY DEF Loop
<1>4. QED BY <1>1, <1>2, <1>3, GotoInv DEF Place

LEMMA CreateEpisodeInv == ASSUME TypeInv, NEW w \in Worker, CreateEpisode(w) PROVE TypeInv'
<1>1. pc[w] # "idle" /\ UNCHANGED working /\ Decides
  BY DEF CreateEpisode, At, local
<1>2. CountersOK'
  BY DEF TypeInv, CreateEpisode, CountersOK, local
<1>3. ASSUME NEW next \in {"lost", "raise"}, Goto(w, next), UNCHANGED tx PROVE TypeInv'
  BY <1>1, <1>2, <1>3, GotoInv DEF Place
<1>4. CASE Open(w, "create", "PENDING", "provision", {}) /\ UNCHANGED pc
  <2>1. RunOK'
    <3>1. "PENDING" \in EpisodeStatus /\ "provision" \in Place
      BY DEF EpisodeStatus, Place
    <3>2. RunOK /\ {} \in SUBSET Nat
      BY DEF TypeInv
    <3>3. QED BY <1>1, <1>4, <3>1, <3>2, OpenOK
  <2>2. QED BY <1>1, <1>2, <2>1 DEF TypeInv, Decides, tables, api, TablesOK, ApiOK
<1>5. QED BY <1>3, <1>4 DEF CreateEpisode

LEMMA EpisodesType ==
  ASSUME NEW es \in Seq(EpisodeStatus), NEW i, NEW to \in EpisodeStatus
  PROVE  /\ [es EXCEPT ![i] = to] \in Seq(EpisodeStatus)
         /\ Append(es, to) \in Seq(EpisodeStatus)
<1>1. Len(es) \in Nat /\ es \in [1..Len(es) -> EpisodeStatus]
  OBVIOUS
<1>2. [es EXCEPT ![i] = to] \in [1..Len(es) -> EpisodeStatus]
  BY <1>1
<1>3. QED BY <1>1, <1>2

LEMMA CommitCreateInv == ASSUME TypeInv, NEW w \in Worker, CommitCreate(w) PROVE TypeInv'
<1> DEFINE c == working[w]
<1>1. /\ pc[w] # "idle" /\ c \in Campaign /\ UNCHANGED working
      /\ tx[w].next \in Place \ {"idle"}
  BY DEF TypeInv, RunOK, TxOK, Tx, CommitCreate
<1>2. RunOK'
  BY <1>1, CloseTxOK DEF TypeInv, CommitCreate
<1>3. TablesOK'
  <2>1. Append(episodes[c], "PENDING") \in Seq(EpisodeStatus)
    BY <1>1, EpisodesType DEF TypeInv, TablesOK, EpisodeStatus
  <2>2. QED BY <2>1, <1>1 DEF TypeInv, TablesOK, CommitCreate
<1>4. CountersOK'
  <2>1. Len(episodes[c]) + 1 \in Nat
    BY <1>1 DEF TypeInv, TablesOK
  <2>2. QED BY <2>1 DEF TypeInv, CountersOK, CommitCreate
<1>5. QED BY <1>2, <1>3, <1>4 DEF TypeInv, ApiOK, CommitCreate, api

LEMMA ProvisionInv == ASSUME TypeInv, NEW w \in Worker, Provision(w) PROVE TypeInv'
<1>1. pc[w] # "idle" /\ UNCHANGED working /\ Decides
  BY DEF Provision, At, local
<1>2. CountersOK'
  BY DEF TypeInv, Provision, CountersOK, local
<1>3. "PROVISIONING" \in EpisodeStatus /\ {"prepare", "raise"} \subseteq Place
  BY DEF EpisodeStatus, Place
<1>4. QED BY <1>1, <1>2, <1>3, SetEpisodeInv DEF Provision

LEMMA PrepareInv == ASSUME TypeInv, NEW w \in Worker, Prepare(w) PROVE TypeInv'
<1>1. pc[w] # "idle" /\ UNCHANGED working /\ Decides
  BY DEF Prepare, At
<1>2. CountersOK'
  BY DEF TypeInv, Prepare, CountersOK, SetOutcome, Outcome
<1>3. "READY" \in EpisodeStatus /\ {"execute", "abort"} \subseteq Place
  BY DEF EpisodeStatus, Place
<1>4. CASE SetEpisode(w, "READY", "execute", "abort")
  BY <1>1, <1>2, <1>3, <1>4, SetEpisodeInv
<1>5. CASE Goto(w, "abort") /\ UNCHANGED tx
  BY <1>1, <1>2, <1>3, <1>5, GotoInv
<1>6. QED BY <1>4, <1>5 DEF Prepare

LEMMA ExecuteInv == ASSUME TypeInv, NEW w \in Worker, Execute(w) PROVE TypeInv'
<1>1. pc[w] # "idle" /\ UNCHANGED working /\ Decides
  BY DEF Execute, At
<1>2. CountersOK'
  BY DEF TypeInv, Execute, CountersOK, SetOutcome, Outcome
<1>3. "EXECUTING" \in EpisodeStatus /\ {"search", "abort"} \subseteq Place
  BY DEF EpisodeStatus, Place
<1>4. CASE SetEpisode(w, "EXECUTING", "search", "abort")
  BY <1>1, <1>2, <1>3, <1>4, SetEpisodeInv
<1>5. CASE Goto(w, "abort") /\ UNCHANGED tx
  BY <1>1, <1>2, <1>3, <1>5, GotoInv
<1>6. QED BY <1>4, <1>5 DEF Execute

LEMMA SearchInv == ASSUME TypeInv, NEW w \in Worker, Search(w) PROVE TypeInv'
<1>1. pc[w] # "idle" /\ UNCHANGED <<working, tx>> /\ Decides /\ Goto(w, "close")
  BY DEF Search, At
<1>2. CountersOK'
  BY DEF TypeInv, Search, CountersOK, SetOutcome, Outcome
<1>3. QED BY <1>1, <1>2, GotoInv DEF Place

LEMMA UnlinkedInv == ASSUME TypeInv, NEW w \in Worker, Unlinked(w) PROVE TypeInv'
<1>1. pc[w] # "idle" /\ UNCHANGED <<working, tx>> /\ Decides /\ Goto(w, "closed")
  BY DEF Unlinked, At
<1>2. CountersOK'
  BY DEF TypeInv, Unlinked, CountersOK, SetOutcome, Outcome
<1>3. QED BY <1>1, <1>2, GotoInv DEF Place

LEMMA AbortInv == ASSUME TypeInv, NEW w \in Worker, Abort(w) PROVE TypeInv'
<1>1. pc[w] # "idle" /\ UNCHANGED working /\ Decides
  BY DEF Abort, At
<1>2. CountersOK'
  BY DEF TypeInv, Abort, CountersOK, SetOutcome, Outcome
<1>3. "FAILED" \in EpisodeStatus /\ "destroy" \in Place
  BY DEF EpisodeStatus, Place
<1>4. CASE SetEpisode(w, "FAILED", "destroy", "destroy")
  BY <1>1, <1>2, <1>3, <1>4, SetEpisodeInv
<1>5. CASE Goto(w, "destroy") /\ UNCHANGED tx
  BY <1>1, <1>2, <1>3, <1>5, GotoInv
<1>6. QED BY <1>4, <1>5 DEF Abort

LEMMA CleanupFailsType ==
  ASSUME CountersOK, NEW w \in Worker, CleanupFails(w) \/ UNCHANGED outcome
  PROVE  outcome' \in [Worker -> Outcome]
BY DEF CountersOK, CleanupFails, SetOutcome, Outcome

LEMMA CloseInv == ASSUME TypeInv, NEW w \in Worker, Close(w) PROVE TypeInv'
<1>1. pc[w] # "idle" /\ UNCHANGED working /\ Decides
  BY DEF Close, At
<1>2. CountersOK'
  BY CleanupFailsType DEF TypeInv, Close, CountersOK
<1>3. "VERIFYING" \in EpisodeStatus /\ {"judge", "destroy"} \subseteq Place
  BY DEF EpisodeStatus, Place
<1>4. CASE SetEpisode(w, "VERIFYING", "judge", "destroy")
  BY <1>1, <1>2, <1>3, <1>4, SetEpisodeInv
<1>5. CASE Goto(w, "judge") /\ UNCHANGED tx
  BY <1>1, <1>2, <1>3, <1>5, GotoInv
<1>6. QED BY <1>4, <1>5 DEF Close

LEMMA JudgeInv == ASSUME TypeInv, NEW w \in Worker, Judge(w) PROVE TypeInv'
<1>1. pc[w] # "idle" /\ UNCHANGED working /\ Decides
  BY DEF Judge, At
<1>2. CountersOK'
  BY CleanupFailsType DEF TypeInv, Judge, CountersOK
<1>3. Results(w) \subseteq EpisodeStatus
  BY DEF TypeInv, CountersOK, Outcome, Results, JudgedEpisode, EpisodeStatus
<1>4. "destroy" \in Place
  BY DEF Place
<1>5. ASSUME NEW result \in Results(w), SetEpisode(w, result, "destroy", "destroy")
      PROVE  TypeInv'
  BY <1>1, <1>2, <1>3, <1>4, <1>5, SetEpisodeInv
<1>6. CASE Goto(w, "destroy") /\ UNCHANGED tx
  BY <1>1, <1>2, <1>4, <1>6, GotoInv
<1>7. QED BY <1>5, <1>6 DEF Judge

LEMMA DestroyInv == ASSUME TypeInv, NEW w \in Worker, Destroy(w) PROVE TypeInv'
<1>1. pc[w] # "idle" /\ UNCHANGED working /\ Decides
  BY DEF Destroy, At
<1>2. CountersOK'
  BY CleanupFailsType DEF TypeInv, Destroy, CountersOK
<1>3. "DESTROYED" \in EpisodeStatus /\ "closed" \in Place
  BY DEF EpisodeStatus, Place
<1>4. CASE SetEpisode(w, "DESTROYED", "closed", "closed")
  BY <1>1, <1>2, <1>3, <1>4, SetEpisodeInv
<1>5. CASE Goto(w, "closed") /\ UNCHANGED tx
  BY <1>1, <1>2, <1>3, <1>5, GotoInv
<1>6. QED BY <1>4, <1>5 DEF Destroy

LEMMA ClosedInv == ASSUME TypeInv, NEW w \in Worker, Closed(w) PROVE TypeInv'
<1>1. pc[w] # "idle" /\ UNCHANGED <<working, tx>> /\ Decides
  BY DEF Closed, At
<1>2. CountersOK'
  BY DEF TypeInv, Closed, CountersOK, SetOutcome, Outcome
<1>3. AfterEpisode[outcome[w]] \in Place \ {"idle"}
  BY DEF TypeInv, CountersOK, Outcome, AfterEpisode, Place
<1>4. QED BY <1>1, <1>2, <1>3, GotoInv DEF Closed

LEMMA AfterInv == ASSUME TypeInv, NEW w \in Worker, After(w) PROVE TypeInv'
<1>1. pc[w] # "idle" /\ UNCHANGED working /\ Decides
  BY DEF After, At, local
<1>2. CountersOK'
  BY DEF TypeInv, After, CountersOK, local
<1>3. CASE Goto(w, "finalize") /\ UNCHANGED tx
  BY <1>1, <1>2, <1>3, GotoInv DEF Place
<1>4. ASSUME NEW end \in {"COMPLETED", "FAILED"}, SetCampaign(w, end, "finalize")
      PROVE  TypeInv'
  BY <1>1, <1>2, <1>4, SetCampaignInv DEF Place, CampaignStatus
<1>5. QED BY <1>3, <1>4 DEF After

LEMMA FinalizeInv == ASSUME TypeInv, NEW w \in Worker, Finalize(w) PROVE TypeInv'
<1>1. pc[w] # "idle" /\ UNCHANGED <<working, tx>> /\ Decides
  BY DEF Finalize, At, local
<1>2. CountersOK'
  BY DEF TypeInv, Finalize, CountersOK, local
<1>3. \E next \in {"finish", "raise"} : Goto(w, next)
  BY DEF Finalize
<1>4. QED BY <1>1, <1>2, <1>3, GotoInv DEF Place

LEMMA BlockInv == ASSUME TypeInv, NEW w \in Worker, Block(w) PROVE TypeInv'
<1>1. pc[w] # "idle" /\ UNCHANGED working /\ Decides
  BY DEF Block, At, local
<1>2. CountersOK'
  BY DEF TypeInv, Block, CountersOK, local
<1>3. CASE Goto(w, "fail") /\ UNCHANGED tx
  BY <1>1, <1>2, <1>3, GotoInv DEF Place
<1>4. CASE SetCampaign(w, "BLOCKED", "finish")
  BY <1>1, <1>2, <1>4, SetCampaignInv DEF Place, CampaignStatus
<1>5. QED BY <1>3, <1>4 DEF Block

LEMMA FailInv == ASSUME TypeInv, NEW w \in Worker, Fail(w) PROVE TypeInv'
<1>1. pc[w] # "idle" /\ Decides
  BY DEF Fail, At
<1>2. CASE Idle(w)
  BY <1>1, <1>2, IdleInv DEF TypeInv, Decides, tables, api, TablesOK, ApiOK
<1>3. CASE Goto(w, "finish") /\ UNCHANGED <<tx, local>>
  BY <1>1, <1>3, GotoInv DEF TypeInv, CountersOK, local, Place
<1>4. ASSUME NEW end \in {"idle", "finish"}, status[working[w]] \notin TerminalCampaign,
             SetCampaign(w, "FAILED", end), UNCHANGED local
      PROVE  TypeInv'
  <2>1. CountersOK' /\ UNCHANGED working
    BY <1>4 DEF TypeInv, CountersOK, local
  <2>2. status[working[w]] # "FAILED" /\ "FAILED" \in CampaignStatus /\ end \in Place
    BY <1>4 DEF TerminalCampaign, CampaignStatus, Place
  <2>3. QED BY <1>1, <1>4, <2>1, <2>2, SetCampaignInv
<1>5. QED BY <1>2, <1>3, <1>4 DEF Fail

LEMMA LostInv == ASSUME TypeInv, NEW w \in Worker, Lost(w) PROVE TypeInv'
<1>1. pc[w] # "idle" /\ Decides
  BY DEF Lost, At
<1>2. CASE Idle(w)
  BY <1>1, <1>2, IdleInv DEF TypeInv, Decides, tables, api, TablesOK, ApiOK
<1>3. CASE Goto(w, "fail") /\ UNCHANGED <<tx, local>>
  BY <1>1, <1>3, GotoInv DEF TypeInv, CountersOK, local, Place
<1>4. QED BY <1>2, <1>3 DEF Lost

\* The commits.
LEMMA CommitCampaignInv == ASSUME TypeInv, NEW w \in Worker, CommitCampaign(w) PROVE TypeInv'
<1>1. /\ pc[w] # "idle" /\ working[w] \in Campaign /\ tx[w].next \in Place
      /\ tx[w].to \in CampaignStatus
  BY DEF TypeInv, RunOK, TxOK, Tx, CommitCampaign
<1>2. TablesOK' /\ ApiOK'
  BY <1>1 DEF TypeInv, TablesOK, ApiOK, CommitCampaign, api
<1>3. CASE Idle(w)
  BY <1>2, <1>3, IdleInv
<1>4. CASE /\ tx[w].next # "idle" /\ Goto(w, tx[w].next)
           /\ tx' = [tx EXCEPT ![w] = NoTx] /\ UNCHANGED local
  <2>1. RunOK'
    BY <1>1, <1>4, CloseTxOK DEF TypeInv, local
  <2>2. CountersOK'
    BY <1>4 DEF TypeInv, CountersOK, local
  <2>3. QED BY <1>2, <2>1, <2>2 DEF TypeInv
<1>5. QED BY <1>3, <1>4 DEF CommitCampaign

LEMMA CommitEpisodeInv == ASSUME TypeInv, NEW w \in Worker, CommitEpisode(w) PROVE TypeInv'
<1> DEFINE c == working[w]
<1>1. /\ pc[w] # "idle" /\ c \in Campaign /\ tx[w].next \in Place \ {"idle"}
      /\ tx[w].to \in EpisodeStatus
  BY DEF TypeInv, RunOK, TxOK, Tx, CommitEpisode
<1>2. TablesOK'
  <2>1. [episodes[c] EXCEPT ![current[w]] = tx[w].to] \in Seq(EpisodeStatus)
    BY <1>1, EpisodesType DEF TypeInv, TablesOK
  <2>2. episodes' = [episodes EXCEPT ![c] = [episodes[c] EXCEPT ![current[w]] = tx[w].to]]
    BY DEF CommitEpisode
  <2>3. QED BY <1>1, <2>1, <2>2 DEF TypeInv, TablesOK, CommitEpisode
<1>3. RunOK'
  BY <1>1, CloseTxOK DEF TypeInv, CommitEpisode, local
<1>4. QED BY <1>2, <1>3 DEF TypeInv, CountersOK, ApiOK, CommitEpisode, local, api

LEMMA FinishInv == ASSUME TypeInv, NEW w \in Worker, Finish(w) PROVE TypeInv'
<1>1. pc[w] # "idle" /\ TablesOK' /\ ApiOK'
  BY DEF TypeInv, TablesOK, ApiOK, Finish, At, tables, api
<1>2. CASE NotOurs(w)
  BY <1>1, <1>2, IdleInv DEF NotOurs
<1>3. CASE Open(w, "finish", "none", "idle", {}) /\ UNCHANGED <<pc, local>>
  <2>1. RunOK /\ "idle" \in Place /\ {} \in SUBSET Nat /\ UNCHANGED <<pc, working>>
    BY <1>3 DEF TypeInv, Place, local
  <2>2. RunOK'
    BY <1>1, <1>3, <2>1, OpenOK
  <2>3. QED BY <1>1, <1>3, <2>2 DEF TypeInv, CountersOK, local
<1>4. QED BY <1>2, <1>3 DEF Finish

LEMMA FailOrRetryInv == ASSUME TypeInv, NEW w \in Worker, FailOrRetry(w) PROVE TypeInv'
<1> DEFINE c == working[w]
<1>1. pc[w] # "idle" /\ c \in Campaign /\ TablesOK' /\ ApiOK'
  BY DEF TypeInv, TablesOK, ApiOK, RunOK, FailOrRetry, At, tables, api
<1>2. CASE NotOurs(w)
  BY <1>1, <1>2, IdleInv DEF NotOurs
<1>3. ASSUME NEW kind \in {"retry", "giveup"}, NEW to \in {"none", "FAILED"},
             NEW stale \in SUBSET Nat,
             Open(w, kind, to, "idle", stale), UNCHANGED <<pc, local>>
      PROVE  TypeInv'
  <2>1. /\ RunOK /\ "idle" \in Place /\ UNCHANGED <<pc, working>>
        /\ to \in CampaignStatus \cup EpisodeStatus \cup {"none"}
    BY <1>3 DEF TypeInv, Place, local, CampaignStatus
  <2>2. RunOK'
    BY <1>1, <1>3, <2>1, OpenOK
  <2>3. QED BY <1>1, <1>3, <2>2 DEF TypeInv, CountersOK, local
<1>4. OpenIn(episodes[c]) \in SUBSET Nat /\ {} \in SUBSET Nat
  BY <1>1, OpenInType DEF TypeInv, TablesOK
<1>5. Reconciled(c) \in {"none", "FAILED"}
  BY DEF Reconciled
<1>6. QED BY <1>2, <1>3, <1>4, <1>5 DEF FailOrRetry

LEMMA CommitFinishInv == ASSUME TypeInv, NEW w \in Worker, CommitFinish(w) PROVE TypeInv'
<1>1. working[w] \in Campaign /\ NoWorker \in Worker \cup {NoWorker}
  BY DEF TypeInv, RunOK, TxOK, CommitFinish
<1>2. job' \in [Campaign -> JobRow]
  <2> DEFINE row == [job[working[w]] EXCEPT !.status = "COMPLETED", !.owner = NoWorker,
                                            !.expired = FALSE]
  <2>1. row \in JobRow
    BY <1>1 DEF TypeInv, TablesOK, JobRow, JobStatus
  <2>2. job' = [job EXCEPT ![working[w]] = row]
    BY <1>1 DEF TypeInv, TablesOK, CommitFinish
  <2>3. QED BY <2>1, <2>2 DEF TypeInv, TablesOK
<1>3. TablesOK' /\ ApiOK'
  BY <1>2 DEF TypeInv, TablesOK, ApiOK, CommitFinish, api
<1>4. QED BY <1>3, IdleInv DEF CommitFinish

LEMMA CommitRetryInv == ASSUME TypeInv, NEW w \in Worker, CommitRetry(w) PROVE TypeInv'
<1>1. working[w] \in Campaign
  BY DEF TypeInv, RunOK, TxOK, CommitRetry
<1>2. job' \in [Campaign -> JobRow]
  <2> DEFINE row == [job[working[w]] EXCEPT !.status = "PENDING", !.owner = NoWorker,
                                            !.expired = FALSE, !.ready = FALSE]
  <2>1. row \in JobRow
    BY <1>1 DEF TypeInv, TablesOK, JobRow, JobStatus
  <2>2. job' = [job EXCEPT ![working[w]] = row]
    BY <1>1 DEF TypeInv, TablesOK, CommitRetry
  <2>3. QED BY <2>1, <2>2 DEF TypeInv, TablesOK
<1>3. TablesOK' /\ ApiOK'
  BY <1>2 DEF TypeInv, TablesOK, ApiOK, CommitRetry, api
<1>4. QED BY <1>3, IdleInv DEF CommitRetry

LEMMA CommitGiveUpInv == ASSUME TypeInv, NEW w \in Worker, CommitGiveUp(w) PROVE TypeInv'
<1> DEFINE c == working[w]
<1>1. c \in Campaign
  BY DEF TypeInv, RunOK, TxOK, CommitGiveUp
<1>2. job' \in [Campaign -> JobRow]
  BY <1>1 DEF TypeInv, TablesOK, CommitGiveUp, FailedRow, JobRow, JobStatus
<1>3. status' \in [Campaign -> CampaignStatus]
  BY <1>1 DEF TypeInv, TablesOK, CommitGiveUp, CampaignStatus
<1>4. episodes' \in [Campaign -> Seq(EpisodeStatus)]
  BY <1>1, FailEpisodesType DEF TypeInv, TablesOK, CommitGiveUp
<1>5. TablesOK' /\ ApiOK'
  BY <1>2, <1>3, <1>4 DEF TypeInv, TablesOK, ApiOK, CommitGiveUp, api
<1>6. QED BY <1>5, IdleInv DEF CommitGiveUp

LEMMA CrashInv == ASSUME TypeInv, NEW w \in Worker, Crash(w) PROVE TypeInv'
BY IdleInv DEF TypeInv, TablesOK, ApiOK, Crash, tables, api

\* The queue.
LEMMA ClaimJobTables ==
  ASSUME TypeInv, NEW w \in Worker, NEW S \in SUBSET Campaign, ClaimJob(w, S)
  PROVE  TablesOK' /\ ApiOK'
<1>1. ASSUME NEW d \in Campaign PROVE LeasedRow(w, job[d]) \in JobRow
  <2>1. job[d] \in JobRow /\ job[d].attempts + 1 \in Nat
    BY DEF TypeInv, TablesOK, JobRow
  <2>2. QED BY <2>1 DEF LeasedRow, JobRow, JobStatus
<1>2. \A d \in Campaign : FailedRow(job[d]) \in JobRow
  BY DEF TypeInv, TablesOK, FailedRow, JobRow, JobStatus
<1>3. job' \in [Campaign -> JobRow]
  BY <1>1, <1>2 DEF TypeInv, TablesOK, ClaimJob
<1>4. status' \in [Campaign -> CampaignStatus]
  BY DEF TypeInv, TablesOK, ClaimJob, CampaignStatus
<1>5. episodes' \in [Campaign -> Seq(EpisodeStatus)]
  BY FailEpisodesType DEF TypeInv, TablesOK, ClaimJob
<1>6. QED BY <1>3, <1>4, <1>5 DEF TypeInv, TablesOK, ApiOK, ClaimJob, api

LEMMA ClaimInv ==
  ASSUME TypeInv, NEW w \in Worker, NEW c \in Campaign, Claim(w, c)
  PROVE  TypeInv'
<1>1. TablesOK' /\ ApiOK'
  BY ClaimJobTables DEF Claim
<1>2. CountersOK'
  BY DEF TypeInv, CountersOK, Claim, ClaimJob
<1>3. pc' \in [Worker -> Place] /\ working' \in [Worker -> Campaign \cup {NoCampaign}]
  BY DEF TypeInv, RunOK, Claim, Place
<1>4. RunOK'
  BY <1>3 DEF TypeInv, RunOK, TxOK, Claim, ClaimJob
<1>5. QED BY <1>1, <1>2, <1>4 DEF TypeInv

LEMMA ReapInv == ASSUME TypeInv, NEW w \in Worker, Reap(w) PROVE TypeInv'
<1>1. TablesOK' /\ ApiOK'
  BY ClaimJobTables DEF Reap
<1>2. CountersOK' /\ RunOK'
  BY DEF TypeInv, CountersOK, RunOK, TxOK, Reap, ClaimJob
<1>3. QED BY <1>1, <1>2 DEF TypeInv

\* Steps on the queue row alone, or on the API's memory alone.
LEMMA RowInv ==
  ASSUME TypeInv, job' \in [Campaign -> JobRow],
         UNCHANGED <<status, cancelled, episodes, pc, local, tx, api>>
  PROVE  TypeInv'
BY DEF TypeInv, TablesOK, CountersOK, RunOK, TxOK, ApiOK, local, api

LEMMA HeartbeatInv == ASSUME TypeInv, NEW w \in Worker, Heartbeat(w) PROVE TypeInv'
<1>1. job' \in [Campaign -> JobRow]
  BY DEF TypeInv, TablesOK, Heartbeat, JobRow
<1>2. QED BY <1>1, RowInv DEF Heartbeat

LEMMA LeaseLostInv == ASSUME TypeInv, NEW w \in Worker, LeaseLost(w) PROVE TypeInv'
<1>1. /\ pc[w] \in {"validate", "prepare", "execute", "search", "abort", "close", "destroy", "finalize"}
      /\ Decides
  BY DEF LeaseLost, Awaits, At
<1>2. CASE Idle(w)
  BY <1>1, <1>2, IdleInv DEF TypeInv, Decides, tables, api, TablesOK, ApiOK
<1>3. CASE /\ StoppedAt[pc[w]] # "idle" /\ Goto(w, StoppedAt[pc[w]])
           /\ SetOutcome(w, "lost") /\ UNCHANGED <<working, current, left, tx>>
  <2>1. StoppedAt[pc[w]] \in Place /\ pc[w] # "idle"
    BY <1>1 DEF StoppedAt, Place
  <2>2. CountersOK'
    BY <1>3 DEF TypeInv, CountersOK, SetOutcome, Outcome
  <2>3. QED BY <1>1, <1>3, <2>1, <2>2, GotoInv
<1>4. QED BY <1>2, <1>3 DEF LeaseLost

LEMMA WallTimeInv == ASSUME TypeInv, NEW w \in Worker, WallTime(w) PROVE TypeInv'
<1>1. pc[w] \in {"validate", "prepare", "execute", "search", "abort", "close", "destroy", "finalize"}
  BY DEF WallTime, Awaits, At
<1>2. StoppedAt[pc[w]] \in Place \ {"idle"}
  BY <1>1 DEF WallTime, StoppedAt, Place
<1>3. CountersOK'
  BY DEF TypeInv, WallTime, CountersOK, SetOutcome, Outcome
<1>4. QED BY <1>1, <1>2, <1>3, GotoInv DEF WallTime

LEMMA ClockInv ==
  ASSUME TypeInv, NEW c \in Campaign, Expire(c) \/ BackoffElapses(c)
  PROVE  TypeInv'
<1>1. job' \in [Campaign -> JobRow]
  <2>1. job \in [Campaign -> JobRow]
    BY DEF TypeInv, TablesOK
  <2>2. CASE Expire(c)
    BY <2>1, <2>2 DEF Expire, JobRow
  <2>3. CASE BackoffElapses(c)
    BY <2>1, <2>3 DEF BackoffElapses, JobRow
  <2>4. QED BY <2>2, <2>3
<1>2. QED BY <1>1, RowInv DEF Expire, BackoffElapses

LEMMA CancelInv == ASSUME TypeInv, NEW c \in Campaign, Cancels(c) PROVE TypeInv'
<1>1. RunOK' /\ CountersOK'
  BY DEF TypeInv, RunOK, TxOK, CountersOK, Cancels, CancelRead, CancelFlush, CancelCommit, local
<1>2. CASE CancelRead(c)
  <2>1. ApiOK'
    BY <1>2 DEF TypeInv, TablesOK, ApiOK, CancelRead, CancelTx, JobStatus
  <2>2. QED BY <1>1, <1>2, <2>1 DEF TypeInv, TablesOK, CancelRead, tables
<1>3. CASE CancelFlush(c)
  <2>1. ApiOK'
    BY <1>3 DEF TypeInv, TablesOK, ApiOK, CancelFlush, CancelTx, JobRow
  <2>2. QED BY <1>1, <1>3, <2>1 DEF TypeInv, TablesOK, CancelFlush, tables
<1>4. CASE CancelCommit(c)
  <2>1. ApiOK'
    BY <1>4 DEF TypeInv, ApiOK, CancelCommit, CancelTx, NoCancelTx, CampaignStatus, JobStatus
  <2>2. status' \in [Campaign -> CampaignStatus] /\ cancelled' \in [Campaign -> BOOLEAN]
    BY <1>4 DEF TypeInv, TablesOK, CancelCommit, CampaignStatus
  <2>3. job' \in [Campaign -> JobRow]
    <3>1. job \in [Campaign -> JobRow]
      BY DEF TypeInv, TablesOK
    <3>2. \E s \in {job[c].status, "CANCELLED"} : job' = [job EXCEPT ![c].status = s]
      BY <1>4 DEF CancelCommit
    <3>3. QED BY <3>1, <3>2 DEF JobRow, JobStatus
  <2>4. QED BY <1>1, <1>4, <2>1, <2>2, <2>3 DEF TypeInv, TablesOK, CancelCommit
<1>5. QED BY <1>2, <1>3, <1>4 DEF Cancels

LEMMA RunStepInv == ASSUME TypeInv, NEW w \in Worker, RunStep(w) PROVE TypeInv'
BY StartInv, ValidateInv, ReadyInv, CheckInv, RunningInv, EnterInv, LoopInv,
   CreateEpisodeInv, CommitCreateInv, ProvisionInv, PrepareInv, ExecuteInv,
   SearchInv, UnlinkedInv, AbortInv, CloseInv, JudgeInv, DestroyInv, ClosedInv, AfterInv,
   FinalizeInv, FailInv, BlockInv, LostInv, CommitCampaignInv, CommitEpisodeInv,
   FinishInv, CommitFinishInv, FailOrRetryInv, CommitRetryInv, CommitGiveUpInv
   DEF RunStep

LEMMA TypeInvNext == TypeInv /\ [Next]_vars => TypeInv'
<1> SUFFICES ASSUME TypeInv, [Next]_vars PROVE TypeInv'
  OBVIOUS
<1>1. CASE UNCHANGED vars
  BY <1>1 DEF TypeInv, TablesOK, CountersOK, RunOK, TxOK, ApiOK, vars, tables, local, api
<1>2. ASSUME NEW w \in Worker, RunStep(w) \/ PollQueue(w) \/ Heartbeat(w) \/ LeaseLost(w)
                                \/ WallTime(w) \/ Crash(w)
      PROVE  TypeInv'
  BY <1>2, RunStepInv, ReapInv, ClaimInv, HeartbeatInv, LeaseLostInv, WallTimeInv, CrashInv DEF PollQueue
<1>3. ASSUME NEW c \in Campaign, Expire(c) \/ BackoffElapses(c) \/ Cancels(c)
      PROVE  TypeInv'
  BY <1>3, ClockInv, CancelInv
<1>4. QED BY <1>1, <1>2, <1>3 DEF Next

\* Every reachable state is well typed, with any number of workers and
\* campaigns (all of the code that writes the tables).
THEOREM TypeCorrect == Spec => []TypeOK
<1>1. Spec => []TypeInv
  BY TypeInvInit, TypeInvNext, PTL DEF Spec
<1>2. QED BY <1>1, TypeInvTypeOK, PTL

-----------------------------------------------------------------------------
(***************************************************************************)
(* OneRunner is not inductive: a second worker comes in through claim_job, *)
(* which looks at the row and not at the workers.  What keeps it out is    *)
(* that the row of a campaign somebody runs is leased to that worker, who  *)
(* renews it in time, or was cancelled under it, and so is not claimable.  *)
(***************************************************************************)
LeaseHeld(w, c) ==
  /\ job[c].owner = w
  /\ job[c].status \in {"LEASED", "CANCELLED"}

LeaseInv == \A w \in Worker, c \in Campaign : Runs(w, c) => LeaseHeld(w, c)

\* How a step may leave the claims of workers, and a row it does not settle.
Continues ==
  /\ working' = working
  /\ \A v \in Worker : pc'[v] = "idle" <=> pc[v] = "idle"

RowKept(c) ==
  /\ job'[c].owner = job[c].owner
  /\ job'[c].status \in {job[c].status, "CANCELLED"}

AttemptsKept == \A c \in Campaign : job'[c].attempts = job[c].attempts

-----------------------------------------------------------------------------
(* Every step but a claim continues all claims, or ends those of one worker.*)

LEMMA GotoContinues ==
  ASSUME RunOK, NEW w \in Worker, pc[w] # "idle", NEW next, next # "idle",
         Goto(w, next), UNCHANGED working
  PROVE  Continues
BY DEF RunOK, Goto, Continues

LEMMA OpenContinues ==
  ASSUME UNCHANGED <<pc, working>>
  PROVE  Continues
BY DEF Continues

LEMMA SetCampaignContinues ==
  ASSUME RunOK, NEW w \in Worker, pc[w] # "idle", NEW to, NEW next,
         next = "idle" => status[working[w]] # to,
         SetCampaign(w, to, next), UNCHANGED working
  PROVE  Continues
<1>1. (next # "idle" /\ Goto(w, next)) \/ Goto(w, "raise") \/ UNCHANGED pc
  BY DEF SetCampaign
<1>2. QED BY <1>1, GotoContinues, OpenContinues

LEMMA SetEpisodeContinues ==
  ASSUME RunOK, NEW w \in Worker, pc[w] # "idle", NEW to, NEW next, NEW illegal,
         next # "idle", illegal # "idle",
         SetEpisode(w, to, next, illegal), UNCHANGED working
  PROVE  Continues
<1>1. Goto(w, next) \/ Goto(w, illegal) \/ UNCHANGED pc
  BY DEF SetEpisode
<1>2. QED BY <1>1, GotoContinues, OpenContinues

Decide(w) ==
  \/ Start(w) \/ Validate(w) \/ Ready(w) \/ Running(w) \/ Enter(w)
  \/ Loop(w) \/ CreateEpisode(w)
  \/ Provision(w) \/ Prepare(w) \/ Execute(w) \/ Search(w) \/ Unlinked(w)
  \/ Abort(w) \/ Close(w) \/ Judge(w) \/ Destroy(w) \/ Closed(w)
  \/ After(w) \/ Finalize(w) \/ Fail(w) \/ Block(w) \/ Lost(w)
  \/ Finish(w) \/ FailOrRetry(w)

LEMMA DecideEffect ==
  ASSUME TypeInv, NEW w \in Worker, Decide(w)
  PROVE  UNCHANGED job /\ (Continues \/ Idle(w))
<1> RunOK
  BY DEF TypeInv
<1>1. CASE Start(w) \/ Validate(w) \/ Ready(w) \/ Running(w)
  <2>1. pc[w] # "idle" /\ UNCHANGED working /\ UNCHANGED job
    BY <1>1 DEF Start, Validate, Ready, Running, At, local, Decides, tables
  <2>2. \/ \E next \in {"finish", "validate", "ready", "raise", "block", "check", "enter"} :
             Goto(w, next)
        \/ \E next \in {"finish", "validate", "raise", "check", "enter"} :
             \E to \in CampaignStatus : SetCampaign(w, to, next)
    BY <1>1 DEF Start, Validate, Ready, Running, CampaignStatus
  <2>3. QED BY <2>1, <2>2, GotoContinues, SetCampaignContinues
<1>2. CASE \/ Enter(w) \/ Loop(w) \/ CreateEpisode(w) \/ Search(w) \/ Unlinked(w)
           \/ Closed(w) \/ Finalize(w)
  <2>1. pc[w] # "idle" /\ UNCHANGED working /\ UNCHANGED job
    BY <1>2 DEF Enter, Loop, CreateEpisode, Search, Unlinked, Closed, Finalize, At, local, Decides, tables
  <2>2. AfterEpisode[outcome[w]] # "idle"
    BY DEF TypeInv, CountersOK, Outcome, AfterEpisode
  <2>3. \/ UNCHANGED pc
        \/ \E next \in {"raise", "lost", "loop", "after", "create", "close", "closed", "finish",
                        AfterEpisode[outcome[w]]} : Goto(w, next)
    BY <1>2 DEF Enter, Loop, CreateEpisode, Search, Unlinked, Closed, Finalize
  <2>4. QED BY <2>1, <2>2, <2>3, GotoContinues, OpenContinues
<1>3. CASE Provision(w) \/ Prepare(w) \/ Execute(w) \/ Abort(w) \/ Close(w) \/ Judge(w) \/ Destroy(w)
  <2>1. pc[w] # "idle" /\ UNCHANGED working /\ UNCHANGED job
    BY <1>3 DEF Provision, Prepare, Execute, Abort, Close, Judge, Destroy, At, local, Decides, tables
  <2>2. \E next, illegal \in Place \ {"idle"} :
          \/ Goto(w, next)
          \/ \E to : SetEpisode(w, to, next, illegal)
    BY <1>3 DEF Provision, Prepare, Execute, Abort, Close, Judge, Destroy, Place
  <2>3. QED BY <2>1, <2>2, GotoContinues, SetEpisodeContinues
<1>4. CASE After(w) \/ Block(w)
  <2>1. pc[w] # "idle" /\ UNCHANGED working /\ UNCHANGED job
    BY <1>4 DEF After, Block, At, local, Decides, tables
  <2>2. \/ Goto(w, "fail") \/ Goto(w, "finalize")
        \/ \E next \in {"finalize", "finish"}, to \in CampaignStatus : SetCampaign(w, to, next)
    BY <1>4 DEF After, Block, CampaignStatus
  <2>3. QED BY <2>1, <2>2, GotoContinues, SetCampaignContinues
<1>5. CASE Fail(w)
  <2>1. pc[w] # "idle" /\ UNCHANGED job
    BY <1>5 DEF Fail, At, Decides, tables
  <2>2. CASE Goto(w, "finish") /\ UNCHANGED local
    BY <2>1, <2>2, GotoContinues DEF local
  <2>3. ASSUME NEW end, status[working[w]] \notin TerminalCampaign,
               SetCampaign(w, "FAILED", end), UNCHANGED local
        PROVE  Continues
    <3>1. status[working[w]] # "FAILED"
      BY <2>3 DEF TerminalCampaign
    <3>2. QED BY <2>1, <2>3, <3>1, SetCampaignContinues DEF local
  <2>4. QED BY <1>5, <2>1, <2>2, <2>3 DEF Fail
<1>6. CASE Lost(w) \/ Finish(w) \/ FailOrRetry(w)
  <2>1. pc[w] # "idle" /\ UNCHANGED job
    BY <1>6 DEF Lost, Finish, FailOrRetry, At, Decides, tables
  <2>2. \/ Idle(w)
        \/ Goto(w, "fail") /\ UNCHANGED local
        \/ UNCHANGED <<pc, local>>
    BY <1>6 DEF Lost, Finish, FailOrRetry, NotOurs
  <2>3. QED BY <2>1, <2>2, GotoContinues, OpenContinues DEF local
<1>7. QED BY <1>1, <1>2, <1>3, <1>4, <1>5, <1>6 DEF Decide

-----------------------------------------------------------------------------
(* The effect of each kind of step on the queue.                           *)

\* A step of a run continues the claim it works on or ends it, and touches
\* no other row; a row under a live claim can at most become CANCELLED.
LEMMA RunStepEffect ==
  ASSUME TypeInv, NEW w \in Worker, RunStep(w)
  PROVE  /\ AttemptsKept
         /\ \/ Continues /\ \A c \in Campaign : RowKept(c)
            \/ Idle(w) /\ \A c \in Campaign \ {working[w]} : RowKept(c)
<1> RunOK
  BY DEF TypeInv
<1>1. CASE Decide(w)
  BY <1>1, DecideEffect DEF AttemptsKept, RowKept
<1>2. CASE Check(w)
  <2>1. Continues
    <3>1. pc[w] # "idle" /\ UNCHANGED working /\ (Goto(w, "fail") \/ Goto(w, "running"))
      BY <1>2 DEF Check, At, local
    <3>2. QED BY <3>1, GotoContinues
  <2>2. \/ UNCHANGED job
        \/ \E s \in {job[working[w]].status, "CANCELLED"} :
             job' = [job EXCEPT ![working[w]].status = s]
    BY <1>2 DEF Check, CancelBy
  <2>3. job \in [Campaign -> JobRow]
    BY DEF TypeInv, TablesOK
  <2>4. AttemptsKept /\ \A c \in Campaign : RowKept(c)
    BY <2>2, <2>3 DEF AttemptsKept, RowKept, JobRow
  <2>5. QED BY <2>1, <2>4
<1>3. CASE CommitCreate(w) \/ CommitEpisode(w)
  <2>1. /\ pc[w] # "idle" /\ tx[w].next # "idle" /\ Goto(w, tx[w].next)
        /\ UNCHANGED <<working, job>>
    BY <1>3 DEF RunOK, TxOK, CommitCreate, CommitEpisode, local
  <2>2. Continues
    BY <2>1, GotoContinues
  <2>3. QED BY <2>1, <2>2 DEF AttemptsKept, RowKept
<1>4. CASE CommitCampaign(w)
  <2>1. pc[w] # "idle" /\ UNCHANGED job
    BY <1>4 DEF RunOK, TxOK, CommitCampaign
  <2>2. Idle(w) \/ (tx[w].next # "idle" /\ Goto(w, tx[w].next) /\ UNCHANGED working)
    BY <1>4 DEF CommitCampaign, local
  <2>3. Idle(w) \/ Continues
    BY <2>1, <2>2, GotoContinues
  <2>4. QED BY <2>1, <2>3 DEF AttemptsKept, RowKept
<1>5. CASE CommitFinish(w) \/ CommitRetry(w) \/ CommitGiveUp(w)
  <2>1. working[w] \in Campaign /\ job \in [Campaign -> JobRow]
    BY <1>5 DEF TypeInv, TablesOK, RunOK, TxOK, CommitFinish, CommitRetry, CommitGiveUp
  <2>2. AttemptsKept /\ \A c \in Campaign \ {working[w]} : RowKept(c)
    <3>1. CASE CommitFinish(w)
      BY <2>1, <3>1 DEF CommitFinish, AttemptsKept, RowKept, JobRow
    <3>2. CASE CommitRetry(w)
      BY <2>1, <3>2 DEF CommitRetry, AttemptsKept, RowKept, JobRow
    <3>3. CASE CommitGiveUp(w)
      BY <2>1, <3>3 DEF CommitGiveUp, FailedRow, AttemptsKept, RowKept, JobRow
    <3>4. QED BY <1>5, <3>1, <3>2, <3>3
  <2>3. Idle(w)
    BY <1>5 DEF CommitFinish, CommitRetry, CommitGiveUp
  <2>4. QED BY <2>2, <2>3
<1>6. QED BY <1>1, <1>2, <1>3, <1>4, <1>5 DEF RunStep, Decide

OtherStep ==
  \/ \E w \in Worker : Heartbeat(w) \/ LeaseLost(w) \/ WallTime(w) \/ Crash(w)
  \/ \E c \in Campaign : Expire(c) \/ BackoffElapses(c) \/ Cancels(c)
  \/ UNCHANGED vars

LEMMA OtherStepEffect ==
  ASSUME TypeInv, LeaseInv, OtherStep
  PROVE  /\ AttemptsKept
         /\ Continues \/ \E v \in Worker : pc[v] # "idle" /\ Idle(v)
         /\ \A v \in Worker, d \in Campaign : Runs(v, d) => LeaseHeld(v, d)'
<1> DEFINE Effect ==
             /\ AttemptsKept
             /\ Continues \/ \E v \in Worker : pc[v] # "idle" /\ Idle(v)
             /\ \A v \in Worker, d \in Campaign : Runs(v, d) => LeaseHeld(v, d)'
<1> RunOK /\ job \in [Campaign -> JobRow]
  BY DEF TypeInv, TablesOK
<1>1. ASSUME NEW w \in Worker, Heartbeat(w) PROVE Effect
  <2>1. Continues
    BY <1>1, OpenContinues DEF Heartbeat, local
  <2>2. working[w] \in Campaign
    BY <1>1 DEF RunOK, Heartbeat, Awaits, At
  <2>3. AttemptsKept /\ \A d \in Campaign :
           /\ job'[d].owner = job[d].owner /\ job'[d].status = job[d].status
    BY <1>1, <2>2 DEF Heartbeat, AttemptsKept, JobRow
  <2>4. QED BY <2>1, <2>3 DEF LeaseInv, LeaseHeld
<1>2. ASSUME NEW w \in Worker, LeaseLost(w) PROVE Effect
  <2>1. pc[w] # "idle" /\ UNCHANGED job
    BY <1>2 DEF LeaseLost, Awaits, At, Decides, tables
  <2>2. Idle(w) \/ \E next : next # "idle" /\ Goto(w, next) /\ UNCHANGED working
    BY <1>2 DEF LeaseLost
  <2>3. Idle(w) \/ Continues
    BY <2>1, <2>2, GotoContinues
  <2>4. QED BY <2>1, <2>3 DEF AttemptsKept, LeaseInv, LeaseHeld
<1>3. ASSUME NEW w \in Worker, WallTime(w) PROVE Effect
  <2>1. /\ pc[w] \in {"prepare", "execute", "search", "abort", "close", "destroy"}
        /\ UNCHANGED <<working, job>>
    BY <1>3 DEF WallTime, Awaits, At, Decides, tables
  <2>2. StoppedAt[pc[w]] # "idle" /\ Goto(w, StoppedAt[pc[w]])
    BY <1>3, <2>1 DEF WallTime, StoppedAt
  <2>3. Continues
    BY <2>1, <2>2, GotoContinues
  <2>4. QED BY <2>1, <2>3 DEF AttemptsKept, LeaseInv, LeaseHeld
<1>4. ASSUME NEW w \in Worker, Crash(w) PROVE Effect
  BY <1>4 DEF Crash, tables, AttemptsKept, LeaseInv, LeaseHeld
<1>5. ASSUME NEW c \in Campaign, Expire(c) PROVE Effect
  <2>1. Continues
    BY <1>5, OpenContinues DEF Expire, local
  <2>2. AttemptsKept /\ \A d \in Campaign :
           /\ job'[d].owner = job[d].owner /\ job'[d].status = job[d].status
    BY <1>5 DEF Expire, AttemptsKept, JobRow
  <2>3. QED BY <2>1, <2>2 DEF LeaseInv, LeaseHeld
<1>6. ASSUME NEW c \in Campaign, BackoffElapses(c) PROVE Effect
  <2>1. Continues
    BY <1>6, OpenContinues DEF BackoffElapses, local
  <2>2. AttemptsKept /\ \A d \in Campaign :
           /\ job'[d].owner = job[d].owner /\ job'[d].status = job[d].status
    BY <1>6 DEF BackoffElapses, AttemptsKept, JobRow
  <2>3. QED BY <2>1, <2>2 DEF LeaseInv, LeaseHeld
<1>7. ASSUME NEW c \in Campaign, Cancels(c) PROVE Effect
  <2>1. Continues
    BY <1>7, OpenContinues DEF Cancels, CancelRead, CancelFlush, CancelCommit, local
  <2>2. UNCHANGED job \/ \E s \in {job[c].status, "CANCELLED"} : job' = [job EXCEPT ![c].status = s]
    BY <1>7 DEF Cancels, CancelRead, CancelFlush, CancelCommit, tables
  <2>3. AttemptsKept /\ \A d \in Campaign : RowKept(d)
    BY <2>2 DEF AttemptsKept, RowKept, JobRow
  <2>4. QED BY <2>1, <2>3 DEF LeaseInv, LeaseHeld, RowKept
<1>8. CASE UNCHANGED vars
  BY <1>8 DEF vars, tables, local, Continues, AttemptsKept, LeaseInv, LeaseHeld
<1>9. QED BY <1>1, <1>2, <1>3, <1>4, <1>5, <1>6, <1>7, <1>8 DEF OtherStep

\* A claim takes a row nobody's run holds, and counts itself.
LEMMA ClaimEffect ==
  ASSUME TypeInv, TimelyHeartbeats, InTime, LeaseInv,
         NEW w \in Worker, NEW c \in Campaign, Claim(w, c)
  PROVE  /\ pc[w] = "idle"
         /\ \A v \in Worker : ~ Runs(v, c)
         /\ \A v \in Worker, d \in Campaign :
              Runs(v, d)' <=> (Runs(v, d) \/ (v = w /\ d = c))
         /\ \A v \in Worker, d \in Campaign : Runs(v, d)' => LeaseHeld(v, d)'
         /\ job[c].attempts < MaxAttempts
         /\ \A d \in Campaign :
              job'[d].attempts = IF d = c THEN job[d].attempts + 1 ELSE job[d].attempts
<1> job \in [Campaign -> JobRow] /\ RunOK
  BY DEF TypeInv, TablesOK
<1>1. /\ pc[w] = "idle" /\ c \in Claimable /\ ClaimJob(w, {c})
      /\ pc' = [pc EXCEPT ![w] = "start"] /\ working' = [working EXCEPT ![w] = c]
  BY DEF Claim
<1>2. \A v \in Worker : ~ Runs(v, c)
  BY <1>1 DEF Claimable, InTime, LeaseInv, LeaseHeld
<1>3. \A v \in Worker, d \in Campaign : Runs(v, d)' <=> (Runs(v, d) \/ (v = w /\ d = c))
  BY <1>1 DEF RunOK, Runs
<1>4. LeaseHeld(w, c)'
  BY <1>1 DEF ClaimJob, LeaseHeld, LeasedRow, JobRow
<1>5. ASSUME NEW v \in Worker, NEW d \in Campaign, Runs(v, d)
      PROVE  LeaseHeld(v, d)'
  <2>1. d # c /\ LeaseHeld(v, d)
    BY <1>2, <1>5 DEF LeaseInv
  <2>2. d \notin Exhausted
    BY <1>5, <2>1 DEF Exhausted, InTime, LeaseHeld
  <2>3. job'[d] = job[d]
    BY <1>1, <2>1, <2>2 DEF ClaimJob
  <2>4. QED BY <2>1, <2>3 DEF LeaseHeld
<1>6. \A d \in Campaign :
         job'[d].attempts = IF d = c THEN job[d].attempts + 1 ELSE job[d].attempts
  BY <1>1 DEF ClaimJob, LeasedRow, FailedRow, JobRow
<1>7. job[c].attempts < MaxAttempts
  BY <1>1 DEF Claimable
<1>8. QED BY <1>1, <1>2, <1>3, <1>4, <1>5, <1>6, <1>7

LEMMA ReapEffect ==
  ASSUME TypeInv, TimelyHeartbeats, InTime, LeaseInv, NEW w \in Worker, Reap(w)
  PROVE  /\ AttemptsKept /\ Continues
         /\ \A v \in Worker, d \in Campaign : Runs(v, d) => LeaseHeld(v, d)'
<1> job \in [Campaign -> JobRow]
  BY DEF TypeInv, TablesOK
<1>1. AttemptsKept
  BY DEF Reap, ClaimJob, FailedRow, JobRow, AttemptsKept
<1>2. ASSUME NEW v \in Worker, NEW d \in Campaign, Runs(v, d)
      PROVE  LeaseHeld(v, d)'
  <2>1. LeaseHeld(v, d)
    BY <1>2 DEF LeaseInv
  <2>2. d \notin Exhausted
    BY <1>2, <2>1 DEF Exhausted, InTime, LeaseHeld
  <2>3. job'[d] = job[d]
    BY <2>2 DEF Reap, ClaimJob
  <2>4. QED BY <2>1, <2>3 DEF LeaseHeld
<1>3. QED BY <1>1, <1>2, OpenContinues DEF Reap

-----------------------------------------------------------------------------
(* The lease invariant.                                                    *)

LEMMA ClaimsContinue ==
  ASSUME Continues, NEW v \in Worker, NEW d \in Campaign
  PROVE  Runs(v, d)' <=> Runs(v, d)
BY DEF Continues, Runs

\* When worker w is done, the claims of the others are what they were.
LEMMA ClaimEnds ==
  ASSUME RunOK, NEW w \in Worker, Idle(w), NEW v \in Worker, NEW d \in Campaign
  PROVE  Runs(v, d)' <=> (Runs(v, d) /\ v # w)
BY DEF RunOK, Idle, Goto, Runs

LEMMA OneClaim ==
  ASSUME LeaseInv, NEW v \in Worker, NEW w \in Worker, NEW c \in Campaign,
         Runs(v, c), Runs(w, c)
  PROVE  v = w
BY DEF LeaseInv, LeaseHeld

LEMMA RunStepLease ==
  ASSUME TypeInv, LeaseInv, NEW w \in Worker, RunStep(w)
  PROVE  LeaseInv'
<1> SUFFICES ASSUME NEW v \in Worker, NEW d \in Campaign, Runs(v, d)'
             PROVE  LeaseHeld(v, d)'
  BY DEF LeaseInv
<1> RunOK
  BY DEF TypeInv
<1>1. Runs(v, d) /\ LeaseHeld(v, d)
  BY RunStepEffect, ClaimsContinue, ClaimEnds DEF LeaseInv
<1>2. RowKept(d)
  <2>1. CASE \A c \in Campaign : RowKept(c)
    BY <2>1
  <2>2. CASE Idle(w) /\ \A c \in Campaign \ {working[w]} : RowKept(c)
    <3>1. pc[w] # "idle"
      BY DEF RunStep, RunOK, TxOK, Start, Validate, Ready, Check, Running, Enter, Loop,
             CreateEpisode, CommitCreate, Provision, Prepare, Execute, Search, Unlinked,
             Abort, Close, Judge, Destroy, Closed, After, Finalize, Fail, Block,
             Lost, CommitCampaign, CommitEpisode, Finish, CommitFinish,
             FailOrRetry, CommitRetry, CommitGiveUp, At
    <3>2. v # w
      BY <2>2, ClaimEnds
    <3>3. d # working[w]
      BY <1>1, <3>1, <3>2, OneClaim DEF Runs
    <3>4. QED BY <2>2, <3>3
  <2>3. QED BY <2>1, <2>2, RunStepEffect
<1>3. QED BY <1>1, <1>2 DEF LeaseHeld, RowKept

LEMMA LeaseInvNext ==
  ASSUME TimelyHeartbeats, TypeInv, LeaseInv, [Next]_vars
  PROVE  LeaseInv'
<1> RunOK
  BY DEF TypeInv
<1>1. ASSUME NEW w \in Worker, RunStep(w) PROVE LeaseInv'
  BY <1>1, RunStepLease
<1>2. ASSUME NEW w \in Worker, PollQueue(w) PROVE LeaseInv'
  <2> InTime
    BY <1>2 DEF PollQueue
  <2>1. CASE Reap(w)
    BY <2>1, ReapEffect, ClaimsContinue DEF LeaseInv
  <2>2. CASE \E c \in Campaign : Claim(w, c)
    BY <2>2, ClaimEffect DEF LeaseInv
  <2>3. QED BY <1>2, <2>1, <2>2 DEF PollQueue
<1>3. ASSUME OtherStep PROVE LeaseInv'
  <2>1. \A v \in Worker, d \in Campaign : Runs(v, d)' => Runs(v, d)
    BY <1>3, OtherStepEffect, ClaimsContinue, ClaimEnds
  <2>2. \A v \in Worker, d \in Campaign : Runs(v, d) => LeaseHeld(v, d)'
    BY <1>3, OtherStepEffect
  <2>3. QED BY <2>1, <2>2 DEF LeaseInv
<1>4. QED BY <1>1, <1>2, <1>3 DEF Next, OtherStep

LEMMA LeaseInvInit == Init => LeaseInv
BY DEF Init, LeaseInv, Runs

LEMMA LeaseInvOneRunner == LeaseInv => OneRunner
BY DEF LeaseInv, LeaseHeld, OneRunner

\* However many workers there are and whenever they crash, a campaign is
\* executed by one of them at a time, provided that live workers renew their
\* leases in time (claim_job, heartbeat, finish_job, fail_or_retry_job).
THEOREM OneRunnerAlways == Spec => []OneRunner
<1>1. CASE TimelyHeartbeats
  <2>1. Spec => [](TypeInv /\ LeaseInv)
    BY <1>1, TypeInvInit, TypeInvNext, LeaseInvInit, LeaseInvNext, PTL DEF Spec
  <2>2. QED BY <2>1, LeaseInvOneRunner, PTL
<1>2. CASE ~ TimelyHeartbeats
  <2>1. OneRunner
    BY <1>2 DEF OneRunner
  <2>2. QED BY <2>1, PTL
<1>3. QED BY <1>1, <1>2

-----------------------------------------------------------------------------
(* The ledger: a claim begins an attempt, the end of a run ends it, and    *)
(* nothing else concerns it.                                               *)

LEMMA RunnerIs ==
  ASSUME LeaseInv, NEW c \in Campaign
  PROVE  /\ \A w \in Worker : Runs(w, c) => Runner(c) = w
         /\ (\A w \in Worker : ~ Runs(w, c)) => Runner(c) = NoWorker
<1>1. ASSUME NEW w \in Worker, Runs(w, c) PROVE Runner(c) = w
  <2>1. Runners(c) = {w}
    BY <1>1, OneClaim DEF Runners
  <2>2. QED BY <2>1 DEF Runner
<1>2. (\A w \in Worker : ~ Runs(w, c)) => Runner(c) = NoWorker
  BY DEF Runners, Runner
<1>3. QED BY <1>1, <1>2

LEMMA LedgerStutters ==
  ASSUME LeaseInv, LeaseInv', AttemptsKept, Continues
  PROVE  UNCHANGED Ledger!ledger
<1>1. ASSUME NEW c \in Campaign PROVE Runner(c)' = Runner(c)
  <2>1. \A w \in Worker : Runs(w, c)' <=> Runs(w, c)
    BY ClaimsContinue
  <2>2. Runners(c)' = Runners(c)
    BY <2>1 DEF Runners
  <2>3. QED BY <2>2 DEF Runner
<1>2. QED BY <1>1 DEF Ledger!ledger, AttemptsKept

LEMMA LedgerEnds ==
  ASSUME TypeInv, LeaseInv, LeaseInv', AttemptsKept,
         NEW w \in Worker, pc[w] # "idle", Idle(w)
  PROVE  Ledger!Next
<1>1. PICK c \in Campaign : c = working[w]
  BY DEF TypeInv, RunOK
<1>2. Runs(w, c)
  BY <1>1 DEF Runs
<1>3. Runner(c) = w /\ w # NoWorker
  BY <1>2, RunnerIs, ConstantsAssumption
<1>4. Runner(c)' = NoWorker
  <2>1. ASSUME NEW v \in Worker, Runs(v, c)' PROVE FALSE
    <3>1. Runs(v, c) /\ v # w
      BY <2>1, ClaimEnds DEF TypeInv
    <3>2. QED BY <1>2, <3>1, OneClaim
  <2>2. Runners(c)' = {}
    BY <2>1 DEF Runners
  <2>3. QED BY <2>2 DEF Runner
<1>5. ASSUME NEW d \in Campaign, d # c PROVE Runner(d)' = Runner(d)
  <2>1. ~ Runs(w, d)
    BY <1>1, <1>5 DEF Runs
  <2>2. \A v \in Worker : Runs(v, d)' <=> Runs(v, d)
    BY <2>1, ClaimEnds DEF TypeInv
  <2>3. Runners(d)' = Runners(d)
    BY <2>2 DEF Runners
  <2>4. QED BY <2>3 DEF Runner
<1>6. Ledger!End(c)
  BY <1>3, <1>4, <1>5 DEF Ledger!End, AttemptsKept
<1>7. QED BY <1>6 DEF Ledger!Next

LEMMA LedgerBegins ==
  ASSUME TypeInv, TimelyHeartbeats, InTime, LeaseInv, LeaseInv', NEW w \in Worker, NEW c \in Campaign, Claim(w, c)
  PROVE  Ledger!Next
<1>1. Runner(c) = NoWorker
  BY ClaimEffect, RunnerIs
<1>2. ASSUME NEW d \in Campaign PROVE Runner(d) # w
  <2>1. ~ Runs(w, d)
    BY ClaimEffect DEF Runs
  <2>2. CASE Runners(d) = {}
    BY <2>2, ConstantsAssumption DEF Runner
  <2>3. CASE \E v \in Worker : Runs(v, d)
    BY <2>1, <2>3, RunnerIs
  <2>4. QED BY <2>2, <2>3 DEF Runners
<1>3. Runner(c)' = w
  <2>1. Runners(c)' = {w}
    BY ClaimEffect DEF Runners
  <2>2. QED BY <2>1 DEF Runner
<1>4. ASSUME NEW d \in Campaign, d # c PROVE Runner(d)' = Runner(d)
  <2>1. Runners(d)' = Runners(d)
    BY <1>4, ClaimEffect DEF Runners
  <2>2. QED BY <2>1 DEF Runner
<1>5. job[c].attempts < MaxAttempts
  BY ClaimEffect
<1>6. \A d \in Campaign :
         job'[d].attempts = IF d = c THEN job[d].attempts + 1 ELSE job[d].attempts
  BY ClaimEffect
<1>7. Ledger!Begin(w, c)
  BY <1>1, <1>2, <1>3, <1>4, <1>5, <1>6 DEF Ledger!Begin
<1>8. QED BY <1>7 DEF Ledger!Next

LEMMA LedgerStep ==
  ASSUME TimelyHeartbeats, TypeInv, LeaseInv, LeaseInv', [Next]_vars
  PROVE  [Ledger!Next]_(Ledger!ledger)
<1> RunOK
  BY DEF TypeInv
<1>1. ASSUME NEW w \in Worker, RunStep(w) PROVE [Ledger!Next]_(Ledger!ledger)
  <2>1. pc[w] # "idle"
    BY <1>1 DEF RunStep, RunOK, TxOK, Start, Validate, Ready, Check, Running, Enter, Loop,
             CreateEpisode, CommitCreate, Provision, Prepare, Execute, Search, Unlinked,
             Abort, Close, Judge, Destroy, Closed, After, Finalize, Fail, Block,
             Lost, CommitCampaign, CommitEpisode, Finish, CommitFinish,
             FailOrRetry, CommitRetry, CommitGiveUp, At
  <2>2. QED BY <1>1, <2>1, RunStepEffect, LedgerStutters, LedgerEnds
<1>2. ASSUME NEW w \in Worker, PollQueue(w) PROVE [Ledger!Next]_(Ledger!ledger)
  BY <1>2, ReapEffect, LedgerStutters, LedgerBegins DEF PollQueue
<1>3. ASSUME OtherStep PROVE [Ledger!Next]_(Ledger!ledger)
  BY <1>3, OtherStepEffect, LedgerStutters, LedgerEnds
<1>4. QED BY <1>1, <1>2, <1>3 DEF Next, OtherStep

LEMMA LedgerInit == Init => Ledger!Init
<1> SUFFICES ASSUME Init PROVE Ledger!Init
  OBVIOUS
<1>1. \A c \in Campaign : Runners(c) = {}
  BY DEF Init, Runners, Runs
<1>2. QED BY <1>1 DEF Init, QueuedJob, Runner, Ledger!Init

\* The queue implements the ledger of attempts: whatever workers, crashes,
\* cancellations and clocks do, attempts on a campaign follow one another,
\* each by one worker, and there are at most MaxAttempts of them.
THEOREM QueueKeepsLedger ==
  ASSUME TimelyHeartbeats
  PROVE  Spec => Ledger!Spec
<1>1. Spec => [](TypeInv /\ LeaseInv)
  BY TypeInvInit, TypeInvNext, LeaseInvInit, LeaseInvNext, PTL DEF Spec
<1>2. TypeInv /\ LeaseInv /\ LeaseInv' /\ [Next]_vars => [Ledger!Next]_(Ledger!ledger)
  BY LedgerStep
<1>3. QED BY <1>1, <1>2, LedgerInit, PTL DEF Spec, Ledger!Spec

-----------------------------------------------------------------------------
(***************************************************************************)
(* That an episode is left open only under its driver is not inductive.    *)
(* What the driver does next depends on the status it finds, so the status *)
(* must fit the place of the run (Stage): otherwise a refused change of    *)
(* status would lead out of the episode with the episode still open.  An   *)
(* open transaction must fit the row it is going to be written to, and a   *)
(* leased row must have been counted, or its claim would recover nothing.  *)
(***************************************************************************)
Over == EpisodeStatus \ OpenEpisode

Stage ==
  [provision |-> {"PENDING"}, prepare |-> {"PROVISIONING"}, execute |-> {"READY"},
   search |-> {"EXECUTING"}, abort |-> {"PROVISIONING", "READY"}, close |-> {"EXECUTING"},
   judge |-> {"VERIFYING"}, destroy |-> Over, closed |-> Over]

InEpisode == {"provision", "prepare", "execute", "search", "abort", "close", "judge",
              "destroy", "closed"}

\* A cancellation in the except branch of _new_environment, or a factory that
\* failed after it, left the episode as it was.
Abandons(w) == pc[w] = "closed" /\ outcome[w] \in {"error", "timeout", "lost"}

\* The episode the worker drives, and no other of its campaign, may be open;
\* the one it abandoned too, once its run is leaving.
Drives(w) ==
  /\ pc[w] \in InEpisode => /\ current[w] \in DOMAIN episodes[working[w]]
                            /\ CurrentStatus(w) \in Stage[pc[w]] \/ Abandons(w)
  /\ pc[w] \notin InEpisode => current[w] = 0
  /\ pc[w] # "idle" /\ ~ Leaving(w) => OpenIn(episodes[working[w]]) \subseteq {current[w]}

Undecided(c) == cancelled[c] \/ status[c] \notin TerminalCampaign

TxFits(w) ==
  /\ tx[w].kind = "create" => pc[w] = "create" /\ tx[w].next = "provision"
  /\ tx[w].kind = "episode" =>
       /\ pc[w] \in InEpisode /\ tx[w].next \in InEpisode
       /\ tx[w].to \in Stage[tx[w].next] \cap EpisodeTransitions[CurrentStatus(w)]
  /\ tx[w].kind \in {"campaign", "finish", "retry", "giveup"} =>
       pc[w] \notin InEpisode /\ tx[w].next \notin InEpisode
  /\ tx[w].kind = "campaign" => Undecided(working[w]) /\ (Leaving(w) => tx[w].next = "idle")
  /\ tx[w].kind = "finish" => ~ Leaving(w)
  /\ tx[w].kind = "retry" => job[working[w]].attempts < MaxAttempts
  /\ tx[w].kind = "giveup" => /\ tx[w].stale = OpenIn(episodes[working[w]])
                              /\ tx[w].to = "FAILED" => Undecided(working[w])

\* Without a runner an episode is open only in a row that was claimed before
\* and can be claimed again.
Unclaimed(c) ==
  /\ job[c].status = "LEASED" \/ (\E w \in Worker : Runs(w, c)) => job[c].attempts > 0
  /\ job[c].status = "PENDING" => job[c].attempts < MaxAttempts
  /\ /\ \A w \in Worker : ~ Runs(w, c)
     /\ \/ job[c].status \in {"COMPLETED", "FAILED"}
        \/ job[c].status = "PENDING" /\ job[c].attempts = 0
     => OpenIn(episodes[c]) = {}

EpisodeInv ==
  /\ \A w \in Worker : Drives(w) /\ TxFits(w)
  /\ \A c \in Campaign : Unclaimed(c)

\* What a step of worker w leaves alone: other workers and their campaigns.
Frame(w) ==
  /\ \A v \in Worker \ {w} : /\ pc'[v] = pc[v] /\ working'[v] = working[v]
                             /\ current'[v] = current[v] /\ tx'[v] = tx[v]
                             /\ outcome'[v] = outcome[v]
  /\ \A c \in Campaign \ {working[w]} : /\ episodes'[c] = episodes[c]
                                        /\ status'[c] = status[c]
                                        /\ cancelled'[c] = cancelled[c]

\* What no step may do to a campaign: change a result or an ending.
Lasts(c) ==
  /\ \A i \in DOMAIN episodes[c] :
       episodes[c][i] \notin OpenEpisode => episodes'[c][i] \in {episodes[c][i], "DESTROYED"}
  /\ status[c] \in TerminalCampaign /\ ~ cancelled'[c] => status'[c] = status[c]

OwnOutcome(w) == UNCHANGED outcome \/ \E o : SetOutcome(w, o)

Good(w) == Frame(w) /\ Drives(w)' /\ TxFits(w)' /\ Lasts(working[w])

-----------------------------------------------------------------------------
(* The ways a run goes on.                                                 *)

LEMMA FrameOfWorker ==
  ASSUME RunOK, CountersOK, NEW w \in Worker,
         \/ \E p : Goto(w, p) /\ UNCHANGED tx
         \/ \E kind, to, next, stale : Open(w, kind, to, next, stale) /\ UNCHANGED pc
         \/ \E p : Goto(w, p) /\ tx' = [tx EXCEPT ![w] = NoTx],
         UNCHANGED working,
         UNCHANGED current \/ \E n : current' = [current EXCEPT ![w] = n],
         OwnOutcome(w),
         UNCHANGED <<status, cancelled, episodes>>
  PROVE  Frame(w) /\ \A c \in Campaign : Lasts(c)
BY DEF RunOK, CountersOK, Goto, Open, Frame, Lasts, OwnOutcome, SetOutcome

LEMMA IdleGood ==
  ASSUME RunOK, CountersOK, NEW w \in Worker, Idle(w), UNCHANGED <<status, cancelled, episodes>>
  PROVE  Good(w)
<1>1. pc'[w] = "idle" /\ current'[w] = 0 /\ tx'[w] = NoTx
  BY DEF RunOK, CountersOK, Idle, Goto
<1>2. Drives(w)' /\ TxFits(w)'
  BY <1>1 DEF Drives, TxFits, NoTx, InEpisode
<1>3. Frame(w) /\ Lasts(working[w])
  BY DEF RunOK, CountersOK, Idle, Goto, Frame, Lasts
<1>4. QED BY <1>2, <1>3 DEF Good

\* Outside an episode.
LEMMA GotoGood ==
  ASSUME RunOK, CountersOK, NEW w \in Worker, Drives(w), TxFits(w), pc[w] # "idle",
         pc[w] \notin InEpisode, tx[w].kind = "none", NEW next, next \notin InEpisode,
         OwnOutcome(w), Leaving(w) => Leaving(w)',
         Goto(w, next), UNCHANGED <<working, current, tx, status, cancelled, episodes>>
  PROVE  Good(w)
<1>1. pc'[w] = next
  BY DEF RunOK, Goto
<1>2. Drives(w)'
  BY <1>1 DEF Drives
<1>3. TxFits(w)'
  BY <1>1 DEF TxFits
<1>4. working[w] \in Campaign
  BY DEF RunOK
<1>5. QED BY <1>2, <1>3, <1>4, FrameOfWorker DEF Good

LEMMA OpenGood ==
  ASSUME RunOK, CountersOK, NEW w \in Worker, Drives(w), TxFits(w), pc[w] # "idle",
         pc[w] \notin InEpisode, NEW kind \in {"campaign", "finish", "retry", "giveup"},
         NEW to, NEW next, next \notin InEpisode, NEW stale,
         kind = "campaign" => Undecided(working[w]) /\ (Leaving(w) => next = "idle"),
         kind = "finish" => ~ Leaving(w),
         kind = "retry" => job'[working[w]].attempts < MaxAttempts,
         kind = "giveup" => /\ stale = OpenIn(episodes[working[w]])
                            /\ to = "FAILED" => Undecided(working[w]),
         Open(w, kind, to, next, stale),
         UNCHANGED <<pc, working, current, outcome, status, cancelled, episodes>>
  PROVE  Good(w)
<1>1. tx'[w] = [kind |-> kind, to |-> to, next |-> next, stale |-> stale]
  BY DEF RunOK, Open
<1>2. Drives(w)' /\ (Leaving(w)' <=> Leaving(w))
  BY DEF Drives, CurrentStatus, Abandons, Leaving
<1>3. TxFits(w)'
  BY <1>1, <1>2 DEF TxFits, Undecided
<1>4. working[w] \in Campaign /\ OwnOutcome(w)
  BY DEF RunOK, OwnOutcome
<1>5. QED BY <1>2, <1>3, <1>4, FrameOfWorker DEF Good

LEMMA FinalStatuses == \A from \in TerminalCampaign : CampaignTransitions[from] = {}
BY DEF TerminalCampaign, CampaignTransitions

LEMMA SetCampaignGood ==
  ASSUME RunOK, CountersOK, NEW w \in Worker, Drives(w), TxFits(w), pc[w] # "idle",
         pc[w] \notin InEpisode, tx[w].kind = "none", NEW to, NEW next, next \notin InEpisode,
         Leaving(w) => next = "idle" /\ status[working[w]] # to,
         SetCampaign(w, to, next),
         UNCHANGED <<working, current, outcome, status, cancelled, episodes>>
  PROVE  Good(w)
<1>0. OwnOutcome(w)
  BY DEF OwnOutcome
<1>1. CASE status[working[w]] = to /\ Goto(w, next) /\ UNCHANGED tx
  BY <1>0, <1>1, GotoGood
<1>2. CASE Goto(w, "raise") /\ UNCHANGED tx
  <2>1. "raise" \notin InEpisode /\ Leaving(w)'
    BY <1>2 DEF InEpisode, Leaving, RunOK, Goto
  <2>2. QED BY <1>0, <1>2, <2>1, GotoGood
<1>3. CASE to \in CampaignTransitions[status[working[w]]] /\ Open(w, "campaign", to, next, {}) /\ UNCHANGED pc
  <2>1. Undecided(working[w])
    BY <1>3, FinalStatuses DEF Undecided
  <2>2. QED BY <1>3, <2>1, OpenGood
<1>4. QED BY <1>1, <1>2, <1>3 DEF SetCampaign

\* A run that is in no episode, and is not leaving, has none open.
LEMMA NoneOpen ==
  ASSUME TypeInv, NEW w \in Worker, Drives(w), pc[w] # "idle", pc[w] \notin InEpisode, ~ Leaving(w)
  PROVE  OpenIn(episodes[working[w]]) = {}
<1>1. OpenIn(episodes[working[w]]) \subseteq {0}
  BY DEF Drives
<1>2. working[w] \in Campaign
  BY DEF TypeInv, RunOK
<1>3. episodes[working[w]] \in Seq(EpisodeStatus)
  BY <1>2 DEF TypeInv, TablesOK
<1>4. 0 \notin OpenIn(episodes[working[w]])
  BY <1>3 DEF OpenIn
<1>5. QED BY <1>1, <1>4

\* In an episode.
LEMMA MoveGood ==
  ASSUME RunOK, CountersOK, NEW w \in Worker, Drives(w), TxFits(w), pc[w] \in InEpisode,
         tx[w].kind = "none", NEW next \in InEpisode, OwnOutcome(w),
         CurrentStatus(w) \in Stage[next] \/ (next = "closed" /\ outcome'[w] \in {"error", "timeout", "lost"}),
         Goto(w, next), UNCHANGED <<working, current, tx, status, cancelled, episodes>>
  PROVE  Good(w)
<1>1. pc'[w] = next /\ pc[w] # "idle" /\ ~ Leaving(w)
  BY DEF RunOK, Goto, InEpisode, Leaving
<1>2. Drives(w)'
  BY <1>1 DEF Drives, CurrentStatus, Abandons
<1>3. TxFits(w)'
  BY <1>1 DEF TxFits
<1>4. working[w] \in Campaign
  BY <1>1 DEF RunOK
<1>5. QED BY <1>2, <1>3, <1>4, FrameOfWorker DEF Good

LEMMA SetEpisodeGood ==
  ASSUME RunOK, CountersOK, NEW w \in Worker, Drives(w), TxFits(w), pc[w] \in InEpisode \ {"closed"},
         OwnOutcome(w), tx[w].kind = "none", NEW next \in InEpisode, NEW illegal,
         NEW to \in Stage[next], to \in EpisodeTransitions[CurrentStatus(w)],
         CurrentStatus(w) # to,
         SetEpisode(w, to, next, illegal), UNCHANGED <<working, current, status, cancelled, episodes>>
  PROVE  Good(w)
<1>1. Open(w, "episode", to, next, {}) /\ UNCHANGED pc
  BY DEF SetEpisode
<1>2. tx'[w] = [kind |-> "episode", to |-> to, next |-> next, stale |-> {}]
  BY <1>1 DEF RunOK, Open
<1>3. Drives(w)'
  BY <1>1 DEF Drives, CurrentStatus, Abandons, Leaving, InEpisode
<1>4. TxFits(w)'
  BY <1>1, <1>2 DEF TxFits, CurrentStatus
<1>5. pc[w] # "idle" /\ working[w] \in Campaign
  BY DEF RunOK, InEpisode
<1>6. QED BY <1>1, <1>3, <1>4, <1>5, FrameOfWorker DEF Good
-----------------------------------------------------------------------------
(* The steps of a run outside its episodes.                                *)

LEMMA ValidationGood ==
  ASSUME TypeInv, NEW w \in Worker, Drives(w), TxFits(w),
         Start(w) \/ Validate(w) \/ Ready(w) \/ Running(w)
  PROVE  Good(w)
<1>1. RunOK /\ CountersOK
  BY DEF TypeInv
<1>2. /\ pc[w] \in {"start", "validate", "ready", "running"} /\ tx[w].kind = "none"
      /\ UNCHANGED <<working, current, outcome, status, cancelled, episodes>>
  BY DEF Start, Validate, Ready, Running, At, local, Decides, tables
<1>3. pc[w] # "idle" /\ pc[w] \notin InEpisode /\ ~ Leaving(w) /\ OwnOutcome(w)
  BY <1>2 DEF InEpisode, Leaving, OwnOutcome
<1>4. \E next \in {"finish", "validate", "ready", "raise", "block", "check", "enter"} :
        \/ Goto(w, next) /\ UNCHANGED tx
        \/ \E to : SetCampaign(w, to, next)
  BY DEF Start, Validate, Ready, Running
<1>5. \A next \in {"finish", "validate", "ready", "raise", "block", "check", "enter"} :
        next \notin InEpisode
  BY DEF InEpisode
<1>6. QED BY <1>1, <1>2, <1>3, <1>4, <1>5, GotoGood, SetCampaignGood

LEMMA LoopGood ==
  ASSUME TypeInv, NEW w \in Worker, Drives(w), TxFits(w),
         Enter(w) \/ Loop(w) \/ Finalize(w)
  PROVE  Good(w)
<1>1. RunOK /\ CountersOK
  BY DEF TypeInv
<1>2. /\ pc[w] \in {"enter", "loop", "finalize"} /\ tx[w].kind = "none"
      /\ UNCHANGED <<working, current, tx, status, cancelled, episodes>>
  BY DEF Enter, Loop, Finalize, At, local, Decides, tables
<1>3. pc[w] # "idle" /\ pc[w] \notin InEpisode /\ ~ Leaving(w) /\ OwnOutcome(w)
  BY <1>2 DEF InEpisode, Leaving, OwnOutcome, Enter, Loop, Finalize, local
<1>4. \E next \in {"raise", "loop", "after", "create", "finish"} : Goto(w, next)
  BY DEF Enter, Loop, Finalize
<1>5. \A next \in {"raise", "loop", "after", "create", "finish"} : next \notin InEpisode
  BY DEF InEpisode
<1>6. QED BY <1>1, <1>2, <1>3, <1>4, <1>5, GotoGood

LEMMA EndingGood ==
  ASSUME TypeInv, NEW w \in Worker, Drives(w), TxFits(w),
         After(w) \/ Block(w) \/ Fail(w) \/ Lost(w)
  PROVE  Good(w)
<1>1. RunOK /\ CountersOK
  BY DEF TypeInv
<1>2. /\ pc[w] \in {"after", "block", "fail", "lost"} /\ tx[w].kind = "none"
      /\ UNCHANGED <<status, cancelled, episodes>>
  BY DEF After, Block, Fail, Lost, At, Decides, tables
<1>3. pc[w] # "idle" /\ pc[w] \notin InEpisode
  BY <1>2 DEF InEpisode
<1>4. CASE After(w) \/ Block(w)
  <2>1. /\ UNCHANGED <<working, current, outcome>>
        /\ \E next \in {"finalize", "finish", "fail"} :
             \/ Goto(w, next) /\ UNCHANGED tx
             \/ \E to : SetCampaign(w, to, next)
    BY <1>4 DEF After, Block, local
  <2>2. ~ Leaving(w) /\ OwnOutcome(w) /\ {"finalize", "finish", "fail"} \cap InEpisode = {}
    BY <1>4, <2>1 DEF After, Block, At, Leaving, OwnOutcome, InEpisode
  <2>3. QED BY <1>1, <1>2, <1>3, <2>1, <2>2, GotoGood, SetCampaignGood
<1>5. CASE Lost(w)
  <2>1. CASE Idle(w)
    BY <1>1, <1>2, <2>1, IdleGood
  <2>2. CASE Goto(w, "fail") /\ UNCHANGED <<tx, local>>
    <3>1. OwnOutcome(w) /\ (Leaving(w) => Leaving(w)') /\ "fail" \notin InEpisode
      BY <1>1, <1>5, <2>2 DEF OwnOutcome, Leaving, InEpisode, local, RunOK, Goto, Lost, At
    <3>2. QED BY <1>1, <1>2, <1>3, <2>2, <3>1, GotoGood DEF local
  <2>3. QED BY <1>5, <2>1, <2>2 DEF Lost
<1>6. CASE Fail(w)
  <2>1. CASE Idle(w)
    BY <1>1, <1>2, <2>1, IdleGood
  <2>2. CASE outcome[w] # "lost" /\ Goto(w, "finish") /\ UNCHANGED <<tx, local>>
    <3>1. OwnOutcome(w) /\ ~ Leaving(w) /\ "finish" \notin InEpisode
      BY <1>6, <2>2 DEF OwnOutcome, Leaving, InEpisode, local, Fail, At
    <3>2. QED BY <1>1, <1>2, <1>3, <2>2, <3>1, GotoGood DEF local
  <2>3. ASSUME NEW end \in {"idle", "finish"}, outcome[w] = "lost" => end = "idle",
               status[working[w]] \notin TerminalCampaign,
               SetCampaign(w, "FAILED", end), UNCHANGED local
        PROVE  Good(w)
    <3>1. end \notin InEpisode /\ UNCHANGED <<working, current, outcome>>
      BY <2>3 DEF InEpisode, local
    <3>2. Leaving(w) => end = "idle" /\ status[working[w]] # "FAILED"
      BY <1>6, <2>3 DEF Leaving, TerminalCampaign, Fail, At
    <3>3. QED BY <1>1, <1>2, <1>3, <2>3, <3>1, <3>2, SetCampaignGood
  <2>4. QED BY <1>6, <2>1, <2>2, <2>3 DEF Fail
<1>7. QED BY <1>4, <1>5, <1>6

LEMMA SettlingGood ==
  ASSUME TypeInv, NEW w \in Worker, Drives(w), TxFits(w), Finish(w) \/ FailOrRetry(w)
  PROVE  Good(w)
<1>1. RunOK /\ CountersOK
  BY DEF TypeInv
<1>2. /\ pc[w] \in {"finish", "raise"} /\ tx[w].kind = "none"
      /\ UNCHANGED <<status, cancelled, episodes>>
  BY DEF Finish, FailOrRetry, At, tables
<1>3. pc[w] # "idle" /\ pc[w] \notin InEpisode /\ "idle" \notin InEpisode
  BY <1>2 DEF InEpisode
<1>4. CASE Idle(w)
  BY <1>1, <1>2, <1>4, IdleGood
<1>5. CASE Finish(w) /\ Open(w, "finish", "none", "idle", {}) /\ UNCHANGED <<pc, local>>
  <2>1. ~ Leaving(w)
    BY <1>5 DEF Finish, At, Leaving
  <2>2. QED BY <1>1, <1>2, <1>3, <1>5, <2>1, OpenGood DEF local
<1>6. CASE /\ job'[working[w]].attempts < MaxAttempts
           /\ Open(w, "retry", "none", "idle", {}) /\ UNCHANGED <<pc, local>>
  BY <1>1, <1>2, <1>3, <1>6, OpenGood DEF local
<1>7. CASE /\ Open(w, "giveup", Reconciled(working[w]), "idle", OpenIn(episodes[working[w]]))
           /\ UNCHANGED <<pc, local>>
  <2>1. Reconciled(working[w]) = "FAILED" => Undecided(working[w])
    BY DEF Reconciled, Undecided
  <2>2. QED BY <1>1, <1>2, <1>3, <1>7, <2>1, OpenGood DEF local
<1>8. QED BY <1>4, <1>5, <1>6, <1>7 DEF Finish, FailOrRetry, NotOurs, tables

LEMMA CreateEpisodeGood ==
  ASSUME TypeInv, NEW w \in Worker, Drives(w), TxFits(w), CreateEpisode(w)
  PROVE  Good(w)
<1>1. RunOK /\ CountersOK
  BY DEF TypeInv
<1>2. /\ pc[w] = "create" /\ tx[w].kind = "none"
      /\ UNCHANGED <<working, current, outcome, status, cancelled, episodes>>
  BY DEF CreateEpisode, At, local, Decides, tables
<1>3. /\ pc[w] # "idle" /\ pc[w] \notin InEpisode /\ "lost" \notin InEpisode /\ "raise" \notin InEpisode
      /\ ~ Leaving(w) /\ OwnOutcome(w)
  BY <1>2 DEF InEpisode, Leaving, OwnOutcome
<1>4. CASE (Goto(w, "lost") \/ Goto(w, "raise")) /\ UNCHANGED tx
  BY <1>1, <1>2, <1>3, <1>4, GotoGood
<1>5. CASE Open(w, "create", "PENDING", "provision", {}) /\ UNCHANGED pc
  <2>1. tx'[w] = [kind |-> "create", to |-> "PENDING", next |-> "provision", stale |-> {}]
    BY <1>1, <1>5 DEF RunOK, Open
  <2>2. Drives(w)' /\ TxFits(w)'
    BY <1>2, <1>3, <1>5, <2>1 DEF Drives, TxFits, CurrentStatus, Abandons, Leaving
  <2>3. Frame(w) /\ Lasts(working[w])
    <3>1. working[w] \in Campaign
      BY <1>1, <1>3 DEF RunOK
    <3>2. QED BY <1>1, <1>2, <1>3, <1>5, <3>1, FrameOfWorker
  <2>4. QED BY <2>2, <2>3 DEF Good
<1>6. QED BY <1>4, <1>5 DEF CreateEpisode

\* The worker cancels what a request has already marked.
LEMMA CheckGood ==
  ASSUME TypeInv, NEW w \in Worker, Drives(w), TxFits(w), Check(w)
  PROVE  Good(w)
<1>1. RunOK /\ CountersOK /\ status \in [Campaign -> CampaignStatus]
  BY DEF TypeInv, TablesOK
<1>2. /\ pc[w] = "check" /\ tx[w].kind = "none"
      /\ UNCHANGED <<working, current, outcome, tx, cancelled, episodes>>
  BY DEF Check, At, local
<1>3. /\ pc[w] # "idle" /\ pc[w] \notin InEpisode /\ "fail" \notin InEpisode /\ "running" \notin InEpisode
      /\ ~ Leaving(w) /\ OwnOutcome(w)
  BY <1>2 DEF InEpisode, Leaving, OwnOutcome
<1>4. CASE Goto(w, "running") /\ UNCHANGED status
  BY <1>1, <1>2, <1>3, <1>4, GotoGood
<1>5. CASE cancelled[working[w]] /\ CancelBy(working[w]) /\ Goto(w, "fail")
  <2>1. pc'[w] = "fail"
    BY <1>1, <1>5 DEF RunOK, Goto
  <2>2. Drives(w)' /\ TxFits(w)'
    BY <1>2, <1>3, <2>1 DEF Drives, TxFits
  <2>3. Lasts(working[w])
    BY <1>2, <1>5 DEF Lasts
  <2>4. Frame(w)
    <3>1. \A v \in Worker \ {w} : pc'[v] = pc[v]
      BY <1>1, <1>5 DEF RunOK, Goto
    <3>2. \A c \in Campaign \ {working[w]} : status'[c] = status[c]
      BY <1>1, <1>5 DEF CancelBy
    <3>3. QED BY <1>2, <3>1, <3>2 DEF Frame
  <2>5. QED BY <2>2, <2>3, <2>4 DEF Good
<1>6. QED BY <1>4, <1>5 DEF Check

-----------------------------------------------------------------------------
(* The steps of a run in an episode.                                       *)

LEMMA SetupGood ==
  ASSUME TypeInv, NEW w \in Worker, Drives(w), TxFits(w),
         Provision(w) \/ Prepare(w) \/ Execute(w) \/ Search(w) \/ Unlinked(w)
  PROVE  Good(w)
<1>1. RunOK /\ CountersOK
  BY DEF TypeInv
<1>2. /\ pc[w] \in {"provision", "prepare", "execute", "search"} /\ tx[w].kind = "none"
      /\ UNCHANGED <<working, current, status, cancelled, episodes>>
  BY DEF Provision, Prepare, Execute, Search, Unlinked, At, local, Decides, tables
<1>3. /\ pc[w] \in InEpisode \ {"closed"}
      /\ {"prepare", "execute", "search", "abort", "close", "closed"} \subseteq InEpisode
      /\ OwnOutcome(w)
  BY <1>2 DEF InEpisode, OwnOutcome, Provision, Prepare, Execute, Search, Unlinked, local
<1>4. CurrentStatus(w) \in Stage[pc[w]]
  BY <1>3 DEF Drives, Abandons
<1>5. CASE Provision(w)
  <2>1. /\ CurrentStatus(w) = "PENDING"
        /\ "PROVISIONING" \in Stage["prepare"] \cap EpisodeTransitions[CurrentStatus(w)]
    BY <1>4, <1>5 DEF Provision, At, Stage, EpisodeTransitions
  <2>2. SetEpisode(w, "PROVISIONING", "prepare", "raise")
    BY <1>5 DEF Provision
  <2>3. QED BY <1>1, <1>2, <1>3, <2>1, <2>2, SetEpisodeGood
<1>6. CASE Prepare(w)
  <2>1. /\ CurrentStatus(w) = "PROVISIONING"
        /\ "READY" \in Stage["execute"] \cap EpisodeTransitions[CurrentStatus(w)]
        /\ CurrentStatus(w) \in Stage["abort"]
    BY <1>4, <1>6 DEF Prepare, At, Stage, EpisodeTransitions
  <2>2. SetEpisode(w, "READY", "execute", "abort") \/ (Goto(w, "abort") /\ UNCHANGED tx)
    BY <1>6 DEF Prepare
  <2>3. QED BY <1>1, <1>2, <1>3, <2>1, <2>2, SetEpisodeGood, MoveGood
<1>7. CASE Execute(w)
  <2>1. /\ CurrentStatus(w) = "READY"
        /\ "EXECUTING" \in Stage["search"] \cap EpisodeTransitions[CurrentStatus(w)]
        /\ CurrentStatus(w) \in Stage["abort"]
    BY <1>4, <1>7 DEF Execute, At, Stage, EpisodeTransitions
  <2>2. SetEpisode(w, "EXECUTING", "search", "abort") \/ (Goto(w, "abort") /\ UNCHANGED tx)
    BY <1>7 DEF Execute
  <2>3. QED BY <1>1, <1>2, <1>3, <2>1, <2>2, SetEpisodeGood, MoveGood
<1>8. CASE Search(w)
  <2>1. CurrentStatus(w) \in Stage["close"]
    BY <1>4, <1>8 DEF Search, At, Stage
  <2>2. QED BY <1>1, <1>2, <1>3, <1>8, <2>1, MoveGood DEF Search
<1>9. CASE Unlinked(w)
  <2>1. outcome'[w] = "error"
    BY <1>1, <1>9 DEF Unlinked, SetOutcome, CountersOK
  <2>2. QED BY <1>1, <1>2, <1>3, <1>9, <2>1, MoveGood DEF Unlinked
<1>10. QED BY <1>5, <1>6, <1>7, <1>8, <1>9

\* Whatever the outcome, a result on record is one of the three.
LEMMA ResultsAreJudged ==
  ASSUME CountersOK, NEW w \in Worker
  PROVE  Results(w) \subseteq JudgedEpisode
<1>1. outcome[w] \in Outcome
  BY DEF CountersOK
<1>2. QED BY <1>1 DEF Outcome, Results, JudgedEpisode

LEMMA TeardownGood ==
  ASSUME TypeInv, NEW w \in Worker, Drives(w), TxFits(w),
         Abort(w) \/ Close(w) \/ Judge(w) \/ Destroy(w)
  PROVE  Good(w)
<1>1. RunOK /\ CountersOK
  BY DEF TypeInv
<1>2. /\ pc[w] \in {"abort", "close", "judge", "destroy"} /\ tx[w].kind = "none"
      /\ UNCHANGED <<working, current, status, cancelled, episodes>>
  BY DEF Abort, Close, Judge, Destroy, At, Decides, tables
<1>3. /\ pc[w] \in InEpisode \ {"closed"} /\ {"judge", "destroy", "closed"} \subseteq InEpisode
      /\ OwnOutcome(w)
  BY <1>2 DEF InEpisode, OwnOutcome, Abort, Close, Judge, Destroy, CleanupFails
<1>4. CurrentStatus(w) \in Stage[pc[w]]
  BY <1>3 DEF Drives, Abandons
<1>5. CASE Abort(w)
  <2>1. /\ CurrentStatus(w) \in OpenEpisode \ {"VERIFYING"} /\ CurrentStatus(w) # "FAILED"
        /\ "FAILED" \in Stage["destroy"] \cap EpisodeTransitions[CurrentStatus(w)]
    BY <1>4, <1>5 DEF Abort, At, Stage, Over, OpenEpisode, EpisodeStatus, EpisodeTransitions
  <2>2. SetEpisode(w, "FAILED", "destroy", "destroy")
    BY <1>5, <2>1 DEF Abort
  <2>3. QED BY <1>1, <1>2, <1>3, <2>1, <2>2, SetEpisodeGood
<1>6. CASE Close(w)
  <2>1. /\ CurrentStatus(w) = "EXECUTING"
        /\ "VERIFYING" \in Stage["judge"] \cap EpisodeTransitions[CurrentStatus(w)]
    BY <1>4, <1>6 DEF Close, At, Stage, EpisodeTransitions
  <2>2. SetEpisode(w, "VERIFYING", "judge", "destroy")
    BY <1>6, <2>1 DEF Close
  <2>3. QED BY <1>1, <1>2, <1>3, <2>1, <2>2, SetEpisodeGood
<1>7. CASE Judge(w)
  <2>1. /\ CurrentStatus(w) = "VERIFYING"
        /\ JudgedEpisode \subseteq Stage["destroy"] \cap EpisodeTransitions[CurrentStatus(w)]
        /\ CurrentStatus(w) \notin JudgedEpisode
    BY <1>4, <1>7
    DEF Judge, At, Stage, Over, EpisodeStatus, OpenEpisode, JudgedEpisode, EpisodeTransitions
  <2>2. \E result \in JudgedEpisode : SetEpisode(w, result, "destroy", "destroy")
    BY <1>1, <1>7, <2>1, ResultsAreJudged DEF Judge
  <2>3. QED BY <1>1, <1>2, <1>3, <2>1, <2>2, SetEpisodeGood
<1>8. CASE Destroy(w)
  <2>1. CurrentStatus(w) \in Stage["closed"] /\ "DESTROYED" \in Stage["closed"]
    BY <1>4, <1>8 DEF Destroy, At, Stage, Over, EpisodeStatus, OpenEpisode
  <2>2. CASE Goto(w, "closed") /\ UNCHANGED tx
    BY <1>1, <1>2, <1>3, <2>1, <2>2, MoveGood
  <2>3. CASE CurrentStatus(w) \in JudgedEpisode /\ SetEpisode(w, "DESTROYED", "closed", "closed")
    <3>1. "DESTROYED" \in EpisodeTransitions[CurrentStatus(w)] /\ CurrentStatus(w) # "DESTROYED"
      BY <2>3 DEF JudgedEpisode, EpisodeTransitions
    <3>2. QED BY <1>1, <1>2, <1>3, <2>1, <2>3, <3>1, SetEpisodeGood
  <2>4. QED BY <1>8, <2>2, <2>3 DEF Destroy
<1>9. QED BY <1>5, <1>6, <1>7, <1>8

\* A worker that leaves an episode leaves none open, unless it failed or was stopped.
LEMMA ClosedGood ==
  ASSUME TypeInv, NEW w \in Worker, Drives(w), TxFits(w), Closed(w)
  PROVE  Good(w)
<1>1. RunOK /\ CountersOK
  BY DEF TypeInv
<1>2. /\ pc[w] = "closed" /\ tx[w].kind = "none" /\ working[w] \in Campaign
      /\ UNCHANGED <<working, tx, status, cancelled, episodes>>
  BY <1>1 DEF RunOK, Closed, At, local, Decides, tables
<1>3. /\ AfterEpisode[outcome[w]] \notin InEpisode \cup {"idle"}
      /\ outcome[w] \in {"error", "timeout"} => AfterEpisode[outcome[w]] = "raise"
      /\ outcome[w] = "lost" => AfterEpisode[outcome[w]] = "lost"
  BY <1>1 DEF CountersOK, Outcome, AfterEpisode, InEpisode
<1>4. /\ pc'[w] = AfterEpisode[outcome[w]] /\ current'[w] = 0
      /\ pc' = [pc EXCEPT ![w] = AfterEpisode[outcome[w]]] /\ current' = [current EXCEPT ![w] = 0]
      /\ OwnOutcome(w) /\ (outcome[w] = "lost" => outcome'[w] = "lost")
  BY <1>1 DEF Closed, Goto, RunOK, CountersOK, SetOutcome, OwnOutcome
<1>5. Leaving(w)' \/ OpenIn(episodes[working[w]]) = {}
  <2>1. CASE outcome[w] \in {"error", "timeout", "lost"}
    BY <1>3, <1>4, <2>1 DEF Leaving
  <2>2. CASE outcome[w] \notin {"error", "timeout", "lost"}
    <3>1. CurrentStatus(w) \in Over /\ OpenIn(episodes[working[w]]) \subseteq {current[w]}
      BY <1>2, <2>2 DEF Drives, InEpisode, Stage, Abandons, Leaving
    <3>2. current[w] \notin OpenIn(episodes[working[w]])
      BY <3>1 DEF OpenIn, CurrentStatus, Over
    <3>3. QED BY <3>1, <3>2
  <2>3. QED BY <2>1, <2>2
<1>6. Drives(w)' /\ TxFits(w)'
  BY <1>2, <1>3, <1>4, <1>5 DEF Drives, TxFits
<1>7. Frame(w) /\ Lasts(working[w])
  BY <1>1, <1>2, <1>4, FrameOfWorker DEF Goto
<1>8. QED BY <1>6, <1>7 DEF Good

\* A run stopped where it awaits goes on to clean up, or abandons its episode.
LEMMA StoppedGood ==
  ASSUME TypeInv, NEW w \in Worker, Drives(w), TxFits(w), LeaseLost(w) \/ WallTime(w)
  PROVE  Good(w)
<1>1. RunOK /\ CountersOK
  BY DEF TypeInv
<1>2. /\ pc[w] \in {"validate", "prepare", "execute", "search", "abort", "close", "destroy", "finalize"}
      /\ tx[w].kind = "none" /\ UNCHANGED <<status, cancelled, episodes>>
  BY DEF LeaseLost, WallTime, Awaits, At, Decides, tables
<1>3. CASE Idle(w)
  BY <1>1, <1>2, <1>3, IdleGood
<1>4. CASE /\ Goto(w, StoppedAt[pc[w]]) /\ UNCHANGED <<working, current, tx>>
           /\ \E o \in {"timeout", "lost"} : SetOutcome(w, o)
  <2>0. OwnOutcome(w) /\ outcome'[w] \in {"timeout", "lost"}
    BY <1>1, <1>4 DEF OwnOutcome, SetOutcome, CountersOK
  <2>1. CASE pc[w] \in {"validate", "finalize"}
    <3>1. pc[w] # "idle" /\ pc[w] \notin InEpisode /\ StoppedAt[pc[w]] \notin InEpisode /\ ~ Leaving(w)
      BY <2>1 DEF InEpisode, StoppedAt, Leaving
    <3>2. QED BY <1>1, <1>2, <1>4, <2>0, <3>1, GotoGood
  <2>2. CASE pc[w] \notin {"validate", "finalize"}
    <3>1. pc[w] \in InEpisode /\ StoppedAt[pc[w]] \in InEpisode
      BY <1>2, <2>2 DEF InEpisode, StoppedAt
    <3>2. CurrentStatus(w) \in Stage[pc[w]]
      BY <1>2, <3>1 DEF Drives, Abandons
    <3>3. StoppedAt[pc[w]] = "closed" \/ Stage[pc[w]] \subseteq Stage[StoppedAt[pc[w]]]
      BY <1>2, <2>2 DEF Stage, StoppedAt
    <3>4. QED BY <1>1, <1>2, <1>4, <2>0, <3>1, <3>2, <3>3, MoveGood
  <2>3. QED BY <2>1, <2>2
<1>5. QED BY <1>3, <1>4 DEF LeaseLost, WallTime

-----------------------------------------------------------------------------
(* The commits of a run.                                                   *)

LEMMA CommitCreateGood ==
  ASSUME TypeInv, NEW w \in Worker, Drives(w), TxFits(w), CommitCreate(w)
  PROVE  Good(w)
<1> DEFINE c == working[w]
           n == Len(episodes[c]) + 1
<1>1. RunOK /\ CountersOK
  BY DEF TypeInv
<1>2. pc[w] = "create" /\ tx[w].next = "provision"
  BY DEF CommitCreate, TxFits
<1>3. c \in Campaign /\ episodes[c] \in Seq(EpisodeStatus) /\ episodes \in [Campaign -> Seq(EpisodeStatus)]
  BY <1>1, <1>2 DEF RunOK, TypeInv, TablesOK
<1>4. OpenIn(episodes[c]) = {}
  BY <1>2, NoneOpen DEF InEpisode, Leaving
<1>5. /\ pc' = [pc EXCEPT ![w] = "provision"] /\ working' = working
      /\ current' = [current EXCEPT ![w] = n] /\ tx' = [tx EXCEPT ![w] = NoTx]
      /\ episodes' = [episodes EXCEPT ![c] = Append(episodes[c], "PENDING")]
      /\ UNCHANGED <<status, cancelled, outcome>>
  BY <1>2 DEF CommitCreate, Goto
<1>6. /\ pc'[w] = "provision" /\ working'[w] = c /\ current'[w] = n /\ tx'[w] = NoTx
      /\ episodes'[c] = Append(episodes[c], "PENDING")
  BY <1>1, <1>3, <1>5 DEF RunOK, CountersOK
<1>7. /\ n \in DOMAIN episodes'[c] /\ episodes'[c][n] = "PENDING"
      /\ \A i \in DOMAIN episodes[c] : episodes'[c][i] = episodes[c][i]
      /\ DOMAIN episodes'[c] = DOMAIN episodes[c] \cup {n}
  BY <1>3, <1>6
<1>8. Drives(w)' /\ TxFits(w)'
  <2>1. OpenIn(episodes'[c]) \subseteq {n}
    BY <1>4, <1>7 DEF OpenIn
  <2>2. TxFits(w)'
    BY <1>6 DEF TxFits, NoTx
  <2>3. CurrentStatus(w)' \in Stage["provision"]
    BY <1>6, <1>7 DEF CurrentStatus, Stage
  <2>4. QED BY <1>6, <1>7, <2>1, <2>2, <2>3 DEF Drives, InEpisode
<1>9. Frame(w) /\ Lasts(c)
  BY <1>1, <1>3, <1>5, <1>7 DEF RunOK, CountersOK, Frame, Lasts
<1>10. QED BY <1>8, <1>9 DEF Good

LEMMA CommitEpisodeGood ==
  ASSUME TypeInv, NEW w \in Worker, Drives(w), TxFits(w), CommitEpisode(w)
  PROVE  Good(w)
<1> DEFINE c == working[w]
           n == current[w]
<1>1. RunOK /\ CountersOK
  BY DEF TypeInv
<1>2. /\ tx[w].kind = "episode" /\ pc[w] \in InEpisode /\ tx[w].next \in InEpisode
      /\ tx[w].to \in Stage[tx[w].next] \cap EpisodeTransitions[CurrentStatus(w)]
  BY DEF CommitEpisode, TxFits
<1>3. /\ c \in Campaign /\ episodes[c] \in Seq(EpisodeStatus) /\ episodes \in [Campaign -> Seq(EpisodeStatus)]
      /\ pc[w] # "idle" /\ tx[w].next # "idle"
  BY <1>1, <1>2 DEF RunOK, TypeInv, TablesOK, InEpisode
<1>4. /\ n \in DOMAIN episodes[c] /\ CurrentStatus(w) = episodes[c][n]
      /\ OpenIn(episodes[c]) \subseteq {n}
  BY <1>2, <1>3 DEF Drives, CurrentStatus, Leaving, InEpisode
<1>5. /\ pc' = [pc EXCEPT ![w] = tx[w].next] /\ working' = working
      /\ current' = current /\ tx' = [tx EXCEPT ![w] = NoTx]
      /\ episodes' = [episodes EXCEPT ![c] = [episodes[c] EXCEPT ![n] = tx[w].to]]
      /\ UNCHANGED <<status, cancelled, outcome>>
  BY <1>3 DEF CommitEpisode, Goto, local
<1>6. /\ pc'[w] = tx[w].next /\ working'[w] = c /\ current'[w] = n /\ tx'[w] = NoTx
      /\ episodes'[c] = [episodes[c] EXCEPT ![n] = tx[w].to]
  BY <1>1, <1>3, <1>5 DEF RunOK
<1>7. /\ DOMAIN episodes'[c] = DOMAIN episodes[c] /\ episodes'[c][n] = tx[w].to
      /\ \A i \in DOMAIN episodes[c] : i # n => episodes'[c][i] = episodes[c][i]
  BY <1>3, <1>4, <1>6
<1>8. Drives(w)' /\ TxFits(w)'
  <2>1. OpenIn(episodes'[c]) \subseteq {n}
    BY <1>4, <1>7 DEF OpenIn
  <2>2. TxFits(w)'
    BY <1>6 DEF TxFits, NoTx
  <2>3. CurrentStatus(w)' \in Stage[pc'[w]]
    BY <1>2, <1>6, <1>7 DEF CurrentStatus
  <2>4. QED BY <1>2, <1>4, <1>6, <1>7, <2>1, <2>2, <2>3 DEF Drives
<1>9. Lasts(c)
  <2>1. \A s \in EpisodeStatus \ OpenEpisode : EpisodeTransitions[s] \subseteq {"DESTROYED"}
    BY DEF EpisodeStatus, OpenEpisode, EpisodeTransitions
  <2>2. episodes[c][n] \in EpisodeStatus
    BY <1>3, <1>4
  <2>3. QED BY <1>2, <1>4, <1>5, <1>7, <2>1, <2>2 DEF Lasts
<1>10. Frame(w)
  BY <1>1, <1>3, <1>5 DEF RunOK, Frame
<1>11. QED BY <1>8, <1>9, <1>10 DEF Good

\* _fail_stale_episodes leaves none open and changes no result.
LEMMA RecoveredAreClosed ==
  ASSUME NEW es \in Seq(EpisodeStatus)
  PROVE  /\ OpenIn(FailEpisodes(es, OpenIn(es))) = {}
         /\ \A i \in DOMAIN es :
              es[i] \notin OpenEpisode => FailEpisodes(es, OpenIn(es))[i] = es[i]
BY DEF OpenIn, FailEpisodes, OpenEpisode

\* A worker that is done leaves nothing to drive, whatever it wrote.
LEMMA IdleFits ==
  ASSUME RunOK, CountersOK, NEW w \in Worker, Idle(w)
  PROVE  /\ Drives(w)' /\ TxFits(w)'
         /\ \A v \in Worker \ {w} : /\ pc'[v] = pc[v] /\ working'[v] = working[v]
                                    /\ current'[v] = current[v] /\ tx'[v] = tx[v]
                                    /\ outcome'[v] = outcome[v]
<1>1. pc'[w] = "idle" /\ current'[w] = 0 /\ tx'[w] = NoTx
  BY DEF RunOK, CountersOK, Idle, Goto
<1>2. Drives(w)' /\ TxFits(w)'
  BY <1>1 DEF Drives, TxFits, NoTx, InEpisode
<1>3. QED BY <1>2 DEF RunOK, CountersOK, Idle, Goto

LEMMA CommitCampaignGood ==
  ASSUME TypeInv, NEW w \in Worker, Drives(w), TxFits(w), CommitCampaign(w)
  PROVE  Good(w)
<1>1. RunOK /\ CountersOK /\ status \in [Campaign -> CampaignStatus]
  BY DEF TypeInv, TablesOK
<1>2. /\ tx[w].kind = "campaign" /\ pc[w] \notin InEpisode /\ tx[w].next \notin InEpisode
      /\ Undecided(working[w]) /\ (Leaving(w) => tx[w].next = "idle")
      /\ status' = [status EXCEPT ![working[w]] = tx[w].to]
      /\ UNCHANGED <<cancelled, episodes>>
  BY DEF CommitCampaign, TxFits
<1>3. pc[w] # "idle"
  BY <1>1, <1>2 DEF RunOK, TxOK
<1>4. Lasts(working[w])
  BY <1>2 DEF Lasts, Undecided
<1>5. \A c \in Campaign \ {working[w]} :
         episodes'[c] = episodes[c] /\ status'[c] = status[c] /\ cancelled'[c] = cancelled[c]
  BY <1>1, <1>2
<1>6. CASE Idle(w)
  BY <1>1, <1>4, <1>5, <1>6, IdleFits DEF Good, Frame
<1>7. CASE /\ tx[w].next # "idle" /\ Goto(w, tx[w].next)
           /\ tx' = [tx EXCEPT ![w] = NoTx] /\ UNCHANGED local
  <2>1. pc'[w] = tx[w].next /\ tx'[w] = NoTx /\ UNCHANGED <<working, current, outcome>>
    BY <1>1, <1>7 DEF RunOK, Goto, local
  <2>2. Drives(w)' /\ TxFits(w)'
    BY <1>2, <1>3, <1>7, <2>1 DEF Drives, TxFits, NoTx
  <2>3. Frame(w)
    BY <1>1, <1>5, <1>7, <2>1 DEF RunOK, Goto, Frame
  <2>4. QED BY <1>4, <2>2, <2>3 DEF Good
<1>8. QED BY <1>6, <1>7 DEF CommitCampaign

\* What ends a job finds no episode open or fails it, unless it can be claimed
\* again.
LEMMA CommitJobGood ==
  ASSUME TypeInv, NEW w \in Worker, Drives(w), TxFits(w),
         CommitFinish(w) \/ CommitRetry(w) \/ CommitGiveUp(w)
  PROVE  /\ Good(w)
         /\ Idle(w) /\ pc[w] # "idle" /\ working[w] \in Campaign
         /\ CommitRetry(w) \/ OpenIn(episodes'[working[w]]) = {}
<1> DEFINE c == working[w]
           es == episodes[c]
<1>1. RunOK /\ CountersOK /\ status \in [Campaign -> CampaignStatus]
  BY DEF TypeInv, TablesOK
<1>2. /\ tx[w].kind \in {"finish", "retry", "giveup"} /\ pc[w] # "idle" /\ pc[w] \notin InEpisode
      /\ Idle(w) /\ UNCHANGED cancelled
  BY <1>1 DEF CommitFinish, CommitRetry, CommitGiveUp, TxFits, RunOK, TxOK
<1>3. c \in Campaign /\ episodes \in [Campaign -> Seq(EpisodeStatus)] /\ es \in Seq(EpisodeStatus)
  BY <1>1, <1>2 DEF RunOK, TypeInv, TablesOK
<1>4. CASE CommitFinish(w) \/ CommitRetry(w)
  <2>1. UNCHANGED <<status, episodes>>
    BY <1>4 DEF CommitFinish, CommitRetry
  <2>2. CommitFinish(w) => OpenIn(es) = {}
    BY <1>2, NoneOpen DEF CommitFinish, TxFits
  <2>3. QED BY <1>1, <1>2, <1>3, <1>4, <2>1, <2>2, IdleGood
<1>5. CASE CommitGiveUp(w)
  <2>0. /\ tx[w].kind = "giveup"
        /\ status' = IF tx[w].to = "FAILED" THEN [status EXCEPT ![c] = "FAILED"] ELSE status
        /\ episodes' = [episodes EXCEPT ![c] = FailEpisodes(@, tx[w].stale)]
    BY <1>5 DEF CommitGiveUp
  <2>1. tx[w].stale = OpenIn(es) /\ (tx[w].to = "FAILED" => Undecided(c))
    BY <2>0, Zenon DEF TxFits
  <2>2. /\ episodes'[c] = FailEpisodes(es, OpenIn(es))
        /\ \A d \in Campaign \ {c} : episodes'[d] = episodes[d] /\ status'[d] = status[d]
    BY <1>1, <1>3, <2>0, <2>1
  <2>3. /\ OpenIn(episodes'[c]) = {}
        /\ \A i \in DOMAIN es : es[i] \notin OpenEpisode => episodes'[c][i] = es[i]
    BY <1>3, <2>2, RecoveredAreClosed
  <2>4. Lasts(c)
    BY <1>2, <2>0, <2>1, <2>3 DEF Lasts, Undecided
  <2>5. Good(w)
    BY <1>1, <1>2, <2>2, <2>4, IdleFits DEF Good, Frame
  <2>6. QED BY <1>2, <1>3, <2>3, <2>5
<1>6. QED BY <1>4, <1>5

LEMMA RunStepGood ==
  ASSUME TypeInv, NEW w \in Worker, Drives(w), TxFits(w), RunStep(w)
  PROVE  Good(w)
BY ValidationGood, LoopGood, EndingGood, SettlingGood, CreateEpisodeGood, CheckGood, SetupGood,
   TeardownGood, ClosedGood, CommitCreateGood, CommitEpisodeGood, CommitCampaignGood, CommitJobGood
DEF RunStep

-----------------------------------------------------------------------------
(* Every step keeps the episode invariant.                                 *)

LEMMA OthersKeep ==
  ASSUME TypeInv, LeaseInv, AttemptsKept, NEW w \in Worker, pc[w] # "idle", Frame(w),
         NEW v \in Worker \ {w}, Drives(v), TxFits(v)
  PROVE  Drives(v)' /\ TxFits(v)'
<1>1. /\ pc'[v] = pc[v] /\ working'[v] = working[v] /\ current'[v] = current[v] /\ tx'[v] = tx[v]
      /\ outcome'[v] = outcome[v] /\ (Leaving(v)' <=> Leaving(v))
  BY DEF Frame, Leaving
<1>2. CASE pc[v] = "idle"
  <2>1. tx[v].kind = "none"
    BY <1>2 DEF TypeInv, RunOK, TxOK
  <2>2. QED BY <1>1, <1>2, <2>1 DEF Drives, TxFits, InEpisode
<1>3. CASE pc[v] # "idle"
  <2>1. working[v] \in Campaign /\ working[w] \in Campaign
    BY <1>3 DEF TypeInv, RunOK
  <2>2. working[v] # working[w]
    BY <1>3, <2>1, OneClaim DEF Runs
  <2>3. /\ episodes'[working[v]] = episodes[working[v]] /\ status'[working[v]] = status[working[v]]
        /\ cancelled'[working[v]] = cancelled[working[v]]
    BY <2>1, <2>2 DEF Frame
  <2>4. QED BY <1>1, <2>1, <2>3 DEF Drives, TxFits, CurrentStatus, Undecided, Abandons, AttemptsKept
<1>4. QED BY <1>2, <1>3

\* A step of worker w, which may end its run, that settles no job.
LEMMA OwnStepKeeps ==
  ASSUME TypeInv, LeaseInv, EpisodeInv, NEW w \in Worker, pc[w] # "idle", Good(w),
         Continues \/ Idle(w), AttemptsKept,
         \A c \in Campaign : job'[c].status \in {job[c].status, "CANCELLED"}
  PROVE  EpisodeInv' /\ \A c \in Campaign : Lasts(c)
<1>0. \A v \in Worker, c \in Campaign : Runs(v, c)' => Runs(v, c)
  BY ClaimsContinue, ClaimEnds DEF TypeInv
<1>1. \A v \in Worker : Drives(v)' /\ TxFits(v)'
  BY OthersKeep DEF Good, EpisodeInv
<1>2. ASSUME NEW c \in Campaign PROVE Lasts(c)
  BY DEF Good, Frame, Lasts
<1>3. ASSUME NEW c \in Campaign PROVE Unclaimed(c)'
  <2>1. Unclaimed(c)
    BY DEF EpisodeInv
  <2>2. /\ job'[c].status = "LEASED" \/ (\E v \in Worker : Runs(v, c)') => job'[c].attempts > 0
        /\ job'[c].status = "PENDING" => job'[c].attempts < MaxAttempts
    BY <1>0, <2>1 DEF Unclaimed, AttemptsKept
  <2>3. ASSUME \A v \in Worker : ~ Runs(v, c)', job'[c].status \notin {"LEASED", "CANCELLED"}
        PROVE  job'[c].status = job[c].status /\ job'[c].attempts = job[c].attempts
               /\ (\A v \in Worker : ~ Runs(v, c)) /\ episodes'[c] = episodes[c]
    <3>1. job'[c].status = job[c].status /\ job'[c].attempts = job[c].attempts
      BY <2>3 DEF AttemptsKept
    <3>2. \A v \in Worker : ~ Runs(v, c)
      BY <2>3, <3>1 DEF LeaseInv, LeaseHeld
    <3>3. c # working[w]
      BY <3>2 DEF Runs
    <3>4. QED BY <3>1, <3>2, <3>3 DEF Good, Frame
  <2>4. QED BY <2>1, <2>2, <2>3 DEF Unclaimed
<1>4. QED BY <1>1, <1>2, <1>3 DEF EpisodeInv

LEMMA CommitJobKeeps ==
  ASSUME TypeInv, LeaseInv, EpisodeInv, NEW w \in Worker,
         CommitFinish(w) \/ CommitRetry(w) \/ CommitGiveUp(w)
  PROVE  EpisodeInv' /\ \A c \in Campaign : Lasts(c)
<1>1. /\ Good(w) /\ Idle(w) /\ pc[w] # "idle" /\ working[w] \in Campaign
      /\ CommitRetry(w) \/ OpenIn(episodes'[working[w]]) = {}
  BY CommitJobGood DEF EpisodeInv
<1>2. \A v \in Worker : Drives(v)' /\ TxFits(v)'
  <2>1. AttemptsKept
    BY RunStepEffect DEF RunStep
  <2>2. QED BY <1>1, <2>1, OthersKeep DEF Good, EpisodeInv
<1>3. ASSUME NEW c \in Campaign PROVE Lasts(c)
  BY <1>1 DEF Good, Frame, Lasts
<1>4. /\ job'[working[w]].status # "LEASED" /\ job'[working[w]].attempts > 0
      /\ CommitRetry(w) => job'[working[w]].status = "PENDING"
      /\ job'[working[w]].status = "PENDING" => job'[working[w]].attempts < MaxAttempts
      /\ \A c \in Campaign \ {working[w]} : job'[c] = job[c]
  <2>1. job \in [Campaign -> JobRow] /\ job[working[w]].attempts > 0
    BY <1>1 DEF TypeInv, TablesOK, EpisodeInv, Unclaimed, Runs
  <2>2. CASE CommitFinish(w)
    BY <1>1, <2>1, <2>2 DEF CommitFinish, CommitRetry, JobRow
  <2>3. CASE CommitRetry(w)
    <3>1. job[working[w]].attempts < MaxAttempts
      BY <2>3 DEF CommitRetry, EpisodeInv, TxFits
    <3>2. QED BY <1>1, <2>1, <2>3, <3>1 DEF CommitRetry, JobRow
  <2>4. CASE CommitGiveUp(w)
    BY <1>1, <2>1, <2>4 DEF CommitGiveUp, CommitRetry, FailedRow, JobRow
  <2>5. QED BY <2>2, <2>3, <2>4
<1>5. ASSUME NEW c \in Campaign PROVE Unclaimed(c)'
  <2>1. CASE c = working[w]
    BY <1>1, <1>4, <2>1 DEF Unclaimed
  <2>2. CASE c # working[w]
    <3>1. Unclaimed(c) /\ job'[c] = job[c] /\ episodes'[c] = episodes[c]
      BY <1>1, <1>4, <2>2 DEF EpisodeInv, Good, Frame
    <3>2. ~ Runs(w, c)
      BY <2>2 DEF Runs
    <3>3. \A v \in Worker : Runs(v, c)' <=> Runs(v, c)
      BY <1>1, <3>2, ClaimEnds DEF TypeInv
    <3>4. QED BY <3>1, <3>3 DEF Unclaimed
  <2>3. QED BY <2>1, <2>2
<1>6. QED BY <1>2, <1>3, <1>5 DEF EpisodeInv

LEMMA RunStepEpisodes ==
  ASSUME TypeInv, LeaseInv, EpisodeInv, NEW w \in Worker, RunStep(w)
  PROVE  EpisodeInv' /\ \A c \in Campaign : Lasts(c)
<1>1. CASE CommitFinish(w) \/ CommitRetry(w) \/ CommitGiveUp(w)
  BY <1>1, CommitJobKeeps
<1>2. CASE ~ (CommitFinish(w) \/ CommitRetry(w) \/ CommitGiveUp(w))
  <2>1. pc[w] # "idle"
    BY DEF RunStep, TypeInv, RunOK, TxOK, Start, Validate, Ready, Check, Running, Enter, Loop,
           CreateEpisode, CommitCreate, Provision, Prepare, Execute, Search, Unlinked,
           Abort, Close, Judge, Destroy, Closed, After, Finalize, Fail, Block,
           Lost, CommitCampaign, CommitEpisode, Finish, CommitFinish,
           FailOrRetry, CommitRetry, CommitGiveUp, At
  <2>2. Good(w)
    BY RunStepGood DEF EpisodeInv
  <2>3. AttemptsKept /\ (Continues \/ Idle(w))
    BY RunStepEffect
  <2>4. \A c \in Campaign : job'[c].status \in {job[c].status, "CANCELLED"}
    <3>1. CASE Check(w)
      <4>1. \/ UNCHANGED job
            \/ \E s \in {job[working[w]].status, "CANCELLED"} :
                 job' = [job EXCEPT ![working[w]].status = s]
        BY <3>1 DEF Check, CancelBy
      <4>2. QED BY <4>1 DEF TypeInv, TablesOK, JobRow
    <3>2. CASE Decide(w)
      BY <3>2, DecideEffect
    <3>3. CASE CommitCreate(w) \/ CommitEpisode(w) \/ CommitCampaign(w)
      BY <3>3 DEF CommitCreate, CommitEpisode, CommitCampaign
    <3>4. QED BY <1>2, <3>1, <3>2, <3>3 DEF RunStep, Decide
  <2>5. QED BY <2>1, <2>2, <2>3, <2>4, OwnStepKeeps
<1>3. QED BY <1>1, <1>2

\* A step of clocks or of the API: it only settles what was open.
LEMMA TablesKeep ==
  ASSUME TypeInv, EpisodeInv, UNCHANGED <<episodes, pc, working, current, outcome, tx>>, AttemptsKept,
         \A c \in Campaign : /\ job'[c].status \in {job[c].status, "CANCELLED"}
                             /\ (status'[c] = status[c] /\ cancelled'[c] = cancelled[c]) \/ cancelled'[c]
  PROVE  EpisodeInv' /\ \A c \in Campaign : Lasts(c)
<1>1. ASSUME NEW w \in Worker PROVE Drives(w)'
  BY DEF EpisodeInv, Drives, CurrentStatus, Abandons, Leaving
<1>2. ASSUME NEW w \in Worker PROVE TxFits(w)'
  <2>1. CASE tx[w].kind = "none"
    BY <2>1 DEF TxFits
  <2>2. CASE tx[w].kind # "none"
    <3>1. working[w] \in Campaign
      BY <2>2 DEF TypeInv, RunOK, TxOK
    <3>2. Undecided(working[w]) => Undecided(working[w])'
      BY <3>1 DEF Undecided
    <3>3. Leaving(w)' <=> Leaving(w)
      BY DEF Leaving
    <3>4. QED BY <3>1, <3>2, <3>3 DEF EpisodeInv, TxFits, CurrentStatus, AttemptsKept
  <2>3. QED BY <2>1, <2>2
<1>3. ASSUME NEW c \in Campaign PROVE Unclaimed(c)' /\ Lasts(c)
  <2>1. Unclaimed(c)'
    BY DEF EpisodeInv, Unclaimed, AttemptsKept, Runs
  <2>2. Lasts(c)
    BY DEF Lasts
  <2>3. QED BY <2>1, <2>2
<1>4. QED BY <1>1, <1>2, <1>3 DEF EpisodeInv

LEMMA OtherStepEpisodes ==
  ASSUME TypeInv, LeaseInv, EpisodeInv, OtherStep
  PROVE  EpisodeInv' /\ \A c \in Campaign : Lasts(c)
<1> job \in [Campaign -> JobRow] /\ RunOK /\ CountersOK
  BY DEF TypeInv, TablesOK
<1>1. AttemptsKept
  BY OtherStepEffect
<1>2. ASSUME NEW w \in Worker, LeaseLost(w) \/ WallTime(w) \/ Crash(w)
      PROVE  EpisodeInv' /\ \A c \in Campaign : Lasts(c)
  <2>1. pc[w] # "idle" /\ UNCHANGED job
    BY <1>2 DEF LeaseLost, WallTime, Crash, Awaits, At, Decides, tables
  <2>2. Good(w)
    <3>1. CASE Crash(w)
      BY <3>1, IdleGood DEF Crash, tables
    <3>2. CASE LeaseLost(w) \/ WallTime(w)
      BY <3>2, StoppedGood DEF EpisodeInv
    <3>3. QED BY <1>2, <3>1, <3>2
  <2>3. Continues \/ Idle(w)
    <3>1. \/ Idle(w)
          \/ /\ Goto(w, StoppedAt[pc[w]]) /\ StoppedAt[pc[w]] # "idle" /\ UNCHANGED working
      BY <1>2 DEF LeaseLost, WallTime, Crash, Awaits, At, StoppedAt
    <3>2. QED BY <2>1, <3>1, GotoContinues
  <2>4. QED BY <1>1, <2>1, <2>2, <2>3, OwnStepKeeps
<1>3. ASSUME NEW w \in Worker, Heartbeat(w)
      PROVE  EpisodeInv' /\ \A c \in Campaign : Lasts(c)
  <2>1. \A c \in Campaign : job'[c].status = job[c].status
    BY <1>3 DEF Heartbeat, JobRow
  <2>2. QED BY <1>1, <1>3, <2>1, TablesKeep DEF Heartbeat, local
<1>4. ASSUME NEW c \in Campaign, Expire(c) \/ BackoffElapses(c)
      PROVE  EpisodeInv' /\ \A d \in Campaign : Lasts(d)
  <2>1. \A d \in Campaign : job'[d].status = job[d].status
    BY <1>4 DEF Expire, BackoffElapses, JobRow
  <2>2. QED BY <1>1, <1>4, <2>1, TablesKeep DEF Expire, BackoffElapses, local
<1>5. ASSUME NEW c \in Campaign, Cancels(c)
      PROVE  EpisodeInv' /\ \A d \in Campaign : Lasts(d)
  <2>1. UNCHANGED <<episodes, pc, working, current, outcome, tx>>
    BY <1>5 DEF Cancels, CancelRead, CancelFlush, CancelCommit, tables, local
  <2>2. \A d \in Campaign : job'[d].status \in {job[d].status, "CANCELLED"}
    BY <1>5 DEF Cancels, CancelRead, CancelFlush, CancelCommit, tables, JobRow
  <2>3. \A d \in Campaign : (status'[d] = status[d] /\ cancelled'[d] = cancelled[d]) \/ cancelled'[d]
    BY <1>5 DEF Cancels, CancelRead, CancelFlush, CancelCommit, tables, TypeInv, TablesOK
  <2>4. QED BY <1>1, <2>1, <2>2, <2>3, TablesKeep
<1>6. CASE UNCHANGED vars
  BY <1>1, <1>6, TablesKeep DEF vars, tables, local
<1>7. QED BY <1>2, <1>3, <1>4, <1>5, <1>6 DEF OtherStep

\* One call of claim_job, which takes a job of S nobody runs.
LEMMA ClaimJobEffect ==
  ASSUME TypeInv, TimelyHeartbeats, InTime, LeaseInv, EpisodeInv, NEW w \in Worker, NEW S,
         S \subseteq Claimable, ClaimJob(w, S)
  PROVE  /\ \A c \in Campaign : Lasts(c)
         /\ \A v \in Worker, c \in Campaign : Runs(v, c) =>
              /\ c \notin S
              /\ UNCHANGED <<episodes[c], status[c], cancelled[c], job[c].attempts>>
         /\ \A c \in S : OpenIn(episodes'[c]) = {} /\ job'[c].attempts > 0 /\ job'[c].status = "LEASED"
         /\ \A c \in Campaign \ S : job'[c].attempts = job[c].attempts
         /\ \A c \in Campaign \ S :
              \/ UNCHANGED <<job[c], episodes[c]>>
              \/ job'[c].status = "FAILED" /\ OpenIn(episodes'[c]) = {}
<1>1. job \in [Campaign -> JobRow] /\ episodes \in [Campaign -> Seq(EpisodeStatus)]
  BY DEF TypeInv, TablesOK
<1>2. S \subseteq Campaign
  BY DEF Claimable
<1>3. ASSUME NEW c \in Campaign PROVE Lasts(c)
  <2>1. \/ episodes'[c] = episodes[c]
        \/ episodes'[c] = FailEpisodes(episodes[c], OpenIn(episodes[c]))
    BY DEF ClaimJob
  <2>2. \A i \in DOMAIN episodes[c] :
          episodes[c][i] \notin OpenEpisode => episodes'[c][i] = episodes[c][i]
    BY <1>1, <2>1, RecoveredAreClosed
  <2>3. status[c] \in TerminalCampaign => status'[c] = status[c]
    BY DEF ClaimJob, Reconciled
  <2>4. QED BY <2>2, <2>3 DEF Lasts
<1>4. ASSUME NEW v \in Worker, NEW c \in Campaign, Runs(v, c)
      PROVE  c \notin S /\ UNCHANGED <<episodes[c], status[c], cancelled[c], job[c].attempts>>
  <2>1. LeaseHeld(v, c)
    BY <1>4 DEF LeaseInv
  <2>2. c \notin Exhausted /\ c \notin S
    BY <1>4, <2>1 DEF Exhausted, Claimable, InTime, LeaseHeld
  <2>3. QED BY <2>2 DEF ClaimJob, Recovered
<1>5. ASSUME NEW c \in S
      PROVE  OpenIn(episodes'[c]) = {} /\ job'[c].attempts > 0 /\ job'[c].status = "LEASED"
  <2>1. c \in Campaign /\ c \in Claimable /\ Unclaimed(c)
    BY <1>2 DEF EpisodeInv
  <2>2. job'[c].attempts > 0 /\ job'[c].status = "LEASED"
    <3>1. job'[c] = LeasedRow(w, job[c])
      BY <2>1 DEF ClaimJob
    <3>2. /\ job[c] \in JobRow /\ job'[c].attempts = job[c].attempts + 1
          /\ job'[c].status = "LEASED"
      BY <1>1, <2>1, <3>1 DEF LeasedRow, JobRow
    <3>3. QED BY <3>2 DEF JobRow
  <2>3. CASE job[c].attempts > 0
    <3>1. episodes'[c] = FailEpisodes(episodes[c], OpenIn(episodes[c]))
      BY <2>1, <2>3 DEF ClaimJob, Recovered
    <3>2. QED BY <1>1, <2>1, <2>2, <3>1, RecoveredAreClosed
  <2>4. CASE ~ (job[c].attempts > 0)
    <3>1. job[c].status = "PENDING" /\ job[c].attempts = 0
      BY <1>1, <2>1, <2>4 DEF Claimable, Unclaimed, JobRow
    <3>2. OpenIn(episodes[c]) = {}
      BY <1>4, <2>1, <3>1 DEF Unclaimed
    <3>3. \/ episodes'[c] = episodes[c]
          \/ episodes'[c] = FailEpisodes(episodes[c], OpenIn(episodes[c]))
      BY <2>1 DEF ClaimJob
    <3>4. QED BY <1>1, <2>1, <2>2, <3>2, <3>3, RecoveredAreClosed
  <2>5. QED BY <2>2, <2>3, <2>4
<1>6. ASSUME NEW c \in Campaign \ S
      PROVE  \/ UNCHANGED <<job[c], episodes[c]>>
             \/ job'[c].status = "FAILED" /\ OpenIn(episodes'[c]) = {}
  <2>1. CASE c \in Exhausted
    <3>1. job'[c].status = "FAILED"
      BY <1>1, <1>6, <2>1 DEF ClaimJob, FailedRow, JobRow
    <3>2. OpenIn(episodes'[c]) = {}
      BY <1>1, <1>6, <2>1, RecoveredAreClosed DEF ClaimJob, Recovered
    <3>3. QED BY <3>1, <3>2
  <2>2. CASE c \notin Exhausted
    BY <1>6, <2>2 DEF ClaimJob, Recovered
  <2>3. QED BY <2>1, <2>2
<1>7. \A c \in Campaign \ S : job'[c].attempts = job[c].attempts
  BY <1>1 DEF ClaimJob, FailedRow, JobRow
<1>8. QED BY <1>3, <1>4, <1>5, <1>6, <1>7

\* The workers that run something go on as they were.
LEMMA RunnersGoOn ==
  ASSUME TypeInv, EpisodeInv, NEW v \in Worker,
         pc'[v] = pc[v], working'[v] = working[v], current'[v] = current[v], tx'[v] = tx[v],
         outcome'[v] = outcome[v],
         \A c \in Campaign :
           Runs(v, c) => UNCHANGED <<episodes[c], status[c], cancelled[c], job[c].attempts>>
  PROVE  Drives(v)' /\ TxFits(v)'
<1>1. Drives(v) /\ TxFits(v)
  BY DEF EpisodeInv
<1>2. CASE pc[v] = "idle"
  <2>1. tx[v].kind = "none"
    BY <1>2 DEF TypeInv, RunOK, TxOK
  <2>2. QED BY <1>1, <1>2, <2>1 DEF Drives, TxFits, InEpisode
<1>3. CASE pc[v] # "idle"
  <2>1. working[v] \in Campaign /\ Runs(v, working[v])
    BY <1>3 DEF TypeInv, RunOK, Runs
  <2>2. Leaving(v)' <=> Leaving(v)
    BY DEF Leaving
  <2>3. QED BY <1>1, <2>1, <2>2 DEF Drives, TxFits, CurrentStatus, Undecided, Abandons
<1>4. QED BY <1>2, <1>3

LEMMA PollQueueEpisodes ==
  ASSUME TypeInv, TimelyHeartbeats, LeaseInv, EpisodeInv, NEW w \in Worker, PollQueue(w)
  PROVE  EpisodeInv' /\ \A c \in Campaign : Lasts(c)
<1> RunOK
  BY DEF TypeInv
<1>1. InTime /\ pc[w] = "idle"
  BY DEF PollQueue, Reap, Claim
<1>2. CASE Reap(w)
  <2>1. ClaimJob(w, {}) /\ UNCHANGED <<pc, working, current, outcome, tx>>
    BY <1>2 DEF Reap, ClaimJob
  <2>2. /\ \A c \in Campaign : Lasts(c)
        /\ \A v \in Worker, c \in Campaign :
             Runs(v, c) => UNCHANGED <<episodes[c], status[c], cancelled[c], job[c].attempts>>
        /\ \A c \in Campaign : job'[c].attempts = job[c].attempts
        /\ \A c \in Campaign : \/ UNCHANGED <<job[c], episodes[c]>>
                               \/ job'[c].status = "FAILED" /\ OpenIn(episodes'[c]) = {}
    BY <1>1, <2>1, ClaimJobEffect
  <2>3. \A v \in Worker : Drives(v)' /\ TxFits(v)'
    BY <2>1, <2>2, RunnersGoOn
  <2>4. \A c \in Campaign : Unclaimed(c)'
    BY <2>1, <2>2 DEF EpisodeInv, Unclaimed, Runs
  <2>5. QED BY <2>2, <2>3, <2>4 DEF EpisodeInv
<1>3. ASSUME NEW c \in Campaign, Claim(w, c)
      PROVE  EpisodeInv' /\ \A d \in Campaign : Lasts(d)
  <2>1. /\ ClaimJob(w, {c}) /\ {c} \subseteq Claimable /\ UNCHANGED <<current, outcome, tx>>
        /\ pc' = [pc EXCEPT ![w] = "start"] /\ working' = [working EXCEPT ![w] = c]
    BY <1>3 DEF Claim, ClaimJob
  <2>2. /\ \A d \in Campaign : Lasts(d)
        /\ \A v \in Worker, d \in Campaign :
             Runs(v, d) => UNCHANGED <<episodes[d], status[d], cancelled[d], job[d].attempts>>
        /\ OpenIn(episodes'[c]) = {} /\ job'[c].attempts > 0
        /\ job'[c].status = "LEASED"
        /\ \A d \in Campaign \ {c} : job'[d].attempts = job[d].attempts
        /\ \A d \in Campaign \ {c} : \/ UNCHANGED <<job[d], episodes[d]>>
                                     \/ job'[d].status = "FAILED" /\ OpenIn(episodes'[d]) = {}
    <3>1. /\ \A d \in Campaign : Lasts(d)
          /\ \A v \in Worker, d \in Campaign : Runs(v, d) =>
               /\ d \notin {c}
               /\ UNCHANGED <<episodes[d], status[d], cancelled[d], job[d].attempts>>
          /\ \A d \in {c} :
               OpenIn(episodes'[d]) = {} /\ job'[d].attempts > 0 /\ job'[d].status = "LEASED"
          /\ \A d \in Campaign \ {c} : job'[d].attempts = job[d].attempts
          /\ \A d \in Campaign \ {c} :
               \/ UNCHANGED <<job[d], episodes[d]>>
               \/ job'[d].status = "FAILED" /\ OpenIn(episodes'[d]) = {}
      BY <1>1, <2>1, ClaimJobEffect
    <3>2. QED BY <3>1
  <2>3. Drives(w)' /\ TxFits(w)'
    <3>1. pc'[w] = "start" /\ working'[w] = c /\ tx'[w].kind = "none" /\ current'[w] = 0
      BY <1>1, <2>1 DEF RunOK, TxOK, EpisodeInv, Drives, InEpisode
    <3>2. QED BY <2>2, <3>1 DEF Drives, TxFits, InEpisode
  <2>4. ASSUME NEW v \in Worker \ {w} PROVE Drives(v)' /\ TxFits(v)'
    <3>1. pc'[v] = pc[v] /\ working'[v] = working[v]
      BY <2>1 DEF RunOK
    <3>2. QED BY <2>1, <2>2, <3>1, RunnersGoOn
  <2>5. ASSUME NEW d \in Campaign PROVE Unclaimed(d)'
    <3>1. CASE d = c
      <4>1. Runs(w, c)'
        BY <2>1 DEF RunOK, Runs
      <4>2. QED BY <2>2, <3>1, <4>1 DEF Unclaimed
    <3>2. CASE d # c
      <4>1. \A v \in Worker : Runs(v, d)' <=> Runs(v, d)
        BY <1>1, <2>1, <3>2 DEF RunOK, Runs
      <4>2. QED BY <2>2, <3>2, <4>1 DEF EpisodeInv, Unclaimed
    <3>3. QED BY <3>1, <3>2
  <2>6. QED BY <2>2, <2>3, <2>4, <2>5 DEF EpisodeInv
<1>4. QED BY <1>2, <1>3 DEF PollQueue

LEMMA EpisodeInvInit == Init => EpisodeInv
BY ConstantsAssumption
  DEF Init, NoTx, QueuedJob, EpisodeInv, Drives, TxFits, Unclaimed, InEpisode, OpenIn, Runs

LEMMA EpisodeInvNext ==
  ASSUME TimelyHeartbeats, TypeInv, LeaseInv, EpisodeInv, [Next]_vars
  PROVE  EpisodeInv' /\ \A c \in Campaign : Lasts(c)
<1>1. \/ \E w \in Worker : RunStep(w) \/ PollQueue(w)
      \/ OtherStep
  BY DEF Next, OtherStep
<1>2. QED BY <1>1, RunStepEpisodes, PollQueueEpisodes, OtherStepEpisodes

LEMMA EpisodeInvAlways ==
  ASSUME TimelyHeartbeats
  PROVE  Spec => [](TypeInv /\ LeaseInv /\ EpisodeInv)
<1>1. Init => TypeInv /\ LeaseInv /\ EpisodeInv
  BY TypeInvInit, LeaseInvInit, EpisodeInvInit
<1>2. TypeInv /\ LeaseInv /\ EpisodeInv /\ [Next]_vars => (TypeInv /\ LeaseInv /\ EpisodeInv)'
  BY TypeInvNext, LeaseInvNext, EpisodeInvNext
<1>3. QED BY <1>1, <1>2, PTL DEF Spec

-----------------------------------------------------------------------------
(* What follows from it.                                                   *)

LEMMA EpisodeInvDriven ==
  ASSUME TypeInv, LeaseInv, EpisodeInv
  PROVE  OpenEpisodesAreDriven
<1> SUFFICES ASSUME NEW c \in Campaign
             PROVE  /\ \A w \in Runners(c) :
                         ~ Leaving(w) => OpenIn(episodes[c]) \subseteq {current[w]}
                    /\ Runners(c) = {} /\ job[c].status \in {"COMPLETED", "FAILED"}
                         => OpenIn(episodes[c]) = {}
                    /\ Runners(c) = {} /\ job[c].status = "PENDING" /\ OpenIn(episodes[c]) # {}
                         => job[c].attempts \in 1 .. MaxAttempts - 1
  BY Zenon DEF OpenEpisodesAreDriven
<1>1. ASSUME NEW w \in Runners(c), ~ Leaving(w)
      PROVE  OpenIn(episodes[c]) \subseteq {current[w]}
  BY <1>1 DEF Runners, Runs, EpisodeInv, Drives
<1>2. Unclaimed(c) /\ (Runners(c) = {} => \A w \in Worker : ~ Runs(w, c))
  BY DEF EpisodeInv, Runners
<1>3. job[c].attempts \in Nat
  BY DEF TypeInv, TablesOK, JobRow
<1>4. QED BY <1>1, <1>2, <1>3, ConstantsAssumption DEF Unclaimed

\* While a campaign is executed, only the episode its worker drives is open,
\* until a stopped or failed run is leaving; what an earlier attempt left open
\* was failed before the next one began, and nothing stays open that no claim
\* will come to, short of a cancellation under the runner
\* (_fail_stale_episodes, fail_or_retry_job, ManagedEpisodeEnvironment.close).
THEOREM OpenEpisodesAlwaysDriven ==
  ASSUME TimelyHeartbeats
  PROVE  Spec => []OpenEpisodesAreDriven
BY EpisodeInvAlways, EpisodeInvDriven, PTL

\* No worker, recovery or crash writes over the result of an episode: once on
\* record, it can only become DESTROYED (set_episode_status, claim_job).
THEOREM EpisodeResultsLast ==
  ASSUME TimelyHeartbeats
  PROVE  Spec => EpisodeResultIsFinal
<1>1. TypeInv /\ LeaseInv /\ EpisodeInv /\ [Next]_vars
        => [\A c \in Campaign : \A i \in DOMAIN episodes[c] :
              episodes[c][i] \notin OpenEpisode
                => episodes'[c][i] \in {episodes[c][i], "DESTROYED"}]_vars
  BY EpisodeInvNext DEF Lasts
<1>2. QED BY <1>1, EpisodeInvAlways, PTL DEF Spec, EpisodeResultIsFinal

\* A campaign that ended stays as it ended, unless a cancellation struck
\* (CAMPAIGN_TRANSITIONS, fail_or_retry_job, claim_job).
THEOREM EndingsLast ==
  ASSUME TimelyHeartbeats
  PROVE  Spec => TerminalIsFinal
<1>1. TypeInv /\ LeaseInv /\ EpisodeInv /\ [Next]_vars
        => [\A c \in Campaign :
              status[c] \in TerminalCampaign /\ ~cancelled'[c] => status'[c] = status[c]]_vars
  BY EpisodeInvNext DEF Lasts
<1>2. QED BY <1>1, EpisodeInvAlways, PTL DEF Spec, TerminalIsFinal

\* A transaction that settles a row belongs to the owner of the row.
LEMMA SettlersOwn ==
  ASSUME TypeInv, LeaseInv, NEW w \in Worker, tx[w].kind # "none"
  PROVE  job[working[w]].owner = w
<1>1. pc[w] # "idle" /\ working[w] \in Campaign
  BY DEF TypeInv, RunOK, TxOK
<1>2. QED BY <1>1 DEF LeaseInv, LeaseHeld, Runs

\* A row is finished, retried or given up only by the worker its lease names,
\* even if it was cancelled meanwhile (finish_job, fail_or_retry_job).
THEOREM OwnersSettle ==
  ASSUME TimelyHeartbeats
  PROVE  Spec => OnlyOwnerSettles
<1>1. TypeInv /\ LeaseInv /\ [Next]_vars
        => [\A w \in Worker :
              tx[w].kind \in {"finish", "retry", "giveup"} /\ job' # job /\ tx'[w] # tx[w]
                => job[working[w]].owner = w]_vars
  BY SettlersOwn
<1>2. QED BY <1>1, EpisodeInvAlways, PTL DEF Spec, OnlyOwnerSettles
=============================================================================
