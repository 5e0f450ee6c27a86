---------------------------- MODULE ResearchArtifacts ----------------------------
(***************************************************************************)
(* What the researcher stores and what the workers compute for him: the    *)
(* uploads (research_transfers.py), the dataset snapshots built by a job   *)
(* (DatasetRunner) and the evaluations of case pairs, whose job is         *)
(* scheduled again by each of its sessions (research_evaluations.py).      *)
(* They share the owner's row: its lock, under which every transaction     *)
(* runs, and its byte quota.  Such a transaction is one step, unless it    *)
(* does what a rollback does not undo: who gives uploads up removes their  *)
(* files first, and only then commits, or does not.                        *)
(*                                                                         *)
(* An upload's handler awaits the bytes and the store with its row         *)
(* unlocked; meanwhile the upload may be cancelled or expire, and the API  *)
(* process may restart.  A job's run has no await at all, or runs in a     *)
(* thread that nobody stops: it goes on when its lease is lost, beside the *)
(* run of the next owner.                                                  *)
(*                                                                         *)
(* Left out.  The contents of objects: a file is whole or not.  The store: *)
(* an object without a row is never looked at.  Idempotency keys used with *)
(* other content.  The sessions themselves (ResearchSession): one is open, *)
(* or over with an outcome, and its worker then schedules the evaluation,  *)
(* or does not get that far.                                               *)
(***************************************************************************)
EXTENDS Integers, FiniteSets, FiniteSetsExt, Functions

CONSTANTS
  Upload,        \* the request keys of uploads
  Size,          \* [Upload -> Nat], their declared sizes
  Asked,         \* what the researcher may ask for: subsets of Upload and Kind
  Call,          \* the handlers the API may have at once
  Run,           \* the runs of jobs, of all workers
  Pairs,         \* the case pairs of the evaluation's suite
  Outcome,       \* [Case -> how its session may end]
  ReportSize,    \* of a dataset or a report
  Quota,         \* research_owner_storage_bytes
  MaxAttempts,   \* worker_max_attempts
  MaxOps,        \* operations the selected sessions complete
  MaxRequests,   \* bound: handlers started, by what is asked for
  None

Kind == {"dataset", "evaluation"}
Role == {"baseline", "candidate"}
Case == (1..Pairs) \X Role

\* None stands for no result: it is neither a number of operations nor a set of samples.
ASSUME ArtifactConstants ==
  /\ IsFiniteSet(Upload) /\ Upload \intersect Kind = {}
  /\ Size \in [Upload -> Nat]
  /\ {Pairs, ReportSize, Quota, MaxAttempts, MaxOps} \subseteq Nat
  /\ None \notin Nat /\ None \notin Kind
  /\ \A samples \in SUBSET ((1..Pairs) \X Role \X {"completed", "failed"}) : samples # None

VARIABLES
  asked,
  reserved,      \* owner.reserved_bytes
  upload,        \* [Upload -> status]
  file,          \* [Upload -> Content]: the .partial file
  giving,        \* the uploads a transaction gives up that has not ended, and as what
  calls,         \* [Call -> [at, upload]]
  requests, restarted,
  artifacts,     \* [Upload \union Kind -> Nat]: rows of the artifact table
  record,        \* research records: the requests, the freeze and the results
  done,          \* operations completed so far
  sessions,      \* [Case -> "none", "open", "completed" or "failed"]
  ended,         \* the cases whose worker has not yet scheduled the evaluation
  asleep,        \* whether the last worker to come there did not schedule it
  pending,       \* [Kind -> [attempt_count -> number of PENDING jobs]]
  failed,        \* the kinds with a FAILED job
  runs

uploading == <<upload, file, giving, calls, requests, restarted>>
computing == <<record, done, sessions, ended, asleep, pending, failed, runs>>
vars == <<asked, reserved, artifacts, uploading, computing>>

-----------------------------------------------------------------------------
(* Uploads.                                                                *)

Idle == [at |-> "idle", upload |-> None]

\* A file that is "lost" was removed by a transaction that gives its upload up,
\* and is gone although that transaction may not commit.
Content == {"none", "partial", "whole", "lost"}
IsThere(content) == content \in {"partial", "whole"}

Nobody == [uploads |-> {}, as |-> None]

\* no transaction holds the owner's lock
Unlocked == giving = Nobody

\* the handler goes on, or returns
Goes(c, at) ==
  calls' = [calls EXCEPT ![c] = IF at = "idle" THEN Idle ELSE [@ EXCEPT !.at = at]]

Returned(c) == Goes(c, "idle")

Starts(c, u, at) ==
  /\ calls[c] = Idle
  /\ requests < MaxRequests[asked]
  /\ requests' = requests + 1
  /\ calls' = [calls EXCEPT ![c] = [at |-> at, upload |-> u]]

Status(u, status) == upload' = [upload EXCEPT ![u] = status]

File(u, content) == file' = [file EXCEPT ![u] = content]

Fits(size) == reserved + size <= Quota

Initiate(u) ==
  /\ Unlocked
  /\ u \in asked
  /\ upload[u] = "none"
  /\ Fits(Size[u])
  /\ reserved' = reserved + Size[u]
  /\ Status(u, "pending")
  /\ UNCHANGED <<asked, artifacts, file, calls, requests, restarted, giving, computing>>

Transfer(c, u) ==
  /\ Unlocked
  /\ upload[u] \in {"pending", "failed"}
  /\ Starts(c, u, "opening")
  /\ Status(u, "uploading")
  /\ UNCHANGED <<asked, reserved, artifacts, file, restarted, giving, computing>>

\* it may have been cancelled by now: the file is there anyway
Open(c) ==
  /\ calls[c].at = "opening"
  /\ Goes(c, "receiving")
  /\ File(calls[c].upload, "partial")
  /\ UNCHANGED <<asked, reserved, artifacts, upload, requests, restarted, giving, computing>>

\* all bytes arrive, into the file or what is left of it; or too few, too many, or others
Receive(c) ==
  /\ calls[c].at = "receiving"
  /\ \/ Goes(c, "received")
        /\ IF IsThere(file[calls[c].upload]) THEN File(calls[c].upload, "whole") ELSE UNCHANGED file
     \/ Goes(c, "broken") /\ UNCHANGED file
  /\ UNCHANGED <<asked, reserved, artifacts, upload, requests, restarted, giving, computing>>

Received(c) ==
  /\ Unlocked
  /\ calls[c].at = "received"
  /\ IF upload[calls[c].upload] = "uploading"
     THEN Status(calls[c].upload, "uploaded") /\ Returned(c)
     ELSE Goes(c, "broken") /\ UNCHANGED upload
  /\ UNCHANGED <<asked, reserved, artifacts, file, requests, restarted, giving, computing>>

Unlink(c, from, to) ==
  /\ calls[c].at = from
  /\ Goes(c, to)
  /\ File(calls[c].upload, "none")
  /\ UNCHANGED <<asked, reserved, artifacts, upload, requests, restarted, giving, computing>>

TryAgain(c, from, to) ==
  /\ Unlocked
  /\ calls[c].at = from
  /\ Goes(c, to)
  /\ IF upload[calls[c].upload] = "uploading" THEN Status(calls[c].upload, "failed") ELSE UNCHANGED upload
  /\ UNCHANGED <<asked, reserved, artifacts, file, requests, restarted, giving, computing>>

\* Variant: the upload may be tried again before the file goes.
FailsFirst(c) == TryAgain(c, "broken", "cleared") \/ Unlink(c, "cleared", "idle")

\* the file goes first, then the upload may be tried again
FailTransfer(c) == Unlink(c, "broken", "cleared") \/ TryAgain(c, "cleared", "idle")

Complete(c, u) ==
  /\ Unlocked
  /\ upload[u] = "uploaded"
  /\ Starts(c, u, "storing")
  /\ Status(u, "finalizing")
  /\ UNCHANGED <<asked, reserved, artifacts, file, restarted, giving, computing>>

\* put_file copies a whole file; without one, or when the store fails, it raises
PutFile(c) ==
  /\ calls[c].at = "storing"
  /\ \/ file[calls[c].upload] = "whole" /\ Goes(c, "stored")
     \/ Goes(c, "unstored")
  /\ UNCHANGED <<asked, reserved, artifacts, upload, file, requests, restarted, giving, computing>>

\* Variant: an upload that was given up meanwhile is completed.
StillFinalizing(u) == upload[u] # "none"

Finalizing(u) == upload[u] = "finalizing"

Stored(c) ==
  /\ Unlocked
  /\ calls[c].at = "stored"
  /\ IF Finalizing(calls[c].upload)
     THEN /\ artifacts' = [artifacts EXCEPT ![calls[c].upload] = @ + 1]
          /\ Status(calls[c].upload, "completed")
          /\ Goes(c, "completed")
     ELSE Goes(c, "unstored") /\ UNCHANGED <<artifacts, upload>>
  /\ UNCHANGED <<asked, reserved, file, requests, restarted, giving, computing>>

DropFile(c) ==
  /\ calls[c].at = "completed"
  /\ Returned(c)
  /\ File(calls[c].upload, "none")
  /\ UNCHANGED <<asked, reserved, artifacts, upload, requests, restarted, giving, computing>>

FailComplete(c) ==
  /\ Unlocked
  /\ calls[c].at = "unstored"
  /\ Returned(c)
  /\ LET u == calls[c].upload
     IN IF upload[u] = "finalizing"
        THEN Status(u, IF IsThere(file[u]) THEN "uploaded" ELSE "failed")
        ELSE UNCHANGED upload
  /\ UNCHANGED <<asked, reserved, artifacts, file, requests, restarted, giving, computing>>

Abandonable(u) == upload[u] \notin {"none", "completed", "cancelled", "expired"}

\* the researcher cancels an upload, or maintenance finds uploads that expired, all in
\* one transaction: their files go at once
Discard(u, status) ==
  /\ Abandonable(u)
  /\ u \notin giving.uploads
  /\ Unlocked \/ (status = "expired" /\ giving.as = "expired")
  /\ giving' = [uploads |-> giving.uploads \union {u}, as |-> status]
  /\ File(u, "lost")
  /\ UNCHANGED <<asked, reserved, artifacts, upload, calls, requests, restarted, computing>>

\* the transaction commits
GiveUp ==
  /\ ~Unlocked
  /\ reserved' = reserved - SumFunctionOnSet(Size, giving.uploads)
  /\ upload' = [u \in Upload |-> IF u \in giving.uploads THEN giving.as ELSE upload[u]]
  /\ giving' = Nobody
  /\ UNCHANGED <<asked, artifacts, file, calls, requests, restarted, computing>>

\* it does not: the commit fails, or its process dies
RollBack ==
  /\ ~Unlocked
  /\ giving' = Nobody
  /\ UNCHANGED <<asked, reserved, artifacts, upload, file, calls, requests, restarted, computing>>

\* cancelling it once more only removes the file a handler has opened since
CancelAgain(u) ==
  /\ Unlocked
  /\ upload[u] \in {"cancelled", "expired"}
  /\ IsThere(file[u])
  /\ File(u, "none")
  /\ UNCHANGED <<asked, reserved, artifacts, upload, calls, requests, restarted, giving, computing>>

\* the API process restarts: what its handlers were doing stays as it is, and a
\* cancellation under way is rolled back
Restart ==
  /\ \E c \in Call : calls[c] # Idle
  /\ calls' = [c \in Call |-> Idle]
  /\ restarted' = TRUE
  /\ giving' = IF giving.as = "cancelled" THEN Nobody ELSE giving
  /\ UNCHANGED <<asked, reserved, artifacts, upload, file, requests, computing>>

-----------------------------------------------------------------------------
(* Jobs and their runs.                                                    *)

NoRun == [at |-> "idle", kind |-> None, attempt |-> 0, owned |-> FALSE, todo |-> {}, samples |-> {}]

Enqueued(jobs, kind, attempt) == [jobs EXCEPT ![kind][attempt] = @ + 1]

At(r, at) == runs' = [runs EXCEPT ![r].at = at]

Claim(r, kind, attempt) ==
  /\ runs[r] = NoRun
  /\ attempt < MaxAttempts
  /\ pending[kind][attempt] > 0
  /\ pending' = [pending EXCEPT ![kind][attempt] = @ - 1]
  /\ runs' = [runs EXCEPT ![r] = [NoRun EXCEPT !.at = "read", !.kind = kind, !.owned = TRUE,
                                              !.attempt = attempt + 1]]
  /\ UNCHANGED <<asked, reserved, artifacts, uploading, record, done, sessions, ended, asleep, failed>>

\* a job is tried again, or FAILED
Released(kind, attempt) ==
  IF attempt < MaxAttempts
  THEN pending' = Enqueued(pending, kind, attempt) /\ UNCHANGED failed
  ELSE failed' = failed \union {kind} /\ UNCHANGED pending

\* the lease expires under a run that cannot heartbeat: it goes on
LoseLease(r) ==
  /\ runs[r].owned
  /\ runs' = [runs EXCEPT ![r].owned = FALSE]
  /\ Released(runs[r].kind, runs[r].attempt)
  /\ UNCHANGED <<asked, reserved, artifacts, uploading, record, done, sessions, ended, asleep>>

\* the run returns: its job is finished, if it still is its own
Returns(r) == runs' = [runs EXCEPT ![r] = NoRun] /\ UNCHANGED <<pending, failed>>

\* it raises, or its worker dies
Raises(r) ==
  /\ runs' = [runs EXCEPT ![r] = NoRun]
  /\ IF runs[r].owned THEN Released(runs[r].kind, runs[r].attempt) ELSE UNCHANGED <<pending, failed>>

Die(r) ==
  /\ runs[r] # NoRun
  /\ Raises(r)
  /\ UNCHANGED <<asked, reserved, artifacts, uploading, record, done, sessions, ended, asleep>>

Result(kind) == IF kind = "dataset" THEN "dataset_result" ELSE "evaluation_result"

\* has somebody else finished, is there a frozen manifest: the table is read before the lock
Read(r) ==
  /\ runs[r].at = "read"
  /\ LET kind == runs[r].kind
     IN IF record[Result(kind)] # None THEN Returns(r)
        ELSE /\ runs' = [runs EXCEPT
                  ![r].at = IF kind = "evaluation" THEN "schedule"
                            ELSE IF record["dataset_freeze"] = None THEN "freeze" ELSE "store",
                  ![r].todo = IF kind = "evaluation" THEN 1..Pairs ELSE {}]
             /\ UNCHANGED <<pending, failed>>
  /\ UNCHANGED <<asked, reserved, artifacts, uploading, record, done, sessions, ended, asleep>>

PutFailed(r) ==
  /\ runs[r].at = "store"
  /\ Raises(r)
  /\ UNCHANGED <<asked, reserved, artifacts, uploading, record, done, sessions, ended, asleep>>

Put(r) ==
  /\ runs[r].at = "store"
  /\ At(r, "record")
  /\ UNCHANGED <<asked, reserved, artifacts, uploading, record, done, sessions, ended, asleep, pending, failed>>

Recorded(kind) == record[Result(kind)] # None

Record(r) ==
  /\ Unlocked
  /\ runs[r].at = "record"
  /\ LET kind == runs[r].kind
     IN IF Recorded(kind) THEN Returns(r) /\ UNCHANGED <<reserved, artifacts, record>>
        ELSE IF ~Fits(ReportSize) THEN Raises(r) /\ UNCHANGED <<reserved, artifacts, record>>
        ELSE /\ reserved' = reserved + ReportSize
             /\ artifacts' = [artifacts EXCEPT ![kind] = @ + 1]
             /\ record' = [record EXCEPT ![Result(kind)] =
                  IF kind = "dataset" THEN record["dataset_freeze"] ELSE runs[r].samples]
             /\ Returns(r)
  /\ UNCHANGED <<asked, uploading, done, sessions, ended, asleep>>

-----------------------------------------------------------------------------
(* Datasets.                                                               *)

Schedule(kind) == pending' = Enqueued(pending, kind, 0)

\* the cutoff is the time of the first request
Snapshot ==
  /\ Unlocked
  /\ "dataset" \in asked
  /\ record["dataset"] = None
  /\ record' = [record EXCEPT !["dataset"] = done]
  /\ Schedule("dataset")
  /\ UNCHANGED <<asked, reserved, artifacts, uploading, done, sessions, ended, asleep, failed, runs>>

OperationCompletes ==
  /\ Unlocked
  /\ "dataset" \in asked
  /\ done < MaxOps
  /\ done' = done + 1
  /\ UNCHANGED <<asked, reserved, artifacts, uploading, record, sessions, ended, asleep, pending, failed, runs>>

\* what had completed at the cutoff
Selected(cutoff) == IF done < cutoff THEN done ELSE cutoff

Freeze(r) ==
  /\ Unlocked
  /\ runs[r].at = "freeze"
  /\ LET records == Selected(record["dataset"])
     IN IF record["dataset_freeze"] \in {None, records}
        THEN /\ record' = [record EXCEPT !["dataset_freeze"] = records]
             /\ At(r, "store")
             /\ UNCHANGED <<pending, failed>>
        ELSE Raises(r) /\ UNCHANGED record
  /\ UNCHANGED <<asked, reserved, artifacts, uploading, done, sessions, ended, asleep>>

-----------------------------------------------------------------------------
(* Evaluations.                                                            *)

Evaluate ==
  /\ Unlocked
  /\ "evaluation" \in asked
  /\ record["evaluation"] = None
  /\ record' = [record EXCEPT !["evaluation"] = TRUE]
  /\ Schedule("evaluation")
  /\ UNCHANGED <<asked, reserved, artifacts, uploading, done, sessions, ended, asleep, failed, runs>>

Over(case) == sessions[case] \in {"completed", "failed"}

NextPair(r) == Min(runs[r].todo)

\* the session of the pair that is missing, or the owner has too many sessions
CreateSession(r, role) ==
  /\ Unlocked
  /\ runs[r].at = "schedule" /\ runs[r].todo # {}
  /\ sessions[<<NextPair(r), role>>] = "none"
  /\ role = "candidate" => sessions[<<NextPair(r), "baseline">>] # "none"
  /\ \/ sessions' = [sessions EXCEPT ![<<NextPair(r), role>>] = "open"] /\ UNCHANGED <<runs, pending, failed>>
     \/ Raises(r) /\ UNCHANGED sessions
  /\ UNCHANGED <<asked, reserved, artifacts, uploading, record, done, ended, asleep>>

\* Variant: one session of the pair is enough.
AnyOver(pair) == \E role \in Role : Over(<<pair, role>>)

PairOver(pair) == \A role \in Role : Over(<<pair, role>>)

\* a pair that is not over ends the run: its sessions will schedule the next one
Judge(r) ==
  /\ Unlocked
  /\ runs[r].at = "schedule" /\ runs[r].todo # {}
  /\ \A role \in Role : sessions[<<NextPair(r), role>>] # "none"
  /\ IF PairOver(NextPair(r))
     THEN /\ runs' = [runs EXCEPT
               ![r].todo = @ \ {NextPair(r)},
               ![r].at = IF runs[r].todo = {NextPair(r)} THEN "store" ELSE "schedule",
               ![r].samples = @ \union {<<NextPair(r), role, sessions[<<NextPair(r), role>>]>> : role \in Role}]
          /\ UNCHANGED <<pending, failed>>
     ELSE Returns(r)
  /\ UNCHANGED <<asked, reserved, artifacts, uploading, record, done, sessions, ended, asleep>>

\* Variant: the evaluation is scheduled before the session is over.
EndsLate(case, outcome) ==
  /\ sessions[case] = "open"
  /\ \/ case \notin ended /\ ended' = ended \union {case} /\ Schedule("evaluation") /\ UNCHANGED sessions
     \/ case \in ended /\ sessions' = [sessions EXCEPT ![case] = outcome] /\ ended' = ended \ {case}
        /\ UNCHANGED pending
  /\ UNCHANGED <<asked, reserved, artifacts, uploading, record, done, asleep, failed, runs>>

SessionEnds(case, outcome) ==
  /\ Unlocked
  /\ sessions[case] = "open"
  /\ sessions' = [sessions EXCEPT ![case] = outcome]
  /\ ended' = ended \union {case}
  /\ UNCHANGED <<asked, reserved, artifacts, uploading, record, done, asleep, pending, failed, runs>>

\* the session's worker goes on after its commit, or does not: it dies, or the campaign of
\* a session that was closed while it was queued refuses its status
ScheduleAgain(case) ==
  /\ case \in ended /\ Over(case)
  /\ ended' = ended \ {case}
  /\ \/ Schedule("evaluation") /\ asleep' = FALSE
     \/ UNCHANGED pending /\ asleep' = TRUE
  /\ UNCHANGED <<asked, reserved, artifacts, uploading, record, done, sessions, failed, runs>>

-----------------------------------------------------------------------------

Init ==
  /\ asked \in Asked
  /\ reserved = 0
  /\ upload = [u \in Upload |-> "none"]
  /\ file = [u \in Upload |-> "none"]
  /\ calls = [c \in Call |-> Idle]
  /\ giving = Nobody
  /\ requests = 0 /\ restarted = FALSE
  /\ artifacts = [s \in Upload \union Kind |-> 0]
  /\ record = [k \in Kind \union {"dataset_freeze"} \union {Result(k) : k \in Kind} |-> None]
  /\ done = 0
  /\ sessions = [c \in Case |-> "none"]
  /\ ended = {} /\ asleep = FALSE
  /\ pending = [k \in Kind |-> [a \in 0..MaxAttempts |-> 0]]
  /\ failed = {}
  /\ runs = [r \in Run |-> NoRun]

Requests ==
  \/ \E u \in Upload :
       \/ Initiate(u) \/ CancelAgain(u)
       \/ \E status \in {"cancelled", "expired"} : Discard(u, status)
       \/ \E c \in Call : Transfer(c, u) \/ Complete(c, u)
  \/ Snapshot \/ Evaluate

Handling ==
  \E c \in Call :
    \/ Open(c) \/ Receive(c) \/ Received(c) \/ FailTransfer(c)
    \/ PutFile(c) \/ Stored(c) \/ DropFile(c) \/ FailComplete(c)

Working(r) ==
  \/ \E kind \in Kind, attempt \in 0..MaxAttempts : Claim(r, kind, attempt)
  \/ Read(r) \/ Freeze(r) \/ Put(r) \/ Record(r) \/ Judge(r)
  \/ \E role \in Role : CreateSession(r, role)

Ending ==
  \E case \in Case :
    \/ \E outcome \in Outcome[case] : SessionEnds(case, outcome)
    \/ ScheduleAgain(case)

Next ==
  \/ Requests \/ Handling \/ GiveUp \/ RollBack \/ Restart
  \/ OperationCompletes \/ Ending
  \/ \E r \in Run : Working(r) \/ LoseLease(r) \/ Die(r) \/ PutFailed(r)

Computing == Ending \/ \E r \in Run : Working(r)

\* the workers poll, sessions end by their limits, a transaction ends, and who waits for
\* the owner's lock gets it
Spec == Init /\ [][Next]_vars /\ SF_vars(Computing) /\ WF_vars(GiveUp \/ RollBack)

-----------------------------------------------------------------------------
(* Properties.                                                             *)

\* The owner's quota: what is reserved is the sizes of the uploads nobody gave up and of
\* the recorded datasets and reports - whatever meets, fails or is repeated - and fits.
StorageAddsUp ==
  /\ reserved = SumFunctionOnSet(Size, {u \in Upload : upload[u] \notin {"none", "cancelled", "expired"}})
                + ReportSize * Cardinality({k \in Kind : Recorded(k)})
  /\ reserved <= Quota

\* An upload that may be finalized has its whole file, unless giving it up has begun and
\* was not committed: then finalizing fails, and it may be transferred again.  A completed
\* one has exactly one artifact.  One that was given up has no artifact, and no file once
\* its handlers returned (a restart of the API may leave one behind).
UploadsAreWhole ==
  \A u \in Upload :
    /\ upload[u] \in {"uploaded", "finalizing"} => file[u] \in {"whole", "lost"}
    /\ artifacts[u] = IF upload[u] = "completed" THEN 1 ELSE 0
    /\ upload[u] \in {"cancelled", "expired"} /\ ~restarted /\ (\A c \in Call : calls[c].upload # u)
         => ~IsThere(file[u])

\* A dataset holds what had completed at its cutoff, however late or often it is built; a
\* report is over all cases, with the outcomes their sessions ended with; and each has one
\* artifact, the one its record names.
ResultsAreFaithful ==
  /\ record["dataset_result"] \in {None, record["dataset"]}
  /\ Recorded("evaluation") =>
       record["evaluation_result"] = {<<c[1], c[2], sessions[c]>> : c \in Case} /\ \A c \in Case : Over(c)
  /\ \A k \in Kind : artifacts[k] = IF Recorded(k) THEN 1 ELSE 0

\* What is asked for is computed in the end, or one of its jobs FAILED: the sessions of an
\* evaluation schedule it again, so that no worker waits for them.  It waits for ever only
\* if the last of them to end did not get as far as that.
ResultsArrive ==
  \A k \in Kind :
    record[k] # None ~> Recorded(k) \/ k \in failed \/ (k = "evaluation" /\ []asleep)
================================================================================
