-------------------------- MODULE CapsuleSupervisor --------------------------
(***************************************************************************)
(* The capsule supervisor: it creates a capsule (a network, the Blue       *)
(* gateway's container, the target's container) within a bounded number of *)
(* slots, destroys it for the worker that asked for it, for the reaper of  *)
(* capsules past their time and for its own shutdown, and when it starts   *)
(* removes what an earlier process left behind.                            *)
(*                                                                         *)
(* A docker command is one step.  It may fail, and a command that timed    *)
(* out may have had its effect.  Removing a container that does not exist  *)
(* is an error or not, as the docker version has it.                       *)
(***************************************************************************)
EXTENDS Integers, Sequences, FiniteSets

CONSTANTS
  Capsule,       \* requests to create a capsule, and the capsules they create
  Slots,         \* max_capsule_concurrency
  MaxFaults,     \* bound: docker commands that fail
  MaxDeletes,    \* bound: DELETE requests of the worker that has the capsule
  MaxStops       \* bound: times the supervisor process ends

ASSUME ConstantsAssumption ==
  /\ Slots \in Nat \ {0}
  /\ MaxFaults \in Nat
  /\ MaxDeletes \in Nat
  /\ MaxStops \in Nat

VARIABLES
  phase,      \* of the supervisor process
  free,       \* value of the semaphore _capacity
  handles,    \* the capsules registered in self.handles
  place,      \* where the create call of a capsule stands
  cleaner,    \* the _cleanup calls in progress for a capsule, by caller
  old,        \* capsules past target_timeout_seconds + 60
  tried,      \* capsules close() has been through
  docker,     \* the resources of a capsule that exist
  answer,     \* what the worker was told of its capsule
  deletes, faults, stops

memory == <<free, handles, place, cleaner, old, tried>>
bounds == <<deletes, faults, stops>>
vars == <<phase, memory, docker, answer, bounds>>

Container == {"blue", "target"}
Resource == Container \cup {"network"}

\* The order of creation, and what create does after the last resource.
Following == [network |-> "blue", blue |-> "target", target |-> "register"]

Caller == {"create", "worker", "reaper", "close"}

Cleaner == [on : BOOLEAN, todo : Seq(Resource), failed : BOOLEAN]
NoCleaner == [on |-> FALSE, todo |-> << >>, failed |-> FALSE]

InProgress == {"network", "blue", "target", "register", "clean"}

TypeOK ==
  /\ phase \in {"starting", "up", "closing"}
  /\ free \in 0..Slots
  /\ handles \subseteq Capsule
  /\ place \in [Capsule -> {"unborn", "waiting", "ended"} \cup InProgress]
  /\ cleaner \in [Capsule -> [Caller -> Cleaner]]
  /\ old \subseteq Capsule
  /\ tried \subseteq Capsule
  /\ docker \in [Capsule -> SUBSET Resource]
  /\ answer \in [Capsule -> {"none", "created", "destroyed"}]
  /\ deletes \in [Capsule -> 0..MaxDeletes]
  /\ faults \in 0..MaxFaults
  /\ stops \in 0..MaxStops

FreshMemory ==
  /\ free' = Slots
  /\ handles' = {}
  /\ place' = [c \in Capsule |-> IF place[c] = "unborn" THEN "unborn" ELSE "ended"]
  /\ cleaner' = [c \in Capsule |-> [k \in Caller |-> NoCleaner]]
  /\ old' = {}
  /\ tried' = {}

Init ==
  /\ phase = "starting"
  /\ free = Slots
  /\ handles = {}
  /\ place = [c \in Capsule |-> "unborn"]
  /\ cleaner = [c \in Capsule |-> [k \in Caller |-> NoCleaner]]
  /\ old = {}
  /\ tried = {}
  /\ docker = [c \in Capsule |-> {}]
  /\ answer = [c \in Capsule |-> "none"]
  /\ deletes = [c \in Capsule |-> 0]
  /\ faults = 0
  /\ stops = 0

Fault == faults < MaxFaults /\ faults' = faults + 1

-----------------------------------------------------------------------------
(* create                                                                  *)

Request(c) ==
  /\ phase = "up"
  /\ place[c] = "unborn"
  /\ place' = [place EXCEPT ![c] = "waiting"]
  /\ UNCHANGED <<phase, free, handles, cleaner, old, tried, docker, answer, bounds>>

Available == free > 0

Acquire(c) ==
  /\ phase = "up"
  /\ place[c] = "waiting"
  /\ Available
  /\ free' = free - 1
  /\ place' = [place EXCEPT ![c] = "network"]
  /\ UNCHANGED <<phase, handles, cleaner, old, tried, docker, answer, bounds>>

Make(c) ==
  /\ phase = "up"
  /\ place[c] \in Resource
  /\ docker' = [docker EXCEPT ![c] = @ \cup {place[c]}]
  /\ place' = [place EXCEPT ![c] = Following[@]]
  /\ UNCHANGED <<phase, free, handles, cleaner, old, tried, answer, bounds>>

\* The resources create knows it has made when it fails at r, containers
\* first.
KnownBy(r, ready) ==
  CASE r = "network" -> << >>
    [] r = "blue" -> IF ready THEN <<"blue", "network">> ELSE <<"network">>
    [] r = "target" -> IF ready THEN <<"blue", "target", "network">> ELSE <<"blue", "network">>

\* Variant: a container is noted only once it is known to work.
KnownReady(r, made) == KnownBy(r, FALSE)

Known(r, made) == KnownBy(r, made)

\* create fails and removes what it knows of, whatever docker says to that.
CreateFails(c, made) ==
  /\ place' = [place EXCEPT ![c] = "clean"]
  /\ cleaner' = [cleaner EXCEPT ![c]["create"] =
                   [on |-> TRUE, todo |-> Known(place[c], made), failed |-> FALSE]]

\* The image is not there, Blue does not get ready, or the check of the
\* network boundary fails.
Refuse(c) ==
  /\ phase = "up"
  /\ \/ place[c] = "network" /\ CreateFails(c, FALSE) /\ UNCHANGED docker
     \/ /\ place[c] \in Container
        /\ CreateFails(c, TRUE)
        /\ docker' = [docker EXCEPT ![c] = @ \cup {place[c]}]
  /\ UNCHANGED <<phase, free, handles, old, tried, answer, bounds>>

\* The docker command fails; what it made nevertheless is not known.
MakeFails(c) ==
  /\ phase = "up"
  /\ place[c] \in Resource
  /\ Fault
  /\ CreateFails(c, FALSE)
  /\ docker' \in {docker, [docker EXCEPT ![c] = @ \cup {place[c]}]}
  /\ UNCHANGED <<phase, free, handles, old, tried, answer, deletes, stops>>

\* Variant: a create that is cancelled keeps its slot.
ReleasedNever == free

Released == free + 1

EndFailedCreate(c) ==
  /\ place[c] = "clean"
  /\ cleaner[c]["create"].todo = << >>
  /\ cleaner' = [cleaner EXCEPT ![c]["create"] = NoCleaner]
  /\ place' = [place EXCEPT ![c] = "ended"]
  /\ free' = Released
  /\ UNCHANGED <<phase, handles, old, tried, docker, answer, bounds>>

\* The worker may have given up waiting for the response.
Register(c) ==
  /\ place[c] = "register"
  /\ handles' = handles \cup {c}
  /\ place' = [place EXCEPT ![c] = "ended"]
  /\ answer' \in {answer, [answer EXCEPT ![c] = "created"]}
  /\ UNCHANGED <<phase, free, cleaner, old, tried, docker, bounds>>

-----------------------------------------------------------------------------
(* destroy                                                                 *)

Idle(k) == \A c \in Capsule : ~ cleaner[c][k].on

DestroyOrder == <<"target", "blue", "network">>

\* get finds the capsule, and the runtime's destroy begins.
Begin(c, k) ==
  /\ c \in handles
  /\ cleaner' = [cleaner EXCEPT ![c][k] =
                   [on |-> TRUE, todo |-> DestroyOrder, failed |-> FALSE]]

\* DELETE of a capsule nobody knows is answered 404, which the client takes
\* for destroyed.
Delete(c) ==
  /\ phase = "up"
  /\ answer[c] = "created"
  /\ ~ cleaner[c]["worker"].on
  /\ deletes[c] < MaxDeletes
  /\ deletes' = [deletes EXCEPT ![c] = @ + 1]
  /\ \/ Begin(c, "worker") /\ UNCHANGED answer
     \/ c \notin handles /\ answer' = [answer EXCEPT ![c] = "destroyed"] /\ UNCHANGED cleaner
  /\ UNCHANGED <<phase, free, handles, place, old, tried, docker, faults, stops>>

Ages(c) ==
  /\ c \in handles \ old
  /\ old' = old \cup {c}
  /\ UNCHANGED <<phase, free, handles, place, cleaner, tried, docker, answer, bounds>>

\* Variant: the reaper looks for capsules whose worker is known to be gone.
ExpiredUnclaimed == {c \in handles \cap old : answer[c] = "none"}

Expired == handles \cap old

\* The reaper destroys one expired capsule after the other.
Reap(c) ==
  /\ phase = "up"
  /\ Idle("reaper")
  /\ c \in Expired
  /\ Begin(c, "reaper")
  /\ UNCHANGED <<phase, free, handles, place, old, tried, docker, answer, bounds>>

\* Docker refuses to remove a network with containers on it.
Removable(c, r) == r \in docker[c] /\ (r = "network" => docker[c] = {"network"})

\* Whether removing r reports a failure, when docker itself works.
Fails(c, r) ==
  IF Removable(c, r) THEN {FALSE}
  ELSE IF r \in Container THEN BOOLEAN
  ELSE {TRUE}

Noted(failures, failed) == failures \/ failed

\* One docker command of _cleanup.
Remove(c, k) ==
  LET r == Head(cleaner[c][k].todo)
      gone == [docker EXCEPT ![c] = IF Removable(c, r) THEN @ \ {r} ELSE @]
  IN /\ cleaner[c][k].todo # << >>
     /\ \E failed \in BOOLEAN :
          /\ \/ failed \in Fails(c, r) /\ docker' = gone /\ UNCHANGED faults
             \/ failed /\ Fault /\ docker' \in {docker, gone}
          /\ cleaner' = [cleaner EXCEPT ![c][k].todo = Tail(@),
                                        ![c][k].failed = Noted(@, failed)]
     /\ UNCHANGED <<phase, free, handles, place, old, tried, answer, deletes, stops>>

\* With any failure destroy raises and the capsule stays registered.  Only
\* the call that removes the handle gives the slot back.
EndDestroy(c, k) ==
  /\ k # "create"
  /\ cleaner[c][k].on
  /\ cleaner[c][k].todo = << >>
  /\ cleaner' = [cleaner EXCEPT ![c][k] = NoCleaner]
  /\ IF cleaner[c][k].failed
     THEN UNCHANGED <<free, handles, answer>>
     ELSE /\ free' = IF c \in handles THEN free + 1 ELSE free
          /\ handles' = handles \ {c}
          /\ IF k = "worker"
             THEN answer' \in {answer, [answer EXCEPT ![c] = "destroyed"]}
             ELSE UNCHANGED answer
  /\ UNCHANGED <<phase, place, old, tried, docker, bounds>>

-----------------------------------------------------------------------------
(* The process ends and starts again.                                      *)

Crash ==
  /\ stops < MaxStops
  /\ stops' = stops + 1
  /\ phase' = "starting"
  /\ FreshMemory
  /\ UNCHANGED <<docker, answer, deletes, faults>>

\* An orderly end, with no request in progress.  The reaper is cancelled: a
\* cleanup it has begun runs to its end, but the handle stays.
Shutdown ==
  /\ phase = "up"
  /\ stops < MaxStops
  /\ \A c \in Capsule : place[c] \in {"unborn", "ended"}
  /\ Idle("worker")
  /\ phase' = "closing"
  /\ cleaner' = [c \in Capsule |->
                   [cleaner[c] EXCEPT !["reaper"].failed = cleaner[c]["reaper"].on]]
  /\ stops' = stops + 1
  /\ UNCHANGED <<free, handles, place, old, tried, docker, answer, deletes, faults>>

Close(c) ==
  /\ phase = "closing"
  /\ Idle("reaper") /\ Idle("close")
  /\ c \notin tried
  /\ tried' = tried \cup {c}
  /\ Begin(c, "close")
  /\ UNCHANGED <<phase, free, handles, place, old, docker, answer, bounds>>

Exit ==
  /\ phase = "closing"
  /\ Idle("reaper") /\ Idle("close")
  /\ handles \subseteq tried
  /\ phase' = "starting"
  /\ FreshMemory
  /\ UNCHANGED <<docker, answer, bounds>>

\* reconcile_orphans at startup, one resource after the other; a failure
\* ends the process, which is then started again.
RemoveOrphan(c) ==
  /\ phase = "starting"
  /\ \E r \in Resource :
       LET gone == [docker EXCEPT ![c] = @ \ {r}] IN
       /\ Removable(c, r)
       /\ \/ docker' = gone /\ UNCHANGED faults
          \/ Fault /\ docker' \in {docker, gone}
  /\ UNCHANGED <<phase, memory, answer, deletes, stops>>

\* Variant: networks are not in the inventory.
OrphansContainers == {c \in Capsule : docker[c] \cap Container # {}}

Orphans == {c \in Capsule : docker[c] # {}}

Serve ==
  /\ phase = "starting"
  /\ Orphans = {}
  /\ phase' = "up"
  /\ UNCHANGED <<memory, docker, answer, bounds>>

-----------------------------------------------------------------------------
Creates(c) == Acquire(c) \/ Make(c) \/ EndFailedCreate(c) \/ Register(c)

Cleans(c) == \E k \in Caller : Remove(c, k) \/ EndDestroy(c, k)

Next ==
  \/ \E c \in Capsule : \/ Request(c) \/ Creates(c) \/ Refuse(c) \/ MakeFails(c)
                        \/ Delete(c) \/ Ages(c) \/ Reap(c) \/ Cleans(c)
                        \/ Close(c) \/ RemoveOrphan(c)
  \/ Crash \/ Shutdown \/ Exit \/ Serve

Spec == Init /\ [][Next]_vars

\* Calls in progress go on, docker answers, and the event loop gives every
\* one of them its turn; time passes.  No worker has to call.
Fairness ==
  /\ \A c \in Capsule : /\ WF_vars(Creates(c)) /\ WF_vars(Cleans(c))
                        /\ WF_vars(Ages(c)) /\ SF_vars(Reap(c))
                        /\ WF_vars(Close(c)) /\ WF_vars(RemoveOrphan(c))
  /\ WF_vars(Exit) /\ WF_vars(Serve)

FairSpec == Spec /\ Fairness
-----------------------------------------------------------------------------
Holding == {c \in Capsule : c \in handles \/ place[c] \in InProgress}

\* The slots that are not free are held by calls of create in progress and
\* by registered capsules, one each: no path gives a slot back twice or
\* forgets it (create, destroy by several callers at once).
SlotsAddUp == free = Slots - Cardinality(Holding)

\* A capsule whose worker was told it is destroyed has nothing left in
\* docker, whoever destroyed it and even if the supervisor restarted in
\* between (destroy_capsule, and the client that takes 404 for success).
DestroyedIsGone == \A c \in Capsule : answer[c] = "destroyed" => docker[c] = {}

\* As long as docker works, whatever exists while the supervisor serves
\* belongs to a capsule it knows: nothing is left behind by a create that
\* failed, by racing destroys or by an earlier process.
NothingLeftBehind ==
  phase = "up" /\ faults = 0 => \A c \in Capsule : docker[c] # {} => c \in Holding

\* Abandoned capsules have a bounded lifetime: whatever becomes of their
\* worker, their containers and network are removed (reap_expired).
OldCapsulesGo == \A c \in Capsule : c \in handles \cap old ~> docker[c] = {}

\* The same of the capsule as the supervisor sees it: it does not hold its
\* slot for ever.
OldCapsulesFreeTheirSlot == \A c \in Capsule : c \in handles \cap old ~> c \notin handles
=============================================================================
