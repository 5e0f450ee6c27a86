-------------------------- MODULE SupervisorProofs --------------------------
(* Theorems about CapsuleSupervisor, for any number of capsules and slots. *)
EXTENDS CapsuleSupervisor, FiniteSetTheorems, SequenceTheorems, TLAPS

(***************************************************************************)
(* What a capsule has in docker.  A cleanup that has not failed leaves     *)
(* nothing but what it still has to do; the invariant says so of every     *)
(* call of _cleanup in progress, and while a capsule is being created, how *)
(* much of it can exist.                                                   *)
(***************************************************************************)
TypesOK ==
  /\ phase \in {"starting", "up", "closing"}
  /\ free \in Int
  /\ handles \subseteq Capsule
  /\ place \in [Capsule -> {"unborn", "waiting", "ended"} \cup InProgress]
  /\ cleaner \in [Capsule -> [Caller -> Cleaner]]
  /\ old \subseteq Capsule
  /\ tried \subseteq Capsule
  /\ docker \in [Capsule -> SUBSET Resource]
  /\ answer \in [Capsule -> {"none", "created", "destroyed"}]
  /\ deletes \in [Capsule -> 0..MaxDeletes]
  /\ faults \in 0..MaxFaults
  /\ stops \in 0..MaxStops

Elements(todo) == {todo[i] : i \in DOMAIN todo}
Todo(c, k) == Elements(cleaner[c][k].todo)

\* A call that began when the capsule was registered, and has not failed.
CleanersClean(c) ==
  \A k \in Caller \ {"create"} : cleaner[c][k].on =>
    /\ place[c] = "ended"
    /\ cleaner[c][k].failed \/ docker[c] \subseteq Todo(c, k)

\* The network is removed last, when nothing is on it.
NetworkLast(todo) == \A i \in DOMAIN todo : todo[i] = "network" => i = Len(todo)

CreateClean(c) ==
  /\ place[c] \in {"unborn", "waiting", "network"} => docker[c] = {}
  /\ place[c] = "blue" => docker[c] \subseteq {"network"}
  /\ place[c] = "target" => docker[c] \subseteq {"network", "blue"}
  /\ place[c] = "clean" =>
       /\ NetworkLast(cleaner[c]["create"].todo)
       /\ faults = 0 => docker[c] \subseteq Todo(c, "create")

\* A worker's answer was given when the call of create was over; what it was
\* told is destroyed, or is not registered any more, does not exist.
AnswerTrue(c) ==
  /\ answer[c] # "none" => place[c] = "ended"
  /\ answer[c] = "destroyed" => docker[c] = {}
  /\ phase # "starting" /\ answer[c] = "created" /\ c \notin handles => docker[c] = {}

Kept(c) == phase = "up" /\ faults = 0 /\ docker[c] # {} => c \in handles \/ place[c] \in InProgress

Sound(c) ==
  /\ c \in handles => place[c] = "ended"
  /\ CleanersClean(c)
  /\ CreateClean(c)
  /\ AnswerTrue(c)
  /\ Kept(c)

SupInv == TypesOK /\ \A c \in Capsule : Sound(c)

-----------------------------------------------------------------------------
LEMMA Tails ==
  ASSUME NEW s \in Seq(Resource), s # << >>
  PROVE  /\ Head(s) \in Resource /\ Tail(s) \in Seq(Resource)
         /\ Elements(s) = {Head(s)} \cup Elements(Tail(s))
         /\ NetworkLast(s) => NetworkLast(Tail(s)) /\ (Head(s) = "network" => Elements(s) = {"network"})
<1>1. Len(s) \in Nat \ {0} /\ Len(Tail(s)) = Len(s) - 1 /\ DOMAIN s = 1..Len(s)
  BY EmptySeq, HeadTailProperties
<1>2. /\ Head(s) = s[1] /\ Head(s) \in Resource /\ Tail(s) \in Seq(Resource)
      /\ \A i \in 1..(Len(s) - 1) : Tail(s)[i] = s[i + 1]
      /\ DOMAIN Tail(s) = 1..(Len(s) - 1)
  BY <1>1, HeadTailProperties
<1>3. Elements(s) = {Head(s)} \cup Elements(Tail(s))
  <2>1. \A i \in DOMAIN s : i = 1 \/ (i - 1 \in DOMAIN Tail(s) /\ Tail(s)[i - 1] = s[i])
    BY <1>1, <1>2
  <2>2. \A i \in DOMAIN Tail(s) : i + 1 \in DOMAIN s /\ Tail(s)[i] = s[i + 1]
    BY <1>1, <1>2
  <2>3. 1 \in DOMAIN s
    BY <1>1
  <2>4. ASSUME NEW x \in Elements(s) PROVE x \in {Head(s)} \cup Elements(Tail(s))
    <3>1. PICK i \in DOMAIN s : x = s[i]
      BY <2>4 DEF Elements
    <3>2. CASE i = 1
      BY <1>2, <3>1, <3>2
    <3>3. CASE i - 1 \in DOMAIN Tail(s) /\ Tail(s)[i - 1] = s[i]
      BY <3>1, <3>3 DEF Elements
    <3> QED
      BY <2>1, <3>2, <3>3
  <2>5. Elements(Tail(s)) \subseteq Elements(s)
    BY <2>2 DEF Elements
  <2>6. Head(s) \in Elements(s)
    BY <1>2, <2>3 DEF Elements
  <2> QED
    BY <2>4, <2>5, <2>6
<1>4. ASSUME NetworkLast(s)
      PROVE  NetworkLast(Tail(s)) /\ (Head(s) = "network" => Elements(s) = {"network"})
  <2>1. NetworkLast(Tail(s))
    BY <1>1, <1>2, <1>4 DEF NetworkLast
  <2>2. Head(s) = "network" => DOMAIN s = {1}
    BY <1>1, <1>2, <1>4 DEF NetworkLast
  <2> QED
    BY <1>2, <2>1, <2>2 DEF Elements
<1> QED
  BY <1>2, <1>3, <1>4

\* What create knows of covers what it can have made, if docker told it.
LEMMA KnownCovers ==
  ASSUME NEW r \in Resource, NEW made \in BOOLEAN
  PROVE  /\ Known(r, made) \in Seq(Resource)
         /\ NetworkLast(Known(r, made))
         /\ r = "blue" => "network" \in Elements(Known(r, made))
         /\ r = "target" => {"network", "blue"} \subseteq Elements(Known(r, made))
         /\ made /\ r # "network" => r \in Elements(Known(r, made))
<1>1. CASE r = "network"
  BY <1>1 DEF Known, KnownBy, NetworkLast, Elements
<1>2. CASE r = "blue" /\ made
  <2> DEFINE s == <<"blue", "network">>
  <2>1. Known(r, made) = s /\ s \in Seq(Resource) /\ DOMAIN s = 1..2 /\ Len(s) = 2
    BY <1>2 DEF Known, KnownBy, Resource, Container
  <2>2. s[1] = "blue" /\ s[2] = "network"
    OBVIOUS
  <2> HIDE DEF s
  <2>3. NetworkLast(s) /\ {"blue", "network"} \subseteq Elements(s)
    BY <2>1, <2>2 DEF NetworkLast, Elements
  <2> QED
    BY <1>2, <2>1, <2>3
<1>3. CASE r = "blue" /\ ~ made
  <2> DEFINE s == <<"network">>
  <2>1. Known(r, made) = s /\ s \in Seq(Resource) /\ DOMAIN s = 1..1 /\ Len(s) = 1
    BY <1>3 DEF Known, KnownBy, Resource, Container
  <2>2. s[1] = "network"
    OBVIOUS
  <2> HIDE DEF s
  <2>3. NetworkLast(s) /\ {"network"} \subseteq Elements(s)
    BY <2>1, <2>2 DEF NetworkLast, Elements
  <2> QED
    BY <1>3, <2>1, <2>3
<1>4. CASE r = "target" /\ made
  <2> DEFINE s == <<"blue", "target", "network">>
  <2>1. Known(r, made) = s /\ s \in Seq(Resource) /\ DOMAIN s = 1..3 /\ Len(s) = 3
    BY <1>4 DEF Known, KnownBy, Resource, Container
  <2>2. s[1] = "blue" /\ s[2] = "target" /\ s[3] = "network"
    OBVIOUS
  <2> HIDE DEF s
  <2>3. NetworkLast(s) /\ {"blue", "target", "network"} \subseteq Elements(s)
    BY <2>1, <2>2 DEF NetworkLast, Elements
  <2> QED
    BY <1>4, <2>1, <2>3
<1>5. CASE r = "target" /\ ~ made
  <2> DEFINE s == <<"blue", "network">>
  <2>1. Known(r, made) = s /\ s \in Seq(Resource) /\ DOMAIN s = 1..2 /\ Len(s) = 2
    BY <1>5 DEF Known, KnownBy, Resource, Container
  <2>2. s[1] = "blue" /\ s[2] = "network"
    OBVIOUS
  <2> HIDE DEF s
  <2>3. NetworkLast(s) /\ {"blue", "network"} \subseteq Elements(s)
    BY <2>1, <2>2 DEF NetworkLast, Elements
  <2> QED
    BY <1>5, <2>1, <2>3
<1> QED
  BY <1>1, <1>2, <1>3, <1>4, <1>5 DEF Resource, Container

LEMMA DestroysAll ==
  DestroyOrder \in Seq(Resource) /\ Elements(DestroyOrder) = Resource
<1> DEFINE s == <<"target", "blue", "network">>
<1>1. DestroyOrder = s /\ s \in Seq(Resource) /\ DOMAIN s = 1..3
  BY DEF DestroyOrder, Resource, Container
<1>2. s[1] = "target" /\ s[2] = "blue" /\ s[3] = "network"
  OBVIOUS
<1> HIDE DEF s
<1> QED
  BY <1>1, <1>2 DEF Elements, Resource, Container

LEMMA CleanerTypes ==
  /\ NoCleaner \in Cleaner /\ ~ NoCleaner.on /\ NoCleaner.todo = << >>
  /\ \A todo \in Seq(Resource), failed \in BOOLEAN :
       [on |-> TRUE, todo |-> todo, failed |-> failed] \in Cleaner
BY DEF NoCleaner, Cleaner

\* A step about one capsule leaves the others as they are.
LEMMA Elsewhere ==
  ASSUME SupInv, NEW c \in Capsule,
         place' = place \/ \E v : place' = [place EXCEPT ![c] = v],
         cleaner' = cleaner \/ \E v : cleaner' = [cleaner EXCEPT ![c] = v],
         docker' = docker \/ \E v : docker' = [docker EXCEPT ![c] = v],
         answer' = answer \/ \E v : answer' = [answer EXCEPT ![c] = v],
         handles' \ {c} = handles \ {c}, phase' = phase, faults' = faults \/ faults' = faults + 1,
         TypesOK', Sound(c)'
  PROVE  SupInv'
<1>1. ASSUME NEW d \in Capsule, d # c PROVE Sound(d)'
  <2>1. /\ place'[d] = place[d] /\ cleaner'[d] = cleaner[d] /\ docker'[d] = docker[d]
        /\ answer'[d] = answer[d] /\ (d \in handles' <=> d \in handles)
    BY <1>1 DEF SupInv, TypesOK
  <2>2. faults' = 0 => faults = 0
    BY DEF SupInv, TypesOK
  <2>3. CleanersClean(d)' /\ CreateClean(d)'
    BY <2>1, <2>2 DEF SupInv, Sound, CleanersClean, CreateClean, Todo
  <2>4. AnswerTrue(d)' /\ Kept(d)'
    BY <2>1, <2>2 DEF SupInv, Sound, AnswerTrue, Kept
  <2> QED
    BY <2>1, <2>3, <2>4 DEF SupInv, Sound
<1> QED
  BY <1>1 DEF SupInv

-----------------------------------------------------------------------------
(* create.                                                                 *)

LEMMA Created ==
  ASSUME SupInv, NEW c \in Capsule, Request(c) \/ Acquire(c) \/ Make(c) \/ EndFailedCreate(c) \/ Register(c)
  PROVE  SupInv'
<1> USE DEF memory, bounds, SupInv
<1>1. \A k \in Caller \ {"create"} : place[c] # "ended" => ~ cleaner[c][k].on
  BY DEF Sound, CleanersClean
<1>2. place[c] # "ended" => c \notin handles /\ answer[c] = "none"
  BY DEF Sound, AnswerTrue, TypesOK
<1>3. ASSUME Request(c) \/ Acquire(c) PROVE SupInv'
  <2>1. /\ place[c] \in {"unborn", "waiting"}
        /\ place' = [place EXCEPT ![c] = IF place[c] = "unborn" THEN "waiting" ELSE "network"]
        /\ free' \in Int
        /\ UNCHANGED <<phase, handles, cleaner, old, tried, docker, answer, bounds>>
    BY <1>3 DEF Request, Acquire, TypesOK
  <2>2. TypesOK'
    BY <2>1 DEF TypesOK, InProgress
  <2>3. place'[c] \in {"waiting", "network"} /\ docker[c] = {}
    BY <2>1 DEF TypesOK, Sound, CreateClean
  <2>4. Sound(c)'
    BY <1>1, <1>2, <2>1, <2>3 DEF Sound, CleanersClean, CreateClean, AnswerTrue, Kept
  <2> QED
    BY <2>1, <2>2, <2>4, Elsewhere
<1>4. ASSUME Make(c) PROVE SupInv'
  <2>1. /\ place[c] \in Resource
        /\ docker' = [docker EXCEPT ![c] = docker[c] \cup {place[c]}]
        /\ place' = [place EXCEPT ![c] = Following[place[c]]]
        /\ UNCHANGED <<phase, free, handles, cleaner, old, tried, answer, bounds>>
    BY <1>4 DEF Make
  <2>2. /\ docker'[c] = docker[c] \cup {place[c]} /\ place'[c] = Following[place[c]]
        /\ place'[c] \in {"blue", "target", "register"}
        /\ place[c] = "network" => place'[c] = "blue"
        /\ place[c] = "blue" => place'[c] = "target"
        /\ place[c] = "target" => place'[c] = "register"
    BY <2>1 DEF TypesOK, Following, Resource, Container
  <2>3. TypesOK'
    BY <2>1, <2>2 DEF TypesOK, InProgress
  <2>4. CreateClean(c)'
    BY <2>1, <2>2 DEF Sound, CreateClean, Resource, Container
  <2>5. Sound(c)'
    BY <1>1, <1>2, <2>1, <2>2, <2>4 DEF Sound, CleanersClean, AnswerTrue, Kept, InProgress, Resource, Container
  <2> QED
    BY <2>1, <2>3, <2>5, Elsewhere
<1>5. ASSUME EndFailedCreate(c) PROVE SupInv'
  <2>1. /\ place[c] = "clean" /\ cleaner[c]["create"].todo = << >>
        /\ cleaner' = [cleaner EXCEPT ![c] = [cleaner[c] EXCEPT !["create"] = NoCleaner]]
        /\ place' = [place EXCEPT ![c] = "ended"]
        /\ free' \in Int
        /\ UNCHANGED <<phase, handles, old, tried, docker, answer, bounds>>
    BY <1>5 DEF EndFailedCreate, Released, TypesOK
  <2>2. \A k \in Caller \ {"create"} : cleaner'[c][k] = cleaner[c][k]
    BY <2>1 DEF TypesOK
  <2>3. TypesOK'
    BY <2>1, CleanerTypes DEF TypesOK
  <2>4. faults = 0 => docker[c] = {}
    BY <2>1 DEF Sound, CreateClean, Todo, Elements
  <2>5. place'[c] = "ended"
    BY <2>1 DEF TypesOK
  <2>6. Sound(c)'
    BY <1>1, <1>2, <2>1, <2>2, <2>4, <2>5 DEF Sound, CleanersClean, CreateClean, AnswerTrue, Kept
  <2> QED
    BY <2>1, <2>3, <2>6, Elsewhere
<1>6. ASSUME Register(c) PROVE SupInv'
  <2>1. /\ place[c] = "register"
        /\ handles' = handles \cup {c}
        /\ place' = [place EXCEPT ![c] = "ended"]
        /\ answer' \in {answer, [answer EXCEPT ![c] = "created"]}
        /\ UNCHANGED <<phase, free, cleaner, old, tried, docker, bounds>>
    BY <1>6 DEF Register
  <2>2. place'[c] = "ended" /\ answer'[c] \in {"none", "created"}
    BY <1>2, <2>1 DEF TypesOK
  <2>3. TypesOK'
    BY <2>1 DEF TypesOK
  <2>4. Sound(c)'
    BY <1>1, <1>2, <2>1, <2>2 DEF Sound, CleanersClean, CreateClean, AnswerTrue, Kept
  <2> QED
    BY <2>1, <2>3, <2>4, Elsewhere
<1> QED
  BY <1>3, <1>4, <1>5, <1>6

LEMMA CreateFailed ==
  ASSUME SupInv, NEW c \in Capsule, Refuse(c) \/ MakeFails(c)
  PROVE  SupInv'
<1> USE DEF SupInv, memory, bounds
<1> DEFINE r == place[c]
<1>1. PICK made \in BOOLEAN :
        /\ r \in Resource /\ CreateFails(c, made)
        /\ docker' = docker \/ docker' = [docker EXCEPT ![c] = docker[c] \cup {r}]
        /\ faults' = 0 => faults = 0 /\ (docker' = docker \/ (made /\ r # "network"))
        /\ faults' \in 0..MaxFaults /\ (faults' = faults \/ faults' = faults + 1)
        /\ UNCHANGED <<phase, free, handles, old, tried, answer, deletes, stops>>
  <2>1. CASE Refuse(c)
    BY <2>1 DEF Refuse, TypesOK, Resource, Container
  <2>2. CASE MakeFails(c)
    <3>1. faults \in Nat /\ faults' = faults + 1 /\ faults' \in 0..MaxFaults
      BY <2>2, ConstantsAssumption DEF MakeFails, Fault, TypesOK
    <3>2. r \in Resource /\ CreateFails(c, FALSE)
          /\ (docker' = docker \/ docker' = [docker EXCEPT ![c] = docker[c] \cup {r}])
          /\ UNCHANGED <<phase, free, handles, old, tried, answer, deletes, stops>>
      BY <2>2 DEF MakeFails
    <3>3. faults' # 0 /\ FALSE \in BOOLEAN
      BY <3>1
    <3> QED
      BY <3>1, <3>2, <3>3
  <2> QED
    BY <2>1, <2>2
<1> DEFINE todo == Known(r, made)
<1>2. /\ place' = [place EXCEPT ![c] = "clean"]
      /\ cleaner' = [cleaner EXCEPT ![c] = [cleaner[c] EXCEPT !["create"] =
                       [on |-> TRUE, todo |-> todo, failed |-> FALSE]]]
  BY <1>1 DEF CreateFails
<1>3. todo \in Seq(Resource)
  BY <1>1, KnownCovers
<1>4. TypesOK'
  BY <1>1, <1>2, <1>3, CleanerTypes DEF TypesOK, InProgress
<1>5. /\ place'[c] = "clean" /\ cleaner'[c]["create"].todo = todo
      /\ docker'[c] = docker[c] \/ docker'[c] = docker[c] \cup {r}
      /\ faults' = 0 => docker'[c] = docker[c] \/ (made /\ r # "network")
      /\ \A k \in Caller \ {"create"} : cleaner'[c][k] = cleaner[c][k]
  BY <1>1, <1>2 DEF TypesOK, Caller
<1>6. place[c] # "ended" /\ c \notin handles /\ answer[c] = "none"
  BY <1>1 DEF Sound, AnswerTrue, TypesOK, Resource, Container
<1>7. CreateClean(c)'
  <2>1. docker[c] \subseteq Elements(todo)
    BY <1>1, KnownCovers DEF Sound, CreateClean, Resource, Container
  <2>2. faults' = 0 => docker'[c] \subseteq Elements(todo)
    BY <1>1, <1>5, <2>1, KnownCovers
  <2> QED
    BY <1>1, <1>5, <2>2, KnownCovers DEF CreateClean, Todo
<1>8. Sound(c)'
  BY <1>1, <1>5, <1>6, <1>7 DEF Sound, CleanersClean, AnswerTrue, Kept, InProgress
<1> QED
  BY <1>1, <1>2, <1>4, <1>8, Elsewhere

-----------------------------------------------------------------------------
(* destroy, by any of its callers.                                         *)

LEMMA Begun ==
  ASSUME SupInv, NEW c \in Capsule, NEW k \in Caller \ {"create"}, Begin(c, k),
         UNCHANGED <<phase, free, handles, place, docker, answer, faults, stops>>,
         old' \subseteq Capsule, tried' \subseteq Capsule, deletes' \in [Capsule -> 0..MaxDeletes]
  PROVE  SupInv'
<1> USE DEF SupInv
<1>1. /\ c \in handles
      /\ cleaner' = [cleaner EXCEPT ![c] = [cleaner[c] EXCEPT ![k] =
                       [on |-> TRUE, todo |-> DestroyOrder, failed |-> FALSE]]]
  BY DEF Begin
<1>2. TypesOK'
  BY <1>1, DestroysAll, CleanerTypes DEF TypesOK
<1>3. /\ cleaner'[c][k].todo = DestroyOrder
      /\ \A j \in Caller \ {k} : cleaner'[c][j] = cleaner[c][j]
      /\ place[c] = "ended"
  BY <1>1 DEF TypesOK, Sound
<1>4. CleanersClean(c)'
  <2> SUFFICES ASSUME NEW j \in Caller \ {"create"}, cleaner'[c][j].on
               PROVE  place'[c] = "ended" /\ (cleaner'[c][j].failed \/ docker'[c] \subseteq Todo(c, j)')
    BY DEF CleanersClean
  <2>1. CASE j = k
    BY <1>3, <2>1, DestroysAll DEF Todo, TypesOK
  <2>2. CASE j # k
    BY <1>3, <2>2 DEF Sound, CleanersClean, Todo
  <2> QED
    BY <2>1, <2>2
<1>5. Sound(c)'
  BY <1>3, <1>4 DEF Sound, CreateClean, AnswerTrue, Kept
<1> QED
  BY <1>1, <1>2, <1>5, Elsewhere

LEMMA Deleted ==
  ASSUME SupInv, NEW c \in Capsule, Delete(c)
  PROVE  SupInv'
<1> USE DEF SupInv
<1>1. /\ phase = "up" /\ answer[c] = "created"
      /\ deletes' \in [Capsule -> 0..MaxDeletes]
      /\ UNCHANGED <<phase, free, handles, place, old, tried, docker, faults, stops>>
  <2>1. deletes' = [deletes EXCEPT ![c] = deletes[c] + 1] /\ deletes[c] + 1 \in 0..MaxDeletes
    BY ConstantsAssumption DEF Delete, TypesOK
  <2> QED
    BY <2>1 DEF Delete, TypesOK
<1>2. CASE Begin(c, "worker") /\ UNCHANGED answer
  <2>1. "worker" \in Caller \ {"create"} /\ old' \subseteq Capsule /\ tried' \subseteq Capsule
    BY <1>1 DEF Caller, TypesOK
  <2> QED
    BY <1>1, <1>2, <2>1, Begun
<1>3. CASE c \notin handles /\ answer' = [answer EXCEPT ![c] = "destroyed"] /\ UNCHANGED cleaner
  <2>1. TypesOK'
    BY <1>1, <1>3 DEF TypesOK
  <2>2. answer'[c] = "destroyed" /\ docker[c] = {} /\ place[c] = "ended"
    BY <1>1, <1>3 DEF TypesOK, Sound, AnswerTrue
  <2>3. Sound(c)'
    BY <1>1, <1>3, <2>2 DEF Sound, CleanersClean, CreateClean, AnswerTrue, Kept, Todo
  <2> QED
    BY <1>1, <1>3, <2>1, <2>3, Elsewhere
<1> QED
  BY <1>2, <1>3 DEF Delete

\* What a removal does that reports no failure.
LEMMA RemovedClean ==
  ASSUME TypesOK, NEW c \in Capsule, NEW r \in Resource, NEW failed \in Fails(c, r)
  PROVE  /\ failed \in BOOLEAN
         /\ failed = FALSE => r \notin (IF Removable(c, r) THEN docker[c] \ {r} ELSE docker[c])
         /\ docker[c] = {r} \/ (r # "network") => r \notin (IF Removable(c, r) THEN docker[c] \ {r} ELSE docker[c])
<1>1. docker[c] \subseteq Resource
  BY DEF TypesOK
<1>2. CASE Removable(c, r)
  BY <1>2 DEF Fails
<1>3. CASE ~ Removable(c, r) /\ r \in Container
  BY <1>3 DEF Fails, Removable, Container
<1>4. CASE ~ Removable(c, r) /\ r = "network"
  BY <1>4 DEF Fails, Removable, Container
<1> QED
  BY <1>2, <1>3, <1>4 DEF Resource

LEMMA RemoveStep ==
  ASSUME SupInv, NEW c \in Capsule, NEW k \in Caller, Remove(c, k)
  PROVE  SupInv'
<1> USE DEF SupInv
<1> DEFINE todo == cleaner[c][k].todo
           r == Head(todo)
           left == IF Removable(c, r) THEN docker[c] \ {r} ELSE docker[c]
<1>1. PICK failed \in BOOLEAN :
        /\ \/ failed \in Fails(c, r) /\ docker' = [docker EXCEPT ![c] = left] /\ UNCHANGED faults
           \/ failed /\ Fault /\ docker' \in {docker, [docker EXCEPT ![c] = left]}
        /\ cleaner' = [cleaner EXCEPT ![c][k].todo = Tail(@),
                                      ![c][k].failed = Noted(@, failed)]
  BY DEF Remove
<1>2. todo # << >> /\ UNCHANGED <<phase, free, handles, place, old, tried, answer, deletes, stops>>
  BY DEF Remove
<1>3. todo \in Seq(Resource) /\ cleaner[c][k] \in Cleaner /\ cleaner[c] \in [Caller -> Cleaner]
  BY DEF TypesOK, Cleaner
<1>4. /\ r \in Resource /\ Tail(todo) \in Seq(Resource)
      /\ Elements(todo) = {r} \cup Elements(Tail(todo))
      /\ NetworkLast(todo) => NetworkLast(Tail(todo)) /\ (r = "network" => Elements(todo) = {"network"})
  BY <1>2, <1>3, Tails
<1> DEFINE after == [cleaner[c][k] EXCEPT !.todo = Tail(todo), !.failed = Noted(@, failed)]
<1>5. cleaner' = [cleaner EXCEPT ![c] = [cleaner[c] EXCEPT ![k] = after]]
  BY <1>1, <1>3 DEF TypesOK
<1>6. /\ after \in Cleaner /\ after.todo = Tail(todo) /\ after.on = cleaner[c][k].on
      /\ ~ after.failed => ~ cleaner[c][k].failed /\ ~ failed
  BY <1>1, <1>3, <1>4 DEF Cleaner, Noted
<1> HIDE DEF after, r, todo
<1>7. /\ cleaner'[c][k] = after
      /\ \A j \in Caller \ {k} : cleaner'[c][j] = cleaner[c][j]
  BY <1>5 DEF TypesOK
<1>8. /\ docker' = docker \/ docker' = [docker EXCEPT ![c] = left]
      /\ docker'[c] \in {docker[c], left}
      /\ ~ failed => docker'[c] = left /\ failed \in Fails(c, r)
      /\ faults' = 0 => docker'[c] = left /\ faults = 0 /\ failed \in Fails(c, r)
      /\ faults' \in 0..MaxFaults /\ (faults' = faults \/ faults' = faults + 1)
  <2>1. CASE failed \in Fails(c, r) /\ docker' = [docker EXCEPT ![c] = left] /\ UNCHANGED faults
    BY <2>1 DEF TypesOK
  <2>2. CASE failed /\ Fault /\ docker' \in {docker, [docker EXCEPT ![c] = left]}
    <3>1. faults' = faults + 1 /\ faults' # 0 /\ faults' \in 0..MaxFaults
      BY <2>2, ConstantsAssumption DEF TypesOK, Fault
    <3>2. docker'[c] \in {docker[c], left} /\ (docker' = docker \/ docker' = [docker EXCEPT ![c] = left])
      BY <2>2 DEF TypesOK
    <3> QED
      BY <2>2, <3>1, <3>2
  <2> QED
    BY <1>1, <2>1, <2>2
<1>9. left \subseteq docker[c] /\ docker[c] \subseteq Resource
  BY DEF TypesOK
<1>10. TypesOK'
  BY <1>2, <1>5, <1>6, <1>8, <1>9 DEF TypesOK
<1>11. CleanersClean(c)'
  <2> SUFFICES ASSUME NEW j \in Caller \ {"create"}, cleaner'[c][j].on, ~ cleaner'[c][j].failed
               PROVE  place'[c] = "ended" /\ docker'[c] \subseteq Todo(c, j)'
    <3>1. \A j \in Caller \ {"create"} : cleaner'[c][j].on => place'[c] = "ended"
      BY <1>2, <1>6, <1>7 DEF Sound, CleanersClean
    <3> QED
      BY <3>1 DEF CleanersClean
  <2>1. CASE j = k
    <3>1. docker[c] \subseteq Elements(todo) /\ place[c] = "ended" /\ failed = FALSE
      BY <1>6, <1>7, <2>1 DEF Sound, CleanersClean, Todo, todo
    <3>2. r \notin left
      BY <1>4, <1>8, <3>1, RemovedClean
    <3>3. docker'[c] \subseteq Elements(Tail(todo))
      BY <1>4, <1>8, <1>9, <3>1, <3>2
    <3> QED
      BY <1>2, <1>6, <1>7, <2>1, <3>1, <3>3 DEF Todo
  <2>2. CASE j # k
    BY <1>2, <1>7, <1>8, <1>9, <2>2 DEF Sound, CleanersClean, Todo
  <2> QED
    BY <2>1, <2>2
<1>12. CreateClean(c)'
  <2>1. CASE k # "create"
    BY <1>2, <1>7, <1>8, <1>9, <2>1 DEF Sound, CreateClean, Todo, Caller
  <2>2. CASE k = "create" /\ place[c] = "clean"
    <3>1. NetworkLast(todo) /\ NetworkLast(Tail(todo))
      BY <1>4, <2>2 DEF Sound, CreateClean, todo
    <3>2. ASSUME faults' = 0 PROVE docker'[c] \subseteq Elements(Tail(todo))
      <4>1. docker[c] \subseteq Elements(todo)
        BY <1>8, <2>2, <3>2 DEF Sound, CreateClean, Todo, todo
      <4>2. r # "network" \/ docker[c] = {r} \/ docker[c] = {}
        BY <1>4, <3>1, <4>1
      <4>3. r \notin left
        BY <1>4, <1>8, <1>9, <3>2, <4>2, RemovedClean
      <4> QED
        BY <1>4, <1>8, <1>9, <3>2, <4>1, <4>3
    <3> QED
      BY <1>2, <1>6, <1>7, <2>2, <3>1, <3>2 DEF CreateClean, Todo
  <2>3. CASE k = "create" /\ place[c] # "clean"
    BY <1>2, <1>8, <1>9, <2>3 DEF Sound, CreateClean
  <2> QED
    BY <2>1, <2>2, <2>3
<1>13. AnswerTrue(c)' /\ Kept(c)'
  BY <1>2, <1>8, <1>9 DEF Sound, AnswerTrue, Kept
<1> QED
  BY <1>2, <1>5, <1>8, <1>10, <1>11, <1>12, <1>13, Elsewhere DEF Sound

LEMMA DestroyEnds ==
  ASSUME SupInv, NEW c \in Capsule, NEW k \in Caller, EndDestroy(c, k)
  PROVE  SupInv'
<1> USE DEF SupInv, bounds
<1>1. /\ k # "create" /\ cleaner[c][k].on /\ cleaner[c][k].todo = << >>
      /\ cleaner' = [cleaner EXCEPT ![c] = [cleaner[c] EXCEPT ![k] = NoCleaner]]
      /\ UNCHANGED <<phase, place, old, tried, docker, deletes, faults, stops>>
  BY DEF EndDestroy
<1>2. \A j \in Caller : cleaner'[c][j] = IF j = k THEN NoCleaner ELSE cleaner[c][j]
  BY <1>1 DEF TypesOK
<1>3. place[c] = "ended" /\ (~ cleaner[c][k].failed => docker[c] = {})
  BY <1>1 DEF Sound, CleanersClean, Todo, Elements
<1>4. CleanersClean(c)'
  BY <1>1, <1>2, CleanerTypes DEF Sound, CleanersClean, Todo
<1>5. CASE cleaner[c][k].failed /\ UNCHANGED <<free, handles, answer>>
  <2>1. TypesOK'
    BY <1>1, <1>5, CleanerTypes DEF TypesOK
  <2>2. Sound(c)'
    BY <1>1, <1>3, <1>4, <1>5 DEF Sound, CreateClean, AnswerTrue, Kept
  <2> QED
    BY <1>1, <1>5, <2>1, <2>2, Elsewhere
<1>6. CASE /\ ~ cleaner[c][k].failed
           /\ free' = IF c \in handles THEN free + 1 ELSE free
           /\ handles' = handles \ {c}
           /\ answer' \in {answer, [answer EXCEPT ![c] = "destroyed"]}
  <2>1. TypesOK'
    BY <1>1, <1>6, CleanerTypes DEF TypesOK
  <2>2. Sound(c)'
    BY <1>1, <1>3, <1>4, <1>6 DEF Sound, CreateClean, AnswerTrue, Kept
  <2> QED
    BY <1>1, <1>6, <2>1, <2>2, Elsewhere
<1> QED
  BY <1>5, <1>6 DEF EndDestroy

-----------------------------------------------------------------------------
(* The process ends and starts again.                                      *)

LEMMA MemoryLost ==
  ASSUME SupInv, FreshMemory, phase' = "starting", stops' \in 0..MaxStops,
         UNCHANGED <<docker, answer, deletes, faults>>
  PROVE  SupInv'
<1> USE DEF SupInv
<1>1. \A c \in Capsule : /\ place'[c] = IF place[c] = "unborn" THEN "unborn" ELSE "ended"
                         /\ \A k \in Caller : cleaner'[c][k] = NoCleaner
                         /\ c \notin handles'
  BY DEF FreshMemory
<1>2. TypesOK'
  BY CleanerTypes, ConstantsAssumption DEF FreshMemory, TypesOK
<1>3. ASSUME NEW c \in Capsule PROVE Sound(c)'
  <2>1. CleanersClean(c)'
    BY <1>1, CleanerTypes DEF CleanersClean
  <2>2. CreateClean(c)' /\ AnswerTrue(c)' /\ Kept(c)'
    BY <1>1 DEF Sound, CreateClean, AnswerTrue, Kept
  <2> QED
    BY <1>1, <2>1, <2>2 DEF Sound
<1> QED
  BY <1>2, <1>3

LEMMA Restarts ==
  ASSUME SupInv, Crash \/ Exit \/ Shutdown \/ Serve
  PROVE  SupInv'
<1> USE DEF SupInv, memory, bounds
<1>1. CASE Crash
  <2>1. stops' \in 0..MaxStops
    BY <1>1, ConstantsAssumption DEF Crash, TypesOK
  <2> QED
    BY <1>1, <2>1, MemoryLost DEF Crash
<1>2. CASE Exit
  BY <1>2, MemoryLost DEF Exit, TypesOK
<1>3. CASE Shutdown
  <2>1. stops' \in 0..MaxStops
    BY <1>3, ConstantsAssumption DEF Shutdown, TypesOK
  <2>2. /\ phase = "up" /\ phase' = "closing"
        /\ cleaner' = [c \in Capsule |->
                        [cleaner[c] EXCEPT !["reaper"].failed = cleaner[c]["reaper"].on]]
        /\ UNCHANGED <<free, handles, place, old, tried, docker, answer, deletes, faults>>
    BY <1>3 DEF Shutdown
  <2>3. ASSUME NEW c \in Capsule
        PROVE  /\ cleaner'[c] \in [Caller -> Cleaner]
               /\ cleaner'[c]["reaper"].failed = cleaner'[c]["reaper"].on
               /\ \A k \in Caller \ {"reaper"} : cleaner'[c][k] = cleaner[c][k]
               /\ \A k \in Caller : cleaner'[c][k].todo = cleaner[c][k].todo /\ cleaner'[c][k].on = cleaner[c][k].on
    <3>1. cleaner'[c] = [cleaner[c] EXCEPT !["reaper"] =
                           [cleaner[c]["reaper"] EXCEPT !.failed = cleaner[c]["reaper"].on]]
      BY <2>2
    <3>2. cleaner[c] \in [Caller -> Cleaner] /\ "reaper" \in Caller
      BY DEF TypesOK, Caller
    <3> QED
      BY <3>1, <3>2 DEF Cleaner
  <2>4. TypesOK'
    BY <2>1, <2>2, <2>3 DEF TypesOK
  <2>5. ASSUME NEW c \in Capsule PROVE Sound(c)'
    <3>1. CleanersClean(c)'
      BY <2>2, <2>3 DEF Sound, CleanersClean, Todo
    <3>2. CreateClean(c)'
      BY <2>2, <2>3 DEF Sound, CreateClean, Todo, Caller
    <3>3. AnswerTrue(c)' /\ Kept(c)'
      BY <2>2 DEF Sound, AnswerTrue, Kept
    <3> QED
      BY <2>2, <3>1, <3>2, <3>3 DEF Sound
  <2> QED
    BY <2>4, <2>5
<1>4. CASE Serve
  <2>1. phase' = "up" /\ UNCHANGED <<free, handles, place, cleaner, old, tried, docker, answer, bounds>>
    BY <1>4 DEF Serve
  <2>2. \A c \in Capsule : docker[c] = {}
    BY <1>4 DEF Serve, Orphans
  <2>3. ASSUME NEW c \in Capsule PROVE Sound(c)'
    BY <2>1, <2>2 DEF Sound, CleanersClean, CreateClean, AnswerTrue, Kept, Todo
  <2>4. TypesOK'
    BY <2>1 DEF TypesOK
  <2> QED
    BY <2>3, <2>4
<1> QED
  BY <1>1, <1>2, <1>3, <1>4

LEMMA OrphanRemoved ==
  ASSUME SupInv, NEW c \in Capsule, RemoveOrphan(c)
  PROVE  SupInv'
<1> USE DEF SupInv, memory
<1>1. /\ phase = "starting"
      /\ UNCHANGED <<phase, free, handles, place, cleaner, old, tried, answer, deletes, stops>>
  BY DEF RemoveOrphan
<1>2. /\ \E left \in SUBSET docker[c] : docker' = [docker EXCEPT ![c] = left]
      /\ faults' \in 0..MaxFaults /\ (faults' = faults \/ faults' = faults + 1)
  <2>1. PICK r \in Resource :
          \/ docker' = [docker EXCEPT ![c] = docker[c] \ {r}] /\ UNCHANGED faults
          \/ Fault /\ docker' \in {docker, [docker EXCEPT ![c] = docker[c] \ {r}]}
    BY DEF RemoveOrphan
  <2>2. docker = [docker EXCEPT ![c] = docker[c]]
    BY DEF TypesOK
  <2>3. docker' = [docker EXCEPT ![c] = docker[c]] \/ docker' = [docker EXCEPT ![c] = docker[c] \ {r}]
    BY <2>1, <2>2
  <2>4. faults' \in 0..MaxFaults /\ (faults' = faults \/ faults' = faults + 1)
    BY <2>1, ConstantsAssumption DEF Fault, TypesOK
  <2> QED
    BY <2>3, <2>4
<1>3. docker'[c] \subseteq docker[c] /\ TypesOK'
  BY <1>1, <1>2 DEF TypesOK
<1>4. faults' = 0 => faults = 0
  BY <1>2 DEF TypesOK
<1>5. CleanersClean(c)' /\ CreateClean(c)'
  BY <1>1, <1>3, <1>4 DEF Sound, CleanersClean, CreateClean, Todo
<1>6. AnswerTrue(c)' /\ Kept(c)'
  BY <1>1, <1>3 DEF Sound, AnswerTrue, Kept
<1> QED
  BY <1>1, <1>2, <1>3, <1>5, <1>6, Elsewhere DEF Sound

LEMMA SupInvNext == SupInv /\ [Next]_vars => SupInv'
<1> SUFFICES ASSUME SupInv, [Next]_vars PROVE SupInv'
  OBVIOUS
<1> USE DEF memory, bounds
<1>1. ASSUME NEW c \in Capsule, Ages(c) PROVE SupInv'
  <2>1. TypesOK'
    BY <1>1 DEF Ages, SupInv, TypesOK
  <2>2. Sound(c)'
    BY <1>1 DEF Ages, SupInv, Sound, CleanersClean, CreateClean, AnswerTrue, Kept, Todo
  <2> QED
    BY <1>1, <2>1, <2>2, Elsewhere DEF Ages
<1>2. ASSUME NEW c \in Capsule, Reap(c) PROVE SupInv'
  <2>1. "reaper" \in Caller \ {"create"}
    BY DEF Caller
  <2> QED
    BY <1>2, <2>1, Begun DEF Reap, SupInv, TypesOK
<1>3. ASSUME NEW c \in Capsule, Close(c) PROVE SupInv'
  <2>1. "close" \in Caller \ {"create"}
    BY DEF Caller
  <2> QED
    BY <1>3, <2>1, Begun DEF Close, SupInv, TypesOK
<1>4. CASE UNCHANGED vars
  <2>1. TypesOK'
    BY <1>4 DEF vars, SupInv, TypesOK
  <2>2. ASSUME NEW c \in Capsule PROVE Sound(c)'
    BY <1>4 DEF vars, SupInv, Sound, CleanersClean, CreateClean, AnswerTrue, Kept, Todo
  <2> QED
    BY <2>1, <2>2 DEF SupInv
<1> QED
  BY <1>1, <1>2, <1>3, <1>4, Created, CreateFailed, Deleted, RemoveStep, DestroyEnds, Restarts, OrphanRemoved
     DEF Next, Creates, Cleans

LEMMA SupInvInit == Init => SupInv
<1> SUFFICES ASSUME Init PROVE SupInv
  OBVIOUS
<1>1. TypesOK
  BY CleanerTypes, ConstantsAssumption DEF Init, TypesOK
<1>2. ASSUME NEW c \in Capsule PROVE Sound(c)
  BY CleanerTypes DEF Init, Sound, CleanersClean, CreateClean, AnswerTrue, Kept
<1> QED
  BY <1>1, <1>2 DEF SupInv

LEMMA SupInvAlways == Spec => []SupInv
BY SupInvInit, SupInvNext, PTL DEF Spec

LEMMA SupInvSafe == SupInv => DestroyedIsGone /\ NothingLeftBehind
BY DEF SupInv, Sound, AnswerTrue, Kept, DestroyedIsGone, NothingLeftBehind, Holding

\* A capsule the worker was told is destroyed is gone from docker, whatever
\* fails, whoever destroys it and however often the supervisor restarts.
THEOREM DestroyedStaysGone == Spec => []DestroyedIsGone
BY SupInvAlways, SupInvSafe, PTL

\* While docker works nothing exists that the serving supervisor does not know.
THEOREM NothingEverLeftBehind == Spec => []NothingLeftBehind
BY SupInvAlways, SupInvSafe, PTL

(***************************************************************************)
(* The slots.  Every step takes a slot and adds one holder, gives one back *)
(* and removes one, or changes neither; the memory of a new process has    *)
(* all slots free and no holder.                                           *)
(***************************************************************************)
SlotsKept == IsFiniteSet(Holding) /\ SlotsAddUp /\ free \in 0..Slots

LEMMA SlotsSame ==
  ASSUME SlotsKept, free' = free, Holding' = Holding
  PROVE  SlotsKept'
BY DEF SlotsKept, SlotsAddUp

LEMMA SlotTaken ==
  ASSUME SlotsKept, NEW c, c \notin Holding, Holding' = Holding \cup {c}, free > 0, free' = free - 1
  PROVE  SlotsKept'
<1>1. IsFiniteSet(Holding') /\ Cardinality(Holding') = Cardinality(Holding) + 1
  BY FS_AddElement DEF SlotsKept
<1>2. Cardinality(Holding) \in Nat /\ free \in 0..Slots /\ free = Slots - Cardinality(Holding) /\ Slots \in Nat
  BY FS_CardinalityType, ConstantsAssumption DEF SlotsKept, SlotsAddUp
<1>3. free' = Slots - Cardinality(Holding') /\ free' \in 0..Slots
  BY <1>1, <1>2
<1> QED
  BY <1>1, <1>3 DEF SlotsKept, SlotsAddUp

LEMMA SlotGivenBack ==
  ASSUME SlotsKept, NEW c, c \in Holding, Holding' = Holding \ {c}, free' = free + 1
  PROVE  SlotsKept'
<1>1. IsFiniteSet(Holding') /\ Cardinality(Holding') = Cardinality(Holding) - 1
  BY FS_RemoveElement DEF SlotsKept
<1>2. /\ Cardinality(Holding) \in Nat /\ Cardinality(Holding') \in Nat
      /\ free \in 0..Slots /\ free = Slots - Cardinality(Holding) /\ Slots \in Nat
  BY <1>1, FS_CardinalityType, ConstantsAssumption DEF SlotsKept, SlotsAddUp
<1>3. free' = Slots - Cardinality(Holding') /\ free' \in 0..Slots
  BY <1>1, <1>2
<1> QED
  BY <1>1, <1>3 DEF SlotsKept, SlotsAddUp

LEMMA SlotsFresh ==
  ASSUME FreshMemory
  PROVE  SlotsKept'
<1>1. Holding' = {}
  BY DEF FreshMemory, Holding, InProgress
<1>2. IsFiniteSet({}) /\ Cardinality({}) = 0
  BY FS_EmptySet
<1> QED
  BY <1>1, <1>2, ConstantsAssumption DEF FreshMemory, SlotsKept, SlotsAddUp

LEMMA SlotsNext == SupInv /\ SlotsKept /\ [Next]_vars => SlotsKept'
<1> SUFFICES ASSUME SupInv, SlotsKept, [Next]_vars PROVE SlotsKept'
  OBVIOUS
<1> USE DEF memory, bounds
<1>0. place \in [Capsule -> {"unborn", "waiting", "ended"} \cup InProgress] /\ handles \subseteq Capsule
  BY DEF SupInv, TypesOK
\* Which steps move a capsule from one place to another.
<1>1. ASSUME NEW c \in Capsule, NEW to, place' = [place EXCEPT ![c] = to],
             place[c] \in InProgress <=> to \in InProgress, UNCHANGED <<handles, free>>
      PROVE  SlotsKept'
  <2>1. \A d \in Capsule : place'[d] \in InProgress <=> place[d] \in InProgress
    BY <1>0, <1>1
  <2>2. Holding' = Holding
    BY <1>1, <2>1 DEF Holding
  <2> QED
    BY <1>1, <2>2, SlotsSame
<1>2. ASSUME NEW c \in Capsule, Request(c) PROVE SlotsKept'
  BY <1>1, <1>2 DEF Request, InProgress
<1>3. ASSUME NEW c \in Capsule, Acquire(c) PROVE SlotsKept'
  <2>1. /\ place[c] = "waiting" /\ place' = [place EXCEPT ![c] = "network"]
        /\ free > 0 /\ free' = free - 1 /\ handles' = handles
    BY <1>3 DEF Acquire, Available
  <2>2. c \notin handles
    BY <2>1 DEF SupInv, Sound
  <2>3. Holding' = Holding \cup {c} /\ c \notin Holding
    BY <1>0, <2>1, <2>2 DEF Holding, InProgress
  <2> QED
    BY <2>1, <2>3, SlotTaken
<1>4. ASSUME NEW c \in Capsule, Make(c) PROVE SlotsKept'
  <2>1. place[c] \in Resource /\ Following[place[c]] \in {"blue", "target", "register"}
    BY <1>4 DEF Make, Following, Resource, Container
  <2>2. place[c] \in InProgress /\ Following[place[c]] \in InProgress
    BY <2>1 DEF Resource, Container, InProgress
  <2> QED
    BY <1>1, <1>4, <2>2 DEF Make
<1>5. ASSUME NEW c \in Capsule, Refuse(c) \/ MakeFails(c) PROVE SlotsKept'
  <2>1. /\ place[c] \in Resource /\ place' = [place EXCEPT ![c] = "clean"]
        /\ UNCHANGED <<handles, free>>
    BY <1>5 DEF Refuse, MakeFails, CreateFails, Resource
  <2> QED
    BY <1>1, <2>1 DEF Resource, Container, InProgress
<1>6. ASSUME NEW c \in Capsule, EndFailedCreate(c) PROVE SlotsKept'
  <2>1. /\ place[c] = "clean" /\ place' = [place EXCEPT ![c] = "ended"]
        /\ free' = free + 1 /\ handles' = handles
    BY <1>6 DEF EndFailedCreate, Released
  <2>2. c \notin handles
    BY <2>1 DEF SupInv, Sound
  <2>3. Holding' = Holding \ {c} /\ c \in Holding
    BY <1>0, <2>1, <2>2 DEF Holding, InProgress
  <2> QED
    BY <2>1, <2>3, SlotGivenBack
<1>7. ASSUME NEW c \in Capsule, Register(c) PROVE SlotsKept'
  <2>1. /\ place[c] = "register" /\ place' = [place EXCEPT ![c] = "ended"]
        /\ handles' = handles \cup {c} /\ free' = free
    BY <1>7 DEF Register
  <2>2. Holding' = Holding
    BY <1>0, <2>1 DEF Holding, InProgress
  <2> QED
    BY <2>1, <2>2, SlotsSame
<1>8. ASSUME NEW c \in Capsule, NEW k \in Caller, EndDestroy(c, k) PROVE SlotsKept'
  <2>1. CASE UNCHANGED <<free, handles>>
    <3>1. place' = place
      BY <1>8 DEF EndDestroy
    <3>2. Holding' = Holding
      BY <2>1, <3>1 DEF Holding
    <3> QED
      BY <2>1, <3>2, SlotsSame
  <2>2. CASE c \in handles /\ free' = free + 1 /\ handles' = handles \ {c}
    <3>1. place' = place /\ place[c] = "ended"
      BY <1>8, <2>2 DEF EndDestroy, SupInv, Sound
    <3>2. Holding' = Holding \ {c} /\ c \in Holding
      BY <2>2, <3>1 DEF Holding, InProgress
    <3> QED
      BY <2>2, <3>2, SlotGivenBack
  <2>3. c \notin handles => handles \ {c} = handles
    OBVIOUS
  <2> QED
    BY <1>8, <2>1, <2>2, <2>3 DEF EndDestroy
<1>9. CASE Crash \/ Exit
  BY <1>9, SlotsFresh DEF Crash, Exit
<1>10. CASE UNCHANGED <<place, handles, free>>
  <2>1. Holding' = Holding
    BY <1>10 DEF Holding
  <2> QED
    BY <1>10, <2>1, SlotsSame
<1>11. ASSUME NEW c \in Capsule,
              \/ Delete(c) \/ Ages(c) \/ Reap(c) \/ Close(c) \/ RemoveOrphan(c)
              \/ \E k \in Caller : Remove(c, k)
       PROVE  UNCHANGED <<place, handles, free>>
  BY <1>11 DEF Delete, Ages, Reap, Close, RemoveOrphan, Remove
<1>12. CASE Shutdown \/ Serve \/ UNCHANGED vars
  BY <1>10, <1>12 DEF Shutdown, Serve, vars
<1> QED
  BY <1>2, <1>3, <1>4, <1>5, <1>6, <1>7, <1>8, <1>9, <1>10, <1>11, <1>12 DEF Next, Creates, Cleans

LEMMA SlotsInit == Init => SlotsKept
<1> SUFFICES ASSUME Init PROVE SlotsKept
  OBVIOUS
<1>1. Holding = {}
  BY DEF Init, Holding, InProgress
<1> QED
  BY <1>1, FS_EmptySet, ConstantsAssumption DEF Init, SlotsKept, SlotsAddUp

LEMMA SlotsAlways == Spec => []SlotsKept
<1>1. Spec => [](SupInv /\ SlotsKept)
  BY SupInvInit, SlotsInit, SupInvNext, SlotsNext, PTL DEF Spec
<1> QED
  BY <1>1, PTL

\* The slots that are not free are those of creates in progress and of
\* registered capsules, one each: for any number of slots and callers.
THEOREM SlotsAlwaysAddUp == Spec => []SlotsAddUp
<1>1. SlotsKept => SlotsAddUp
  BY DEF SlotsKept
<1> QED
  BY <1>1, SlotsAlways, PTL

\* The variables keep their types; that there are never fewer than no slots
\* and never more than all is what the holders' count says.
THEOREM SupervisorTypes == Spec => []TypeOK
<1>1. SupInv /\ SlotsKept => TypeOK
  BY DEF SupInv, SlotsKept, TypesOK, TypeOK
<1> QED
  BY <1>1, SupInvAlways, SlotsAlways, PTL
=============================================================================
