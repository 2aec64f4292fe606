------------------------ MODULE AgentLifecycleProofs ------------------------
(***************************************************************************)
(* Proofs about AgentLifecycle, for any number of workers, requests,        *)
(* versions and faults: there is one agent, a shutdown reaches it, and its  *)
(* executable outlives every update.                                        *)
(***************************************************************************)
EXTENDS AgentLifecycle, TLAPS

-----------------------------------------------------------------------------
(* The inductive invariant *)

\* The variables of the supervisor that decide who is alive.
Shape ==
  /\ cmd \in Workers \cup {NoWorker}
  /\ closed \in BOOLEAN
  /\ life \in [Workers -> Lives]
  /\ call \in [Callers -> Ops]
  /\ DOMAIN job = Callers

\* While the manager shuts down, every worker alive has been told to exit,
\* however far the call that told it has come.
ClosedIsTold == closed => Live \subseteq told

\* A manager that is down has no worker, no goroutine and no request.
DownIsOver ==
  manager = "down" =>
    /\ cmd = NoWorker /\ ~ closed
    /\ \A w \in Workers : life[w] = "over"
    /\ \A c \in Callers : call[c] = NoCall /\ job[c] = NoJob

LifeInv ==
  /\ Shape
  /\ OneWorker
  /\ ClosedIsTold
  /\ DownIsOver

-----------------------------------------------------------------------------
(* Start, on behalf of whoever calls it *)

(* With one worker, none is alive unless it is s.cmd. *)
LEMMA NobodyElse ==
  ASSUME Shape, OneWorker, ~ CmdAlive
  PROVE  Live = {}
BY SupervisorAssumption DEF Shape, OneWorker, CmdAlive, Live

(* Whether it starts a worker, fails to, or finds one, Start leaves one worker   *)
(* at most, and none if the manager is shutting down.                            *)
LEMMA StartKeepsOne ==
  ASSUME Shape, OneWorker, ClosedIsTold,
         NEW lives \in [Workers -> Lives],
         \A w \in Workers : lives[w] = "running" => life[w] = "running",
         StartWith(lives)
  PROVE  /\ cmd' \in Workers \cup {NoWorker}
         /\ closed' = closed
         /\ life' \in [Workers -> Lives]
         /\ OneWorker'
         /\ ClosedIsTold'
<1>1. \A w \in Workers : life[w] = "running" => w = cmd
  BY DEF OneWorker, Live
<1>2. CASE closed
  BY <1>1, <1>2 DEF StartWith, Shape, OneWorker, ClosedIsTold, Live
<1>3. CASE ~ closed /\ CmdAlive
  BY <1>1, <1>3 DEF StartWith, Shape, OneWorker, ClosedIsTold, Live
<1>4. CASE ~ closed /\ ~ CmdAlive
  <2>1. \A w \in Workers : lives[w] # "running"
    BY <1>4, NobodyElse DEF Live
  <2>2. closed' = closed /\ StartLocked(lives)
    BY <1>4 DEF StartWith
  <2>3. CASE \E w \in Workers : /\ lives[w] = "over"
                                /\ cmd' = w
                                /\ life' = [lives EXCEPT ![w] = "running"]
    BY <1>4, <2>1, <2>2, <2>3 DEF OneWorker, ClosedIsTold, Live, Lives
  <2>4. CASE life' = lives /\ cmd' = cmd
    BY <1>4, <2>1, <2>2, <2>4 DEF Shape, OneWorker, ClosedIsTold, Live
  <2> QED
    BY <2>2, <2>3, <2>4 DEF StartLocked
<1> QED
  BY <1>2, <1>3, <1>4 DEF Shape

-----------------------------------------------------------------------------
(* The steps of the supervisor *)

(* Start as a step of the manager, once whoever called it is off its lists. *)
LEMMA StartStep ==
  ASSUME LifeInv, manager # "down", manager' = manager,
         NEW lives \in [Workers -> Lives],
         \A w \in Workers : lives[w] = "running" => life[w] = "running",
         StartWith(lives),
         call' \in [Callers -> Ops], DOMAIN job' = Callers
  PROVE  LifeInv'
<1>1. /\ cmd' \in Workers \cup {NoWorker} /\ closed' = closed
      /\ life' \in [Workers -> Lives] /\ OneWorker' /\ ClosedIsTold'
  BY StartKeepsOne DEF LifeInv
<1> QED
  BY <1>1 DEF LifeInv, Shape, DownIsOver

(* A request to stop reaches the worker alive, if there is one. *)
LEMMA StopStep ==
  ASSUME LifeInv, manager # "down", manager' = manager,
         NEW c \in Callers, NEW op \in Ops, StopBegin(c, op),
         DOMAIN job' = Callers
  PROVE  LifeInv'
<1>1. Shape' /\ DownIsOver'
  BY DEF LifeInv, Shape, DownIsOver, StopBegin
<1>2. OneWorker'
  BY DEF LifeInv, OneWorker, Live, StopBegin
<1>3. Live \subseteq told'
  BY SupervisorAssumption DEF LifeInv, OneWorker, Live, StopBegin
<1>4. ClosedIsTold'
  BY <1>3 DEF ClosedIsTold, Live, StopBegin
<1> QED
  BY <1>1, <1>2, <1>4 DEF LifeInv

(* What the goroutines of the workers and the requests do. *)
LEMMA SupervisorStep ==
  ASSUME LifeInv, Alone(SupervisorNext)
  PROVE  LifeInv'
<1> USE DEF LifeInv
<1>0. manager' = manager /\ job' = job
  BY DEF Alone, updaterVars, serviceVars
<1>1. ASSUME NEW w \in Workers, WorkerExits(w)
      PROVE  LifeInv'
  <2>1. manager # "down"
    BY <1>1 DEF DownIsOver, WorkerExits
  <2>2. Shape' /\ DownIsOver'
    BY <1>0, <1>1, <2>1 DEF Shape, DownIsOver, Lives, WorkerExits
  <2>3. OneWorker' /\ ClosedIsTold'
    BY <1>1 DEF Shape, OneWorker, ClosedIsTold, Live, WorkerExits
  <2> QED
    BY <2>2, <2>3
<1>2. ASSUME NEW w \in Workers, ForgetWorker(w)
      PROVE  LifeInv'
  <2>1. manager # "down"
    BY <1>2 DEF DownIsOver, ForgetWorker
  <2>2. Shape' /\ DownIsOver'
    BY <1>0, <1>2, <2>1 DEF Shape, DownIsOver, Lives, ForgetWorker
  <2>3. \A x \in Workers :
          life'[x] = "running" => life[x] = "running" /\ cmd' = cmd
    BY <1>2 DEF Shape, OneWorker, Live, ForgetWorker
  <2>4. OneWorker' /\ ClosedIsTold'
    BY <1>2, <2>3 DEF OneWorker, ClosedIsTold, Live, ForgetWorker
  <2> QED
    BY <2>2, <2>4
<1>3. ASSUME NEW w \in Workers, RestartWorker(w)
      PROVE  LifeInv'
  <2>1. manager # "down"
    BY <1>3 DEF DownIsOver, RestartWorker
  <2> DEFINE lives == [life EXCEPT ![w] = "over"]
  <2>2. lives \in [Workers -> Lives]
    BY DEF Shape, Lives
  <2>3. \A x \in Workers : lives[x] = "running" => life[x] = "running"
    BY DEF Shape
  <2>4. StartWith(lives) /\ call' = call
    BY <1>3 DEF RestartWorker
  <2> HIDE DEF lives
  <2> QED
    BY <1>0, <2>1, <2>2, <2>3, <2>4, StartStep DEF Shape
<1>4. ASSUME manager = "up", Start
      PROVE  LifeInv'
  BY <1>0, <1>4, StartStep DEF Shape, Start
<1>5. ASSUME NEW c \in Requests, StopReturns(c)
      PROVE  LifeInv'
  <2>1. manager # "down"
    BY <1>5 DEF DownIsOver, StopReturns, Requests, NoCall
  <2>2. call' \in [Callers -> Ops]
    BY <1>5 DEF Shape, StopReturns, Ops
  <2> QED
    BY <1>0, <1>5, <2>1, <2>2
       DEF Shape, OneWorker, ClosedIsTold, DownIsOver, Live, StopReturns
<1>6. ASSUME NEW c \in Requests, RestartReturns(c)
      PROVE  LifeInv'
  <2>1. manager # "down"
    BY <1>6 DEF DownIsOver, RestartReturns, Requests, NoCall
  <2>2. call' \in [Callers -> Ops] /\ StartWith(life)
    BY <1>6 DEF Shape, RestartReturns, Ops
  <2> QED
    BY <1>0, <2>1, <2>2, StartStep DEF Shape
<1>7. ASSUME NEW c \in Requests, NEW op \in {"stop", "restart"},
             Idle(c), StopBegin(c, op)
      PROVE  LifeInv'
  BY <1>0, <1>7, StopStep DEF Shape, Idle, Requests, Ops
<1> QED
  BY <1>1, <1>2, <1>3, <1>4, <1>5, <1>6, <1>7 DEF Alone, SupervisorNext

-----------------------------------------------------------------------------
(* The steps of the updater *)

(* A step that leaves the supervisor alone. *)
LEMMA ElsewhereStep ==
  ASSUME LifeInv, UNCHANGED supervisorVars, DOMAIN job' = Callers,
         manager' = "down"
           => manager = "down" /\ \A c \in Callers : job'[c] = NoJob
  PROVE  LifeInv'
BY DEF LifeInv, Shape, OneWorker, ClosedIsTold, DownIsOver, Live, supervisorVars

(* Checks, downloads and exchanges. *)
LEMMA UpdaterStep ==
  ASSUME LifeInv, UpdaterNext
  PROVE  LifeInv'
<1> USE DEF LifeInv
<1>0. DOMAIN job = Callers
  BY DEF Shape
<1>1. ASSUME CheckBegin \/ CheckEnd
      PROVE  LifeInv'
  BY <1>0, <1>1, ElsewhereStep
     DEF CheckBegin, CheckEnd, DownIsOver, serviceVars
<1>2. ASSUME NEW c \in Requests
      PROVE  ApplyBegin(c) => LifeInv'
  BY <1>0, <1>2, ElsewhereStep DEF ApplyBegin, Idle, serviceVars
<1>3. ASSUME NEW c \in Requests, job[c].at # "none"
      PROVE  manager # "down"
  BY <1>3 DEF DownIsOver, Requests, NoJob
<1>4. ASSUME NEW c \in Requests
      PROVE  ApplyFetch(c) => LifeInv'
  <2> HAVE ApplyFetch(c)
  <2>1. manager # "down"
    BY <1>3 DEF ApplyFetch
  <2> QED
    BY <1>0, <2>1, ElsewhereStep DEF ApplyFetch, Ends, serviceVars
<1>5. ASSUME NEW c \in Requests, NEW p \in {"worker", "manager"}
      PROVE  ApplyOpen(c, p) \/ ApplyLoaded(c, p) => LifeInv'
  <2> HAVE ApplyOpen(c, p) \/ ApplyLoaded(c, p)
  <2>1. manager # "down"
    BY <1>3 DEF ApplyOpen, ApplyLoaded
  <2> QED
    BY <1>0, <2>1, ElsewhereStep DEF ApplyOpen, ApplyLoaded, To, Ends, serviceVars
<1>6. ASSUME NEW c \in Requests
      PROVE  ApplyWorker(c) => LifeInv'
  <2> HAVE ApplyWorker(c)
  <2>1. manager # "down"
    BY <1>3 DEF ApplyWorker
  <2> QED
    BY <1>0, <2>1, StopStep DEF ApplyWorker, To, Requests, Ops, serviceVars
<1>7. ASSUME NEW c \in Requests
      PROVE  ApplyBoth(c) => LifeInv'
  <2> HAVE ApplyBoth(c)
  <2>1. manager # "down"
    BY <1>3 DEF ApplyBoth
  <2> QED
    BY <1>0, <2>1, ElsewhereStep DEF ApplyBoth, Ends
<1>8. ASSUME NEW c \in Requests
      PROVE  ApplyStopped(c) => LifeInv'
  <2> HAVE ApplyStopped(c)
  <2>1. manager # "down" /\ manager' = manager
    BY <1>3 DEF ApplyStopped, serviceVars
  <2>2. call' \in [Callers -> Ops] /\ DOMAIN job' = Callers
    BY <1>0 DEF ApplyStopped, Shape, Ops, To, Ends
  <2>3. \/ UNCHANGED <<cmd, closed, life, told>>
        \/ StartWith(life)
    BY DEF ApplyStopped
  <2>4. CASE UNCHANGED <<cmd, closed, life, told>>
    BY <2>1, <2>2, <2>4 DEF Shape, OneWorker, ClosedIsTold, DownIsOver, Live
  <2> QED
    BY <2>1, <2>2, <2>3, <2>4, StartStep DEF Shape
<1>9. ASSUME NEW c \in Requests
      PROVE  ApplyMoving(c) => LifeInv'
  <2> HAVE ApplyMoving(c)
  <2>1. manager # "down" /\ manager' = manager
    BY <1>3 DEF ApplyMoving, serviceVars
  <2>2. DOMAIN job' = Callers
    BY <1>0 DEF ApplyMoving, To, Ends
  <2>3. \/ UNCHANGED supervisorVars
        \/ StartWith(life) /\ call' = call
    BY DEF ApplyMoving
  <2> QED
    BY <2>1, <2>2, <2>3, StartStep, ElsewhereStep DEF Shape
<1>10. ASSUME NEW c \in Requests
       PROVE  ApplyMoved(c) => LifeInv'
  <2> HAVE ApplyMoved(c)
  <2>1. manager # "down" /\ manager' = manager /\ call' = call
    BY <1>3 DEF ApplyMoved, serviceVars
  <2>2. DOMAIN job' = Callers /\ StartWith(life)
    BY <1>0 DEF ApplyMoved, Ends
  <2> QED
    BY <2>1, <2>2, StartStep DEF Shape
<1> QED
  BY <1>1, <1>2, <1>4, <1>5, <1>6, <1>7, <1>8, <1>9, <1>10 DEF UpdaterNext

-----------------------------------------------------------------------------
(* The steps of the helper and of the manager *)

(* A helper starts and ends no manager itself. *)
LEMMA HelperStep ==
  ASSUME LifeInv, NEW h \in Helpers, HelperNext(h)
  PROVE  LifeInv'
<1>1. UNCHANGED supervisorVars /\ job' = job
  BY DEF HelperNext, HelperStops, HelperWaits, HelperMoves, HelperCopies,
         HelperCopied, HelperStarts, updaterVars
<1>2. manager' = "down" => manager = "down"
  BY DEF HelperNext, HelperStops, HelperWaits, HelperMoves, HelperCopies,
         HelperCopied, HelperStarts
<1> QED
  BY <1>1, <1>2, ElsewhereStep DEF LifeInv, Shape, DownIsOver

(* What ends the manager ends everything in it. *)
LEMMA EndStep ==
  ASSUME NEW killed, ManagerEnds(killed)
  PROVE  LifeInv'
BY DEF ManagerEnds, LifeInv, Shape, OneWorker, ClosedIsTold, DownIsOver, Live,
       Lives, Ops, NoCall

(* Boots, shutdowns, crashes and releases. *)
LEMMA ManagerStep ==
  ASSUME LifeInv, ManagerNext
  PROVE  LifeInv'
<1> USE DEF LifeInv
<1>1. CASE Boot
  <2>1. /\ ~ closed /\ manager' = "up" /\ UNCHANGED <<closed, told, call, job>>
        /\ \A w \in Workers : life[w] # "running"
    BY <1>1 DEF Boot, DownIsOver, updaterVars
  <2>2. CASE \E w \in Workers : cmd' = w /\ life' = [life EXCEPT ![w] = "running"]
    BY <2>1, <2>2 DEF Shape, OneWorker, ClosedIsTold, DownIsOver, Live, Lives
  <2>3. CASE UNCHANGED <<cmd, life>>
    BY <2>1, <2>3 DEF Shape, OneWorker, ClosedIsTold, DownIsOver, Live
  <2> QED
    BY <1>1, <2>2, <2>3 DEF Boot
<1>2. CASE CloseBegin
  <2>1. manager # "down" /\ manager' = manager /\ job' = job
    BY <1>2 DEF CloseBegin, updaterVars, serviceVars
  <2>2. StopBegin(Main, "close")
    BY <1>2 DEF CloseBegin
  <2> QED
    BY <2>1, <2>2, AgentAssumption, StopStep DEF Shape, Ops
<1>3. CASE ManagerExits \/ ManagerCrashes
  <2>1. \E killed : ManagerEnds(killed)
    BY <1>3 DEF ManagerExits, ManagerCrashes
  <2> QED
    BY <2>1, EndStep
<1>4. CASE Publish
  BY <1>4, ElsewhereStep DEF Publish, Shape, DownIsOver, updaterVars
<1> QED
  BY <1>1, <1>2, <1>3, <1>4 DEF ManagerNext

-----------------------------------------------------------------------------
(* The initial states have no worker, and every step keeps one at most. *)
THEOREM LifeInvHolds == Spec => []LifeInv
<1>1. Init => LifeInv
  <2> SUFFICES ASSUME Init
               PROVE  LifeInv
    OBVIOUS
  <2>1. Shape /\ Live = {} /\ ~ closed
    BY DEF Init, SupervisorInit, Shape, Live, Lives, Ops, NoCall
  <2> QED
    BY <2>1 DEF Init, SupervisorInit, LifeInv, OneWorker, ClosedIsTold,
                DownIsOver
<1>2. LifeInv /\ [Next]_vars => LifeInv'
  <2> SUFFICES ASSUME LifeInv, [Next]_vars
               PROVE  LifeInv'
    OBVIOUS
  <2>1. CASE UNCHANGED vars
    BY <2>1 DEF vars, supervisorVars, updaterVars, serviceVars, LifeInv, Shape,
                OneWorker, ClosedIsTold, DownIsOver, Live
  <2> QED
    BY <2>1, SupervisorStep, UpdaterStep, HelperStep, ManagerStep DEF Next, Noted
<1> QED
  BY <1>1, <1>2, PTL DEF Spec

(* There is never a second agent: of any number of workers that are started,     *)
(* stopped, crashed and exchanged by overlapping requests, at most one is alive,  *)
(* and Stop would reach it.                                                       *)
THEOREM OneWorkerAlways == Spec => []OneWorker
<1>1. LifeInv => OneWorker
  BY DEF LifeInv
<1> QED
  BY <1>1, LifeInvHolds, PTL

(* Once the manager's Close has told its worker to exit, no goroutine or request  *)
(* has started another one, whatever was under way.                               *)
THEOREM ShutdownReachesAll == Spec => []ClosedStopsAll
<1>1. LifeInv => ClosedStopsAll
  BY DEF LifeInv, ClosedIsTold, ClosedStopsAll
<1> QED
  BY <1>1, LifeInvHolds, PTL

-----------------------------------------------------------------------------
(* Types *)

\* Who may have a file open.
Writers == Callers \cup Helpers

(* The values that the steps give to files, and the places they are in. *)
LEMMA Values ==
  /\ Packaged \in Versions /\ Absent \in Files
  /\ \A v \in Versions : Whole(v) \in Files
  /\ \A v \in Versions, x \in Writers \cup {Nobody} : Part(v, x) \in Files
  /\ \A f \in Files : /\ f.whole \in BOOLEAN
                      /\ f # Absent => f.v \in Versions
                      /\ f.whole => f # Absent /\ f.by = Nobody
  /\ Worker \in Places /\ Worker = Exe("worker")
  /\ \A p \in Executables :
       /\ Exe(p) \in Places /\ Backup(p) \in Places
       /\ \A v \in Versions : Staged(p, v) \in Places
<1>1. Packaged \in Versions /\ Versions \subseteq -1 .. MaxVersion
      /\ 0 \in -1 .. MaxVersion /\ -1 \in -1 .. MaxVersion
  BY SupervisorAssumption DEF Versions, Packaged
<1>2. /\ Absent \in Files
      /\ \A v \in Versions : Whole(v) \in Files
      /\ \A v \in Versions, x \in Writers \cup {Nobody} : Part(v, x) \in Files
      /\ \A f \in Files : /\ f.whole \in BOOLEAN
                          /\ f # Absent => f.v \in Versions
                          /\ f.whole => f # Absent /\ f.by = Nobody
  <2>1. Absent \in Files /\ \A v \in Versions : Whole(v) \in Files
    BY DEF Files
  <2>2. \A v \in Versions, x \in Writers \cup {Nobody} : Part(v, x) \in Files
    BY DEF Files, Part, Writers
  <2>3. /\ Absent.whole = FALSE
        /\ \A v \in Versions : /\ Whole(v).whole = TRUE /\ Whole(v).by = Nobody
                             /\ Whole(v).v = v
    BY DEF Absent, Whole
  <2>4. ASSUME NEW f \in Files
        PROVE  /\ f.whole \in BOOLEAN
               /\ f # Absent => f.v \in Versions
               /\ f.whole => f # Absent /\ f.by = Nobody
    BY <2>3 DEF Files
  <2> QED
    BY <2>1, <2>2, <2>4
<1>3. "worker" \in Executables
  BY DEF Executables
<1> QED
  BY <1>1, <1>2, <1>3 DEF Places, Worker, Exe, Backup, Staged

(* No two of them are one. *)
LEMMA PlacesDiffer ==
  /\ \A p \in Executables : Exe(p) # Backup(p)
  /\ \A p \in Executables, v \in Versions :
       Staged(p, v) # Exe(p) /\ Staged(p, v) # Backup(p)
  /\ \A v \in Versions : \A q \in {Exe("worker"), Backup("worker"), Staged("worker", v)} :
       /\ q # Exe("manager") /\ q # Backup("manager")
       /\ \A u \in Versions : q # Staged("manager", u)
  /\ \A u, v \in Versions : Staged("worker", u) = Staged("worker", v) => u = v
BY DEF Exe, Backup, Staged, Versions, Executables

(* Removing, renaming and completing files leaves files. *)
LEMMA RemovedTypes ==
  ASSUME NEW files \in [Places -> Files], NEW place \in Places
  PROVE  Removed(files, place) \in [Places -> Files]
BY Values DEF Removed

LEMMA RenamedTypes ==
  ASSUME NEW files \in [Places -> Files], NEW from \in Places, NEW to \in Places
  PROVE  Renamed(files, from, to) \in [Places -> Files]
BY Values DEF Renamed

LEMMA WrittenTypes ==
  ASSUME disk \in [Places -> Files], NEW S \in SUBSET Writers,
         NEW whole \in BOOLEAN
  PROVE  Written(S, whole) \in [Places -> Files]
<1>1. ASSUME NEW q \in Places, disk[q].by \in S
      PROVE  [v |-> disk[q].v, whole |-> whole, by |-> Nobody] \in Files
  <2>1. disk[q] \in Files
    OBVIOUS
  <2>2. disk[q] # Absent /\ \A v \in Versions : disk[q] # Whole(v)
    BY <1>1, SupervisorAssumption DEF Absent, Whole, Writers
  <2>3. disk[q] \in [v : Versions, whole : {FALSE}, by : Callers \cup Helpers \cup {Nobody}]
    BY <2>1, <2>2 DEF Files
  <2>5. CASE whole = TRUE
    <3>1. disk[q].v \in Versions /\ Whole(disk[q].v) \in Files
      BY <2>3, Values
    <3> QED
      BY <2>5, <3>1 DEF Whole
  <2>6. CASE whole = FALSE
    <3>1. disk[q].v \in Versions /\ Part(disk[q].v, Nobody) \in Files
      BY <2>3, Values
    <3> QED
      BY <2>6, <3>1 DEF Part
  <2> QED
    BY <2>5, <2>6
<1> QED
  BY <1>1 DEF Written

LEMMA SetAsideTypes ==
  ASSUME disk \in [Places -> Files], NEW p \in Executables
  PROVE  SetAside(p) \in [Places -> Files]
<1>1. Removed(disk, Backup(p)) \in [Places -> Files]
  BY RemovedTypes, Values
<1> QED
  BY <1>1, RenamedTypes, Values DEF SetAside

(* What Start may do to the variables of the supervisor. *)
LEMMA StartTypes ==
  ASSUME TypeOK, NEW lives \in [Workers -> Lives], StartWith(lives)
  PROVE  /\ cmd' \in Workers \cup {NoWorker} /\ life' \in [Workers -> Lives]
         /\ desired' \in BOOLEAN /\ closed' \in BOOLEAN /\ failed' \in BOOLEAN
         /\ running' \in [Workers -> Versions \cup {0}]
         /\ told' \subseteq Workers
         /\ faults' \in 0 .. MaxFaults
<1>1. disk[Worker] # Absent => disk[Worker].v \in Versions
  BY Values DEF TypeOK
<1>2. Fault => faults' \in 0 .. MaxFaults
  BY SupervisorAssumption DEF TypeOK, Fault
<1>3. StartLocked(lives)
        => /\ cmd' \in Workers \cup {NoWorker} /\ life' \in [Workers -> Lives]
           /\ failed' \in BOOLEAN
           /\ running' \in [Workers -> Versions \cup {0}]
           /\ told' \subseteq Workers
           /\ faults' \in 0 .. MaxFaults
  BY <1>1, <1>2 DEF TypeOK, StartLocked, Lives
<1> QED
  BY <1>3 DEF TypeOK, StartWith

(* What a request to stop does to them. *)
LEMMA StopTypes ==
  ASSUME TypeOK, NEW c \in Callers, NEW op \in Ops, StopBegin(c, op)
  PROVE  /\ call' \in [Callers -> Ops]
         /\ told' \subseteq Workers
         /\ desired' \in BOOLEAN /\ closed' \in BOOLEAN
BY DEF TypeOK, StopBegin

LEMMA SupervisorTypes ==
  ASSUME TypeOK, Alone(SupervisorNext)
  PROVE  TypeOK'
<1> USE DEF TypeOK
<1>0. UNCHANGED <<updaterVars, serviceVars, disturbed>>
  BY DEF Alone
<1>1. Fault => faults' \in 0 .. MaxFaults
  BY SupervisorAssumption DEF Fault
<1>2. ASSUME NEW w \in Workers, WorkerExits(w) \/ ForgetWorker(w)
      PROVE  TypeOK'
  BY <1>0, <1>1, <1>2
     DEF WorkerExits, ForgetWorker, Lives, updaterVars, serviceVars
<1>3. ASSUME NEW lives \in [Workers -> Lives], StartWith(lives), disk' = disk,
             call' \in [Callers -> Ops]
      PROVE  TypeOK'
  BY <1>0, <1>3, StartTypes DEF updaterVars, serviceVars
<1>4. ASSUME NEW w \in Workers, RestartWorker(w)
      PROVE  TypeOK'
  <2>1. [life EXCEPT ![w] = "over"] \in [Workers -> Lives]
    BY DEF Lives
  <2> QED
    BY <1>3, <1>4, <2>1 DEF RestartWorker
<1>5. ASSUME Start
      PROVE  TypeOK'
  BY <1>3, <1>5 DEF Start
<1>6. ASSUME NEW c \in Requests, StopReturns(c)
      PROVE  TypeOK'
  <2>1. call' \in [Callers -> Ops]
    BY <1>6 DEF StopReturns, Ops
  <2> QED
    BY <1>0, <1>6, <2>1 DEF StopReturns, updaterVars, serviceVars
<1>7. ASSUME NEW c \in Requests, RestartReturns(c)
      PROVE  TypeOK'
  <2>1. call' \in [Callers -> Ops]
    BY <1>7 DEF RestartReturns, Ops
  <2> QED
    BY <1>3, <1>7, <2>1 DEF RestartReturns
<1>8. ASSUME NEW c \in Requests, NEW op \in {"stop", "restart"},
             StopBegin(c, op), UNCHANGED <<disk, faults>>
      PROVE  TypeOK'
  <2>1. /\ call' \in [Callers -> Ops]
        /\ told' \subseteq Workers
        /\ desired' \in BOOLEAN /\ closed' \in BOOLEAN
    BY <1>8, StopTypes DEF Ops, Requests
  <2> QED
    BY <1>0, <1>8, <2>1 DEF StopBegin, updaterVars, serviceVars
<1> QED
  BY <1>2, <1>4, <1>5, <1>6, <1>7, <1>8 DEF Alone, SupervisorNext

\* A helper at work.
HelperRecords == [at : HelperStages, p : Executables, v : Versions, launcher : {"up", "gone"}]

\* What the updater may change beside the supervisor and the files.
JobTypes ==
  /\ job \in [Callers -> {NoJob} \cup Jobs]
  /\ updateState \in UpdateStates
  /\ faults \in 0 .. MaxFaults

(* An Apply that is past the manifest has a version to apply. *)
LEMMA JobAtStage ==
  ASSUME TypeOK, NEW c \in Requests, job[c].at \in Stages
  PROVE  job[c] \in [at : Stages, v : Versions]
<1>1. job[c] \in {NoJob} \cup Jobs
  BY DEF TypeOK, Requests
<1>2. NoJob.at \notin Stages /\ Fetching.at \notin Stages
  BY DEF NoJob, Fetching, Stages
<1> QED
  BY <1>1, <1>2 DEF Jobs

LEMMA UpdaterTypes ==
  ASSUME TypeOK, UpdaterNext, disturbed' \in BOOLEAN
  PROVE  TypeOK'
<1>1. Fault => faults' \in 0 .. MaxFaults
  BY SupervisorAssumption DEF TypeOK, Fault
<1>2. JobTypes
  BY DEF TypeOK, JobTypes
<1>3. ASSUME NEW c \in Requests, NEW j \in Jobs, job' = [job EXCEPT ![c] = j]
      PROVE  job' \in [Callers -> {NoJob} \cup Jobs]
  BY <1>2, <1>3 DEF JobTypes
<1>4. ASSUME NEW c \in Requests, job[c].at \in Stages,
             NEW stage \in Stages, To(c, stage)
      PROVE  job' \in [Callers -> {NoJob} \cup Jobs]
  <2>1. [job[c] EXCEPT !.at = stage] \in [at : Stages, v : Versions]
    BY <1>4, JobAtStage
  <2>2. job' = [job EXCEPT ![c] = [job[c] EXCEPT !.at = stage]]
    BY <1>4 DEF To
  <2> QED
    BY <1>2, <2>1, <2>2 DEF JobTypes, Jobs
<1>5. ASSUME NEW c \in Requests, NEW state \in UpdateStates, Ends(c, state)
      PROVE  /\ job' \in [Callers -> {NoJob} \cup Jobs]
             /\ updateState' \in UpdateStates
  BY <1>2, <1>5 DEF JobTypes, Ends
<1>6. ASSUME NEW c \in Requests, job[c].at \in Stages
      PROVE  job[c].v \in Versions
  BY <1>6, JobAtStage
<1>7. ASSUME UNCHANGED supervisorVars, disk' \in [Places -> Files], JobTypes',
             checks' \in 0 .. MaxChecks, UNCHANGED serviceVars
      PROVE  TypeOK'
  BY <1>7 DEF TypeOK, JobTypes, supervisorVars, serviceVars
<1>8. ASSUME CheckBegin \/ CheckEnd
      PROVE  TypeOK'
  <2>1. checks' \in 0 .. MaxChecks
    BY <1>8, AgentAssumption DEF TypeOK, CheckBegin, CheckEnd
  <2>2. JobTypes'
    BY <1>1, <1>2, <1>8 DEF CheckBegin, CheckEnd, JobTypes, UpdateStates
  <2> QED
    BY <1>7, <1>8, <2>1, <2>2 DEF TypeOK, CheckBegin, CheckEnd
<1>9. ASSUME NEW c \in Requests, ApplyBegin(c)
      PROVE  TypeOK'
  <2>1. JobTypes'
    BY <1>2, <1>3, <1>9 DEF ApplyBegin, Jobs, JobTypes, UpdateStates
  <2> QED
    BY <1>7, <1>9, <2>1 DEF ApplyBegin, TypeOK
<1>10. ASSUME NEW c \in Requests, ApplyFetch(c)
       PROVE  TypeOK'
  <2>1. released \in Versions
    BY DEF TypeOK
  <2>2. [at |-> "open worker", v |-> released] \in Jobs
    BY <2>1 DEF Jobs, Stages
  <2>3. JobTypes'
    BY <1>1, <1>2, <1>3, <1>5, <1>10, <2>2 DEF ApplyFetch, JobTypes, UpdateStates
  <2>4. /\ UNCHANGED supervisorVars /\ UNCHANGED serviceVars
        /\ disk' = disk /\ checks' = checks
    BY <1>10 DEF ApplyFetch
  <2> QED
    BY <1>7, <2>3, <2>4 DEF TypeOK
<1>11. ASSUME NEW c \in Requests, NEW p \in {"worker", "manager"}, ApplyOpen(c, p)
       PROVE  TypeOK'
  <2>1. job[c].at \in Stages
    BY <1>11 DEF ApplyOpen, Stages
  <2>2. disk' \in [Places -> Files]
    <3>1. disk \in [Places -> Files] /\ Staged(p, job[c].v) \in Places
      BY <1>6, <2>1, Values DEF TypeOK, Executables
    <3>2. Part(job[c].v, c) \in Files
      BY <1>6, <2>1, Values DEF Writers, Requests
    <3> QED
      BY <1>11, <3>1, <3>2 DEF ApplyOpen
  <2>3. JobTypes'
    BY <1>2, <1>4, <1>11, <2>1 DEF ApplyOpen, JobTypes, Stages
  <2>4. UNCHANGED supervisorVars /\ UNCHANGED serviceVars /\ checks' = checks
    BY <1>11 DEF ApplyOpen
  <2> QED
    BY <1>7, <2>2, <2>3, <2>4 DEF TypeOK
<1>12. ASSUME NEW c \in Requests, NEW p \in {"worker", "manager"},
              ApplyLoaded(c, p)
       PROVE  TypeOK'
  <2>1. job[c].at \in Stages
    BY <1>12 DEF ApplyLoaded, Stages
  <2>2. disk' \in [Places -> Files]
    <3>1. {c} \in SUBSET Writers /\ disk \in [Places -> Files]
      BY DEF Writers, Requests, TypeOK
    <3> QED
      BY <1>12, <3>1, WrittenTypes DEF ApplyLoaded
  <2>3. JobTypes'
    BY <1>1, <1>2, <1>4, <1>5, <1>12, <2>1
       DEF ApplyLoaded, JobTypes, Stages, UpdateStates
  <2>4. UNCHANGED supervisorVars /\ UNCHANGED serviceVars /\ checks' = checks
    BY <1>12 DEF ApplyLoaded
  <2> QED
    BY <1>7, <2>2, <2>3, <2>4 DEF TypeOK
<1>13. ASSUME NEW c \in Requests, ApplyWorker(c)
       PROVE  TypeOK'
  <2>1. job' \in [Callers -> {NoJob} \cup Jobs] /\ updateState' \in UpdateStates
    BY <1>4, <1>13 DEF ApplyWorker, Stages, UpdateStates
  <2>2. StopBegin(c, "apply")
    BY <1>13 DEF ApplyWorker
  <2>3. /\ call' \in [Callers -> Ops]
        /\ told' \subseteq Workers
        /\ desired' \in BOOLEAN /\ closed' \in BOOLEAN
    BY <2>2, StopTypes DEF Ops, Requests
  <2> QED
    BY <1>13, <2>1, <2>2, <2>3 DEF TypeOK, ApplyWorker, StopBegin, serviceVars
<1>14. ASSUME NEW c \in Requests, ApplyBoth(c)
       PROVE  TypeOK'
  <2>1. JobTypes'
    BY <1>1, <1>2, <1>5, <1>14 DEF ApplyBoth, JobTypes, UpdateStates
  <2>2. job[c].v \in Versions
    BY <1>6, <1>14 DEF ApplyBoth, Stages
  <2>3. helper' \in [Helpers -> {NoHelper} \cup HelperRecords]
    <3>1. \/ helper' = helper
          \/ \E h \in Helpers :
               helper' = [helper EXCEPT ![h] = [at |-> "stop", p |-> "worker",
                                                v |-> job[c].v, launcher |-> "up"]]
      BY <1>14 DEF ApplyBoth
    <3>2. [at |-> "stop", p |-> "worker", v |-> job[c].v, launcher |-> "up"]
            \in HelperRecords
      BY <2>2 DEF HelperRecords, HelperStages, Executables
    <3> QED
      BY <3>1, <3>2 DEF TypeOK, HelperRecords
  <2> QED
    BY <1>14, <2>1, <2>3 DEF TypeOK, JobTypes, ApplyBoth, supervisorVars, HelperRecords
\* What the steps that call Start do to the rest.
<1>15. ASSUME disk' \in [Places -> Files], JobTypes',
              call' \in [Callers -> Ops], checks' = checks,
              UNCHANGED <<managerVersion, helper, manager, serviceStopped, released>>,
              \/ UNCHANGED <<cmd, desired, closed, life, running, told, failed>>
              \/ StartWith(life)
       PROVE  TypeOK'
  <2>1. /\ cmd' \in Workers \cup {NoWorker} /\ life' \in [Workers -> Lives]
        /\ desired' \in BOOLEAN /\ closed' \in BOOLEAN /\ failed' \in BOOLEAN
        /\ running' \in [Workers -> Versions \cup {0}]
        /\ told' \subseteq Workers
    BY <1>15, StartTypes DEF TypeOK
  <2> QED
    BY <1>15, <2>1 DEF TypeOK, JobTypes
<1>16. StartWith(life) => faults' \in 0 .. MaxFaults
  BY StartTypes DEF TypeOK
<1>17. ASSUME NEW c \in Requests, ApplyStopped(c)
       PROVE  TypeOK'
  <2>1. /\ call' \in [Callers -> Ops] /\ checks' = checks
        /\ UNCHANGED <<managerVersion, helper, manager, serviceStopped, released>>
    BY <1>17 DEF ApplyStopped, TypeOK, Ops, serviceVars
  <2>2. disk' \in [Places -> Files]
    BY <1>17, SetAsideTypes DEF ApplyStopped, TypeOK, Executables
  <2>3. JobTypes'
    BY <1>1, <1>2, <1>4, <1>5, <1>16, <1>17
       DEF ApplyStopped, JobTypes, Stages, UpdateStates
  <2>4. \/ UNCHANGED <<cmd, desired, closed, life, running, told, failed>>
        \/ StartWith(life)
    BY <1>17 DEF ApplyStopped
  <2> QED
    BY <1>15, <2>1, <2>2, <2>3, <2>4 DEF TypeOK
<1>18. ASSUME NEW c \in Requests, ApplyMoving(c)
       PROVE  TypeOK'
  <2>1. /\ call' \in [Callers -> Ops] /\ checks' = checks
        /\ UNCHANGED <<managerVersion, helper, manager, serviceStopped, released>>
    BY <1>18 DEF ApplyMoving, TypeOK, supervisorVars, serviceVars
  <2>2. disk' \in [Places -> Files]
    <3>1. job[c].v \in Versions
      BY <1>6, <1>18 DEF ApplyMoving, Stages
    <3>2. /\ disk \in [Places -> Files] /\ Backup("worker") \in Places
          /\ Worker \in Places /\ Staged("worker", job[c].v) \in Places
      BY <3>1, Values DEF TypeOK, Executables
    <3> QED
      BY <1>18, <3>2, RenamedTypes DEF ApplyMoving
  <2>3. JobTypes'
    BY <1>2, <1>4, <1>5, <1>16, <1>18 DEF ApplyMoving, JobTypes, Stages, UpdateStates
  <2>4. \/ UNCHANGED <<cmd, desired, closed, life, running, told, failed>>
        \/ StartWith(life)
    BY <1>18 DEF ApplyMoving, supervisorVars
  <2> QED
    BY <1>15, <2>1, <2>2, <2>3, <2>4
<1>19. ASSUME NEW c \in Requests, ApplyMoved(c)
       PROVE  TypeOK'
  <2>1. /\ call' \in [Callers -> Ops] /\ checks' = checks
        /\ UNCHANGED <<managerVersion, helper, manager, serviceStopped, released>>
    BY <1>19 DEF ApplyMoved, TypeOK, serviceVars
  <2>2. disk' \in [Places -> Files]
    BY <1>19, Values, RemovedTypes DEF ApplyMoved, TypeOK, Executables
  <2>3. JobTypes'
    BY <1>2, <1>5, <1>16, <1>19 DEF ApplyMoved, JobTypes, UpdateStates
  <2>4. StartWith(life)
    BY <1>19 DEF ApplyMoved
  <2> QED
    BY <1>15, <2>1, <2>2, <2>3, <2>4 DEF TypeOK
<1> QED
  BY <1>8, <1>9, <1>10, <1>11, <1>12, <1>13, <1>14, <1>17, <1>18, <1>19
     DEF UpdaterNext

(* What a helper works on, and what becomes of it. *)
LEMMA HelperAtWork ==
  ASSUME TypeOK, NEW h \in Helpers, helper[h].at # "none"
  PROVE  /\ helper[h] \in HelperRecords
         /\ helper[h].p \in Executables /\ helper[h].v \in Versions
         /\ Exe(helper[h].p) \in Places /\ Backup(helper[h].p) \in Places
         /\ Staged(helper[h].p, helper[h].v) \in Places
<1>1. helper[h] \in HelperRecords
  BY DEF TypeOK, NoHelper, HelperRecords
<1> QED
  BY <1>1, Values DEF HelperRecords

LEMMA HelperMovesOn ==
  ASSUME TypeOK, NEW h \in Helpers, helper[h].at # "none",
         \/ HelperEnds(h)
         \/ \E stage \in HelperStages : HelperAt(h, stage)
         \/ \E stage \in HelperStages :
              helper' = [helper EXCEPT ![h].at = stage, ![h].p = "manager"]
  PROVE  helper' \in [Helpers -> {NoHelper} \cup HelperRecords]
<1>1. helper \in [Helpers -> {NoHelper} \cup HelperRecords]
  BY DEF TypeOK, HelperRecords
<1>2. helper[h] \in HelperRecords
  BY HelperAtWork
<1>3. CASE HelperEnds(h)
  BY <1>1, <1>3 DEF HelperEnds
<1>4. ASSUME NEW stage \in HelperStages, HelperAt(h, stage)
      PROVE  helper' \in [Helpers -> {NoHelper} \cup HelperRecords]
  BY <1>1, <1>2, <1>4 DEF HelperAt, HelperRecords
<1>5. ASSUME NEW stage \in HelperStages,
             helper' = [helper EXCEPT ![h].at = stage, ![h].p = "manager"]
      PROVE  helper' \in [Helpers -> {NoHelper} \cup HelperRecords]
  BY <1>1, <1>2, <1>5 DEF HelperRecords, Executables
<1> QED
  BY <1>3, <1>4, <1>5

LEMMA HelperTypes ==
  ASSUME TypeOK, NEW h \in Helpers, HelperNext(h), disturbed' \in BOOLEAN
  PROVE  TypeOK'
<1>1. Fault => faults' \in 0 .. MaxFaults
  BY SupervisorAssumption DEF TypeOK, Fault
<1>2. helper[h].at # "none"
  BY DEF HelperNext, HelperStops, HelperWaits, HelperMoves, HelperCopies,
         HelperCopied, HelperStarts
<1>3. UNCHANGED supervisorVars /\ UNCHANGED updaterVars
      /\ UNCHANGED <<managerVersion, released>>
  BY DEF HelperNext, HelperStops, HelperWaits, HelperMoves, HelperCopies,
         HelperCopied, HelperStarts
<1>4. ASSUME helper' \in [Helpers -> {NoHelper} \cup HelperRecords],
             disk' \in [Places -> Files],
             faults' \in 0 .. MaxFaults, manager' \in {"up", "stopping", "down"},
             serviceStopped' \in BOOLEAN
      PROVE  TypeOK'
  BY <1>3, <1>4 DEF TypeOK, supervisorVars, updaterVars, HelperRecords
<1>d. /\ disk \in [Places -> Files] /\ faults \in 0 .. MaxFaults
      /\ manager \in {"up", "stopping", "down"} /\ serviceStopped \in BOOLEAN
  BY DEF TypeOK
<1>a. /\ helper[h].p \in Executables /\ helper[h].v \in Versions
      /\ Exe(helper[h].p) \in Places /\ Backup(helper[h].p) \in Places
      /\ Staged(helper[h].p, helper[h].v) \in Places
  BY <1>2, HelperAtWork
<1>b. {h} \in SUBSET Writers
  BY DEF Writers
<1>5. CASE HelperStops(h)
  <2>1. helper' \in [Helpers -> {NoHelper} \cup HelperRecords]
    BY <1>2, <1>5, HelperMovesOn DEF HelperStops, HelperStages
  <2> QED
    BY <1>1, <1>4, <1>5, <1>d, <2>1 DEF HelperStops
<1>6. CASE HelperWaits(h)
  <2>1. helper' \in [Helpers -> {NoHelper} \cup HelperRecords]
    BY <1>2, <1>6, HelperMovesOn DEF HelperWaits, HelperStages
  <2> QED
    BY <1>1, <1>4, <1>6, <1>d, <2>1 DEF HelperWaits
<1>7. CASE HelperMoves(h)
  <2>1. helper' \in [Helpers -> {NoHelper} \cup HelperRecords]
    BY <1>2, <1>7, HelperMovesOn DEF HelperMoves, HelperStages
  <2>2. disk' \in {disk, SetAside(helper[h].p), Removed(disk, Backup(helper[h].p))}
    BY <1>7 DEF HelperMoves
  <2>3. disk' \in [Places -> Files]
    BY <1>a, <1>d, <2>2, SetAsideTypes, RemovedTypes
  <2> QED
    BY <1>4, <1>7, <1>d, <2>1, <2>3 DEF HelperMoves
<1>8. CASE HelperCopies(h)
  <2>1. helper' \in [Helpers -> {NoHelper} \cup HelperRecords]
    BY <1>2, <1>8, HelperMovesOn DEF HelperCopies, HelperStages
  <2>2. \/ disk' = Renamed(disk, Backup(helper[h].p), Exe(helper[h].p))
        \/ disk' = [disk EXCEPT ![Exe(helper[h].p)] = Part(helper[h].v, h)]
    BY <1>8 DEF HelperCopies
  <2>3. Part(helper[h].v, h) \in Files
    BY <1>a, Values DEF Writers
  <2>4. disk' \in [Places -> Files]
    <3>1. Renamed(disk, Backup(helper[h].p), Exe(helper[h].p)) \in [Places -> Files]
      BY <1>a, <1>d, RenamedTypes
    <3> QED
      BY <1>a, <1>d, <2>2, <2>3, <3>1
  <2> QED
    BY <1>4, <1>8, <1>d, <2>1, <2>4 DEF HelperCopies
<1>9. CASE HelperCopied(h)
  <2>1. helper' \in [Helpers -> {NoHelper} \cup HelperRecords]
    BY <1>2, <1>9, HelperMovesOn DEF HelperCopied, HelperStages
  <2>2. \E whole \in BOOLEAN :
          \/ disk' = Removed(Removed(Written({h}, whole), Backup(helper[h].p)),
                             Staged(helper[h].p, helper[h].v))
          \/ disk' = Renamed(Written({h}, whole), Backup(helper[h].p),
                             Exe(helper[h].p))
    BY <1>9 DEF HelperCopied
  <2>3. disk' \in [Places -> Files]
    <3>1. PICK whole \in BOOLEAN :
            \/ disk' = Removed(Removed(Written({h}, whole), Backup(helper[h].p)),
                               Staged(helper[h].p, helper[h].v))
            \/ disk' = Renamed(Written({h}, whole), Backup(helper[h].p),
                               Exe(helper[h].p))
      BY <2>2
    <3>2. Written({h}, whole) \in [Places -> Files]
      BY <1>b, <1>d, WrittenTypes
    <3>3. Removed(Written({h}, whole), Backup(helper[h].p)) \in [Places -> Files]
      BY <1>a, <3>2, RemovedTypes
    <3>4. Removed(Removed(Written({h}, whole), Backup(helper[h].p)),
                  Staged(helper[h].p, helper[h].v)) \in [Places -> Files]
      BY <1>a, <3>3, RemovedTypes
    <3>5. Renamed(Written({h}, whole), Backup(helper[h].p), Exe(helper[h].p))
            \in [Places -> Files]
      BY <1>a, <3>2, RenamedTypes
    <3> QED
      BY <3>1, <3>4, <3>5
  <2>4. faults' \in 0 .. MaxFaults
    BY <1>1, <1>9, <1>d DEF HelperCopied
  <2> QED
    BY <1>4, <1>9, <1>d, <2>1, <2>3, <2>4 DEF HelperCopied
<1>10. CASE HelperStarts(h)
  <2>1. helper' \in [Helpers -> {NoHelper} \cup HelperRecords]
    BY <1>2, <1>10, HelperMovesOn DEF HelperStarts
  <2> QED
    BY <1>4, <1>10, <1>d, <2>1 DEF HelperStarts
<1> QED
  BY <1>5, <1>6, <1>7, <1>8, <1>9, <1>10 DEF HelperNext

(* What is left when the manager has ended. *)
LEMMA EndTypes ==
  ASSUME TypeOK, NEW killed \in SUBSET Helpers, ManagerEnds(killed),
         faults' \in 0 .. MaxFaults, disturbed' \in BOOLEAN
  PROVE  TypeOK'
<1>1. disk' \in [Places -> Files]
  <2>1. Callers \cup killed \in SUBSET Writers /\ disk \in [Places -> Files]
    BY DEF Writers, TypeOK
  <2> QED
    BY <2>1, WrittenTypes DEF ManagerEnds
<1>2. helper' \in [Helpers -> {NoHelper} \cup HelperRecords]
  <2>1. \A h \in Helpers :
          [helper[h] EXCEPT !.launcher = "gone"] \in {NoHelper} \cup HelperRecords
    <3> SUFFICES ASSUME NEW h \in Helpers
                 PROVE  [helper[h] EXCEPT !.launcher = "gone"]
                          \in {NoHelper} \cup HelperRecords
      OBVIOUS
    <3>1. CASE helper[h] = NoHelper
      BY <3>1 DEF NoHelper
    <3>2. CASE helper[h] \in HelperRecords
      BY <3>2 DEF HelperRecords
    <3> QED
      BY <3>1, <3>2 DEF TypeOK, HelperRecords
  <2> QED
    BY <2>1 DEF ManagerEnds
<1>3. /\ cmd' \in Workers \cup {NoWorker} /\ life' \in [Workers -> Lives]
      /\ running' \in [Workers -> Versions \cup {0}] /\ told' \subseteq Workers
      /\ call' \in [Callers -> Ops] /\ checks' \in 0 .. MaxChecks
      /\ job' \in [Callers -> {NoJob} \cup Jobs] /\ updateState' \in UpdateStates
  BY AgentAssumption DEF ManagerEnds, Lives, Ops, NoCall, UpdateStates
<1> QED
  BY <1>1, <1>2, <1>3 DEF TypeOK, ManagerEnds, HelperRecords

LEMMA ManagerTypes ==
  ASSUME TypeOK, ManagerNext, disturbed' \in BOOLEAN
  PROVE  TypeOK'
<1>1. (Fault => faults' \in 0 .. MaxFaults) /\ faults \in 0 .. MaxFaults
  BY SupervisorAssumption DEF TypeOK, Fault
<1>2. CASE Boot
  <2>1. /\ disk \in [Places -> Files] /\ Worker \in Places
        /\ Exe("manager") \in Places /\ Whole(Packaged) \in Files
    BY Values DEF TypeOK, Executables
  <2>2. disk' \in [Places -> Files]
    BY <1>2, <2>1 DEF Boot, Refreshed
  <2>3. disk'[Worker] # Absent /\ disk'[Exe("manager")] # Absent
    <3>1. CASE disk[Worker] = Absent \/ ~ disk[Exe("manager")].whole
      <4>1. Whole(Packaged) # Absent
        BY DEF Whole, Absent
      <4> QED
        BY <1>2, <2>1, <3>1, <4>1 DEF Boot, Refreshed
    <3>2. CASE ~ (disk[Worker] = Absent \/ ~ disk[Exe("manager")].whole)
      BY <1>2, <2>1, <3>2, Values DEF Boot, Refreshed
    <3> QED
      BY <3>1, <3>2
  <2>4. disk'[Worker].v \in Versions /\ disk'[Exe("manager")].v \in Versions
    BY <2>1, <2>2, <2>3, Values
  <2>5. faults' \in 0 .. MaxFaults
    BY <1>1, <1>2 DEF Boot
  <2> QED
    BY <1>2, <2>2, <2>4, <2>5 DEF TypeOK, Boot, updaterVars, Lives
<1>3. CASE CloseBegin
  <2>1. StopBegin(Main, "close")
    BY <1>3 DEF CloseBegin
  <2>2. /\ call' \in [Callers -> Ops]
        /\ told' \subseteq Workers
        /\ desired' \in BOOLEAN /\ closed' \in BOOLEAN
    BY <2>1, AgentAssumption, StopTypes DEF Ops
  <2> QED
    BY <1>3, <2>1, <2>2 DEF TypeOK, CloseBegin, StopBegin, updaterVars, serviceVars
<1>4. CASE ManagerExits
  BY <1>1, <1>4, EndTypes DEF ManagerExits
<1>5. CASE ManagerCrashes
  BY <1>1, <1>5, EndTypes DEF ManagerCrashes
<1>6. CASE Publish
  <2>1. released' \in Versions
    BY <1>6, SupervisorAssumption DEF TypeOK, Publish, Versions
  <2> QED
    BY <1>6, <2>1 DEF TypeOK, Publish, supervisorVars, updaterVars
<1> QED
  BY <1>2, <1>3, <1>4, <1>5, <1>6 DEF ManagerNext

(* The packaged installation has the types. *)
LEMMA AgentTypeInit == Init => TypeOK
<1> SUFFICES ASSUME Init
             PROVE  TypeOK
  OBVIOUS
<1>1. Packaged \in Versions /\ disk \in [Places -> Files]
  BY Values DEF Init
<1>2. /\ life \in [Workers -> Lives] /\ call \in [Callers -> Ops]
      /\ running \in [Workers -> Versions \cup {0}] /\ told \subseteq Workers
      /\ faults \in 0 .. MaxFaults /\ updateState \in UpdateStates
      /\ job \in [Callers -> {NoJob} \cup Jobs] /\ checks \in 0 .. MaxChecks
  BY SupervisorAssumption, AgentAssumption DEF Init, SupervisorInit, Lives, Ops, UpdateStates
<1> QED
  BY <1>1, <1>2 DEF Init, SupervisorInit, TypeOK

(* Every step keeps them. *)
LEMMA AgentTypeStep ==
  ASSUME TypeOK, [Next]_vars
  PROVE  TypeOK'
<1>1. CASE UNCHANGED vars
  BY <1>1 DEF TypeOK, vars, supervisorVars, updaterVars, serviceVars
<1>2. CASE Next
  <2>1. CASE Alone(SupervisorNext)
    BY <2>1, SupervisorTypes
  <2>2. CASE Noted(UpdaterNext)
    BY <2>2, UpdaterTypes DEF Noted, TypeOK
  <2>3. ASSUME NEW h \in Helpers, Noted(HelperNext(h))
        PROVE  TypeOK'
    BY <2>3, HelperTypes DEF Noted, TypeOK
  <2>4. CASE Noted(ManagerNext)
    BY <2>4, ManagerTypes DEF Noted, TypeOK
  <2> QED
    BY <1>2, <2>1, <2>2, <2>3, <2>4 DEF Next
<1> QED
  BY <1>1, <1>2

(* Every variable keeps its type, for any number of workers, requests, versions   *)
(* and faults.                                                                     *)
THEOREM AgentTypeCorrect == Spec => []TypeOK
<1>1. TypeOK /\ [Next]_vars => TypeOK'
  BY AgentTypeStep
<1> QED
  BY <1>1, AgentTypeInit, PTL DEF Spec

-----------------------------------------------------------------------------
(* Updates: wherever a step fails, or the manager, a helper or the machine   *)
(* ends, there is a complete executable of the agent, in its place or saved, *)
(* as long as there is one update at a time.  A Check that takes the state   *)
(* from an update lets a second one in; disturbed says so.                   *)

(* The inductive invariant, beside the types *)

SavedWorker == Backup("worker")

\* The staged worker is complete from its verification until it is moved, or
\* copied, to its place.
StagedIsWhole ==
  /\ \A c \in Callers :
       LET staged == disk[Staged("worker", job[c].v)] IN
       /\ job[c].at = "load worker" => staged.by = c
       /\ job[c].at \in {"open manager", "load manager", "ready", "stop", "moving"}
            => staged.whole
  /\ \A h \in Helpers :
       helper[h] # NoHelper /\ helper[h].p = "worker"
         => disk[Staged("worker", helper[h].v)].whole

\* Where the complete worker is, while it is not in its place.
ExchangeIsSafe ==
  /\ \/ disk[Worker].whole
     \/ /\ disk[SavedWorker].whole
        /\ disk[Worker] = Absent
        /\ \/ manager = "down" /\ NoUpdate
           \/ \E c \in Callers : job[c].at = "moving"
           \/ \E h \in Helpers : helper[h].at = "copy" /\ helper[h].p = "worker"
     \/ \E h \in Helpers : helper[h].at = "copied" /\ helper[h].p = "worker"
  /\ \A h \in Helpers :
       helper[h].at \in {"copy", "copied"} /\ helper[h].p = "worker"
         => disk[SavedWorker].whole
  /\ \A h \in Helpers :
       helper[h].at = "copied" /\ helper[h].p = "worker"
         => disk[Worker].whole \/ disk[Worker].by = h

UpdateInv ==
  /\ TypeOK
  /\ ~ disturbed => OneUpdate /\ StagedIsWhole /\ ExchangeIsSafe

-----------------------------------------------------------------------------
LEMMA NoHelperAt == NoHelper.at = "none"
BY DEF NoHelper

LEMMA NoJobAt == NoJob.at = "none"
BY DEF NoJob

(* What removing, renaming and completing does to each place. *)
LEMMA RemovedAt ==
  ASSUME NEW files \in [Places -> Files], NEW place \in Places
  PROVE  /\ Removed(files, place)[place] = Absent
         /\ \A q \in Places \ {place} : Removed(files, place)[q] = files[q]
BY DEF Removed

LEMMA RenamedAt ==
  ASSUME NEW files \in [Places -> Files], NEW from \in Places,
         NEW to \in Places \ {from}
  PROVE  /\ files[from] # Absent => /\ Renamed(files, from, to)[to] = files[from]
                                   /\ Renamed(files, from, to)[from] = Absent
         /\ files[from] = Absent => Renamed(files, from, to) = files
         /\ \A q \in Places \ {from, to} : Renamed(files, from, to)[q] = files[q]
BY DEF Renamed

LEMMA WrittenAt ==
  ASSUME disk \in [Places -> Files], NEW S \in SUBSET Writers,
         NEW whole \in BOOLEAN, NEW q \in Places
  PROVE  /\ disk[q].whole => Written(S, whole)[q] = disk[q]
         /\ disk[q] = Absent => Written(S, whole)[q] = Absent
         /\ disk[q].by \in S => Written(S, whole)[q].whole = whole
<1>1. Nobody \notin S
  BY SupervisorAssumption DEF Writers
<1>2. disk[q].whole => disk[q].by = Nobody
  BY Values
<1>3. Absent.by = Nobody
  BY DEF Absent
<1> QED
  BY <1>1, <1>2, <1>3 DEF Written

(* A place set aside is empty, and its file saved. *)
LEMMA SetAsideAt ==
  ASSUME disk \in [Places -> Files], NEW p \in Executables
  PROVE  /\ SetAside(p)[Exe(p)] = Absent
         /\ disk[Exe(p)] # Absent => SetAside(p)[Backup(p)] = disk[Exe(p)]
         /\ \A q \in Places \ {Exe(p), Backup(p)} : SetAside(p)[q] = disk[q]
<1>1. Exe(p) \in Places /\ Backup(p) \in Places /\ Exe(p) # Backup(p)
  BY Values, PlacesDiffer
<1> DEFINE without == Removed(disk, Backup(p))
<1>2. /\ without \in [Places -> Files]
      /\ without[Exe(p)] = disk[Exe(p)]
      /\ \A q \in Places \ {Exe(p), Backup(p)} : without[q] = disk[q]
  BY <1>1, RemovedTypes, RemovedAt
<1> HIDE DEF without
<1>3. SetAside(p) = Renamed(without, Exe(p), Backup(p))
  BY DEF SetAside, without
<1> QED
  BY <1>1, <1>2, <1>3, RenamedAt

(* The places of the worker are three, and none of the manager's. *)
LEMMA WorkerPlaces ==
  ASSUME NEW v \in Versions
  PROVE  /\ {Worker, SavedWorker, Staged("worker", v)} \subseteq Places
         /\ Worker # SavedWorker /\ Staged("worker", v) \notin {Worker, SavedWorker}
         /\ Worker = Exe("worker") /\ SavedWorker = Backup("worker")
         /\ \A q \in {Worker, SavedWorker, Staged("worker", v)} :
              /\ q \notin {Exe("manager"), Backup("manager")}
              /\ \A u \in Versions : q # Staged("manager", u)
BY Values, PlacesDiffer DEF Worker, SavedWorker, Executables

-----------------------------------------------------------------------------
(* One job, or one helper *)

(* A job that is under way has no other beside it, nor a helper. *)
LEMMA TheOnlyJob ==
  ASSUME OneUpdate, StagedIsWhole, ExchangeIsSafe,
         NEW c \in Requests, job[c].at # "none"
  PROVE  /\ c \in Callers
         /\ \A d \in Callers : d # c => job[d] = NoJob
         /\ \A h \in Helpers : helper[h] = NoHelper
         /\ disk[Worker].whole \/ job[c].at = "moving"
         /\ disk[Worker].whole \/ disk[SavedWorker].whole
<1>1. c \in Callers /\ job[c] # NoJob
  BY DEF Requests, NoJob
<1>2. /\ \A d \in Callers : d # c => job[d] = NoJob
      /\ \A h \in Helpers : helper[h] = NoHelper
  BY <1>1 DEF OneUpdate
<1>3. \A d \in Callers : job[d].at = "moving" => d = c
  BY <1>2 DEF NoJob
<1>4. \A h \in Helpers : helper[h].at = "none"
  BY <1>2, NoHelperAt
<1> QED
  BY <1>1, <1>2, <1>3, <1>4 DEF ExchangeIsSafe, NoUpdate

(* A step of such a job that keeps a complete worker, or a complete saved one     *)
(* while the worker is being exchanged, keeps the rest of the invariant.          *)
LEMMA JobStep ==
  ASSUME TypeOK, OneUpdate, StagedIsWhole, ExchangeIsSafe,
         NEW c \in Requests, job[c].at # "none",
         NEW j, job' = [job EXCEPT ![c] = j], helper' = helper,
         \/ disk'[Worker].whole
         \/ /\ j.at = "moving" /\ disk'[Worker] = Absent
            /\ disk'[SavedWorker].whole,
         j.at = "load worker" => disk'[Staged("worker", j.v)].by = c,
         j.at \in {"open manager", "load manager", "ready", "stop", "moving"}
           => disk'[Staged("worker", j.v)].whole
  PROVE  StagedIsWhole' /\ ExchangeIsSafe'
<1>1. /\ c \in Callers
      /\ \A d \in Callers : d # c => job[d] = NoJob
      /\ \A h \in Helpers : helper[h] = NoHelper
  BY TheOnlyJob
<1>2. job'[c] = j /\ \A d \in Callers : d # c => job'[d].at = "none"
  BY <1>1, NoJobAt DEF TypeOK
<1>3. \A h \in Helpers : helper'[h] = NoHelper /\ helper'[h].at = "none"
  BY <1>1, NoHelperAt
<1>4. StagedIsWhole'
  BY <1>2, <1>3 DEF StagedIsWhole
<1>5. ExchangeIsSafe'
  BY <1>1, <1>2, <1>3 DEF ExchangeIsSafe
<1> QED
  BY <1>4, <1>5

(* Likewise a helper. *)
LEMMA TheOnlyHelper ==
  ASSUME OneUpdate, NEW h \in Helpers, helper[h].at # "none"
  PROVE  /\ \A c \in Callers : job[c].at = "none"
         /\ \A g \in Helpers : g # h => helper[g] = NoHelper
BY NoHelperAt, NoJobAt DEF OneUpdate

LEMMA HelperKeeps ==
  ASSUME TypeOK, OneUpdate, NEW h \in Helpers, helper[h].at # "none",
         NEW k, helper' = [helper EXCEPT ![h] = k], job' = job,
         k # NoHelper /\ k.p = "worker" => disk'[Staged("worker", k.v)].whole,
         \/ disk'[Worker].whole
         \/ /\ disk'[SavedWorker].whole
            /\ k.p = "worker"
            /\ \/ k.at = "copy" /\ disk'[Worker] = Absent
               \/ k.at = "copied",
         k.at \in {"copy", "copied"} /\ k.p = "worker" => disk'[SavedWorker].whole,
         k.at = "copied" /\ k.p = "worker"
           => disk'[Worker].whole \/ disk'[Worker].by = h
  PROVE  StagedIsWhole' /\ ExchangeIsSafe'
<1>1. /\ \A c \in Callers : job'[c].at = "none"
      /\ helper'[h] = k
      /\ \A g \in Helpers : g # h => helper'[g] = NoHelper /\ helper'[g].at = "none"
  BY TheOnlyHelper, NoHelperAt DEF TypeOK
<1>2. StagedIsWhole'
  BY <1>1 DEF StagedIsWhole
<1>3. ExchangeIsSafe'
  BY <1>1 DEF ExchangeIsSafe
<1> QED
  BY <1>2, <1>3

-----------------------------------------------------------------------------
(* The steps *)

(* A step that changes neither files nor any update. *)
LEMMA QuietStep ==
  ASSUME StagedIsWhole, ExchangeIsSafe, UNCHANGED <<disk, job, helper>>,
         manager = "down" => manager' = "down"
  PROVE  StagedIsWhole' /\ ExchangeIsSafe'
BY DEF StagedIsWhole, ExchangeIsSafe, NoUpdate

(* The steps of an Apply, by what they make of its job: it ends, *)
LEMMA JobEnds ==
  ASSUME TypeOK, OneUpdate, StagedIsWhole, ExchangeIsSafe,
         NEW c \in Requests, job[c].at # "none", NEW state, Ends(c, state),
         helper' = helper, disk'[Worker].whole
  PROVE  StagedIsWhole' /\ ExchangeIsSafe'
<1>1. job' = [job EXCEPT ![c] = NoJob]
  BY DEF Ends
<1> QED
  BY <1>1, NoJobAt, JobStep

(* or goes on. *)
LEMMA JobGoesOn ==
  ASSUME TypeOK, OneUpdate, StagedIsWhole, ExchangeIsSafe,
         NEW c \in Requests, job[c].at \in Stages, NEW stage, To(c, stage),
         helper' = helper,
         \/ disk'[Worker].whole
         \/ /\ stage = "moving" /\ disk'[Worker] = Absent
            /\ disk'[SavedWorker].whole,
         stage = "load worker" => disk'[Staged("worker", job[c].v)].by = c,
         stage \in {"open manager", "load manager", "ready", "stop", "moving"}
           => disk'[Staged("worker", job[c].v)].whole
  PROVE  StagedIsWhole' /\ ExchangeIsSafe'
<1> DEFINE j == [job[c] EXCEPT !.at = stage]
<1>1. job' = [job EXCEPT ![c] = j] /\ job[c].at # "none"
  BY DEF To, Stages
<1>2. j.at = stage /\ j.v = job[c].v
  BY JobAtStage
<1> HIDE DEF j
<1> QED
  BY <1>1, <1>2, JobStep

(* A download. *)
LEMMA StagingSafe ==
  ASSUME TypeOK, OneUpdate, StagedIsWhole, ExchangeIsSafe,
         NEW c \in Requests, NEW p \in Executables,
         ApplyOpen(c, p) \/ ApplyLoaded(c, p)
  PROVE  StagedIsWhole' /\ ExchangeIsSafe'
<1>1. /\ job[c].at \in {"open worker", "load worker", "open manager", "load manager"}
      /\ job[c].at \in Stages /\ job[c].at # "none" /\ helper' = helper
  BY DEF ApplyOpen, ApplyLoaded, Stages, serviceVars, Executables
<1>2. /\ disk \in [Places -> Files] /\ job[c].v \in Versions /\ c \in Callers
      /\ disk[Worker].whole
  BY <1>1, JobAtStage, TheOnlyJob DEF TypeOK
<1> DEFINE w == Staged("worker", job[c].v)
<1>3. /\ Worker \in Places /\ w \in Places /\ w # Worker
      /\ Staged(p, job[c].v) \in Places /\ Staged(p, job[c].v) # Worker
      /\ p = "manager" => Staged(p, job[c].v) # w
  BY <1>2, WorkerPlaces, Values, PlacesDiffer DEF Executables
<1>4. p = "manager" => disk[w].whole
  BY <1>2 DEF ApplyOpen, ApplyLoaded, StagedIsWhole
<1>5. CASE ApplyOpen(c, p)
  <2>1. disk' = [disk EXCEPT ![Staged(p, job[c].v)] = Part(job[c].v, c)]
    BY <1>5 DEF ApplyOpen
  <2>2. disk'[Worker].whole /\ (p = "manager" => disk'[w].whole)
    BY <1>2, <1>3, <1>4, <2>1
  <2>3. p = "worker" => disk'[w].by = c
    BY <1>2, <1>3, <2>1 DEF Part
  <2>4. CASE p = "worker"
    BY <1>1, <1>5, <2>2, <2>3, <2>4, JobGoesOn DEF ApplyOpen
  <2>5. CASE p = "manager"
    BY <1>1, <1>5, <2>2, <2>5, JobGoesOn DEF ApplyOpen
  <2> QED
    BY <2>4, <2>5 DEF Executables
<1>6. CASE ApplyLoaded(c, p)
  <2>1. {c} \in SUBSET Writers
    BY <1>2 DEF Writers
  <2>2. ASSUME NEW whole \in BOOLEAN, disk' = Written({c}, whole)
        PROVE  disk'[Worker].whole
    BY <1>2, <1>3, <2>1, <2>2, WrittenAt
  <2>3. CASE Ends(c, "error") /\ disk' = Written({c}, FALSE)
    BY <1>1, <2>2, <2>3, JobEnds
  <2>4. CASE /\ disk' = Written({c}, TRUE)
             /\ To(c, IF p = "worker" /\ job[c].v \in WithManager
                      THEN "open manager" ELSE "ready")
    <3>1. CASE p = "worker"
      <4>1. disk[w].by = c
        BY <1>2, <1>6, <3>1 DEF ApplyLoaded, StagedIsWhole
      <4>2. disk'[w].whole = TRUE
        BY <1>2, <1>3, <2>1, <2>4, <4>1, WrittenAt
      <4> QED
        BY <1>1, <2>2, <2>4, <4>2, JobGoesOn
    <3>2. CASE p = "manager"
      <4>1. disk'[w].whole
        BY <1>2, <1>3, <1>4, <2>1, <2>4, <3>2, WrittenAt
      <4> QED
        BY <1>1, <2>2, <2>4, <4>1, JobGoesOn
    <3> QED
      BY <3>1, <3>2 DEF Executables
  <2> QED
    BY <1>6, <2>3, <2>4 DEF ApplyLoaded
<1> QED
  BY <1>5, <1>6

(* An exchange by the manager. *)
LEMMA ExchangeSafe ==
  ASSUME TypeOK, OneUpdate, StagedIsWhole, ExchangeIsSafe, NEW c \in Requests,
         ApplyStopped(c) \/ ApplyMoving(c) \/ ApplyMoved(c)
  PROVE  StagedIsWhole' /\ ExchangeIsSafe'
<1>1. /\ job[c].at \in {"stop", "moving", "moved"}
      /\ job[c].at \in Stages /\ job[c].at # "none" /\ helper' = helper
  BY DEF ApplyStopped, ApplyMoving, ApplyMoved, Stages, serviceVars
<1>2. /\ disk \in [Places -> Files] /\ job[c].v \in Versions /\ c \in Callers
      /\ disk[Worker].whole \/ job[c].at = "moving"
      /\ disk[Worker].whole \/ disk[SavedWorker].whole
  BY <1>1, JobAtStage, TheOnlyJob DEF TypeOK
<1> DEFINE w == Staged("worker", job[c].v)
<1>3. job[c].at \in {"stop", "moving"} => disk[w].whole
  BY <1>2 DEF StagedIsWhole
<1>4. /\ Worker \in Places /\ SavedWorker \in Places /\ w \in Places
      /\ Worker # SavedWorker /\ w # Worker /\ w # SavedWorker
      /\ Worker = Exe("worker") /\ SavedWorker = Backup("worker")
      /\ "worker" \in Executables
  BY <1>2, WorkerPlaces DEF Executables
<1>5. CASE ApplyStopped(c)
  <2>1. job[c].at = "stop" /\ disk[Worker].whole /\ disk[Worker] # Absent
    BY <1>2, <1>4, <1>5, Values DEF ApplyStopped
  <2>2. CASE Ends(c, "error") /\ disk' = disk
    BY <1>1, <2>1, <2>2, JobEnds
  <2>3. CASE disk' = SetAside("worker") /\ To(c, "moving")
    <3>1. /\ disk'[Worker] = Absent /\ disk'[SavedWorker] = disk[Worker]
          /\ disk'[w] = disk[w]
      BY <1>2, <1>4, <2>1, <2>3, SetAsideAt
    <3> QED
      BY <1>1, <1>3, <2>1, <2>3, <3>1, JobGoesOn
  <2> QED
    BY <1>5, <2>1, <2>2, <2>3 DEF ApplyStopped
<1>6. CASE ApplyMoving(c)
  <2>1. disk[w].whole /\ disk[w] # Absent
    BY <1>2, <1>3, <1>4, <1>6, Values DEF ApplyMoving
  <2>2. disk' = Renamed(disk, w, Worker) /\ To(c, "moved")
    BY <1>6, <2>1 DEF ApplyMoving
  <2>3. disk'[Worker].whole
    BY <1>2, <1>4, <2>1, <2>2, RenamedAt
  <2> QED
    BY <1>1, <2>2, <2>3, JobGoesOn
<1>7. CASE ApplyMoved(c)
  <2>1. disk'[Worker].whole /\ \E state : Ends(c, state)
    BY <1>2, <1>4, <1>7, RemovedAt DEF ApplyMoved
  <2> QED
    BY <1>1, <2>1, JobEnds
<1> QED
  BY <1>5, <1>6, <1>7

(* The steps of the updater, if they leave one update at most. *)
LEMMA UpdaterSafe ==
  ASSUME TypeOK, OneUpdate, StagedIsWhole, ExchangeIsSafe, UpdaterNext, OneUpdate'
  PROVE  StagedIsWhole' /\ ExchangeIsSafe'
<1>1. CASE CheckBegin \/ CheckEnd
  BY <1>1, QuietStep DEF CheckBegin, CheckEnd, serviceVars
<1>2. ASSUME NEW c \in Requests, ApplyBegin(c)
      PROVE  StagedIsWhole' /\ ExchangeIsSafe'
  <2>1. /\ c \in Callers /\ manager = "up" /\ job[c] = NoJob
        /\ job' = [job EXCEPT ![c] = Fetching]
        /\ UNCHANGED <<disk, helper, manager>>
    BY <1>2 DEF ApplyBegin, Idle, Requests, serviceVars
  <2>2. job'[c] = Fetching /\ \A d \in Callers : d # c => job'[d] = job[d]
    BY <2>1 DEF TypeOK
  <2>3. Fetching # NoJob
    BY DEF Fetching, NoJob
  <2>4. /\ \A d \in Callers : d # c => job'[d] = NoJob
        /\ \A h \in Helpers : helper'[h] = NoHelper
    BY <2>1, <2>2, <2>3 DEF OneUpdate
  <2>5. /\ \A d \in Callers : job[d].at = "none" /\ job'[d].at \in {"none", "fetch"}
        /\ \A h \in Helpers : helper[h].at = "none" /\ helper'[h] = NoHelper
    BY <2>1, <2>2, <2>4, NoJobAt, NoHelperAt DEF Fetching
  <2>6. StagedIsWhole'
    BY <2>5 DEF StagedIsWhole
  <2>7. disk'[Worker].whole
    BY <2>1, <2>5 DEF ExchangeIsSafe
  <2>8. ExchangeIsSafe'
    BY <2>5, <2>7, NoHelperAt DEF ExchangeIsSafe
  <2> QED
    BY <2>6, <2>8
<1>3. ASSUME NEW c \in Requests, ApplyFetch(c)
      PROVE  StagedIsWhole' /\ ExchangeIsSafe'
  <2>1. job[c].at = "fetch" /\ disk' = disk /\ helper' = helper
    BY <1>3 DEF ApplyFetch, serviceVars
  <2>2. disk'[Worker].whole
    BY <2>1, TheOnlyJob
  <2>3. CASE \E state : Ends(c, state)
    BY <2>1, <2>2, <2>3, JobEnds
  <2>4. CASE job' = [job EXCEPT ![c] = [at |-> "open worker", v |-> released]]
    BY <2>1, <2>2, <2>4, JobStep
  <2> QED
    BY <1>3, <2>3, <2>4 DEF ApplyFetch
<1>4. ASSUME NEW c \in Requests, ApplyWorker(c)
      PROVE  StagedIsWhole' /\ ExchangeIsSafe'
  <2>1. /\ job[c].at = "ready" /\ job[c].at \in Stages
        /\ disk' = disk /\ helper' = helper /\ To(c, "stop")
    BY <1>4 DEF ApplyWorker, Stages, serviceVars
  <2>2. disk'[Worker].whole /\ disk'[Staged("worker", job[c].v)].whole
    BY <2>1, TheOnlyJob DEF StagedIsWhole
  <2> QED
    BY <2>1, <2>2, JobGoesOn
<1>5. ASSUME NEW c \in Requests, ApplyBoth(c)
      PROVE  StagedIsWhole' /\ ExchangeIsSafe'
  <2>1. job[c].at = "ready" /\ disk' = disk
    BY <1>5 DEF ApplyBoth
  <2>2. /\ disk'[Worker].whole /\ disk'[Staged("worker", job[c].v)].whole
        /\ \A h \in Helpers : helper[h] = NoHelper
        /\ \A d \in Callers : d # c => job[d] = NoJob
    BY <2>1, TheOnlyJob DEF StagedIsWhole
  <2>3. CASE Ends(c, "error") /\ helper' = helper
    BY <2>1, <2>2, <2>3, JobEnds
  <2>4. ASSUME NEW h \in Helpers, Ends(c, "applying"),
               helper' = [helper EXCEPT ![h] = [at |-> "stop", p |-> "worker",
                                                v |-> job[c].v,
                                                launcher |-> "up"]]
        PROVE  StagedIsWhole' /\ ExchangeIsSafe'
    <3>1. \A d \in Callers : job'[d].at = "none"
      BY <2>2, <2>4, NoJobAt DEF Ends, TypeOK
    <3>2. \A g \in Helpers :
            helper'[g] # NoHelper => helper'[g].at = "stop" /\ helper'[g].v = job[c].v
      BY <2>2, <2>4 DEF TypeOK
    <3>3. StagedIsWhole' /\ ExchangeIsSafe'
      BY <2>2, <3>1, <3>2, NoHelperAt DEF StagedIsWhole, ExchangeIsSafe
    <3> QED
      BY <3>3
  <2> QED
    BY <1>5, <2>3, <2>4 DEF ApplyBoth
<1> QED
  BY <1>1, <1>2, <1>3, <1>4, <1>5, StagingSafe, ExchangeSafe
     DEF UpdaterNext, Executables

(* What the one helper finds. *)
LEMMA HelperFinds ==
  ASSUME TypeOK, OneUpdate, StagedIsWhole, ExchangeIsSafe,
         NEW h \in Helpers, helper[h].at # "none"
  PROVE  /\ helper[h].p = "worker" => disk[Staged("worker", helper[h].v)].whole
         /\ \/ disk[Worker].whole
            \/ helper[h].p = "worker" /\ helper[h].at \in {"copy", "copied"}
<1>1. /\ \A c \in Callers : job[c].at = "none"
      /\ \A g \in Helpers : g # h => helper[g].at = "none"
  BY TheOnlyHelper, NoHelperAt
<1>2. helper[h] # NoHelper
  BY NoHelperAt
<1> QED
  BY <1>1, <1>2 DEF StagedIsWhole, ExchangeIsSafe, NoUpdate

(* The steps of a helper, by what becomes of it: it goes on, *)
LEMMA HelperGoesOn ==
  ASSUME TypeOK, OneUpdate, NEW h \in Helpers, helper[h].at # "none",
         NEW stage, HelperAt(h, stage), job' = job,
         helper[h].p = "worker" => disk'[Staged("worker", helper[h].v)].whole,
         \/ disk'[Worker].whole
         \/ /\ disk'[SavedWorker].whole
            /\ helper[h].p = "worker"
            /\ \/ stage = "copy" /\ disk'[Worker] = Absent
               \/ stage = "copied" /\ disk'[Worker].by = h,
         stage \in {"copy", "copied"} /\ helper[h].p = "worker"
           => disk'[SavedWorker].whole
  PROVE  StagedIsWhole' /\ ExchangeIsSafe'
<1> DEFINE k == [helper[h] EXCEPT !.at = stage]
<1>1. helper[h] \in HelperRecords
  BY HelperAtWork
<1>2. k.at = stage /\ k.p = helper[h].p /\ k.v = helper[h].v
  BY <1>1 DEF HelperRecords
<1>3. helper' = [helper EXCEPT ![h] = k]
  BY DEF HelperAt
<1> HIDE DEF k
<1> QED
  BY <1>2, <1>3, HelperKeeps

(* or ends. *)
LEMMA HelperGone ==
  ASSUME TypeOK, OneUpdate, NEW h \in Helpers, helper[h].at # "none",
         HelperEnds(h), job' = job, disk'[Worker].whole
  PROVE  StagedIsWhole' /\ ExchangeIsSafe'
<1>1. helper' = [helper EXCEPT ![h] = NoHelper]
  BY DEF HelperEnds
<1> QED
  BY <1>1, NoHelperAt, HelperKeeps

(* The first rename of an executable. *)
LEMMA HelperMovesSafe ==
  ASSUME TypeOK, OneUpdate, StagedIsWhole, ExchangeIsSafe,
         NEW h \in Helpers, HelperMoves(h)
  PROVE  StagedIsWhole' /\ ExchangeIsSafe'
<1> DEFINE p == helper[h].p
           w == Staged("worker", helper[h].v)
<1>1. helper[h].at \in {"move", "again"} /\ helper[h].at # "none" /\ job' = job
  BY DEF HelperMoves, updaterVars
<1>2. /\ disk \in [Places -> Files] /\ p \in Executables /\ helper[h].v \in Versions
      /\ Exe(p) \in Places /\ Backup(p) \in Places
      /\ disk[Worker].whole /\ disk[Worker] # Absent
      /\ p = "worker" => disk[w].whole
  BY <1>1, HelperAtWork, HelperFinds, Values DEF TypeOK
<1>3. /\ Worker \in Places /\ w \in Places /\ SavedWorker \in Places
      /\ Worker = Exe("worker") /\ SavedWorker = Backup("worker")
      /\ Worker # Backup(p) /\ w # Exe("worker") /\ w # Backup("worker")
      /\ p = "manager" => Worker \notin {Exe(p), Backup(p)}
  BY <1>2, WorkerPlaces DEF Executables
<1>4. CASE HelperEnds(h) /\ disk' \in {disk, Removed(disk, Backup(p))}
  <2>1. disk'[Worker].whole
    BY <1>2, <1>3, <1>4, RemovedAt
  <2> QED
    BY <1>1, <1>4, <2>1, HelperGone
<1>5. CASE /\ HelperAt(h, "again") /\ disk[Exe(p)] = Absent
           /\ disk' \in {disk, Removed(disk, Backup(p))}
  <2>1. disk'[Worker].whole /\ p = "manager"
    BY <1>2, <1>3, <1>5, RemovedAt DEF Executables
  <2> QED
    BY <1>1, <1>5, <2>1, HelperGoesOn
<1>6. CASE HelperAt(h, "copy") /\ disk' = SetAside(p) /\ disk[Exe(p)] # Absent
  <2>1. CASE p = "manager"
    <3>1. disk'[Worker].whole
      BY <1>2, <1>3, <1>6, <2>1, SetAsideAt
    <3> QED
      BY <1>1, <1>6, <2>1, <3>1, HelperGoesOn
  <2>2. CASE p = "worker"
    <3>1. /\ disk'[Worker] = Absent /\ disk'[SavedWorker] = disk[Worker]
          /\ disk'[w] = disk[w]
      BY <1>2, <1>3, <1>6, <2>2, SetAsideAt
    <3> QED
      BY <1>1, <1>2, <1>6, <2>2, <3>1, HelperGoesOn
  <2> QED
    BY <1>2, <2>1, <2>2 DEF Executables
<1> QED
  BY <1>4, <1>5, <1>6 DEF HelperMoves

(* The copy begins. *)
LEMMA HelperCopiesSafe ==
  ASSUME TypeOK, OneUpdate, StagedIsWhole, ExchangeIsSafe,
         NEW h \in Helpers, HelperCopies(h)
  PROVE  StagedIsWhole' /\ ExchangeIsSafe'
<1> DEFINE p == helper[h].p
           w == Staged("worker", helper[h].v)
<1>1. helper[h].at = "copy" /\ helper[h].at # "none" /\ job' = job
  BY DEF HelperCopies, updaterVars
<1>2. /\ disk \in [Places -> Files] /\ p \in Executables /\ helper[h].v \in Versions
      /\ Exe(p) \in Places /\ Backup(p) \in Places
      /\ p = "manager" => disk[Worker].whole
      /\ p = "worker" => disk[w].whole /\ disk[SavedWorker].whole
  BY <1>1, HelperAtWork, HelperFinds DEF TypeOK, ExchangeIsSafe
<1>3. /\ Worker \in Places /\ w \in Places /\ SavedWorker \in Places
      /\ Worker = Exe("worker") /\ Exe(p) # Backup(p)
      /\ w # Worker /\ Worker # SavedWorker
      /\ p = "manager" => Worker \notin {Exe(p), Backup(p)}
  BY <1>2, WorkerPlaces, PlacesDiffer DEF Executables
<1>4. CASE p = "manager"
  <2>1. disk'[Worker].whole
    <3>1. \/ disk' = Renamed(disk, Backup(p), Exe(p))
          \/ disk' = [disk EXCEPT ![Exe(p)] = Part(helper[h].v, h)]
      BY DEF HelperCopies
    <3> QED
      BY <1>2, <1>3, <1>4, <3>1, RenamedAt
  <2>2. HelperEnds(h) \/ HelperAt(h, "copied")
    BY DEF HelperCopies
  <2> QED
    BY <1>1, <1>4, <2>1, <2>2, HelperGone, HelperGoesOn
<1>5. CASE p = "worker"
  <2>1. disk[w] # Absent
    BY <1>2, <1>3, <1>5, Values
  <2>2. disk' = [disk EXCEPT ![Worker] = Part(helper[h].v, h)] /\ HelperAt(h, "copied")
    BY <1>3, <1>5, <2>1 DEF HelperCopies
  <2>3. disk'[Worker].by = h /\ disk'[SavedWorker].whole /\ disk'[w].whole
    BY <1>2, <1>3, <1>5, <2>2 DEF Part
  <2> QED
    BY <1>1, <1>5, <2>2, <2>3, HelperGoesOn
<1> QED
  BY <1>2, <1>4, <1>5 DEF Executables

(* The copy ends. *)
LEMMA HelperCopiedSafe ==
  ASSUME TypeOK, OneUpdate, StagedIsWhole, ExchangeIsSafe,
         NEW h \in Helpers, HelperCopied(h)
  PROVE  StagedIsWhole' /\ ExchangeIsSafe'
<1> DEFINE p == helper[h].p
           staged == Staged(p, helper[h].v)
<1>1. helper[h].at = "copied" /\ helper[h].at # "none" /\ job' = job
  BY DEF HelperCopied, updaterVars
<1>2. /\ disk \in [Places -> Files] /\ p \in Executables /\ helper[h].v \in Versions
      /\ Exe(p) \in Places /\ Backup(p) \in Places /\ staged \in Places
      /\ helper[h] \in HelperRecords /\ {h} \in SUBSET Writers
      /\ p = "manager" => disk[Worker].whole
      /\ p = "worker" => /\ disk[staged].whole /\ disk[SavedWorker].whole
                         /\ disk[Worker].whole \/ disk[Worker].by = h
  BY <1>1, HelperAtWork, HelperFinds DEF TypeOK, ExchangeIsSafe, Writers
<1>3. /\ Worker \in Places /\ SavedWorker \in Places
      /\ Worker = Exe("worker") /\ SavedWorker = Backup("worker")
      /\ Exe(p) # Backup(p) /\ staged # Worker /\ Backup(p) # Worker
      /\ p = "manager" => Worker # Exe(p)
  BY <1>2, WorkerPlaces, PlacesDiffer DEF Executables
<1>4. ASSUME NEW whole \in BOOLEAN, disk[staged].whole => whole,
             disk' = Removed(Removed(Written({h}, whole), Backup(p)), staged),
             helper' = [helper EXCEPT
               ![h].at = IF p = "worker" THEN "move" ELSE "start",
               ![h].p = "manager"]
      PROVE  StagedIsWhole' /\ ExchangeIsSafe'
  <2> DEFINE stage == IF p = "worker" THEN "move" ELSE "start"
             k == [[helper[h] EXCEPT !.at = stage] EXCEPT !.p = "manager"]
             files == Written({h}, whole)
  <2>1. helper' = [helper EXCEPT ![h] = k]
    BY <1>4 DEF TypeOK
  <2>2. files \in [Places -> Files]
    BY <1>2, WrittenTypes
  <2>3. files[Worker].whole
    BY <1>2, <1>3, <1>4, WrittenAt DEF Executables
  <2> HIDE DEF files
  <2>4. disk'[Worker].whole
    <3>1. Removed(files, Backup(p)) \in [Places -> Files]
      BY <1>2, <2>2, RemovedTypes
    <3>2. Removed(files, Backup(p))[Worker] = files[Worker]
      BY <1>2, <1>3, <2>2, RemovedAt
    <3>3. disk' = Removed(Removed(files, Backup(p)), staged)
      BY <1>4 DEF files
    <3>4. disk'[Worker] = Removed(files, Backup(p))[Worker]
      BY <1>2, <1>3, <3>1, <3>3, RemovedAt
    <3> QED
      BY <2>3, <3>2, <3>4
  <2>5. k.p = "manager"
    BY <1>2 DEF HelperRecords
  <2>6. k.at \in {"move", "start"}
    BY <1>2 DEF HelperRecords
  <2> HIDE DEF k
  <2> QED
    BY <1>1, <2>1, <2>4, <2>5, <2>6, HelperKeeps
<1>5. ASSUME NEW whole \in BOOLEAN,
             disk' = Renamed(Written({h}, whole), Backup(p), Exe(p)),
             HelperEnds(h)
      PROVE  StagedIsWhole' /\ ExchangeIsSafe'
  <2> DEFINE files == Written({h}, whole)
  <2>1. files \in [Places -> Files]
    BY <1>2, WrittenTypes
  <2>2. /\ disk[Worker].whole => files[Worker] = disk[Worker]
        /\ disk[SavedWorker].whole => files[SavedWorker] = disk[SavedWorker]
    BY <1>2, <1>3, WrittenAt
  <2>3. disk' = Renamed(files, Backup(p), Exe(p))
    BY <1>5
  <2> HIDE DEF files
  <2>4. CASE p = "manager"
    <3>1. disk'[Worker] = files[Worker]
      BY <1>2, <1>3, <2>1, <2>3, <2>4, RenamedAt
    <3>2. disk'[Worker].whole
      BY <1>2, <2>2, <2>4, <3>1
    <3> QED
      BY <1>1, <1>5, <3>2, HelperGone
  <2>5. CASE p = "worker"
    <3>1. files[SavedWorker] = disk[SavedWorker] /\ files[SavedWorker] # Absent
      BY <1>2, <1>3, <2>2, <2>5, Values
    <3>2. disk'[Worker] = files[SavedWorker]
      BY <1>2, <1>3, <2>1, <2>3, <2>5, <3>1, RenamedAt
    <3>3. disk'[Worker].whole
      BY <1>2, <2>5, <3>1, <3>2
    <3> QED
      BY <1>1, <1>5, <3>3, HelperGone
  <2> QED
    BY <1>2, <2>4, <2>5 DEF Executables
<1> QED
  BY <1>4, <1>5 DEF HelperCopied

(* The steps of a helper that is alone. *)
LEMMA HelperSafe ==
  ASSUME TypeOK, OneUpdate, StagedIsWhole, ExchangeIsSafe,
         NEW h \in Helpers, HelperNext(h)
  PROVE  StagedIsWhole' /\ ExchangeIsSafe'
<1>1. CASE HelperStops(h) \/ HelperWaits(h) \/ HelperStarts(h)
  <2>1. /\ helper[h].at \in {"stop", "wait", "start"} /\ helper[h].at # "none"
        /\ disk' = disk /\ job' = job
        /\ HelperAt(h, "wait") \/ HelperAt(h, "move") \/ HelperEnds(h)
    BY <1>1 DEF HelperStops, HelperWaits, HelperStarts, updaterVars
  <2>2. /\ disk'[Worker].whole
        /\ helper[h].p = "worker" => disk'[Staged("worker", helper[h].v)].whole
    BY <2>1, HelperFinds
  <2> QED
    BY <2>1, <2>2, HelperGone, HelperGoesOn
<1> QED
  BY <1>1, HelperMovesSafe, HelperCopiesSafe, HelperCopiedSafe DEF HelperNext

(* What is left when the manager has ended, and helpers with it, but none that    *)
(* was copying the worker.                                                        *)
LEMMA EndSafe ==
  ASSUME TypeOK, OneUpdate, StagedIsWhole, ExchangeIsSafe,
         NEW killed \in SUBSET Helpers, ManagerEnds(killed),
         \A h \in Helpers : helper[h].at = "copied" /\ helper[h].p = "worker"
                              => helper'[h] # NoHelper
  PROVE  StagedIsWhole' /\ ExchangeIsSafe'
<1>1. /\ disk \in [Places -> Files] /\ disk' = Written(Callers \cup killed, FALSE)
      /\ Callers \cup killed \in SUBSET Writers /\ manager' = "down"
      /\ \A c \in Callers : job'[c] = NoJob /\ job'[c].at = "none"
  BY NoJobAt DEF TypeOK, ManagerEnds, Writers
<1>2. \A q \in Places : /\ disk[q].whole => disk'[q] = disk[q]
                        /\ disk[q] = Absent => disk'[q] = Absent
  <2> DEFINE ended == Callers \cup killed
  <2>1. ended \in SUBSET Writers /\ FALSE \in BOOLEAN /\ disk' = Written(ended, FALSE)
    BY <1>1
  <2> HIDE DEF ended
  <2> SUFFICES ASSUME NEW q \in Places
               PROVE  /\ disk[q].whole => disk'[q] = disk[q]
                      /\ disk[q] = Absent => disk'[q] = Absent
    OBVIOUS
  <2>2. ASSUME NEW half \in BOOLEAN
        PROVE  /\ disk[q].whole => Written(ended, half)[q] = disk[q]
               /\ disk[q] = Absent => Written(ended, half)[q] = Absent
    BY <1>1, <2>1, WrittenAt
  <2> QED
    BY <2>1, <2>2
<1>3. \A h \in Helpers : \/ h \in killed /\ helper'[h] = NoHelper
                         \/ /\ h \notin killed /\ helper'[h].at = helper[h].at
                            /\ helper'[h].p = helper[h].p
                            /\ helper'[h].v = helper[h].v
                            /\ helper'[h] = NoHelper <=> helper[h] = NoHelper
  <2> SUFFICES ASSUME NEW h \in Helpers, h \notin killed
               PROVE  /\ helper'[h].at = helper[h].at /\ helper'[h].p = helper[h].p
                      /\ helper'[h].v = helper[h].v
                      /\ helper'[h] = NoHelper <=> helper[h] = NoHelper
    BY DEF ManagerEnds
  <2>1. helper'[h] = [helper[h] EXCEPT !.launcher = "gone"]
    BY DEF ManagerEnds
  <2>2. CASE helper[h] = NoHelper
    BY <2>1, <2>2 DEF NoHelper
  <2>3. CASE helper[h] \in HelperRecords
    <3>1. /\ helper'[h].at = helper[h].at /\ helper'[h].p = helper[h].p
          /\ helper'[h].v = helper[h].v /\ helper[h].at # "none"
      BY <2>1, <2>3 DEF HelperRecords, HelperStages
    <3> QED
      BY <3>1, NoHelperAt
  <2> QED
    BY <2>2, <2>3 DEF TypeOK, HelperRecords
<1>4. /\ Worker \in Places /\ SavedWorker \in Places
      /\ \A h \in Helpers : helper[h] # NoHelper
           => Staged("worker", helper[h].v) \in Places
  BY Values, WorkerPlaces DEF TypeOK, HelperRecords
<1>5. StagedIsWhole'
  <2>1. ASSUME NEW h \in Helpers, helper'[h] # NoHelper, helper'[h].p = "worker"
        PROVE  disk'[Staged("worker", helper'[h].v)].whole
    <3>1. /\ helper[h] # NoHelper /\ helper[h].p = "worker"
          /\ helper'[h].v = helper[h].v
      BY <1>3, <2>1
    <3>2. disk[Staged("worker", helper[h].v)].whole
      BY <3>1 DEF StagedIsWhole
    <3>3. disk'[Staged("worker", helper[h].v)] = disk[Staged("worker", helper[h].v)]
      BY <1>2, <1>4, <3>1, <3>2
    <3> QED
      BY <3>1, <3>2, <3>3
  <2> QED
    BY <1>1, <2>1 DEF StagedIsWhole
<1>6. ASSUME NEW h \in Helpers, helper'[h].at \in {"copy", "copied"},
             helper'[h].p = "worker"
      PROVE  /\ h \notin killed /\ helper[h].at = helper'[h].at
             /\ helper[h].p = "worker" /\ disk'[SavedWorker].whole
  BY <1>2, <1>3, <1>4, <1>6, NoHelperAt DEF ExchangeIsSafe
<1>7. \/ disk'[Worker].whole
      \/ /\ disk'[SavedWorker].whole
         /\ disk'[Worker] = Absent
         /\ \/ manager' = "down" /\ NoUpdate'
            \/ \E h \in Helpers : helper'[h].at = "copy" /\ helper'[h].p = "worker"
      \/ \E h \in Helpers : helper'[h].at = "copied" /\ helper'[h].p = "worker"
  <2>1. CASE disk[Worker].whole
    BY <1>2, <1>4, <2>1
  <2>2. CASE \E h \in Helpers : helper[h].at = "copied" /\ helper[h].p = "worker"
    BY <1>3, <2>2
  <2>3. CASE disk[SavedWorker].whole /\ disk[Worker] = Absent
    <3>1. disk'[SavedWorker].whole /\ disk'[Worker] = Absent
      BY <1>2, <1>4, <2>3
    <3>2. CASE \A h \in Helpers : helper[h] = NoHelper
      BY <1>1, <1>3, <3>1, <3>2 DEF NoUpdate
    <3>3. ASSUME NEW h \in Helpers, helper[h] # NoHelper
          PROVE  NoUpdate' \/ (helper'[h].at = "copy" /\ helper'[h].p = "worker")
                 \/ (helper'[h].at = "copied" /\ helper'[h].p = "worker")
      <4>1. helper[h].at # "none"
        BY <3>3 DEF TypeOK, HelperStages
      <4>2. /\ helper[h].p = "worker" /\ helper[h].at \in {"copy", "copied"}
            /\ \A g \in Helpers : g # h => helper[g] = NoHelper
        BY <2>3, <4>1, HelperFinds, TheOnlyHelper DEF Absent
      <4>3. CASE h \in killed
        BY <1>1, <1>3, <4>2, <4>3 DEF NoUpdate
      <4>4. CASE h \notin killed
        BY <1>3, <4>2, <4>4
      <4> QED
        BY <4>3, <4>4
    <3> QED
      BY <1>1, <3>1, <3>2, <3>3
  <2> QED
    BY <2>1, <2>2, <2>3 DEF ExchangeIsSafe
<1>8. ASSUME NEW h \in Helpers, helper'[h].at = "copied", helper'[h].p = "worker"
      PROVE  disk'[Worker].whole \/ disk'[Worker].by = h
  <2>1. h \notin killed /\ h \notin Callers /\ helper[h].at = "copied"
        /\ helper[h].p = "worker"
    BY <1>6, <1>8, SupervisorAssumption
  <2>2. disk[Worker].whole \/ disk[Worker].by = h
    BY <2>1 DEF ExchangeIsSafe
  <2>3. disk[Worker].by = h => disk'[Worker].by = h
    BY <1>1, <1>4, <2>1 DEF Written
  <2> QED
    BY <1>2, <1>4, <2>2, <2>3
<1> QED
  BY <1>5, <1>6, <1>7, <1>8 DEF ExchangeIsSafe

(* Boots, shutdowns, crashes and releases. *)
LEMMA ManagerSafe ==
  ASSUME TypeOK, OneUpdate, StagedIsWhole, ExchangeIsSafe, ManagerNext, ~ CopyCutOff
  PROVE  StagedIsWhole' /\ ExchangeIsSafe'
<1>1. CASE Boot
  <2>1. /\ disk \in [Places -> Files] /\ Worker \in Places /\ SavedWorker \in Places
        /\ job' = job /\ helper' = helper /\ disk' = Refreshed
        /\ Exe("manager") \in Places /\ Exe("manager") # SavedWorker
        /\ Exe("manager") # Worker /\ Worker # SavedWorker
    BY <1>1, Values, WorkerPlaces DEF TypeOK, Boot, updaterVars, Executables
  <2>2. /\ \A q \in Places \ {Worker, Exe("manager")} : disk'[q] = disk[q]
        /\ disk'[Worker] = disk[Worker] \/ disk'[Worker].whole
        /\ disk[Worker] = Absent => disk'[Worker].whole
    BY <2>1 DEF Refreshed, Whole
  <2>3. disk'[SavedWorker] = disk[SavedWorker]
    BY <2>1, <2>2
  <2>4. ASSUME NEW v \in Versions
        PROVE  disk'[Staged("worker", v)] = disk[Staged("worker", v)]
    BY <2>2, WorkerPlaces
  <2>5. /\ \A c \in Callers : job[c].at \in Stages => job[c].v \in Versions
        /\ \A h \in Helpers : helper[h] # NoHelper => helper[h].v \in Versions
    <3>1. ASSUME NEW c \in Callers, job[c].at \in Stages
          PROVE  job[c].v \in Versions
      <4>1. NoJob.at \notin Stages /\ Fetching.at \notin Stages
        BY DEF NoJob, Fetching, Stages
      <4> QED
        BY <3>1, <4>1 DEF TypeOK, Jobs
    <3>2. ASSUME NEW h \in Helpers, helper[h] # NoHelper
          PROVE  helper[h].v \in Versions
      BY <3>2 DEF TypeOK
    <3> QED
      BY <3>1, <3>2
  <2>6. StagedIsWhole'
    BY <2>1, <2>4, <2>5 DEF StagedIsWhole, Stages
  <2>7. ExchangeIsSafe'
    BY <2>1, <2>2, <2>3 DEF ExchangeIsSafe
  <2> QED
    BY <2>6, <2>7
<1>2. CASE CloseBegin \/ Publish
  BY <1>2, QuietStep DEF CloseBegin, Publish, updaterVars, serviceVars
<1>3. CASE ManagerExits
  <2>1. ManagerEnds({})
    BY <1>3 DEF ManagerExits
  <2>2. \A h \in Helpers : helper[h].at = "copied" => helper'[h] # NoHelper
    BY <2>1 DEF ManagerEnds, NoHelper
  <2> QED
    BY <2>1, <2>2, EndSafe
<1>4. CASE ManagerCrashes
  BY <1>4, EndSafe DEF ManagerCrashes, CopyCutOff
<1> QED
  BY <1>1, <1>2, <1>3, <1>4 DEF ManagerNext

(* The steps of the supervisor are none of an update. *)
LEMMA SupervisorSafe ==
  ASSUME UpdateInv, TypeOK', Alone(SupervisorNext)
  PROVE  UpdateInv'
<1>1. disk' = disk
  BY DEF SupervisorNext, Alone, WorkerExits, ForgetWorker, RestartWorker, Start,
         StopReturns, RestartReturns
<1>2. UNCHANGED <<job, helper, manager, disturbed>>
  BY DEF Alone, updaterVars, serviceVars
<1> QED
  BY <1>1, <1>2, QuietStep DEF UpdateInv, OneUpdate

(* A step of the rest, once it is known what it does while nothing disturbs. *)
LEMMA NotedSafe ==
  ASSUME UpdateInv, TypeOK', NEW ACTION A, Noted(A),
         A /\ OneUpdate' /\ ~ CopyCutOff /\ ~ disturbed
           => StagedIsWhole' /\ ExchangeIsSafe'
  PROVE  UpdateInv'
<1> SUFFICES ASSUME ~ disturbed'
             PROVE  OneUpdate' /\ StagedIsWhole' /\ ExchangeIsSafe'
  BY DEF UpdateInv
<1>1. CASE NoUpdate' /\ disk'[Worker].whole
  <2>1. /\ \A c \in Callers : job'[c] = NoJob /\ job'[c].at = "none"
        /\ \A h \in Helpers : helper'[h] = NoHelper /\ helper'[h].at = "none"
    BY <1>1, NoJobAt, NoHelperAt DEF NoUpdate
  <2> QED
    BY <1>1, <2>1 DEF OneUpdate, StagedIsWhole, ExchangeIsSafe
<1>2. CASE ~ (NoUpdate' /\ disk'[Worker].whole)
  BY <1>2 DEF Noted
<1> QED
  BY <1>1, <1>2

-----------------------------------------------------------------------------
(* Whatever fails, crashes and restarts in any number of updates, there is a     *)
(* complete executable of the agent, in its place or saved, unless two updates   *)
(* have overlapped, or a helper has died while it copied, and no update since    *)
(* has repaired that.                                                            *)
THEOREM WholeCopyAlways == Spec => []WholeCopyKept
<1>1. Init => UpdateInv
  <2> SUFFICES ASSUME Init, TypeOK
               PROVE  UpdateInv
    BY AgentTypeInit
  <2>1. disk[Worker].whole
    BY Values DEF Init, Whole
  <2>2. /\ \A c \in Callers : job[c] = NoJob /\ job[c].at = "none"
        /\ \A h \in Helpers : helper[h] = NoHelper /\ helper[h].at = "none"
    BY NoJobAt, NoHelperAt DEF Init
  <2> QED
    BY <2>1, <2>2 DEF UpdateInv, OneUpdate, StagedIsWhole, ExchangeIsSafe
<1>2. UpdateInv /\ [Next]_vars => UpdateInv'
  <2> SUFFICES ASSUME UpdateInv, [Next]_vars
               PROVE  UpdateInv'
    OBVIOUS
  <2>1. TypeOK'
    BY AgentTypeStep DEF UpdateInv
  <2>2. CASE UNCHANGED vars
    BY <2>1, <2>2, QuietStep DEF vars, updaterVars, serviceVars, UpdateInv, OneUpdate
  <2>3. CASE Noted(UpdaterNext)
    BY <2>1, <2>3, UpdaterSafe, NotedSafe DEF UpdateInv
  <2>4. ASSUME NEW h \in Helpers, Noted(HelperNext(h))
        PROVE  UpdateInv'
    BY <2>1, <2>4, HelperSafe, NotedSafe DEF UpdateInv
  <2>5. CASE Noted(ManagerNext)
    BY <2>1, <2>5, ManagerSafe, NotedSafe DEF UpdateInv
  <2> QED
    BY <2>1, <2>2, <2>3, <2>4, <2>5, SupervisorSafe DEF Next
<1>3. UpdateInv => WholeCopyKept
  BY DEF UpdateInv, ExchangeIsSafe, WholeCopyKept, SavedWorker
<1> QED
  BY <1>1, <1>2, <1>3, PTL DEF Spec
=============================================================================
