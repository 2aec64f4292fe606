--------------------------- MODULE AgentLifecycle ---------------------------
(***************************************************************************)
(* The manager of the Store Edge agent as an installed systemd service:    *)
(* the Updater of internal/storeedgemanager/update.go, the helper of       *)
(* cmd/store-edge-updater that exchanges both executables, and the         *)
(* manager process itself (cmd/store-edge-manager, and the launcher and    *)
(* unit of edge/linux/package), around the Supervisor.                     *)
(***************************************************************************)
EXTENDS Supervisor

CONSTANTS
  Main,          \* the manager's main goroutine, which closes it
  WithManager,   \* the versions released with a new manager
  MaxChecks      \* bound: Checks under way at once

Requests == Callers \ {Main}
Packaged == 1

ASSUME AgentAssumption ==
  /\ Main \in Callers
  /\ WithManager \subseteq Versions
  /\ MaxChecks \in Nat

VARIABLES
  updateState,       \* Updater.state
  job,               \* the Apply calls under way
  checks,            \* how many Checks wait for the manifest
  helper,            \* the updater helpers, processes of their own
  manager,           \* the manager's process
  managerVersion,
  serviceStopped,    \* systemctl stop has been called, and start has not
  released,          \* the latest version with a manifest
  disturbed          \* ghost: two updates were under way at once, or a helper
                     \* died while it copied the worker, and since then the
                     \* updates have not ended with a complete worker

updaterVars == <<updateState, job, checks>>
serviceVars == <<helper, manager, managerVersion, serviceStopped, released>>
vars == <<supervisorVars, disk, faults, updaterVars, serviceVars, disturbed>>

UpdateStates == {"idle", "checking", "downloading", "applying", "error"}
Stages == {"open worker", "load worker", "open manager", "load manager",
           "ready", "stop", "moving", "moved"}
Fetching == [at |-> "fetch", v |-> 0]
Jobs == {Fetching} \cup [at : Stages, v : Versions]
NoJob == [at |-> "none", v |-> 0]

\* launcher: the manager that launched the helper, whose process it waits for.
HelperStages == {"stop", "wait", "move", "again", "copy", "copied", "start"}
NoHelper == [at |-> "none", p |-> "worker", v |-> 0, launcher |-> "gone"]

\* os.Remove and os.Rename; a rename fails when there is nothing to rename, and
\* not otherwise.  Those of S are through with what they wrote.
Removed(files, place) == [files EXCEPT ![place] = Absent]
Renamed(files, from, to) ==
  IF files[from] = Absent THEN files
  ELSE [files EXCEPT ![to] = files[from], ![from] = Absent]
Written(S, whole) ==
  [q \in Places |-> IF disk[q].by \in S
                   THEN [v |-> disk[q].v, whole |-> whole, by |-> Nobody]
                   ELSE disk[q]]

Init ==
  /\ SupervisorInit
  /\ disk = [q \in Places |->
               IF q \in {Worker, Exe("manager")} THEN Whole(Packaged) ELSE Absent]
  /\ faults = 0
  /\ updateState = "idle"
  /\ job = [c \in Callers |-> NoJob]
  /\ checks = 0
  /\ helper = [h \in Helpers |-> NoHelper]
  /\ manager = "down"
  /\ managerVersion = Packaged
  /\ serviceStopped = FALSE
  /\ released = Packaged
  /\ disturbed = FALSE

Idle(c) ==
  /\ manager = "up"
  /\ call[c] = NoCall
  /\ job[c] = NoJob

-----------------------------------------------------------------------------
(* Updater *)

\* What Check and Apply take for the current version: the worker's, or the
\* manager's if no worker answers.
Current == {managerVersion} \cup {running[w] : w \in Live}

\* Whatever is under way, a Check takes its state from it.
CheckBegin ==
  /\ manager = "up"
  /\ checks < MaxChecks
  /\ checks' = checks + 1
  /\ updateState' = "checking"
  /\ UNCHANGED <<supervisorVars, disk, faults, job, serviceVars>>

CheckEnd ==
  /\ checks > 0
  /\ checks' = checks - 1
  /\ \/ updateState' = "idle" /\ UNCHANGED faults
     \/ updateState' = "error" /\ Fault
  /\ UNCHANGED <<supervisorVars, disk, job, serviceVars>>

ApplyBegin(c) ==
  /\ Idle(c)
  /\ updateState \notin {"downloading", "applying"}
  /\ updateState' = "downloading"
  /\ job' = [job EXCEPT ![c] = Fetching]
  /\ UNCHANGED <<supervisorVars, disk, faults, checks, serviceVars>>

To(c, stage) == job' = [job EXCEPT ![c].at = stage]
Ends(c, state) == job' = [job EXCEPT ![c] = NoJob] /\ updateState' = state

ApplyFetch(c) ==
  /\ job[c].at = "fetch"
  /\ \/ Fault /\ Ends(c, "error")
     \/ /\ \E current \in Current :
             IF released > current
             THEN /\ job' = [job EXCEPT ![c] =
                               [at |-> "open worker", v |-> released]]
                  /\ UNCHANGED updateState
             ELSE Ends(c, "idle")
        /\ UNCHANGED faults
  /\ UNCHANGED <<supervisorVars, disk, checks, serviceVars>>

\* downloadAndVerify truncates the staged file of the version and writes to it;
\* what it checks is what it received.  Where two write one file, what the earlier
\* one writes does not complete it.
ApplyOpen(c, p) ==
  /\ job[c].at = IF p = "worker" THEN "open worker" ELSE "open manager"
  /\ disk' = [disk EXCEPT ![Staged(p, job[c].v)] = Part(job[c].v, c)]
  /\ To(c, IF p = "worker" THEN "load worker" ELSE "load manager")
  /\ UNCHANGED <<supervisorVars, faults, updateState, checks, serviceVars>>

\* Mistake: what was loaded is not compared with its length and checksum.
ApplyLoadedUnverified(c, p) ==
  /\ job[c].at = IF p = "worker" THEN "load worker" ELSE "load manager"
  /\ \/ Fault /\ disk' = Written({c}, FALSE)
     \/ disk' = Written({c}, TRUE) /\ UNCHANGED faults
  /\ To(c, IF p = "worker" /\ job[c].v \in WithManager
           THEN "open manager" ELSE "ready")
  /\ UNCHANGED <<supervisorVars, updateState, checks, serviceVars>>

ApplyLoaded(c, p) ==
  /\ job[c].at = IF p = "worker" THEN "load worker" ELSE "load manager"
  /\ \/ Fault /\ Ends(c, "error") /\ disk' = Written({c}, FALSE)
     \/ /\ disk' = Written({c}, TRUE)
        /\ To(c, IF p = "worker" /\ job[c].v \in WithManager
                 THEN "open manager" ELSE "ready")
        /\ UNCHANGED <<updateState, faults>>
  /\ UNCHANGED <<supervisorVars, checks, serviceVars>>

\* A new worker alone: Apply exchanges it itself, once the old one is stopped.
ApplyWorker(c) ==
  /\ job[c].at = "ready"
  /\ job[c].v \notin WithManager
  /\ updateState' = "applying"
  /\ To(c, "stop")
  /\ StopBegin(c, "apply")
  /\ UNCHANGED <<disk, faults, checks, serviceVars>>

\* With a new manager: a helper is launched, and Apply has answered.
ApplyBoth(c) ==
  /\ job[c].at = "ready"
  /\ job[c].v \in WithManager
  /\ \/ Fault /\ Ends(c, "error") /\ UNCHANGED helper
     \/ /\ \E h \in Helpers :
             /\ helper[h] = NoHelper
             /\ helper' = [helper EXCEPT ![h] = [at |-> "stop", p |-> "worker",
                                                v |-> job[c].v,
                                                launcher |-> "up"]]
        /\ Ends(c, "applying")
        /\ UNCHANGED faults
  /\ UNCHANGED <<supervisorVars, disk, checks, manager, managerVersion,
                 serviceStopped, released>>

\* What replaceExecutable and the helper's replace begin with: the last backup is
\* removed and the executable renamed, if it is there.
SetAside(p) == Renamed(Removed(disk, Backup(p)), Exe(p), Backup(p))

\* replaceExecutable up to its first rename.  When Stop has failed the worker
\* stays down; when the rename fails it is started again.
ApplyStopped(c) ==
  /\ job[c].at = "stop"
  /\ call' = [call EXCEPT ![c] = NoCall]
  /\ \/ /\ Fault /\ Ends(c, "error")
        /\ UNCHANGED <<cmd, desired, closed, life, running, told, failed, disk>>
     \/ /\ disk' = SetAside("worker")
        /\ IF disk[Worker] = Absent
           THEN StartWith(life) /\ Ends(c, "error")
           ELSE /\ To(c, "moving")
                /\ UNCHANGED <<cmd, desired, closed, life, running, told, failed,
                               updateState, faults>>
  /\ UNCHANGED <<checks, serviceVars>>

\* The second rename, or the first one undone.
ApplyMoving(c) ==
  /\ job[c].at = "moving"
  /\ IF disk[Staged("worker", job[c].v)] = Absent
     THEN /\ disk' = Renamed(disk, Backup("worker"), Worker)
          /\ StartWith(life)
          /\ Ends(c, "error")
          /\ UNCHANGED call
     ELSE /\ disk' = Renamed(disk, Staged("worker", job[c].v), Worker)
          /\ To(c, "moved")
          /\ UNCHANGED <<supervisorVars, updateState, faults>>
  /\ UNCHANGED <<checks, serviceVars>>

ApplyMoved(c) ==
  /\ job[c].at = "moved"
  /\ disk' = Removed(disk, Backup("worker"))
  /\ StartWith(life)
  /\ Ends(c, IF closed \/ failed' THEN "error" ELSE "idle")
  /\ UNCHANGED <<call, checks, serviceVars>>

-----------------------------------------------------------------------------
(* The helper: it stops the service, exchanges the worker, then the manager, *)
(* and starts the service.  Any error ends it, with the service as it is.     *)

HelperAt(h, stage) == helper' = [helper EXCEPT ![h].at = stage]
HelperEnds(h) == helper' = [helper EXCEPT ![h] = NoHelper]

\* systemctl stop, whichever manager runs by now; its failure is ignored.
HelperStops(h) ==
  /\ helper[h].at = "stop"
  /\ HelperAt(h, "wait")
  /\ \/ /\ serviceStopped' = TRUE
        /\ manager' = IF manager = "up" THEN "stopping" ELSE manager
        /\ UNCHANGED faults
     \/ Fault /\ UNCHANGED <<manager, serviceStopped>>
  /\ UNCHANGED <<supervisorVars, disk, updaterVars, managerVersion, released>>

\* waitForPIDExit.
HelperWaits(h) ==
  /\ helper[h].at = "wait"
  /\ \/ helper[h].launcher = "gone" /\ HelperAt(h, "move") /\ UNCHANGED faults
     \/ HelperEnds(h) /\ Fault
  /\ UNCHANGED <<supervisorVars, disk, updaterVars, manager, managerVersion,
                 serviceStopped, released>>

\* replace, as far as the executable is renamed, which it tries for twenty seconds.
HelperMoves(h) ==
  LET p == helper[h].p IN
  /\ helper[h].at \in {"move", "again"}
  /\ \/ /\ helper[h].at = "move" /\ disk[Staged(p, helper[h].v)] = Absent
        /\ HelperEnds(h)
        /\ UNCHANGED disk
     \/ /\ helper[h].at = "move" => disk[Staged(p, helper[h].v)] # Absent
        /\ IF disk[Exe(p)] # Absent
           THEN disk' = SetAside(p) /\ HelperAt(h, "copy")
           ELSE /\ disk' = IF helper[h].at = "move"
                           THEN Removed(disk, Backup(p)) ELSE disk
                /\ HelperAt(h, "again") \/ HelperEnds(h)
  /\ UNCHANGED <<supervisorVars, faults, updaterVars, manager, managerVersion,
                 serviceStopped, released>>

\* copyFile opens both files.  What fails from here on is undone.
HelperCopies(h) ==
  LET p == helper[h].p IN
  /\ helper[h].at = "copy"
  /\ IF disk[Staged(p, helper[h].v)] = Absent
     THEN disk' = Renamed(disk, Backup(p), Exe(p)) /\ HelperEnds(h)
     ELSE /\ disk' = [disk EXCEPT ![Exe(p)] = Part(helper[h].v, h)]
          /\ HelperAt(h, "copied")
  /\ UNCHANGED <<supervisorVars, faults, updaterVars, manager, managerVersion,
                 serviceStopped, released>>

\* The copy ended, complete if the staged file is, or it failed.
HelperCopied(h) ==
  LET p == helper[h].p
      staged == Staged(p, helper[h].v)
  IN
  /\ helper[h].at = "copied"
  /\ \/ /\ \E whole \in BOOLEAN :
             /\ disk[staged].whole => whole
             /\ disk' = Removed(Removed(Written({h}, whole), Backup(p)), staged)
        /\ helper' = [helper EXCEPT
             ![h].at = IF p = "worker" THEN "move" ELSE "start",
             ![h].p = "manager"]
        /\ UNCHANGED faults
     \/ /\ Fault
        /\ disk' = Renamed(Written({h}, FALSE), Backup(p), Exe(p))
        /\ HelperEnds(h)
  /\ UNCHANGED <<supervisorVars, updaterVars, manager, managerVersion,
                 serviceStopped, released>>

HelperStarts(h) ==
  /\ helper[h].at = "start"
  /\ HelperEnds(h)
  /\ serviceStopped' = FALSE
  /\ UNCHANGED <<supervisorVars, disk, faults, updaterVars, manager,
                 managerVersion, released>>

-----------------------------------------------------------------------------
(* The manager *)

\* What its memory holds before anything has started; systemd ends every other
\* process of the service with it.  The helpers it launched, and perhaps those of
\* killed, are left; what was being written stays as far as it is.
ManagerEnds(killed) ==
  /\ manager' = "down"
  /\ cmd' = NoWorker
  /\ desired' = FALSE
  /\ closed' = FALSE
  /\ life' = [w \in Workers |-> "over"]
  /\ running' = [w \in Workers |-> 0]
  /\ told' = {}
  /\ call' = [c \in Callers |-> NoCall]
  /\ failed' = FALSE
  /\ updateState' = "idle"
  /\ job' = [c \in Callers |-> NoJob]
  /\ checks' = 0
  /\ helper' = [h \in Helpers |-> IF h \in killed THEN NoHelper
                                  ELSE [helper[h] EXCEPT !.launcher = "gone"]]
  /\ disk' = Written(Callers \cup killed, FALSE)
  /\ UNCHANGED <<managerVersion, serviceStopped, released>>

\* The launcher takes the packaged executables again when the worker is missing
\* or the manager does not tell its version.
Refreshed ==
  IF disk[Worker] = Absent \/ ~ disk[Exe("manager")].whole
  THEN [disk EXCEPT ![Worker] = Whole(Packaged),
                    ![Exe("manager")] = Whole(Packaged)]
  ELSE disk

\* By systemd four seconds after an exit, by a helper, or by the operator or a
\* reboot.  main starts the worker and ignores an error of it; the launcher has
\* seen to it that there is a file to start.  A helper is done by then, or looks
\* for a file to rename; a start that comes before counts with the faults.
Boot ==
  /\ manager = "down"
  /\ disk' = Refreshed
  /\ manager' = "up"
  /\ managerVersion' = disk'[Exe("manager")].v
  /\ serviceStopped' = FALSE
  /\ desired' = TRUE
  /\ \E w \in Workers :
       \/ /\ cmd' = w
          /\ life' = [life EXCEPT ![w] = "running"]
          /\ running' = [running EXCEPT ![w] = disk'[Worker].v]
          /\ failed' = FALSE
       \/ /\ failed' = TRUE
          /\ UNCHANGED <<cmd, life, running>>
  /\ IF \/ failed' /\ disk'[Worker].whole
        \/ \E h \in Helpers : helper[h].at \notin {"none", "again"}
     THEN Fault ELSE UNCHANGED faults
  /\ UNCHANGED <<closed, told, call, updaterVars, helper, released>>

\* The signal ends main's wait; its deferred Close stops the worker.
CloseBegin ==
  /\ manager = "stopping"
  /\ StopBegin(Main, "close")
  /\ UNCHANGED <<disk, faults, updaterVars, serviceVars>>

ManagerExits ==
  /\ call[Main] = "close"
  /\ ManagerEnds({})
  /\ UNCHANGED faults

\* The manager crashes, or the machine does, and with it the helpers.  A helper
\* that dies while it copies leaves a worker that is not complete, which the
\* launcher takes for one.
ManagerCrashes ==
  /\ manager # "down" \/ \E h \in Helpers : helper[h] # NoHelper
  /\ Fault
  /\ \E killed \in SUBSET Helpers : ManagerEnds(killed)

Publish ==
  /\ released < MaxVersion
  /\ released' = released + 1
  /\ UNCHANGED <<supervisorVars, disk, faults, updaterVars, helper, manager,
                 managerVersion, serviceStopped>>

-----------------------------------------------------------------------------
SupervisorNext ==
  \/ \E w \in Workers : \/ WorkerExits(w)
                        \/ ForgetWorker(w)
                        \/ RestartWorker(w)
  \/ manager = "up" /\ Start
  \/ \E c \in Requests : \/ StopReturns(c)
                         \/ RestartReturns(c)
                         \/ \E op \in {"stop", "restart"} :
                              /\ Idle(c)
                              /\ StopBegin(c, op)
                              /\ UNCHANGED <<disk, faults>>

UpdaterNext ==
  \/ CheckBegin
  \/ CheckEnd
  \/ \E c \in Requests : \/ ApplyBegin(c)
                         \/ ApplyFetch(c)
                         \/ \E p \in {"worker", "manager"} :
                              ApplyOpen(c, p) \/ ApplyLoaded(c, p)
                         \/ ApplyWorker(c)
                         \/ ApplyBoth(c)
                         \/ ApplyStopped(c)
                         \/ ApplyMoving(c)
                         \/ ApplyMoved(c)

HelperNext(h) ==
  \/ HelperStops(h)
  \/ HelperWaits(h)
  \/ HelperMoves(h)
  \/ HelperCopies(h)
  \/ HelperCopied(h)
  \/ HelperStarts(h)

ManagerNext ==
  Boot \/ CloseBegin \/ ManagerExits \/ ManagerCrashes \/ Publish

NoUpdate ==
  /\ \A c \in Callers : job[c] = NoJob
  /\ \A h \in Helpers : helper[h] = NoHelper

\* An Apply is refused while an update is in progress, one that a helper has taken
\* over included: Apply says so.
OneUpdate ==
  /\ \A c, d \in Callers : job[c] # NoJob /\ job[d] # NoJob => c = d
  /\ \A g, h \in Helpers : helper[g] # NoHelper /\ helper[h] # NoHelper => g = h
  /\ \A c \in Callers, h \in Helpers : job[c] = NoJob \/ helper[h] = NoHelper

CopyCutOff ==
  /\ ManagerCrashes
  /\ \E h \in Helpers : /\ helper[h].at = "copied" /\ helper[h].p = "worker"
                        /\ helper'[h] = NoHelper

\* A step of the supervisor alone, and one of the rest.
Alone(A) == A /\ UNCHANGED <<updaterVars, serviceVars, disturbed>>
Noted(A) ==
  /\ A
  /\ disturbed' = IF NoUpdate' /\ disk'[Worker].whole THEN FALSE
                  ELSE disturbed \/ CopyCutOff \/ ~ OneUpdate'

Next ==
  \/ Alone(SupervisorNext)
  \/ Noted(UpdaterNext)
  \/ \E h \in Helpers : Noted(HelperNext(h))
  \/ Noted(ManagerNext)

Spec == Init /\ [][Next]_vars

-----------------------------------------------------------------------------
(* What the scheduler owes: the goroutine of a worker that has exited goes on. *)

Fairness ==
  WF_vars(Alone(\E w \in Workers : ForgetWorker(w) \/ RestartWorker(w)))

FairSpec == Spec /\ Fairness

-----------------------------------------------------------------------------
\* The values of the variables: what stage a request, a helper or a file can be in.
TypeOK ==
  /\ cmd \in Workers \cup {NoWorker}
  /\ desired \in BOOLEAN /\ closed \in BOOLEAN /\ failed \in BOOLEAN
  /\ life \in [Workers -> Lives]
  /\ running \in [Workers -> Versions \cup {0}]
  /\ told \subseteq Workers
  /\ call \in [Callers -> Ops]
  /\ disk \in [Places -> Files]
  /\ faults \in 0 .. MaxFaults
  /\ updateState \in UpdateStates
  /\ job \in [Callers -> {NoJob} \cup Jobs]
  /\ checks \in 0 .. MaxChecks
  /\ helper \in [Helpers ->
       {NoHelper} \cup [at : HelperStages, p : Executables, v : Versions,
                       launcher : {"up", "gone"}]]
  /\ manager \in {"up", "stopping", "down"}
  /\ managerVersion \in Versions /\ released \in Versions
  /\ serviceStopped \in BOOLEAN /\ disturbed \in BOOLEAN

\* There is never a second agent on the same data directory: whatever stops,
\* starts, crashes and updates overlap, at most one worker process is alive, and
\* it is the one that Stop would reach.
OneWorker == \A w \in Live : w = cmd

\* Once the manager is shutting down no goroutine starts a worker behind its
\* back: every one still alive has been told to exit.
ClosedStopsAll == closed /\ call[Main] = "close" => Live \subseteq told

\* No step of an update, and no failure or crash between two of them, leaves the
\* store without a complete executable of the agent, in its place or saved beside
\* it, while Apply keeps its word that there is one update at a time; a helper
\* that is cut off while it copies apart.  Updates that end with a complete worker
\* repair either.
WholeCopyKept ==
  disturbed \/ \E q \in {Worker, Backup("worker")} : disk[q].whole

\* A manager that wants a worker gets one, however its last one ended, unless
\* the attempt to start it fails: Start is not tried again then.
WorkerComesBack ==
  (desired /\ Live = {}) ~> (Live # {} \/ ~ desired \/ failed)
=============================================================================
