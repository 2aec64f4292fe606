----------------------------- MODULE Supervisor -----------------------------
(***************************************************************************)
(* The supervisor of the Store Edge agent (internal/storeedgemanager/      *)
(* supervisor.go): it runs the agent as a worker process, stops it on      *)
(* request and starts it again when it exits by itself.                    *)
(*                                                                         *)
(* Each worker has a goroutine that waits for it; each request to stop is  *)
(* a goroutine of its own.  What they do under the mutex is one action;    *)
(* between those actions everything else may happen.                       *)
(***************************************************************************)
EXTENDS Integers, FiniteSets

CONSTANTS
  Workers,      \* bound: worker processes with a goroutine at one time
  NoWorker,
  Callers,      \* bound: requests under way at once
  Helpers,      \* bound: updater helpers at once
  Nobody,
  MaxVersion,   \* bound: versions released
  MaxFaults     \* bound: crashes, failed calls and failed file operations

Versions == 1 .. MaxVersion

ASSUME SupervisorAssumption ==
  /\ NoWorker \notin Workers
  /\ Nobody \notin Callers \cup Helpers
  /\ Callers \cap Helpers = {}
  /\ MaxVersion \in Nat \ {0}
  /\ MaxFaults \in Nat

VARIABLES
  cmd,         \* Supervisor.cmd
  desired, closed,
  life,        \* what each worker and its goroutine are doing
  running,     \* the version each worker alive was started from
  told,        \* workers told to exit, or killed, until they are forgotten
  call,        \* Supervisor.Stop calls under way, and what they are part of
  failed,      \* the last attempt to start a worker failed
  disk,        \* the executables
  faults

supervisorVars == <<cmd, desired, closed, life, running, told, call, failed>>

\* "running" until Wait returns, "reaped" until the goroutine has the mutex,
\* "sleeping" for two seconds before it calls Start.
Lives == {"over", "running", "reaped", "sleeping"}

NoCall == "none"
Ops == {NoCall, "stop", "restart", "apply", "close"}

\* A file: absent, or some version, as a whole or in part.  by is who opened it
\* last, if that one still writes it; it does wherever the file is renamed to.
Absent == [v |-> 0, whole |-> FALSE, by |-> Nobody]
Whole(v) == [v |-> v, whole |-> TRUE, by |-> Nobody]
Part(v, x) == [v |-> v, whole |-> FALSE, by |-> x]
Files == {Absent} \cup {Whole(v) : v \in Versions}
  \cup [v : Versions, whole : {FALSE}, by : Callers \cup Helpers \cup {Nobody}]

\* Where the executables are: in place, saved, or staged for a version.
Executables == {"worker", "manager"}
Exe(p) == <<p, 0>>
Backup(p) == <<p, -1>>
Staged(p, v) == <<p, v>>
Places == Executables \X (-1 .. MaxVersion)
Worker == Exe("worker")

Fault ==
  /\ faults < MaxFaults
  /\ faults' = faults + 1

Live == {w \in Workers : life[w] = "running"}

\* s.cmd is set and Wait has not returned.
CmdAlive == cmd # NoWorker /\ life[cmd] = "running"

SupervisorInit ==
  /\ cmd = NoWorker
  /\ desired = FALSE
  /\ closed = FALSE
  /\ life = [w \in Workers |-> "over"]
  /\ running = [w \in Workers |-> 0]
  /\ told = {}
  /\ call = [c \in Callers |-> NoCall]
  /\ failed = FALSE

-----------------------------------------------------------------------------
(* Starting.  lives is life, or life after the step that Start is part of. *)

\* The process was started from the file of the worker, or it could not be; a file
\* that is not complete may start or not.
StartLocked(lives) ==
  \/ /\ disk[Worker] # Absent
     /\ \E w \in Workers :
          /\ lives[w] = "over"
          /\ cmd' = w
          /\ life' = [lives EXCEPT ![w] = "running"]
          /\ running' = [running EXCEPT ![w] = disk[Worker].v]
     /\ failed' = FALSE
     /\ UNCHANGED <<told, faults>>
  \/ /\ IF disk[Worker].whole THEN Fault ELSE UNCHANGED faults
     /\ life' = lives
     /\ failed' = TRUE
     /\ UNCHANGED <<cmd, running, told>>

\* Mistake (see README, Mistakes): a shutdown is not looked for.
StartWhenClosed(lives) ==
  /\ UNCHANGED closed
  /\ desired' = TRUE
  /\ IF CmdAlive
     THEN /\ life' = lives
          /\ UNCHANGED <<cmd, running, told, failed, faults>>
     ELSE StartLocked(lives)

StartWith(lives) ==
  /\ UNCHANGED closed
  /\ IF closed
     THEN /\ life' = lives
          /\ UNCHANGED <<cmd, desired, running, told, failed, faults>>
     ELSE /\ desired' = TRUE
          /\ IF CmdAlive
             THEN /\ life' = lives
                  /\ UNCHANGED <<cmd, running, told, failed, faults>>
             ELSE StartLocked(lives)

-----------------------------------------------------------------------------
(* A worker and its goroutine *)

\* The worker exits, by itself or because it was told to, and Wait returns.
WorkerExits(w) ==
  /\ life[w] = "running"
  /\ IF w \in told THEN UNCHANGED faults ELSE Fault
  /\ life' = [life EXCEPT ![w] = "reaped"]
  /\ running' = [running EXCEPT ![w] = 0]
  /\ UNCHANGED <<cmd, desired, closed, told, call, failed, disk>>

\* Mistake: the goroutine does not ask whether the worker is still s.cmd.
ForgetWorkerOfAnyone(w) ==
  /\ life[w] = "reaped"
  /\ cmd' = NoWorker
  /\ life' = [life EXCEPT ![w] =
                IF desired /\ ~ closed THEN "sleeping" ELSE "over"]
  /\ told' = told \ {w}
  /\ UNCHANGED <<desired, closed, running, call, failed, disk, faults>>

\* Mistake: a worker that was told to exit is not started again, although a
\* request to start came after the one to stop.
ForgetWorkerTold(w) ==
  /\ life[w] = "reaped"
  /\ cmd' = IF cmd = w THEN NoWorker ELSE cmd
  /\ life' = [life EXCEPT ![w] =
                IF cmd = w /\ desired /\ ~ closed /\ w \notin told
                THEN "sleeping" ELSE "over"]
  /\ told' = told \ {w}
  /\ UNCHANGED <<desired, closed, running, call, failed, disk, faults>>

\* The goroutine's part under the mutex.
ForgetWorker(w) ==
  /\ life[w] = "reaped"
  /\ cmd' = IF cmd = w THEN NoWorker ELSE cmd
  /\ life' = [life EXCEPT ![w] =
                IF cmd = w /\ desired /\ ~ closed THEN "sleeping" ELSE "over"]
  /\ told' = told \ {w}
  /\ UNCHANGED <<desired, closed, running, call, failed, disk, faults>>

\* Two seconds later.  Nothing asks whether a restart is still wanted.
RestartWorker(w) ==
  /\ life[w] = "sleeping"
  /\ StartWith([life EXCEPT ![w] = "over"])
  /\ UNCHANGED <<call, disk>>

-----------------------------------------------------------------------------
(* Requests *)

Start ==
  /\ StartWith(life)
  /\ UNCHANGED <<call, disk>>

\* Stop as far as the request to the worker, which it obeys, or ignores until
\* it is killed.  Without a worker Stop is done.
StopBegin(c, op) ==
  /\ call[c] = NoCall
  /\ desired' = FALSE
  /\ closed' = (closed \/ op = "close")
  /\ call' = [call EXCEPT ![c] = op]
  /\ told' = IF cmd = NoWorker THEN told ELSE told \cup {cmd}
  /\ UNCHANGED <<cmd, life, running, failed>>

\* Stop ends when the worker has exited, or has been killed and waited for long
\* enough.
StopReturns(c) ==
  /\ call[c] = "stop"
  /\ call' = [call EXCEPT ![c] = NoCall]
  /\ UNCHANGED <<cmd, desired, closed, life, running, told, failed, disk,
                 faults>>

\* Restart starts a worker however Stop ended.
RestartReturns(c) ==
  /\ call[c] = "restart"
  /\ call' = [call EXCEPT ![c] = NoCall]
  /\ StartWith(life)
  /\ UNCHANGED disk
=============================================================================
