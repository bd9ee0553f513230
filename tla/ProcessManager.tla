-------------------------- MODULE ProcessManager --------------------------
(***************************************************************************)
(* The process manager of void-stack-core (manager/process.rs, logs.rs,    *)
(* state.rs): it starts and stops the services of one project.  What it    *)
(* knows is in two maps by service NAME, each behind a lock of its own: the*)
(* states (status and pid) and the exit watchers (a flag per process, true *)
(* once it has exited).  The daemon, the MCP server, the TUI and the       *)
(* desktop call it; a task per process waits for the exit of its process;  *)
(* the screens poll refresh_status.  Each takes a lock, lets go of it, and *)
(* goes on with what it read: a step here is what happens under one lock,  *)
(* or one effect on a process.                                             *)
(*                                                                         *)
(* A pid is the number of the process: none is ever used twice.            *)
(***************************************************************************)
EXTENDS Integers, Sequences, FiniteSets

CONSTANTS
  Service,       \* the names of the services of the project
  Enabled,       \* those start_all starts, in the order of the project
  Caller,        \* calls that may be under way at the same time
  MaxProcesses   \* bound: processes spawned in a behaviour

ASSUME ProcessManagerAssumption ==
  /\ Enabled \in Seq(Service)
  /\ MaxProcesses \in Nat

VARIABLES
  states,         \* states: what the manager says of each service
  exit_watchers,  \* exit_watchers: the process whose flag is kept, 0 for none
  spawned,        \* how many processes have been spawned
  process,        \* the processes, each with the task that waits for its exit
  call,           \* the call each caller has under way
  lost            \* history: the processes whose record was overwritten by the
                  \* exit watcher of another one

vars == <<states, exit_watchers, spawned, process, call, lost>>

-----------------------------------------------------------------------------
(* The state. *)

Process == 1 .. MaxProcesses
None == 0
Pid == Process \cup {None}

ServiceState == [status : {"Stopped", "Running", "Failed"}, pid : Pid]

\* watch is where its exit watcher is: awaiting the exit; past it, with the flag
\* sent; having read that nobody stopped the service; at its end.
ProcessState == [service : Service \cup {""}, alive : BOOLEAN, told : BOOLEAN,
                 watch : {"waiting", "exited", "marking", "done"}]

\* One stop of stop_service_process: its process, the flag it awaits, how far it is.
Target == [pid : Pid, rx : Pid,
           stage : {"none", "signal", "wait", "escalate", "wait_again", "over"}]

Call == [op : {"start_all", "start_one", "stop_all", "stop_one"},
         todo : Seq(Service), new : Pid, target : [Service -> Target],
         pc : {"idle", "check", "spawn", "fail", "store", "record",
               "take", "stopping", "mark", "forget"}]

TypeOK ==
  /\ states \in [Service -> ServiceState]
  /\ exit_watchers \in [Service -> Pid]
  /\ spawned \in 0 .. MaxProcesses
  /\ process \in [Process -> ProcessState]
  /\ call \in [Caller -> Call]
  /\ lost \in SUBSET Process

Stopped == [status |-> "Stopped", pid |-> None]
NoTarget == [pid |-> None, rx |-> None, stage |-> "none"]
Idle == [op |-> "stop_all", todo |-> << >>, new |-> None,
         target |-> [s \in Service |-> NoTarget], pc |-> "idle"]

Init ==
  /\ states = [s \in Service |-> Stopped]
  /\ exit_watchers = [s \in Service |-> None]
  /\ spawned = 0
  /\ process = [p \in Process |-> [service |-> "", alive |-> FALSE, told |-> FALSE,
                                   watch |-> "done"]]
  /\ call = [c \in Caller |-> Idle]
  /\ lost = {}

Alive(p) == p # None /\ process[p].alive
HasExited(p) == process[p].watch # "waiting"

-----------------------------------------------------------------------------
(* start_one and start_all: one service after the other. *)

At(c, pc) == call[c].pc = pc
Goto(c, pc) == call' = [call EXCEPT ![c].pc = pc]
Return(c) == call' = [call EXCEPT ![c] = Idle]

Current(c) == Head(call[c].todo)
GoToNextService(c) ==
  LET k == call[c]
  IN  call' = [call EXCEPT ![c] =
                 IF Len(k.todo) = 1 THEN Idle
                 ELSE [k EXCEPT !.todo = Tail(k.todo), !.new = None, !.pc = "check"]]

Begin(c, op, todo) ==
  /\ At(c, "idle") /\ todo # << >>
  /\ call' = [call EXCEPT ![c] = [Idle EXCEPT !.op = op, !.todo = todo, !.pc = "check"]]
  /\ UNCHANGED <<states, exit_watchers, spawned, process, lost>>

StartOne(c, s) == Begin(c, "start_one", <<s>>)
StartAll(c) == Begin(c, "start_all", Enabled)

IsServiceRunning(s) == states[s].status = "Running" /\ Alive(states[s].pid)

\* Mutant of CheckRunning: a service that runs is started again.
NeverRunning(c) ==
  /\ At(c, "check") /\ Goto(c, "spawn")
  /\ UNCHANGED <<states, exit_watchers, spawned, process, lost>>

CheckRunning(c) ==
  /\ At(c, "check")
  /\ IF IsServiceRunning(Current(c)) THEN GoToNextService(c) ELSE Goto(c, "spawn")
  /\ UNCHANGED <<states, exit_watchers, spawned, process, lost>>

Spawn(c) ==
  /\ At(c, "spawn") /\ spawned < MaxProcesses
  /\ spawned' = spawned + 1
  /\ process' = [process EXCEPT ![spawned + 1] =
                   [service |-> Current(c), alive |-> TRUE, told |-> FALSE,
                    watch |-> "waiting"]]
  /\ call' = [call EXCEPT ![c].new = spawned + 1, ![c].pc = "store"]
  /\ UNCHANGED <<states, exit_watchers, lost>>

\* The command cannot be run: start_one returns the error and changes nothing.
SpawnFails(c) ==
  /\ At(c, "spawn")
  /\ IF call[c].op = "start_all" THEN Goto(c, "fail") ELSE Return(c)
  /\ UNCHANGED <<states, exit_watchers, spawned, process, lost>>

RecordFailure(c) ==
  /\ At(c, "fail")
  /\ states' = [states EXCEPT ![Current(c)] = [status |-> "Failed", pid |-> None]]
  /\ GoToNextService(c)
  /\ UNCHANGED <<exit_watchers, spawned, process, lost>>

\* Mutant of StoreWatcher: a watcher that is there already is kept.
StoreFirstWatcher(c) ==
  /\ At(c, "store")
  /\ exit_watchers' = [exit_watchers EXCEPT ![Current(c)] =
                         IF @ = None THEN call[c].new ELSE @]
  /\ Goto(c, "record")
  /\ UNCHANGED <<states, spawned, process, lost>>

StoreWatcher(c) ==
  /\ At(c, "store")
  /\ exit_watchers' = [exit_watchers EXCEPT ![Current(c)] = call[c].new]
  /\ Goto(c, "record")
  /\ UNCHANGED <<states, spawned, process, lost>>

RecordRunning(c) ==
  /\ At(c, "record")
  /\ states' = [states EXCEPT ![Current(c)] = [status |-> "Running", pid |-> call[c].new]]
  /\ GoToNextService(c)
  /\ UNCHANGED <<exit_watchers, spawned, process, lost>>

-----------------------------------------------------------------------------
(* stop_one and stop_all: every target on its own, then the bookkeeping. *)

Targets(c) == {s \in Service : call[c].target[s].stage # "none"}

\* The pids are read under the lock of the states; with none, the call returns.
BeginStop(c, op, S) ==
  /\ At(c, "idle") /\ S # {}
  /\ call' = [call EXCEPT ![c] =
       [Idle EXCEPT !.op = op, !.pc = "take",
          !.target = [s \in Service |->
             IF s \in S THEN [NoTarget EXCEPT !.pid = states[s].pid, !.stage = "signal"]
             ELSE NoTarget]]]
  /\ UNCHANGED <<states, exit_watchers, spawned, process, lost>>

StopOne(c, s) == BeginStop(c, "stop_one", {s} \cap {t \in Service : states[t].pid # None})
StopAll(c) ==
  BeginStop(c, "stop_all",
            {s \in Service : states[s].status = "Running" /\ states[s].pid # None})

TakeReceivers(c) ==
  /\ At(c, "take")
  /\ call' = [call EXCEPT ![c].pc = "stopping",
                          ![c].target = [s \in Service |->
                             IF s \in Targets(c) THEN [@[s] EXCEPT !.rx = exit_watchers[s]]
                             ELSE @[s]]]
  /\ UNCHANGED <<states, exit_watchers, spawned, process, lost>>

SetStage(c, s, stage) == call' = [call EXCEPT ![c].target[s].stage = stage]

Tell(p) == process' = [process EXCEPT ![p].told = TRUE]

\* The first signal, and the second after the grace period.
Signal(c, s) ==
  /\ At(c, "stopping")
  /\ \/ call[c].target[s].stage = "signal" /\ SetStage(c, s, "wait")
     \/ call[c].target[s].stage = "escalate" /\ SetStage(c, s, "wait_again")
  /\ Tell(call[c].target[s].pid)
  /\ UNCHANGED <<states, exit_watchers, spawned, lost>>

\* taskkill cannot be run: stop_one returns the error; stop_all goes on to say that
\* the service is Stopped.
SignalFails(c, s) ==
  /\ At(c, "stopping") /\ call[c].target[s].stage = "signal"
  /\ IF call[c].op = "stop_one" THEN Return(c) ELSE SetStage(c, s, "over")
  /\ Tell(call[c].target[s].pid)
  /\ UNCHANGED <<states, exit_watchers, spawned, lost>>

Waiting(c, s) == At(c, "stopping") /\ call[c].target[s].stage \in {"wait", "wait_again"}

\* The flag says so or, without one, the pid is no longer there.
WaitEnds(c, s) ==
  /\ Waiting(c, s)
  /\ IF call[c].target[s].rx # None THEN HasExited(call[c].target[s].rx)
     ELSE ~Alive(call[c].target[s].pid)
  /\ SetStage(c, s, "over")
  /\ UNCHANGED <<states, exit_watchers, spawned, process, lost>>

\* Mutant of GraceExpires: the second wait has no limit.
GraceExpiresOnce(c, s) ==
  /\ Waiting(c, s) /\ call[c].target[s].stage = "wait"
  /\ SetStage(c, s, "escalate")
  /\ UNCHANGED <<states, exit_watchers, spawned, process, lost>>

\* STOP_GRACE goes by, once or twice.
GraceExpires(c, s) ==
  /\ Waiting(c, s)
  /\ SetStage(c, s, IF call[c].target[s].stage = "wait" THEN "escalate" ELSE "over")
  /\ UNCHANGED <<states, exit_watchers, spawned, process, lost>>

MarkStopped(c) ==
  /\ At(c, "stopping") /\ \A s \in Targets(c) : call[c].target[s].stage = "over"
  /\ states' = [s \in Service |-> IF s \in Targets(c) THEN Stopped ELSE states[s]]
  /\ Goto(c, "forget")
  /\ UNCHANGED <<exit_watchers, spawned, process, lost>>

ForgetWatchers(c) ==
  /\ At(c, "forget")
  /\ exit_watchers' = [s \in Service |-> IF s \in Targets(c) THEN None ELSE exit_watchers[s]]
  /\ Return(c)
  /\ UNCHANGED <<states, spawned, process, lost>>

-----------------------------------------------------------------------------
(* The processes, the tasks that wait for them, and the screens. *)

\* It ends by itself, or because it was told.
Die(p) ==
  /\ Alive(p)
  /\ process' = [process EXCEPT ![p].alive = FALSE]
  /\ UNCHANGED <<states, exit_watchers, spawned, call, lost>>

NoticeExit(p) ==
  /\ process[p].watch = "waiting" /\ ~process[p].alive
  /\ process' = [process EXCEPT ![p].watch = "exited"]
  /\ UNCHANGED <<states, exit_watchers, spawned, call, lost>>

\* Was it an intentional stop?
ReadStatus(p) ==
  /\ process[p].watch = "exited"
  /\ process' = [process EXCEPT ![p].watch =
                   IF states[process[p].service].status = "Stopped" THEN "done" ELSE "marking"]
  /\ UNCHANGED <<states, exit_watchers, spawned, call, lost>>

\* Mutant of MarkExit: the pid of the process that exited is written back.
MarkExitWithPid(p, status) ==
  LET s == process[p].service
  IN  /\ process[p].watch = "marking"
      /\ process' = [process EXCEPT ![p].watch = "done"]
      /\ states' = [states EXCEPT ![s] = [status |-> status, pid |-> p]]
      /\ lost' = lost \cup ({states[s].pid} \ {None, p})
      /\ UNCHANGED <<exit_watchers, spawned, call>>

\* The state of the service is overwritten, whatever process it now tells of.
MarkExit(p, status) ==
  LET s == process[p].service
  IN  /\ process[p].watch = "marking"
      /\ process' = [process EXCEPT ![p].watch = "done"]
      /\ states' = [states EXCEPT ![s] = [status |-> status, pid |-> None]]
      /\ lost' = lost \cup ({states[s].pid} \ {None, p})
      /\ UNCHANGED <<exit_watchers, spawned, call>>

\* Mutant of RefreshStatus: a service that has an exit watcher is left to it.
RefreshUnwatched ==
  /\ states' = [s \in Service |->
       IF states[s].status = "Running" /\ states[s].pid # None /\ ~Alive(states[s].pid)
          /\ exit_watchers[s] = None
       THEN Stopped ELSE states[s]]
  /\ UNCHANGED <<exit_watchers, spawned, process, call, lost>>

RefreshStatus ==
  /\ states' = [s \in Service |->
       IF states[s].status = "Running" /\ states[s].pid # None /\ ~Alive(states[s].pid)
       THEN Stopped ELSE states[s]]
  /\ UNCHANGED <<exit_watchers, spawned, process, call, lost>>

-----------------------------------------------------------------------------

StartStep(c) ==
  \/ CheckRunning(c) \/ Spawn(c) \/ SpawnFails(c) \/ RecordFailure(c)
  \/ StoreWatcher(c) \/ RecordRunning(c)

StopStep(c) ==
  \/ TakeReceivers(c) \/ MarkStopped(c) \/ ForgetWatchers(c)
  \/ \E s \in Service :
       Signal(c, s) \/ SignalFails(c, s) \/ WaitEnds(c, s) \/ GraceExpires(c, s)

NewCall(c) ==
  \/ StartAll(c) \/ StopAll(c)
  \/ \E s \in Service : StartOne(c, s) \/ StopOne(c, s)

ExitWatcher(p) ==
  NoticeExit(p) \/ ReadStatus(p) \/ \E status \in {"Failed", "Stopped"} : MarkExit(p, status)

Next ==
  \/ \E c \in Caller : NewCall(c) \/ StartStep(c) \/ StopStep(c)
  \/ \E p \in Process : Die(p) \/ ExitWatcher(p)
  \/ RefreshStatus

Spec == Init /\ [][Next]_vars

\* A call goes on to its end, as every wait of it has a limit; the exit watchers are
\* tasks of the runtime; the screens refresh for ever (desktop, TUI).  Nothing is
\* assumed of the callers, nor of the processes: one may ignore every signal.
Fairness ==
  /\ \A c \in Caller : WF_vars(StartStep(c)) /\ WF_vars(StopStep(c))
  /\ \A p \in Process : WF_vars(ExitWatcher(p))
  /\ WF_vars(RefreshStatus)

FairSpec == Spec /\ Fairness

-----------------------------------------------------------------------------
(* Safety. *)

\* A start has recorded process p: nobody is between spawning it and recording it.
Recorded(p) == p <= spawned /\ \A c \in Caller : call[c].new # p

\* A live process that nobody asked to stop is the one its service is said to run,
\* so that it can be found and stopped, through every crash and restart of it before:
\* unless the exit watcher of an earlier process came late and wrote over its record
\* (start_one, stop_one, the exit watcher of logs.rs, refresh_status).
AliveIsKnown ==
  \A p \in Process :
    Recorded(p) /\ process[p].alive /\ ~process[p].told /\ p \notin lost
      => states[process[p].service] = [status |-> "Running", pid |-> p]

\* A stop that was not cut short by its grace period has waited for the very process
\* it signalled: that one is gone (the exit watchers of start_one, stop_service_process).
ExitedIsGone ==
  [][\A c \in Caller, s \in Service :
       /\ Waiting(c, s) /\ call'[c].target[s].stage = "over"
       /\ call[c].target[s].rx # None /\ HasExited(call[c].target[s].rx)
       => ~Alive(call[c].target[s].pid)]_vars

\* A process as the manager's maps tell of it: new while the start that spawned it has it
\* in hand, recorded while it is the one its service is said to run.
RecordOf(p) ==
  IF states[process[p].service].pid = p THEN "recorded"
  ELSE IF \E c \in Caller : call[c].new = p THEN "new"
  ELSE "forgotten"

SeenInStates ==
  [p \in 1 .. spawned |-> [service |-> process[p].service, record |-> RecordOf(p),
                           alive |-> process[p].alive, told |-> process[p].told]]

Ledger == INSTANCE ProcessLedger WITH count <- spawned, entry <- SeenInStates

\* Whoever calls and however late the exit watchers come: a service has one recorded
\* process, its own; what was forgotten never comes back; only what has been recorded is
\* signalled (start_one, start_all, stop_one, stop_all, the exit watcher of logs.rs).
KeepsItsLedger == Ledger!Spec

-----------------------------------------------------------------------------
(* Liveness. *)

\* Every start and stop returns, even for a process that ignores both signals
\* (stop_service_process and its two waits).
CallsReturn == \A c \in Caller : []<>At(c, "idle")

\* A service whose process has died is not shown as running for ever, not even when it
\* died before it was recorded: its exit watcher may have been and gone by then, and it
\* is refresh_status that finds out (start_one, logs.rs, refresh_status).
DeadIsNoticed ==
  \A s \in Service :
    (states[s].status = "Running" /\ ~Alive(states[s].pid)) ~>
      ~(states[s].status = "Running" /\ ~Alive(states[s].pid))

-----------------------------------------------------------------------------
(* What the documentation says and the code does not do. *)

\* "If the service is already running, returns its current state without restarting"
\* (start_one): no process is spawned for a service that has one nobody asked to stop.
OneProcess ==
  \A p, q \in 1 .. spawned :
    process[p].service = process[q].service /\ p # q
      => ~(process[p].alive /\ ~process[p].told /\ process[q].alive /\ ~process[q].told)
=============================================================================
