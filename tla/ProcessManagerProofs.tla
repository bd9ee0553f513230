----------------------- MODULE ProcessManagerProofs -----------------------
(***************************************************************************)
(* Proofs about the process manager: its shape, for any number of services,*)
(* callers and processes; that what lives is known and that a stop waits   *)
(* for the process it signalled, as long as there is one caller; that it   *)
(* keeps a ledger of its processes, however many callers there are.        *)
(***************************************************************************)
EXTENDS ProcessManager, TLAPS

-----------------------------------------------------------------------------
(* The shape. *)

Starting == {"check", "spawn", "fail", "store", "record"}
Spawned == 1 .. spawned

\* A call: its service while it starts one; its process until that is recorded; the
\* processes it stops, each of the service it is taken for.
CallShape(k) ==
  /\ k.pc \in Starting => k.todo # << >>
  /\ k.pc \in {"store", "record"} =>
       k.new \in Spawned /\ process[k.new].service = Head(k.todo)
  /\ k.pc \notin {"store", "record"} => k.new = None
  /\ \A s \in Service : k.target[s].stage # "none" =>
       k.target[s].pid \in Spawned /\ process[k.target[s].pid].service = s

\* A process that was not spawned is not there, one whose exit was noticed is gone.
ProcessShape(p) ==
  /\ p > spawned => ~process[p].alive /\ process[p].watch = "done"
  /\ p <= spawned => process[p].service \in Service
  /\ process[p].watch # "waiting" => ~process[p].alive

\* A service is said to have a process of its own.
StateShape(s) ==
  states[s].pid # None => states[s].pid \in Spawned /\ process[states[s].pid].service = s

Shape ==
  /\ TypeOK
  /\ \A c \in Caller : CallShape(call[c])
  /\ \A p \in Process : ProcessShape(p)
  /\ \A s \in Service : StateShape(s)

\* A call that is not under way.
LEMMA IdleShape == Idle \in Call /\ CallShape(Idle)
BY DEF Idle, Call, Target, NoTarget, None, Pid, CallShape, Starting

\* What there is of processes.
LEMMA Range ==
  ASSUME Shape
  PROVE  /\ MaxProcesses \in Nat /\ spawned \in Nat
         /\ Spawned \subseteq Process /\ Process \subseteq Nat \ {None}
BY ProcessManagerAssumption DEF Shape, TypeOK, Spawned, Process, None

\* At first there is nothing of which anything could be said.
LEMMA ShapeInit == Init => Shape
<1> SUFFICES ASSUME Init PROVE Shape
  OBVIOUS
<1>1. \A c \in Caller : call[c] = Idle
  BY DEF Init
<1>2. \A s \in Service : states[s].pid = None
  BY DEF Init, Stopped
<1>3. \A p \in Process : process[p].alive = FALSE /\ process[p].watch = "done"
  BY DEF Init
<1>0. spawned = 0 /\ lost = {}
  BY DEF Init
<1>4. TypeOK
  <2>1. Stopped \in ServiceState /\ None \in Pid
    BY DEF Stopped, ServiceState, Pid, None
  <2>2. [service |-> "", alive |-> FALSE, told |-> FALSE, watch |-> "done"] \in ProcessState
    BY DEF ProcessState
  <2>3. states \in [Service -> ServiceState] /\ exit_watchers \in [Service -> Pid]
        /\ call \in [Caller -> Call] /\ process \in [Process -> ProcessState]
    BY <2>1, <2>2, IdleShape DEF Init
  <2> QED BY <1>0, <2>3, ProcessManagerAssumption DEF TypeOK
<1>5. \A c \in Caller : CallShape(call[c])
  BY <1>1, IdleShape
<1>6. \A p \in Process : ProcessShape(p)
  <2>1. \A p \in Process : ~(p <= spawned)
    BY <1>0, ProcessManagerAssumption DEF Process
  <2> QED BY <1>3, <2>1 DEF ProcessShape
<1>7. \A s \in Service : StateShape(s)
  BY <1>2 DEF StateShape
<1> QED BY <1>4, <1>5, <1>6, <1>7 DEF Shape

\* Nothing but a call, and it keeps its shape.
LEMMA CallGoes ==
  ASSUME Shape, NEW c \in Caller, NEW k \in Call, CallShape(k),
         call' = [call EXCEPT ![c] = k], UNCHANGED <<spawned, process>>,
         states' \in [Service -> ServiceState], exit_watchers' \in [Service -> Pid],
         lost' = lost, \A s \in Service : StateShape(s)'
  PROVE  Shape'
<1>1. /\ call' \in [Caller -> Call]
      /\ \A d \in Caller : call'[d] = IF d = c THEN k ELSE call[d]
  BY DEF Shape, TypeOK
<1>2. TypeOK'
  BY <1>1 DEF Shape, TypeOK
<1>3. \A d \in Caller : CallShape(call[d])'
  BY <1>1 DEF Shape, CallShape, Spawned
<1>4. \A p \in Process : ProcessShape(p)'
  BY DEF Shape, ProcessShape
<1> QED BY <1>2, <1>3, <1>4 DEF Shape

\* The processes keep their services, and the rest of what Shape says of them.
LEMMA ProcessesGo ==
  ASSUME Shape, UNCHANGED <<spawned, call, exit_watchers>>,
         process' \in [Process -> ProcessState],
         \A p \in Process : process'[p].service = process[p].service,
         \A p \in Process : ProcessShape(p)',
         states' \in [Service -> ServiceState], lost' \in SUBSET Process,
         \A s \in Service : states'[s].pid \in {None, states[s].pid}
  PROVE  Shape'
<1>1. TypeOK'
  BY DEF Shape, TypeOK
<1>2. Spawned \subseteq Process
  BY Range
<1>3. \A c \in Caller : CallShape(call[c])'
  <2> TAKE c \in Caller
  <2>1. CallShape(call[c])
    BY DEF Shape
  <2> QED BY <1>2, <2>1 DEF CallShape, Spawned
<1>4. \A s \in Service : StateShape(s)'
  BY <1>2 DEF Shape, StateShape, Spawned
<1> QED BY <1>1, <1>3, <1>4 DEF Shape

-----------------------------------------------------------------------------
(* Starts. *)

\* The call once it goes on to the next service, as GoToNextService makes it.
NextCall(k) ==
  IF Len(k.todo) = 1 THEN Idle
  ELSE [k EXCEPT !.todo = Tail(k.todo), !.new = None, !.pc = "check"]

\* The service of a start, and the call that goes on to the next one.
LEMMA NextService ==
  ASSUME Shape, NEW c \in Caller, call[c].pc \in Starting
  PROVE  /\ Current(c) \in Service
         /\ NextCall(call[c]) \in Call /\ CallShape(NextCall(call[c]))
         /\ NextCall(call[c]).new = None /\ NextCall(call[c]).pc \in {"idle", "check"}
         /\ \A s \in Service : NextCall(call[c]).target[s].stage
                                \in {"none", call[c].target[s].stage}
<1>1. call[c] \in Call /\ CallShape(call[c]) /\ call[c].todo # << >>
      /\ call[c].todo \in Seq(Service)
  BY DEF Shape, TypeOK, Call, CallShape
<1>2. Current(c) \in Service
  BY <1>1 DEF Current
<1>3. CASE Len(call[c].todo) = 1
  <2>1. NextCall(call[c]) = Idle
    BY <1>3 DEF NextCall
  <2>2. Idle.new = None /\ Idle.pc = "idle" /\ \A s \in Service : Idle.target[s].stage = "none"
    BY DEF Idle, NoTarget
  <2> QED BY <1>2, <2>1, <2>2, IdleShape
<1>4. CASE Len(call[c].todo) # 1
  <2> DEFINE k == [call[c] EXCEPT !.todo = Tail(call[c].todo), !.new = None, !.pc = "check"]
  <2>1. Tail(call[c].todo) \in Seq(Service) /\ Tail(call[c].todo) # << >>
    <3> DEFINE todo == call[c].todo
    <3>1. todo \in Seq(Service) /\ todo # << >> /\ Len(todo) # 1
      BY <1>1, <1>4
    <3> HIDE DEF todo
    <3>2. Len(todo) \in Nat /\ Len(todo) # 0
      BY <3>1
    <3>3. Tail(todo) \in Seq(Service) /\ Len(Tail(todo)) = Len(todo) - 1
      BY <3>1
    <3>4. \A m \in Nat : m # 0 /\ m # 1 => m - 1 # 0
      OBVIOUS
    <3>5. Len(Tail(todo)) # 0 /\ Len(<< >>) = 0
      BY <3>1, <3>2, <3>3, <3>4
    <3>6. Tail(todo) # << >>
      BY <3>5, Zenon
    <3> QED BY <3>3, <3>6 DEF todo
  <2>2. /\ k \in Call /\ k.todo # << >> /\ k.new = None /\ k.pc = "check"
        /\ k.target = call[c].target
    BY <1>1, <2>1 DEF Call, Pid
  <2>3. NextCall(call[c]) = k
    BY <1>4 DEF NextCall
  <2> HIDE DEF k
  <2>4. CallShape(k)
    BY <1>1, <2>2 DEF CallShape
  <2> QED BY <1>2, <2>2, <2>3, <2>4
<1> QED BY <1>2, <1>3, <1>4

\* A start that goes on to its next service, whatever it records of this one.
LEMMA NextShape ==
  ASSUME Shape, NEW c \in Caller, call[c].pc \in Starting, GoToNextService(c),
         UNCHANGED <<exit_watchers, spawned, process, lost>>,
         states' \in [Service -> ServiceState], \A s \in Service : StateShape(s)'
  PROVE  Shape'
<1>1. NextCall(call[c]) \in Call /\ CallShape(NextCall(call[c]))
  BY NextService
<1>2. exit_watchers' \in [Service -> Pid]
  BY DEF Shape, TypeOK
<1>3. call' = [call EXCEPT ![c] = NextCall(call[c])]
  BY DEF GoToNextService, NextCall
<1> QED BY <1>1, <1>2, <1>3, CallGoes

\* start_one or start_all is called.
LEMMA BeginShape ==
  ASSUME Shape, NEW c \in Caller, NEW op \in {"start_all", "start_one"},
         NEW todo \in Seq(Service), Begin(c, op, todo)
  PROVE  Shape'
<1> DEFINE k == [Idle EXCEPT !.op = op, !.todo = todo, !.pc = "check"]
<1>1. k \in Call /\ k.todo # << >> /\ k.new = None /\ k.pc = "check" /\ k.target = Idle.target
  BY IdleShape DEF Begin, Call, CallShape, Idle, Starting
<1>2. call' = [call EXCEPT ![c] = k] /\ UNCHANGED <<states, exit_watchers, spawned, process, lost>>
  BY DEF Begin
<1> HIDE DEF k
<1>3. CallShape(k)
  BY <1>1, IdleShape DEF CallShape
<1> QED BY <1>1, <1>2, <1>3, CallGoes DEF Shape, TypeOK, StateShape, Spawned

\* A step of a start that goes to another place of the same service.
LEMMA GotoShape ==
  ASSUME Shape, NEW c \in Caller, NEW pc \in Starting,
         call[c].pc \in Starting, call[c].pc \in {"store", "record"} <=> pc \in {"store", "record"},
         Goto(c, pc), UNCHANGED <<states, spawned, process, lost>>,
         exit_watchers' \in [Service -> Pid]
  PROVE  Shape'
<1> DEFINE k == [call[c] EXCEPT !.pc = pc]
<1>1. call[c] \in Call /\ CallShape(call[c])
  BY DEF Shape, TypeOK
<1>2. k \in Call /\ k.pc = pc /\ k.todo = call[c].todo /\ k.new = call[c].new
      /\ k.target = call[c].target
  BY <1>1 DEF Call, Starting
<1>3. call' = [call EXCEPT ![c] = k]
  BY DEF Goto
<1> HIDE DEF k
<1>4. CallShape(k)
  BY <1>1, <1>2 DEF CallShape
<1> QED BY <1>2, <1>3, <1>4, CallGoes DEF Shape, TypeOK, StateShape, Spawned

\* A process is spawned for the service of a start.
LEMMA SpawnShape == ASSUME Shape, NEW c \in Caller, Spawn(c) PROVE Shape'
<1> DEFINE p == spawned + 1
           new == [service |-> Current(c), alive |-> TRUE, told |-> FALSE, watch |-> "waiting"]
           k == [call[c] EXCEPT !.new = p, !.pc = "store"]
<1>1. /\ call[c] \in Call /\ CallShape(call[c]) /\ Current(c) \in Service
      /\ call[c].todo # << >>
  BY NextService DEF Shape, TypeOK, Spawn, At, Starting, CallShape
<1>2. /\ spawned' = p /\ p \in Process /\ spawned \in Nat /\ MaxProcesses \in Nat
      /\ p \in 0 .. MaxProcesses
  BY Range DEF Spawn, Process, Shape, TypeOK
<1>3. /\ process' = [process EXCEPT ![p] = new] /\ new \in ProcessState
      /\ process \in [Process -> ProcessState]
  BY <1>1 DEF Spawn, ProcessState, Shape, TypeOK
<1>4. /\ process' \in [Process -> ProcessState]
      /\ \A q \in Process : process'[q] = IF q = p THEN new ELSE process[q]
  BY <1>2, <1>3
<1>5. /\ k \in Call /\ k.new = p /\ k.pc = "store" /\ k.todo = call[c].todo
      /\ k.target = call[c].target
  BY <1>1, <1>2 DEF Call, Pid
<1>6. /\ call' = [call EXCEPT ![c] = k] /\ UNCHANGED <<states, exit_watchers, lost>>
  BY DEF Spawn
<1>7. new.service = Current(c) /\ new.alive /\ new.watch = "waiting"
  OBVIOUS
<1> HIDE DEF k, new
<1>8. call' \in [Caller -> Call] /\ \A d \in Caller : call'[d] = IF d = c THEN k ELSE call[d]
  BY <1>5, <1>6 DEF Shape, TypeOK
<1>9. TypeOK'
  BY <1>2, <1>4, <1>6, <1>8 DEF Shape, TypeOK
<1>10. \A q \in Spawned : q \in Process /\ q \in Spawned' /\ process'[q] = process[q]
  BY <1>2, <1>4, Range DEF Spawned
<1>11. \A d \in Caller : CallShape(call[d])'
  <2> TAKE d \in Caller
  <2>1. CASE d = c
    <3>1. p \in Spawned'
      BY <1>2 DEF Spawned
    <3> QED BY <2>1, <3>1, <1>1, <1>2, <1>4, <1>5, <1>7, <1>8, <1>10 DEF CallShape, Current
  <2>2. CASE d # c
    <3>1. CallShape(call[d])
      BY DEF Shape
    <3> QED BY <2>2, <3>1, <1>8, <1>10 DEF CallShape
  <2> QED BY <2>1, <2>2
<1>12. \A q \in Process : ProcessShape(q)'
  <2> TAKE q \in Process
  <2>1. ProcessShape(q)
    BY DEF Shape
  <2> QED BY <2>1, <1>1, <1>2, <1>4, <1>7, Range DEF ProcessShape
<1>13. \A s \in Service : StateShape(s)'
  BY <1>6, <1>10 DEF Shape, StateShape
<1> QED BY <1>9, <1>11, <1>12, <1>13 DEF Shape

\* Every step of a start keeps the shape.
LEMMA StartShape == ASSUME Shape, NEW c \in Caller, StartStep(c) PROVE Shape'
<1>1. CASE CheckRunning(c)
  <2>1. call[c].pc \in Starting /\ UNCHANGED <<states, exit_watchers, spawned, process, lost>>
    BY <1>1 DEF CheckRunning, At, Starting
  <2>2. CASE GoToNextService(c)
    <3>1. states' \in [Service -> ServiceState] /\ \A s \in Service : StateShape(s)'
      BY <2>1 DEF Shape, TypeOK, StateShape, Spawned
    <3> QED BY <2>1, <2>2, <3>1, NextShape
  <2>3. CASE Goto(c, "spawn")
    BY <1>1, <2>1, <2>3, GotoShape DEF CheckRunning, At, Starting, Shape, TypeOK
  <2> QED BY <1>1, <2>2, <2>3 DEF CheckRunning
<1>2. CASE Spawn(c)
  BY <1>2, SpawnShape
<1>3. CASE SpawnFails(c)
  <2>1. call[c].pc = "spawn" /\ UNCHANGED <<states, exit_watchers, spawned, process, lost>>
    BY <1>3 DEF SpawnFails, At
  <2>2. CASE Goto(c, "fail")
    BY <2>1, <2>2, GotoShape DEF Starting, Shape, TypeOK
  <2>3. CASE Return(c)
    BY <2>1, <2>3, IdleShape, CallGoes DEF Return, Shape, TypeOK, StateShape, Spawned
  <2> QED BY <1>3, <2>2, <2>3 DEF SpawnFails
<1>4. CASE RecordFailure(c)
  <2> DEFINE failed == [status |-> "Failed", pid |-> None]
  <2>1. /\ call[c].pc \in Starting /\ GoToNextService(c)
        /\ states' = [states EXCEPT ![Current(c)] = failed]
        /\ UNCHANGED <<exit_watchers, spawned, process, lost>>
    BY <1>4 DEF RecordFailure, At, Starting
  <2>2. failed \in ServiceState /\ failed.pid = None
    BY DEF ServiceState, Pid
  <2> HIDE DEF failed
  <2>3. states' \in [Service -> ServiceState]
        /\ \A s \in Service : states'[s] = IF s = Current(c) THEN failed ELSE states[s]
    BY <2>1, <2>2 DEF Shape, TypeOK
  <2>4. \A s \in Service : StateShape(s)'
    BY <2>1, <2>2, <2>3 DEF Shape, StateShape, Spawned
  <2> QED BY <2>1, <2>3, <2>4, NextShape
<1>5. CASE StoreWatcher(c)
  <2>1. /\ call[c].pc = "store" /\ Goto(c, "record") /\ UNCHANGED <<states, spawned, process, lost>>
        /\ exit_watchers' = [exit_watchers EXCEPT ![Current(c)] = call[c].new]
    BY <1>5 DEF StoreWatcher, At
  <2>2. exit_watchers' \in [Service -> Pid]
    BY <2>1 DEF Shape, TypeOK, Call
  <2> QED BY <2>1, <2>2, GotoShape DEF Starting
<1>6. CASE RecordRunning(c)
  <2> DEFINE running == [status |-> "Running", pid |-> call[c].new]
  <2>1. /\ call[c].pc = "record" /\ call[c].pc \in Starting /\ GoToNextService(c)
        /\ states' = [states EXCEPT ![Current(c)] = running]
        /\ UNCHANGED <<exit_watchers, spawned, process, lost>>
    BY <1>6 DEF RecordRunning, At, Starting
  <2>2. call[c].new \in Spawned /\ process[call[c].new].service = Current(c)
    BY <2>1 DEF Shape, CallShape, Current
  <2>3. running \in ServiceState /\ running.pid = call[c].new
    BY <2>2, Range DEF ServiceState, Pid
  <2> HIDE DEF running
  <2>4. states' \in [Service -> ServiceState]
        /\ \A s \in Service : states'[s] = IF s = Current(c) THEN running ELSE states[s]
    BY <2>1, <2>3 DEF Shape, TypeOK
  <2>5. \A s \in Service : StateShape(s)'
    BY <2>1, <2>2, <2>3, <2>4 DEF Shape, StateShape, Spawned
  <2> QED BY <2>1, <2>4, <2>5, NextShape
<1> QED BY <1>1, <1>2, <1>3, <1>4, <1>5, <1>6 DEF StartStep

-----------------------------------------------------------------------------
(* Stops. *)

\* Processes are told to stop, or nothing happens to them.
ToldAtMost ==
  /\ process' \in [Process -> ProcessState]
  /\ \A p \in Process : /\ process'[p].service = process[p].service
                        /\ process'[p].alive = process[p].alive
                        /\ process'[p].watch = process[p].watch

\* A step of a stop: the call has no process under way, and the targets it has are those
\* it had.
LEMMA StopGoes ==
  ASSUME Shape, NEW c \in Caller, NEW k \in Call,
         k.pc \notin Starting, k.new = None,
         \A s \in Service : k.target[s].stage # "none" =>
           /\ call[c].target[s].stage # "none" /\ k.target[s].pid = call[c].target[s].pid,
         call' = [call EXCEPT ![c] = k], UNCHANGED <<spawned, lost>>, ToldAtMost,
         states' \in [Service -> ServiceState], exit_watchers' \in [Service -> Pid],
         \A s \in Service : states'[s].pid \in {None, states[s].pid}
  PROVE  Shape'
<1>1. /\ call' \in [Caller -> Call]
      /\ \A d \in Caller : call'[d] = IF d = c THEN k ELSE call[d]
  BY DEF Shape, TypeOK
<1>2. TypeOK'
  BY <1>1 DEF Shape, TypeOK, ToldAtMost
<1>3. Spawned' = Spawned /\ Spawned \subseteq Process
  BY Range DEF Spawned
<1>4. \A d \in Caller : CallShape(call[d])'
  <2> TAKE d \in Caller
  <2>1. CallShape(call[c]) /\ CallShape(call[d])
    BY DEF Shape
  <2>2. CASE d = c
    BY <1>1, <1>3, <2>1, <2>2 DEF CallShape, Starting, ToldAtMost
  <2>3. CASE d # c
    BY <1>1, <1>3, <2>1, <2>3 DEF CallShape, ToldAtMost
  <2> QED BY <2>2, <2>3
<1>5. \A p \in Process : ProcessShape(p)'
  BY DEF Shape, ProcessShape, ToldAtMost
<1>6. \A s \in Service : StateShape(s)'
  BY <1>3 DEF Shape, StateShape, ToldAtMost
<1> QED BY <1>2, <1>4, <1>5, <1>6 DEF Shape

\* stop_one or stop_all is called, with the pids of its services.
LEMMA BeginStopShape ==
  ASSUME Shape, NEW c \in Caller, NEW op \in {"stop_all", "stop_one"}, NEW S,
         \A s \in S : s \in Service => states[s].pid # None,
         BeginStop(c, op, S)
  PROVE  Shape'
<1> DEFINE target == [s \in Service |->
                        IF s \in S THEN [NoTarget EXCEPT !.pid = states[s].pid, !.stage = "signal"]
                        ELSE NoTarget]
           k == [Idle EXCEPT !.op = op, !.pc = "take", !.target = target]
<1>1. call' = [call EXCEPT ![c] = k] /\ UNCHANGED <<states, exit_watchers, spawned, process, lost>>
  BY DEF BeginStop
<1>2. \A s \in Service : states[s].pid \in Pid
  BY DEF Shape, TypeOK, ServiceState
<1>3. /\ target \in [Service -> Target]
      /\ \A s \in Service : target[s].stage # "none" => s \in S /\ target[s].pid = states[s].pid
  BY <1>2 DEF Target, NoTarget, Pid
<1> HIDE DEF target
<1>4. k \in Call /\ k.pc = "take" /\ k.new = None /\ k.target = target
  BY <1>3, IdleShape DEF Call, Idle
<1> HIDE DEF k
<1>5. CallShape(k)
  BY <1>3, <1>4 DEF CallShape, Starting, Shape, StateShape
<1> QED BY <1>1, <1>4, <1>5, CallGoes DEF Shape, TypeOK, StateShape, Spawned

\* One target goes to another stage.
LEMMA StageShape ==
  ASSUME Shape, NEW c \in Caller, NEW s \in Service,
         NEW stage \in {"wait", "escalate", "wait_again", "over"},
         At(c, "stopping"), call[c].target[s].stage # "none", SetStage(c, s, stage),
         UNCHANGED <<states, exit_watchers, spawned, lost>>, ToldAtMost
  PROVE  Shape'
<1> DEFINE k == [call[c] EXCEPT !.target[s].stage = stage]
<1>1. call[c] \in Call /\ CallShape(call[c])
  BY DEF Shape, TypeOK
<1>2. call[c].target \in [Service -> Target]
  BY <1>1 DEF Call
<1>3. /\ k \in Call /\ k.pc = call[c].pc /\ k.new = call[c].new
      /\ \A t \in Service : k.target[t].pid = call[c].target[t].pid
                            /\ (t # s => k.target[t] = call[c].target[t])
  BY <1>1, <1>2, SMTT(60) DEF Call, Target
<1>4. call' = [call EXCEPT ![c] = k]
  BY DEF SetStage
<1> HIDE DEF k
<1>5. k.new = None /\ k.pc \notin Starting
  BY <1>1, <1>3 DEF At, CallShape, Starting
<1>6. \A t \in Service : k.target[t].stage # "none" =>
        /\ call[c].target[t].stage # "none" /\ k.target[t].pid = call[c].target[t].pid
  BY <1>3
<1>7. /\ states' \in [Service -> ServiceState] /\ exit_watchers' \in [Service -> Pid]
      /\ \A t \in Service : states'[t].pid \in {None, states[t].pid}
  BY DEF Shape, TypeOK
<1> QED BY <1>3, <1>4, <1>5, <1>6, <1>7, StopGoes

\* A stop returns.
LEMMA StopReturns ==
  ASSUME Shape, NEW c \in Caller, Return(c), UNCHANGED <<states, spawned, lost>>, ToldAtMost,
         exit_watchers' \in [Service -> Pid]
  PROVE  Shape'
<1>1. /\ Idle \in Call /\ Idle.new = None /\ Idle.pc \notin Starting
      /\ \A s \in Service : Idle.target[s].stage = "none"
  BY IdleShape DEF Idle, NoTarget, Starting
<1>2. call' = [call EXCEPT ![c] = Idle]
  BY DEF Return
<1>3. /\ states' \in [Service -> ServiceState]
      /\ \A t \in Service : states'[t].pid \in {None, states[t].pid}
  BY DEF Shape, TypeOK
<1>4. \A s \in Service : Idle.target[s].stage # "none" =>
        /\ call[c].target[s].stage # "none" /\ Idle.target[s].pid = call[c].target[s].pid
  BY <1>1
<1> DEFINE k == Idle
<1>5. k \in Call /\ k.new = None /\ k.pc \notin Starting /\ call' = [call EXCEPT ![c] = k]
  BY <1>1, <1>2
<1>6. \A s \in Service : k.target[s].stage # "none" =>
        /\ call[c].target[s].stage # "none" /\ k.target[s].pid = call[c].target[s].pid
  BY <1>4
<1> HIDE DEF k
<1> QED BY <1>3, <1>5, <1>6, StopGoes

\* A signal changes nothing of a process but that it was told.
LEMMA TellAtMost == ASSUME Shape, NEW p, Tell(p) PROVE ToldAtMost
<1>1. process \in [Process -> ProcessState]
  BY DEF Shape, TypeOK
<1>2. CASE p \in Process
  <2>1. \A q \in Process : process'[q] = IF q = p THEN [process[q] EXCEPT !.told = TRUE]
                                        ELSE process[q]
    BY <1>1, <1>2 DEF Tell
  <2>2. \A q \in Process : /\ process'[q].service = process[q].service
                           /\ process'[q].alive = process[q].alive
                           /\ process'[q].watch = process[q].watch
                           /\ process'[q] \in ProcessState
    BY <1>1, <2>1 DEF ProcessState
  <2>3. process' \in [Process -> ProcessState]
    BY <1>1, <2>2 DEF Tell
  <2> QED BY <2>2, <2>3 DEF ToldAtMost
<1>3. CASE p \notin Process
  BY <1>1, <1>3 DEF Tell, ToldAtMost
<1> QED BY <1>2, <1>3

\* Nothing happens to the processes.
LEMMA NotTold == ASSUME Shape, UNCHANGED process PROVE ToldAtMost
BY DEF Shape, TypeOK, ToldAtMost

\* Every step of a stop keeps the shape.
LEMMA StopShape == ASSUME Shape, NEW c \in Caller, StopStep(c) PROVE Shape'
<1>1. CASE TakeReceivers(c)
  <2> DEFINE target == [s \in Service |->
                          IF s \in Targets(c)
                          THEN [call[c].target[s] EXCEPT !.rx = exit_watchers[s]]
                          ELSE call[c].target[s]]
             k == [call[c] EXCEPT !.pc = "stopping", !.target = target]
  <2>1. /\ call[c] \in Call /\ CallShape(call[c]) /\ call[c].target \in [Service -> Target]
        /\ \A s \in Service : exit_watchers[s] \in Pid
    BY DEF Shape, TypeOK, Call
  <2>2. /\ target \in [Service -> Target]
        /\ \A s \in Service : /\ target[s].stage = call[c].target[s].stage
                              /\ target[s].pid = call[c].target[s].pid
    BY <2>1 DEF Target
  <2>3. call' = [call EXCEPT ![c] = k]
    BY <1>1 DEF TakeReceivers
  <2> HIDE DEF target
  <2>4. k \in Call /\ k.new = call[c].new /\ k.pc = "stopping" /\ k.target = target
    BY <2>1, <2>2 DEF Call
  <2> HIDE DEF k
  <2>5. k.new = None /\ k.pc \notin Starting
    BY <1>1, <2>1, <2>4 DEF TakeReceivers, At, CallShape, Starting
  <2>6. /\ states' \in [Service -> ServiceState] /\ exit_watchers' \in [Service -> Pid]
        /\ \A s \in Service : states'[s].pid \in {None, states[s].pid}
        /\ UNCHANGED <<spawned, lost>> /\ ToldAtMost
    BY <1>1, NotTold DEF TakeReceivers, Shape, TypeOK
  <2>7. \A s \in Service : k.target[s].stage # "none" =>
          /\ call[c].target[s].stage # "none" /\ k.target[s].pid = call[c].target[s].pid
    BY <2>2, <2>4
  <2> QED BY <2>3, <2>4, <2>5, <2>6, <2>7, StopGoes
<1>2. CASE MarkStopped(c)
  <2> DEFINE k == [call[c] EXCEPT !.pc = "forget"]
  <2>1. call[c] \in Call /\ CallShape(call[c])
    BY DEF Shape, TypeOK
  <2>2. k \in Call /\ k.new = call[c].new /\ k.pc = "forget" /\ k.target = call[c].target
    BY <2>1 DEF Call
  <2>3. call' = [call EXCEPT ![c] = k]
    BY <1>2 DEF MarkStopped, Goto
  <2> HIDE DEF k
  <2>4. k.new = None /\ k.pc \notin Starting
    BY <1>2, <2>1, <2>2 DEF MarkStopped, At, CallShape, Starting
  <2>5. Stopped \in ServiceState /\ Stopped.pid = None
    BY DEF Stopped, ServiceState, Pid
  <2>6. /\ states' = [s \in Service |-> IF s \in Targets(c) THEN Stopped ELSE states[s]]
        /\ UNCHANGED <<exit_watchers, spawned, process, lost>>
    BY <1>2 DEF MarkStopped
  <2>7. /\ states' \in [Service -> ServiceState] /\ exit_watchers' \in [Service -> Pid]
        /\ \A s \in Service : states'[s].pid \in {None, states[s].pid}
        /\ UNCHANGED <<spawned, lost>> /\ ToldAtMost
    BY <2>5, <2>6, NotTold DEF Shape, TypeOK
  <2> QED BY <2>2, <2>3, <2>4, <2>7, StopGoes
<1>3. CASE ForgetWatchers(c)
  <2>1. /\ exit_watchers' = [s \in Service |-> IF s \in Targets(c) THEN None ELSE exit_watchers[s]]
        /\ Return(c) /\ UNCHANGED <<states, spawned, process, lost>>
    BY <1>3 DEF ForgetWatchers
  <2>2. exit_watchers' \in [Service -> Pid]
    BY <2>1 DEF Shape, TypeOK, Pid
  <2> QED BY <2>1, <2>2, NotTold, StopReturns
<1>4. ASSUME NEW s \in Service, Signal(c, s) PROVE Shape'
  <2>1. /\ At(c, "stopping") /\ UNCHANGED <<states, exit_watchers, spawned, lost>> /\ ToldAtMost
    BY <1>4, TellAtMost DEF Signal
  <2>2. CASE call[c].target[s].stage = "signal" /\ SetStage(c, s, "wait")
    BY <2>1, <2>2, StageShape
  <2>3. CASE call[c].target[s].stage = "escalate" /\ SetStage(c, s, "wait_again")
    BY <2>1, <2>3, StageShape
  <2> QED BY <1>4, <2>2, <2>3 DEF Signal
<1>5. ASSUME NEW s \in Service, SignalFails(c, s) PROVE Shape'
  <2>1. /\ At(c, "stopping") /\ call[c].target[s].stage = "signal"
        /\ UNCHANGED <<states, exit_watchers, spawned, lost>> /\ ToldAtMost
        /\ exit_watchers' \in [Service -> Pid]
    BY <1>5, TellAtMost DEF SignalFails, Shape, TypeOK
  <2>2. CASE Return(c)
    BY <2>1, <2>2, StopReturns
  <2>3. CASE SetStage(c, s, "over")
    BY <2>1, <2>3, StageShape
  <2> QED BY <1>5, <2>2, <2>3 DEF SignalFails
<1>6. ASSUME NEW s \in Service, WaitEnds(c, s) \/ GraceExpires(c, s) PROVE Shape'
  <2>1. /\ At(c, "stopping") /\ call[c].target[s].stage # "none" /\ ToldAtMost
        /\ UNCHANGED <<states, exit_watchers, spawned, lost>>
    BY <1>6, NotTold DEF WaitEnds, GraceExpires, Waiting
  <2>2. \E stage \in {"escalate", "over"} : SetStage(c, s, stage)
    BY <1>6 DEF WaitEnds, GraceExpires
  <2> QED BY <2>1, <2>2, StageShape
<1> QED BY <1>1, <1>2, <1>3, <1>4, <1>5, <1>6 DEF StopStep

-----------------------------------------------------------------------------
(* The processes, the exit watchers and the screens. *)

\* One process dies, or its watcher goes on once it has died.
LEMMA ProcessShapes ==
  ASSUME Shape, NEW p \in Process, NEW new \in ProcessState,
         new.service = process[p].service, new.told = process[p].told,
         ~new.alive, process[p].alive => p <= spawned,
         p > spawned => new.watch = "done",
         process' = [process EXCEPT ![p] = new], UNCHANGED <<spawned, call, exit_watchers>>,
         states' \in [Service -> ServiceState], lost' \in SUBSET Process,
         \A s \in Service : states'[s].pid \in {None, states[s].pid}
  PROVE  Shape'
<1>1. /\ process' \in [Process -> ProcessState]
      /\ \A q \in Process : process'[q] = IF q = p THEN new ELSE process[q]
  BY DEF Shape, TypeOK
<1>2. \A q \in Process : ProcessShape(q)'
  <2> TAKE q \in Process
  <2>1. ProcessShape(q) /\ ProcessShape(p)
    BY DEF Shape
  <2>2. CASE q = p
    BY <1>1, <2>1, <2>2 DEF ProcessShape
  <2>3. CASE q # p
    BY <1>1, <2>1, <2>3 DEF ProcessShape
  <2> QED BY <2>2, <2>3
<1>3. \A q \in Process : process'[q].service = process[q].service
  BY <1>1
<1> QED BY <1>1, <1>2, <1>3, ProcessesGo
\* A process dies, or its exit watcher goes on.
LEMMA ExitShape ==
  ASSUME Shape, NEW p \in Process, Die(p) \/ ExitWatcher(p)
  PROVE  Shape'
<1>1. /\ process[p] \in ProcessState /\ ProcessShape(p)
      /\ spawned \in Nat /\ p \in Nat
      /\ states \in [Service -> ServiceState] /\ lost \subseteq Process
      /\ \A s \in Service : states[s].pid \in Pid
  BY Range DEF Shape, TypeOK, ServiceState
<1>2. CASE Die(p)
  <2> DEFINE new == [process[p] EXCEPT !.alive = FALSE]
  <2>1. new \in ProcessState /\ new.service = process[p].service /\ new.told = process[p].told
        /\ ~new.alive /\ new.watch = process[p].watch
    BY <1>1 DEF ProcessState
  <2>2. /\ process' = [process EXCEPT ![p] = new] /\ process[p].alive
        /\ UNCHANGED <<states, exit_watchers, spawned, call, lost>>
    BY <1>2 DEF Die, Alive
  <2> HIDE DEF new
  <2>3. p <= spawned /\ ~(p > spawned)
    BY <1>1, <2>2 DEF ProcessShape
  <2> QED BY <1>1, <2>1, <2>2, <2>3, ProcessShapes
<1>3. ASSUME NEW watch \in {"exited", "marking", "done"}, process[p].watch # "done",
             process[p].watch = "waiting" => ~process[p].alive,
             process' = [process EXCEPT ![p].watch = watch],
             UNCHANGED <<exit_watchers, spawned, call>>,
             states' \in [Service -> ServiceState], lost' \in SUBSET Process,
             \A s \in Service : states'[s].pid \in {None, states[s].pid}
      PROVE  Shape'
  <2> DEFINE new == [process[p] EXCEPT !.watch = watch]
  <2>1. new \in ProcessState /\ new.service = process[p].service /\ new.told = process[p].told
        /\ new.alive = process[p].alive
    BY <1>1 DEF ProcessState
  <2>2. process' = [process EXCEPT ![p] = new]
    BY <1>3
  <2>3. p <= spawned /\ ~(p > spawned) /\ ~process[p].alive
    BY <1>1, <1>3 DEF ProcessShape
  <2> HIDE DEF new
  <2> QED BY <1>1, <1>3, <2>1, <2>2, <2>3, ProcessShapes
<1>4. CASE NoticeExit(p)
  <2>1. /\ process[p].watch = "waiting" /\ ~process[p].alive
        /\ process' = [process EXCEPT ![p].watch = "exited"]
        /\ UNCHANGED <<states, exit_watchers, spawned, call, lost>>
    BY <1>4 DEF NoticeExit
  <2> QED BY <1>1, <1>3, <2>1
<1>5. CASE ReadStatus(p)
  <2>1. /\ process[p].watch = "exited"
        /\ \E watch \in {"exited", "marking", "done"} : process' = [process EXCEPT ![p].watch = watch]
        /\ UNCHANGED <<states, exit_watchers, spawned, call, lost>>
    BY <1>5 DEF ReadStatus
  <2> QED BY <1>1, <1>3, <2>1
<1>6. ASSUME NEW status \in {"Failed", "Stopped"}, MarkExit(p, status) PROVE Shape'
  <2> DEFINE s == process[p].service
             ended == [status |-> status, pid |-> None]
  <2>1. /\ process[p].watch = "marking" /\ process' = [process EXCEPT ![p].watch = "done"]
        /\ states' = [states EXCEPT ![s] = ended]
        /\ lost' = lost \cup ({states[s].pid} \ {None, p})
        /\ UNCHANGED <<exit_watchers, spawned, call>>
    BY <1>6 DEF MarkExit
  <2>2. s \in Service
    BY <1>1, <2>1 DEF ProcessShape
  <2>3. ended \in ServiceState /\ ended.pid = None
    BY DEF ServiceState, Pid
  <2> HIDE DEF ended
  <2>4. /\ states' \in [Service -> ServiceState]
        /\ \A t \in Service : states'[t].pid \in {None, states[t].pid}
    BY <1>1, <2>1, <2>3
  <2>5. lost' \in SUBSET Process
    BY <1>1, <2>1, <2>2 DEF Pid
  <2> QED BY <1>3, <2>1, <2>4, <2>5
<1> QED BY <1>2, <1>4, <1>5, <1>6 DEF ExitWatcher

\* refresh_status forgets pids, and changes nothing else.
LEMMA RefreshShape == ASSUME Shape, RefreshStatus PROVE Shape'
<1>1. Stopped \in ServiceState /\ Stopped.pid = None
  BY DEF Stopped, ServiceState, Pid
<1>2. /\ states' \in [Service -> ServiceState]
      /\ \A s \in Service : states'[s].pid \in {None, states[s].pid}
      /\ UNCHANGED <<exit_watchers, spawned, process, call, lost>>
  BY <1>1 DEF RefreshStatus, Shape, TypeOK
<1>3. /\ process' \in [Process -> ProcessState] /\ lost' \in SUBSET Process
      /\ \A p \in Process : ProcessShape(p)'
  BY <1>2 DEF Shape, TypeOK, ProcessShape
<1> QED BY <1>2, <1>3, ProcessesGo

\* Every call that is made keeps the shape.
LEMMA NewCallShape == ASSUME Shape, NEW c \in Caller, NewCall(c) PROVE Shape'
<1>1. CASE StartAll(c)
  BY <1>1, ProcessManagerAssumption, BeginShape DEF StartAll
<1>2. ASSUME NEW s \in Service, StartOne(c, s) PROVE Shape'
  <2>1. <<s>> \in Seq(Service)
    OBVIOUS
  <2> QED BY <1>2, <2>1, BeginShape DEF StartOne
<1>3. CASE StopAll(c)
  <2> DEFINE S == {s \in Service : states[s].status = "Running" /\ states[s].pid # None}
  <2>1. BeginStop(c, "stop_all", S) /\ \A s \in S : s \in Service => states[s].pid # None
    BY <1>3 DEF StopAll
  <2> QED BY <2>1, BeginStopShape
<1>4. ASSUME NEW s \in Service, StopOne(c, s) PROVE Shape'
  <2> DEFINE S == {s} \cap {t \in Service : states[t].pid # None}
  <2>1. BeginStop(c, "stop_one", S) /\ \A t \in S : t \in Service => states[t].pid # None
    BY <1>4 DEF StopOne
  <2> QED BY <2>1, BeginStopShape
<1> QED BY <1>1, <1>2, <1>3, <1>4 DEF NewCall

\* Every step keeps the shape.
LEMMA ShapeNext == ASSUME Shape, [Next]_vars PROVE Shape'
<1>1. CASE UNCHANGED vars
  BY <1>1 DEF vars, Shape, TypeOK, CallShape, ProcessShape, StateShape, Spawned
<1>2. ASSUME NEW c \in Caller, NewCall(c) \/ StartStep(c) \/ StopStep(c) PROVE Shape'
  BY <1>2, NewCallShape, StartShape, StopShape
<1>3. ASSUME NEW p \in Process, Die(p) \/ ExitWatcher(p) PROVE Shape'
  BY <1>3, ExitShape
<1> QED BY <1>1, <1>2, <1>3, RefreshShape DEF Next

\* The variables keep their shapes, and a service is only ever said to run a process of
\* its own, for any number of services and callers (start_one, stop_one, logs.rs).
THEOREM TypeCorrect == Spec => []TypeOK
<1>1. Spec => []Shape
  BY ShapeInit, ShapeNext, PTL DEF Spec
<1>2. Shape => TypeOK
  BY DEF Shape
<1> QED BY <1>1, <1>2, PTL
-----------------------------------------------------------------------------
(* What a manager called by one caller at a time knows. *)

OneCaller == \A c, d \in Caller : c = d

\* Process p lives, nobody asked it to stop, and its record was not written over.
Live(p) == p \in Spawned /\ process[p].alive /\ ~process[p].told /\ p \notin lost
OnlyLive(s, p) == \A q \in Process : Live(q) /\ process[q].service = s => q = p

\* A start has nothing else of its service alive but what it spawned; a stop has the
\* process of the service, told once it was signalled, and no flag but its own.
CallKnows(k) ==
  /\ k.pc \in Starting => \A s \in Service : k.target[s].stage = "none"
  /\ k.pc \in {"spawn", "fail", "store", "record"} => OnlyLive(Head(k.todo), k.new)
  /\ k.pc = "record" => exit_watchers[Head(k.todo)] = k.new
  /\ \A s \in Service : k.target[s].stage # "none" =>
       /\ OnlyLive(s, k.target[s].pid)
       /\ k.target[s].stage # "signal" => process[k.target[s].pid].told
       /\ k.pc = "take" => exit_watchers[s] \in {None, k.target[s].pid}
       /\ k.pc = "stopping" => k.target[s].rx \in {None, k.target[s].pid}

ServiceKnown(s) ==
  /\ \A p \in Process :
       Live(p) /\ Recorded(p) /\ process[p].service = s
         => states[s].status = "Running" /\ states[s].pid = p
  /\ states[s].pid # None /\ (\A c \in Caller : At(c, "record") => Current(c) # s)
       => exit_watchers[s] \in {None, states[s].pid}

Known == /\ \A c \in Caller : CallKnows(call[c])
         /\ \A s \in Service : ServiceKnown(s)

IInv == Shape /\ Known

\* At first nothing lives.
LEMMA KnownInit == Init => Known
<1> SUFFICES ASSUME Init PROVE Known
  OBVIOUS
<1>1. /\ \A c \in Caller : call[c] = Idle
      /\ \A s \in Service : states[s].pid = None
      /\ spawned = 0
  BY DEF Init, Stopped
<1>2. CallKnows(Idle)
  BY DEF CallKnows, Idle, NoTarget, Starting
<1>3. \A p \in Process : ~Live(p)
  BY <1>1, ProcessManagerAssumption DEF Live, Spawned, Process
<1>4. \A s \in Service : ServiceKnown(s)
  BY <1>1, <1>3 DEF ServiceKnown
<1> QED BY <1>1, <1>2, <1>4 DEF Known

\* The one call of the one caller.
LEMMA TheCall ==
  ASSUME IInv, OneCaller, NEW c \in Caller
  PROVE  /\ call[c] \in Call /\ CallShape(call[c]) /\ CallKnows(call[c])
         /\ \A p \in Process : Recorded(p) <=> p \in Spawned /\ call[c].new # p
         /\ \A d \in Caller : d = c
         /\ call \in [Caller -> Call]
<1>1. spawned \in Nat /\ \A p \in Process : p \in Nat \ {None}
  BY Range DEF IInv
<1> QED BY <1>1 DEF IInv, Known, Shape, TypeOK, OneCaller, Recorded, Spawned, Process, None

\* With one caller, what the one call knows is what every call knows.
LEMMA OneKnows ==
  ASSUME NEW c \in Caller, \A d \in Caller : d = c, NEW k, call'[c] = k, CallKnows(k)'
  PROVE  \A d \in Caller : CallKnows(call[d])'
<1> SUFFICES ASSUME NEW d \in Caller PROVE CallKnows(call[d])'
  OBVIOUS
<1>1. call'[d] = k
  OBVIOUS
<1> QED BY <1>1 DEF CallKnows

\* A step that only moves the call, before or after a service is recorded.
LEMMA QuietKeeps ==
  ASSUME IInv, OneCaller, NEW c \in Caller, NEW k \in Call, CallKnows(k),
         call' = [call EXCEPT ![c] = k], k.new = call[c].new,
         call[c].pc # "record", k.pc # "record",
         UNCHANGED <<states, exit_watchers, spawned, process, lost>>
  PROVE  Known'
<1>1. call'[c] = k /\ (\A d \in Caller : d = c)
  BY TheCall
<1>2. CallKnows(k)'
  BY DEF CallKnows, OnlyLive, Live, Spawned
<1>3. \A d \in Caller : CallKnows(call[d])'
  BY <1>1, <1>2, OneKnows
<1>4. \A p \in Process : (Live(p) <=> Live(p)') /\ (Recorded(p) <=> Recorded(p)')
  BY <1>1 DEF Live, Spawned, Recorded
<1>5. \A d \in Caller : ~At(d, "record") /\ ~At(d, "record")'
  BY <1>1 DEF At
<1>6. \A s \in Service : ServiceKnown(s)'
  <2> TAKE s \in Service
  <2>1. ServiceKnown(s)
    BY DEF IInv, Known
  <2> QED BY <2>1, <1>4, <1>5 DEF ServiceKnown
<1> QED BY <1>3, <1>6 DEF Known
\* A start that was called knows nothing yet.
LEMMA BeginKnown ==
  ASSUME IInv, OneCaller, NEW c \in Caller, NEW op \in {"start_all", "start_one"},
         NEW todo \in Seq(Service), Begin(c, op, todo)
  PROVE  Known'
<1> DEFINE k == [Idle EXCEPT !.op = op, !.todo = todo, !.pc = "check"]
<1>1. k \in Call /\ k.new = None /\ k.pc = "check" /\ k.target = Idle.target
  BY IdleShape DEF Call, Idle
<1>2. /\ call' = [call EXCEPT ![c] = k] /\ call[c].pc = "idle"
      /\ UNCHANGED <<states, exit_watchers, spawned, process, lost>>
  BY DEF Begin, At
<1>3. \A s \in Service : k.target[s].stage = "none"
  BY <1>1 DEF Idle, NoTarget
<1> HIDE DEF k
<1>4. CallKnows(k)
  BY <1>1, <1>3 DEF CallKnows
<1>5. call[c].new = None
  BY <1>2, TheCall DEF CallShape
<1> QED BY <1>1, <1>2, <1>4, <1>5, QuietKeeps

\* The call that goes on to the next service knows nothing of it.
LEMMA NextKnows ==
  ASSUME IInv, OneCaller, NEW c \in Caller, call[c].pc \in Starting
  PROVE  \E k \in Call : k = NextCall(call[c]) /\ CallKnows(k) /\ CallKnows(k)'
                        /\ k.new = None /\ k.pc \in {"idle", "check"}
<1>0. PICK k \in Call : k = NextCall(call[c])
  BY NextService DEF IInv
<1>1. \A s \in Service : call[c].target[s].stage = "none"
  BY TheCall DEF CallKnows
<1>2. k.pc \in {"idle", "check"} /\ \A s \in Service : k.target[s].stage = "none"
  BY <1>0, <1>1, NextService DEF IInv
<1>3. CallKnows(k) /\ CallKnows(k)'
  BY <1>2 DEF CallKnows, Starting
<1>4. k.new = None
  BY <1>0, NextService DEF IInv
<1> QED BY <1>0, <1>2, <1>3, <1>4

\* A start goes on when nothing of its service lives, as far as is known.
LEMMA GotoKnows ==
  ASSUME IInv, OneCaller, NEW c \in Caller, NEW pc \in {"spawn", "fail"},
         call[c].pc \in {"check", "spawn"},
         OnlyLive(Current(c), None), Goto(c, pc),
         UNCHANGED <<states, exit_watchers, spawned, process, lost>>
  PROVE  Known'
<1> DEFINE k == [call[c] EXCEPT !.pc = pc]
<1>1. /\ call[c] \in Call /\ CallKnows(call[c]) /\ call[c].new = None
  BY TheCall DEF CallShape
<1>2. k \in Call /\ k.pc = pc /\ k.todo = call[c].todo /\ k.new = call[c].new
      /\ k.target = call[c].target
  BY <1>1 DEF Call
<1>3. call' = [call EXCEPT ![c] = k]
  BY DEF Goto
<1> HIDE DEF k
<1>4. CallKnows(k)
  BY <1>1, <1>2 DEF CallKnows, Starting, Current
<1> QED BY <1>2, <1>3, <1>4, QuietKeeps

\* A service that does not run has nothing alive, as far as is known.
LEMMA CheckKnown == ASSUME IInv, OneCaller, NEW c \in Caller, CheckRunning(c) PROVE Known'
<1>1. /\ call[c].pc = "check" /\ UNCHANGED <<states, exit_watchers, spawned, process, lost>>
      /\ call[c].new = None
  BY TheCall DEF CheckRunning, At, CallShape
<1>2. CASE GoToNextService(c)
  <2>1. PICK k \in Call : k = NextCall(call[c]) /\ CallKnows(k) /\ CallKnows(k)'
                         /\ k.new = None /\ k.pc \in {"idle", "check"}
    BY <1>1, NextKnows DEF Starting
  <2>2. call' = [call EXCEPT ![c] = k]
    BY <1>2, <2>1 DEF GoToNextService, NextCall
  <2> QED BY <1>1, <2>1, <2>2, QuietKeeps
<1>3. CASE ~IsServiceRunning(Current(c)) /\ Goto(c, "spawn")
  <2>1. Current(c) \in Service
    BY <1>1, NextService DEF Starting, IInv
  <2>2. \A p \in Process : Recorded(p) <=> p \in Spawned
    BY <1>1, TheCall, Range DEF IInv
  <2>3. OnlyLive(Current(c), None)
    BY <1>3, <2>1, <2>2, Range DEF OnlyLive, IInv, Known, ServiceKnown, Live, IsServiceRunning, Alive
  <2> QED BY <1>1, <1>3, <2>3, GotoKnows
<1> QED BY <1>2, <1>3 DEF CheckRunning

\* What is spawned is the one thing alive of its service.
LEMMA SpawnKnown == ASSUME IInv, OneCaller, NEW c \in Caller, Spawn(c) PROVE Known'
<1>0. PICK p : p = spawned + 1
  OBVIOUS
<1> DEFINE new == [service |-> Current(c), alive |-> TRUE, told |-> FALSE, watch |-> "waiting"]
           k == [call[c] EXCEPT !.new = p, !.pc = "store"]
<1>1. /\ call[c] \in Call /\ CallShape(call[c]) /\ CallKnows(call[c]) /\ call[c].pc = "spawn"
      /\ Current(c) \in Service /\ call[c].new = None
      /\ \A s \in Service : call[c].target[s].stage = "none"
  BY TheCall, NextService DEF IInv, Spawn, At, Starting, CallShape, CallKnows
<1>2. /\ spawned' = p /\ p \in Process /\ spawned \in Nat /\ Spawned \subseteq Process
      /\ p \notin Spawned /\ \A q \in Process : q \in Spawned' <=> q \in Spawned \/ q = p
  BY <1>0, Range DEF Spawn, Process, IInv, Spawned
<1>3. process' = [process EXCEPT ![p] = new] /\ process \in [Process -> ProcessState]
  BY <1>0 DEF Spawn, IInv, Shape, TypeOK
<1>4. \A q \in Process : process'[q] = IF q = p THEN new ELSE process[q]
  BY <1>2, <1>3
<1>5. /\ k \in Call /\ k.new = p /\ k.pc = "store" /\ k.todo = call[c].todo
      /\ k.target = call[c].target
  BY <1>1, <1>2 DEF Call, Pid
<1>6. call' = [call EXCEPT ![c] = k] /\ UNCHANGED <<states, exit_watchers, lost>>
  BY <1>0 DEF Spawn
<1>7. new.service = Current(c)
  OBVIOUS
<1> HIDE DEF k, new
<1>8. call'[c] = k /\ (\A d \in Caller : d = c)
  BY <1>6, TheCall
<1>9. \A q \in Process : Live(q)' => q = p \/ (Live(q) /\ process'[q] = process[q])
  BY <1>2, <1>4, <1>6 DEF Live
<1>10. \A q \in Process : q # p /\ process[q].service = Current(c) => ~Live(q)
  BY <1>1, <1>2, Range DEF CallKnows, OnlyLive, Current, IInv
<1>11. CallKnows(call[c])'
  <2>1. OnlyLive(Head(call[c].todo), call[c].new)'
    <3>1. Head(call'[c].todo) = Current(c) /\ call'[c].new = p
      BY <1>5, <1>8 DEF Current
    <3> QED BY <1>9, <1>10, <3>1 DEF OnlyLive
  <2> QED BY <2>1, <1>1, <1>5, <1>8 DEF CallKnows, Starting
<1>12. \A d \in Caller : CallKnows(call[d])'
  BY <1>8, <1>11
<1>13. \A q \in Process : Recorded(q)' => q # p
  BY <1>5, <1>8 DEF Recorded
<1>14. \A q \in Process : Live(q) => Recorded(q)
  BY <1>1, TheCall, Range DEF Live, IInv
<1>15. \A d \in Caller : ~At(d, "record")
  BY <1>1, <1>8 DEF At
<1>16. \A s \in Service : ServiceKnown(s)'
  <2> TAKE s \in Service
  <2>1. ServiceKnown(s)
    BY DEF IInv, Known
  <2> QED BY <2>1, <1>6, <1>9, <1>13, <1>14, <1>15 DEF ServiceKnown
<1> QED BY <1>12, <1>16 DEF Known
\* A call that is not under way knows nothing.
LEMMA IdleKnows ==
  /\ Idle.new = None /\ Idle.pc = "idle" /\ \A s \in Service : Idle.target[s].stage = "none"
  /\ CallKnows(Idle)
BY DEF Idle, NoTarget, CallKnows, Starting

\* A start whose command cannot be run spawned nothing.
LEMMA SpawnFailsKnown == ASSUME IInv, OneCaller, NEW c \in Caller, SpawnFails(c) PROVE Known'
<1>1. /\ call[c].pc = "spawn" /\ UNCHANGED <<states, exit_watchers, spawned, process, lost>>
      /\ call[c].new = None /\ CallKnows(call[c])
  BY TheCall DEF SpawnFails, At, CallShape
<1>2. CASE Goto(c, "fail")
  <2>1. OnlyLive(Current(c), None)
    BY <1>1 DEF CallKnows, Current
  <2> QED BY <1>1, <1>2, <2>1, GotoKnows
<1>3. CASE Return(c)
  <2>1. call' = [call EXCEPT ![c] = Idle]
    BY <1>3 DEF Return
  <2> QED BY <1>1, <2>1, IdleShape, IdleKnows, QuietKeeps
<1> QED BY <1>2, <1>3 DEF SpawnFails

\* A service is recorded, as failed or as running what was spawned for it, and the start
\* goes on to the next one.
LEMMA RecordKeeps ==
  ASSUME IInv, OneCaller, NEW c \in Caller, NEW state \in ServiceState,
         call[c].pc \in {"fail", "record"}, GoToNextService(c),
         state.pid = call[c].new, state.pid # None => state.status = "Running",
         states' = [states EXCEPT ![Current(c)] = state],
         UNCHANGED <<exit_watchers, spawned, process, lost>>
  PROVE  Known'
<1>1. /\ CallKnows(call[c]) /\ CallShape(call[c]) /\ Current(c) \in Service
      /\ \A d \in Caller : d = c
  BY TheCall, NextService DEF IInv, Starting
<1>2. PICK k \in Call : k = NextCall(call[c]) /\ CallKnows(k) /\ CallKnows(k)'
                       /\ k.new = None /\ k.pc \in {"idle", "check"}
  BY NextKnows DEF Starting
<1>3. call'[c] = k
  BY <1>2, TheCall DEF GoToNextService, NextCall
<1>4. \A d \in Caller : CallKnows(call[d])'
  BY <1>1, <1>2, <1>3, OneKnows
<1>5. \A s \in Service : states'[s] = IF s = Current(c) THEN state ELSE states[s]
  BY DEF IInv, Shape, TypeOK
<1>6. \A p \in Process : (Live(p)' <=> Live(p)) /\ p # None
  BY Range DEF Live, Spawned, IInv
<1>7. \A p \in Process : Live(p) /\ process[p].service = Current(c) => p = state.pid
  BY <1>1 DEF CallKnows, OnlyLive, Current
<1>8. \A s \in Service : ServiceKnown(s)'
  <2> TAKE s \in Service
  <2>1. ServiceKnown(s)
    BY DEF IInv, Known
  <2>2. CASE s = Current(c)
    <3>1. \A p \in Process : Live(p)' /\ process'[p].service = s
            => states'[s].status = "Running" /\ states'[s].pid = p
      BY <2>2, <1>5, <1>6, <1>7
    <3>2. states'[s].pid # None => exit_watchers'[s] = states'[s].pid
      <4>1. call[c].pc = "fail" => call[c].new = None
        BY <1>1 DEF CallShape
      <4> QED BY <2>2, <4>1, <1>1, <1>5 DEF CallKnows, Current
    <3> QED BY <3>1, <3>2 DEF ServiceKnown
  <2>3. CASE s # Current(c)
    <3>1. states'[s] = states[s]
      BY <2>3, <1>5
    <3>2. \A p \in Process : Live(p) /\ process[p].service = s => Recorded(p)
      <4>1. call[c].new # None => process[call[c].new].service = Current(c)
        BY <1>1 DEF CallShape, Current
      <4> QED BY <2>3, <4>1, <1>6, TheCall DEF Live
    <3>3. \A d \in Caller : At(d, "record") => Current(d) # s
      BY <2>3, <1>1
    <3> QED BY <2>1, <3>1, <3>2, <3>3, <1>6 DEF ServiceKnown
  <2> QED BY <2>2, <2>3
<1> QED BY <1>4, <1>8 DEF Known

\* The exit watcher in the map is that of the process under way.
LEMMA StoreKnown == ASSUME IInv, OneCaller, NEW c \in Caller, StoreWatcher(c) PROVE Known'
<1> DEFINE k == [call[c] EXCEPT !.pc = "record"]
<1>1. /\ call[c] \in Call /\ CallKnows(call[c]) /\ CallShape(call[c])
      /\ call[c].pc = "store" /\ Current(c) \in Service /\ \A d \in Caller : d = c
  BY TheCall, NextService DEF IInv, StoreWatcher, At, Starting
<1>2. k \in Call /\ k.pc = "record" /\ k.todo = call[c].todo /\ k.new = call[c].new
      /\ k.target = call[c].target
  BY <1>1 DEF Call
<1>3. call' = [call EXCEPT ![c] = k] /\ UNCHANGED <<states, spawned, process, lost>>
  BY DEF StoreWatcher, Goto
<1> HIDE DEF k
<1>4. call'[c] = k
  BY <1>3, TheCall
<1>5. \A s \in Service : exit_watchers'[s] = IF s = Current(c) THEN call[c].new
                                            ELSE exit_watchers[s]
  BY DEF StoreWatcher, IInv, Shape, TypeOK
<1>6. \A p \in Process : (Live(p)' <=> Live(p)) /\ (Recorded(p)' <=> Recorded(p))
  BY <1>1, <1>2, <1>3, <1>4 DEF Live, Spawned, Recorded
<1>7. CallKnows(call[c])'
  <2>1. OnlyLive(Head(call[c].todo), call[c].new)'
    BY <1>1, <1>2, <1>3, <1>4, <1>6 DEF CallKnows, OnlyLive
  <2>2. \A s \in Service : k.target[s].stage = "none"
    BY <1>1, <1>2 DEF CallKnows, Starting
  <2> QED BY <2>1, <2>2, <1>1, <1>2, <1>4, <1>5 DEF CallKnows, Starting, Current
<1>8. \A d \in Caller : CallKnows(call[d])'
  BY <1>1, <1>7
<1>9. Current(c)' = Current(c) /\ At(c, "record")'
  BY <1>2, <1>4 DEF Current, At
<1>10. \A s \in Service : ServiceKnown(s)'
  <2> TAKE s \in Service
  <2>1. ServiceKnown(s)
    BY DEF IInv, Known
  <2>2. \A d \in Caller : ~At(d, "record")
    BY <1>1 DEF At
  <2> QED BY <2>1, <2>2, <1>3, <1>5, <1>6, <1>9 DEF ServiceKnown
<1> QED BY <1>8, <1>10 DEF Known

\* Every step of a start keeps what is known.
LEMMA StartKnown == ASSUME IInv, OneCaller, NEW c \in Caller, StartStep(c) PROVE Known'
<1>0. call[c].new \in Pid /\ None \in Pid
  BY TheCall DEF Call, Pid
<1>1. CASE RecordFailure(c)
  <2>1. PICK state \in ServiceState : state = [status |-> "Failed", pid |-> None]
    BY <1>0 DEF ServiceState
  <2>2. call[c].pc = "fail" /\ call[c].new = None
    BY <1>1, TheCall DEF RecordFailure, At, CallShape
  <2>3. /\ GoToNextService(c) /\ UNCHANGED <<exit_watchers, spawned, process, lost>>
        /\ states' = [states EXCEPT ![Current(c)] = state]
    BY <1>1, <2>1 DEF RecordFailure
  <2>4. state.pid = None
    BY <2>1
  <2> QED BY <2>2, <2>3, <2>4, RecordKeeps
<1>2. CASE RecordRunning(c)
  <2>1. PICK state \in ServiceState : state = [status |-> "Running", pid |-> call[c].new]
    BY <1>0 DEF ServiceState
  <2>2. /\ call[c].pc = "record" /\ GoToNextService(c)
        /\ UNCHANGED <<exit_watchers, spawned, process, lost>>
        /\ states' = [states EXCEPT ![Current(c)] = state]
    BY <1>2, <2>1 DEF RecordRunning, At
  <2>3. state.pid = call[c].new /\ state.status = "Running"
    BY <2>1
  <2> QED BY <2>2, <2>3, RecordKeeps
<1> QED BY <1>1, <1>2, CheckKnown, SpawnKnown, SpawnFailsKnown, StoreKnown DEF StartStep
\* Whoever was told has been told.
StillTold == \A p \in Process : process[p].told => process'[p].told

\* What a stop knows of its target.
TargetKnows(target, s, told) ==
  target.stage # "none" => /\ OnlyLive(s, target.pid)
                           /\ target.stage # "signal" => told[target.pid].told

\* A step of a stop: what it says is stopped has no process that nobody told.
LEMMA StopKeeps ==
  ASSUME IInv, OneCaller, NEW c \in Caller, NEW k \in Call,
         call' = [call EXCEPT ![c] = k], k.new = None,
         k.pc \notin Starting, call[c].pc \notin Starting,
         UNCHANGED <<spawned, lost>>, ToldAtMost, StillTold,
         \A s \in Service : exit_watchers'[s] \in {None, exit_watchers[s]},
         \A s \in Service : \/ states'[s] = states[s]
                            \/ states'[s].pid = None /\ \A p \in Process :
                                  process[p].service = s => ~Live(p)',
         \A s \in Service : TargetKnows(k.target[s], s, process'),
         \A s \in Service : k.target[s].stage # "none" =>
           /\ k.pc = "take" => exit_watchers[s] \in {None, k.target[s].pid}
           /\ k.pc = "stopping" => k.target[s].rx \in {None, k.target[s].pid}
  PROVE  Known'
<1>1. /\ call'[c] = k /\ (\A d \in Caller : d = c) /\ call[c].new = None
  BY TheCall DEF CallShape, Starting
<1>2. \A p \in Process : (Live(p)' => Live(p)) /\ p # None
  BY Range DEF Live, Spawned, ToldAtMost, StillTold, IInv
<1>3. \A s \in Service : k.target[s].stage # "none" => OnlyLive(s, k.target[s].pid)'
  <2> TAKE s \in Service
  <2> HAVE k.target[s].stage # "none"
  <2>1. OnlyLive(s, k.target[s].pid)
    BY DEF TargetKnows
  <2> QED BY <2>1, <1>2 DEF OnlyLive, ToldAtMost
<1>4. CallKnows(k)'
  <2>1. \A s \in Service : k.target[s].stage # "none" =>
          /\ k.target[s].stage # "signal" => process'[k.target[s].pid].told
          /\ k.pc = "take" => exit_watchers'[s] \in {None, k.target[s].pid}
    BY DEF TargetKnows
  <2> QED BY <1>3, <2>1 DEF CallKnows, Starting
<1>5. \A d \in Caller : CallKnows(call[d])'
  BY <1>1, <1>4, OneKnows
<1>6. \A p \in Process : Live(p) => Recorded(p)
  BY <1>1, <1>2, TheCall DEF Live
<1>7. \A d \in Caller : ~At(d, "record")
  BY <1>1 DEF At, Starting
<1>8. \A s \in Service : ServiceKnown(s)'
  <2> TAKE s \in Service
  <2>1. ServiceKnown(s)
    BY DEF IInv, Known
  <2>2. \A p \in Process : Live(p)' /\ process'[p].service = s
          => states'[s].status = "Running" /\ states'[s].pid = p
    BY <2>1, <1>2, <1>6 DEF ServiceKnown, ToldAtMost
  <2>3. states'[s].pid # None => exit_watchers'[s] \in {None, states'[s].pid}
    BY <2>1, <1>7 DEF ServiceKnown
  <2> QED BY <2>2, <2>3 DEF ServiceKnown
<1> QED BY <1>5, <1>8 DEF Known

\* Nothing happens to the processes.
LEMMA Untold == ASSUME UNCHANGED process PROVE StillTold
BY DEF StillTold

\* Who is signalled has been told, and the others as before.
LEMMA TellStays == ASSUME IInv, NEW p \in Process, Tell(p) PROVE StillTold /\ process'[p].told
<1>1. process \in [Process -> ProcessState]
  BY DEF IInv, Shape, TypeOK
<1>2. \A q \in Process : process'[q] = IF q = p THEN [process[q] EXCEPT !.told = TRUE]
                                      ELSE process[q]
  BY <1>1 DEF Tell
<1>3. process'[p].told
  BY <1>1, <1>2 DEF ProcessState
<1> QED BY <1>2, <1>3 DEF StillTold

\* A stop takes the process its service is known to run.
LEMMA BeginStopKnown ==
  ASSUME IInv, OneCaller, NEW c \in Caller, NEW op \in {"stop_all", "stop_one"}, NEW S,
         \A s \in S : s \in Service => states[s].pid # None,
         BeginStop(c, op, S)
  PROVE  Known'
<1> DEFINE target == [s \in Service |->
                        IF s \in S THEN [NoTarget EXCEPT !.pid = states[s].pid, !.stage = "signal"]
                        ELSE NoTarget]
           k == [Idle EXCEPT !.op = op, !.pc = "take", !.target = target]
<1>1. /\ call' = [call EXCEPT ![c] = k] /\ call[c].pc = "idle"
      /\ UNCHANGED <<states, exit_watchers, spawned, process, lost>>
  BY DEF BeginStop, At
<1>2. \A s \in Service : states[s].pid \in Pid
  BY DEF IInv, Shape, TypeOK, ServiceState
<1>3. /\ target \in [Service -> Target]
      /\ \A s \in Service : target[s].stage # "none" =>
           s \in S /\ target[s].pid = states[s].pid /\ target[s].stage = "signal"
  BY <1>2 DEF Target, NoTarget, Pid
<1> HIDE DEF target
<1>4. k \in Call /\ k.pc = "take" /\ k.new = None /\ k.target = target
  BY <1>3, IdleShape DEF Call, Idle
<1> HIDE DEF k
<1>5. \A p \in Process : Live(p) => Recorded(p)
  BY <1>1, TheCall, Range DEF Live, IInv, CallShape
<1>6. \A s \in Service : OnlyLive(s, states[s].pid)
  BY <1>5 DEF IInv, Known, ServiceKnown, OnlyLive
<1>7. \A s \in Service : TargetKnows(k.target[s], s, process')
  BY <1>3, <1>4, <1>6 DEF TargetKnows
<1>8. \A s \in Service : states[s].pid # None => exit_watchers[s] \in {None, states[s].pid}
  BY <1>1, TheCall DEF IInv, Known, ServiceKnown, At
<1>9. \A s \in Service : k.target[s].stage # "none" =>
           /\ k.pc = "take" => exit_watchers[s] \in {None, k.target[s].pid}
           /\ k.pc = "stopping" => k.target[s].rx \in {None, k.target[s].pid}
  BY <1>3, <1>4, <1>8
<1>10. ToldAtMost /\ StillTold
  BY <1>1, NotTold, Untold DEF IInv
<1>11. k.pc \notin Starting /\ call[c].pc \notin Starting
  BY <1>1, <1>4 DEF Starting
<1>12. /\ \A s \in Service : exit_watchers'[s] \in {None, exit_watchers[s]}
       /\ \A s \in Service : states'[s] = states[s]
       /\ UNCHANGED <<spawned, lost>>
  BY <1>1
<1> QED BY <1>1, <1>4, <1>7, <1>9, <1>10, <1>11, <1>12, StopKeeps

\* One target goes to another stage once its process was told.
LEMMA StageKnown ==
  ASSUME IInv, OneCaller, NEW c \in Caller, NEW s \in Service,
         NEW stage \in {"wait", "escalate", "wait_again", "over"},
         At(c, "stopping"), call[c].target[s].stage # "none", SetStage(c, s, stage),
         UNCHANGED <<states, exit_watchers, spawned, lost>>, ToldAtMost, StillTold,
         process'[call[c].target[s].pid].told
  PROVE  Known'
<1> DEFINE k == [call[c] EXCEPT !.target[s].stage = stage]
<1>1. /\ call[c] \in Call /\ CallShape(call[c]) /\ CallKnows(call[c])
      /\ call[c].pc = "stopping" /\ call[c].pc \notin Starting
  BY TheCall DEF At, Starting
<1>2. call[c].target \in [Service -> Target]
  BY <1>1 DEF Call
<1>3. /\ k \in Call /\ k.pc = call[c].pc /\ k.new = call[c].new
      /\ \A t \in Service : /\ k.target[t].pid = call[c].target[t].pid
                            /\ k.target[t].rx = call[c].target[t].rx
                            /\ t # s => k.target[t] = call[c].target[t]
  <2> DEFINE old == call[c].target[s]
             T == [call[c].target EXCEPT ![s].stage = stage]
  <2>1. old \in Target
    BY <1>2
  <2>2. [old EXCEPT !.stage = stage] \in Target
        /\ [old EXCEPT !.stage = stage].pid = old.pid
        /\ [old EXCEPT !.stage = stage].rx = old.rx
    BY <2>1 DEF Target
  <2>3. T \in [Service -> Target] /\ T[s] = [old EXCEPT !.stage = stage]
        /\ \A t \in Service : t # s => T[t] = call[c].target[t]
    BY <1>2, <2>2
  <2>4. k = [call[c] EXCEPT !.target = T]
    OBVIOUS
  <2> HIDE DEF k, T
  <2>5. k \in Call /\ k.pc = call[c].pc /\ k.new = call[c].new /\ k.target = T
    BY <1>1, <2>3, <2>4 DEF Call
  <2> QED BY <2>2, <2>3, <2>5
<1>4. call' = [call EXCEPT ![c] = k]
  BY DEF SetStage
<1> HIDE DEF k
<1>5. k.new = None /\ k.pc = "stopping"
  BY <1>1, <1>3 DEF CallShape
<1>6. \A t \in Service : TargetKnows(k.target[t], t, process')
  <2> TAKE t \in Service
  <2>1. CASE t = s
    BY <2>1, <1>1, <1>3 DEF TargetKnows, CallKnows
  <2>2. CASE t # s
    <3>1. call[c].target[t].stage # "none" => call[c].target[t].pid \in Process
      BY <1>1, Range DEF CallShape, IInv
    <3> QED BY <2>2, <3>1, <1>1, <1>3 DEF TargetKnows, CallKnows, StillTold
  <2> QED BY <2>1, <2>2
<1>7. \A t \in Service : k.target[t].stage # "none" =>
           /\ k.pc = "take" => exit_watchers[t] \in {None, k.target[t].pid}
           /\ k.pc = "stopping" => k.target[t].rx \in {None, k.target[t].pid}
  BY <1>1, <1>3, <1>5 DEF CallKnows
<1> QED BY <1>1, <1>3, <1>4, <1>5, <1>6, <1>7, StopKeeps
\* A stop returns, and knows nothing any more.
LEMMA StopReturnsKnown ==
  ASSUME IInv, OneCaller, NEW c \in Caller, Return(c), call[c].pc \notin Starting,
         UNCHANGED <<states, spawned, lost>>, ToldAtMost, StillTold,
         \A s \in Service : exit_watchers'[s] \in {None, exit_watchers[s]}
  PROVE  Known'
<1>1. /\ Idle \in Call /\ Idle.new = None /\ Idle.pc \notin Starting
      /\ call' = [call EXCEPT ![c] = Idle]
      /\ \A s \in Service : Idle.target[s].stage = "none"
  BY IdleShape, IdleKnows DEF Return, Starting
<1>2. \A s \in Service : TargetKnows(Idle.target[s], s, process')
  BY <1>1 DEF TargetKnows
<1> QED BY <1>1, <1>2, StopKeeps

\* A stop takes the exit watcher of the process it stops, or none.
LEMMA TakeKnown == ASSUME IInv, OneCaller, NEW c \in Caller, TakeReceivers(c) PROVE Known'
<1> DEFINE target == [s \in Service |->
                        IF s \in Targets(c)
                        THEN [call[c].target[s] EXCEPT !.rx = exit_watchers[s]]
                        ELSE call[c].target[s]]
           k == [call[c] EXCEPT !.pc = "stopping", !.target = target]
<1>1. /\ call[c] \in Call /\ CallShape(call[c]) /\ CallKnows(call[c])
      /\ call[c].pc = "take" /\ call[c].pc \notin Starting
      /\ call[c].target \in [Service -> Target]
      /\ \A s \in Service : exit_watchers[s] \in Pid
  BY TheCall DEF IInv, Shape, TypeOK, Call, TakeReceivers, At, Starting
<1>2. /\ target \in [Service -> Target]
      /\ \A s \in Service : /\ target[s].stage = call[c].target[s].stage
                            /\ target[s].pid = call[c].target[s].pid
                            /\ target[s].stage # "none" => target[s].rx = exit_watchers[s]
  BY <1>1 DEF Target, Targets
<1>3. call' = [call EXCEPT ![c] = k] /\ UNCHANGED <<states, exit_watchers, spawned, process, lost>>
  BY DEF TakeReceivers
<1> HIDE DEF target
<1>4. k \in Call /\ k.new = call[c].new /\ k.pc = "stopping" /\ k.target = target
  BY <1>1, <1>2 DEF Call
<1> HIDE DEF k
<1>5. k.new = None /\ k.pc \notin Starting /\ ToldAtMost /\ StillTold
  BY <1>1, <1>3, <1>4, NotTold, Untold DEF CallShape, Starting, IInv
<1>6. \A s \in Service : TargetKnows(k.target[s], s, process')
  BY <1>1, <1>2, <1>3, <1>4 DEF TargetKnows, CallKnows
<1>7. \A s \in Service : k.target[s].stage # "none" =>
           /\ k.pc = "take" => exit_watchers[s] \in {None, k.target[s].pid}
           /\ k.pc = "stopping" => k.target[s].rx \in {None, k.target[s].pid}
  BY <1>1, <1>2, <1>4 DEF CallKnows
<1>8. /\ \A s \in Service : exit_watchers'[s] \in {None, exit_watchers[s]}
      /\ \A s \in Service : states'[s] = states[s]
      /\ UNCHANGED <<spawned, lost>>
  BY <1>3
<1> QED BY <1>1, <1>3, <1>4, <1>5, <1>6, <1>7, <1>8, StopKeeps

\* What is said to be stopped was told.
LEMMA MarkKnown == ASSUME IInv, OneCaller, NEW c \in Caller, MarkStopped(c) PROVE Known'
<1> DEFINE k == [call[c] EXCEPT !.pc = "forget"]
<1>1. /\ call[c] \in Call /\ CallShape(call[c]) /\ CallKnows(call[c])
      /\ call[c].pc = "stopping" /\ call[c].pc \notin Starting
      /\ \A s \in Targets(c) : call[c].target[s].stage = "over"
  BY TheCall DEF MarkStopped, At, Starting
<1>2. k \in Call /\ k.new = call[c].new /\ k.pc = "forget" /\ k.target = call[c].target
  BY <1>1 DEF Call
<1>3. /\ call' = [call EXCEPT ![c] = k] /\ UNCHANGED <<exit_watchers, spawned, process, lost>>
      /\ states' = [s \in Service |-> IF s \in Targets(c) THEN Stopped ELSE states[s]]
  BY DEF MarkStopped, Goto
<1> HIDE DEF k
<1>4. k.new = None /\ k.pc \notin Starting /\ ToldAtMost /\ StillTold
  BY <1>1, <1>2, <1>3, NotTold, Untold DEF CallShape, Starting, IInv
<1>5. \A s \in Service : TargetKnows(k.target[s], s, process')
  BY <1>1, <1>2, <1>3 DEF TargetKnows, CallKnows
<1>6. \A s \in Targets(c), p \in Process : process[p].service = s => ~Live(p)'
  <2> SUFFICES ASSUME NEW s \in Targets(c), NEW p \in Process, process[p].service = s, Live(p)
               PROVE  FALSE
    BY <1>3 DEF Live, Spawned
  <2>1. s \in Service /\ call[c].target[s].stage = "over"
    BY <1>1 DEF Targets
  <2>2. p = call[c].target[s].pid /\ process[call[c].target[s].pid].told
    BY <1>1, <2>1 DEF CallKnows, OnlyLive
  <2> QED BY <2>2 DEF Live
<1>7. \A s \in Service : \/ states'[s] = states[s]
                         \/ states'[s].pid = None /\ \A p \in Process :
                               process[p].service = s => ~Live(p)'
  BY <1>3, <1>6 DEF Stopped
<1>8. /\ \A s \in Service : exit_watchers'[s] \in {None, exit_watchers[s]}
      /\ UNCHANGED <<spawned, lost>> /\ k.pc # "take" /\ k.pc # "stopping"
  BY <1>2, <1>3
<1> QED BY <1>1, <1>2, <1>3, <1>4, <1>5, <1>7, <1>8, StopKeeps

\* Every step of a stop keeps what is known.
LEMMA StopKnown == ASSUME IInv, OneCaller, NEW c \in Caller, StopStep(c) PROVE Known'
<1>1. CASE ForgetWatchers(c)
  <2>1. /\ Return(c) /\ call[c].pc \notin Starting
        /\ UNCHANGED <<states, spawned, process, lost>>
        /\ \A s \in Service : exit_watchers'[s] \in {None, exit_watchers[s]}
    BY <1>1 DEF ForgetWatchers, At, Starting
  <2> QED BY <2>1, NotTold, Untold, StopReturnsKnown DEF IInv
<1>2. ASSUME NEW s \in Service, call[c].target[s].stage # "none", Tell(call[c].target[s].pid)
      PROVE  ToldAtMost /\ StillTold /\ process'[call[c].target[s].pid].told
  <2>1. call[c].target[s].pid \in Process
    BY <1>2, TheCall, Range DEF CallShape, IInv
  <2> QED BY <1>2, <2>1, TellAtMost, TellStays DEF IInv
<1>3. ASSUME NEW s \in Service, Signal(c, s) PROVE Known'
  <2>1. /\ At(c, "stopping") /\ call[c].target[s].stage # "none"
        /\ UNCHANGED <<states, exit_watchers, spawned, lost>> /\ Tell(call[c].target[s].pid)
        /\ \E stage \in {"wait", "wait_again"} : SetStage(c, s, stage)
    BY <1>3 DEF Signal
  <2> QED BY <1>2, <2>1, StageKnown
<1>4. ASSUME NEW s \in Service, SignalFails(c, s) PROVE Known'
  <2>1. /\ At(c, "stopping") /\ call[c].target[s].stage # "none"
        /\ UNCHANGED <<states, exit_watchers, spawned, lost>> /\ Tell(call[c].target[s].pid)
        /\ call[c].pc \notin Starting
    BY <1>4 DEF SignalFails, At, Starting
  <2>2. CASE Return(c)
    BY <1>2, <2>1, <2>2, StopReturnsKnown
  <2>3. CASE SetStage(c, s, "over")
    BY <1>2, <2>1, <2>3, StageKnown
  <2> QED BY <1>4, <2>2, <2>3 DEF SignalFails
<1>5. ASSUME NEW s \in Service, WaitEnds(c, s) \/ GraceExpires(c, s) PROVE Known'
  <2>1. /\ At(c, "stopping") /\ call[c].target[s].stage \in {"wait", "wait_again"}
        /\ UNCHANGED <<states, exit_watchers, spawned, process, lost>>
        /\ \E stage \in {"escalate", "over"} : SetStage(c, s, stage)
    BY <1>5 DEF WaitEnds, GraceExpires, Waiting
  <2>2. process'[call[c].target[s].pid].told
    BY <2>1, TheCall DEF CallKnows
  <2>3. ToldAtMost /\ StillTold
    BY <2>1, NotTold, Untold DEF IInv
  <2> QED BY <2>1, <2>2, <2>3, StageKnown
<1> QED BY <1>1, <1>3, <1>4, <1>5, TakeKnown, MarkKnown DEF StopStep
\* Less lives, and what is said to be stopped has nothing alive that is known of.
LEMMA ExitKeeps ==
  ASSUME IInv, UNCHANGED <<spawned, call, exit_watchers>>, lost \subseteq lost',
         \A p \in Process : /\ process'[p].service = process[p].service
                            /\ process'[p].told = process[p].told
                            /\ process'[p].alive => process[p].alive,
         \A s \in Service : \/ states'[s] = states[s]
                            \/ states'[s].pid = None /\ \A p \in Process :
                                  process[p].service = s /\ Recorded(p) => ~Live(p)'
  PROVE  Known'
<1>1. \A p \in Process : (Live(p)' => Live(p)) /\ (Recorded(p)' <=> Recorded(p))
  BY DEF Live, Spawned, Recorded
<1>2. \A c \in Caller : CallKnows(call[c])'
  <2> TAKE c \in Caller
  <2>1. CallKnows(call[c]) /\ CallShape(call[c])
    BY DEF IInv, Known, Shape
  <2>2. \A s \in Service : call[c].target[s].stage # "none" => call[c].target[s].pid \in Process
    BY <2>1, Range DEF CallShape, IInv
  <2>3. call[c].pc \in {"spawn", "fail", "store", "record"}
          => OnlyLive(Head(call[c].todo), call[c].new)'
    <3> HAVE call[c].pc \in {"spawn", "fail", "store", "record"}
    <3>1. OnlyLive(Head(call[c].todo), call[c].new)
      BY <2>1 DEF CallKnows
    <3> QED BY <3>1, <1>1 DEF OnlyLive
  <2>4. \A s \in Service : call[c].target[s].stage # "none" =>
          OnlyLive(s, call[c].target[s].pid)'
    <3> TAKE s \in Service
    <3> HAVE call[c].target[s].stage # "none"
    <3>1. OnlyLive(s, call[c].target[s].pid)
      BY <2>1 DEF CallKnows
    <3> QED BY <3>1, <1>1 DEF OnlyLive
  <2> QED BY <2>1, <2>2, <2>3, <2>4 DEF CallKnows
<1>3. \A s \in Service : ServiceKnown(s)'
  <2> TAKE s \in Service
  <2>1. ServiceKnown(s)
    BY DEF IInv, Known
  <2>2. \A c \in Caller : (At(c, "record") <=> At(c, "record")') /\ Current(c)' = Current(c)
    BY DEF At, Current
  <2>3. CASE states'[s] = states[s]
    BY <2>1, <2>2, <2>3, <1>1 DEF ServiceKnown
  <2>4. CASE states'[s].pid = None /\ \A p \in Process :
               process[p].service = s /\ Recorded(p) => ~Live(p)'
    BY <2>4, <1>1 DEF ServiceKnown
  <2> QED BY <2>3, <2>4
<1> QED BY <1>2, <1>3 DEF Known

\* What dies, and what its exit watcher writes over, is not known any more.
LEMMA ExitKnown == ASSUME IInv, NEW p \in Process, Die(p) \/ ExitWatcher(p) PROVE Known'
<1>1. process \in [Process -> ProcessState] /\ \A q \in Process : process[q] \in ProcessState
  BY DEF IInv, Shape, TypeOK
<1>2. CASE Die(p)
  <2>1. /\ process' = [process EXCEPT ![p] = [process[p] EXCEPT !.alive = FALSE]]
        /\ UNCHANGED <<states, exit_watchers, spawned, call, lost>>
    BY <1>2 DEF Die
  <2>2. \A q \in Process : /\ process'[q].service = process[q].service
                           /\ process'[q].told = process[q].told
                           /\ process'[q].alive => process[q].alive
    BY <1>1, <2>1 DEF ProcessState
  <2> QED BY <2>1, <2>2, ExitKeeps
<1>3. ASSUME NEW watch, process' = [process EXCEPT ![p].watch = watch]
      PROVE  \A q \in Process : /\ process'[q].service = process[q].service
                                /\ process'[q].told = process[q].told
                                /\ process'[q].alive = process[q].alive
  BY <1>1, <1>3 DEF ProcessState
<1>4. CASE NoticeExit(p) \/ ReadStatus(p)
  <2>1. /\ UNCHANGED <<states, exit_watchers, spawned, call, lost>>
        /\ \E watch \in {"exited", "marking", "done"} : process' = [process EXCEPT ![p].watch = watch]
    BY <1>4 DEF NoticeExit, ReadStatus
  <2> QED BY <1>3, <2>1, ExitKeeps
<1>5. ASSUME NEW status \in {"Failed", "Stopped"}, MarkExit(p, status) PROVE Known'
  <2> DEFINE s == process[p].service
             ended == [status |-> status, pid |-> None]
  <2>1. /\ process[p].watch = "marking" /\ process' = [process EXCEPT ![p].watch = "done"]
        /\ states' = [states EXCEPT ![s] = ended]
        /\ lost' = lost \cup ({states[s].pid} \ {None, p})
        /\ UNCHANGED <<exit_watchers, spawned, call>>
    BY <1>5 DEF MarkExit
  <2>2. ~process[p].alive
    BY <2>1 DEF IInv, Shape, ProcessShape
  <2>3. ended.pid = None
    OBVIOUS
  <2> HIDE DEF ended
  <2>4. \A q \in Process : /\ process'[q].service = process[q].service
                           /\ process'[q].told = process[q].told
                           /\ process'[q].alive = process[q].alive
    BY <1>3, <2>1
  <2>5. \A q \in Process : process[q].service = s /\ Recorded(q) => ~Live(q)'
    <3> SUFFICES ASSUME NEW q \in Process, process[q].service = s, Recorded(q), Live(q)'
                 PROVE  FALSE
      OBVIOUS
    <3>1. Live(q) /\ process[q].alive /\ q \notin lost'
      BY <2>1, <2>4 DEF Live, Spawned
    <3>2. s \in Service /\ q # None
      BY <3>1, Range DEF IInv, Shape, ProcessShape, Live, Spawned
    <3>3. states[s].pid = q
      BY <3>1, <3>2 DEF IInv, Known, ServiceKnown
    <3> QED BY <2>1, <2>2, <3>1, <3>2, <3>3
  <2>6. \A t \in Service : states'[t] = IF t = s THEN ended ELSE states[t]
    BY <2>1 DEF IInv, Shape, TypeOK
  <2>7. \A t \in Service : \/ states'[t] = states[t]
                           \/ states'[t].pid = None /\ \A q \in Process :
                                 process[q].service = t /\ Recorded(q) => ~Live(q)'
    BY <2>3, <2>5, <2>6
  <2> QED BY <2>1, <2>4, <2>7, ExitKeeps
<1> QED BY <1>2, <1>4, <1>5 DEF ExitWatcher

\* refresh_status only writes over what is dead.
LEMMA RefreshKnown == ASSUME IInv, RefreshStatus PROVE Known'
<1>1. /\ states' = [s \in Service |->
             IF states[s].status = "Running" /\ states[s].pid # None /\ ~Alive(states[s].pid)
             THEN Stopped ELSE states[s]]
      /\ UNCHANGED <<exit_watchers, spawned, process, call, lost>>
  BY DEF RefreshStatus
<1>2. \A s \in Service : \/ states'[s] = states[s]
                         \/ states'[s].pid = None /\ ~Alive(states[s].pid)
  BY <1>1 DEF Stopped
<1>3. \A s \in Service, p \in Process :
        process[p].service = s /\ Recorded(p) /\ Live(p)' => Alive(states[s].pid)
  BY <1>1, Range DEF IInv, Known, ServiceKnown, Live, Spawned, Alive
<1>4. \A s \in Service : \/ states'[s] = states[s]
                         \/ states'[s].pid = None /\ \A p \in Process :
                               process[p].service = s /\ Recorded(p) => ~Live(p)'
  BY <1>2, <1>3
<1> QED BY <1>1, <1>4, ExitKeeps

\* Every call that is made keeps what is known.
LEMMA NewCallKnown == ASSUME IInv, OneCaller, NEW c \in Caller, NewCall(c) PROVE Known'
<1>1. CASE StartAll(c)
  BY <1>1, ProcessManagerAssumption, BeginKnown DEF StartAll
<1>2. ASSUME NEW s \in Service, StartOne(c, s) PROVE Known'
  <2>1. <<s>> \in Seq(Service)
    OBVIOUS
  <2> QED BY <1>2, <2>1, BeginKnown DEF StartOne
<1>3. CASE StopAll(c)
  <2> DEFINE S == {s \in Service : states[s].status = "Running" /\ states[s].pid # None}
  <2>1. BeginStop(c, "stop_all", S) /\ \A s \in S : s \in Service => states[s].pid # None
    BY <1>3 DEF StopAll
  <2> QED BY <2>1, BeginStopKnown
<1>4. ASSUME NEW s \in Service, StopOne(c, s) PROVE Known'
  <2> DEFINE S == {s} \cap {t \in Service : states[t].pid # None}
  <2>1. BeginStop(c, "stop_one", S) /\ \A t \in S : t \in Service => states[t].pid # None
    BY <1>4 DEF StopOne
  <2> QED BY <2>1, BeginStopKnown
<1> QED BY <1>1, <1>2, <1>3, <1>4 DEF NewCall

\* Every step keeps what is known, as long as the calls come one at a time.
LEMMA KnownNext == ASSUME IInv, OneCaller, [Next]_vars PROVE Known'
<1>1. CASE UNCHANGED vars
  <2>1. UNCHANGED <<spawned, call, exit_watchers, lost, process, states>>
    BY <1>1 DEF vars
  <2> QED BY <2>1, ExitKeeps
<1>2. ASSUME NEW c \in Caller, NewCall(c) \/ StartStep(c) \/ StopStep(c) PROVE Known'
  BY <1>2, NewCallKnown, StartKnown, StopKnown
<1>3. ASSUME NEW p \in Process, Die(p) \/ ExitWatcher(p) PROVE Known'
  BY <1>3, ExitKnown
<1> QED BY <1>1, <1>2, <1>3, RefreshKnown DEF Next

\* With one caller, the shape and what is known hold always.
LEMMA IInvAlways == ASSUME OneCaller PROVE Spec => []IInv
<1>1. Init => IInv
  BY ShapeInit, KnownInit DEF IInv
<1>2. IInv /\ [Next]_vars => IInv'
  BY ShapeNext, KnownNext DEF IInv
<1> QED BY <1>1, <1>2, PTL DEF Spec

\* A live process that nobody asked to stop is the one its service is said to run, through
\* every crash and restart of any number of services, when the calls come one at a time
\* (start_one, stop_one, logs.rs, refresh_status).
THEOREM LiveIsRecorded == ASSUME OneCaller PROVE Spec => []AliveIsKnown
<1>1. IInv => AliveIsKnown
  <2> SUFFICES ASSUME IInv, NEW p \in Process,
                      Recorded(p), process[p].alive, ~process[p].told, p \notin lost
               PROVE  states[process[p].service] = [status |-> "Running", pid |-> p]
    BY DEF AliveIsKnown
  <2>1. Live(p) /\ process[p].service \in Service
    BY Range DEF Live, Recorded, Spawned, Process, IInv, Shape, ProcessShape
  <2>2. /\ states[process[p].service] \in ServiceState
        /\ states[process[p].service].status = "Running"
        /\ states[process[p].service].pid = p
    BY <2>1 DEF IInv, Known, ServiceKnown, Shape, TypeOK
  <2> QED BY <2>2 DEF ServiceState
<1> QED BY <1>1, IInvAlways, PTL

\* A stop that ends because the flag of an exit watcher says so has waited for the process
\* it signalled: no watcher of an earlier process of the service is still in the map when
\* the stop takes it (start_one, stop_service_process, the exit watchers).
THEOREM WaitedForItsOwn == ASSUME OneCaller PROVE Spec => ExitedIsGone
<1> DEFINE Step ==
      \A c \in Caller, s \in Service :
       /\ Waiting(c, s) /\ call'[c].target[s].stage = "over"
       /\ call[c].target[s].rx # None /\ HasExited(call[c].target[s].rx)
       => ~Alive(call[c].target[s].pid)
<1>1. IInv => Step
  <2> SUFFICES ASSUME IInv, NEW c \in Caller, NEW s \in Service, Waiting(c, s),
                      call[c].target[s].rx # None, HasExited(call[c].target[s].rx)
               PROVE  ~Alive(call[c].target[s].pid)
    OBVIOUS
  <2>1. /\ call[c].pc = "stopping" /\ call[c].target[s].stage # "none"
        /\ CallShape(call[c]) /\ CallKnows(call[c])
    BY DEF Waiting, At, IInv, Shape, Known
  <2>2. call[c].target[s].rx = call[c].target[s].pid /\ call[c].target[s].pid \in Process
    BY <2>1, Range DEF CallShape, CallKnows, IInv
  <2> QED BY <2>2 DEF HasExited, Alive, IInv, Shape, ProcessShape
<1>2. [Next]_vars /\ IInv => [Step]_vars
  BY <1>1
<1> QED BY <1>2, IInvAlways, PTL DEF Spec, ExitedIsGone

-----------------------------------------------------------------------------
(* The ledger, for any number of callers. *)

\* Process p is one that some call stops; it is one that nobody can have found yet.
TargetOf(p) ==
  \E c \in Caller, s \in Service :
    call[c].target[s].stage # "none" /\ call[c].target[s].pid = p
Untouched(p) ==
  ~process[p].told /\ ~TargetOf(p) /\ \A s \in Service : states[s].pid # p

\* What a start has spawned and not recorded yet is in its hands only.
HandsApart ==
  \A c \in Caller : call[c].new # None =>
    /\ Untouched(call[c].new)
    /\ \A d \in Caller : call[d].new = call[c].new => d = c

LedgerInv == Shape /\ HandsApart

\* A process grows older: it is told only if some call stops it.
Ages(p) ==
  /\ process'[p].service = process[p].service
  /\ process'[p].alive => process[p].alive
  /\ process[p].told => process'[p].told
  /\ process'[p].told /\ ~process[p].told => TargetOf(p)

\* The targets of call k, of which states and its call before tell.
TargetsFrom(k, c) ==
  \A s \in Service : k.target[s].stage # "none" =>
    \/ call[c].target[s].stage # "none" /\ k.target[s].pid = call[c].target[s].pid
    \/ k.target[s].pid = states[s].pid

\* A step that neither spawns nor records a process.
Quiet ==
  /\ spawned' = spawned
  /\ \A c \in Caller : call'[c].new = call[c].new /\ TargetsFrom(call'[c], c)
  /\ \A s \in Service : states'[s].pid \in {None, states[s].pid}
  /\ \A p \in Process : Ages(p)

\* What an entry says, in the state and in the next one.
LEMMA RecordSays ==
  ASSUME NEW p
  PROVE  /\ RecordOf(p) = "recorded" <=> states[process[p].service].pid = p
         /\ RecordOf(p) = "new" <=>
              states[process[p].service].pid # p /\ \E c \in Caller : call[c].new = p
         /\ RecordOf(p) \in {"new", "recorded", "forgotten"}
BY DEF RecordOf

LEMMA RecordSaysNext ==
  ASSUME NEW p
  PROVE  /\ RecordOf(p)' = "recorded" <=> states'[process'[p].service].pid = p
         /\ RecordOf(p)' = "new" <=>
              states'[process'[p].service].pid # p /\ \E c \in Caller : call'[c].new = p
         /\ RecordOf(p)' \in {"new", "recorded", "forgotten"}
BY DEF RecordOf

\* The ledger is well-typed, and a service has one recorded process.
LEMMA LedgerTyped ==
  ASSUME Shape
  PROVE  /\ SeenInStates \in [1 .. spawned -> Ledger!Entry]
         /\ Ledger!OneEach(spawned, SeenInStates)
<1>1. \A p \in 1 .. spawned : p \in Process /\ process[p] \in ProcessState
                              /\ process[p].service \in Service
  BY Range DEF Shape, TypeOK, Spawned, ProcessShape, Process
<1>2. ASSUME NEW p \in 1 .. spawned
      PROVE  /\ SeenInStates[p] \in Ledger!Entry
             /\ SeenInStates[p].service = process[p].service
             /\ SeenInStates[p].record = "recorded" => states[process[p].service].pid = p
  <2>1. RecordOf(p) \in {"new", "recorded", "forgotten"}
        /\ (RecordOf(p) = "recorded" => states[process[p].service].pid = p)
    BY RecordSays
  <2>2. process[p].alive \in BOOLEAN /\ process[p].told \in BOOLEAN
    BY <1>1 DEF ProcessState
  <2>3. SeenInStates[p] = [service |-> process[p].service, record |-> RecordOf(p),
                           alive |-> process[p].alive, told |-> process[p].told]
    BY DEF SeenInStates
  <2> QED BY <1>1, <2>1, <2>2, <2>3 DEF Ledger!Entry
<1>3. SeenInStates \in [1 .. spawned -> Ledger!Entry]
  BY <1>2 DEF SeenInStates
<1>4. Ledger!OneEach(spawned, SeenInStates)
  BY <1>2 DEF Ledger!OneEach
<1> QED BY <1>3, <1>4

\* A step of the ledger: what becomes of the processes there were, and of a new one.
LEMMA LedgerGoes ==
  ASSUME Shape, Shape', spawned' \in {spawned, spawned + 1},
         \A p \in 1 .. spawned : process'[p].service = process[p].service
           /\ (process'[p].alive => process[p].alive) /\ (process[p].told => process'[p].told)
           /\ (process'[p].told /\ ~process[p].told => RecordOf(p) # "new")
           /\ (RecordOf(p) = "new" => RecordOf(p)' # "forgotten")
           /\ (RecordOf(p) = "recorded" => RecordOf(p)' # "new")
           /\ (RecordOf(p) = "forgotten" => RecordOf(p)' = "forgotten"),
         \A p \in spawned + 1 .. spawned' :
           process'[p].alive /\ ~process'[p].told /\ RecordOf(p)' = "new"
  PROVE  Ledger!Step
<1>1. spawned \in Nat
  BY Range
<1>2. /\ SeenInStates' \in [1 .. spawned' -> Ledger!Entry]
      /\ Ledger!OneEach(spawned', SeenInStates')
  <2>1. Shape => /\ SeenInStates \in [1 .. spawned -> Ledger!Entry]
                 /\ Ledger!OneEach(spawned, SeenInStates)
    BY LedgerTyped
  <2>2. (Shape => /\ SeenInStates \in [1 .. spawned -> Ledger!Entry]
                 /\ Ledger!OneEach(spawned, SeenInStates))'
    BY LedgerTyped, PTL
  <2>3. /\ (SeenInStates \in [1 .. spawned -> Ledger!Entry])'
        /\ Ledger!OneEach(spawned, SeenInStates)'
    BY <2>2
  <2> QED BY <2>3 DEF Ledger!OneEach, Ledger!Entry
<1>3. ASSUME NEW p \in 1 .. spawned PROVE Ledger!Follows(SeenInStates[p], SeenInStates'[p])
  <2>1. p \in 1 .. spawned'
    BY <1>1
  <2>2. SeenInStates[p] = [service |-> process[p].service, record |-> RecordOf(p),
                           alive |-> process[p].alive, told |-> process[p].told]
    BY DEF SeenInStates
  <2>3. SeenInStates'[p] = [service |-> process'[p].service, record |-> RecordOf(p)',
                            alive |-> process'[p].alive, told |-> process'[p].told]
    BY <2>1 DEF SeenInStates
  <2> QED BY <2>2, <2>3 DEF Ledger!Follows
<1>4. ASSUME NEW p \in spawned + 1 .. spawned' PROVE Ledger!Born(SeenInStates'[p])
  <2>1. p \in 1 .. spawned'
    BY <1>1
  <2>2. SeenInStates'[p] = [service |-> process'[p].service, record |-> RecordOf(p)',
                            alive |-> process'[p].alive, told |-> process'[p].told]
    BY <2>1 DEF SeenInStates
  <2>3. RecordOf(p)' = "new" /\ process'[p].alive /\ ~process'[p].told
    OBVIOUS
  <2> QED BY <2>2, <2>3 DEF Ledger!Born
<1> QED BY <1>2, <1>3, <1>4 DEF Ledger!Step

\* What has to be shown of the next state for HandsApart to be kept.
LEMMA ApartAgain ==
  ASSUME \A c \in Caller : \A p : p = call'[c].new /\ p # None =>
           /\ ~process'[p].told
           /\ \A d \in Caller, s \in Service :
                call'[d].target[s].stage # "none" => call'[d].target[s].pid # p
           /\ \A s \in Service : states'[s].pid # p
           /\ \A d \in Caller : call'[d].new = p => d = c
  PROVE  HandsApart'
BY DEF HandsApart, Untouched, TargetOf

\* A quiet step keeps what is in hand apart.
LEMMA QuietApart == ASSUME LedgerInv, Quiet PROVE HandsApart'
<1>1. /\ \A c \in Caller : call'[c].new = call[c].new
      /\ \A p \in Process : Ages(p)
      /\ \A s \in Service : states'[s].pid \in {None, states[s].pid}
  BY DEF Quiet
<1>2. Spawned \subseteq Process /\ None \notin Spawned
  BY Range DEF LedgerInv, Spawned, None
<1> SUFFICES ASSUME NEW c \in Caller, NEW p, p = call'[c].new, p # None
             PROVE  /\ ~process'[p].told
                    /\ \A d \in Caller, s \in Service :
                         call'[d].target[s].stage # "none" => call'[d].target[s].pid # p
                    /\ \A s \in Service : states'[s].pid # p
                    /\ \A d \in Caller : call'[d].new = p => d = c
  BY ApartAgain
<1>3. /\ p # None /\ call[c].new = p /\ Untouched(p)
      /\ \A d \in Caller : call[d].new = p => d = c
  BY <1>1 DEF LedgerInv, HandsApart
<1>4. p \in Spawned
  BY <1>3 DEF LedgerInv, Shape, CallShape
<1>5. ~process'[p].told
  BY <1>1, <1>2, <1>3, <1>4 DEF Ages, Untouched
<1>6. \A s \in Service : states'[s].pid # p
  BY <1>1, <1>3 DEF Untouched
<1>7. ASSUME NEW d \in Caller, NEW s \in Service, call'[d].target[s].stage # "none"
      PROVE  call'[d].target[s].pid # p
  BY <1>3, <1>7 DEF Quiet, TargetsFrom, Untouched, TargetOf
<1>8. \A d \in Caller : call'[d].new = p => d = c
  BY <1>1, <1>3
<1> QED BY <1>5, <1>6, <1>7, <1>8

\* A quiet step keeps the ledger as it was but for what is forgotten.
LEMMA QuietStep ==
  ASSUME LedgerInv, Shape', Quiet
  PROVE  Ledger!Step
<1>1. /\ \A c \in Caller : call'[c].new = call[c].new
      /\ \A p \in Process : Ages(p)
      /\ \A s \in Service : states'[s].pid \in {None, states[s].pid}
  BY DEF Quiet
<1>2. Spawned \subseteq Process /\ None \notin Spawned
  BY Range DEF LedgerInv, Spawned, None
<1>3. ASSUME NEW p \in 1 .. spawned
      PROVE  /\ process'[p].service = process[p].service
             /\ (process'[p].alive => process[p].alive) /\ (process[p].told => process'[p].told)
             /\ (process'[p].told /\ ~process[p].told => RecordOf(p) # "new")
             /\ (RecordOf(p) = "new" => RecordOf(p)' # "forgotten")
             /\ (RecordOf(p) = "recorded" => RecordOf(p)' # "new")
             /\ (RecordOf(p) = "forgotten" => RecordOf(p)' = "forgotten")
  <2>1. Ages(p) /\ p # None /\ process[p].service \in Service
    BY <1>1, <1>2 DEF Spawned, LedgerInv, Shape, ProcessShape
  <2>2. (\E c \in Caller : call'[c].new = p) <=> (\E c \in Caller : call[c].new = p)
    BY <1>1
  <2>3. (\E c \in Caller : call[c].new = p) => Untouched(p)
    BY <2>1 DEF LedgerInv, HandsApart
  <2>4. states'[process[p].service].pid \in {None, states[process[p].service].pid}
    BY <1>1, <2>1
  <2>5. Untouched(p) => ~TargetOf(p) /\ states[process[p].service].pid # p
    BY <2>1 DEF Untouched
  <2> QED BY <2>1, <2>2, <2>3, <2>4, <2>5, RecordSays, RecordSaysNext DEF Ages
<1>4. spawned' = spawned /\ spawned + 1 .. spawned' = {}
  BY Range DEF Quiet, LedgerInv
<1>5. \A p \in spawned + 1 .. spawned' :
        process'[p].alive /\ ~process'[p].told /\ RecordOf(p)' = "new"
  BY <1>4
<1> QED BY <1>3, <1>4, <1>5, LedgerGoes DEF LedgerInv

\* A process that a start spawns is new.
LEMMA SpawnKeeps ==
  ASSUME LedgerInv, Shape', NEW c \in Caller, Spawn(c)
  PROVE  HandsApart' /\ Ledger!Step
<1> PICK p : p = spawned + 1
  OBVIOUS
<1>1. /\ spawned \in Nat /\ p \in Process /\ p \notin Spawned /\ p # None
      /\ None \notin Spawned /\ Spawned \subseteq Process /\ spawned' = p
  BY Range DEF LedgerInv, Spawn, Process, Spawned, None
<1>2. /\ \A q \in Spawned : process'[q] = process[q]
      /\ process'[p].alive = TRUE /\ process'[p].told = FALSE
      /\ process'[p].service = Current(c)
  <2>1. process \in [Process -> ProcessState]
    BY DEF LedgerInv, Shape, TypeOK
  <2> QED BY <1>1, <2>1 DEF Spawn
<1>3. Current(c) \in Service
  BY NextService DEF LedgerInv, Spawn, At, Starting
<1>4. /\ call[c].new = None /\ call'[c].new = p /\ call'[c].target = call[c].target
      /\ \A d \in Caller : d # c => call'[d] = call[d]
  <2>1. call \in [Caller -> Call] /\ call[c] \in Call /\ CallShape(call[c])
    BY DEF LedgerInv, Shape, TypeOK
  <2> QED BY <1>1, <2>1 DEF Spawn, At, CallShape, Call
<1>5. \A d \in Caller : /\ call[d].new \in Spawned \cup {None}
                        /\ \A s \in Service : call[d].target[s].stage # "none" =>
                             call[d].target[s].pid \in Spawned
  BY DEF LedgerInv, Shape, CallShape
<1>6. \A s \in Service : states[s].pid \in Spawned \cup {None}
  BY DEF LedgerInv, Shape, StateShape
<1>7. states' = states
  BY DEF Spawn
<1>8. \A d \in Caller : call'[d].target = call[d].target
  BY <1>4
<1>9. HandsApart'
  <2> SUFFICES ASSUME NEW d \in Caller, NEW q, q = call'[d].new, q # None
               PROVE  /\ ~process'[q].told
                      /\ \A e \in Caller, s \in Service :
                           call'[e].target[s].stage # "none" => call'[e].target[s].pid # q
                      /\ \A s \in Service : states'[s].pid # q
                      /\ \A e \in Caller : call'[e].new = q => e = d
    BY ApartAgain
  <2>1. CASE d = c
    <3>1. q = p
      BY <1>4, <2>1
    <3>2. ~process'[p].told /\ \A s \in Service : states'[s].pid # p
      BY <1>1, <1>2, <1>6, <1>7
    <3>3. \A e \in Caller, s \in Service :
            call'[e].target[s].stage # "none" => call'[e].target[s].pid # p
      BY <1>1, <1>5, <1>8
    <3>4. \A e \in Caller : call'[e].new = p => e = c
      BY <1>1, <1>4, <1>5
    <3> QED BY <2>1, <3>1, <3>2, <3>3, <3>4
  <2>2. CASE d # c
    <3>1. q = call[d].new /\ q # None /\ q \in Spawned /\ q # p
      BY <1>1, <1>4, <1>5, <2>2
    <3>2. Untouched(q) /\ \A e \in Caller : call[e].new = q => e = d
      BY <3>1 DEF LedgerInv, HandsApart
    <3>3. ~process'[q].told /\ \A s \in Service : states'[s].pid # q
      BY <1>2, <1>7, <3>1, <3>2 DEF Untouched
    <3>4. \A e \in Caller, s \in Service :
            call'[e].target[s].stage # "none" => call'[e].target[s].pid # q
      BY <1>8, <3>2 DEF Untouched, TargetOf
    <3>5. \A e \in Caller : call'[e].new = q => e = d
      BY <1>4, <3>1, <3>2
    <3> QED BY <3>1, <3>3, <3>4, <3>5
  <2> QED BY <2>1, <2>2
<1>10. ASSUME NEW q \in 1 .. spawned
       PROVE  process'[q] = process[q] /\ RecordOf(q)' = RecordOf(q)
  <2>1. q \in Spawned /\ q # p
    BY <1>1 DEF Spawned
  <2>2. process'[q] = process[q]
    BY <1>2, <2>1
  <2>3. (\E d \in Caller : call'[d].new = q) <=> (\E d \in Caller : call[d].new = q)
    BY <1>1, <1>4, <2>1
  <2> QED BY <1>7, <2>2, <2>3 DEF RecordOf
<1>11. RecordOf(p)' = "new"
  <2>1. states'[process'[p].service].pid # p
    BY <1>1, <1>2, <1>3, <1>6, <1>7
  <2> QED BY <1>4, <2>1, RecordSaysNext
<1>12. spawned + 1 .. spawned' = {p} /\ spawned' = spawned + 1
  BY <1>1
<1>13. \A q \in spawned + 1 .. spawned' :
         process'[q].alive /\ ~process'[q].told /\ RecordOf(q)' = "new"
  BY <1>2, <1>11, <1>12
<1>14. Ledger!Step
  BY <1>10, <1>12, <1>13, LedgerGoes, RecordSays DEF LedgerInv
<1> QED BY <1>9, <1>14

\* The call that goes on to the next service has nothing in hand, and no new targets.
LEMMA NextTargets ==
  ASSUME NEW c \in Caller, NEW s \in Service, NextCall(call[c]).target[s].stage # "none",
         call[c] \in Call
  PROVE  NextCall(call[c]).target[s] = call[c].target[s]
<1>1. Idle.target[s].stage = "none"
  BY DEF Idle, NoTarget
<1>2. NextCall(call[c]) # Idle
  BY <1>1
<1>3. NextCall(call[c]).target = call[c].target
  BY <1>2 DEF NextCall, Call
<1> QED BY <1>3

\* A process that a start records was new, and what was recorded is forgotten.
LEMMA RecordKeepsLedger ==
  ASSUME LedgerInv, Shape', NEW c \in Caller, RecordRunning(c)
  PROVE  HandsApart' /\ Ledger!Step
<1> PICK p, k, s : p = call[c].new /\ k = NextCall(call[c]) /\ s = Current(c)
  OBVIOUS
<1>1. /\ call \in [Caller -> Call] /\ call[c] \in Call /\ states \in [Service -> ServiceState]
      /\ CallShape(call[c]) /\ call[c].pc = "record"
  BY DEF LedgerInv, Shape, TypeOK, RecordRunning, At
<1>2. s \in Service /\ k \in Call /\ k.new = None
  BY <1>1, NextService DEF LedgerInv, Starting
<1>3. p \in Spawned /\ process[p].service = s /\ p # None
  BY <1>1, Range DEF CallShape, Current, LedgerInv, Spawned, None
<1>4. \A t \in Service : k.target[t].stage # "none" => k.target[t] = call[c].target[t]
  BY <1>1, NextTargets
<1>5. /\ states' = [states EXCEPT ![s] = [status |-> "Running", pid |-> p]]
      /\ UNCHANGED <<spawned, process>>
  BY DEF RecordRunning
<1>6. /\ states'[s].pid = p
      /\ \A t \in Service : t # s => states'[t] = states[t]
  BY <1>1, <1>2, <1>5
<1>7. \A d \in Caller : call'[d] = IF d = c THEN k ELSE call[d]
  BY <1>1 DEF RecordRunning, GoToNextService, NextCall
<1>8. HandsApart'
  <2> SUFFICES ASSUME NEW d \in Caller, NEW q, q = call'[d].new, q # None
               PROVE  /\ ~process'[q].told
                      /\ \A e \in Caller, t \in Service :
                           call'[e].target[t].stage # "none" => call'[e].target[t].pid # q
                      /\ \A t \in Service : states'[t].pid # q
                      /\ \A e \in Caller : call'[e].new = q => e = d
    BY ApartAgain
  <2>1. d # c /\ call[d].new = q
    BY <1>2, <1>7
  <2>2. Untouched(q) /\ \A e \in Caller : call[e].new = q => e = d
    BY <2>1 DEF LedgerInv, HandsApart
  <2>3. q # p
    BY <2>1, <2>2
  <2>4. \A t \in Service : states'[t].pid # q
    BY <1>6, <2>2, <2>3 DEF Untouched
  <2>5. \A e \in Caller, t \in Service :
          call'[e].target[t].stage # "none" => call'[e].target[t].pid # q
    BY <1>4, <1>7, <2>2 DEF Untouched, TargetOf
  <2>6. \A e \in Caller : call'[e].new = q => e = d
    BY <1>2, <1>7, <2>2
  <2> QED BY <1>5, <2>2, <2>4, <2>5, <2>6 DEF Untouched
<1>9. ASSUME NEW q \in 1 .. spawned
      PROVE  /\ process'[q] = process[q]
             /\ (RecordOf(q) = "new" => RecordOf(q)' # "forgotten")
             /\ (RecordOf(q) = "recorded" => RecordOf(q)' # "new")
             /\ (RecordOf(q) = "forgotten" => RecordOf(q)' = "forgotten")
  <2>0. process'[q] = process[q] /\ process[q].service \in Service /\ q # None
    BY <1>5, Range DEF Spawned, LedgerInv, Shape, ProcessShape
  <2>1. CASE q = p
    <3>1. RecordOf(q)' = "recorded"
      BY <1>3, <1>6, <2>0, <2>1, RecordSaysNext
    <3>2. Untouched(q)
      BY <1>3, <2>1 DEF LedgerInv, HandsApart
    <3>3. RecordOf(q) = "new"
      BY <2>0, <2>1, <3>2, RecordSays DEF Untouched
    <3> QED BY <2>0, <3>1, <3>3
  <2>2. CASE q # p
    <3>1. (\E d \in Caller : call'[d].new = q) <=> (\E d \in Caller : call[d].new = q)
      BY <1>2, <1>7, <2>0, <2>2
    <3>2. (\E d \in Caller : call[d].new = q) => Untouched(q)
      BY <2>0 DEF LedgerInv, HandsApart
    <3>3. states'[process[q].service].pid = q => states[process[q].service].pid = q
      BY <1>6, <2>0, <2>2
    <3>4. Untouched(q) => states[process[q].service].pid # q
      BY <2>0 DEF Untouched
    <3> QED BY <2>0, <3>1, <3>2, <3>3, <3>4, RecordSays, RecordSaysNext
  <2> QED BY <2>1, <2>2
<1>10. spawned' = spawned /\ spawned + 1 .. spawned' = {}
  BY <1>5, Range DEF LedgerInv
<1>11. \A q \in spawned + 1 .. spawned' :
         process'[q].alive /\ ~process'[q].told /\ RecordOf(q)' = "new"
  BY <1>10
<1>12. Ledger!Step
  BY <1>9, <1>10, <1>11, LedgerGoes DEF LedgerInv
<1> QED BY <1>8, <1>12

\* A step of one call that has the same process in hand.
LEMMA CallIsQuiet ==
  ASSUME Shape, NEW c \in Caller, NEW k, call' = [call EXCEPT ![c] = k],
         k.new = call[c].new, TargetsFrom(k, c), spawned' = spawned,
         \A s \in Service : states'[s].pid \in {None, states[s].pid},
         \A p \in Process : Ages(p)
  PROVE  Quiet
<1>1. call \in [Caller -> Call]
  BY DEF Shape, TypeOK
<1>2. \A d \in Caller : call'[d] = IF d = c THEN k ELSE call[d]
  BY <1>1
<1>3. ASSUME NEW d \in Caller PROVE call'[d].new = call[d].new /\ TargetsFrom(call'[d], d)
  BY <1>2 DEF TargetsFrom
<1> QED BY <1>3 DEF Quiet

\* Where nothing happens to the processes, none grows older.
LEMMA NoneAges == ASSUME UNCHANGED process PROVE \A p \in Process : Ages(p)
BY DEF Ages

\* A start that neither spawns nor records.
LEMMA StartIsQuiet ==
  ASSUME Shape, NEW c \in Caller, StartStep(c), ~Spawn(c), ~RecordRunning(c)
  PROVE  Quiet
<1>1. /\ call \in [Caller -> Call] /\ call[c] \in Call /\ CallShape(call[c])
      /\ states \in [Service -> ServiceState]
  BY DEF Shape, TypeOK
<1>2. ASSUME NEW pc, Goto(c, pc), UNCHANGED <<states, spawned, process>> PROVE Quiet
  <2> DEFINE k == [call[c] EXCEPT !.pc = pc]
  <2>1. call' = [call EXCEPT ![c] = k] /\ k.new = call[c].new /\ k.target = call[c].target
    BY <1>1, <1>2 DEF Goto, Call
  <2> HIDE DEF k
  <2>2. TargetsFrom(k, c)
    BY <2>1 DEF TargetsFrom
  <2> QED BY <1>2, <2>1, <2>2, NoneAges, CallIsQuiet
<1>3. ASSUME GoToNextService(c), call[c].pc \in {"check", "fail"}, UNCHANGED <<spawned, process>>,
             \A s \in Service : states'[s].pid \in {None, states[s].pid}
      PROVE  Quiet
  <2> PICK k : k = NextCall(call[c])
    OBVIOUS
  <2>1. call' = [call EXCEPT ![c] = k]
    BY <1>3 DEF GoToNextService, NextCall
  <2>2. k.new = call[c].new
    BY <1>1, <1>3, NextService DEF CallShape, Starting
  <2>3. TargetsFrom(k, c)
    BY <1>1, NextTargets DEF TargetsFrom
  <2> QED BY <1>3, <2>1, <2>2, <2>3, NoneAges, CallIsQuiet
<1>4. CASE CheckRunning(c)
  BY <1>2, <1>3, <1>4 DEF CheckRunning, At
<1>5. CASE SpawnFails(c)
  <2>1. ASSUME Return(c) PROVE Quiet
    <3>1. Idle.new = call[c].new /\ TargetsFrom(Idle, c)
      BY <1>1, <1>5 DEF Idle, NoTarget, TargetsFrom, SpawnFails, At, CallShape
    <3> QED BY <1>5, <2>1, <3>1, NoneAges, CallIsQuiet DEF SpawnFails, Return
  <2> QED BY <1>2, <1>5, <2>1 DEF SpawnFails
<1>6. CASE RecordFailure(c)
  <2>1. \A s \in Service : states'[s].pid \in {None, states[s].pid}
    BY <1>1, <1>6 DEF RecordFailure
  <2> QED BY <1>3, <1>6, <2>1 DEF RecordFailure, At
<1>7. CASE StoreWatcher(c)
  BY <1>2, <1>7 DEF StoreWatcher
<1> QED BY <1>4, <1>5, <1>6, <1>7 DEF StartStep

\* A signal goes to a process that some call stops.
LEMMA TellAges ==
  ASSUME Shape, NEW p, TargetOf(p), Tell(p)
  PROVE  \A q \in Process : Ages(q)
<1>1. process \in [Process -> ProcessState]
  BY DEF Shape, TypeOK
<1>2. \A q \in Process : process'[q] = IF q = p THEN [process[q] EXCEPT !.told = TRUE]
                                      ELSE process[q]
  BY <1>1 DEF Tell
<1>3. \A q \in Process : /\ process'[q].service = process[q].service
                         /\ process'[q].alive = process[q].alive
                         /\ process'[q].told = IF q = p THEN TRUE ELSE process[q].told
  BY <1>1, <1>2 DEF ProcessState
<1> QED BY <1>3 DEF Ages

\* A stop: every target it has is one that it had.
LEMMA StopIsQuiet ==
  ASSUME Shape, NEW c \in Caller, StopStep(c)
  PROVE  Quiet
<1>1. /\ call \in [Caller -> Call] /\ call[c] \in Call /\ CallShape(call[c])
      /\ call[c].target \in [Service -> Target]
  BY DEF Shape, TypeOK, Call
<1>2. \A s \in Service : /\ states[s].pid \in {None, states[s].pid}
                         /\ Stopped.pid = None
  BY DEF Stopped
<1>3. ASSUME Return(c), call[c].pc \notin Starting, spawned' = spawned,
             \A s \in Service : states'[s].pid \in {None, states[s].pid},
             \A p \in Process : Ages(p)
      PROVE  Quiet
  <2> PICK k : k = Idle
    OBVIOUS
  <2>1. call' = [call EXCEPT ![c] = k] /\ k.new = None /\ \A s \in Service : k.target[s].stage = "none"
    BY <1>3 DEF Return, Idle, NoTarget
  <2>2. k.new = call[c].new /\ TargetsFrom(k, c)
    BY <1>1, <1>3, <2>1 DEF CallShape, Starting, TargetsFrom
  <2> QED BY <1>3, <2>1, <2>2, CallIsQuiet
<1>4. ASSUME NEW s \in Service, NEW stage, SetStage(c, s, stage), call[c].target[s].stage # "none",
             UNCHANGED <<states, spawned>>, \A p \in Process : Ages(p)
      PROVE  Quiet
  <2> PICK k : k = [call[c] EXCEPT !.target[s].stage = stage]
    OBVIOUS
  <2>1. call' = [call EXCEPT ![c] = k] /\ k.new = call[c].new
        /\ \A t \in Service : k.target[t].pid = call[c].target[t].pid
                              /\ (t # s => k.target[t] = call[c].target[t])
    BY <1>1, <1>4 DEF SetStage, Call, Target
  <2>2. TargetsFrom(k, c)
    BY <1>4, <2>1 DEF TargetsFrom
  <2> QED BY <1>2, <1>4, <2>1, <2>2, CallIsQuiet
<1>5. CASE TakeReceivers(c)
  <2> PICK target : target = [s \in Service |-> IF s \in Targets(c)
                                THEN [call[c].target[s] EXCEPT !.rx = exit_watchers[s]]
                                ELSE call[c].target[s]]
    OBVIOUS
  <2> PICK k : k = [call[c] EXCEPT !.pc = "stopping", !.target = target]
    OBVIOUS
  <2>1. \A s \in Service : /\ target[s].stage = call[c].target[s].stage
                           /\ target[s].pid = call[c].target[s].pid
    BY <1>1 DEF Target
  <2>2. /\ call' = [call EXCEPT ![c] = k] /\ k.new = call[c].new /\ k.target = target
        /\ UNCHANGED <<states, spawned, process>>
    BY <1>1, <1>5 DEF TakeReceivers, Call
  <2>3. TargetsFrom(k, c)
    BY <2>1, <2>2 DEF TargetsFrom
  <2> QED BY <1>2, <2>2, <2>3, NoneAges, CallIsQuiet
<1>6. CASE MarkStopped(c)
  <2> PICK k : k = [call[c] EXCEPT !.pc = "forget"]
    OBVIOUS
  <2>1. /\ call' = [call EXCEPT ![c] = k] /\ k.new = call[c].new /\ k.target = call[c].target
        /\ UNCHANGED <<spawned, process>>
    BY <1>1, <1>6 DEF MarkStopped, Goto, Call
  <2>2. \A s \in Service : states'[s].pid \in {None, states[s].pid}
    BY <1>2, <1>6 DEF MarkStopped
  <2>3. TargetsFrom(k, c)
    BY <2>1 DEF TargetsFrom
  <2> QED BY <2>1, <2>2, <2>3, NoneAges, CallIsQuiet
<1>7. CASE ForgetWatchers(c)
  BY <1>2, <1>3, <1>7, NoneAges DEF ForgetWatchers, At, Starting
<1>8. ASSUME NEW s \in Service, Signal(c, s) \/ SignalFails(c, s) PROVE Quiet
  <2>1. /\ call[c].target[s].stage # "none" /\ Tell(call[c].target[s].pid)
        /\ call[c].pc \notin Starting /\ UNCHANGED <<states, spawned>>
        /\ Return(c) \/ \E stage \in {"wait", "wait_again", "over"} : SetStage(c, s, stage)
    BY <1>8 DEF Signal, SignalFails, At, Starting
  <2>2. \A p \in Process : Ages(p)
    BY <2>1, TellAges DEF TargetOf
  <2> QED BY <1>2, <1>3, <1>4, <2>1, <2>2
<1>9. ASSUME NEW s \in Service, WaitEnds(c, s) \/ GraceExpires(c, s) PROVE Quiet
  <2>1. /\ call[c].target[s].stage # "none" /\ UNCHANGED <<states, spawned, process>>
        /\ \E stage \in {"escalate", "over"} : SetStage(c, s, stage)
    BY <1>9 DEF WaitEnds, GraceExpires, Waiting
  <2> QED BY <1>4, <2>1, NoneAges
<1> QED BY <1>5, <1>6, <1>7, <1>8, <1>9 DEF StopStep

\* A call that is made has nothing in hand, and stops what states tells of.
LEMMA NewCallIsQuiet ==
  ASSUME Shape, NEW c \in Caller, NewCall(c)
  PROVE  Quiet
<1>1. call \in [Caller -> Call] /\ call[c] \in Call /\ CallShape(call[c])
  BY DEF Shape, TypeOK
<1>2. /\ call[c].new = None /\ UNCHANGED <<states, spawned, process>>
  BY <1>1 DEF NewCall, StartAll, StartOne, StopAll, StopOne, Begin, BeginStop, At, CallShape
<1>3. ASSUME NEW k, call' = [call EXCEPT ![c] = k], k.new = None,
             \A s \in Service : k.target[s].stage # "none" => k.target[s].pid = states[s].pid
      PROVE  Quiet
  <2>1. k.new = call[c].new /\ TargetsFrom(k, c)
    BY <1>2, <1>3 DEF TargetsFrom
  <2> QED BY <1>2, <1>3, <2>1, NoneAges, CallIsQuiet
<1>4. ASSUME NEW op, NEW todo, Begin(c, op, todo) PROVE Quiet
  <2> PICK k : k = [Idle EXCEPT !.op = op, !.todo = todo, !.pc = "check"]
    OBVIOUS
  <2>1. /\ call' = [call EXCEPT ![c] = k] /\ k.new = None
        /\ \A s \in Service : k.target[s].stage = "none"
    BY <1>4 DEF Begin, Idle, NoTarget
  <2> QED BY <1>3, <2>1
<1>5. ASSUME NEW op, NEW S, BeginStop(c, op, S) PROVE Quiet
  <2> PICK target :
        target = [s \in Service |->
                    IF s \in S THEN [NoTarget EXCEPT !.pid = states[s].pid, !.stage = "signal"]
                    ELSE NoTarget]
    OBVIOUS
  <2> PICK k : k = [Idle EXCEPT !.op = op, !.pc = "take", !.target = target]
    OBVIOUS
  <2>1. \A s \in Service : target[s].stage # "none" => target[s].pid = states[s].pid
    BY DEF NoTarget
  <2>2. call' = [call EXCEPT ![c] = k] /\ k.new = None /\ k.target = target
    BY <1>5 DEF BeginStop, Idle
  <2>3. \A s \in Service : k.target[s].stage # "none" => k.target[s].pid = states[s].pid
    BY <2>1, <2>2
  <2> QED BY <1>3, <2>2, <2>3
<1> QED BY <1>4, <1>5 DEF NewCall, StartAll, StartOne, StopAll, StopOne

\* An exit, its watcher and the screens forget what is dead, and tell nobody.
LEMMA ExitIsQuiet ==
  ASSUME Shape, (\E p \in Process : Die(p) \/ ExitWatcher(p)) \/ RefreshStatus
  PROVE  Quiet
<1>1. /\ process \in [Process -> ProcessState] /\ states \in [Service -> ServiceState]
      /\ \A p \in Process : process[p] \in ProcessState
  BY DEF Shape, TypeOK
<1>2. ASSUME UNCHANGED <<call, spawned>>, \A p \in Process : Ages(p),
             \A s \in Service : states'[s].pid \in {None, states[s].pid}
      PROVE  Quiet
  BY <1>2 DEF Quiet, TargetsFrom
<1>3. ASSUME NEW p \in Process, Die(p) PROVE Quiet
  <2>1. process' = [process EXCEPT ![p] = [process[p] EXCEPT !.alive = FALSE]]
    BY <1>3 DEF Die
  <2>2. \A q \in Process : /\ process'[q].service = process[q].service
                           /\ process'[q].told = process[q].told
                           /\ process'[q].alive => process[q].alive
    BY <1>1, <2>1 DEF ProcessState
  <2>3. \A q \in Process : Ages(q)
    BY <2>2 DEF Ages
  <2> QED BY <1>2, <1>3, <2>3 DEF Die
<1>4. ASSUME NEW p \in Process, ExitWatcher(p) PROVE Quiet
  <2>1. /\ UNCHANGED <<call, spawned>>
        /\ \E watch \in {"exited", "marking", "done"} :
             process' = [process EXCEPT ![p].watch = watch]
        /\ \/ states' = states
           \/ \E s, status : states' = [states EXCEPT ![s] = [status |-> status, pid |-> None]]
    BY <1>4 DEF ExitWatcher, NoticeExit, ReadStatus, MarkExit
  <2> PICK watch \in {"exited", "marking", "done"} :
             process' = [process EXCEPT ![p].watch = watch]
    BY <2>1
  <2>2. \A q \in Process : /\ process'[q].service = process[q].service
                           /\ process'[q].told = process[q].told
                           /\ process'[q].alive = process[q].alive
    BY <1>1 DEF ProcessState
  <2>3. \A q \in Process : Ages(q)
    BY <2>2 DEF Ages
  <2>4. \A s \in Service : states'[s].pid \in {None, states[s].pid}
    BY <1>1, <2>1
  <2> QED BY <1>2, <2>1, <2>3, <2>4
<1>5. CASE RefreshStatus
  <2>1. \A s \in Service : states'[s].pid \in {None, states[s].pid}
    BY <1>5 DEF RefreshStatus, Stopped
  <2> QED BY <1>2, <1>5, <2>1, NoneAges DEF RefreshStatus
<1> QED BY <1>3, <1>4, <1>5

\* Every step of the manager is one of the ledger.
LEMMA LedgerNext ==
  ASSUME LedgerInv, [Next]_vars
  PROVE  LedgerInv' /\ (Ledger!Step \/ UNCHANGED <<spawned, SeenInStates>>)
<1>1. Shape'
  BY ShapeNext DEF LedgerInv
<1>2. CASE UNCHANGED vars
  <2>1. HandsApart'
    BY <1>2 DEF vars, LedgerInv, HandsApart, Untouched, TargetOf
  <2>2. UNCHANGED <<spawned, SeenInStates>>
    BY <1>2 DEF vars, SeenInStates, RecordOf
  <2> QED BY <1>1, <2>1, <2>2 DEF LedgerInv
<1>3. CASE Quiet
  BY <1>1, <1>3, QuietApart, QuietStep DEF LedgerInv
<1>4. ASSUME NEW c \in Caller, NewCall(c) \/ StartStep(c) \/ StopStep(c)
      PROVE  HandsApart' /\ Ledger!Step
  <2>1. CASE Spawn(c)
    BY <1>1, <2>1, SpawnKeeps
  <2>2. CASE RecordRunning(c)
    BY <1>1, <2>2, RecordKeepsLedger
  <2>3. CASE ~Spawn(c) /\ ~RecordRunning(c)
    <3>1. Quiet
      BY <1>4, <2>3, NewCallIsQuiet, StartIsQuiet, StopIsQuiet DEF LedgerInv
    <3> QED BY <1>1, <3>1, QuietApart, QuietStep
  <2> QED BY <2>1, <2>2, <2>3
<1>5. CASE (\E p \in Process : Die(p) \/ ExitWatcher(p)) \/ RefreshStatus
  BY <1>3, <1>5, ExitIsQuiet DEF LedgerInv
<1> QED BY <1>1, <1>2, <1>4, <1>5 DEF Next, LedgerInv

\* However many callers there are, what the manager's maps tell of its processes is a
\* ledger: a service has one recorded process, its own; what was forgotten never comes
\* back; only what has been recorded is signalled (start_one, start_all, stop_one,
\* stop_all, the exit watcher of logs.rs).
THEOREM KeepsLedger == Spec => KeepsItsLedger
<1>1. Init => LedgerInv /\ Ledger!Init
  <2> SUFFICES ASSUME Init PROVE LedgerInv /\ Ledger!Init
    OBVIOUS
  <2>1. Shape
    BY ShapeInit
  <2>2. \A c \in Caller : call[c].new = None
    BY DEF Init, Idle
  <2>3. spawned = 0
    BY DEF Init
  <2>4. \A i \in 1 .. 0 : FALSE
    OBVIOUS
  <2>5. SeenInStates = [i \in 1 .. 0 |-> 0]
    BY <2>3, <2>4 DEF SeenInStates
  <2> QED BY <2>1, <2>2, <2>3, <2>5 DEF LedgerInv, HandsApart, Ledger!Init
<1>2. LedgerInv /\ [Next]_vars => LedgerInv' /\ [Ledger!Step]_<<spawned, SeenInStates>>
  BY LedgerNext
<1> QED BY <1>1, <1>2, PTL DEF Spec, KeepsItsLedger, Ledger!Spec
=============================================================================
