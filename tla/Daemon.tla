------------------------------- MODULE Daemon -------------------------------
(***************************************************************************)
(* void-daemon: its commands start, stop and status, which find the daemon *)
(* by a pid file (main.rs, lifecycle.rs), and the briefing it writes once a*)
(* day (main.rs, briefing.rs).  Every command is a process of its own; the *)
(* one that is given start becomes the daemon.  Pids are not used again,   *)
(* and what the daemon manages is ProcessManager's.                        *)
(***************************************************************************)
EXTENDS Integers, FiniteSets

CONSTANTS
  Port,
  MaxDaemons,   \* bound: start commands
  MaxCommands,  \* bound: stop and status commands
  MaxDay        \* bound: the last day

VARIABLES
  file,       \* the pid file
  daemon,     \* the processes that were given start, by pid
  command,    \* the process that was given stop or status
  commands,   \* how many there were
  day, now,   \* the day, and whether the minute is the scheduled one
  marker,     \* the day in .last-run
  briefings,  \* history: how often the briefing of a day was begun
  shutdown,   \* history: the daemons that were asked to shut down
  overlapped  \* history: whether a command or Ctrl+C came before the last one was through

pids == <<file, daemon, command, commands, shutdown, overlapped>>
days == <<day, now, marker, briefings>>
vars == <<pids, days>>

-----------------------------------------------------------------------------

Pid == 1 .. MaxDaemons
Day == 1 .. MaxDay
NoFile == 0
Never == 0

\* scheduler: where its scheduler is, of the briefing of day `on`.
Process == [pc : {"none", "check", "stale", "confirm", "write", "bind", "serving",
                  "stopping", "draining", "gone"},
            port : Port, scheduler : {"tick", "due", "writing"}, on : {Never} \cup Day]

\* target: what it read in the pid file.
Command == [pc : {"idle", "read", "stale", "connect", "remove"}, stops : BOOLEAN,
            target : {NoFile} \cup Pid]

TypeOK ==
  /\ file \in {NoFile} \cup Pid
  /\ daemon \in [Pid -> Process] /\ command \in Command /\ commands \in 0 .. MaxCommands
  /\ day \in Day /\ now \in BOOLEAN /\ marker \in {Never} \cup Day
  /\ briefings \in [Day -> Nat]
  /\ shutdown \in SUBSET Pid /\ overlapped \in BOOLEAN

AnyPort == CHOOSE p \in Port : TRUE
Idle == [pc |-> "idle", stops |-> FALSE, target |-> NoFile]

Init ==
  /\ file = NoFile /\ command = Idle /\ commands = 0
  /\ daemon = [d \in Pid |-> [pc |-> "none", port |-> AnyPort, scheduler |-> "tick", on |-> Never]]
  /\ day = 1 /\ now = FALSE /\ marker = Never /\ briefings = [d \in Day |-> 0]
  /\ shutdown = {} /\ overlapped = FALSE

At(d, pc) == daemon[d].pc = pc
IsProcessAlive(d) == daemon[d].pc \notin {"none", "gone"}

\* The server listens until the future it was given for its shutdown is through.
Listens(d) == daemon[d].pc \in {"serving", "stopping"}

Goes(d, pc) == daemon' = [daemon EXCEPT ![d].pc = pc]

\* Something is asked for; what was asked for before may not have come to its end.
MayOverlap ==
  overlapped' = (overlapped \/ command.pc # "idle"
                 \/ \E d \in Pid : IsProcessAlive(d) /\ ~At(d, "serving"))

-----------------------------------------------------------------------------
(* cmd_start *)

Start(d, port) ==
  /\ At(d, "none") /\ \A e \in 1 .. d - 1 : ~At(e, "none")
  /\ daemon' = [daemon EXCEPT ![d].pc = "check", ![d].port = port]
  /\ MayOverlap
  /\ UNCHANGED <<file, command, commands, shutdown, days>>

\* Mutant of Check: whether the daemon of the file is alive is not looked at.
CheckNobody(d) ==
  /\ At(d, "check")
  /\ Goes(d, IF file = NoFile THEN "confirm" ELSE "stale")
  /\ UNCHANGED <<file, command, commands, shutdown, overlapped, days>>

Check(d) ==
  /\ At(d, "check")
  /\ Goes(d, CASE file = NoFile -> "confirm"
               [] file # NoFile /\ IsProcessAlive(file) -> "gone"
               [] OTHER -> "stale")
  /\ UNCHANGED <<file, command, commands, shutdown, overlapped, days>>

RemoveStale(d) ==
  /\ At(d, "stale") /\ file' = NoFile /\ Goes(d, "confirm")
  /\ UNCHANGED <<command, commands, shutdown, overlapped, days>>

\* The project is loaded and the user asked, for as long as it takes.
Confirm(d) ==
  /\ At(d, "confirm") /\ Goes(d, "write")
  /\ UNCHANGED <<file, command, commands, shutdown, overlapped, days>>

WritePidFile(d) ==
  /\ At(d, "write") /\ file' = d /\ Goes(d, "bind")
  /\ UNCHANGED <<command, commands, shutdown, overlapped, days>>

\* Who cannot have the port ends, and leaves the file.
Bind(d) ==
  LET others == {e \in Pid \ {d} : daemon[e].port = daemon[d].port}
  IN  /\ At(d, "bind")
      /\ \/ (\A e \in others : ~Listens(e)) /\ Goes(d, "serving")
         \/ (\E e \in others : Listens(e) \/ At(e, "draining")) /\ Goes(d, "gone")
      /\ UNCHANGED <<file, command, commands, shutdown, overlapped, days>>

CtrlC(d) ==
  /\ At(d, "serving") /\ Goes(d, "stopping")
  /\ MayOverlap
  /\ UNCHANGED <<file, command, commands, shutdown, days>>

\* After stop_all.
RemovePidFile(d) ==
  /\ At(d, "stopping") /\ file' = NoFile /\ Goes(d, "draining")
  /\ UNCHANGED <<command, commands, shutdown, overlapped, days>>

Exit(d) ==
  /\ At(d, "draining") /\ Goes(d, "gone")
  /\ UNCHANGED <<file, command, commands, shutdown, overlapped, days>>

\* It is killed, the user says no, or something it needs cannot be read or written.
Die(d) ==
  /\ IsProcessAlive(d) /\ Goes(d, "gone")
  /\ UNCHANGED <<file, command, commands, shutdown, overlapped, days>>

-----------------------------------------------------------------------------
(* cmd_stop and cmd_status *)

Give(stops) ==
  /\ command.pc = "idle" /\ commands < MaxCommands
  /\ command' = [Idle EXCEPT !.pc = "read", !.stops = stops] /\ commands' = commands + 1
  /\ MayOverlap
  /\ UNCHANGED <<file, daemon, shutdown, days>>

Read ==
  /\ command.pc = "read"
  /\ command' = CASE file = NoFile -> Idle
                  [] file # NoFile /\ ~IsProcessAlive(file) -> [command EXCEPT !.pc = "stale"]
                  [] OTHER -> IF command.stops
                              THEN [command EXCEPT !.pc = "connect", !.target = file] ELSE Idle
  /\ UNCHANGED <<file, daemon, commands, shutdown, overlapped, days>>

\* Whoever listens at the port of the file is asked to shut down: it stops its services
\* and answers.  The process of the file is killed when nobody does.
Connect ==
  LET listening == {e \in Pid : Listens(e) /\ daemon[e].port = daemon[command.target].port}
  IN  /\ command.pc = "connect"
      /\ command' = [command EXCEPT !.pc = "remove"]
      /\ IF listening # {} THEN shutdown' = shutdown \cup listening /\ UNCHANGED daemon
         ELSE /\ daemon' = [daemon EXCEPT ![command.target].pc = "gone"]
              /\ UNCHANGED shutdown
      /\ UNCHANGED <<file, commands, overlapped, days>>

\* "Daemon stopped", or "stale PID file removed".
Remove ==
  /\ command.pc \in {"stale", "remove"} /\ file' = NoFile /\ command' = Idle
  /\ UNCHANGED <<daemon, commands, shutdown, overlapped, days>>

\* It is killed, or the daemon's answer does not come.
CommandFails ==
  /\ command.pc # "idle" /\ command' = Idle
  /\ UNCHANGED <<file, daemon, commands, shutdown, overlapped, days>>

-----------------------------------------------------------------------------
(* briefing_scheduler, which begins before the port is bound. *)

Scheduling(d) == At(d, "bind") \/ Listens(d) \/ At(d, "draining")
Turns(d, scheduler) == daemon' = [daemon EXCEPT ![d].scheduler = scheduler]

ScheduleDue == now /\ marker # day

Tick(d) ==
  /\ Scheduling(d) /\ daemon[d].scheduler = "tick" /\ ScheduleDue
  /\ daemon' = [daemon EXCEPT ![d].scheduler = "due", ![d].on = day]
  /\ UNCHANGED <<file, command, commands, shutdown, overlapped, days>>

\* Mutant of Fire: the day is not marked before the briefing has been written.
FireUnmarked(d) ==
  /\ Scheduling(d) /\ daemon[d].scheduler = "due"
  /\ Turns(d, "writing")
  /\ briefings' = [briefings EXCEPT ![daemon[d].on] = @ + 1]
  /\ UNCHANGED <<file, command, commands, shutdown, overlapped, day, now, marker>>

\* The day is marked and the briefing begun, or the marker cannot be written.
Fire(d) ==
  /\ Scheduling(d) /\ daemon[d].scheduler = "due"
  /\ \/ /\ Turns(d, "writing")
        /\ marker' = daemon[d].on /\ briefings' = [briefings EXCEPT ![daemon[d].on] = @ + 1]
     \/ Turns(d, "tick") /\ UNCHANGED <<marker, briefings>>
  /\ UNCHANGED <<file, command, commands, shutdown, overlapped, day, now>>

\* The loop waits for it.
Written(d) ==
  /\ Scheduling(d) /\ daemon[d].scheduler = "writing" /\ Turns(d, "tick")
  /\ UNCHANGED <<file, command, commands, shutdown, overlapped, days>>

\* The scheduled minute comes or goes, again on the same day when it is edited.
MinutePasses == now' = ~now /\ UNCHANGED <<pids, day, marker, briefings>>

DayPasses ==
  /\ day < MaxDay /\ day' = day + 1 /\ now' \in BOOLEAN
  /\ UNCHANGED <<pids, marker, briefings>>

Step(d) ==
  \/ Check(d) \/ RemoveStale(d) \/ Confirm(d) \/ WritePidFile(d) \/ Bind(d)
  \/ RemovePidFile(d) \/ Exit(d)

Next ==
  \/ \E d \in Pid :
       \/ \E port \in Port : Start(d, port)
       \/ Step(d) \/ CtrlC(d) \/ Die(d) \/ Tick(d) \/ Fire(d) \/ Written(d)
  \/ \E stops \in BOOLEAN : Give(stops)
  \/ Read \/ Connect \/ Remove \/ CommandFails
  \/ MinutePasses \/ DayPasses

Spec == Init /\ [][Next]_vars

-----------------------------------------------------------------------------

\* As long as commands, and Ctrl+C, come one after the other and none asked a daemon to
\* shut down, and whatever died meanwhile, at most one daemon listens, at any port, and the
\* pid file names it, so that stop and status find it (cmd_start, cmd_stop, cmd_status).
FoundByItsFile ==
  ~overlapped /\ shutdown = {} => \A d \in Pid : Listens(d) => file = d

\* "Mark first so a long run doesn't double-fire" (briefing_scheduler): no day has two
\* briefings, though the schedule is edited, a tick comes at midnight, or the daemon is
\* killed while it writes and started again in the same minute; the exception is again
\* daemons that run beside each other.
OneBriefingADay ==
  ~overlapped /\ shutdown = {} => \A d \in Day : briefings[d] <= 1
=============================================================================
