----------------------------- MODULE Workbench -----------------------------
(***************************************************************************)
(* The broker together with the smaller components, each a part of its     *)
(* own: the GPU history, the sessions of coding agents, the board, the     *)
(* global configuration, a project in it while it is renamed, a file that  *)
(* is cut into chunks, and the daemon.  None reads what another keeps, so  *)
(* that nothing is missed when a behaviour is about one of them, while the *)
(* others are at rest.                                                     *)
(***************************************************************************)
EXTENDS GpuBroker

CONSTANTS
  HistoryJob, BURST_GAP, MaxTurns, MaxInstant,
  Content, FINISHED_KEEP, MaxTasks,
  Program, Marker, Spoilt, Headings, MaxId, MaxChanges, MaxCalls,
  Thread, Size, SETTLE, MaxTick, MaxWrites,
  Name, Path, Begins,
  CHUNK_LINES, MIN_CHUNK_LINES, MAX_FUNCTION_LINES, MAX_CHUNK_FOR_FUNCTIONS, BlankWindow,
  MaxLines,
  Port, MaxDaemons, MaxCommands, MaxDay

VARIABLES
  part,
  rows, written,
  session,
  board, columns, archive, code, program, changes, calls,
  clock, config_file, CACHE, loading,
  project, folder, derived, hook, trusted, update, half, approved, strayed,
  text, known,
  pid_file, daemon, command, commands, day, due, marker, briefings, shutdown, overlapped

history == <<rows, written>>
tasks == <<board, columns, archive, code, program, changes, calls>>
config == <<clock, config_file, CACHE, loading>>
renaming == <<project, folder, derived, hook, trusted, update, half, approved, strayed>>
cutting == <<text, known>>
service == <<pid_file, daemon, command, commands, day, due, marker, briefings, shutdown, overlapped>>

History == INSTANCE GpuHistory WITH Job <- HistoryJob
Agents == INSTANCE GpuAgents
Tasks == INSTANCE Board
Config == INSTANCE GlobalConfig WITH now <- clock, file <- config_file
Renaming == INSTANCE ProjectUpdate
Cutting == INSTANCE Chunker
Daemons == INSTANCE Daemon WITH file <- pid_file, now <- due

ASSUME WorkbenchAssumption ==
  /\ Renaming!Nowhere \notin Name
  /\ MaxInstant \in Nat /\ BURST_GAP \in Int
  /\ FINISHED_KEEP \in Nat /\ MaxTasks \in Nat
  /\ MaxId \in Nat /\ MaxCalls \in Nat /\ MaxChanges \in Nat
  /\ IsFiniteSet(Marker) /\ Spoilt \subseteq Marker /\ Tasks!Unsynced \cap Marker = {}
  /\ Headings \subseteq SUBSET Tasks!Column \ {{}} /\ Headings # {}
  /\ SETTLE \in Nat \ {0} /\ MaxTick \in Nat /\ MaxWrites \in Nat /\ Size # {}
  /\ CHUNK_LINES \in Nat /\ MIN_CHUNK_LINES \in Nat \ {0} /\ MAX_FUNCTION_LINES \in Nat
  /\ MAX_CHUNK_FOR_FUNCTIONS \in Nat /\ BlankWindow \in Nat /\ MaxLines \in Nat
  /\ MIN_CHUNK_LINES <= CHUNK_LINES - BlankWindow
  /\ MIN_CHUNK_LINES <= MAX_CHUNK_FOR_FUNCTIONS
  /\ CHUNK_LINES + BlankWindow + MIN_CHUNK_LINES - 1 <= MAX_FUNCTION_LINES
  /\ MAX_CHUNK_FOR_FUNCTIONS + MIN_CHUNK_LINES - 1 <= MAX_FUNCTION_LINES
  /\ Port # {} /\ MaxDaemons \in Nat /\ MaxCommands \in Nat /\ MaxDay \in Nat \ {0}

\* Where each part begins, the ones that rest in one of their initial states.
WorkbenchInit ==
  /\ part \in {"gpu", "history", "agents", "board", "config", "renaming", "cutting", "daemon"}
  /\ Init /\ History!Init /\ Agents!Init /\ Config!Init /\ Daemons!Init
  /\ Tasks!Init /\ (part # "board" => code = {} /\ columns = CHOOSE h \in Headings : TRUE)
  /\ Renaming!Init
  /\ part # "renaming" => /\ project = CHOOSE p \in Renaming!Project : TRUE
                          /\ hook = Renaming!NoHook
                          /\ \A k \in Renaming!Kind, n \in Name : derived[k][n] = "none"
  /\ IF part = "cutting" THEN Cutting!Init ELSE text = << >> /\ known = FALSE

WorkbenchNext ==
  /\ UNCHANGED <<part, cutting>>
  /\ \/ part = "board" /\ Tasks!Next
     \/ part # "board" /\ UNCHANGED tasks
  /\ \/ part = "history" /\ History!Next
     \/ part # "history" /\ UNCHANGED history
  /\ \/ part = "config" /\ Config!Next
     \/ part # "config" /\ UNCHANGED config
  /\ \/ part = "daemon" /\ Daemons!Next
     \/ part # "daemon" /\ UNCHANGED service
  /\ \/ part = "renaming" /\ Renaming!Next
     \/ part # "renaming" /\ UNCHANGED renaming
  /\ \/ part = "agents" /\ Agents!Next
     \/ part # "agents" /\ UNCHANGED session
  /\ \/ part = "gpu" /\ Next
     \/ part # "gpu" /\ UNCHANGED broker

workbench == <<part, broker, history, session, tasks, config, renaming, cutting, service>>

WorkbenchSpec == WorkbenchInit /\ [][WorkbenchNext]_workbench

\* A turn that failed has a row of its own, in whatever order turns are written
\* (History::record).
FailuresStandOut == History!FailuresStandOut

\* Turns written as they end leave one row for each burst (History::record).
BurstsAreRows == History!BurstsAreRows

\* A session's progress is that of the list it shows (Agents::apply).
ProgressTellsTheList == Agents!ProgressTellsTheList

\* A completed task is remembered before its list can go (Agents::apply).
FinishedIsKept == Agents!FinishedIsKept

\* Tasks have different numbers (next_id).
IdsAreUnique == Tasks!IdsAreUnique

\* A sync leaves one task for each marker, and none open without (sync_into_board_opts).
SyncSettles == Tasks!SyncSettles

\* A task leaves the board for the archive, or because it was cleaned away (archive_done,
\* purge_stale_synced).
NoSilentDelete == Tasks!NoSilentDelete

\* The parsed copy is what the file says (load_global_config).
HitIsCurrent == Config!HitIsCurrent

\* An update that went through took everything with it (update_project).
WorkFollows == Renaming!WorkFollows

\* The chunks of a file follow each other to its last line, with nothing but a short
\* preamble left out, none too large and none tiny (chunk_file).
ChunksTile == Cutting!ChunksTile

\* The daemon that listens is the one the pid file names (cmd_start, cmd_stop).
FoundByItsFile == Daemons!FoundByItsFile

\* No day has two briefings (briefing_scheduler).
OneBriefingADay == Daemons!OneBriefingADay
=============================================================================
