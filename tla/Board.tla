-------------------------------- MODULE Board --------------------------------
(***************************************************************************)
(* The kanban board of a project (void-stack-core board.rs) and the tasks  *)
(* it is given from TODO comments (todosync.rs).  The board is one file    *)
(* that the CLI, the MCP server, the desktop and the watcher load, change  *)
(* in memory and write whole, with no lock; done tasks go to another file, *)
(* which is read and written whole as well.  A step is one file read or    *)
(* written, or one scan of the code; a write may be cut short.             *)
(*                                                                         *)
(* A task is its number, the hash it was synced under, and its column.     *)
(* The markdown gives back what it was given but for one thing: titles are *)
(* sanitized and tags are not, so that a task whose tag has an odd number  *)
(* of backticks comes back without its hash, the sync: token being part of *)
(* its title.  Titles, tags, links and the order in a column are left out. *)
(***************************************************************************)
EXTENDS Integers, Sequences, SequencesExt, FiniteSets, FiniteSetsExt, Lists

CONSTANTS
  Program,
  Marker,      \* comments, by their hash
  Spoilt,      \* those whose TODO(name) has an odd number of backticks
  Headings,    \* the columns that the file may have when the behaviour begins
  MaxId,       \* bound: the highest number of a task
  MaxChanges,  \* bound: changes of the code
  MaxCalls     \* bound: calls that change the board

VARIABLES
  board,    \* the tasks of the board file
  columns,  \* its headings
  archive,  \* the numbers of the tasks in the archive file
  code,     \* the markers in the code
  program,  \* what each program is doing with the board
  changes,  \* changes of the code so far
  calls     \* calls so far

vars == <<board, columns, archive, code, program, changes, calls>>

-----------------------------------------------------------------------------

\* No hash, and none with sync: and eight hexadecimal digits in the title.
NotSynced == "none"
Remnant == "remnant"
Unsynced == {NotSynced, Remnant}

\* Doing stands for any heading that is neither of the others.
Column == {"Backlog", "Doing", "Done"}
Id == 1 .. MaxId
Task == [id : Id, sync : Marker \cup Unsynced, column : Column]
Op == {"add", "move", "edit", "archive", "sync", "clean"}

\* What it has loaded and changed so far.  alone: history, nobody else has written the
\* board or the archive since it loaded the board.  scan: the markers it found.  old, seen:
\* what it is about to archive, and what it has read of the archive.
ProgramState ==
  [op : Op, pc : {"idle", "loaded", "archiving", "save", "return"},
   board : Seq(Task), columns : SUBSET Column, scan : SUBSET Marker,
   old : SUBSET Id, seen : SUBSET Id, alone : BOOLEAN]

TypeOK ==
  /\ board \in Seq(Task) /\ columns \in SUBSET Column
  /\ archive \in SUBSET Id /\ code \in SUBSET Marker
  /\ program \in [Program -> ProgramState]
  /\ changes \in 0 .. MaxChanges /\ calls \in 0 .. MaxCalls

AtRest == [op |-> "add", pc |-> "idle", board |-> << >>, columns |-> {}, scan |-> {},
           old |-> {}, seen |-> {}, alone |-> FALSE]

Init ==
  /\ board = << >> /\ columns \in Headings /\ archive = {} /\ code \in SUBSET Marker
  /\ program = [p \in Program |-> AtRest]
  /\ changes = 0 /\ calls = 0

At(p, pc) == program[p].pc = pc
Doing(p, op) == At(p, "loaded") /\ program[p].op = op
Becomes(p, state) == program' = [program EXCEPT ![p] = state]
Changed(p, tasks) == Becomes(p, [program[p] EXCEPT !.board = tasks, !.pc = "save"])

\* Program p goes on as given after a write that the others do not know of.
WritesAs(p, state) ==
  program' = [q \in Program |-> IF q = p THEN state ELSE [program[q] EXCEPT !.alone = FALSE]]

Ids(tasks) == {tasks[k].id : k \in DOMAIN tasks}
Synced(tasks) == {tasks[k].sync : k \in DOMAIN tasks} \ Unsynced

\* What parse_board makes of the tasks that board_to_markdown was given.
Written(tasks) ==
  [k \in DOMAIN tasks |-> IF tasks[k].sync \in Spoilt
                          THEN [tasks[k] EXCEPT !.sync = Remnant] ELSE tasks[k]]

-----------------------------------------------------------------------------
(* board.rs: each call loads the board, changes it and saves it. *)

Load(p, op) ==
  /\ At(p, "idle") /\ calls < MaxCalls
  /\ calls' = calls + 1
  /\ Becomes(p, [AtRest EXCEPT !.op = op, !.pc = "loaded", !.board = board,
                               !.columns = columns, !.alone = TRUE])
  /\ UNCHANGED <<board, columns, archive, code, changes>>

\* Mutant of NextId: the number of tasks there are, and one.
NextIdByCount(tasks) == Len(tasks) + 1

NextId(tasks) == Max(Ids(tasks) \cup {0}) + 1

AddTask(tasks, marker, column) ==
  Append(tasks, [id |-> NextId(tasks), sync |-> marker, column |-> column])

\* Where a new task goes: the backlog, or else the first column, whichever that is.
NewTasksIn(headings) == IF "Backlog" \in headings THEN {"Backlog"} ELSE headings

\* Any title may be typed.
Add(p) ==
  /\ Doing(p, "add")
  /\ \E typed \in Unsynced, column \in NewTasksIn(program[p].columns) :
       LET tasks == AddTask(program[p].board, typed, column)
       IN  Ids(tasks) \subseteq Id /\ Changed(p, tasks)
  /\ UNCHANGED <<board, columns, archive, code, changes, calls>>

\* The first task with the number.
Place(tasks, id) == Min({j \in DOMAIN tasks : tasks[j].id = id})

MoveTask(tasks, id, column) == [tasks EXCEPT ![Place(tasks, id)].column = column]

Move(p) ==
  /\ Doing(p, "move")
  /\ \E id \in Ids(program[p].board), column \in program[p].columns :
       Changed(p, MoveTask(program[p].board, id, column))
  /\ UNCHANGED <<board, columns, archive, code, changes, calls>>

\* edit_task: a new title, or new tags.
Edited(sync) == IF sync \in Marker THEN {sync, Remnant} ELSE Unsynced

Edit(p) ==
  /\ Doing(p, "edit")
  /\ \E id \in Ids(program[p].board) :
       LET k == Place(program[p].board, id)
       IN  \E sync \in Edited(program[p].board[k].sync) :
             Changed(p, [program[p].board EXCEPT ![k].sync = sync])
  /\ UNCHANGED <<board, columns, archive, code, changes, calls>>

Without(tasks, gone) == Picked(tasks, {k \in DOMAIN tasks : tasks[k].id \notin gone})

\* archive_done: any of the done tasks may be old enough; if none is, the archive is not
\* looked at.
ArchiveDone(p) ==
  LET tasks == program[p].board
  IN  /\ Doing(p, "archive")
      /\ \E old \in SUBSET {tasks[k].id : k \in {k \in DOMAIN tasks : tasks[k].column = "Done"}} :
           IF old = {} THEN Changed(p, tasks)
           ELSE Becomes(p, [program[p] EXCEPT !.board = Without(tasks, old), !.old = old,
                                              !.seen = archive, !.pc = "archiving"])
      /\ UNCHANGED <<board, columns, archive, code, changes, calls>>

\* The archive is written before the board is saved.
WriteArchive(p) ==
  /\ At(p, "archiving")
  /\ archive' = program[p].seen \cup program[p].old
  /\ WritesAs(p, [program[p] EXCEPT !.pc = "save", !.old = {}, !.seen = {}])
  /\ UNCHANGED <<board, columns, code, changes, calls>>

-----------------------------------------------------------------------------
(* todosync.rs *)

\* Mutant of Purged: what was not made from a marker has none either.
PurgedAll(tasks, markers) == Picked(tasks, {k \in DOMAIN tasks : tasks[k].sync \in markers})

\* purge_stale_synced: the stale and the corrupted.
Purged(tasks, markers) ==
  Picked(tasks, {k \in DOMAIN tasks : tasks[k].sync \in markers \cup {NotSynced}})

\* Mutant of Missing: the tasks that are done are not looked at.
MissingFromOpen(tasks, markers) ==
  markers \ {tasks[k].sync : k \in {k \in DOMAIN tasks : tasks[k].column # "Done"}}

Missing(tasks, markers) == markers \ Synced(tasks)

\* One task after the other for the markers that have none.
AddAll(tasks, new, column) ==
  LET added[k \in 0 .. Len(new)] ==
        IF k = 0 THEN tasks ELSE AddTask(added[k - 1], new[k], column)
  IN  added[Len(new)]

\* Markers that are gone from the code resolve their tasks, if there is a column for that.
Resolved(tasks, markers, headings) ==
  [k \in DOMAIN tasks |->
     IF tasks[k].sync \in markers \cup Unsynced \/ "Done" \notin headings THEN tasks[k]
     ELSE [tasks[k] EXCEPT !.column = "Done"]]

\* sync_into_board_opts: the new ones come in any order.  When nothing was added,
\* resolved or purged the board is not saved.
Sync(p) ==
  LET start == IF program[p].op = "clean" THEN Purged(program[p].board, code)
               ELSE program[p].board
  IN  /\ Doing(p, "sync") \/ Doing(p, "clean")
      /\ \E new \in SetToSeqs(Missing(start, code)), column \in NewTasksIn(program[p].columns) :
           LET tasks == Resolved(AddAll(start, new, column), code, program[p].columns)
           IN  /\ Ids(tasks) \subseteq Id
               /\ Becomes(p, [program[p] EXCEPT !.board = tasks, !.scan = code,
                               !.pc = IF tasks = program[p].board THEN "return" ELSE "save"])
      /\ UNCHANGED <<board, columns, archive, code, changes, calls>>

Save(p) ==
  /\ At(p, "save")
  /\ board' = Written(program[p].board) /\ columns' = program[p].columns
  /\ WritesAs(p, AtRest)
  /\ UNCHANGED <<archive, code, changes, calls>>

Return(p) ==
  /\ At(p, "return") /\ Becomes(p, AtRest)
  /\ UNCHANGED <<board, columns, archive, code, changes, calls>>

-----------------------------------------------------------------------------
(* Failures. *)

\* The program is killed, or a file cannot be read, or not opened to be written.
Crash(p) ==
  /\ ~At(p, "idle") /\ Becomes(p, AtRest)
  /\ UNCHANGED <<board, columns, archive, code, changes, calls>>

\* fs::write stops in the middle: there is what the file had, or some of it.
TornArchive(p) ==
  /\ At(p, "archiving")
  /\ \E old \in SUBSET program[p].old, seen \in SUBSET program[p].seen :
       /\ old # {} => seen = program[p].seen
       /\ archive' = seen \cup old
  /\ WritesAs(p, AtRest)
  /\ UNCHANGED <<board, columns, code, changes, calls>>

\* There are the columns up to one, of that one the tasks up to one, and of that one what
\* comes before its token.  A file without a heading is read as an empty board of all columns.
TornSave(p) ==
  LET whole == Written(program[p].board)
      Rows(headings) == {k \in DOMAIN whole : whole[k].column \in headings}
  IN  /\ At(p, "save")
      /\ \/ board' = << >> /\ columns' = Column
         \/ \E kept \in SUBSET program[p].columns : \E last \in kept :
              \E end \in Rows({last}) \cup {0} :
                LET rows == {k \in Rows(kept) : whole[k].column = last => k <= end}
                IN  /\ columns' = kept
                    /\ \/ board' = Picked(whole, rows)
                       \/ /\ end # 0 /\ whole[end].sync # NotSynced
                          /\ \E sync \in Unsynced :
                               board' = Picked([whole EXCEPT ![end].sync = sync], rows)
      /\ WritesAs(p, AtRest)
      /\ UNCHANGED <<archive, code, changes, calls>>

\* Somebody writes a comment, or takes it away.
ChangeCode(m) ==
  /\ changes < MaxChanges /\ changes' = changes + 1
  /\ code' = IF m \in code THEN code \ {m} ELSE code \cup {m}
  /\ UNCHANGED <<board, columns, archive, program, calls>>

Next ==
  \/ \E p \in Program :
       \/ \E op \in Op : Load(p, op)
       \/ Add(p) \/ Move(p) \/ Edit(p) \/ ArchiveDone(p) \/ WriteArchive(p)
       \/ Sync(p) \/ Save(p) \/ Return(p)
       \/ Crash(p) \/ TornArchive(p) \/ TornSave(p)
  \/ \E m \in Marker : ChangeCode(m)

Spec == Init /\ [][Next]_vars

-----------------------------------------------------------------------------

\* No two tasks of the board have the same number, whatever was archived or purged in
\* between and whoever wrote over whose changes: move, edit and link find a task by it
\* (next_id, add_task, sync_into_board_opts).
IdsAreUnique == \A j, k \in DOMAIN board : j # k => board[j].id # board[k].id

\* Program p comes to the end of its call, and nobody came between.
Ends(p) ==
  /\ program'[p].pc = "idle" /\ program[p].alone
  /\ \/ At(p, "save") /\ board' = Written(program[p].board) /\ columns' = program[p].columns
     \/ At(p, "return") /\ UNCHANGED <<board, columns>>

\* "Idempotent: each marker gets a stable content hash stored on the task, so re-runs never
\* duplicate.  Markers that disappear from the code mark their task resolved"
\* (todosync.rs, at the top): after a sync every marker has one task, whatever people did
\* with it before, and no task whose marker is gone is open.  Exceptions: a marker whose
\* assignee spoils the row gets another task at every sync, and without a Done column the
\* tasks stay where they are (sync_into_board_opts, move_task, parse_board).
SyncSettles ==
  [][\A p \in Program :
       Ends(p) /\ program[p].op \in {"sync", "clean"} =>
         /\ \A m \in program[p].scan \ Spoilt :
              Cardinality({k \in DOMAIN board' : board'[k].sync = m}) = 1
         /\ \A k \in DOMAIN board' :
              \/ board'[k].sync \in program[p].scan \cup Unsynced
              \/ board'[k].column = "Done" \/ "Done" \notin columns']_vars

\* "Never a silent delete" (todosync.rs, at the top): a task that leaves the board was done
\* and is in the archive before it does, or --clean was asked for and it had the hash of a
\* marker that is gone or what is left of one in its title; one that stays keeps its hash
\* unless it was edited.  The exception is a call that another program's write of the board
\* or the archive came between, or whose own write was cut short.
NoSilentDelete ==
  [][\A p \in Program :
       Ends(p) => \A k \in DOMAIN board :
         \/ \E j \in DOMAIN board' :
              /\ board'[j].id = board[k].id
              /\ board'[j].sync = board[k].sync \/ program[p].op = "edit"
         \/ program[p].op = "archive" /\ board[k].column = "Done" /\ board[k].id \in archive
         \/ program[p].op = "clean"
            /\ board[k].sync \notin program[p].scan \cup {NotSynced}]_vars

=============================================================================
