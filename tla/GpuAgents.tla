----------------------------- MODULE GpuAgents -----------------------------
(***************************************************************************)
(* A Claude Code session as its hooks tell it (void-stack-gpu agents.rs):  *)
(* its status, its list of tasks, how far it is through it and what it has *)
(* finished.  The project, the tool, the goal and the messages are left    *)
(* out, and so is the time but for the order in which tasks are finished.  *)
(***************************************************************************)
EXTENDS Integers, Sequences, SequencesExt, FiniteSets, FiniteSetsExt, Lists

CONSTANTS
  Content,         \* what a task says
  FINISHED_KEEP,
  MaxTasks         \* bound: the longest list

VARIABLE session

None == "none"
TodoStatus == {"pending", "in_progress", "completed"}
Id == 1 .. MaxTasks
Todo == [id : Id, content : Content, status : TodoStatus]

\* progress is None
NoProgress == [done |-> 0, total |-> 0, current |-> None]

NewSession == [status |-> "idle", doing |-> None, todos |-> << >>, progress |-> NoProgress,
               finished |-> << >>]

\* The hooks that change what is modelled.  A list comes whole and in the order of its
\* numbers; what TaskUpdate leaves as it was is None.
Hook ==
  [event : {"PreToolUse"}, tool : {"TodoWrite"},
   todos : {l \in BoundedSeq(Todo, MaxTasks) : \A k \in DOMAIN l : l[k].id = k}]
  \cup [event : {"PreToolUse"}, tool : {"Edit"}]
  \cup [event : {"PostToolUse"}, tool : {"TaskCreate"}, id : Id, subject : Content]
  \cup [event : {"PostToolUse"}, tool : {"TaskUpdate"}, id : Id,
        status : TodoStatus \cup {"deleted", None}, subject : Content \cup {None}]
  \cup [event : {"UserPromptSubmit", "ask", "idle", "Stop"}]

-----------------------------------------------------------------------------

\* The tasks of a list that have a status.
With(todos, status) == Picked(todos, {k \in DOMAIN todos : todos[k].status = status})
Completed(todos) == With(todos, "completed")

\* progress_from
ProgressFrom(todos) ==
  IF todos = << >> THEN NoProgress
  ELSE LET now == With(todos, "in_progress")
       IN  [done |-> Len(Completed(todos)), total |-> Len(todos),
            current |-> IF now = << >> THEN None ELSE Head(now).content]

\* Mutant of NewlyFinished: a task is known by its number.
NewlyFinishedById(before, after) ==
  LET old == ToSet(Completed(before))
      done == Completed(after)
      new == Picked(done, {k \in DOMAIN done : \A b \in old : b.id # done[k].id})
  IN  [k \in DOMAIN new |-> new[k].content]

\* newly_finished, as what it says of each: a task is known by its content.
NewlyFinished(before, after) ==
  LET old == ToSet(Completed(before))
      done == Completed(after)
      new == Picked(done, {k \in DOMAIN done : \A b \in old : b.content # done[k].content})
  IN  [k \in DOMAIN new |-> new[k].content]

\* record: after the list became todos.
Recorded(s, todos, done) ==
  LET progress == ProgressFrom(todos)
      finished == done \o s.finished
  IN  [s EXCEPT !.todos = todos, !.progress = progress,
                !.doing = IF progress.current # None
                          THEN progress.current ELSE @,
                !.finished = SubSeq(finished, 1, Min({FINISHED_KEEP, Len(finished)}))]

TodoWrite(s, h) == Recorded(s, h.todos, NewlyFinished(s.todos, h.todos))

TaskCreate(s, h) ==
  IF \E t \in ToSet(s.todos) : t.id = h.id THEN s
  ELSE Recorded(s, Append(s.todos, [id |-> h.id, content |-> h.subject, status |-> "pending"]),
                << >>)

\* Mutant of TaskUpdate: a task that goes takes no percentage with it.
TaskUpdateKeepsProgress(s, h) ==
  LET others == {k \in DOMAIN s.todos : s.todos[k].id # h.id}
  IN  IF h.status = "deleted" THEN [s EXCEPT !.todos = Picked(@, others)]
      ELSE LET after == [k \in DOMAIN s.todos |->
                           IF k \in others \/ h.status = None THEN s.todos[k]
                           ELSE [s.todos[k] EXCEPT !.status = h.status]]
           IN  Recorded(s, after, NewlyFinished(s.todos, after))

\* The first with the number is changed; with "deleted" all of them go.
TaskUpdate(s, h) ==
  LET places == {k \in DOMAIN s.todos : s.todos[k].id = h.id}
      Changed(t) == [t EXCEPT !.status = IF h.status = None THEN @ ELSE h.status,
                              !.content = IF h.subject = None THEN @ ELSE h.subject]
      after == IF h.status = "deleted" THEN Picked(s.todos, DOMAIN s.todos \ places)
               ELSE IF places = {} THEN s.todos
               ELSE [s.todos EXCEPT ![Min(places)] = Changed(@)]
  IN  Recorded(s, after, NewlyFinished(s.todos, after))

\* A new message starts afresh when the list is through; one under way may go on.
UserPromptSubmit(s) ==
  LET through == s.progress # NoProgress /\ s.progress.done >= s.progress.total
  IN  [s EXCEPT !.doing = None, !.progress = IF through THEN NoProgress ELSE @,
                !.todos = IF through THEN << >> ELSE @]

\* apply: what the hook changes, and then the status it stands for.
Apply(s, h) ==
  CASE h.event = "PreToolUse" ->
         [(IF h.tool = "TodoWrite" THEN TodoWrite(s, h) ELSE [s EXCEPT !.doing = h.tool])
            EXCEPT !.status = "working"]
    [] h.event = "PostToolUse" ->
         [(IF h.tool = "TaskCreate" THEN TaskCreate(s, h) ELSE TaskUpdate(s, h))
            EXCEPT !.status = "working"]
    [] h.event = "UserPromptSubmit" -> [UserPromptSubmit(s) EXCEPT !.status = "working"]
    [] h.event = "ask" -> [s EXCEPT !.status = "waiting_approval"]
    [] h.event = "idle" -> [s EXCEPT !.status = "idle"]
    [] h.event = "Stop" -> [s EXCEPT !.status = "done"]

\* Hooks are sent by processes of their own and come in any order.
Init == session = NewSession
Next == \E h \in Hook : session' = Apply(session, h)
Spec == Init /\ [][Next]_session

-----------------------------------------------------------------------------

\* The percentage "comes from its list of tasks; without a list there is none, and none
\* is made up" (agents.rs, at the top): whatever hooks arrive, late ones after a Stop or
\* a new message included, the progress is that of the list that is shown.
ProgressTellsTheList == session.progress = ProgressFrom(session.todos)

\* What a session finished "is not lost when it starts a new list" (AgentSession.finished):
\* before a list can go, every task of it that is completed, renamed ones as they are
\* called now, is among the finished, unless FINISHED_KEEP newer ones fill them.
FinishedIsKept ==
  /\ Len(session.finished) <= FINISHED_KEEP
  /\ Len(session.finished) = FINISHED_KEEP
     \/ \A t \in ToSet(Completed(session.todos)) : t.content \in ToSet(session.finished)
=============================================================================
