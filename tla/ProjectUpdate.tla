---------------------------- MODULE ProjectUpdate ----------------------------
(***************************************************************************)
(* Renaming and moving a registered project without losing what was derived*)
(* from it (update_project of void-stack-core global_config): its folders  *)
(* of central data are named after it, its git hook calls it by name, the  *)
(* approval of its commands is kept by path, and the registry is saved     *)
(* last.  The update may fail or be killed between any two steps, and is   *)
(* then asked for again; meanwhile the project is indexed, approved, and   *)
(* its folder moved.  Other projects matter only by the folders they left. *)
(***************************************************************************)
EXTENDS Integers, FiniteSets

CONSTANTS
  Name, Path,
  Begins   \* <<m, n>>: n is m with something added, so not m itself

VARIABLES
  project,   \* the registry's entry
  folder,    \* where the folder of the project is
  derived,   \* the central data: the folders of each kind, by name
  hook,      \* the name the post-commit hook calls
  trusted,   \* the trust store: the paths whose commands are approved
  update,    \* the update under way
  half,      \* history: the request that began and has not been completed
  approved,  \* history: whether the user approved the project's commands
  strayed    \* history: whether an update was not simply asked for again until done

vars == <<project, folder, derived, hook, trusted, update, half, approved, strayed>>

-----------------------------------------------------------------------------

Kind == {"indexes", "structural"}
Project == [name : Name, path : Path]
NoHook == "no hook"
Mangled == "mangled"   \* a name nobody has
Nowhere == "nowhere"

\* A folder holds this project's work or was left by another one.
Data == {"none", "work", "other"}

TypeOK ==
  /\ project \in Project /\ folder \in Path
  /\ derived \in [Kind -> [Name -> Data]]
  /\ hook \in Name \cup {NoHook, Mangled}
  /\ trusted \subseteq Path
  /\ update \in [pc : {"idle", "indexes", "structural", "hook", "trust", "save"}, to : Project]
  /\ half \in Project \cup {[name |-> Nowhere, path |-> Nowhere]}
  /\ approved \in BOOLEAN /\ strayed \in BOOLEAN

NoRequest == [name |-> Nowhere, path |-> Nowhere]

Init ==
  /\ project \in Project /\ folder = project.path
  /\ derived \in [Kind -> [Name -> Data]]
  /\ \A k \in Kind, n \in Name : derived[k][n] = "work" => n = project.name
  /\ \A k \in Kind : derived[k][project.name] # "other"
  /\ hook \in {project.name, NoHook}
  /\ trusted = {} /\ approved = FALSE
  /\ update = [pc |-> "idle", to |-> project]
  /\ half = NoRequest /\ strayed = FALSE

At(pc) == update.pc = pc
Goto(pc) == update' = [update EXCEPT !.pc = pc]
Renamed == update.to.name # project.name
Moved == update.to.path # project.path

-----------------------------------------------------------------------------
(* update_project *)

\* A new path has to be a folder that is there; without one the old one is kept.
Begin(to) ==
  /\ At("idle")
  /\ to # project /\ to.path \in {project.path, folder}
  /\ update' = [pc |-> "indexes", to |-> to]
  /\ half' = to
  /\ strayed' = (strayed \/ half \notin {NoRequest, to})
  /\ UNCHANGED <<project, folder, derived, hook, trusted, approved>>

\* A folder that is not there, or no longer, is nothing to move; one in the way is an
\* error.
Move(k, next) ==
  LET from == derived[k][project.name]
      to == derived[k][update.to.name]
  IN  /\ At(k)
      /\ IF ~Renamed \/ from = "none" THEN Goto(next) /\ UNCHANGED derived
         ELSE IF to # "none" THEN Goto("idle") /\ UNCHANGED derived
         ELSE /\ derived' = [derived EXCEPT ![k][update.to.name] = from,
                                            ![k][project.name] = "none"]
              /\ Goto(next)
      /\ UNCHANGED <<project, folder, hook, trusted, half, approved, strayed>>

\* str::replace of the old name, wherever it stands.
Rewritten ==
  IF hook = project.name THEN update.to.name
  ELSE IF <<project.name, hook>> \in Begins THEN Mangled ELSE hook

\* Mutant of RewriteHook: it is looked for where the project was.
RewriteHookThere ==
  /\ At("hook")
  /\ hook' = IF Renamed /\ folder = project.path THEN Rewritten ELSE hook
  /\ strayed' = (strayed \/ (Renamed /\ folder # update.to.path))
  /\ Goto("trust")
  /\ UNCHANGED <<project, folder, derived, trusted, half, approved>>

\* A hook that cannot be read is left alone: the folder is not where the registry will
\* say it is.
RewriteHook ==
  /\ At("hook")
  /\ hook' = IF Renamed /\ folder = update.to.path THEN Rewritten ELSE hook
  /\ strayed' = (strayed \/ (Renamed /\ folder # update.to.path))
  /\ Goto("trust")
  /\ UNCHANGED <<project, folder, derived, trusted, half, approved>>

RekeyTrusted ==
  /\ At("trust")
  /\ trusted' = IF Moved /\ project.path \in trusted
                THEN (trusted \ {project.path}) \cup {update.to.path} ELSE trusted
  /\ Goto("save")
  /\ UNCHANGED <<project, folder, derived, hook, half, approved, strayed>>

SaveRegistry ==
  /\ At("save")
  /\ project' = update.to /\ half' = NoRequest
  /\ Goto("idle")
  /\ UNCHANGED <<folder, derived, hook, trusted, approved, strayed>>

\* A step fails, or the program is killed.
Fail ==
  /\ ~At("idle") /\ Goto("idle")
  /\ UNCHANGED <<project, folder, derived, hook, trusted, half, approved, strayed>>

-----------------------------------------------------------------------------
(* What goes on beside it. *)

\* The project is indexed, or its graph built, under the name the registry has.
Index(k) ==
  /\ derived' = [derived EXCEPT ![k][project.name] = IF @ = "none" THEN "work" ELSE @]
  /\ strayed' = (strayed \/ half # NoRequest)
  /\ UNCHANGED <<project, folder, hook, trusted, update, half, approved>>

\* mark_project_trusted
Approve ==
  /\ approved' = TRUE /\ trusted' = trusted \cup {project.path}
  /\ strayed' = (strayed \/ half # NoRequest)
  /\ UNCHANGED <<project, folder, derived, hook, update, half>>

\* The user moves the folder, with the hook in it.
MoveFolder(p) ==
  /\ folder' = p
  /\ UNCHANGED <<project, derived, hook, trusted, update, half, approved, strayed>>

Next ==
  \/ \E to \in Project : Begin(to)
  \/ Move("indexes", "structural") \/ Move("structural", "hook")
  \/ RewriteHook \/ RekeyTrusted \/ SaveRegistry \/ Fail
  \/ \E k \in Kind : Index(k)
  \/ Approve \/ \E p \in Path : MoveFolder(p)

Spec == Init /\ [][Next]_vars

-----------------------------------------------------------------------------

\* "Registry saved LAST so a failed step can simply be retried" (update_project_in): when
\* an update has failed or was killed at any step, any number of times, and was asked for
\* again until it went through, then the project's folders, its hook and its approval
\* are under the name and the path the registry has, and nothing is approved that was
\* not.  The exceptions: another request, a run of the indexer or an approval came between; the
\* folder was not where it was said to be; and a hook that was rewritten twice, when the
\* new name begins with the old one, calls a name nobody has.
WorkFollows ==
  At("idle") /\ half = NoRequest /\ ~strayed =>
    /\ \A k \in Kind, n \in Name : derived[k][n] = "work" => n = project.name
    /\ hook \in {project.name, NoHook, Mangled}
    /\ approved <=> project.path \in trusted
=============================================================================
