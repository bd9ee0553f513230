---------------------------- MODULE IndexStore ----------------------------
(***************************************************************************)
(* The semantic index of one project (void-stack-core/vector_index): runs  *)
(* of index_project that bring the rows of meta.db up to date with the     *)
(* files, the background jobs and the watcher that start them, and the     *)
(* searches that keep the vectors in memory by the stamp of index.version. *)
(*                                                                         *)
(* Several programs (hosts) do all this at once: each has its own slot for *)
(* runs, its own job registry and its own cache; the files, the rows and   *)
(* the stamp are shared.  Files are saved at any moment.  A step is one    *)
(* transaction, one look at the files or the stamp, or one lock held.      *)
(*                                                                         *)
(* A file is one chunk, whose lines stay the same when its text changes;   *)
(* its text stands for its hash and for its embedding.                     *)
(***************************************************************************)
EXTENDS Integers, FiniteSets

CONSTANTS
  File,         \* the files of the project
  Imports,      \* <<f, g>>: f imports g
  Text,         \* what a file can say, Empty and First among it
  Host,         \* the programs with the index open
  Indexing,     \* the hosts that run index_project, one of which watches
  Searching,    \* the hosts that search it
  Watcher,      \* the host that watches the project
  GitChanges,   \* what git diff against the base can answer, sets of files
  MaxRequests,  \* bound: runs asked for by the user or the hook
  MaxSaves,     \* bound: files saved, created, emptied or removed
  MaxFaults     \* bound: hosts killed, and errors other than those of embedding

Absent == 0
Empty == 1
First == 2     \* what the files say when the behaviour begins

ASSUME IndexStoreAssumption ==
  /\ Imports \subseteq File \X File
  /\ Text \subseteq Nat \ {Absent} /\ {Empty, First} \subseteq Text
  /\ Indexing \subseteq Host /\ Searching \subseteq Host /\ Watcher \in Indexing
  /\ GitChanges \subseteq SUBSET File \ {{}}
  /\ MaxRequests \in Nat /\ MaxSaves \in Nat /\ MaxFaults \in Nat

VARIABLES
  content,    \* [File -> Text or Absent]: the files
  rows,       \* [File -> Row]: the table chunks
  version,    \* the stamp of index.version, 0 when there is none
  stamps,     \* stamps written so far: a later one is greater
  run,        \* the runs asked for, in the order of asking
  slot,       \* ACTIVE_INDEXING of each host: the run that has the slot, or 0
  status,     \* the job registry of each host
  cache,      \* INDEX_CACHE of each host
  search,     \* the search each host is at, with its cache lock
  watching,   \* whether the project is in the WATCH_REGISTRY of the watcher
  listening,  \* whether the loop of the watcher goes on
  pending,    \* whether the watcher has seen an event since its last run
  faults,     \* hosts killed and errors so far
  saves,      \* saves so far
  dirty,      \* history: runs that wrote rows and have not stamped them
  scarred,    \* history: files whose row a run left unfinished or torn
  missed      \* history: whether an event, or the run for it, was lost since the last seen

store == <<rows, version, stamps>>
searching == <<cache, search>>
watcher == <<watching, listening, pending, missed>>
vars == <<content, store, run, slot, status, searching, watcher, faults, saves,
          dirty, scarred>>

-----------------------------------------------------------------------------
(* The state. *)

MaxRuns == MaxRequests + MaxSaves
Run == 1 .. MaxRuns
NoSlot == 0
Unknown == 0     \* the hash, text or embedding that is not there
Value == Text \cup {Unknown}

Row == [hash : Value, text : Value, emb : Value]
NoRow == [hash |-> Unknown, text |-> Unknown, emb |-> Unknown]

\* by: the host, "" before it is asked for.  user: asked for by the user or the hook, not
\* the watcher (bounds the requests).  quiet: history, nothing was saved or written by
\* another run since it looked for the files.
RunState ==
  [by : Host \cup {""}, user : BOOLEAN, force : BOOLEAN, git : GitChanges \cup {{}},
   pc : {"none", "waiting", "collect", "remove", "load", "hash", "prepare", "persist",
         "embed", "finish", "invalidate", "ok", "failed"},
   files : SUBSET File, stale : BOOLEAN, known : [File -> Value],
   hashes : [File -> Value], prepared : [File -> Value], quiet : BOOLEAN]

NewRun == [by |-> "", user |-> FALSE, force |-> FALSE, git |-> {}, pc |-> "none",
           files |-> {}, stale |-> FALSE, known |-> [f \in File |-> Unknown],
           hashes |-> [f \in File |-> Unknown], prepared |-> [f \in File |-> Unknown],
           quiet |-> FALSE]

Cached == [version : Nat, rows : [File -> Value]]
NotCached == [version |-> 0, rows |-> [f \in File |-> Unknown]]

TypeOK ==
  /\ content \in [File -> Text \cup {Absent}]
  /\ rows \in [File -> Row] /\ version \in Nat /\ stamps \in Nat
  /\ run \in [Run -> RunState] /\ slot \in [Host -> Run \cup {NoSlot}]
  /\ status \in [Host -> {"none", "running", "completed", "failed"}]
  /\ cache \in [Host -> Cached]
  /\ search \in [Host -> [pc : {"idle", "looked", "load", "rows"}, seen : Nat]]
  /\ watching \in BOOLEAN /\ listening \in BOOLEAN
  /\ pending \in BOOLEAN /\ missed \in BOOLEAN
  /\ faults \in Nat /\ saves \in Nat
  /\ dirty \subseteq Run /\ scarred \subseteq File

Init ==
  /\ content = [f \in File |-> First]
  /\ rows = [f \in File |-> NoRow] /\ version = 0 /\ stamps = 0
  /\ run = [r \in Run |-> NewRun] /\ slot = [h \in Host |-> NoSlot]
  /\ status = [h \in Host |-> "none"]
  /\ cache = [h \in Host |-> NotCached]
  /\ search = [h \in Host |-> [pc |-> "idle", seen |-> 0]]
  /\ watching = FALSE /\ listening = FALSE /\ pending = FALSE /\ missed = FALSE
  /\ faults = 0 /\ saves = 0 /\ dirty = {} /\ scarred = {}

At(r, pc) == run[r].pc = pc
Ended(r) == run[r].pc \in {"none", "ok", "failed"}
Asked == {r \in Run : ~At(r, "none")}
Fault == faults < MaxFaults /\ faults' = faults + 1
Searchable(table) == [f \in File |-> table[f].emb]
CacheLockFree(h) == search[h].pc \in {"idle", "looked"}

\* Run r goes on as given; when it writes, no other run has been left in quiet.
Becomes(r, state) == run' = [run EXCEPT ![r] = state]
Writes(r, state) ==
  /\ run' = [q \in Run |-> IF q = r THEN state ELSE [run[q] EXCEPT !.quiet = FALSE]]
  /\ dirty' = dirty \cup {r}

-----------------------------------------------------------------------------
(* Starting runs. *)

Ask(h, user, force, git) ==
  LET r == Cardinality(Asked) + 1
  IN  /\ Becomes(r, [NewRun EXCEPT !.by = h, !.user = user, !.force = force,
                                   !.git = git, !.pc = "waiting"])
      /\ status' = [status EXCEPT ![h] = "running"]

\* index_project_codebase, with a base for git or without.
Request(h, force, git) ==
  /\ Cardinality({r \in Run : run[r].user}) < MaxRequests
  /\ force => git = {}
  /\ Ask(h, TRUE, force, git)
  /\ UNCHANGED <<content, store, slot, searching, watcher, faults, saves, dirty, scarred>>

\* Mutant of WatcherFires: it asks git, not the hashes, what has changed.
WatcherAsksGit ==
  /\ pending /\ pending' = FALSE /\ UNCHANGED <<watching, listening, missed>>
  /\ \E git \in GitChanges : Ask(Watcher, FALSE, FALSE, git)
  /\ UNCHANGED <<content, store, slot, searching, faults, saves, dirty, scarred>>

\* The quiet window has gone by since the last event.
WatcherFires ==
  /\ pending /\ pending' = FALSE /\ UNCHANGED <<watching, listening, missed>>
  /\ Ask(Watcher, FALSE, FALSE, {})
  /\ UNCHANGED <<content, store, slot, searching, faults, saves, dirty, scarred>>

\* watch_project: a new watcher takes the place of the one there was, whose loop ends
\* with what it was waiting to do.
Watch ==
  /\ watching' = TRUE /\ listening' = TRUE
  /\ pending' = FALSE /\ missed' = (missed \/ pending)
  /\ UNCHANGED <<content, store, run, slot, status, searching, faults, saves, dirty, scarred>>

Unwatch ==
  /\ watching
  /\ watching' = FALSE /\ listening' = FALSE
  /\ pending' = FALSE /\ missed' = (missed \/ pending)
  /\ UNCHANGED <<content, store, run, slot, status, searching, faults, saves, dirty, scarred>>

\* The loop ends at an error that it is told of; the project is still listed as watched.
NotifyError ==
  /\ listening /\ Fault
  /\ listening' = FALSE /\ pending' = FALSE /\ missed' = (missed \/ pending)
  /\ UNCHANGED <<content, store, run, slot, status, searching, watching, saves, dirty, scarred>>

\* A file is written, created, emptied or removed; a watcher that listens gets the event.
Save(f, text) ==
  /\ saves < MaxSaves /\ text # content[f]
  /\ content' = [content EXCEPT ![f] = text]
  /\ saves' = saves + 1
  /\ pending' = listening /\ missed' = ~listening /\ UNCHANGED <<watching, listening>>
  /\ run' = [r \in Run |-> [run[r] EXCEPT !.quiet = FALSE]]
  /\ UNCHANGED <<store, slot, status, searching, faults, dirty, scarred>>

-----------------------------------------------------------------------------
(* index_project. *)

TakeSlot(r) ==
  /\ At(r, "waiting") /\ slot[run[r].by] = NoSlot
  /\ slot' = [slot EXCEPT ![run[r].by] = r]
  /\ Becomes(r, [run[r] EXCEPT !.pc = "collect"])
  /\ UNCHANGED <<content, store, status, searching, watcher, faults, saves, dirty, scarred>>

\* Mutant of Record: an error is not told.
RecordSuccess(r, outcome) ==
  status' = IF outcome = "ok" THEN [status EXCEPT ![run[r].by] = "completed"] ELSE status

\* What the thread of a background job says at its end.
Record(r, outcome) ==
  status' = [status EXCEPT ![run[r].by] = IF outcome = "ok" THEN "completed" ELSE "failed"]

\* Mutant of GiveSlotBack: a run that returns early keeps its slot.
GiveSlotBackAtEnd(r) ==
  slot' = IF At(r, "invalidate") THEN [slot EXCEPT ![run[r].by] = NoSlot] ELSE slot

\* The guard is dropped, whatever the outcome.
GiveSlotBack(r) == slot' = [slot EXCEPT ![run[r].by] = NoSlot]

\* Of an ended run only the outcome matters, and whether it can be vouched for.
Closed(r, outcome) ==
  [NewRun EXCEPT !.by = run[r].by, !.user = run[r].user, !.git = run[r].git,
                 !.pc = outcome, !.quiet = IF outcome = "ok" THEN run[r].quiet ELSE FALSE]

End(r, outcome) == GiveSlotBack(r) /\ Record(r, outcome) /\ Becomes(r, Closed(r, outcome))

\* Run r was to index what was saved, or had the index removed, and no run of the watcher
\* comes after it.
IsLast(r) ==
  /\ run[r].force \/ ~run[r].user
  /\ ~pending /\ \A q \in Run \ {r} : run[q].user \/ Ended(q)

\* A transaction or the stamp fails: nothing is written, and nobody tries again.
Fails(r) ==
  /\ run[r].pc \in {"load", "persist", "finish"} /\ Fault
  /\ End(r, "failed")
  /\ missed' = (missed \/ (~At(r, "finish") /\ IsLast(r)))
  /\ UNCHANGED <<content, store, searching, watching, listening, pending, saves, dirty, scarred>>

Collect(r) ==
  LET files == {f \in File : content[f] # Absent}
  IN  /\ At(r, "collect")
      /\ IF files = {} THEN End(r, "failed")
         ELSE /\ Becomes(r, [run[r] EXCEPT !.files = files, !.quiet = TRUE,
                                           !.pc = IF run[r].force THEN "remove" ELSE "load"])
              /\ UNCHANGED <<slot, status>>
      /\ IF run[r].force /\ files # {}
         THEN CacheLockFree(run[r].by)
              /\ cache' = [cache EXCEPT ![run[r].by] = NotCached]
         ELSE UNCHANGED cache
      /\ UNCHANGED <<content, store, search, watcher, faults, saves, dirty, scarred>>

\* delete_index removes the folder; a new, empty meta.db takes its place.
Remove(r) ==
  /\ At(r, "remove")
  /\ rows' = [f \in File |-> NoRow] /\ version' = 0
  /\ Writes(r, [run[r] EXCEPT !.pc = "hash"])
  /\ UNCHANGED <<content, stamps, slot, status, searching, watcher, faults, saves, scarred>>

\* Some of the folder may be gone by then, or all of it when meta.db cannot be opened anew.
RemoveFails(r) ==
  /\ At(r, "remove") /\ Fault
  /\ rows' \in {rows, [f \in File |-> NoRow]} /\ version' \in {version, 0}
  /\ GiveSlotBack(r) /\ Record(r, "failed") /\ Writes(r, Closed(r, "failed"))
  /\ missed' = (missed \/ IsLast(r))
  /\ UNCHANGED <<content, stamps, searching, watching, listening, pending, saves, scarred>>

\* What the rows say is read, and the rows of files that are gone are deleted.
Load(r) ==
  LET stale == {f \in File \ run[r].files : rows[f] # NoRow}
      loaded == [run[r] EXCEPT !.pc = "hash", !.stale = stale # {},
                               !.known = [f \in File |-> IF f \in stale THEN Unknown
                                                         ELSE rows[f].hash]]
  IN  /\ At(r, "load")
      /\ rows' = [f \in File |-> IF f \in stale THEN NoRow ELSE rows[f]]
      /\ IF stale = {} THEN Becomes(r, loaded) /\ UNCHANGED dirty ELSE Writes(r, loaded)
      /\ scarred' = scarred \ stale
      /\ UNCHANGED <<content, version, stamps, slot, status, searching, watcher, faults, saves>>

\* A file removed meanwhile has no hash.
Hash(r) ==
  /\ At(r, "hash")
  /\ Becomes(r, [run[r] EXCEPT !.pc = "prepare",
                   !.hashes = [f \in File |-> IF f \in run[r].files THEN content[f]
                                              ELSE Unknown]])
  /\ UNCHANGED <<content, store, slot, status, searching, watcher, faults, saves, dirty, scarred>>

Changed(r) ==
  {f \in run[r].files : f \in run[r].git
                        \/ run[r].hashes[f] \notin {Unknown, run[r].known[f]}}

\* Who imports a changed file is treated as never indexed.
Forgotten(r) ==
  IF run[r].force THEN {}
  ELSE {f \in run[r].files \ Changed(r) : \E g \in Changed(r) : <<f, g>> \in Imports}

KnownHash(r, f) == IF f \in Forgotten(r) THEN Unknown ELSE run[r].known[f]

\* Mutant of ShouldSkip: a file that has a row is taken to be indexed.
SkipKnown(r, f) == ~run[r].force /\ KnownHash(r, f) # Unknown

ShouldSkip(r, f) ==
  /\ ~run[r].force
  /\ \/ run[r].git # {} /\ f \notin run[r].git /\ KnownHash(r, f) # Unknown
     \/ run[r].hashes[f] # Unknown /\ run[r].hashes[f] = KnownHash(r, f)

\* What is not skipped is read now; a file without text gives no chunks.
Prepared(r) ==
  [f \in File |->
     IF f \in run[r].files /\ ~ShouldSkip(r, f) /\ content[f] \notin {Absent, Empty}
     THEN content[f] ELSE Unknown]

NothingPrepared(r) == \A f \in File : Prepared(r)[f] = Unknown

\* Nothing changed since the last run: everything is left as it is, if the statistics of
\* that run can be read.  Each file read tells the registry how far the job is.
Prepare(r) ==
  /\ At(r, "prepare")
  /\ \/ /\ ~run[r].force /\ NothingPrepared(r) /\ ~run[r].stale /\ version # 0
        /\ End(r, "ok")
     \/ /\ Becomes(r, [run[r] EXCEPT !.pc = "persist", !.prepared = Prepared(r)])
        /\ status' = [status EXCEPT ![run[r].by] = "running"]
        /\ UNCHANGED slot
  /\ UNCHANGED <<content, store, searching, watcher, faults, saves, dirty, scarred>>

Touched(r) == {f \in File : run[r].prepared[f] # Unknown}

\* One transaction: hash and text, no embedding yet.
Persist(r) ==
  /\ At(r, "persist")
  /\ rows' = [f \in File |->
       IF f \in Touched(r)
       THEN [hash |-> run[r].hashes[f], text |-> run[r].prepared[f], emb |-> Unknown]
       ELSE rows[f]]
  /\ Writes(r, [run[r] EXCEPT !.pc = "embed"])
  /\ scarred' = scarred \cup Touched(r)
  /\ UNCHANGED <<content, version, stamps, slot, status, searching, watcher, faults, saves>>

\* The text index, the model or the transaction fails: the rows stay as they are.
EmbedFails(r) ==
  /\ At(r, "embed") /\ Touched(r) # {}
  /\ End(r, "failed")
  /\ UNCHANGED <<content, store, searching, watcher, faults, saves, dirty, scarred>>

\* Rows are found by file and lines; whole again are those whose text is the one
\* that was hashed and embedded.
Embed(r) ==
  LET found == {f \in Touched(r) : rows[f] # NoRow}
      whole == {f \in found : run[r].hashes[f] = rows[f].hash
                              /\ rows[f].hash = rows[f].text
                              /\ rows[f].text = run[r].prepared[f]}
  IN  /\ At(r, "embed")
      /\ rows' = [f \in File |-> IF f \in found
                                 THEN [rows[f] EXCEPT !.emb = run[r].prepared[f]]
                                 ELSE rows[f]]
      /\ IF found = {} THEN Becomes(r, [run[r] EXCEPT !.pc = "finish"]) /\ UNCHANGED dirty
         ELSE Writes(r, [run[r] EXCEPT !.pc = "finish"])
      /\ scarred' = (scarred \cup found) \ whole
      /\ UNCHANGED <<content, version, stamps, slot, status, searching, watcher, faults, saves>>

\* Mutant of Finish: an index that is stamped keeps its stamp.
FinishStampsOnce(r) ==
  /\ At(r, "finish")
  /\ IF \A f \in File : rows[f].emb = Unknown
     THEN End(r, "failed") /\ UNCHANGED <<version, stamps, dirty>>
     ELSE /\ stamps' = stamps + 1
          /\ version' = IF version = 0 THEN stamps + 1 ELSE version
          /\ Becomes(r, [run[r] EXCEPT !.pc = "invalidate"])
          /\ dirty' = {q \in dirty \ {r} : ~Ended(q)}
          /\ UNCHANGED <<slot, status>>
  /\ UNCHANGED <<content, rows, searching, watcher, faults, saves, scarred>>

\* The stamp, unless nothing at all is embedded.
Finish(r) ==
  /\ At(r, "finish")
  /\ IF \A f \in File : rows[f].emb = Unknown
     THEN End(r, "failed") /\ UNCHANGED <<version, stamps, dirty>>
     ELSE /\ stamps' = stamps + 1 /\ version' = stamps + 1
          /\ Becomes(r, [run[r] EXCEPT !.pc = "invalidate"])
          /\ dirty' = {q \in dirty \ {r} : ~Ended(q)}
          /\ UNCHANGED <<slot, status>>
  /\ UNCHANGED <<content, rows, searching, watcher, faults, saves, scarred>>

\* The statistics are the last that can fail.
Invalidate(r) ==
  /\ At(r, "invalidate") /\ CacheLockFree(run[r].by)
  /\ cache' = [cache EXCEPT ![run[r].by] = NotCached]
  /\ \/ End(r, "ok") /\ UNCHANGED faults
     \/ End(r, "failed") /\ Fault
  /\ UNCHANGED <<content, store, search, watcher, saves, dirty, scarred>>

-----------------------------------------------------------------------------
(* with_index: a search that keeps what it loads (CachePolicy::Keep). *)

SearchAt(h, pc) == search[h].pc = pc
SearchGoes(h, pc) == search' = [search EXCEPT ![h].pc = pc]
SearchEnds(h) == search' = [search EXCEPT ![h] = [pc |-> "idle", seen |-> 0]]

LookAtVersion(h) ==
  /\ SearchAt(h, "idle") /\ rows # [f \in File |-> NoRow]
  /\ search' = [search EXCEPT ![h] = [pc |-> "looked", seen |-> version]]
  /\ UNCHANGED <<content, store, run, slot, status, cache, watcher, faults, saves, dirty, scarred>>

\* Under the lock: what is cached will do, or is dropped.
LookAtCache(h) ==
  /\ SearchAt(h, "looked")
  /\ IF cache[h] # NotCached /\ cache[h].version >= search[h].seen
     THEN SearchEnds(h) /\ UNCHANGED cache
     ELSE SearchGoes(h, "load") /\ cache' = [cache EXCEPT ![h] = NotCached]
  /\ UNCHANGED <<content, store, run, slot, status, watcher, faults, saves, dirty, scarred>>

LoadVersion(h) ==
  /\ SearchAt(h, "load")
  /\ search' = [search EXCEPT ![h] = [pc |-> "rows", seen |-> version]]
  /\ UNCHANGED <<content, store, run, slot, status, cache, watcher, faults, saves, dirty, scarred>>

\* An index without embeddings is an error, and nothing is kept.
LoadRows(h) ==
  /\ SearchAt(h, "rows")
  /\ SearchEnds(h)
  /\ cache' = [cache EXCEPT ![h] =
       IF \A f \in File : rows[f].emb = Unknown THEN NotCached
       ELSE [version |-> search[h].seen, rows |-> Searchable(rows)]]
  /\ UNCHANGED <<content, store, run, slot, status, watcher, faults, saves, dirty, scarred>>

\* Idle for ten minutes, or the least recently used of too many.
Evict(h) ==
  /\ cache[h] # NotCached /\ CacheLockFree(h)
  /\ cache' = [cache EXCEPT ![h] = NotCached]
  /\ UNCHANGED <<content, store, run, slot, status, search, watcher, faults, saves, dirty, scarred>>

-----------------------------------------------------------------------------

\* The program is killed: its runs, its registry, its cache and its watcher with it.
Crash(h) ==
  /\ Fault
  /\ run' = [r \in Run |-> IF run[r].by = h /\ ~Ended(r)
                           THEN Closed(r, "failed") ELSE run[r]]
  /\ slot' = [slot EXCEPT ![h] = NoSlot]
  /\ status' = [status EXCEPT ![h] = "none"]
  /\ cache' = [cache EXCEPT ![h] = NotCached]
  /\ search' = [search EXCEPT ![h] = [pc |-> "idle", seen |-> 0]]
  /\ IF h # Watcher THEN UNCHANGED watcher
     ELSE /\ watching' = FALSE /\ listening' = FALSE /\ pending' = FALSE
          /\ missed' = (missed \/ pending \/ \E r \in Run : run[r].by = h /\ ~Ended(r))
  /\ UNCHANGED <<content, store, saves, dirty, scarred>>

IndexProject(r) ==
  \/ TakeSlot(r) \/ Collect(r) \/ Remove(r) \/ Load(r) \/ Hash(r) \/ Prepare(r)
  \/ Persist(r) \/ Embed(r) \/ Finish(r) \/ Invalidate(r)
  \/ Fails(r) \/ RemoveFails(r) \/ EmbedFails(r)

Search(h) == LookAtCache(h) \/ LoadVersion(h) \/ LoadRows(h)

Next ==
  \/ \E h \in Indexing, force \in BOOLEAN, git \in GitChanges \cup {{}} :
       Request(h, force, git)
  \/ WatcherFires \/ Watch \/ Unwatch \/ NotifyError
  \/ \E f \in File, text \in Text \cup {Absent} : Save(f, text)
  \/ \E r \in Run : IndexProject(r)
  \/ \E h \in Searching : LookAtVersion(h) \/ Search(h) \/ Evict(h)
  \/ \E h \in Host : Crash(h)

Spec == Init /\ [][Next]_vars

\* Threads that run: each run (whose wait for the slot polls it, and which gets the lock
\* of the cache when searches keep giving it back), a search under way, and the loop of
\* the watcher.
Fairness ==
  /\ \A r \in Run : WF_vars(IndexProject(r)) /\ SF_vars(Collect(r) \/ Invalidate(r))
  /\ \A h \in Searching : WF_vars(Search(h))
  /\ WF_vars(WatcherFires)

FairSpec == Spec /\ Fairness

-----------------------------------------------------------------------------
(* Safety. *)

\* A search answered from memory by the stamp of the disk is answered from what is on
\* disk, in whatever host, and however loads, runs and removals interleaved: unless a
\* run is writing, or was cut short and no run has stamped the index since (with_index,
\* CachedIndex::load, finish_index).
CacheIsCurrent ==
  \A h \in Host :
    /\ dirty = {} /\ cache[h] # NotCached /\ cache[h].version = version
    => cache[h].rows = Searchable(rows)

\* An incremental run leaves the index a full rebuild would: every file with text has a
\* row of that text, and its embedding; a file that is gone has none.  Exceptions: what
\* was saved or written by others during the run, a file that was emptied, and a file
\* whose row an earlier run left without its embedding or with a text it did not hash
\* (index_project, should_skip, cleanup_stale_chunks, persist_chunks).
IncrementalIsFull ==
  \A r \in Run :
    At(r, "ok") /\ run[r].quiet /\ run[r].git = {} =>
      \A f \in File \ scarred :
        CASE content[f] = Absent -> rows[f] = NoRow
          [] content[f] = Empty -> TRUE
          [] OTHER -> rows[f] = [hash |-> content[f], text |-> content[f], emb |-> content[f]]

-----------------------------------------------------------------------------
(* Liveness. *)

\* A run that waits for the slot of its host gets it and comes to an end, however the
\* runs before it ended (IndexGuard).
RunEnds == \A r \in Run : At(r, "waiting") ~> Ended(r)

\* A job shown as running is shown completed or failed in the end
\* (index_project_background, get_index_job_status).
JobEnds == \A h \in Indexing : (status[h] = "running") ~> (status[h] # "running")

\* What is saved in a project that is watched is found in the index in the end, with
\* nobody asking, and what an earlier event missed with it: the burst ends, the watcher
\* starts a run after the last save, and the run sees it.  Exceptions: the program was
\* killed or the watch set anew or ended before that, or the loop at an error, the run
\* failed and no other was to come, the project is left without files, a file was emptied,
\* or read while it changed (watch_project, index_project).
SavedIsIndexed ==
  <>[](\/ saves = 0 \/ missed \/ \A f \in File : content[f] = Absent
       \/ \A f \in File \ scarred : content[f] # Empty =>
            rows[f].text = (IF content[f] = Absent THEN Unknown ELSE content[f]))
=============================================================================
