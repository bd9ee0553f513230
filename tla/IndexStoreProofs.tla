-------------------------- MODULE IndexStoreProofs --------------------------
(***************************************************************************)
(* Proofs about the semantic index, for every project, set of programs,    *)
(* and number of runs, saves and faults.                                   *)
(***************************************************************************)
EXTENDS IndexStore, TLAPS

-----------------------------------------------------------------------------
(* The inductive invariant. *)

\* No stamp that is known is later than the last one written.
StampsGrow ==
  /\ version <= stamps
  /\ \A h \in Host : cache[h].version <= stamps /\ search[h].seen <= stamps

\* A row is whole, or not there, unless a run has left it otherwise.
RowsAreWhole ==
  \A f \in File \ scarred : rows[f].text = rows[f].hash /\ rows[f].emb = rows[f].hash

\* With the files as in text, a file that is gone has no row in the table, and one that
\* says something has a row of what it says.
Covered(text, table) ==
  \A f \in File :
    /\ text[f] = Absent => table[f] = NoRow
    /\ text[f] \notin {Absent, Empty} => table[f].hash = text[f]

\* How far a run is that nobody came between: what it has found out is so.
OnItsWay(s, text, table) ==
  /\ s.pc \in {"remove", "load", "hash", "prepare"} =>
       \A f \in File : f \in s.files <=> text[f] # Absent
  /\ s.pc \in {"hash", "prepare"} =>
       \A f \in File : /\ s.known[f] = table[f].hash
                       /\ text[f] = Absent => table[f] = NoRow
  /\ s.pc \in {"prepare", "persist"} => \A f \in File : s.hashes[f] = text[f]
  /\ s.pc = "persist" =>
       \A f \in File :
         /\ s.prepared[f] \in {Unknown, text[f]}
         /\ text[f] = Absent => table[f] = NoRow
         /\ text[f] \notin {Absent, Empty} =>
              s.prepared[f] = text[f] \/ table[f].hash = text[f]
  /\ s.pc \in {"embed", "finish", "invalidate", "ok"} => Covered(text, table)

\* A run that has not looked at the rows knows nothing of them.
StartsBlank(s) ==
  s.pc \in {"waiting", "collect", "remove"} => s.known = [f \in File |-> Unknown]

RunSound(s, text, table) ==
  StartsBlank(s) /\ (s.quiet /\ s.git = {} => OnItsWay(s, text, table))

IInv ==
  /\ TypeOK /\ StampsGrow /\ CacheIsCurrent /\ RowsAreWhole
  /\ \A r \in Run : RunSound(run[r], content, rows)

-----------------------------------------------------------------------------
(* Types. *)

LEMMA Texts ==
  /\ Value = Text \cup {Absent} /\ Unknown \in Value /\ Unknown \in Nat /\ Text \subseteq Nat
  /\ NoRow \in Row /\ Watcher \in Host /\ Watcher \in Indexing
  /\ Indexing \subseteq Host /\ Searching \subseteq Host /\ First \in Text
  /\ Absent \notin Text /\ Unknown = Absent
BY IndexStoreAssumption DEF Value, Unknown, Absent, NoRow, Row, First

LEMMA NewRunTyped ==
  ASSUME NEW h \in Host, NEW user \in BOOLEAN, NEW force \in BOOLEAN,
         NEW git \in GitChanges \cup {{}}
  PROVE  /\ NewRun \in RunState /\ StartsBlank(NewRun)
         /\ LET s == [NewRun EXCEPT !.by = h, !.user = user, !.force = force,
                                    !.git = git, !.pc = "waiting"]
            IN  s \in RunState /\ StartsBlank(s) /\ ~s.quiet
BY Texts DEF NewRun, RunState, StartsBlank

\* What is kept of a run that has ended.
LEMMA ClosedTyped ==
  ASSUME NEW r \in Run, run[r] \in RunState, NEW outcome \in {"ok", "failed"}
  PROVE  /\ Closed(r, outcome) \in RunState
         /\ Closed(r, outcome).pc = outcome /\ Closed(r, outcome).git = run[r].git
         /\ Closed(r, outcome).quiet => run[r].quiet /\ outcome = "ok"
         /\ StartsBlank(Closed(r, outcome))
<1>1. NewRun \in RunState
  BY NewRunTyped, Texts
<1>2. Closed(r, outcome) \in RunState
  <2> DEFINE n == NewRun
             quiet == IF outcome = "ok" THEN run[r].quiet ELSE FALSE
  <2>1. run[r].by \in Host \cup {""} /\ run[r].user \in BOOLEAN
        /\ run[r].git \in GitChanges \cup {{}} /\ quiet \in BOOLEAN
    BY DEF RunState
  <2>2. Closed(r, outcome) = [n EXCEPT !.by = run[r].by, !.user = run[r].user,
                                       !.git = run[r].git, !.pc = outcome, !.quiet = quiet]
    BY DEF Closed
  <2> HIDE DEF n, quiet
  <2>3. n \in RunState
    BY <1>1 DEF n
  <2> QED BY <2>1, <2>2, <2>3 DEF RunState
<1>3. /\ Closed(r, outcome).pc = outcome /\ Closed(r, outcome).git = run[r].git
      /\ Closed(r, outcome).quiet = IF outcome = "ok" THEN run[r].quiet ELSE FALSE
  BY DEF Closed, NewRun
<1> QED BY <1>2, <1>3 DEF StartsBlank

LEMMA RunBecomes ==
  ASSUME run \in [Run -> RunState], NEW r, NEW s \in RunState, Becomes(r, s)
  PROVE  /\ run' \in [Run -> RunState]
         /\ r \in Run => run'[r] = s
         /\ \A q \in Run : q # r => run'[q] = run[q]
BY DEF Becomes

\* A run that somebody came between.
LEMMA DisturbedTyped ==
  ASSUME run \in [Run -> RunState]
  PROVE  \A q \in Run : [run[q] EXCEPT !.quiet = FALSE] \in RunState
<1>1. ASSUME NEW s \in RunState PROVE [s EXCEPT !.quiet = FALSE] \in RunState
  BY DEF RunState
<1> QED BY <1>1

LEMMA RunWrites ==
  ASSUME run \in [Run -> RunState], dirty \subseteq Run, NEW r \in Run, NEW s \in RunState,
         Writes(r, s)
  PROVE  /\ run' \in [Run -> RunState] /\ run'[r] = s
         /\ dirty' \subseteq Run /\ dirty' # {}
         /\ \A q \in Run : q # r => run'[q] = [run[q] EXCEPT !.quiet = FALSE]
BY DisturbedTyped DEF Writes

-----------------------------------------------------------------------------
(* Types, action by action. *)

\* The parts of the state, so that a step is looked at part by part.
StoreTyped == rows \in [File -> Row] /\ version \in Nat /\ stamps \in Nat
RunsTyped ==
  /\ run \in [Run -> RunState] /\ slot \in [Host -> Run \cup {NoSlot}]
  /\ status \in [Host -> {"none", "running", "completed", "failed"}]
  /\ dirty \subseteq Run
SearchTyped ==
  /\ cache \in [Host -> Cached]
  /\ search \in [Host -> [pc : {"idle", "looked", "load", "rows"}, seen : Nat]]
RestTyped ==
  /\ content \in [File -> Text \cup {Absent}]
  /\ watching \in BOOLEAN /\ listening \in BOOLEAN
  /\ pending \in BOOLEAN /\ missed \in BOOLEAN
  /\ faults \in Nat /\ saves \in Nat /\ scarred \subseteq File

LEMMA TypeParts == TypeOK <=> StoreTyped /\ RunsTyped /\ SearchTyped /\ RestTyped
BY DEF TypeOK, StoreTyped, RunsTyped, SearchTyped, RestTyped

LEMMA EndTyped ==
  ASSUME RunsTyped, NEW r \in Run, NEW outcome \in {"ok", "failed"}, End(r, outcome)
  PROVE  run' \in [Run -> RunState] /\ slot' \in [Host -> Run \cup {NoSlot}]
         /\ status' \in [Host -> {"none", "running", "completed", "failed"}]
<1>1. Closed(r, outcome) \in RunState
  BY ClosedTyped DEF RunsTyped
<1>2. run' \in [Run -> RunState]
  BY <1>1, RunBecomes DEF End, RunsTyped
<1> QED BY <1>2 DEF End, GiveSlotBack, Record, RunsTyped

\* What starts runs, and what becomes of the files.
LEMMA OutsideTyped ==
  ASSUME TypeOK,
         \/ \E h \in Indexing, force \in BOOLEAN, git \in GitChanges \cup {{}} :
              Request(h, force, git)
         \/ WatcherFires \/ Watch \/ Unwatch \/ NotifyError
         \/ \E f \in File, text \in Text \cup {Absent} : Save(f, text)
         \/ \E h \in Host : Crash(h)
  PROVE  TypeOK'
<1> USE TypeParts
<1>1. ASSUME NEW h \in Host, NEW user \in BOOLEAN, NEW force \in BOOLEAN,
             NEW git \in GitChanges \cup {{}}, Ask(h, user, force, git)
      PROVE  /\ run' \in [Run -> RunState]
             /\ status' \in [Host -> {"none", "running", "completed", "failed"}]
  <2> DEFINE s == [NewRun EXCEPT !.by = h, !.user = user, !.force = force,
                                 !.git = git, !.pc = "waiting"]
  <2>1. s \in RunState
    BY NewRunTyped
  <2>2. Becomes(Cardinality(Asked) + 1, s) /\ status' = [status EXCEPT ![h] = "running"]
    BY <1>1 DEF Ask
  <2> HIDE DEF s
  <2> QED BY <2>1, <2>2, RunBecomes DEF RunsTyped
<1>2. ASSUME NEW h \in Indexing, NEW force \in BOOLEAN, NEW git \in GitChanges \cup {{}},
             Request(h, force, git)
      PROVE  TypeOK'
  <2>1. Ask(h, TRUE, force, git) /\ h \in Host
    BY <1>2, Texts DEF Request
  <2>2. RunsTyped'
    BY <1>1, <1>2, <2>1 DEF Request, RunsTyped
  <2>3. UNCHANGED <<content, store, searching, watcher, faults, saves, scarred>>
    BY <1>2 DEF Request
  <2> QED BY <2>2, <2>3 DEF TypeOK, RunsTyped, store, searching, watcher
<1>3. CASE WatcherFires
  <2>1. Ask(Watcher, FALSE, FALSE, {}) /\ Watcher \in Host
    BY <1>3, Texts DEF WatcherFires
  <2>2. RunsTyped'
    BY <1>1, <1>3, <2>1 DEF WatcherFires, RunsTyped
  <2>3. UNCHANGED <<content, store, searching, watching, listening, missed, faults, saves, scarred>>
        /\ pending' = FALSE
    BY <1>3 DEF WatcherFires
  <2> QED BY <2>2, <2>3 DEF TypeOK, RunsTyped, store, searching
<1>4. CASE Watch \/ Unwatch
  <2>1. UNCHANGED <<content, store, run, slot, status, searching, faults, saves, dirty, scarred>>
        /\ watching' \in BOOLEAN /\ listening' \in BOOLEAN
        /\ pending' = FALSE /\ missed' = (missed \/ pending)
    BY <1>4 DEF Watch, Unwatch
  <2> QED BY <2>1 DEF TypeOK, store, searching
<1>4a. CASE NotifyError
  <2>1. UNCHANGED <<content, store, run, slot, status, searching, watching, saves, dirty, scarred>>
        /\ listening' = FALSE /\ pending' = FALSE /\ missed' = (missed \/ pending)
    BY <1>4a DEF NotifyError
  <2>2. faults' \in Nat
    BY <1>4a DEF NotifyError, Fault, TypeOK
  <2> QED BY <2>1, <2>2 DEF TypeOK, store, searching
<1>5. ASSUME NEW f \in File, NEW text \in Text \cup {Absent}, Save(f, text) PROVE TypeOK'
  <2>1. content' = [content EXCEPT ![f] = text] /\ saves' = saves + 1
        /\ pending' = listening /\ missed' = ~listening /\ UNCHANGED <<watching, listening>>
        /\ UNCHANGED <<store, slot, status, searching, faults, dirty, scarred>>
    BY <1>5 DEF Save
  <2>2. content' \in [File -> Text \cup {Absent}] /\ saves' \in Nat
    BY <2>1 DEF TypeOK
  <2>3. run' \in [Run -> RunState]
    <3>1. \A r \in Run : [run[r] EXCEPT !.quiet = FALSE] \in RunState
      BY DisturbedTyped DEF TypeOK
    <3> QED BY <1>5, <3>1 DEF Save
  <2> QED BY <2>1, <2>2, <2>3 DEF TypeOK, store, searching
<1>6. ASSUME NEW h \in Host, Crash(h) PROVE TypeOK'
  <2>1. run' \in [Run -> RunState]
    <3>1. \A r \in Run : run[r] \in RunState /\ Closed(r, "failed") \in RunState
      BY ClosedTyped DEF TypeOK
    <3> QED BY <1>6, <3>1 DEF Crash
  <2>2. /\ slot' \in [Host -> Run \cup {NoSlot}]
        /\ status' \in [Host -> {"none", "running", "completed", "failed"}]
    BY <1>6 DEF Crash, TypeOK
  <2>3. SearchTyped'
    <3>1. NotCached \in Cached
      BY Texts DEF NotCached, Cached
    <3> QED BY <1>6, <3>1 DEF Crash, TypeOK, SearchTyped
  <2>4. watching' \in BOOLEAN /\ listening' \in BOOLEAN /\ pending' \in BOOLEAN /\ missed' \in BOOLEAN
    BY <1>6 DEF Crash, TypeOK, watcher
  <2>5. UNCHANGED <<content, store, saves, dirty, scarred>> /\ faults' = faults + 1
    BY <1>6 DEF Crash, Fault
  <2> QED BY <2>1, <2>2, <2>3, <2>4, <2>5 DEF TypeOK, SearchTyped, store
<1> QED BY <1>2, <1>3, <1>4, <1>4a, <1>5, <1>6

\* The searches.
LEMMA SearchesTyped ==
  ASSUME TypeOK, NEW h \in Searching, LookAtVersion(h) \/ Search(h) \/ Evict(h)
  PROVE  TypeOK'
<1>1. UNCHANGED <<content, store, run, slot, status, watcher, faults, saves, dirty, scarred>>
  BY DEF LookAtVersion, Search, LookAtCache, LoadVersion, LoadRows, Evict
<1>2. SearchTyped'
  <2>1. NotCached \in Cached
    BY Texts DEF NotCached, Cached
  <2>2. search[h] \in [pc : {"idle", "looked", "load", "rows"}, seen : Nat] /\ h \in Host
    BY Texts DEF TypeOK
  <2>3. search' \in [Host -> [pc : {"idle", "looked", "load", "rows"}, seen : Nat]]
    <3>1. [search[h] EXCEPT !.pc = "load"] \in [pc : {"idle", "looked", "load", "rows"}, seen : Nat]
      BY <2>2
    <3>2. [pc |-> "idle", seen |-> 0] \in [pc : {"idle", "looked", "load", "rows"}, seen : Nat]
      OBVIOUS
    <3>3. /\ [pc |-> "looked", seen |-> version] \in [pc : {"idle", "looked", "load", "rows"}, seen : Nat]
          /\ [pc |-> "rows", seen |-> version] \in [pc : {"idle", "looked", "load", "rows"}, seen : Nat]
      BY DEF TypeOK
    <3> QED BY <3>1, <3>2, <3>3
            DEF TypeOK, LookAtVersion, Search, LookAtCache, LoadVersion, LoadRows, Evict,
                SearchEnds, SearchGoes
  <2>4. cache' \in [Host -> Cached]
    <3>1. [version |-> search[h].seen, rows |-> Searchable(rows)] \in Cached
      <4>1. Searchable(rows) \in [File -> Value]
        BY DEF TypeOK, Searchable, Row
      <4> QED BY <2>2, <4>1 DEF Cached
    <3> QED BY <2>1, <3>1
            DEF TypeOK, LookAtVersion, Search, LookAtCache, LoadVersion, LoadRows, Evict
  <2> QED BY <2>3, <2>4 DEF SearchTyped
<1> QED BY <1>1, <1>2 DEF TypeOK, SearchTyped, store, watcher

\* What an embedding, a hash and a text are.
LEMMA RowParts ==
  ASSUME TypeOK, NEW f \in File
  PROVE  /\ rows[f] \in Row
         /\ rows[f].hash \in Value /\ rows[f].text \in Value /\ rows[f].emb \in Value
         /\ content[f] \in Value
         /\ \A e \in Value : [rows[f] EXCEPT !.emb = e] \in Row
BY Texts DEF TypeOK, Row

\* The parts of a run's state, as it goes on.
LEMMA RunParts ==
  ASSUME TypeOK, NEW r \in Run
  PROVE  /\ run[r] \in RunState
         /\ run[r].files \subseteq File /\ run[r].by \in Host \cup {""}
         /\ run[r].quiet \in BOOLEAN /\ run[r].force \in BOOLEAN
         /\ run[r].known \in [File -> Value] /\ run[r].hashes \in [File -> Value]
         /\ run[r].prepared \in [File -> Value]
BY DEF TypeOK, RunState

\* The states that the steps of a run leave it in.
LEMMA StageTyped ==
  ASSUME TypeOK, NEW r \in Run
  PROVE  /\ \A pc \in {"collect", "hash", "embed", "finish", "invalidate"} :
              [run[r] EXCEPT !.pc = pc] \in RunState
         /\ \A files \in SUBSET File, pc \in {"remove", "load"} :
              [run[r] EXCEPT !.files = files, !.quiet = TRUE, !.pc = pc] \in RunState
         /\ \A b \in BOOLEAN, known \in [File -> Value] :
              [run[r] EXCEPT !.pc = "hash", !.stale = b, !.known = known] \in RunState
         /\ \A hashes \in [File -> Value] :
              [run[r] EXCEPT !.pc = "prepare", !.hashes = hashes] \in RunState
         /\ \A prepared \in [File -> Value] :
              [run[r] EXCEPT !.pc = "persist", !.prepared = prepared] \in RunState
<1>1. run[r] \in RunState
  BY DEF TypeOK
<1>2. \A pc \in {"collect", "hash", "embed", "finish", "invalidate"} :
        [run[r] EXCEPT !.pc = pc] \in RunState
  BY <1>1 DEF RunState
<1>3. \A files \in SUBSET File, pc \in {"remove", "load"} :
        [run[r] EXCEPT !.files = files, !.quiet = TRUE, !.pc = pc] \in RunState
  BY <1>1 DEF RunState
<1>4. \A b \in BOOLEAN, known \in [File -> Value] :
        [run[r] EXCEPT !.pc = "hash", !.stale = b, !.known = known] \in RunState
  BY <1>1 DEF RunState
<1>5. \A hashes \in [File -> Value] :
        [run[r] EXCEPT !.pc = "prepare", !.hashes = hashes] \in RunState
  BY <1>1 DEF RunState
<1>6. \A prepared \in [File -> Value] :
        [run[r] EXCEPT !.pc = "persist", !.prepared = prepared] \in RunState
  BY <1>1 DEF RunState
<1> QED BY <1>2, <1>3, <1>4, <1>5, <1>6

\* A run at its work.
LEMMA ProjectTyped ==
  ASSUME TypeOK, NEW r \in Run, IndexProject(r)
  PROVE  TypeOK'
<1> USE TypeParts

<1>0. run[r] \in RunState /\ run \in [Run -> RunState] /\ dirty \subseteq Run
  BY DEF TypeOK
<1>1. CASE TakeSlot(r) \/ Hash(r)
  <2>1. /\ [run[r] EXCEPT !.pc = "collect"] \in RunState
        /\ [run[r] EXCEPT !.pc = "prepare",
              !.hashes = [f \in File |-> IF f \in run[r].files THEN content[f] ELSE Unknown]]
           \in RunState
    <3>1. [f \in File |-> IF f \in run[r].files THEN content[f] ELSE Unknown] \in [File -> Value]
      BY RowParts, Texts

    <3> QED BY <3>1, StageTyped
  <2>2. run' \in [Run -> RunState]
    BY <1>0, <1>1, <2>1, RunBecomes DEF TakeSlot, Hash
  <2>3. slot' \in [Host -> Run \cup {NoSlot}]
    BY <1>1 DEF TakeSlot, Hash, TypeOK
  <2>4. UNCHANGED <<content, store, status, searching, watcher, faults, saves, dirty, scarred>>
    BY <1>1 DEF TakeSlot, Hash
  <2> QED BY <2>2, <2>3, <2>4 DEF TypeOK, store, searching, watcher
<1>2. CASE Collect(r)
  <2> DEFINE files == {f \in File : content[f] # Absent}
  <2>1. \A pc \in {"remove", "load"} :
          [run[r] EXCEPT !.files = files, !.quiet = TRUE, !.pc = pc] \in RunState
    BY StageTyped
  <2>2. run' \in [Run -> RunState] /\ slot' \in [Host -> Run \cup {NoSlot}]
        /\ status' \in [Host -> {"none", "running", "completed", "failed"}]
    <3>1. CASE files = {}
      BY <1>2, <3>1, EndTyped DEF Collect
    <3>2. CASE files # {}
      <4>1. Becomes(r, [run[r] EXCEPT !.files = files, !.quiet = TRUE,
                                      !.pc = IF run[r].force THEN "remove" ELSE "load"])
            /\ UNCHANGED <<slot, status>>
        BY <1>2, <3>2 DEF Collect
      <4>2. run' \in [Run -> RunState]
        BY <1>0, <2>1, <4>1, RunBecomes
      <4> QED BY <4>1, <4>2 DEF TypeOK
    <3> QED BY <3>1, <3>2
  <2>3. cache' \in [Host -> Cached]
    <3>1. NotCached \in Cached
      BY Texts DEF NotCached, Cached
    <3> QED BY <1>2, <3>1 DEF Collect, TypeOK
  <2>4. UNCHANGED <<content, store, search, watcher, faults, saves, dirty, scarred>>
    BY <1>2 DEF Collect
  <2> QED BY <2>2, <2>3, <2>4 DEF TypeOK, store, watcher
<1>3. CASE Remove(r)
  <2>1. run' \in [Run -> RunState] /\ dirty' \subseteq Run
    BY <1>0, <1>3, StageTyped, RunWrites DEF Remove
  <2>2. rows' \in [File -> Row] /\ version' \in Nat
    BY <1>3, Texts DEF Remove
  <2>3. UNCHANGED <<content, stamps, slot, status, searching, watcher, faults, saves, scarred>>
    BY <1>3 DEF Remove
  <2> QED BY <2>1, <2>2, <2>3 DEF TypeOK, searching, watcher
<1>4. CASE Load(r)
  <2> DEFINE stale == {f \in File \ run[r].files : rows[f] # NoRow}
             known == [f \in File |-> IF f \in stale THEN Unknown ELSE rows[f].hash]
             loaded == [run[r] EXCEPT !.pc = "hash", !.stale = stale # {}, !.known = known]
  <2>1. loaded \in RunState
    <3>1. known \in [File -> Value] /\ (stale # {}) \in BOOLEAN
      BY RowParts, Texts
    <3> HIDE DEF known, stale
    <3> QED BY <3>1, StageTyped
  <2>2. /\ rows' = [f \in File |-> IF f \in stale THEN NoRow ELSE rows[f]]
        /\ IF stale = {} THEN Becomes(r, loaded) /\ UNCHANGED dirty ELSE Writes(r, loaded)
        /\ scarred' = scarred \ stale
        /\ UNCHANGED <<content, version, stamps, slot, status, searching, watcher, faults, saves>>
    BY <1>4 DEF Load
  <2>3. rows' \in [File -> Row]
    BY <2>2, RowParts, Texts
  <2>4. run' \in [Run -> RunState] /\ dirty' \subseteq Run
    <3> HIDE DEF loaded, stale
    <3> QED BY <1>0, <2>1, <2>2, RunBecomes, RunWrites
  <2> HIDE DEF loaded, stale, known
  <2> QED BY <2>2, <2>3, <2>4 DEF TypeOK, searching, watcher
<1>5. CASE Prepare(r)
  <2>1. Prepared(r) \in [File -> Value]
    BY RowParts, Texts DEF Prepared
  <2>2. run' \in [Run -> RunState] /\ slot' \in [Host -> Run \cup {NoSlot}]
        /\ status' \in [Host -> {"none", "running", "completed", "failed"}]
    <3>1. CASE End(r, "ok")
      BY <3>1, EndTyped
    <3>2. CASE /\ Becomes(r, [run[r] EXCEPT !.pc = "persist", !.prepared = Prepared(r)])
               /\ status' = [status EXCEPT ![run[r].by] = "running"]
               /\ UNCHANGED slot
      <4>1. run' \in [Run -> RunState]
        BY <1>0, <2>1, <3>2, StageTyped, RunBecomes
      <4> QED BY <3>2, <4>1 DEF TypeOK
    <3> QED BY <1>5, <3>1, <3>2 DEF Prepare
  <2>3. UNCHANGED <<content, store, searching, watcher, faults, saves, dirty, scarred>>
    BY <1>5 DEF Prepare
  <2> QED BY <2>2, <2>3 DEF TypeOK, store, searching, watcher
<1>6. CASE Persist(r)
  <2>1. run' \in [Run -> RunState] /\ dirty' \subseteq Run
    BY <1>0, <1>6, StageTyped, RunWrites DEF Persist
  <2>2. rows' \in [File -> Row]
    <3>1. \A f \in File :
            [hash |-> run[r].hashes[f], text |-> run[r].prepared[f], emb |-> Unknown] \in Row
      BY RunParts, Texts DEF Row
    <3> QED BY <1>6, <3>1, RowParts DEF Persist
  <2>3. scarred' \subseteq File
    BY <1>6 DEF Persist, Touched, TypeOK
  <2>4. UNCHANGED <<content, version, stamps, slot, status, searching, watcher, faults, saves>>
    BY <1>6 DEF Persist
  <2> QED BY <2>1, <2>2, <2>3, <2>4 DEF TypeOK, searching, watcher
<1>7. CASE Embed(r)
  <2> DEFINE found == {f \in Touched(r) : rows[f] # NoRow}
  <2>1. [run[r] EXCEPT !.pc = "finish"] \in RunState
    BY StageTyped
  <2>2. run' \in [Run -> RunState] /\ dirty' \subseteq Run
    BY <1>0, <1>7, <2>1, RunBecomes, RunWrites DEF Embed
  <2>3. rows' \in [File -> Row]
    <3>1. \A f \in File : [rows[f] EXCEPT !.emb = run[r].prepared[f]] \in Row
      BY RowParts, RunParts
    <3> QED BY <1>7, <3>1, RowParts DEF Embed
  <2>4. scarred' \subseteq File
    BY <1>7 DEF Embed, Touched, TypeOK
  <2>5. UNCHANGED <<content, version, stamps, slot, status, searching, watcher, faults, saves>>
    BY <1>7 DEF Embed
  <2> QED BY <2>2, <2>3, <2>4, <2>5 DEF TypeOK, searching, watcher
<1>8. CASE EmbedFails(r)
  <2>1. End(r, "failed")
        /\ UNCHANGED <<content, store, searching, watcher, faults, saves, dirty, scarred>>
    BY <1>8 DEF EmbedFails
  <2> QED BY <2>1, EndTyped DEF TypeOK, store, searching, watcher
<1>9. CASE Finish(r)
  <2>1. run' \in [Run -> RunState] /\ slot' \in [Host -> Run \cup {NoSlot}]
        /\ status' \in [Host -> {"none", "running", "completed", "failed"}]
        /\ version' \in Nat /\ stamps' \in Nat /\ dirty' \subseteq Run
    <3>1. CASE \A f \in File : rows[f].emb = Unknown
      BY <1>0, <1>9, <3>1, EndTyped DEF Finish, TypeOK
    <3>2. CASE ~\A f \in File : rows[f].emb = Unknown
      <4>1. /\ stamps' = stamps + 1 /\ version' = stamps + 1
            /\ Becomes(r, [run[r] EXCEPT !.pc = "invalidate"])
            /\ dirty' = {q \in dirty \ {r} : ~Ended(q)}
            /\ UNCHANGED <<slot, status>>
        BY <1>9, <3>2 DEF Finish
      <4>2. run' \in [Run -> RunState]
        BY <1>0, <4>1, StageTyped, RunBecomes
      <4> QED BY <4>1, <4>2 DEF TypeOK
    <3> QED BY <3>1, <3>2
  <2>2. UNCHANGED <<content, rows, searching, watcher, faults, saves, scarred>>
    BY <1>9 DEF Finish
  <2> QED BY <2>1, <2>2 DEF TypeOK, searching, watcher
<1>10. CASE Invalidate(r)
  <2>1. /\ \E outcome \in {"ok", "failed"} : End(r, outcome)
        /\ faults' \in {faults, faults + 1}
        /\ cache' = [cache EXCEPT ![run[r].by] = NotCached]
        /\ UNCHANGED <<content, store, search, watcher, saves, dirty, scarred>>
    BY <1>10 DEF Invalidate, Fault
  <2>2. cache' \in [Host -> Cached]
    <3>1. NotCached \in Cached
      BY Texts DEF NotCached, Cached
    <3> QED BY <2>1, <3>1 DEF TypeOK
  <2> QED BY <2>1, <2>2, EndTyped DEF TypeOK, store, watcher
<1>11. CASE Fails(r)
  <2>1. /\ End(r, "failed") /\ faults' = faults + 1 /\ missed' \in BOOLEAN
        /\ UNCHANGED <<content, store, searching, watching, listening, pending, saves, dirty,
                       scarred>>
    BY <1>11 DEF Fails, Fault
  <2> QED BY <2>1, EndTyped DEF TypeOK, store, searching
<1>12. CASE RemoveFails(r)
  <2>1. Closed(r, "failed") \in RunState
    BY <1>0, ClosedTyped
  <2>2. run' \in [Run -> RunState] /\ dirty' \subseteq Run
    BY <1>0, <1>12, <2>1, RunWrites DEF RemoveFails
  <2>3. /\ slot' \in [Host -> Run \cup {NoSlot}]
        /\ status' \in [Host -> {"none", "running", "completed", "failed"}]
    BY <1>12 DEF RemoveFails, GiveSlotBack, Record, TypeOK
  <2>4. rows' \in [File -> Row] /\ version' \in Nat
    BY <1>12, Texts DEF RemoveFails, TypeOK
  <2>5. /\ faults' = faults + 1 /\ missed' \in BOOLEAN
        /\ UNCHANGED <<content, stamps, searching, watching, listening, pending, saves, scarred>>
    BY <1>12 DEF RemoveFails, Fault
  <2> QED BY <2>2, <2>3, <2>4, <2>5 DEF TypeOK, searching
<1> QED BY <1>1, <1>2, <1>3, <1>4, <1>5, <1>6, <1>7, <1>8, <1>9, <1>10, <1>11, <1>12
        DEF IndexProject

LEMMA StepTyped == TypeOK /\ [Next]_vars => TypeOK'
<1>1. TypeOK /\ UNCHANGED vars => TypeOK'
  BY DEF TypeOK, vars, store, searching, watcher
<1> QED BY <1>1, OutsideTyped, SearchesTyped, ProjectTyped DEF Next

-----------------------------------------------------------------------------
(* What is in memory by the stamp of the disk is what is on disk. *)

\* The rows change only under a run that has then not stamped them, and runs are taken
\* to have stamped theirs only with a stamp that nobody knows yet.
LEMMA StoreStep ==
  ASSUME TypeOK, [Next]_vars
  PROVE  /\ rows' = rows \/ dirty' # {}
         /\ \/ version' = version /\ stamps' = stamps /\ dirty \subseteq dirty'
            \/ version' = 0 /\ stamps' = stamps /\ dirty' # {}
            \/ version' = stamps + 1 /\ stamps' = stamps + 1 /\ UNCHANGED <<rows, searching>>
<1>1. CASE UNCHANGED <<store, dirty>>
  BY <1>1 DEF store
<1>2. ASSUME NEW r \in Run,
             Remove(r) \/ RemoveFails(r) \/ Load(r) \/ Persist(r) \/ Embed(r)
      PROVE  /\ rows' = rows \/ dirty' # {}
             /\ \/ version' = version /\ stamps' = stamps /\ dirty \subseteq dirty'
                \/ version' = 0 /\ stamps' = stamps /\ dirty' # {}
  <2>1. CASE Remove(r) \/ RemoveFails(r)
    BY <2>1 DEF Remove, RemoveFails, Writes
  <2>2. CASE Load(r)
    <3> DEFINE stale == {f \in File \ run[r].files : rows[f] # NoRow}
    <3>1. CASE stale = {}
      <4>1. rows' = [f \in File |-> rows[f]] /\ UNCHANGED dirty
        BY <2>2, <3>1 DEF Load
      <4> QED BY <2>2, <4>1 DEF Load, TypeOK
    <3>2. CASE stale # {}
      BY <2>2, <3>2 DEF Load, Writes
    <3> QED BY <3>1, <3>2
  <2>3. CASE Persist(r)
    BY <2>3 DEF Persist, Writes
  <2>4. CASE Embed(r)
    <3> DEFINE found == {f \in Touched(r) : rows[f] # NoRow}
    <3>1. CASE found = {}
      <4>1. rows' = [f \in File |-> rows[f]] /\ UNCHANGED dirty
        BY <2>4, <3>1 DEF Embed
      <4> QED BY <2>4, <4>1 DEF Embed, TypeOK
    <3>2. CASE found # {}
      BY <2>4, <3>2 DEF Embed, Writes
    <3> QED BY <3>1, <3>2
  <2> QED BY <1>2, <2>1, <2>2, <2>3, <2>4
<1>3. ASSUME NEW r \in Run, Finish(r)
      PROVE  \/ UNCHANGED <<store, dirty>>
             \/ version' = stamps + 1 /\ stamps' = stamps + 1 /\ UNCHANGED <<rows, searching>>
  BY <1>3 DEF Finish, store
<1>4. ASSUME NEW r \in Run, IndexProject(r),
             ~(Remove(r) \/ RemoveFails(r) \/ Load(r) \/ Persist(r) \/ Embed(r) \/ Finish(r))
      PROVE  UNCHANGED <<store, dirty>>
  BY <1>4 DEF IndexProject, TakeSlot, Collect, Hash, Prepare, Fails, EmbedFails, Invalidate
<1>5. CASE \E r \in Run : IndexProject(r)
  BY <1>1, <1>2, <1>3, <1>4, <1>5
<1>6. CASE ~\E r \in Run : IndexProject(r)
  <2>1. UNCHANGED <<store, dirty>>
    BY <1>6 DEF Next, vars, Request, WatcherFires, Watch, Unwatch, NotifyError, Save,
                LookAtVersion, Search, LookAtCache, LoadVersion, LoadRows, Evict, Crash
  <2> QED BY <1>1, <2>1
<1> QED BY <1>5, <1>6

\* What is cached was cached before, or is on disk; a search knows the stamp on disk.
LEMMA CacheStep ==
  ASSUME TypeOK, [Next]_vars, NEW h \in Host
  PROVE  /\ \/ cache'[h] \in {cache[h], NotCached}
            \/ /\ cache'[h] = [version |-> search[h].seen, rows |-> Searchable(rows)]
               /\ rows' = rows
         /\ search'[h].seen \in {search[h].seen, version, 0}
<1>1. CASE UNCHANGED searching
  BY <1>1 DEF searching
<1>2. ASSUME NEW r \in Run, IndexProject(r)
      PROVE  search' = search /\ cache'[h] \in {cache[h], NotCached}
  BY <1>2 DEF IndexProject, TakeSlot, Collect, Remove, Load, Hash, Prepare, Persist, Embed,
              Fails, RemoveFails, EmbedFails, Finish, Invalidate, TypeOK, searching
<1>3. ASSUME NEW i \in Searching, LookAtVersion(i) \/ Search(i) \/ Evict(i)
      PROVE  /\ \/ cache'[h] \in {cache[h], NotCached}
                \/ /\ cache'[h] = [version |-> search[h].seen, rows |-> Searchable(rows)]
                   /\ rows' = rows
             /\ search'[h].seen \in {search[h].seen, version, 0}
  BY <1>3, Texts DEF LookAtVersion, Search, LookAtCache, LoadVersion, LoadRows, Evict, TypeOK,
                     SearchEnds, SearchGoes, store
<1>4. ASSUME NEW i \in Host, Crash(i)
      PROVE  cache'[h] \in {cache[h], NotCached} /\ search'[h].seen \in {search[h].seen, 0}
  BY <1>4 DEF Crash, TypeOK
<1>5. CASE \/ \E i \in Indexing, force \in BOOLEAN, git \in GitChanges \cup {{}} :
                Request(i, force, git)
           \/ WatcherFires \/ Watch \/ Unwatch \/ NotifyError
           \/ \E f \in File, text \in Text \cup {Absent} : Save(f, text)
           \/ UNCHANGED vars
  BY <1>1, <1>5 DEF Request, WatcherFires, Watch, Unwatch, NotifyError, Save, vars
<1> QED BY <1>2, <1>3, <1>4, <1>5 DEF Next

LEMMA CurrentStep ==
  ASSUME TypeOK, StampsGrow, CacheIsCurrent, [Next]_vars
  PROVE  StampsGrow' /\ CacheIsCurrent'
<1>1. version' \in Nat /\ stamps' \in Nat /\ version \in Nat /\ stamps \in Nat
  BY StepTyped DEF TypeOK
<1>2. \A h \in Host : cache[h].version \in Nat /\ search[h].seen \in Nat
  BY DEF TypeOK, Cached
<1>3. NotCached.version = 0
  BY DEF NotCached
<1>4. StampsGrow'
  <2>1. version' <= stamps' /\ stamps <= stamps'
    BY <1>1, StoreStep DEF StampsGrow
  <2>2. ASSUME NEW h \in Host PROVE cache'[h].version <= stamps /\ search'[h].seen <= stamps
    <3>1. cache'[h].version \in {cache[h].version, 0, search[h].seen}
      <4>1. CASE cache'[h] \in {cache[h], NotCached}
        BY <1>3, <4>1
      <4>2. CASE cache'[h] = [version |-> search[h].seen, rows |-> Searchable(rows)]
        BY <4>2
      <4> QED BY <4>1, <4>2, CacheStep
    <3>2. search'[h].seen \in {search[h].seen, version, 0}
      BY CacheStep
    <3> QED BY <1>1, <1>2, <3>1, <3>2 DEF StampsGrow
  <2>3. ASSUME NEW h \in Host PROVE cache'[h].version \in Nat /\ search'[h].seen \in Nat
    BY StepTyped DEF TypeOK, Cached
  <2> QED BY <1>1, <2>1, <2>2, <2>3 DEF StampsGrow
<1>5. ASSUME NEW h \in Host, dirty' = {}, cache'[h] # NotCached, cache'[h].version = version'
      PROVE  cache'[h].rows = Searchable(rows')
  <2>1. rows' = rows
    BY <1>5, StoreStep
  <2>2. CASE cache'[h] = [version |-> search[h].seen, rows |-> Searchable(rows)]
    BY <2>1, <2>2
  <2>3. CASE cache'[h] = cache[h]
    <3>1. cache[h].version <= stamps
      BY DEF StampsGrow
    <3>2. version' = version /\ dirty = {}
      BY <1>1, <1>2, <1>5, <2>3, <3>1, StoreStep
    <3> QED BY <1>5, <2>1, <2>3, <3>2 DEF CacheIsCurrent
  <2> QED BY <1>5, <2>2, <2>3, CacheStep
<1> QED BY <1>4, <1>5 DEF CacheIsCurrent, Searchable

-----------------------------------------------------------------------------
(* Rows are whole unless a run has left them otherwise. *)

LEMMA WholeStep ==
  ASSUME TypeOK, RowsAreWhole, [Next]_vars
  PROVE  RowsAreWhole'
<1>1. CASE UNCHANGED <<rows, scarred>>
  BY <1>1 DEF RowsAreWhole
<1>2. ASSUME NEW r \in Run, Remove(r) \/ RemoveFails(r) PROVE RowsAreWhole'
  BY <1>2 DEF Remove, RemoveFails, RowsAreWhole, NoRow
<1>3. ASSUME NEW r \in Run, Load(r) PROVE RowsAreWhole'
  <2> DEFINE stale == {f \in File \ run[r].files : rows[f] # NoRow}
  <2>1. rows' = [f \in File |-> IF f \in stale THEN NoRow ELSE rows[f]]
        /\ scarred' = scarred \ stale
    BY <1>3 DEF Load
  <2> HIDE DEF stale
  <2> QED BY <2>1 DEF RowsAreWhole, NoRow
<1>4. ASSUME NEW r \in Run, Persist(r) PROVE RowsAreWhole'
  BY <1>4 DEF Persist, RowsAreWhole
<1>5. ASSUME NEW r \in Run, Embed(r) PROVE RowsAreWhole'
  <2> DEFINE found == {f \in Touched(r) : rows[f] # NoRow}
             whole == {f \in found : run[r].hashes[f] = rows[f].hash
                                     /\ rows[f].hash = rows[f].text
                                     /\ rows[f].text = run[r].prepared[f]}
  <2>1. /\ rows' = [f \in File |-> IF f \in found
                                   THEN [rows[f] EXCEPT !.emb = run[r].prepared[f]]
                                   ELSE rows[f]]
        /\ scarred' = (scarred \cup found) \ whole
    BY <1>5 DEF Embed
  <2>2. ASSUME NEW f \in File \ scarred'
        PROVE  rows'[f].text = rows'[f].hash /\ rows'[f].emb = rows'[f].hash
    <3>1. CASE f \in whole
      <4>1. rows[f].text = run[r].prepared[f] /\ rows[f].hash = rows[f].text
            /\ rows'[f] = [rows[f] EXCEPT !.emb = run[r].prepared[f]]
        BY <2>1, <3>1
      <4> QED BY <4>1, RowParts DEF Row
    <3>2. CASE f \notin scarred /\ f \notin found
      BY <2>1, <3>2 DEF RowsAreWhole
    <3> QED BY <2>1, <3>1, <3>2
  <2> QED BY <2>2 DEF RowsAreWhole
<1>6. ASSUME NEW r \in Run, IndexProject(r),
             ~(Remove(r) \/ RemoveFails(r) \/ Load(r) \/ Persist(r) \/ Embed(r))
      PROVE  UNCHANGED <<rows, scarred>>
  BY <1>6 DEF IndexProject, TakeSlot, Collect, Hash, Prepare, Fails, EmbedFails, Finish,
              Invalidate, store
<1>7. CASE ~\E r \in Run : IndexProject(r)
  <2>1. UNCHANGED <<rows, scarred>>
    BY <1>7 DEF Next, vars, store, Request, WatcherFires, Watch, Unwatch, NotifyError, Save,
                LookAtVersion, Search, LookAtCache, LoadVersion, LoadRows, Evict, Crash
  <2> QED BY <1>1, <2>1
<1> QED BY <1>1, <1>2, <1>3, <1>4, <1>5, <1>6, <1>7

-----------------------------------------------------------------------------
(* What a run has found out is so, unless somebody came between. *)

\* What is skipped, by a run that does not ask git, has a row of what it says.
LEMMA SkippedIsIndexed ==
  ASSUME TypeOK, NEW r \in Run, NEW f \in File, run[r].git = {}, ShouldSkip(r, f)
  PROVE  run[r].known[f] = run[r].hashes[f]
BY DEF ShouldSkip, KnownHash

\* Each step of a run finds out what it takes to be so after it.
LEMMA ProjectSound ==
  ASSUME TypeOK, NEW r \in Run, RunSound(run[r], content, rows), IndexProject(r)
  PROVE  RunSound(run'[r], content', rows')
<1>0. /\ run[r] \in RunState /\ run \in [Run -> RunState] /\ dirty \subseteq Run /\ TypeOK'
      /\ \A f \in File : rows[f] \in Row /\ content[f] \in Value
  BY ProjectTyped, RowParts DEF TypeOK
<1>1. StartsBlank(run[r]) /\ (run[r].quiet /\ run[r].git = {} => OnItsWay(run[r], content, rows))
  BY DEF RunSound
<1>2. ASSUME NEW outcome \in {"ok", "failed"}, End(r, outcome), UNCHANGED <<content, rows>>,
             outcome = "ok" /\ run[r].quiet /\ run[r].git = {} => Covered(content, rows)
      PROVE  RunSound(run'[r], content', rows')
  <2>1. run'[r] = Closed(r, outcome)
    BY <1>0, <1>2, ClosedTyped, RunBecomes DEF End
  <2> QED BY <1>0, <1>2, <2>1, ClosedTyped DEF RunSound, OnItsWay
<1>3. CASE TakeSlot(r)
  <2>1. run'[r] = [run[r] EXCEPT !.pc = "collect"] /\ At(r, "waiting")
    BY <1>0, <1>3 DEF TakeSlot, Becomes
  <2> QED BY <1>0, <1>1, <2>1 DEF At, RunSound, OnItsWay, StartsBlank, RunState
<1>4. CASE Collect(r)
  <2> DEFINE files == {f \in File : content[f] # Absent}
             t == [run[r] EXCEPT !.files = files, !.quiet = TRUE,
                                 !.pc = IF run[r].force THEN "remove" ELSE "load"]
  <2>1. UNCHANGED <<content, rows>> /\ At(r, "collect")
    BY <1>4 DEF Collect, store
  <2>2. CASE files = {}
    BY <1>2, <1>4, <2>1, <2>2 DEF Collect
  <2>3. CASE files # {}
    <3>1. run'[r] = t
      BY <1>0, <1>4, <2>3 DEF Collect, Becomes
    <3>2. t.pc \in {"remove", "load"} /\ t.files = files /\ t.known = run[r].known
      BY <1>0 DEF RunState
    <3>3. StartsBlank(t)
      BY <1>1, <2>1, <3>2 DEF StartsBlank, At
    <3>4. OnItsWay(t, content, rows)
      BY <3>2 DEF OnItsWay
    <3> QED BY <2>1, <3>1, <3>3, <3>4 DEF RunSound
  <2> QED BY <2>2, <2>3
<1>5. CASE Remove(r)
  <2>1. /\ run'[r] = [run[r] EXCEPT !.pc = "hash"] /\ At(r, "remove")
        /\ rows' = [f \in File |-> NoRow] /\ content' = content
    BY <1>0, <1>5 DEF Remove, Writes
  <2>2. /\ run'[r].pc = "hash" /\ run'[r].files = run[r].files
        /\ run'[r].known = [f \in File |-> Unknown]
        /\ run'[r].quiet = run[r].quiet /\ run'[r].git = run[r].git
    BY <1>0, <1>1, <2>1 DEF StartsBlank, At, RunState
  <2>3. run[r].quiet /\ run[r].git = {} => \A f \in File : f \in run[r].files <=> content[f] # Absent
    BY <1>1, <2>1 DEF OnItsWay, At
  <2> QED BY <2>1, <2>2, <2>3 DEF RunSound, OnItsWay, StartsBlank, NoRow
<1>6. CASE Load(r)
  <2> DEFINE stale == {f \in File \ run[r].files : rows[f] # NoRow}
             known == [f \in File |-> IF f \in stale THEN Unknown ELSE rows[f].hash]
             some == stale # {}
             loaded == [run[r] EXCEPT !.pc = "hash", !.stale = some, !.known = known]
  <2>1. /\ rows' = [f \in File |-> IF f \in stale THEN NoRow ELSE rows[f]]
        /\ IF stale = {} THEN Becomes(r, loaded) ELSE Writes(r, loaded)
        /\ content' = content /\ At(r, "load")
    BY <1>6 DEF Load
  <2>2. run'[r] = loaded
    <3> HIDE DEF loaded, stale
    <3> QED BY <1>0, <2>1 DEF Becomes, Writes
  <2>3. /\ run'[r].pc = "hash" /\ run'[r].files = run[r].files /\ run'[r].known = known
        /\ run'[r].quiet = run[r].quiet /\ run'[r].git = run[r].git
    <3> HIDE DEF known, some
    <3> QED BY <1>0, <2>2 DEF RunState
  <2>4. run[r].quiet /\ run[r].git = {} => \A f \in File : f \in run[r].files <=> content[f] # Absent
    BY <1>1, <2>1 DEF OnItsWay, At
  <2>5. \A f \in File : known[f] = rows'[f].hash
    BY <2>1 DEF NoRow
  <2>6. \A f \in File \ run[r].files : rows'[f] = NoRow
    BY <2>1
  <2> HIDE DEF known, stale, loaded
  <2> QED BY <2>1, <2>3, <2>4, <2>5, <2>6 DEF RunSound, OnItsWay, StartsBlank
<1>7. CASE Hash(r)
  <2> DEFINE hashes == [f \in File |-> IF f \in run[r].files THEN content[f] ELSE Unknown]
  <2>1. /\ run'[r] = [run[r] EXCEPT !.pc = "prepare", !.hashes = hashes]
        /\ UNCHANGED <<content, rows>> /\ At(r, "hash")
    BY <1>0, <1>7 DEF Hash, Becomes, store
  <2>2. /\ run'[r].pc = "prepare" /\ run'[r].files = run[r].files /\ run'[r].known = run[r].known
        /\ run'[r].quiet = run[r].quiet /\ run'[r].git = run[r].git /\ run'[r].hashes = hashes
    <3> HIDE DEF hashes
    <3> QED BY <1>0, <2>1 DEF RunState
  <2>3. run[r].quiet /\ run[r].git = {} =>
          \A f \in File : /\ f \in run[r].files <=> content[f] # Absent
                          /\ run[r].known[f] = rows[f].hash
                          /\ content[f] = Absent => rows[f] = NoRow
    BY <1>1, <2>1 DEF OnItsWay, At
  <2>4. run[r].quiet /\ run[r].git = {} => \A f \in File : hashes[f] = content[f]
    BY <2>3, Texts
  <2> HIDE DEF hashes
  <2> QED BY <2>1, <2>2, <2>3, <2>4 DEF RunSound, OnItsWay, StartsBlank
<1>8. CASE Prepare(r)
  <2>1. UNCHANGED <<content, rows>> /\ At(r, "prepare")
    BY <1>8 DEF Prepare, store
  <2>2. run[r].quiet /\ run[r].git = {} =>
          \A f \in File : /\ f \in run[r].files <=> content[f] # Absent
                          /\ run[r].known[f] = rows[f].hash
                          /\ content[f] = Absent => rows[f] = NoRow
                          /\ run[r].hashes[f] = content[f]
    BY <1>1, <2>1 DEF OnItsWay, At
  <2>3. run[r].quiet /\ run[r].git = {} =>
          \A f \in File : content[f] \notin {Absent, Empty} =>
            Prepared(r)[f] = content[f] \/ rows[f].hash = content[f]
    <3> SUFFICES ASSUME run[r].quiet, run[r].git = {}, NEW f \in File,
                        content[f] \notin {Absent, Empty}
                 PROVE  Prepared(r)[f] = content[f] \/ rows[f].hash = content[f]
      OBVIOUS
    <3>1. CASE ShouldSkip(r, f)
      BY <2>2, <3>1, SkippedIsIndexed
    <3>2. CASE ~ShouldSkip(r, f)
      BY <2>2, <3>2 DEF Prepared
    <3> QED BY <3>1, <3>2
  <2>4. \A f \in File : Prepared(r)[f] \in {Unknown, content[f]}
    BY DEF Prepared
  <2>5. CASE NothingPrepared(r) /\ End(r, "ok")
    <3>1. run[r].quiet /\ run[r].git = {} => Covered(content, rows)
      <4>1. \A f \in File : Prepared(r)[f] = Unknown
        BY <2>5 DEF NothingPrepared
      <4> QED BY <2>2, <2>3, <4>1, Texts DEF Covered
    <3> QED BY <1>2, <2>1, <2>5, <3>1
  <2>6. CASE Becomes(r, [run[r] EXCEPT !.pc = "persist", !.prepared = Prepared(r)])
    <3>1. run'[r] = [run[r] EXCEPT !.pc = "persist", !.prepared = Prepared(r)]
      BY <1>0, <2>6 DEF Becomes
    <3>2. /\ run'[r].pc = "persist" /\ run'[r].prepared = Prepared(r)
          /\ run'[r].quiet = run[r].quiet /\ run'[r].git = run[r].git
          /\ run'[r].hashes = run[r].hashes
      BY <1>0, <3>1 DEF RunState
    <3> QED BY <2>1, <2>2, <2>3, <2>4, <3>2 DEF RunSound, OnItsWay, StartsBlank
  <2> QED BY <1>8, <2>5, <2>6 DEF Prepare
<1>9. CASE Persist(r)
  <2>1. /\ run'[r] = [run[r] EXCEPT !.pc = "embed"] /\ content' = content /\ At(r, "persist")
        /\ \A f \in File :
             rows'[f] = IF run[r].prepared[f] # Unknown
                        THEN [hash |-> run[r].hashes[f], text |-> run[r].prepared[f],
                              emb |-> Unknown]
                        ELSE rows[f]
    BY <1>0, <1>9 DEF Persist, Writes, Touched
  <2>2. run'[r].pc = "embed" /\ run'[r].quiet = run[r].quiet /\ run'[r].git = run[r].git
    BY <1>0, <2>1 DEF RunState
  <2>3. run[r].quiet /\ run[r].git = {} =>
          \A f \in File : /\ run[r].prepared[f] \in {Unknown, content[f]}
                          /\ run[r].hashes[f] = content[f]
                          /\ content[f] = Absent => rows[f] = NoRow
                          /\ content[f] \notin {Absent, Empty} =>
                               run[r].prepared[f] = content[f] \/ rows[f].hash = content[f]
    BY <1>1, <2>1 DEF OnItsWay, At
  <2>4. run[r].quiet /\ run[r].git = {} => Covered(content, rows')
    <3> SUFFICES ASSUME run[r].quiet, run[r].git = {}, NEW f \in File
                 PROVE  /\ content[f] = Absent => rows'[f] = NoRow
                        /\ content[f] \notin {Absent, Empty} => rows'[f].hash = content[f]
      BY DEF Covered
    <3>1. CASE run[r].prepared[f] # Unknown
      <4>1. rows'[f] = [hash |-> run[r].hashes[f], text |-> run[r].prepared[f], emb |-> Unknown]
        BY <2>1, <3>1
      <4>2. rows'[f].hash = run[r].hashes[f]
        BY <4>1
      <4> QED BY <2>3, <3>1, <4>2, Texts
    <3>2. CASE run[r].prepared[f] = Unknown
      BY <2>1, <2>3, <3>2, Texts
    <3> QED BY <3>1, <3>2
  <2> QED BY <2>1, <2>2, <2>4 DEF RunSound, OnItsWay, StartsBlank
<1>10. CASE Embed(r)
  <2>1. run'[r] = [run[r] EXCEPT !.pc = "finish"] /\ content' = content /\ At(r, "embed")
    <3>1. [run[r] EXCEPT !.pc = "finish"] \in RunState
      BY StageTyped
    <3> QED BY <1>0, <1>10, <3>1, RunBecomes, RunWrites DEF Embed
  <2>2. run'[r].pc = "finish" /\ run'[r].quiet = run[r].quiet /\ run'[r].git = run[r].git
    BY <1>0, <2>1 DEF RunState
  <2>3. \A f \in File : rows'[f].hash = rows[f].hash /\ (rows[f] = NoRow => rows'[f] = NoRow)
    <3> SUFFICES ASSUME NEW f \in File
                 PROVE  rows'[f].hash = rows[f].hash /\ (rows[f] = NoRow => rows'[f] = NoRow)
      OBVIOUS
    <3>1. \/ rows'[f] = rows[f]
          \/ rows[f] # NoRow /\ rows'[f] = [rows[f] EXCEPT !.emb = run[r].prepared[f]]
      BY <1>10 DEF Embed
    <3> QED BY <1>0, <3>1 DEF Row
  <2>4. run[r].quiet /\ run[r].git = {} => Covered(content, rows')
    BY <1>1, <2>1, <2>3 DEF OnItsWay, At, Covered
  <2> QED BY <2>1, <2>2, <2>4 DEF RunSound, OnItsWay, StartsBlank
<1>11. CASE Fails(r) \/ EmbedFails(r)
  BY <1>2, <1>11 DEF Fails, EmbedFails, store
<1>12. CASE Finish(r)
  <2>1. UNCHANGED <<content, rows>> /\ At(r, "finish")
    BY <1>12 DEF Finish
  <2>2. CASE \A f \in File : rows[f].emb = Unknown
    BY <1>2, <1>12, <2>1, <2>2 DEF Finish
  <2>3. CASE ~\A f \in File : rows[f].emb = Unknown
    <3>1. run'[r] = [run[r] EXCEPT !.pc = "invalidate"]
      BY <1>0, <1>12, <2>3 DEF Finish, Becomes
    <3>2. run'[r].pc = "invalidate" /\ run'[r].quiet = run[r].quiet /\ run'[r].git = run[r].git
      BY <1>0, <3>1 DEF RunState
    <3>3. run[r].quiet /\ run[r].git = {} => Covered(content, rows)
      BY <1>1, <2>1 DEF OnItsWay, At
    <3> QED BY <2>1, <3>2, <3>3 DEF RunSound, OnItsWay, StartsBlank
  <2> QED BY <2>2, <2>3
<1>13. CASE Invalidate(r)
  <2>1. /\ \E outcome \in {"ok", "failed"} : End(r, outcome)
        /\ UNCHANGED <<content, rows>> /\ At(r, "invalidate")
    BY <1>13 DEF Invalidate, store
  <2>2. run[r].quiet /\ run[r].git = {} => Covered(content, rows)
    BY <1>1, <2>1 DEF OnItsWay, At
  <2> QED BY <1>2, <2>1, <2>2
<1>14. CASE RemoveFails(r)
  <2>1. run'[r] = Closed(r, "failed")
    BY <1>0, <1>14, ClosedTyped, RunWrites DEF RemoveFails
  <2> QED BY <1>0, <2>1, ClosedTyped DEF RunSound
<1> QED BY <1>3, <1>4, <1>5, <1>6, <1>7, <1>8, <1>9, <1>10, <1>11, <1>12, <1>13, <1>14
        DEF IndexProject

\* A step of one run leaves every other as it is, or tells that somebody came between.
LEMMA OthersSound ==
  ASSUME TypeOK, NEW r \in Run, NEW q \in Run, q # r, RunSound(run[q], content, rows),
         IndexProject(r)
  PROVE  RunSound(run'[q], content', rows')
<1>1. run[q] \in RunState /\ run \in [Run -> RunState] /\ dirty \subseteq Run
  BY DEF TypeOK
<1>2. CASE run'[q] = [run[q] EXCEPT !.quiet = FALSE]
  <2>1. run'[q].pc = run[q].pc /\ run'[q].known = run[q].known /\ ~run'[q].quiet
    BY <1>1, <1>2 DEF RunState
  <2> QED BY <2>1 DEF RunSound, StartsBlank
<1>3. CASE run'[q] = run[q] /\ UNCHANGED <<content, rows>>
  BY <1>3
<1>4. CASE Remove(r) \/ RemoveFails(r) \/ Persist(r)
  BY <1>1, <1>2, <1>4 DEF Remove, RemoveFails, Persist, Writes
<1>5. CASE Load(r)
  <2> DEFINE stale == {f \in File \ run[r].files : rows[f] # NoRow}
  <2>1. CASE stale = {}
    <3>1. rows' = [f \in File |-> rows[f]] /\ content' = content /\ run'[q] = run[q]
      BY <1>1, <1>5, <2>1 DEF Load, Becomes
    <3> QED BY <1>3, <3>1 DEF TypeOK
  <2>2. CASE stale # {}
    BY <1>1, <1>2, <1>5, <2>2 DEF Load, Writes
  <2> QED BY <2>1, <2>2
<1>6. CASE Embed(r)
  <2> DEFINE found == {f \in Touched(r) : rows[f] # NoRow}
  <2>1. CASE found = {}
    <3>1. rows' = [f \in File |-> rows[f]] /\ content' = content /\ run'[q] = run[q]
      BY <1>1, <1>6, <2>1 DEF Embed, Becomes
    <3> QED BY <1>3, <3>1 DEF TypeOK
  <2>2. CASE found # {}
    BY <1>1, <1>2, <1>6, <2>2 DEF Embed, Writes
  <2> QED BY <2>1, <2>2
<1>7. CASE TakeSlot(r) \/ Collect(r) \/ Hash(r) \/ Prepare(r) \/ Fails(r) \/ EmbedFails(r)
           \/ Finish(r) \/ Invalidate(r)
  BY <1>1, <1>3, <1>7 DEF TakeSlot, Collect, Hash, Prepare, Fails, EmbedFails, Finish,
                          Invalidate, Becomes, End, store
<1> QED BY <1>4, <1>5, <1>6, <1>7 DEF IndexProject

\* A run that is asked for knows nothing yet; one that is killed is vouched for no longer,
\* nor is any that is under way when a file is saved.
LEMMA OutsideSound ==
  ASSUME TypeOK, NEW q \in Run, RunSound(run[q], content, rows),
         \/ \E h \in Indexing, force \in BOOLEAN, git \in GitChanges \cup {{}} :
              Request(h, force, git)
         \/ WatcherFires \/ Watch \/ Unwatch \/ NotifyError
         \/ \E f \in File, text \in Text \cup {Absent} : Save(f, text)
         \/ \E h \in Host : Crash(h)
         \/ \E h \in Searching : LookAtVersion(h) \/ Search(h) \/ Evict(h)
  PROVE  RunSound(run'[q], content', rows')
<1>1. run[q] \in RunState /\ run \in [Run -> RunState]
  BY DEF TypeOK
<1>2. CASE run'[q] = run[q] /\ UNCHANGED <<content, rows>>
  BY <1>2
<1>3. ASSUME NEW h \in Host, NEW user \in BOOLEAN, NEW force \in BOOLEAN,
             NEW git \in GitChanges \cup {{}}, Ask(h, user, force, git),
             UNCHANGED <<content, rows>>
      PROVE  RunSound(run'[q], content', rows')
  <2> DEFINE s == [NewRun EXCEPT !.by = h, !.user = user, !.force = force,
                                 !.git = git, !.pc = "waiting"]
  <2>1. s \in RunState /\ StartsBlank(s) /\ ~s.quiet
    BY NewRunTyped
  <2>2. run' = [run EXCEPT ![Cardinality(Asked) + 1] = s]
    BY <1>3 DEF Ask, Becomes
  <2> HIDE DEF s
  <2>3. run'[q] \in {s, run[q]}
    BY <1>1, <2>2
  <2> QED BY <1>2, <1>3, <2>1, <2>3 DEF RunSound
<1>4. ASSUME NEW h \in Indexing, NEW force \in BOOLEAN, NEW git \in GitChanges \cup {{}},
             Request(h, force, git)
      PROVE  RunSound(run'[q], content', rows')
  BY <1>3, <1>4, Texts DEF Request, store
<1>5. CASE WatcherFires
  BY <1>3, <1>5, Texts DEF WatcherFires, store
<1>6. CASE \/ Watch \/ Unwatch \/ NotifyError
           \/ \E h \in Searching : LookAtVersion(h) \/ Search(h) \/ Evict(h)
  BY <1>2, <1>6 DEF Watch, Unwatch, NotifyError, LookAtVersion, Search, LookAtCache,
                    LoadVersion, LoadRows, Evict, store
<1>7. ASSUME NEW f \in File, NEW text \in Text \cup {Absent}, Save(f, text)
      PROVE  RunSound(run'[q], content', rows')
  <2>1. run'[q] = [run[q] EXCEPT !.quiet = FALSE]
    BY <1>7 DEF Save
  <2>2. run'[q].pc = run[q].pc /\ run'[q].known = run[q].known /\ ~run'[q].quiet
    BY <1>1, <2>1 DEF RunState
  <2> QED BY <2>2 DEF RunSound, StartsBlank
<1>8. ASSUME NEW h \in Host, Crash(h) PROVE RunSound(run'[q], content', rows')
  <2>1. run'[q] \in {run[q], Closed(q, "failed")} /\ UNCHANGED <<content, rows>>
    BY <1>1, <1>8 DEF Crash, store
  <2>2. StartsBlank(Closed(q, "failed")) /\ ~Closed(q, "failed").quiet
    BY <1>1, ClosedTyped
  <2> QED BY <1>2, <2>1, <2>2 DEF RunSound
<1> QED BY <1>4, <1>5, <1>6, <1>7, <1>8

-----------------------------------------------------------------------------
(* The theorems. *)

LEMMA InitSound == Init => IInv
<1> SUFFICES ASSUME Init PROVE IInv
  OBVIOUS
<1>1. NewRun \in RunState /\ StartsBlank(NewRun) /\ ~NewRun.quiet
  BY NewRunTyped, Texts DEF NewRun
<1>2. NotCached \in Cached /\ NotCached.version = 0 /\ NotCached.version \in Nat
  BY Texts DEF NotCached, Cached
<1>3. TypeOK
  BY <1>1, <1>2, Texts DEF Init, TypeOK
<1>4. StampsGrow /\ CacheIsCurrent
  BY <1>2 DEF Init, StampsGrow, CacheIsCurrent
<1>5. RowsAreWhole
  BY DEF Init, RowsAreWhole, NoRow
<1>6. ASSUME NEW q \in Run PROVE RunSound(run[q], content, rows)
  BY <1>1 DEF Init, RunSound
<1> QED BY <1>3, <1>4, <1>5, <1>6 DEF IInv

LEMMA StepSound == IInv /\ [Next]_vars => IInv'
<1> SUFFICES ASSUME IInv, [Next]_vars PROVE IInv'
  OBVIOUS
<1>1. TypeOK' /\ StampsGrow' /\ CacheIsCurrent' /\ RowsAreWhole'
  BY StepTyped, CurrentStep, WholeStep DEF IInv
<1>2. ASSUME NEW q \in Run PROVE RunSound(run'[q], content', rows')
  <2>1. TypeOK /\ RunSound(run[q], content, rows)
    BY DEF IInv
  <2>2. CASE UNCHANGED vars
    BY <2>1, <2>2 DEF vars, store
  <2>3. ASSUME NEW r \in Run, IndexProject(r) PROVE RunSound(run'[q], content', rows')
    BY <2>1, <2>3, ProjectSound, OthersSound
  <2> QED BY <2>1, <2>2, <2>3, OutsideSound DEF Next
<1>3. (\A q \in Run : RunSound(run[q], content, rows))'
  BY <1>2
<1> QED BY <1>1, <1>3 DEF IInv

LEMMA AlwaysSound == Spec => []IInv
BY InitSound, StepSound, PTL DEF Spec

\* The state always has its type.
THEOREM TypeCorrect == Spec => []TypeOK
<1>1. IInv => TypeOK
  BY DEF IInv
<1> QED BY <1>1, AlwaysSound, PTL

\* However loads, runs, removals, faults and evictions of any number of programs
\* interleave, what a search finds in memory under the stamp of the disk is what is on
\* disk, unless rows are being written or were left without a stamp (with_index,
\* CachedIndex::load, finish_index).
THEOREM CacheStaysCurrent == Spec => []CacheIsCurrent
<1>1. IInv => CacheIsCurrent
  BY DEF IInv
<1> QED BY <1>1, AlwaysSound, PTL

\* An incremental run that nobody came between leaves the index that a full one would,
\* whatever the files say, were changed to before it, and import of each other
\* (index_project, should_skip, cleanup_stale_chunks, persist_chunks).
THEOREM IncrementalDoesAll == Spec => []IncrementalIsFull
<1>1. ASSUME IInv, NEW r \in Run, At(r, "ok"), run[r].quiet, run[r].git = {},
             NEW f \in File \ scarred
      PROVE  CASE content[f] = Absent -> rows[f] = NoRow
               [] content[f] = Empty -> TRUE
               [] OTHER -> rows[f] = [hash |-> content[f], text |-> content[f],
                                      emb |-> content[f]]
  <2>1. Covered(content, rows)
    BY <1>1 DEF IInv, RunSound, OnItsWay, At
  <2>2. CASE content[f] = Absent
    BY <2>1, <2>2 DEF Covered
  <2>3. CASE content[f] = Empty
    BY <2>3 DEF Absent, Empty
  <2>4. CASE content[f] \notin {Absent, Empty}
    <3>1. rows[f].hash = content[f] /\ rows[f].text = content[f] /\ rows[f].emb = content[f]
      BY <1>1, <2>1, <2>4 DEF Covered, IInv, RowsAreWhole
    <3>2. rows[f] = [hash |-> rows[f].hash, text |-> rows[f].text, emb |-> rows[f].emb]
      BY <1>1 DEF IInv, TypeOK, Row
    <3> QED BY <2>4, <3>1, <3>2
  <2> QED BY <2>2, <2>3, <2>4
<1>2. IInv => IncrementalIsFull
  BY <1>1 DEF IncrementalIsFull
<1> QED BY <1>2, AlwaysSound, PTL

=============================================================================
