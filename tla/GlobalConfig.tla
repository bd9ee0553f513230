---------------------------- MODULE GlobalConfig ----------------------------
(***************************************************************************)
(* The global configuration (void-stack-core global_config): one file that *)
(* every program loads, changes in memory and writes whole.  A program     *)
(* keeps the last copy it parsed and serves it while the file's (mtime,    *)
(* size) is the same; the calls of its threads interleave, and other       *)
(* programs and editors write the file too.                                *)
(*                                                                         *)
(* Time is counted in ticks of mtime.  Each write leaves a text of its own,*)
(* numbered; whether two texts have the same size is free.                 *)
(***************************************************************************)
EXTENDS Integers

CONSTANTS
  Thread,    \* threads of the program that load and save
  Size,      \* sizes of the file
  SETTLE,    \* SETTLE, in ticks, at least one
  MaxTick,   \* bound: the last tick
  MaxWrites  \* bound: writes of the file

VARIABLES
  now,      \* the clock
  file,     \* what the file says, and its stamp
  CACHE,    \* config_cache::CACHE
  loading   \* the load or save each thread is at

vars == <<now, file, CACHE, loading>>

-----------------------------------------------------------------------------

Tick == 0 .. MaxTick
Written == 0 .. MaxWrites
NoEntry == -1

Stamp == [mtime : Tick, size : Size]

\* settled: history, whether the copy was read from a file that had settled.
Entry == [text : Written \cup {NoEntry}, stamp : Stamp, settled : BOOLEAN]

\* since: history, the text of the file when the load began.
Loading == [pc : {"idle", "get", "read", "put", "clear"}, stamp : Stamp,
            text : Written, since : Written, settled : BOOLEAN]

TypeOK ==
  /\ now \in Tick
  /\ file \in [text : Written, stamp : Stamp]
  /\ CACHE \in Entry
  /\ loading \in [Thread -> Loading]

\* A file from before the behaviour.
OldStamp == [mtime |-> 0, size |-> CHOOSE s \in Size : TRUE]
Empty == [text |-> NoEntry, stamp |-> OldStamp, settled |-> FALSE]
AtRest == [pc |-> "idle", stamp |-> OldStamp, text |-> 0, since |-> 0, settled |-> FALSE]

Init ==
  /\ now = 0
  /\ file = [text |-> 0, stamp |-> OldStamp]
  /\ CACHE = Empty
  /\ loading = [t \in Thread |-> AtRest]

Settled(stamp) == now - stamp.mtime >= SETTLE

At(t, pc) == loading[t].pc = pc
Goes(t, state) == loading' = [loading EXCEPT ![t] = state]
Return(t) == Goes(t, AtRest)

-----------------------------------------------------------------------------
(* load_global_config *)

Stat(t) ==
  /\ At(t, "idle")
  /\ Goes(t, [AtRest EXCEPT !.pc = "get", !.stamp = file.stamp, !.since = file.text,
                            !.settled = Settled(file.stamp)])
  /\ UNCHANGED <<now, file, CACHE>>

\* Mutant of Hit: a file that was just written is served from the cache too.
HitFresh(t) == CACHE.text # NoEntry /\ CACHE.stamp = loading[t].stamp

Hit(t) ==
  /\ Settled(loading[t].stamp)
  /\ CACHE.text # NoEntry /\ CACHE.stamp = loading[t].stamp

Get(t) ==
  /\ At(t, "get")
  /\ IF Hit(t) THEN Return(t) ELSE Goes(t, [loading[t] EXCEPT !.pc = "read"])
  /\ UNCHANGED <<now, file, CACHE>>

Read(t) ==
  /\ At(t, "read")
  /\ Goes(t, [loading[t] EXCEPT !.pc = "put", !.text = file.text])
  /\ UNCHANGED <<now, file, CACHE>>

Put(t) ==
  /\ At(t, "put")
  /\ CACHE' = [text |-> loading[t].text, stamp |-> loading[t].stamp,
               settled |-> loading[t].settled]
  /\ Return(t)
  /\ UNCHANGED <<now, file>>

-----------------------------------------------------------------------------
(* save_global_config, and whoever else writes the file. *)

Write ==
  /\ file.text < MaxWrites
  /\ \E size \in Size :
       file' = [text |-> file.text + 1, stamp |-> [mtime |-> now, size |-> size]]

Save(t) ==
  /\ At(t, "idle")
  /\ Write
  /\ Goes(t, [AtRest EXCEPT !.pc = "clear"])
  /\ UNCHANGED <<now, CACHE>>

Clear(t) ==
  /\ At(t, "clear")
  /\ CACHE' = Empty
  /\ Return(t)
  /\ UNCHANGED <<now, file>>

WrittenElsewhere == Write /\ UNCHANGED <<now, CACHE, loading>>

TimePasses == now < MaxTick /\ now' = now + 1 /\ UNCHANGED <<file, CACHE, loading>>

Next ==
  \/ \E t \in Thread : Stat(t) \/ Get(t) \/ Read(t) \/ Put(t) \/ Save(t) \/ Clear(t)
  \/ WrittenElsewhere \/ TimePasses

Spec == Init /\ [][Next]_vars

-----------------------------------------------------------------------------

\* A load that is served the parsed copy is served what the file said at some moment of
\* the load, whoever wrote it meanwhile.  The exception is a copy that was itself taken
\* before the file had settled: get refuses it while the file is fresh, put does not,
\* and a second write in the tick of the first, of the same size, leaves the stamp as
\* it is (load_global_config, config_cache, save_global_config).
HitIsCurrent ==
  [][\A t \in Thread :
       At(t, "get") /\ Hit(t) /\ loading'[t].pc = "idle"
         => \/ CACHE.text >= loading[t].since
            \/ Settled(CACHE.stamp) /\ ~CACHE.settled]_vars
=============================================================================
