------------------------ MODULE GlobalConfigProofs ------------------------
(***************************************************************************)
(* Proofs about the cached global configuration, for any number of threads *)
(* and of writes, any sizes, and any time for a file to settle but none.   *)
(***************************************************************************)
EXTENDS GlobalConfig, TLAPS

\* Who read text a under stamp s read it when the file had settled: whatever was
\* written after it has a later mtime, so that text b under stamp u tells them apart.
LaterShows(b, u, a, s) == b > a => u.mtime > s.mtime

\* What is known of a load under way.
LoadKnows(l) ==
  /\ l.since <= file.text
  /\ l.pc = "put" => l.since <= l.text
  /\ l.settled => /\ now - l.stamp.mtime >= SETTLE
                  /\ LaterShows(file.text, file.stamp, l.since, l.stamp)

\* What is known of a copy that was read when the file had settled.
CopyKnows ==
  CACHE.settled =>
    /\ CACHE.text \in Written
    /\ now - CACHE.stamp.mtime >= SETTLE
    /\ LaterShows(file.text, file.stamp, CACHE.text, CACHE.stamp)
    /\ \A t \in Thread :
         LaterShows(loading[t].since, loading[t].stamp, CACHE.text, CACHE.stamp)

IInv ==
  /\ TypeOK
  /\ \A t \in Thread : LoadKnows(loading[t])
  /\ \A t, u \in Thread :
       loading[u].settled =>
         LaterShows(loading[t].since, loading[t].stamp, loading[u].since, loading[u].stamp)
  /\ CopyKnows

Bounds == /\ SETTLE \in Nat \ {0} /\ MaxTick \in Nat /\ MaxWrites \in Nat
          /\ Size # {}

-----------------------------------------------------------------------------

\* Nobody loads at first, and nothing is kept.
LEMMA IInvInit == ASSUME Bounds PROVE Init => IInv
<1> SUFFICES ASSUME Init PROVE IInv
  OBVIOUS
<1>1. OldStamp \in Stamp
  BY DEF OldStamp, Stamp, Tick, Bounds
<1>2. TypeOK
  BY <1>1 DEF Init, Bounds, TypeOK, Tick, Written, Entry, Loading, Empty, AtRest, NoEntry
<1>3. \A t \in Thread : loading[t] = AtRest
  BY DEF Init
<1> QED BY <1>2, <1>3 DEF Init, IInv, LoadKnows, CopyKnows, LaterShows, AtRest, Empty

\* A thread at rest knows nothing, and what the others know does not speak of it.
LEMMA ReturnKeeps ==
  ASSUME Bounds, IInv, NEW t \in Thread, Return(t), UNCHANGED <<now, file>>,
         CACHE' \in Entry, CopyKnows'
  PROVE  IInv'
<1>1. AtRest \in Loading
  BY DEF AtRest, Loading, OldStamp, Stamp, Tick, Written, Bounds
<1>2. loading' = [loading EXCEPT ![t] = AtRest] /\ loading \in [Thread -> Loading]
  BY DEF Return, Goes, IInv, TypeOK
<1>3. TypeOK'
  BY <1>1, <1>2 DEF TypeOK, IInv
<1>4. \A u \in Thread : loading'[u] = IF u = t THEN AtRest ELSE loading[u]
  BY <1>2
<1>5. \A u \in Thread : loading'[u].since \in Written /\ loading[u].since \in Written
  BY <1>1, <1>2, <1>4 DEF Loading
<1>6. \A u \in Thread : LoadKnows(loading[u])'
  <2> TAKE u \in Thread
  <2>1. CASE u = t
    BY <2>1, <1>4 DEF LoadKnows, AtRest, IInv, TypeOK, Written
  <2>2. CASE u # t
    BY <2>2, <1>4 DEF LoadKnows, LaterShows, IInv
  <2> QED BY <2>1, <2>2
<1>7. \A v, u \in Thread : (loading[u].settled =>
         LaterShows(loading[v].since, loading[v].stamp, loading[u].since, loading[u].stamp))'
  BY <1>4, <1>5 DEF AtRest, LaterShows, IInv, Written
<1> QED BY <1>3, <1>6, <1>7 DEF IInv

\* Time only goes on: what had settled has settled.
LEMMA TimePassesKeeps == ASSUME Bounds, IInv, TimePasses PROVE IInv'
<1>1. now' \in Tick /\ now \in Tick /\ now' = now + 1 /\ UNCHANGED <<file, CACHE, loading>>
  BY DEF TimePasses, IInv, TypeOK, Tick, Bounds
<1>2. TypeOK'
  BY <1>1 DEF IInv, TypeOK
<1>3. \A l \in Loading : l.stamp.mtime \in Tick
  BY DEF Loading, Stamp
<1>4. CACHE.stamp.mtime \in Tick
  BY DEF IInv, TypeOK, Entry, Stamp
<1>5. \A t \in Thread : LoadKnows(loading[t])'
  <2> TAKE t \in Thread
  <2>1. loading[t] \in Loading
    BY DEF IInv, TypeOK
  <2> QED BY <1>1, <1>3, <2>1 DEF LoadKnows, LaterShows, IInv, Tick, Bounds
<1>6. CopyKnows'
  BY <1>1, <1>4 DEF CopyKnows, LaterShows, IInv, Tick, Bounds
<1> QED BY <1>1, <1>2, <1>5, <1>6 DEF LaterShows, IInv

\* A write is later than every stamp that had settled.  The thread that writes is at no
\* load then.
LEMMA WriteKeeps ==
  ASSUME Bounds, IInv, Write, UNCHANGED <<now, CACHE>>,
         loading' \in [Thread -> Loading],
         \A t \in Thread :
           \/ loading'[t] = loading[t]
           \/ loading'[t].since = 0 /\ ~loading'[t].settled /\ loading'[t].pc # "put"
  PROVE  IInv'
<1>1. PICK size \in Size :
        file' = [text |-> file.text + 1, stamp |-> [mtime |-> now, size |-> size]]
  BY DEF Write
<1>2. file.text \in Written /\ file'.text \in Written /\ file'.text = file.text + 1
      /\ now \in Tick /\ file'.stamp.mtime = now /\ file' \in [text : Written, stamp : Stamp]
  BY <1>1 DEF Write, IInv, TypeOK, Written, Stamp, Tick, Bounds
<1>3. TypeOK'
  BY <1>2 DEF IInv, TypeOK
<1>4. \A t \in Thread : /\ loading[t].stamp.mtime \in Tick /\ loading[t].since \in Written
                        /\ LoadKnows(loading[t])
  BY DEF IInv, TypeOK, Loading, Stamp
<1>5. \A t \in Thread : LoadKnows(loading[t])'
  <2> TAKE t \in Thread
  <2>1. CASE loading'[t] = loading[t]
    BY <1>2, <1>4, <2>1 DEF LoadKnows, LaterShows, Written, Tick, Bounds
  <2>2. CASE loading'[t] # loading[t]
    BY <1>2, <2>2 DEF LoadKnows, Written
  <2> QED BY <2>1, <2>2
<1>6. CopyKnows'
  <2>1. CACHE.stamp.mtime \in Tick /\ CopyKnows
    BY DEF IInv, TypeOK, Entry, Stamp
  <2>2. CACHE.settled => \A t \in Thread :
          LaterShows(loading'[t].since, loading'[t].stamp, CACHE.text, CACHE.stamp)
    BY <2>1 DEF CopyKnows, LaterShows, Written
  <2> QED BY <1>2, <2>1, <2>2 DEF CopyKnows, LaterShows, Written, Tick, Bounds
<1>7. \A v, u \in Thread : (loading[u].settled =>
         LaterShows(loading[v].since, loading[v].stamp, loading[u].since, loading[u].stamp))'
  BY <1>4 DEF LaterShows, IInv, Written
<1> QED BY <1>3, <1>5, <1>6, <1>7 DEF IInv

\* A load that goes on without looking anew keeps what it knows.
LEMMA SameLoad ==
  ASSUME Bounds, IInv, NEW t \in Thread, NEW state \in Loading,
         state.since = loading[t].since, state.stamp = loading[t].stamp,
         state.settled = loading[t].settled,
         state.pc = "put" => state.since <= state.text,
         Goes(t, state), UNCHANGED <<now, file, CACHE>>
  PROVE  IInv'
<1>1. /\ loading' = [loading EXCEPT ![t] = state]
      /\ loading \in [Thread -> Loading]
  BY DEF Goes, IInv, TypeOK
<1>2. /\ TypeOK'
      /\ \A u \in Thread : loading'[u] = IF u = t THEN state ELSE loading[u]
  BY <1>1 DEF IInv, TypeOK
<1>3. \A u \in Thread : /\ loading'[u].since = loading[u].since
                        /\ loading'[u].stamp = loading[u].stamp
                        /\ loading'[u].settled = loading[u].settled
  BY <1>2
<1>4. \A u \in Thread : LoadKnows(loading[u])'
  BY <1>2, <1>3 DEF LoadKnows, LaterShows, IInv
<1>5. CopyKnows'
  BY <1>3 DEF CopyKnows, LaterShows, IInv
<1> QED BY <1>2, <1>3, <1>4, <1>5 DEF LaterShows, IInv

\* A load begins with what the file says, and its stamp: settled, it speaks of no
\* text that is there yet.
LEMMA StatKeeps ==
  ASSUME Bounds, IInv, NEW t \in Thread, Stat(t)
  PROVE  IInv'
<1> DEFINE state == [AtRest EXCEPT !.pc = "get", !.stamp = file.stamp, !.since = file.text,
                                   !.settled = Settled(file.stamp)]
<1>1. /\ file.text \in Written /\ file.stamp \in Stamp /\ now \in Tick
      /\ loading \in [Thread -> Loading]
  BY DEF IInv, TypeOK
<1>2. /\ state \in Loading
      /\ state.pc = "get" /\ state.stamp = file.stamp /\ state.since = file.text
      /\ state.settled => now - file.stamp.mtime >= SETTLE
  <2>1. Settled(file.stamp) \in BOOLEAN /\ AtRest \in Loading
    BY DEF Settled, AtRest, Loading, OldStamp, Stamp, Tick, Written, Bounds
  <2>2. /\ state \in Loading /\ state.pc = "get" /\ state.stamp = file.stamp
        /\ state.since = file.text /\ state.settled = Settled(file.stamp)
    BY <1>1, <2>1 DEF Loading
  <2> QED BY <2>2 DEF Settled
<1>3. loading' = [loading EXCEPT ![t] = state] /\ UNCHANGED <<now, file, CACHE>>
  BY DEF Stat, Goes
<1> HIDE DEF state
<1>4. /\ TypeOK'
      /\ \A u \in Thread : loading'[u] = IF u = t THEN state ELSE loading[u]
  BY <1>1, <1>2, <1>3 DEF IInv, TypeOK
<1>5. \A u \in Thread : /\ loading[u].since \in Written /\ loading[u].since <= file.text
                        /\ LoadKnows(loading[u])
  BY <1>1 DEF IInv, LoadKnows, Loading
<1>7. \A u \in Thread : LoadKnows(loading[u])'
  <2> TAKE u \in Thread
  <2>1. CASE u = t
    BY <2>1, <1>2, <1>3, <1>4, <1>1 DEF LoadKnows, LaterShows, Written
  <2>2. CASE u # t
    BY <2>2, <1>3, <1>4, <1>5 DEF LoadKnows, LaterShows
  <2> QED BY <2>1, <2>2
<1>8. CopyKnows'
  BY <1>2, <1>3, <1>4 DEF CopyKnows, LaterShows, IInv
<1>9. \A v, u \in Thread : (loading[u].settled =>
         LaterShows(loading[v].since, loading[v].stamp, loading[u].since, loading[u].stamp))'
  <2> TAKE v, u \in Thread
  <2>1. CASE u = t
    <3>1. ~(loading'[v].since > file.text)
      BY <1>1, <1>2, <1>4, <1>5 DEF Written
    <3> QED BY <2>1, <3>1, <1>2, <1>3, <1>4 DEF LaterShows
  <2>2. CASE u # t /\ v = t
    BY <2>2, <1>2, <1>3, <1>4, <1>5 DEF LaterShows, LoadKnows
  <2>3. CASE u # t /\ v # t
    BY <2>3, <1>3, <1>4 DEF LaterShows, IInv
  <2> QED BY <2>1, <2>2, <2>3
<1> QED BY <1>4, <1>7, <1>8, <1>9 DEF IInv

\* What had settled when it was read goes into the cache as it was read.
LEMMA PutKeeps ==
  ASSUME Bounds, IInv, NEW t \in Thread, Put(t)
  PROVE  IInv'
<1> DEFINE l == loading[t]
<1>1. /\ l \in Loading /\ l.since <= l.text /\ LoadKnows(l)
      /\ CACHE' = [text |-> l.text, stamp |-> l.stamp, settled |-> l.settled]
      /\ Return(t) /\ UNCHANGED <<now, file>>
      /\ file.text \in Written
  BY DEF Put, At, IInv, TypeOK, LoadKnows
<1>2. CACHE' \in Entry
  BY <1>1 DEF Entry, Loading
<1>3. \A u \in Thread : /\ loading'[u] = IF u = t THEN AtRest ELSE loading[u]
                        /\ loading[u].since \in Written
  BY <1>1 DEF Return, Goes, IInv, TypeOK, Loading
<1>4. CopyKnows'
  <2> SUFFICES ASSUME l.settled
               PROVE  /\ l.text \in Written
                      /\ now - l.stamp.mtime >= SETTLE
                      /\ LaterShows(file.text, file.stamp, l.text, l.stamp)
                      /\ \A u \in Thread :
                           LaterShows(loading'[u].since, loading'[u].stamp, l.text, l.stamp)
    BY <1>1 DEF CopyKnows, LaterShows
  <2>1. l.text \in Written /\ l.since \in Written
    BY <1>1 DEF Loading
  <2>2. LaterShows(file.text, file.stamp, l.text, l.stamp)
    BY <1>1, <2>1 DEF LoadKnows, LaterShows, Written
  <2>3. \A u \in Thread : LaterShows(loading'[u].since, loading'[u].stamp, l.text, l.stamp)
    <3> TAKE u \in Thread
    <3>1. CASE u = t
      BY <3>1, <1>3, <2>1 DEF AtRest, LaterShows, Written
    <3>2. CASE u # t
      <4>1. LaterShows(loading[u].since, loading[u].stamp, l.since, l.stamp)
        BY DEF IInv
      <4> QED BY <3>2, <4>1, <1>1, <1>3, <2>1 DEF LaterShows, Written
    <3> QED BY <3>1, <3>2
  <2> QED BY <1>1, <2>1, <2>2, <2>3 DEF LoadKnows
<1> QED BY <1>1, <1>2, <1>4, ReturnKeeps

\* A hit returns, a miss goes on to read.
LEMMA GetKeeps == ASSUME Bounds, IInv, NEW t \in Thread, Get(t) PROVE IInv'
<1>0. UNCHANGED <<now, file, CACHE>> /\ loading[t] \in Loading
  BY DEF Get, IInv, TypeOK
<1>1. CASE Return(t)
  <2>1. CopyKnows'
    <3>1. \A u \in Thread : loading'[u] = IF u = t THEN AtRest ELSE loading[u]
      BY <1>1 DEF Return, Goes, IInv, TypeOK
    <3> QED BY <1>0, <3>1 DEF CopyKnows, LaterShows, AtRest, IInv, Written
  <2> QED BY <1>0, <1>1, <2>1, ReturnKeeps DEF IInv, TypeOK
<1>2. CASE Goes(t, [loading[t] EXCEPT !.pc = "read"])
  <2> DEFINE state == [loading[t] EXCEPT !.pc = "read"]
  <2>1. /\ state \in Loading /\ state.pc = "read" /\ state.since = loading[t].since
        /\ state.stamp = loading[t].stamp /\ state.settled = loading[t].settled
    BY <1>0 DEF Loading
  <2> HIDE DEF state
  <2>2. Goes(t, state)
    BY <1>2 DEF state
  <2> QED BY <1>0, <2>1, <2>2, SameLoad
<1> QED BY <1>1, <1>2 DEF Get

\* What is read is no older than what there was when the load began.
LEMMA ReadKeeps == ASSUME Bounds, IInv, NEW t \in Thread, Read(t) PROVE IInv'
<1> DEFINE state == [loading[t] EXCEPT !.pc = "put", !.text = file.text]
<1>1. UNCHANGED <<now, file, CACHE>> /\ loading[t] \in Loading /\ file.text \in Written
      /\ loading[t].since <= file.text /\ Goes(t, state)
  BY DEF Read, IInv, TypeOK, LoadKnows
<1>2. /\ state \in Loading /\ state.since = loading[t].since /\ state.text = file.text
      /\ state.stamp = loading[t].stamp /\ state.settled = loading[t].settled
  BY <1>1 DEF Loading
<1> HIDE DEF state
<1> QED BY <1>1, <1>2, SameLoad

\* A cache that was cleared claims nothing.
LEMMA ClearKeeps == ASSUME Bounds, IInv, NEW t \in Thread, Clear(t) PROVE IInv'
<1>1. Empty \in Entry /\ CACHE' = Empty /\ Return(t) /\ UNCHANGED <<now, file>>
  BY DEF Clear, Empty, Entry, OldStamp, Stamp, Tick, Written, Bounds
<1>2. CopyKnows'
  BY <1>1 DEF CopyKnows, Empty
<1> QED BY <1>1, <1>2, ReturnKeeps

\* A save writes, and has the cache still to clear.
LEMMA SaveKeeps == ASSUME Bounds, IInv, NEW t \in Thread, Save(t) PROVE IInv'
<1> DEFINE state == [AtRest EXCEPT !.pc = "clear"]
<1>1. /\ AtRest \in Loading /\ AtRest.since = 0 /\ ~AtRest.settled
  BY DEF AtRest, Loading, OldStamp, Stamp, Tick, Written, Bounds
<1>2. Write /\ UNCHANGED <<now, CACHE>> /\ loading' = [loading EXCEPT ![t] = state]
  BY DEF Save, Goes
<1>3. state \in Loading /\ state.pc = "clear" /\ state.since = 0 /\ ~state.settled
  BY <1>1 DEF Loading
<1> HIDE DEF state
<1>4. loading' \in [Thread -> Loading]
      /\ \A u \in Thread : loading'[u] = IF u = t THEN state ELSE loading[u]
  BY <1>2, <1>3 DEF IInv, TypeOK
<1> QED BY <1>2, <1>3, <1>4, WriteKeeps

\* Every step, of any thread or from elsewhere, keeps the invariant.
LEMMA NextKeeps == ASSUME Bounds, IInv, [Next]_vars PROVE IInv'
<1>1. ASSUME NEW t \in Thread, Stat(t) PROVE IInv'
  BY <1>1, StatKeeps
<1>2. ASSUME NEW t \in Thread, Get(t) PROVE IInv'
  BY <1>2, GetKeeps
<1>3. ASSUME NEW t \in Thread, Read(t) PROVE IInv'
  BY <1>3, ReadKeeps
<1>4. ASSUME NEW t \in Thread, Put(t) PROVE IInv'
  BY <1>4, PutKeeps
<1>5. ASSUME NEW t \in Thread, Save(t) PROVE IInv'
  BY <1>5, SaveKeeps
<1>6. ASSUME NEW t \in Thread, Clear(t) PROVE IInv'
  BY <1>6, ClearKeeps
<1>7. CASE WrittenElsewhere
  <2>1. loading' = loading /\ loading \in [Thread -> Loading]
    BY <1>7 DEF WrittenElsewhere, IInv, TypeOK
  <2> QED BY <1>7, <2>1, WriteKeeps DEF WrittenElsewhere
<1>8. CASE TimePasses
  BY <1>8, TimePassesKeeps
<1>9. CASE UNCHANGED vars
  BY <1>9 DEF vars, IInv, TypeOK, LoadKnows, CopyKnows, LaterShows
<1> QED BY <1>1, <1>2, <1>3, <1>4, <1>5, <1>6, <1>7, <1>8, <1>9 DEF Next

\* What is known of the loads and of the copy holds always.
LEMMA IInvAlways == ASSUME Bounds PROVE Spec => []IInv
<1>1. Init => IInv
  BY IInvInit
<1>2. IInv /\ [Next]_vars => IInv'
  BY NextKeeps
<1> QED BY <1>1, <1>2, PTL DEF Spec

\* The variables keep their shapes (config_cache, load_global_config).
THEOREM TypeCorrect == ASSUME Bounds PROVE Spec => []TypeOK
<1>1. IInv => TypeOK
  BY DEF IInv
<1> QED BY <1>1, IInvAlways, PTL

\* Whoever writes the file, and in however many threads it is loaded and saved: what is
\* served from the cache is what the file said since the load began, unless it was read
\* before the file had settled (load_global_config, config_cache).
THEOREM HitsAreCurrent == ASSUME Bounds PROVE Spec => HitIsCurrent
<1> DEFINE Step ==
      \A t \in Thread :
        At(t, "get") /\ Hit(t) /\ loading'[t].pc = "idle"
          => \/ CACHE.text >= loading[t].since
             \/ Settled(CACHE.stamp) /\ ~CACHE.settled
<1>1. IInv /\ [Next]_vars => [Step]_vars
  <2> SUFFICES ASSUME IInv, NEW t \in Thread, Hit(t), CACHE.settled
               PROVE  CACHE.text >= loading[t].since
    BY DEF Hit, IInv, TypeOK, Entry
  <2>1. /\ CACHE.text \in Written /\ loading[t].since \in Written
        /\ CACHE.stamp = loading[t].stamp /\ CACHE.stamp.mtime \in Tick
        /\ LaterShows(loading[t].since, loading[t].stamp, CACHE.text, CACHE.stamp)
    BY DEF Hit, IInv, CopyKnows, TypeOK, Entry, Loading, Stamp
  <2> QED BY <2>1 DEF LaterShows, Written, Tick, Bounds
<1>2. Spec => []IInv
  BY IInvAlways
<1> QED BY <1>1, <1>2, PTL DEF Spec, HitIsCurrent
=============================================================================
