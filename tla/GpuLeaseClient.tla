-------------------------- MODULE GpuLeaseClient --------------------------
(***************************************************************************)
(* The Python client of the GPU broker (clients/python/gpu_lease.py) and a *)
(* broker that may be down, restart and forget, or answer too late.        *)
(*                                                                         *)
(* A program uses leases from several threads, its clients.  Each client   *)
(* has its main thread, which asks, waits, works and gives back, and a     *)
(* heartbeat thread; both read and write lease_id, with no lock.  A call   *)
(* over HTTP is one step of the broker; what the caller does with the      *)
(* answer is a later step.                                                 *)
(*                                                                         *)
(* The broker is the server side, cut down to a card with room for one     *)
(* lease: who is first by priority is granted when nobody is, a lower one  *)
(* is told to yield, and a lease nobody refreshes expires.  GpuBroker is   *)
(* the real one; both keep the promise of VramAllocator.                   *)
(***************************************************************************)
EXTENDS Integers, FiniteSets

CONSTANTS
  Client,        \* the threads of the program that use a lease
  Priority,      \* [Client -> priority], the lowest goes first
  Preemptible,   \* the clients that said they can yield
  Impatient,     \* the clients that passed max_wait_s
  Cancellable,   \* the clients whose job the user may cancel in this instance
  MaxLeases,     \* bound: leases given out in a behaviour
  MaxRestarts    \* bound: times the broker goes down

ASSUME GpuLeaseClientAssumption ==
  /\ Priority \in [Client -> Nat]
  /\ Preemptible \subseteq Client /\ Impatient \subseteq Client
  /\ Cancellable \subseteq Client
  /\ MaxLeases \in Nat /\ MaxRestarts \in Nat

VARIABLES
  up,        \* whether the broker answers
  downs,     \* how many times it went down
  next,      \* leases given out
  leases,    \* [1 .. next -> Lease]: what the broker remembers, and what has ended
  client,    \* [Client -> ClientState]: the object Lease and its two threads
  lock       \* _local_lock: who has it, or Nobody

broker == <<up, downs, next, leases>>
vars == <<broker, client, lock>>

-----------------------------------------------------------------------------
(* The state. *)

None == 0
Nobody == "nobody"
LeaseId == 1 .. MaxLeases

Lease == [owner : Client, state : {"queued", "granted", "ended"},
          directive : {"continue", "yield", "cancel"}]

\* main and beat: where the two threads are.  got: the state in the last answer of
\* _acquire.  answer, beat_answer: the lease a POST brought, not yet stored.
\* then: where _release goes back to.  held: history, the lease whose grant it saw.
ClientState ==
  [main : {"post", "asked", "wait", "repost", "lock", "work", "release", "released",
           "done", "dead"},
   beat : {"off", "idle", "again", "posted"},
   lease_id : LeaseId \cup {None}, answer : LeaseId \cup {None},
   beat_answer : LeaseId \cup {None}, got : {"queued", "granted"},
   offline : BOOLEAN, gave_up : BOOLEAN, cancelled : BOOLEAN, stopped : BOOLEAN,
   then : {"post", "work", "done"}, held : LeaseId \cup {None}]

TypeOK ==
  /\ up \in BOOLEAN /\ downs \in 0 .. MaxRestarts /\ next \in 0 .. MaxLeases
  /\ leases \in [1 .. next -> Lease]
  /\ client \in [Client -> ClientState]
  /\ lock \in Client \cup {Nobody}

NewClient ==
  [main |-> "post", beat |-> "off", lease_id |-> None, answer |-> None,
   beat_answer |-> None, got |-> "queued", offline |-> FALSE, gave_up |-> FALSE,
   cancelled |-> FALSE, stopped |-> FALSE, then |-> "done", held |-> None]

Init ==
  /\ up = TRUE /\ downs = 0 /\ next = 0
  /\ leases = [l \in 1 .. 0 |-> 0]
  /\ client = [c \in Client |-> NewClient]
  /\ lock = Nobody

Active(l) == l \in 1 .. next /\ leases[l].state # "ended"
Granted(l) == l \in 1 .. next /\ leases[l].state = "granted"
Main(c, pc) == client[c].main = pc
Beat(c, pc) == client[c].beat = pc

-----------------------------------------------------------------------------
(* The broker, as a client sees it. *)

\* POST /v1/leases: the request reaches the broker and a lease is queued.
Post(c) ==
  /\ up /\ next < MaxLeases
  /\ next' = next + 1
  /\ leases' = [l \in 1 .. next + 1 |->
                  IF l = next + 1
                  THEN [owner |-> c, state |-> "queued", directive |-> "continue"]
                  ELSE leases[l]]
  /\ UNCHANGED <<up, downs>>

\* DELETE, and any other end of the leases of S.
EndLeases(S) ==
  leases' = [l \in 1 .. next |->
               IF l \in S THEN [leases[l] EXCEPT !.state = "ended", !.directive = "continue"]
               ELSE leases[l]]

Before(l, m) ==
  \/ Priority[leases[l].owner] < Priority[leases[m].owner]
  \/ Priority[leases[l].owner] = Priority[leases[m].owner] /\ l < m

\* Mutant of Grant: the room that is left is not counted.
GrantAnyway(l) ==
  /\ up /\ Active(l) /\ ~Granted(l)
  /\ \A m \in 1 .. next : Active(m) /\ ~Granted(m) => ~Before(m, l)
  /\ leases' = [leases EXCEPT ![l].state = "granted"]
  /\ UNCHANGED <<up, downs, next, client, lock>>

Grant(l) ==
  /\ up /\ Active(l) /\ ~Granted(l)
  /\ \A m \in 1 .. next : ~Granted(m) /\ (Active(m) => ~Before(m, l))
  /\ leases' = [leases EXCEPT ![l].state = "granted"]
  /\ UNCHANGED <<up, downs, next, client, lock>>

TellToYield(l) ==
  /\ up /\ Granted(l) /\ leases[l].directive = "continue"
  /\ leases[l].owner \in Preemptible
  /\ \E m \in 1 .. next :
       Active(m) /\ Priority[leases[m].owner] < Priority[leases[l].owner]
  /\ leases' = [leases EXCEPT ![l].directive = "yield"]
  /\ UNCHANGED <<up, downs, next, client, lock>>

\* The user cancels it from La Oficina.
Cancel(l) ==
  /\ up /\ Active(l) /\ leases[l].directive # "cancel"
  /\ leases[l].owner \in Cancellable
  /\ IF Granted(l) THEN leases' = [leases EXCEPT ![l].directive = "cancel"]
     ELSE EndLeases({l})
  /\ UNCHANGED <<up, downs, next, client, lock>>

\* A heartbeat or a poll keeps l alive, or the answer that brings it is on its way.
Refreshed(l) ==
  LET k == client[leases[l].owner]
  IN  \/ l \in {k.answer, k.beat_answer}
      \/ k.lease_id = l /\ k.main = "wait"
      \/ k.lease_id = l /\ k.beat # "off" /\ ~k.stopped /\ ~k.offline

\* No sign of life for 60 s.
Expire(l) ==
  /\ up /\ Active(l) /\ ~Refreshed(l)
  /\ EndLeases({l})
  /\ UNCHANGED <<up, downs, next, client, lock>>

\* The process ends: every lease was in its memory.
GoDown ==
  /\ up /\ downs < MaxRestarts
  /\ up' = FALSE /\ downs' = downs + 1
  /\ EndLeases(1 .. next)
  /\ UNCHANGED <<next, client, lock>>

ComeUp == ~up /\ up' = TRUE /\ UNCHANGED <<downs, next, leases, client, lock>>

-----------------------------------------------------------------------------
(* The main thread. *)

Become(c, state) == client' = [client EXCEPT ![c] = state]

\* URLError outside a try: gpu_lease has not entered its own try while start runs;
\* from yield_point it goes through the finally of gpu_lease, which is stop.
Raise(c) ==
  Become(c, IF Beat(c, "off") THEN [client[c] EXCEPT !.main = "dead"]
            ELSE [client[c] EXCEPT !.main = "release", !.then = "done", !.stopped = TRUE])

\* start goes on after _acquire, the first time; then the body of the with.
Acquired(c, state) ==
  IF Beat(c, "off")
  THEN [state EXCEPT !.main = IF state.offline THEN "lock" ELSE "work",
                     !.beat = IF state.offline \/ state.gave_up THEN "off" ELSE "idle"]
  ELSE [state EXCEPT !.main = "work"]

\* _acquire: the POST that asks.
Ask(c) ==
  /\ Main(c, "post")
  /\ Post(c)
  /\ Become(c, [client[c] EXCEPT !.main = "asked", !.answer = next + 1])
  /\ UNCHANGED lock

\* It fails, or its answer takes longer than TIMEOUT_S: then the lease is there.
AskFails(c) ==
  /\ Main(c, "post")
  /\ Post(c) \/ UNCHANGED broker
  /\ Become(c, Acquired(c, [client[c] EXCEPT !.offline = TRUE]))
  /\ UNCHANGED lock

Asked(c) ==
  /\ Main(c, "asked")
  /\ Become(c, [client[c] EXCEPT !.main = "wait", !.lease_id = client[c].answer,
                                 !.answer = None, !.got = "queued"])
  /\ UNCHANGED <<broker, lock>>

\* Mutant of Poll: a lease the broker does not know is waited for.
PollStubbornly(c) ==
  /\ Main(c, "wait") /\ client[c].got # "granted"
  /\ up /\ Granted(client[c].lease_id)
  /\ Become(c, [client[c] EXCEPT !.got = "granted", !.held = client[c].lease_id])
  /\ UNCHANGED <<broker, lock>>

\* GET: it tells the state, or does not know the lease.
Poll(c) ==
  /\ Main(c, "wait") /\ client[c].got # "granted"
  /\ up
  /\ \/ Granted(client[c].lease_id)
        /\ Become(c, [client[c] EXCEPT !.got = "granted", !.held = client[c].lease_id])
     \/ ~Active(client[c].lease_id)
        /\ Become(c, [client[c] EXCEPT !.main = "repost"])
  /\ UNCHANGED <<broker, lock>>

PollFails(c) ==
  /\ Main(c, "wait") /\ client[c].got # "granted"
  /\ ~up
  /\ Raise(c)
  /\ UNCHANGED <<broker, lock>>

\* The answer takes longer than TIMEOUT_S.
PollTimesOut(c) ==
  /\ Main(c, "wait") /\ client[c].got # "granted"
  /\ up
  /\ Raise(c)
  /\ UNCHANGED <<broker, lock>>

AskAgain(c) ==
  /\ Main(c, "repost")
  /\ Post(c)
  /\ Become(c, [client[c] EXCEPT !.main = "asked", !.answer = next + 1])
  /\ UNCHANGED lock

AskAgainFails(c) ==
  /\ Main(c, "repost")
  /\ Post(c) \/ UNCHANGED broker
  /\ Raise(c)
  /\ UNCHANGED lock

\* Mutant of TurnComes: start does not start the heartbeat thread.
TurnComesUnwatched(c) ==
  /\ Main(c, "wait") /\ client[c].got = "granted"
  /\ Become(c, [client[c] EXCEPT !.main = "work"])
  /\ UNCHANGED <<broker, lock>>

TurnComes(c) ==
  /\ Main(c, "wait") /\ client[c].got = "granted"
  /\ Become(c, Acquired(c, client[c]))
  /\ UNCHANGED <<broker, lock>>

\* max_wait_s: it gives the place in the queue back and works without a lease.
GiveUp(c) ==
  /\ c \in Impatient /\ Main(c, "wait") /\ client[c].got # "granted"
  /\ Become(c, [client[c] EXCEPT !.main = "release", !.then = "work"])
  /\ UNCHANGED <<broker, lock>>

TakeLock(c) ==
  /\ Main(c, "lock") /\ lock = Nobody
  /\ lock' = c
  /\ Become(c, [client[c] EXCEPT !.main = "work"])
  /\ UNCHANGED broker

\* Mutant of YieldPoint: only the order to yield is heard.
YieldPointDeaf(c) ==
  /\ Main(c, "work") /\ ~client[c].offline
  /\ up /\ Active(client[c].lease_id) /\ leases[client[c].lease_id].directive = "yield"
  /\ Become(c, [client[c] EXCEPT !.main = "release", !.then = "post"])
  /\ UNCHANGED <<broker, lock>>

\* What the work calls at a safe point.  To go on is no step.
YieldPoint(c) ==
  LET l == client[c].lease_id
      told == IF up /\ Active(l) /\ ~client[c].offline THEN leases[l].directive ELSE "continue"
  IN  /\ Main(c, "work")
      /\ \/ /\ client[c].cancelled \/ told = "cancel"
            /\ Become(c, [client[c] EXCEPT !.main = "release", !.then = "done",
                                           !.cancelled = TRUE, !.stopped = TRUE])
            /\ lock' = IF lock = c THEN Nobody ELSE lock
         \/ /\ ~client[c].cancelled /\ told = "yield"
            /\ Become(c, [client[c] EXCEPT !.main = "release", !.then = "post"])
            /\ UNCHANGED lock
      /\ UNCHANGED broker

\* Mutant of Finish: stop does not set _stop.
FinishOnly(c) ==
  /\ Main(c, "work")
  /\ Become(c, [client[c] EXCEPT !.main = "release", !.then = "done"])
  /\ lock' = IF lock = c THEN Nobody ELSE lock
  /\ UNCHANGED broker

\* The body of the with ends, well or not: the finally of gpu_lease, then stop.
Finish(c) ==
  /\ Main(c, "work")
  /\ Become(c, [client[c] EXCEPT !.main = "release", !.then = "done", !.stopped = TRUE])
  /\ lock' = IF lock = c THEN Nobody ELSE lock
  /\ UNCHANGED broker

\* _release: the DELETE of the lease it knows by now, which may not arrive.
Delete(c) ==
  /\ Main(c, "release")
  /\ Become(c, [client[c] EXCEPT !.main = "released"])
  /\ leases' = leases \/ (up /\ Active(client[c].lease_id) /\ EndLeases({client[c].lease_id}))
  /\ UNCHANGED <<up, downs, next, lock>>

\* _release: and lease_id is forgotten.
Released(c) ==
  /\ Main(c, "released")
  /\ Become(c, LET state == [client[c] EXCEPT !.lease_id = None, !.held = None, !.got = "queued"]
               IN  IF state.then = "work" THEN Acquired(c, [state EXCEPT !.gave_up = TRUE])
                   ELSE [state EXCEPT !.main = state.then, !.then = "done"])
  /\ UNCHANGED <<broker, lock>>

-----------------------------------------------------------------------------
(* The heartbeat thread. *)

HeartbeatLoopEnds(c) ==
  /\ Beat(c, "idle") /\ client[c].stopped
  /\ Become(c, IF Main(c, "done") THEN [NewClient EXCEPT !.main = "done"]
               ELSE [client[c] EXCEPT !.beat = "off"])
  /\ UNCHANGED <<broker, lock>>

\* The directive is heard, or the broker does not know the lease.
SendHeartbeat(c) ==
  LET l == client[c].lease_id
  IN  /\ Beat(c, "idle") /\ ~client[c].stopped /\ ~client[c].offline /\ l # None
      /\ up
      /\ \/ Active(l) /\ leases[l].directive = "cancel"
            /\ Become(c, [client[c] EXCEPT !.cancelled = TRUE])
         \/ ~Active(l)
            /\ Become(c, [client[c] EXCEPT !.beat = "again"])
      /\ UNCHANGED <<broker, lock>>

\* The broker forgot us: the POST that puts us back on its list ...
SignUpAgain(c) ==
  /\ Beat(c, "again")
  /\ Post(c)
  /\ Become(c, [client[c] EXCEPT !.beat = "posted", !.beat_answer = next + 1])
  /\ UNCHANGED lock

SignUpFails(c) ==
  /\ Beat(c, "again")
  /\ Post(c) \/ UNCHANGED broker
  /\ Become(c, [client[c] EXCEPT !.beat = "idle"])
  /\ UNCHANGED lock

\* ... and the lease it brings takes the place of whatever lease_id is by now.
SignedUp(c) ==
  /\ Beat(c, "posted")
  /\ Become(c, [client[c] EXCEPT !.beat = "idle", !.lease_id = client[c].beat_answer,
                                 !.beat_answer = None])
  /\ UNCHANGED <<broker, lock>>

\* The program is killed, with all its threads.
Crash ==
  /\ client' = [c \in Client |-> [NewClient EXCEPT !.main = "dead"]]
  /\ lock' = Nobody
  /\ UNCHANGED broker

-----------------------------------------------------------------------------

Acquiring(c) ==
  \/ Ask(c) \/ AskFails(c) \/ Asked(c) \/ Poll(c) \/ PollFails(c)
  \/ AskAgain(c) \/ AskAgainFails(c) \/ TurnComes(c)
Releasing(c) == Delete(c) \/ Released(c)
Heartbeat(c) ==
  \/ HeartbeatLoopEnds(c) \/ SendHeartbeat(c)
  \/ SignUpAgain(c) \/ SignUpFails(c) \/ SignedUp(c)

Next ==
  \/ \E l \in LeaseId : Grant(l) \/ TellToYield(l) \/ Cancel(l) \/ Expire(l)
  \/ GoDown \/ ComeUp
  \/ \E c \in Client :
       \/ Acquiring(c) \/ PollTimesOut(c) \/ GiveUp(c) \/ TakeLock(c) \/ YieldPoint(c) \/ Finish(c)
       \/ Releasing(c) \/ Heartbeat(c)
  \/ Crash

Spec == Init /\ [][Next]_vars

\* The threads run, the work comes to a safe point again and again, and a poll of a
\* broker that is up is answered in the end; every call has a time limit.  The broker
\* runs its scheduler and its sampler.  Nothing says that work ever ends, that the
\* broker comes up again, or that it stays up.
Fairness ==
  /\ \A c \in Client :
       WF_vars(Acquiring(c) \/ YieldPoint(c) \/ Releasing(c)) /\ WF_vars(Heartbeat(c))
  /\ WF_vars(\E l \in LeaseId : Grant(l)) /\ WF_vars(\E l \in LeaseId : TellToYield(l))
  /\ WF_vars(\E l \in LeaseId : Expire(l))

FairSpec == Spec /\ Fairness

-----------------------------------------------------------------------------
(* Safety. *)

\* What the clients are given is what the broker promises (the protocol in the header
\* of broker.rs; grant, release, expiry and a restart that forgets everything).
Promised == INSTANCE VramAllocator
              WITH Room <- 1,
                   lease <- [l \in 1 .. next |->
                     [vram_mb |-> 1, preemptible |-> leases[l].owner \in Preemptible,
                      state |-> leases[l].state, directive |-> leases[l].directive]]
BrokerKeepsItsPromise == Promised!Spec

\* Who works with a broker has the lease whose grant it saw, all along: its own threads
\* keep it alive.  Exceptions: a restart that forgets it, and the heartbeat thread that
\* put another lease in its place and keeps that one alive (start, _heartbeat_loop).
WorkIsLeased ==
  \A c \in Client :
    Main(c, "work") /\ ~client[c].offline /\ ~client[c].gave_up
      => \/ Granted(client[c].held)
         \/ downs > 0
         \/ client[c].lease_id # client[c].held

-----------------------------------------------------------------------------
(* Liveness. *)

\* Whoever goes first does not wait for ever, even when the lease it waits for is
\* forgotten or cancelled, or another client has gone without giving its own back:
\* the turn comes, or the wait ends with an error (_acquire, yield_point).
Waits(c) == client[c].main \in {"asked", "wait", "repost"}
WaitEnds ==
  \A c \in Client :
    (Waits(c) /\ \A d \in Client \ {c} : Priority[c] < Priority[d]) ~> ~Waits(c)

\* What a client had is given out again after it has gone, however it went, and however
\* late its heartbeat thread signed up again (stop, _heartbeat_loop, expiry).
LeaseDiesWithClient ==
  \A c \in Client :
    (Main(c, "done") \/ Main(c, "dead")) ~>
      \A l \in 1 .. next : leases[l].owner = c => ~Active(l)

\* A job cancelled while it has the GPU lets go of it (yield_point, _send_heartbeat).
CancelHeard ==
  \A c \in Client :
    LET told == \E l \in 1 .. next : leases[l].owner = c /\ Granted(l)
                                     /\ leases[l].directive = "cancel"
    IN  told ~> ~told

-----------------------------------------------------------------------------
(* What the documentation says and the code does not do. *)

\* "The broker restarted and forgot us.  We go on working (we have the GPU already) and
\* sign up again" (_send_heartbeat, on a 404): a broker that never restarted forgets
\* nobody, and who works has the GPU.
WeHaveTheGpuAlready ==
  \A c \in Client :
    Main(c, "work") /\ ~client[c].offline /\ ~client[c].gave_up /\ downs = 0
      => Granted(client[c].held)
=============================================================================
