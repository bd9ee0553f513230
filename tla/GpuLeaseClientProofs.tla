------------------------ MODULE GpuLeaseClientProofs ------------------------
(***************************************************************************)
(* Proofs about the client of the GPU broker, for every set of clients,    *)
(* whatever their priorities, and however often the broker goes down.      *)
(***************************************************************************)
EXTENDS GpuLeaseClient, TLAPS, FiniteSetTheorems

-----------------------------------------------------------------------------
(* The inductive invariant. *)

\* The card has room for one, and who waits is told nothing.
BrokerSound ==
  /\ \A l, m \in 1 .. next :
       leases[l].state = "granted" /\ leases[m].state = "granted" => l = m
  /\ \A l \in 1 .. next : leases[l].state = "queued" => leases[l].directive = "continue"

\* Who is told to yield can.
OnlyPreemptibleYield ==
  \A l \in 1 .. next :
    leases[l].directive = "yield" /\ leases[l].state = "granted"
      => leases[l].owner \in Preemptible

BrokerInv == TypeOK /\ BrokerSound /\ OnlyPreemptibleYield

\* What a client knows of where it is.  Who waits for a lease is not offline and is not
\* told to stop; a grant was seen once, in the wait that ended with it; who works on it
\* has a heartbeat thread.
Consistent(k) ==
  /\ k.main \in {"post", "asked", "repost"} => k.got = "queued"
  /\ k.got = "queued" => k.held = None
  /\ k.main \in {"wait", "work"} /\ k.got = "granted" => k.held # None
  /\ k.main = "work" /\ ~k.offline /\ ~k.gave_up => k.got = "granted" /\ k.beat # "off"
  /\ k.stopped \/ k.offline => k.main \notin {"post", "asked", "wait", "repost"}
  /\ k.stopped => k.main \notin {"lock", "work"}
  /\ k.main = "lock" => k.offline /\ k.got = "queued"
  /\ (k.stopped \/ k.offline) /\ k.main \in {"release", "released"} => k.then = "done"

\* The leases a client knows are its own; the one its heartbeat thread brings is new to it.
Known(k) == {k.lease_id, k.answer, k.beat_answer, k.held} \ {None}
OwnsWhatItKnows(c) ==
  /\ \A l \in Known(client[c]) : l \in 1 .. next /\ leases[l].owner = c
  /\ client[c].beat_answer \notin {client[c].lease_id, client[c].answer, client[c].held} \ {None}

\* Who has seen its grant and keeps the lease alive has it, while the broker is up.
Relies(k) ==
  /\ k.main \in {"wait", "work"} /\ k.got = "granted"
  /\ ~k.offline /\ ~k.gave_up /\ k.lease_id = k.held

HasWhatItReliesOn(c) ==
  downs = 0 /\ Relies(client[c]) => leases[client[c].held].state = "granted"

Clients ==
  /\ client \in [Client -> ClientState]
  /\ \A c \in Client : Consistent(client[c]) /\ OwnsWhatItKnows(c) /\ HasWhatItReliesOn(c)

IInv == BrokerInv /\ Clients

-----------------------------------------------------------------------------
(* What a step does to the leases. *)

\* Leases keep their owner and go on as a client may count on; a new one is in the queue.
LeasesGo ==
  /\ up' \in BOOLEAN /\ downs' \in 0 .. MaxRestarts /\ downs <= downs'
  /\ next' \in {next, next + 1} /\ next' \in 0 .. MaxLeases
  /\ leases' \in [1 .. next' -> Lease]
  /\ \A l \in 1 .. next :
       /\ leases'[l].owner = leases[l].owner
       /\ leases[l].state = "granted" => leases'[l].state # "queued"
       /\ leases[l].state = "ended" => leases'[l].state = "ended"
       /\ leases'[l].state = "granted" =>
            /\ leases[l].state = "granted" /\ leases[l].directive # "continue"
                 => leases'[l].directive # "continue"
            /\ leases[l].state = "queued" => leases'[l].directive # "cancel"
  /\ \A l \in next + 1 .. next' :
       leases'[l].state = "queued" /\ leases'[l].directive = "continue"
  /\ BrokerSound'
  /\ \A l \in 1 .. next' :
       leases'[l].directive = "yield" /\ leases'[l].state = "granted"
         => leases'[l].owner \in Preemptible

\* No lease is granted before and not after.
NoneLost == \A l \in 1 .. next : leases[l].state = "granted" => leases'[l].state = "granted"

\* A step that leaves the leases alone.
LEMMA LeasesAtRest ==
  ASSUME BrokerInv, UNCHANGED <<downs, next, leases>>, up' \in BOOLEAN
  PROVE  LeasesGo /\ NoneLost
BY DEF BrokerInv, TypeOK, BrokerSound, OnlyPreemptibleYield, LeasesGo, NoneLost

\* A request that reaches the broker.
LEMMA PostGoes ==
  ASSUME BrokerInv, NEW c \in Client, Post(c)
  PROVE  /\ LeasesGo /\ NoneLost
         /\ next + 1 \in 1 .. next' /\ leases'[next + 1].owner = c /\ next + 1 \in LeaseId
<1>1. next \in Nat /\ MaxLeases \in Nat /\ next + 1 <= MaxLeases /\ next' = next + 1
  BY GpuLeaseClientAssumption DEF BrokerInv, TypeOK, Post
<1> DEFINE new == [owner |-> c, state |-> "queued", directive |-> "continue"]
<1>2. leases' = [l \in 1 .. next + 1 |-> IF l = next + 1 THEN new ELSE leases[l]]
  BY DEF Post
<1>3. new \in Lease
  BY DEF Lease
<1>4. \A l \in 1 .. next : l \in 1 .. next' /\ leases'[l] = leases[l] /\ leases[l] \in Lease
  BY <1>1, <1>2 DEF BrokerInv, TypeOK
<1>5. leases'[next + 1] = new /\ next + 1 \in 1 .. next'
  BY <1>1, <1>2
<1>6. \A l \in 1 .. next' : l \in 1 .. next \/ l = next + 1
  BY <1>1
<1>7. leases' \in [1 .. next' -> Lease]
  BY <1>1, <1>2, <1>3, <1>4
<1>8. BrokerSound'
  BY <1>4, <1>5, <1>6 DEF BrokerSound, BrokerInv
<1>9. \A l \in 1 .. next' :
        leases'[l].directive = "yield" /\ leases'[l].state = "granted"
          => leases'[l].owner \in Preemptible
  BY <1>4, <1>5, <1>6 DEF OnlyPreemptibleYield, BrokerInv
<1>10. up' \in BOOLEAN /\ downs' \in 0 .. MaxRestarts /\ downs <= downs'
  BY DEF Post, BrokerInv, TypeOK
<1>11. \A l \in next + 1 .. next' : l = next + 1
  BY <1>1
<1> HIDE DEF new
<1>12. LeasesGo
  BY <1>1, <1>3, <1>4, <1>5, <1>7, <1>8, <1>9, <1>10, <1>11 DEF LeasesGo, new, Lease
<1> QED BY <1>1, <1>4, <1>5, <1>12 DEF NoneLost, new, LeaseId

\* Leases that end.
LEMMA EndGoes ==
  ASSUME BrokerInv, NEW S, EndLeases(S), next' = next,
         up' \in BOOLEAN, downs' \in 0 .. MaxRestarts, downs <= downs'
  PROVE  /\ LeasesGo
         /\ \A l \in 1 .. next : l \notin S => leases'[l] = leases[l]
<1>1. next \in Nat /\ next \in 0 .. MaxLeases /\ leases \in [1 .. next -> Lease]
  BY GpuLeaseClientAssumption DEF BrokerInv, TypeOK
<1>2. \A l \in 1 .. next :
        /\ l \in S => leases'[l] = [leases[l] EXCEPT !.state = "ended", !.directive = "continue"]
        /\ l \notin S => leases'[l] = leases[l]
  BY DEF EndLeases
<1>3. ASSUME NEW l \in 1 .. next
      PROVE  /\ leases[l] \in Lease /\ leases'[l] \in Lease
             /\ leases'[l].owner = leases[l].owner
             /\ l \in S => leases'[l].state = "ended" /\ leases'[l].directive = "continue"
  <2>1. leases[l] \in Lease
    BY <1>1
  <2>2. CASE l \in S
    BY <1>2, <2>1, <2>2 DEF Lease
  <2>3. CASE l \notin S
    BY <1>2, <2>1, <2>3
  <2> QED BY <2>1, <2>2, <2>3
<1>4. leases' \in [1 .. next -> Lease]
  BY <1>3 DEF EndLeases
<1>5. BrokerSound'
  <2>1. \A l \in 1 .. next : leases'[l].state # "ended" => leases'[l] = leases[l]
    BY <1>2, <1>3
  <2> QED BY <2>1 DEF BrokerSound, BrokerInv
<1>6. \A l \in 1 .. next' :
        leases'[l].directive = "yield" /\ leases'[l].state = "granted"
          => leases'[l].owner \in Preemptible
  BY <1>2, <1>3 DEF OnlyPreemptibleYield, BrokerInv
<1>7. next + 1 .. next' = {}
  BY <1>1
<1>8. LeasesGo
  BY <1>1, <1>2, <1>3, <1>4, <1>5, <1>6, <1>7 DEF LeasesGo, BrokerInv, BrokerSound, Lease
<1> QED BY <1>2, <1>8

\* A lease that is granted: the card was free.
LEMMA GrantGoes ==
  ASSUME BrokerInv, NEW l \in LeaseId, Grant(l)
  PROVE  LeasesGo /\ NoneLost
<1>1. next \in Nat /\ next \in 0 .. MaxLeases /\ leases \in [1 .. next -> Lease]
  BY GpuLeaseClientAssumption DEF BrokerInv, TypeOK
<1>2. l \in 1 .. next /\ leases' = [leases EXCEPT ![l].state = "granted"]
  BY DEF Grant, Active
<1>3. leases[l].state = "queued" /\ leases[l].directive = "continue"
  BY <1>1, <1>2 DEF Grant, Active, Granted, Lease, BrokerInv, BrokerSound
<1>4. \A m \in 1 .. next : m # l => leases'[m] = leases[m] /\ leases[m].state # "granted"
  BY <1>1, <1>2 DEF Grant, Granted
<1>5. leases'[l] = [leases[l] EXCEPT !.state = "granted"] /\ leases[l] \in Lease
  BY <1>1, <1>2
<1>6. leases' \in [1 .. next -> Lease]
  BY <1>1, <1>2 DEF Lease
<1>7. UNCHANGED <<up, downs, next>>
  BY DEF Grant
<1>8. next + 1 .. next' = {}
  BY <1>1, <1>7
<1>9. BrokerSound'
  BY <1>3, <1>4, <1>5, <1>7 DEF BrokerSound, BrokerInv, Lease
<1>10. LeasesGo
  BY <1>1, <1>3, <1>4, <1>5, <1>6, <1>7, <1>8, <1>9
     DEF LeasesGo, BrokerInv, TypeOK, OnlyPreemptibleYield, Lease
<1> QED BY <1>3, <1>4, <1>10 DEF NoneLost

\* A lease that works and is told to stop.
LEMMA ToldGoes ==
  ASSUME BrokerInv, NEW l \in 1 .. next, NEW d \in {"yield", "cancel"},
         leases[l].state = "granted", leases' = [leases EXCEPT ![l].directive = d],
         d = "yield" => leases[l].owner \in Preemptible, UNCHANGED <<up, downs, next>>
  PROVE  LeasesGo /\ NoneLost
<1>1. next \in Nat /\ next \in 0 .. MaxLeases /\ leases \in [1 .. next -> Lease]
  BY GpuLeaseClientAssumption DEF BrokerInv, TypeOK
<1>2. \A m \in 1 .. next : m # l => leases'[m] = leases[m]
  BY <1>1
<1>3. leases'[l] = [leases[l] EXCEPT !.directive = d] /\ leases[l] \in Lease
  BY <1>1
<1>4. leases' \in [1 .. next -> Lease]
  BY <1>1 DEF Lease
<1>5. next + 1 .. next' = {}
  BY <1>1
<1>6. BrokerSound'
  BY <1>2, <1>3 DEF BrokerSound, BrokerInv, Lease
<1>7. LeasesGo
  BY <1>1, <1>2, <1>3, <1>4, <1>5, <1>6
     DEF LeasesGo, BrokerInv, TypeOK, OnlyPreemptibleYield, BrokerSound, Lease
<1> QED BY <1>2, <1>3, <1>7 DEF NoneLost, Lease

\* Who is granted stays so, unless nothing refreshes the lease, its owner gives it back,
\* or the broker has been down.
LossesExcused ==
  \A l \in 1 .. next :
    leases[l].state = "granted" /\ leases'[l].state # "granted" =>
      \/ ~Refreshed(l) \/ downs' # 0
      \/ \E c \in Client : Main(c, "release") /\ client[c].lease_id = l

LEMMA NoneLostExcused == ASSUME NoneLost PROVE LossesExcused
BY DEF NoneLost, LossesExcused

\* What the broker does of itself.
LEMMA BrokerGoes ==
  ASSUME BrokerInv,
         \/ \E l \in LeaseId : Grant(l) \/ TellToYield(l) \/ Cancel(l) \/ Expire(l)
         \/ GoDown \/ ComeUp
  PROVE  LeasesGo /\ LossesExcused
<1> USE NoneLostExcused
<1>1. ASSUME NEW l \in LeaseId, Grant(l) PROVE LeasesGo /\ LossesExcused
  BY <1>1, GrantGoes
<1>2. ASSUME NEW l \in LeaseId, TellToYield(l) PROVE LeasesGo /\ LossesExcused
  BY <1>2, ToldGoes DEF TellToYield, Granted
<1>3. ASSUME NEW l \in LeaseId, Cancel(l) PROVE LeasesGo /\ LossesExcused
  <2>1. l \in 1 .. next /\ UNCHANGED <<up, downs, next>>
    BY <1>3 DEF Cancel, Active
  <2>2. CASE Granted(l)
    BY <1>3, <2>1, <2>2, ToldGoes DEF Cancel, Granted
  <2>3. CASE ~Granted(l)
    <3>1. EndLeases({l})
      BY <1>3, <2>3 DEF Cancel
    <3>2. LeasesGo /\ \A m \in 1 .. next : m \notin {l} => leases'[m] = leases[m]
      BY <2>1, <3>1, EndGoes DEF BrokerInv, TypeOK
    <3> QED BY <2>1, <2>3, <3>2 DEF Granted, NoneLost
  <2> QED BY <2>2, <2>3
<1>4. ASSUME NEW l \in LeaseId, Expire(l) PROVE LeasesGo /\ LossesExcused
  <2>1. l \in 1 .. next /\ UNCHANGED <<up, downs, next>> /\ EndLeases({l}) /\ ~Refreshed(l)
    BY <1>4 DEF Expire, Active
  <2>2. LeasesGo /\ \A m \in 1 .. next : m \notin {l} => leases'[m] = leases[m]
    BY <2>1, EndGoes DEF BrokerInv, TypeOK
  <2> QED BY <2>1, <2>2 DEF LossesExcused
<1>5. CASE GoDown
  <2>1. EndLeases(1 .. next) /\ next' = next /\ up' \in BOOLEAN
    BY <1>5 DEF GoDown
  <2>2. downs' = downs + 1 /\ downs < MaxRestarts /\ downs \in Nat /\ MaxRestarts \in Nat
    BY <1>5, GpuLeaseClientAssumption DEF GoDown, BrokerInv, TypeOK
  <2>3. downs' \in 0 .. MaxRestarts /\ downs <= downs' /\ downs' # 0
    BY <2>2
  <2> QED BY <2>1, <2>3, EndGoes DEF LossesExcused
<1>6. CASE ComeUp
  BY <1>6, LeasesAtRest DEF ComeUp
<1> QED BY <1>1, <1>2, <1>3, <1>4, <1>5, <1>6

\* What a client asks of the broker, and what goes on without it.
LEMMA ClientLeasesGo ==
  ASSUME BrokerInv, NEW c \in Client,
         Post(c) \/ UNCHANGED broker \/ Delete(c)
  PROVE  LeasesGo /\ LossesExcused
<1> USE NoneLostExcused
<1>1. CASE Post(c)
  BY <1>1, PostGoes
<1>2. CASE UNCHANGED broker
  BY <1>2, LeasesAtRest DEF broker, BrokerInv, TypeOK
<1>3. CASE Delete(c)
  <2>1. UNCHANGED <<up, downs, next>> /\ Main(c, "release")
    BY <1>3 DEF Delete
  <2>2. CASE leases' = leases
    BY <2>1, <2>2, LeasesAtRest DEF BrokerInv, TypeOK
  <2>3. CASE EndLeases({client[c].lease_id})
    <3>1. LeasesGo /\ \A m \in 1 .. next : m \notin {client[c].lease_id} => leases'[m] = leases[m]
      BY <2>1, <2>3, EndGoes DEF BrokerInv, TypeOK
    <3> QED BY <2>1, <3>1 DEF LossesExcused
  <2> QED BY <1>3, <2>2, <2>3 DEF Delete
<1> QED BY <1>1, <1>2, <1>3

\* Every step of the composition.
LEMMA NextGoes ==
  ASSUME BrokerInv, [Next]_vars
  PROVE  LeasesGo /\ LossesExcused
<1>1. CASE \/ \E l \in LeaseId : Grant(l) \/ TellToYield(l) \/ Cancel(l) \/ Expire(l)
           \/ GoDown \/ ComeUp
  BY <1>1, BrokerGoes
<1>2. CASE \E c \in Client : Post(c) \/ UNCHANGED broker \/ Delete(c)
  BY <1>2, ClientLeasesGo
<1>3. CASE UNCHANGED broker
  BY <1>3, LeasesAtRest, NoneLostExcused DEF broker, BrokerInv, TypeOK
<1>4. ASSUME NEW c \in Client,
             \/ Acquiring(c) \/ PollTimesOut(c) \/ GiveUp(c) \/ TakeLock(c) \/ YieldPoint(c)
             \/ Finish(c) \/ Releasing(c) \/ Heartbeat(c)
      PROVE  Post(c) \/ UNCHANGED broker \/ Delete(c)
  BY <1>4 DEF Acquiring, Ask, AskFails, Asked, Poll, PollFails, AskAgain, AskAgainFails,
              TurnComes, PollTimesOut, GiveUp, TakeLock, YieldPoint, Finish, Releasing,
              Released, Heartbeat, HeartbeatLoopEnds, SendHeartbeat, SignUpAgain,
              SignUpFails, SignedUp
<1>5. CASE Crash
  BY <1>5, <1>3 DEF Crash
<1> QED BY <1>1, <1>2, <1>3, <1>4, <1>5 DEF Next, vars

-----------------------------------------------------------------------------
(* What a step does to the clients. *)

\* State k suits client c once the leases have gone on.
Suits(c, k) ==
  /\ k \in ClientState /\ Consistent(k)
  /\ \A l \in Known(k) : l \in 1 .. next' /\ leases'[l].owner = c
  /\ k.beat_answer \notin {k.lease_id, k.answer, k.held} \ {None}
  /\ downs' = 0 /\ Relies(k) => leases'[k.held].state = "granted"

\* Who does nothing is still right: its own threads refresh the lease it relies on, and
\* nobody else gives it back.
LEMMA AtRestSuits ==
  ASSUME BrokerInv, Clients, LeasesGo, LossesExcused, NEW c \in Client
  PROVE  Suits(c, client[c])
<1> DEFINE k == client[c]
<1>1. k \in ClientState /\ Consistent(k) /\ next \in Nat /\ next' \in Nat /\ next <= next'
  BY GpuLeaseClientAssumption DEF Clients, LeasesGo, BrokerInv, TypeOK
<1>2. \A l \in Known(k) : l \in 1 .. next /\ leases[l].owner = c
  BY DEF Clients, OwnsWhatItKnows
<1>3. \A l \in Known(k) : l \in 1 .. next' /\ leases'[l].owner = c
  BY <1>1, <1>2 DEF LeasesGo
<1>4. k.beat_answer \notin {k.lease_id, k.answer, k.held} \ {None}
  BY DEF Clients, OwnsWhatItKnows
<1>5. ASSUME downs' = 0, Relies(k) PROVE leases'[k.held].state = "granted"
  <2>1. downs = 0
    BY <1>5 DEF LeasesGo, BrokerInv, TypeOK
  <2>2. leases[k.held].state = "granted"
    BY <1>5, <2>1 DEF Clients, HasWhatItReliesOn
  <2>3. k.held \in Known(k)
    BY <1>1, <1>5 DEF Consistent, Relies, Known
  <2>4. k.held \in 1 .. next /\ leases[k.held].owner = c
    BY <1>2, <2>3
  <2>5. Refreshed(k.held)
    <3>1. k.main = "wait" \/ (k.main = "work" /\ k.beat # "off" /\ ~k.stopped)
      BY <1>1, <1>5 DEF Consistent, Relies, ClientState
    <3>2. k.lease_id = k.held /\ ~k.offline
      BY <1>5 DEF Relies
    <3> QED BY <2>4, <3>1, <3>2 DEF Refreshed
  <2>6. ASSUME NEW d \in Client, Main(d, "release"), client[d].lease_id = k.held PROVE FALSE
    <3>1. k.held # None
      BY <2>3 DEF Known
    <3>2. client[d].lease_id \in Known(client[d])
      BY <2>6, <3>1 DEF Known
    <3>3. d = c
      BY <2>4, <2>6, <3>2 DEF Clients, OwnsWhatItKnows
    <3> QED BY <1>5, <2>6, <3>3 DEF Main, Relies
  <2> QED BY <1>5, <2>2, <2>4, <2>5, <2>6 DEF LossesExcused
<1> QED BY <1>1, <1>3, <1>4, <1>5 DEF Suits

\* One client goes on, the others do nothing.
LEMMA OneSuits ==
  ASSUME BrokerInv, Clients, LeasesGo, LossesExcused,
         NEW c \in Client, NEW k, Suits(c, k), Become(c, k)
  PROVE  Clients'
<1>1. client' = [client EXCEPT ![c] = k] /\ client \in [Client -> ClientState]
  BY DEF Become, Clients
<1>2. client' \in [Client -> ClientState] /\ client'[c] = k
  BY <1>1 DEF Suits
<1>3. ASSUME NEW d \in Client PROVE Suits(d, client'[d])
  <2>1. CASE d = c
    BY <1>2, <2>1
  <2>2. CASE d # c
    <3>1. client'[d] = client[d]
      BY <1>1, <2>2
    <3> QED BY <3>1, AtRestSuits
  <2> QED BY <2>1, <2>2
<1>4. ASSUME NEW d \in Client
      PROVE  Consistent(client'[d]) /\ OwnsWhatItKnows(d)' /\ HasWhatItReliesOn(d)'
  BY <1>3 DEF Suits, OwnsWhatItKnows, HasWhatItReliesOn
<1> QED BY <1>2, <1>4 DEF Clients

LEMMA NoneSuits ==
  ASSUME BrokerInv, Clients, LeasesGo, LossesExcused, UNCHANGED client
  PROVE  Clients'
BY AtRestSuits DEF Clients, Suits, OwnsWhatItKnows, HasWhatItReliesOn

\* What every step of a client starts from.
LEMMA Ready ==
  ASSUME BrokerInv, Clients, NEW c \in Client, Post(c) \/ UNCHANGED broker \/ Delete(c)
  PROVE  /\ Suits(c, client[c])
         /\ \A k : Suits(c, k) /\ Become(c, k) => Clients'
<1>1. LeasesGo /\ LossesExcused
  BY ClientLeasesGo
<1> QED BY <1>1, AtRestSuits, OneSuits

\* The lease that a request brings is none of those the client knew.
LEMMA NewLease ==
  ASSUME BrokerInv, Clients, NEW c \in Client, Post(c)
  PROVE  /\ next + 1 \in LeaseId /\ next + 1 # None
         /\ next + 1 \in 1 .. next' /\ leases'[next + 1].owner = c
         /\ next + 1 \notin Known(client[c])
<1>1. next + 1 \in LeaseId /\ next + 1 \in 1 .. next' /\ leases'[next + 1].owner = c
  BY PostGoes
<1>2. next \in Nat
  BY GpuLeaseClientAssumption DEF BrokerInv, TypeOK
<1>3. \A l \in Known(client[c]) : l \in 1 .. next
  BY DEF Clients, OwnsWhatItKnows
<1> QED BY <1>1, <1>2, <1>3 DEF None

\* Who knows no other leases than before is suited still, unless it now relies on one.
LEMMA AsMuchSuits ==
  ASSUME NEW c \in Client, NEW s, NEW k, Suits(c, s), k \in ClientState, Consistent(k),
         Relies(k) => Relies(s),
         k.lease_id = s.lease_id, k.answer = s.answer, k.beat_answer = s.beat_answer,
         k.held = s.held
  PROVE  Suits(c, k)
<1>1. Known(k) = Known(s)
  BY DEF Known
<1> QED BY <1>1 DEF Suits

\* The two ways in which the main thread stops: with nothing to give back, and after it.
LEMMA StopSuits ==
  ASSUME NEW c \in Client, NEW s, Suits(c, s)
  PROVE  /\ Suits(c, [s EXCEPT !.main = "dead"])
         /\ Suits(c, [s EXCEPT !.main = "release", !.then = "done", !.stopped = TRUE])
<1>1. s \in ClientState
  BY DEF Suits
<1>2. Suits(c, [s EXCEPT !.main = "dead"])
  <2> DEFINE k == [s EXCEPT !.main = "dead"]
  <2>1. /\ k \in ClientState /\ k.main = "dead"
        /\ k.lease_id = s.lease_id /\ k.answer = s.answer
        /\ k.beat_answer = s.beat_answer /\ k.held = s.held
        /\ k.got = s.got /\ k.offline = s.offline
    <3>1. k \in ClientState
      BY <1>1 DEF ClientState
    <3> QED BY <1>1, <3>1 DEF ClientState
  <2> HIDE DEF k
  <2>2. Consistent(k) /\ ~Relies(k)
    BY <2>1 DEF Suits, Consistent, Relies
  <2>3. Suits(c, k)
    BY <2>1, <2>2, AsMuchSuits
  <2> QED BY <2>3 DEF k
<1>3. Suits(c, [s EXCEPT !.main = "release", !.then = "done", !.stopped = TRUE])
  <2> DEFINE k == [s EXCEPT !.main = "release", !.then = "done", !.stopped = TRUE]
  <2>1. /\ k \in ClientState /\ k.main = "release" /\ k.then = "done"
        /\ k.lease_id = s.lease_id /\ k.answer = s.answer
        /\ k.beat_answer = s.beat_answer /\ k.held = s.held
        /\ k.got = s.got /\ k.offline = s.offline
    <3>1. k \in ClientState
      BY <1>1 DEF ClientState
    <3> QED BY <1>1, <3>1 DEF ClientState
  <2> HIDE DEF k
  <2>2. Consistent(k) /\ ~Relies(k)
    BY <2>1 DEF Suits, Consistent, Relies
  <2>3. Suits(c, k)
    BY <2>1, <2>2, AsMuchSuits
  <2> QED BY <2>3 DEF k
<1> QED BY <1>2, <1>3

LEMMA AcquiringSuits ==
  ASSUME BrokerInv, Clients, NEW c \in Client, Acquiring(c)
  PROVE  Clients'
<1> DEFINE s == client[c]
<1> USE DEF Main, Beat
<1>1. CASE Ask(c)
  <2>1. Suits(c, s) /\ s.main = "post" /\ Post(c)
    BY <1>1, Ready DEF Ask
  <2> DEFINE k == [s EXCEPT !.main = "asked", !.answer = next + 1]
  <2>2. Suits(c, k)
    <3>1. k \in ClientState /\ Consistent(k) /\ ~Relies(k)
      BY <2>1, NewLease DEF Suits, Consistent, Relies, ClientState
    <3>2. /\ k.lease_id = s.lease_id /\ k.answer = next + 1
          /\ k.beat_answer = s.beat_answer /\ k.held = s.held
      BY <2>1 DEF Suits, ClientState
    <3> QED BY <2>1, <3>1, <3>2, NewLease DEF Suits, Known
  <2> QED BY <1>1, <2>1, <2>2, Ready DEF Ask
<1>2. CASE AskFails(c)
  <2>1. Suits(c, s) /\ s.main = "post"
    BY <1>2, Ready DEF AskFails
  <2> DEFINE k == Acquired(c, [s EXCEPT !.offline = TRUE])
  <2>2. Suits(c, k)
    <3>1. k = IF s.beat = "off" THEN [s EXCEPT !.offline = TRUE, !.main = "lock"]
              ELSE [s EXCEPT !.offline = TRUE, !.main = "work"]
      BY <2>1 DEF Acquired, Suits, ClientState
    <3> HIDE DEF k
    <3>2. k \in ClientState
      <4>1. s \in ClientState
        BY <2>1 DEF Suits
      <4>2. [s EXCEPT !.offline = TRUE, !.main = "lock"] \in ClientState
        BY <4>1 DEF ClientState
      <4>3. [s EXCEPT !.offline = TRUE, !.main = "work"] \in ClientState
        BY <4>1 DEF ClientState
      <4> QED BY <3>1, <4>2, <4>3
    <3>3. /\ k.lease_id = s.lease_id /\ k.answer = s.answer
          /\ k.beat_answer = s.beat_answer /\ k.held = s.held
      BY <2>1, <3>1 DEF Suits, ClientState
    <3>4. /\ k.main \in {"lock", "work"} /\ k.offline /\ k.got = s.got
          /\ k.stopped = s.stopped
      BY <2>1, <3>1 DEF Suits, ClientState
    <3>5. Consistent(k) /\ ~Relies(k)
      BY <2>1, <3>3, <3>4 DEF Suits, Consistent, Relies
    <3> QED BY <2>1, <3>2, <3>3, <3>5 DEF Suits, Known
  <2> QED BY <1>2, <2>2, Ready DEF AskFails
<1>3. CASE Asked(c)
  <2>1. Suits(c, s) /\ s.main = "asked"
    BY <1>3, Ready DEF Asked
  <2> DEFINE k == [s EXCEPT !.main = "wait", !.lease_id = s.answer,
                            !.answer = None, !.got = "queued"]
  <2>2. Suits(c, k)
    <3>1. s \in ClientState
      BY <2>1 DEF Suits
    <3>2. /\ k \in ClientState /\ k.main = "wait" /\ k.got = "queued"
          /\ k.lease_id = s.answer /\ k.answer = None
          /\ k.offline = s.offline /\ k.stopped = s.stopped
          /\ k.beat_answer = s.beat_answer /\ k.held = s.held
      BY <3>1 DEF ClientState
    <3> HIDE DEF k
    <3>3. Consistent(k) /\ ~Relies(k)
      BY <2>1, <3>2 DEF Suits, Consistent, Relies
    <3>4. Known(k) \subseteq Known(s)
      BY <3>2 DEF Known
    <3>5. k.beat_answer \notin {k.lease_id, k.answer, k.held} \ {None}
      BY <2>1, <3>2 DEF Suits
    <3> QED BY <2>1, <3>2, <3>3, <3>4, <3>5 DEF Suits
  <2> QED BY <1>3, <2>2, Ready DEF Asked
<1>4. CASE Poll(c)
  <2>1. Suits(c, s) /\ s.main = "wait" /\ s.got # "granted" /\ UNCHANGED broker
    BY <1>4, Ready DEF Poll
  <2> DEFINE k == [s EXCEPT !.got = "granted", !.held = s.lease_id]
  <2>2. Granted(s.lease_id) => Suits(c, k)
    <3> SUFFICES ASSUME Granted(s.lease_id) PROVE Suits(c, k)
      OBVIOUS
    <3>1. s.lease_id # None /\ leases'[s.lease_id].state = "granted"
      BY <2>1 DEF Granted, broker, None
    <3>2. k \in ClientState /\ Consistent(k)
      BY <2>1, <3>1 DEF Suits, Consistent, ClientState
    <3>3. /\ k.lease_id = s.lease_id /\ k.answer = s.answer
          /\ k.beat_answer = s.beat_answer /\ k.held = s.lease_id
      BY <2>1 DEF Suits, ClientState
    <3> QED BY <2>1, <3>1, <3>2, <3>3 DEF Suits, Known
  <2>3. Suits(c, [s EXCEPT !.main = "repost"])
    BY <2>1 DEF Suits, Consistent, Known, Relies, ClientState
  <2> QED BY <1>4, <2>2, <2>3, Ready DEF Poll
<1>5. CASE PollFails(c)
  <2>1. Suits(c, s) /\ s.main = "wait" /\ s.got # "granted"
    BY <1>5, Ready DEF PollFails
  <2>2. Suits(c, [s EXCEPT !.main = "dead"])
    BY <2>1, StopSuits
  <2>3. Suits(c, [s EXCEPT !.main = "release", !.then = "done", !.stopped = TRUE])
    BY <2>1, StopSuits
  <2> QED BY <1>5, <2>2, <2>3, Ready DEF PollFails, Raise
<1>6. CASE AskAgain(c)
  <2>1. Suits(c, s) /\ s.main = "repost" /\ Post(c)
    BY <1>6, Ready DEF AskAgain
  <2> DEFINE k == [s EXCEPT !.main = "asked", !.answer = next + 1]
  <2>2. Suits(c, k)
    <3>1. k \in ClientState /\ Consistent(k) /\ ~Relies(k)
      BY <2>1, NewLease DEF Suits, Consistent, Relies, ClientState
    <3>2. /\ k.lease_id = s.lease_id /\ k.answer = next + 1
          /\ k.beat_answer = s.beat_answer /\ k.held = s.held
      BY <2>1 DEF Suits, ClientState
    <3> QED BY <2>1, <3>1, <3>2, NewLease DEF Suits, Known
  <2> QED BY <1>6, <2>1, <2>2, Ready DEF AskAgain
<1>7. CASE AskAgainFails(c)
  <2>1. Suits(c, s) /\ s.main = "repost"
    BY <1>7, Ready DEF AskAgainFails
  <2>2. Suits(c, [s EXCEPT !.main = "dead"])
    BY <2>1, StopSuits
  <2>3. Suits(c, [s EXCEPT !.main = "release", !.then = "done", !.stopped = TRUE])
    BY <2>1, StopSuits
  <2> QED BY <1>7, <2>2, <2>3, Ready DEF AskAgainFails, Raise
<1>8. CASE TurnComes(c)
  <2>1. Suits(c, s) /\ s.main = "wait" /\ s.got = "granted"
    BY <1>8, Ready DEF TurnComes
  <2> DEFINE k == Acquired(c, s)
  <2>2. Suits(c, k)
    <3>1. s \in ClientState /\ ~s.offline /\ ~s.stopped
      BY <2>1 DEF Suits, Consistent, ClientState
    <3> DEFINE b == IF s.beat # "off" THEN s.beat ELSE IF s.gave_up THEN "off" ELSE "idle"
    <3>2. k = [s EXCEPT !.main = "work", !.beat = b]
      BY <3>1 DEF Acquired, ClientState
    <3>3. b \in {"off", "idle", "again", "posted"} /\ (~s.gave_up => b # "off")
      BY <3>1 DEF ClientState
    <3> HIDE DEF b, k
    <3>4. /\ k \in ClientState /\ k.main = "work" /\ k.beat = b
          /\ k.lease_id = s.lease_id /\ k.answer = s.answer
          /\ k.beat_answer = s.beat_answer /\ k.held = s.held
          /\ k.got = s.got /\ k.offline = s.offline /\ k.stopped = s.stopped
          /\ k.gave_up = s.gave_up
      BY <3>1, <3>2, <3>3 DEF ClientState
    <3>5. Consistent(k)
      BY <2>1, <3>1, <3>3, <3>4 DEF Suits, Consistent
    <3>6. Relies(k) => Relies(s)
      BY <2>1, <3>4 DEF Relies
    <3> QED BY <2>1, <3>4, <3>5, <3>6, AsMuchSuits
  <2> QED BY <1>8, <2>2, Ready DEF TurnComes
<1> QED BY <1>1, <1>2, <1>3, <1>4, <1>5, <1>6, <1>7, <1>8 DEF Acquiring

\* The rest of the main thread.
LEMMA WorkingSuits ==
  ASSUME BrokerInv, Clients, NEW c \in Client,
         \/ PollTimesOut(c) \/ GiveUp(c) \/ TakeLock(c) \/ YieldPoint(c) \/ Finish(c)
         \/ Releasing(c)
  PROVE  Clients'
<1> DEFINE s == client[c]
<1> USE DEF Main, Beat
<1>1. CASE PollTimesOut(c)
  <2>1. Suits(c, s) /\ s.main = "wait" /\ s.got # "granted"
    BY <1>1, Ready DEF PollTimesOut
  <2>2. Suits(c, [s EXCEPT !.main = "dead"])
    BY <2>1, StopSuits
  <2>3. Suits(c, [s EXCEPT !.main = "release", !.then = "done", !.stopped = TRUE])
    BY <2>1, StopSuits
  <2> QED BY <1>1, <2>2, <2>3, Ready DEF PollTimesOut, Raise
<1>2. CASE GiveUp(c)
  <2>1. Suits(c, s) /\ s.main = "wait" /\ s.got # "granted"
    BY <1>2, Ready DEF GiveUp
  <2>2. Suits(c, [s EXCEPT !.main = "release", !.then = "work"])
    BY <2>1 DEF Suits, Consistent, Known, Relies, ClientState
  <2> QED BY <1>2, <2>2, Ready DEF GiveUp
<1>3. CASE TakeLock(c)
  <2>1. Suits(c, s) /\ s.main = "lock" /\ Become(c, [s EXCEPT !.main = "work"])
    BY <1>3, Ready DEF TakeLock
  <2>2. s.offline
    BY <2>1 DEF Suits, Consistent
  <2> DEFINE k == [s EXCEPT !.main = "work"]
  <2>3. Suits(c, k)
    <3>1. k \in ClientState /\ Consistent(k) /\ ~Relies(k)
      BY <2>1, <2>2 DEF Suits, Consistent, Relies, ClientState
    <3>2. /\ k.lease_id = s.lease_id /\ k.answer = s.answer
          /\ k.beat_answer = s.beat_answer /\ k.held = s.held
      BY <2>1 DEF Suits, ClientState
    <3> QED BY <2>1, <3>1, <3>2 DEF Suits, Known
  <2> QED BY <1>3, <2>1, <2>3, Ready DEF TakeLock
<1>4. CASE YieldPoint(c)
  <2>1. Suits(c, s) /\ s.main = "work" /\ UNCHANGED broker
    BY <1>4, Ready DEF YieldPoint
  <2>2. Suits(c, [s EXCEPT !.main = "release", !.then = "done",
                           !.cancelled = TRUE, !.stopped = TRUE])
    <3> DEFINE k == [s EXCEPT !.main = "release", !.then = "done",
                              !.cancelled = TRUE, !.stopped = TRUE]
    <3>1. s \in ClientState
      BY <2>1 DEF Suits
    <3>2. /\ k \in ClientState /\ k.main = "release" /\ k.then = "done"
          /\ k.lease_id = s.lease_id /\ k.answer = s.answer
          /\ k.beat_answer = s.beat_answer /\ k.held = s.held
          /\ k.got = s.got /\ k.offline = s.offline
      <4> HIDE DEF s
      <4>1. k \in ClientState
        BY <3>1 DEF ClientState
      <4> QED BY <3>1, <4>1 DEF ClientState
    <3> HIDE DEF k
    <3>3. Consistent(k) /\ ~Relies(k)
      BY <2>1, <3>2 DEF Suits, Consistent, Relies
    <3>4. Suits(c, k)
      BY <2>1, <3>2, <3>3, AsMuchSuits
    <3> QED BY <3>4 DEF k
  <2>3. ~s.offline => Suits(c, [s EXCEPT !.main = "release", !.then = "post"])
    <3> SUFFICES ASSUME ~s.offline PROVE Suits(c, [s EXCEPT !.main = "release", !.then = "post"])
      OBVIOUS
    <3> DEFINE k == [s EXCEPT !.main = "release", !.then = "post"]
    <3>1. s \in ClientState /\ ~s.stopped
      BY <2>1 DEF Suits, Consistent, ClientState
    <3>2. /\ k \in ClientState /\ k.main = "release" /\ k.stopped = s.stopped
          /\ k.lease_id = s.lease_id /\ k.answer = s.answer
          /\ k.beat_answer = s.beat_answer /\ k.held = s.held
          /\ k.got = s.got /\ k.offline = s.offline
      <4> HIDE DEF s
      <4>1. k \in ClientState
        BY <3>1 DEF ClientState
      <4> QED BY <3>1, <4>1 DEF ClientState
    <3> HIDE DEF k
    <3>3. Consistent(k) /\ ~Relies(k)
      BY <2>1, <3>1, <3>2 DEF Suits, Consistent, Relies
    <3>4. Suits(c, k)
      BY <2>1, <3>2, <3>3, AsMuchSuits
    <3> QED BY <3>4 DEF k
  <2>4. \/ Become(c, [s EXCEPT !.main = "release", !.then = "done",
                               !.cancelled = TRUE, !.stopped = TRUE])
        \/ ~s.offline /\ Become(c, [s EXCEPT !.main = "release", !.then = "post"])
    BY <1>4 DEF YieldPoint
  <2> QED BY <2>1, <2>2, <2>3, <2>4, Ready
<1>5. CASE Finish(c)
  <2>1. Suits(c, s) /\ s.main = "work"
    BY <1>5, Ready DEF Finish
  <2>2. Suits(c, [s EXCEPT !.main = "release", !.then = "done", !.stopped = TRUE])
    BY <2>1, StopSuits
  <2> QED BY <1>5, <2>2, Ready DEF Finish
<1>6. CASE Delete(c)
  <2>1. Suits(c, s) /\ s.main = "release"
    BY <1>6, Ready DEF Delete
  <2>2. Suits(c, [s EXCEPT !.main = "released"])
    BY <2>1 DEF Suits, Consistent, Known, Relies, ClientState
  <2> QED BY <1>6, <2>2, Ready DEF Delete
<1>7. CASE Released(c)
  <2>1. Suits(c, s) /\ s.main = "released"
    BY <1>7, Ready DEF Released
  <2> DEFINE r == [s EXCEPT !.lease_id = None, !.held = None, !.got = "queued"]
  <2> DEFINE k == Acquired(c, [r EXCEPT !.gave_up = TRUE])
  <2>2. s.then = "work" => Suits(c, k)
    <3> SUFFICES ASSUME s.then = "work" PROVE Suits(c, k)
      OBVIOUS
    <3>1. k = [r EXCEPT !.gave_up = TRUE, !.main = "work"]
      BY <2>1 DEF Acquired, Suits, Consistent, ClientState
    <3>2. k \in ClientState /\ Consistent(k) /\ ~Relies(k)
      BY <2>1, <3>1, ZenonT(60) DEF Suits, Consistent, Relies, ClientState
    <3>3. /\ k.lease_id = None /\ k.answer = s.answer
          /\ k.beat_answer = s.beat_answer /\ k.held = None
      BY <2>1, <3>1 DEF Suits, ClientState
    <3> QED BY <2>1, <3>2, <3>3 DEF Suits, Known
  <2>3. s.then # "work" => Suits(c, [r EXCEPT !.main = s.then, !.then = "done"])
    BY <2>1, ZenonT(60) DEF Suits, Consistent, Known, Relies, ClientState
  <2>4. r.then = s.then
    BY <2>1 DEF Suits, ClientState
  <2>5. Become(c, IF r.then = "work" THEN Acquired(c, [r EXCEPT !.gave_up = TRUE])
                  ELSE [r EXCEPT !.main = r.then, !.then = "done"])
    BY <1>7 DEF Released
  <2> HIDE DEF r
  <2> QED BY <1>7, <2>2, <2>3, <2>4, <2>5, Ready DEF Released
<1> QED BY <1>1, <1>2, <1>3, <1>4, <1>5, <1>6, <1>7 DEF Releasing

\* The heartbeat thread.
LEMMA HeartbeatSuits ==
  ASSUME BrokerInv, Clients, NEW c \in Client, Heartbeat(c)
  PROVE  Clients'
<1> DEFINE s == client[c]
<1> USE DEF Main, Beat
<1>1. CASE HeartbeatLoopEnds(c)
  <2>1. Suits(c, s) /\ s.beat = "idle" /\ s.stopped
    BY <1>1, Ready DEF HeartbeatLoopEnds
  <2>2. Suits(c, [NewClient EXCEPT !.main = "done"])
    BY DEF NewClient, Suits, Consistent, Known, Relies, ClientState, None
  <2>3. Suits(c, [s EXCEPT !.beat = "off"])
    BY <2>1 DEF Suits, Consistent, Known, Relies, ClientState
  <2> QED BY <1>1, <2>2, <2>3, Ready DEF HeartbeatLoopEnds
<1>2. CASE SendHeartbeat(c)
  <2>1. Suits(c, s)
    BY <1>2, Ready DEF SendHeartbeat
  <2> DEFINE k == [s EXCEPT !.cancelled = TRUE]
  <2>2. Suits(c, k)
    <3>1. k \in ClientState
      BY <2>1 DEF Suits, ClientState
    <3>2. /\ k.lease_id = s.lease_id /\ k.answer = s.answer
          /\ k.beat_answer = s.beat_answer /\ k.held = s.held
      BY <2>1 DEF Suits, ClientState
    <3>3. /\ k.main = s.main /\ k.got = s.got /\ k.offline = s.offline /\ k.gave_up = s.gave_up
          /\ k.stopped = s.stopped /\ k.then = s.then /\ k.held = s.held /\ k.beat = s.beat
      BY <2>1 DEF Suits, ClientState
    <3>4. Consistent(k) /\ (Relies(k) => Relies(s))
      BY <2>1, <3>2, <3>3 DEF Suits, Consistent, Relies
    <3> QED BY <2>1, <3>1, <3>2, <3>4 DEF Suits, Known
  <2>3. Suits(c, [s EXCEPT !.beat = "again"])
    BY <2>1 DEF Suits, Consistent, Known, Relies, ClientState
  <2> QED BY <1>2, <2>2, <2>3, Ready DEF SendHeartbeat
<1>3. CASE SignUpAgain(c)
  <2>1. Suits(c, s) /\ Post(c)
    BY <1>3, Ready DEF SignUpAgain
  <2> DEFINE k == [s EXCEPT !.beat = "posted", !.beat_answer = next + 1]
  <2>2. Suits(c, k)
    <3>1. k \in ClientState
      BY <2>1, NewLease DEF Suits, ClientState
    <3>2. /\ k.lease_id = s.lease_id /\ k.answer = s.answer
          /\ k.beat_answer = next + 1 /\ k.held = s.held
      BY <2>1 DEF Suits, ClientState
    <3>3. /\ k.main = s.main /\ k.got = s.got /\ k.offline = s.offline /\ k.gave_up = s.gave_up
          /\ k.stopped = s.stopped /\ k.then = s.then /\ k.held = s.held /\ k.beat # "off"
      BY <2>1 DEF Suits, ClientState
    <3>4. Consistent(k) /\ (Relies(k) => Relies(s))
      BY <2>1, <3>2, <3>3 DEF Suits, Consistent, Relies
    <3> QED BY <2>1, <3>1, <3>2, <3>4, NewLease DEF Suits, Known
  <2> QED BY <1>3, <2>1, <2>2, Ready DEF SignUpAgain
<1>4. CASE SignUpFails(c)
  <2>1. Suits(c, s)
    BY <1>4, Ready DEF SignUpFails
  <2>2. Suits(c, [s EXCEPT !.beat = "idle"])
    BY <2>1 DEF Suits, Consistent, Known, Relies, ClientState
  <2> QED BY <1>4, <2>2, Ready DEF SignUpFails
<1>5. CASE SignedUp(c)
  <2>1. Suits(c, s)
    BY <1>5, Ready DEF SignedUp
  <2> DEFINE k == [s EXCEPT !.beat = "idle", !.lease_id = s.beat_answer, !.beat_answer = None]
  <2>2. Suits(c, k)
    <3>1. k \in ClientState
      BY <2>1 DEF Suits, ClientState
    <3>2. /\ k.lease_id = s.beat_answer /\ k.answer = s.answer
          /\ k.beat_answer = None /\ k.held = s.held
      BY <2>1 DEF Suits, ClientState
    <3>3. /\ k.main = s.main /\ k.got = s.got /\ k.offline = s.offline /\ k.gave_up = s.gave_up
          /\ k.stopped = s.stopped /\ k.then = s.then /\ k.held = s.held /\ k.beat # "off"
      BY <2>1 DEF Suits, ClientState
    <3>4. Consistent(k)
      BY <2>1, <3>2, <3>3 DEF Suits, Consistent
    <3>5. ~Relies(k)
      <4>1. Relies(k) => s.held # None /\ s.beat_answer = s.held
        BY <3>2, <3>4 DEF Relies, Consistent
      <4> QED BY <2>1, <4>1 DEF Suits
    <3> QED BY <2>1, <3>1, <3>2, <3>4, <3>5 DEF Suits, Known
  <2> QED BY <1>5, <2>2, Ready DEF SignedUp
<1> QED BY <1>1, <1>2, <1>3, <1>4, <1>5 DEF Heartbeat

-----------------------------------------------------------------------------
(* The invariant. *)

LEMMA InitHolds == Init => IInv
<1> SUFFICES ASSUME Init PROVE IInv
  OBVIOUS
<1>1. /\ up = TRUE /\ downs = 0 /\ next = 0 /\ leases = [l \in 1 .. 0 |-> 0]
      /\ client = [c \in Client |-> NewClient] /\ lock = Nobody
  BY DEF Init
<1>2. NewClient \in ClientState /\ Consistent(NewClient) /\ ~Relies(NewClient)
      /\ Known(NewClient) = {}
  BY DEF NewClient, ClientState, Consistent, Relies, Known, None
<1>3. client \in [Client -> ClientState]
  BY <1>1, <1>2
<1>4. TypeOK
  BY <1>1, <1>3, GpuLeaseClientAssumption DEF TypeOK
<1>5. BrokerSound /\ OnlyPreemptibleYield
  BY <1>1 DEF BrokerSound, OnlyPreemptibleYield
<1>6. NewClient.beat_answer \notin {NewClient.lease_id, NewClient.answer, NewClient.held} \ {None}
  BY DEF NewClient, None
<1>7. \A c \in Client : Consistent(client[c]) /\ OwnsWhatItKnows(c) /\ HasWhatItReliesOn(c)
  BY <1>1, <1>2, <1>6 DEF OwnsWhatItKnows, HasWhatItReliesOn
<1> QED BY <1>3, <1>4, <1>5, <1>7 DEF IInv, BrokerInv, Clients

LEMMA CrashSuits == ASSUME Crash PROVE Clients'
<1>1. client' = [c \in Client |-> [NewClient EXCEPT !.main = "dead"]]
  BY DEF Crash
<1> DEFINE k == [NewClient EXCEPT !.main = "dead"]
<1>2. /\ k \in ClientState /\ Consistent(k) /\ ~Relies(k) /\ Known(k) = {}
      /\ k.beat_answer \notin {k.lease_id, k.answer, k.held} \ {None}
  BY DEF NewClient, ClientState, Consistent, Relies, Known, None
<1>3. \A c \in Client : client'[c] = k
  BY <1>1
<1>4. client' \in [Client -> ClientState]
  BY <1>1, <1>2
<1> HIDE DEF k
<1> QED BY <1>2, <1>3, <1>4 DEF Clients, OwnsWhatItKnows, HasWhatItReliesOn

\* Who has the lock is a client, or nobody.
LEMMA LockTyped == ASSUME TypeOK, [Next]_vars PROVE lock' \in Client \cup {Nobody}
BY DEF TypeOK, Next, vars, Grant, TellToYield, Cancel, Expire, GoDown, ComeUp, Acquiring, Ask,
       AskFails, Asked, Poll, PollFails, AskAgain, AskAgainFails, TurnComes, PollTimesOut,
       GiveUp, TakeLock, YieldPoint, Finish, Releasing, Delete, Released, Heartbeat,
       HeartbeatLoopEnds, SendHeartbeat, SignUpAgain, SignUpFails, SignedUp, Crash

LEMMA StepHolds == ASSUME IInv, [Next]_vars PROVE IInv'
<1>1. LeasesGo /\ LossesExcused /\ BrokerInv /\ Clients
  BY NextGoes DEF IInv
<1>2. Clients'
  <2>1. CASE \/ \E l \in LeaseId : Grant(l) \/ TellToYield(l) \/ Cancel(l) \/ Expire(l)
             \/ GoDown \/ ComeUp \/ UNCHANGED vars
    <3>1. UNCHANGED client
      BY <2>1 DEF Grant, TellToYield, Cancel, Expire, GoDown, ComeUp, vars
    <3> QED BY <1>1, <3>1, NoneSuits
  <2>2. CASE \E c \in Client : Acquiring(c)
    BY <1>1, <2>2, AcquiringSuits
  <2>3. CASE \E c \in Client :
               \/ PollTimesOut(c) \/ GiveUp(c) \/ TakeLock(c) \/ YieldPoint(c) \/ Finish(c)
               \/ Releasing(c)
    BY <1>1, <2>3, WorkingSuits
  <2>4. CASE \E c \in Client : Heartbeat(c)
    BY <1>1, <2>4, HeartbeatSuits
  <2>5. CASE Crash
    BY <2>5, CrashSuits
  <2> QED BY <2>1, <2>2, <2>3, <2>4, <2>5 DEF Next
<1>3. TypeOK'
  BY <1>1, <1>2, LockTyped DEF LeasesGo, Clients, TypeOK, BrokerInv
<1>4. BrokerSound' /\ OnlyPreemptibleYield'
  BY <1>1 DEF LeasesGo, OnlyPreemptibleYield
<1> QED BY <1>2, <1>3, <1>4 DEF IInv, BrokerInv

LEMMA Always == Spec => []IInv
BY InitHolds, StepHolds, PTL DEF Spec

\* The state of the broker, of every client and of its two threads is what it is meant
\* to be.
THEOREM TypeCorrect == Spec => []TypeOK
<1>1. IInv => TypeOK
  BY DEF IInv, BrokerInv
<1> QED BY <1>1, Always, PTL

\* Who works with a broker has the lease whose grant it saw: while the broker has not been
\* down and the heartbeat thread has put no other lease in its place (start,
\* _heartbeat_loop, stop).
THEOREM WorkersAreLeased == Spec => []WorkIsLeased
<1>1. IInv => WorkIsLeased
  <2> SUFFICES ASSUME IInv, NEW c \in Client, Main(c, "work"),
                      ~client[c].offline, ~client[c].gave_up, downs = 0,
                      client[c].lease_id = client[c].held
               PROVE  Granted(client[c].held)
    BY GpuLeaseClientAssumption DEF WorkIsLeased, IInv, BrokerInv, TypeOK
  <2>1. Consistent(client[c]) /\ OwnsWhatItKnows(c) /\ HasWhatItReliesOn(c)
    BY DEF IInv, Clients
  <2>2. Relies(client[c]) /\ client[c].held # None
    BY <2>1 DEF Consistent, Relies, Main
  <2>3. client[c].held \in 1 .. next
    BY <2>1, <2>2 DEF OwnsWhatItKnows, Known
  <2> QED BY <2>1, <2>2, <2>3 DEF HasWhatItReliesOn, Granted
<1> QED BY <1>1, Always, PTL

-----------------------------------------------------------------------------
(* The refinement. *)

Seen ==
  [l \in 1 .. next |-> [vram_mb |-> 1, preemptible |-> leases[l].owner \in Preemptible,
                        state |-> leases[l].state, directive |-> leases[l].directive]]

\* One lease of one unit, at most, is granted.
LEMMA SeenFits == ASSUME BrokerInv PROVE Promised!MegabytesHeld(next, Seen) <= 1
<1> DEFINE H == Promised!Holders(next, Seen)
           U == UNION {{l} \X (1 .. Seen[l].vram_mb) : l \in H}
<1>1. H = {l \in 1 .. next : leases[l].state = "granted"}
  BY DEF Promised!Holders, Seen
<1>2. \A l, m \in H : l = m
  BY <1>1 DEF BrokerInv, BrokerSound
<1>3. \A l \in H : {l} \X (1 .. Seen[l].vram_mb) = {<<l, 1>>}
  <2> SUFFICES ASSUME NEW l \in H PROVE {l} \X (1 .. Seen[l].vram_mb) = {<<l, 1>>}
    OBVIOUS
  <2>1. Seen[l].vram_mb = 1
    BY <1>1 DEF Seen
  <2>2. 1 .. 1 = {1}
    OBVIOUS
  <2> QED BY <2>1, <2>2
<1>4. U = {} \/ \E x : U = {x}
  <2>1. CASE H = {}
    BY <2>1
  <2>2. CASE H # {}
    <3>1. PICK l : l \in H
      BY <2>2
    <3> HIDE DEF H
    <3>2. U = {<<l, 1>>}
      BY <1>2, <1>3, <3>1
    <3> QED BY <3>2
  <2> QED BY <2>1, <2>2
<1>5. Promised!MegabytesHeld(next, Seen) = Cardinality(U)
  <2>1. ASSUME NEW S PROVE Promised!Cardinality(S) = Cardinality(S)
    BY DEF Promised!Cardinality, Cardinality
  <2> QED BY <2>1 DEF Promised!MegabytesHeld
<1> HIDE DEF U
<1>6. Cardinality(U) \in {0, 1}
  BY <1>4, FS_EmptySet, FS_Singleton
<1> QED BY <1>5, <1>6

\* A step of the composition is a step of the allocator.
LEMMA StepRefines ==
  ASSUME IInv, [Next]_vars
  PROVE  [Promised!Step]_<<next, Seen>>
<1>1. LeasesGo /\ BrokerInv /\ BrokerInv'
  BY NextGoes, StepHolds DEF IInv
<1>2. next \in Nat /\ next' \in {next, next + 1} /\ leases \in [1 .. next -> Lease]
      /\ leases' \in [1 .. next' -> Lease]
  BY <1>1, GpuLeaseClientAssumption DEF LeasesGo, BrokerInv, TypeOK
<1>3. \A l \in 1 .. next : Seen[l] = [vram_mb |-> 1,
        preemptible |-> leases[l].owner \in Preemptible,
        state |-> leases[l].state, directive |-> leases[l].directive]
  BY DEF Seen
<1>4. \A l \in 1 .. next' : Seen'[l] = [vram_mb |-> 1,
        preemptible |-> leases'[l].owner \in Preemptible,
        state |-> leases'[l].state, directive |-> leases'[l].directive]
  BY DEF Seen
<1>5. Seen' \in [1 .. next' -> Promised!ALease]
  <2> SUFFICES ASSUME NEW l \in 1 .. next' PROVE Seen'[l] \in Promised!ALease
    BY DEF Seen
  <2>1. leases'[l] \in Lease
    BY <1>2
  <2> DEFINE p == leases'[l].owner \in Preemptible
  <2>2. p \in BOOLEAN
    OBVIOUS
  <2>3. Seen'[l] = [vram_mb |-> 1, preemptible |-> p, state |-> leases'[l].state,
                    directive |-> leases'[l].directive]
    BY <1>4
  <2> HIDE DEF p
  <2> QED BY <2>1, <2>2, <2>3 DEF Promised!ALease, Lease
<1>6. ASSUME NEW l \in 1 .. next PROVE Promised!Follows(Seen[l], Seen'[l])
  <2>1. l \in 1 .. next' /\ leases[l] \in Lease /\ leases'[l] \in Lease
    BY <1>2
  <2>2. /\ leases'[l].owner = leases[l].owner
        /\ leases[l].state = "granted" => leases'[l].state # "queued"
        /\ leases[l].state = "ended" => leases'[l].state = "ended"
        /\ leases'[l].state = "granted" =>
             /\ leases[l].state = "granted" /\ leases[l].directive # "continue"
                  => leases'[l].directive # "continue"
             /\ leases[l].state = "queued" => leases'[l].directive # "cancel"
    BY <1>1 DEF LeasesGo
  <2>3. /\ leases'[l].state = "queued" => leases'[l].directive = "continue"
        /\ leases'[l].state = "granted" /\ leases'[l].directive = "yield"
             => leases'[l].owner \in Preemptible
    BY <1>1, <2>1 DEF BrokerInv, BrokerSound, OnlyPreemptibleYield
  <2> DEFINE p == leases[l].owner \in Preemptible
  <2>4. p \in BOOLEAN
    OBVIOUS
  <2>5. /\ Seen[l] = [vram_mb |-> 1, preemptible |-> p, state |-> leases[l].state,
                      directive |-> leases[l].directive]
        /\ Seen'[l] = [vram_mb |-> 1, preemptible |-> p, state |-> leases'[l].state,
                       directive |-> leases'[l].directive]
    BY <1>3, <1>4, <2>1, <2>2
  <2>6. leases'[l].state = "granted" /\ leases'[l].directive = "yield" => p
    BY <2>2, <2>3
  <2> HIDE DEF p
  <2> QED BY <2>1, <2>2, <2>3, <2>4, <2>5, <2>6 DEF Promised!Follows, Lease
<1>7. ASSUME NEW l \in next + 1 .. next' PROVE Promised!Born(Seen'[l])
  <2>1. l \in 1 .. next'
    BY <1>2
  <2>2. leases'[l].directive = "continue"
    BY <1>1 DEF LeasesGo
  <2> DEFINE p == leases'[l].owner \in Preemptible
  <2>3. Seen'[l] = [vram_mb |-> 1, preemptible |-> p, state |-> leases'[l].state,
                    directive |-> leases'[l].directive]
    BY <1>4, <2>1
  <2> HIDE DEF p
  <2> QED BY <2>2, <2>3 DEF Promised!Born
<1>8. Promised!MegabytesHeld(next', Seen') <= 1
  <2>1. BrokerInv => Promised!MegabytesHeld(next, Seen) <= 1
    BY SeenFits
  <2>2. (BrokerInv => Promised!MegabytesHeld(next, Seen) <= 1)'
    BY SeenFits, PTL
  <2> QED BY <1>1, <2>2
<1>9. Promised!Step
  BY <1>2, <1>5, <1>6, <1>7, <1>8 DEF Promised!Step, Seen
<1> QED BY <1>9

\* The cut-down broker implements the allocator, whoever asks, dies, is late or forgotten,
\* and however often it restarts.
THEOREM Implements == Spec => BrokerKeepsItsPromise
<1>1. Init => Promised!Init
  BY DEF Init, Promised!Init
<1>2. IInv /\ [Next]_vars => [Promised!Step]_<<next, Seen>>
  BY StepRefines
<1>3. Spec => Promised!Spec
  BY <1>1, <1>2, Always, PTL DEF Spec, Promised!Spec, Seen
<1> QED BY <1>3 DEF BrokerKeepsItsPromise

=============================================================================
