----------------------------- MODULE GpuBroker -----------------------------
(***************************************************************************)
(* The GPU broker of void-stack-gpu: one graphics card, many programs that *)
(* want it.  A client asks for a lease of some VRAM, waits in a queue, is  *)
(* granted the lease when it fits, may be told to yield, and releases it.  *)
(*                                                                         *)
(* The Rust core (broker.rs) is pure: a struct Broker behind one mutex and *)
(* methods on it.  So here the state is one record, `broker`, with the     *)
(* fields of the struct; a method that changes the struct is an operator   *)
(* from records to records with the name of the method; and an action is a *)
(* whole handler of server.rs: lock, call the methods, unlock.             *)
(*                                                                         *)
(* Time.  The code compares a clock with the last sign of life of a lease  *)
(* and with the moment a resident was asked to free its cache, both against*)
(* 60 s.  Here each carries a flag, raised by an action of its own, that   *)
(* says the 60 s have gone by.  Arrival and grant times are ranks.         *)
(***************************************************************************)
EXTENDS Integers, Sequences, FiniteSets

CONSTANTS
  Job,              \* the requests clients make, see JobType
  MaxLeases,        \* bound: leases requested in a behaviour
  Served,           \* leases the idle broker had already handed out before it
  RequestGaps,      \* milliseconds between a request and the one before (0, 1)
  ConfigTotal,      \* total_mb before a reading of NVML (Limits::default)
  CardTotal,        \* total_mb as NVML reports it
  Baseline,         \* baseline_mb: what the desktop uses
  ResidentBackend,  \* <<backend of the first configured resident, ...>>
  RESIDENT_MIN_MB,  \* a cache smaller than this is not worth asking for
  App,              \* programs that mean "the user is using the GPU"
  Sampled,          \* what one turn of the sampler can bring, see SampleType
  UserOps,          \* the buttons of La Oficina pressed in this instance
  NewPriorities     \* the priorities the user chooses

Critical == 0
Normal == 1
Low == 2
Opportunistic == 3
Priority == Critical .. Opportunistic

Backend == {"none", "ollama", "comfyui", "whisper"}
Resident == 1 .. Len(ResidentBackend)
Operation == {"hold", "resume", "priority", "cancel", "training", "queue",
              "unload", "free"}

\* who is the owner and the task together: the key the user pauses.  The priority
\* is the one acquire settled on: that of gpu.toml if it names the owner.
JobType == [who : STRING, vram_mb : Nat, priority : Priority,
            preemptible : BOOLEAN, backend : Backend]

\* reading is FALSE when NVML gave nothing; used_mb and apps then mean nothing.
SampleType == [ollama_mb : Nat, seen : [Resident -> [present : BOOLEAN, busy : BOOLEAN]],
               reading : BOOLEAN, used_mb : Nat, apps : SUBSET App]

ASSUME GpuBrokerAssumption ==
  /\ Job \subseteq JobType
  /\ MaxLeases \in Nat /\ Served \in Nat /\ Served + MaxLeases < 100
  /\ RequestGaps \subseteq {0, 1}
  /\ ConfigTotal \in Nat /\ CardTotal \in Nat /\ Baseline \in Nat
  /\ ResidentBackend \in Seq(Backend)
  /\ RESIDENT_MIN_MB \in Nat \ {0}
  /\ Sampled \subseteq SampleType
  /\ UserOps \subseteq Operation /\ NewPriorities \subseteq Priority

VARIABLE broker

-----------------------------------------------------------------------------
(* The state. *)

Lease == [job : Job, priority : Priority,
          state : {"queued", "granted", "ended"},
          directive : {"continue", "yield", "cancel"},
          outcome : {"none", "released", "yielded", "expired", "cancelled"},
          held : BOOLEAN,
          requested_at : Nat,   \* rank of the millisecond of the request
          granted_at : Nat,     \* rank of the pass that granted it, 0 before
          overdue : BOOLEAN]    \* no sign of life for longer than the timeout

ResidentState == [present : BOOLEAN, busy : BOOLEAN, freeing : BOOLEAN,
                  floor_mb : Nat, freeing_from : Nat, late : BOOLEAN]

Nobody == 0
UnloadOllama == 0
Effect == {UnloadOllama} \cup Resident

\* A broker that has handed out n leases.
Broker(n) ==
  [next : {n},
   leases : [1 .. n -> Lease],
   total_mb : Nat,
   queue_paused : BOOLEAN,
   training : BOOLEAN,
   interactive : SUBSET App,
   held : SUBSET {j.who : j \in Job},
   measured_used_mb : Nat,      \* 0 also stands for no reading yet
   ollama : [loaded_mb : Nat, unloading : BOOLEAN],
   residents : [Resident -> ResidentState],
   reserved_for : 0 .. n,
   effects : SUBSET Effect]

BrokerOK(b) == b.next \in Nat /\ b \in Broker(b.next)

TypeOK == BrokerOK(broker)

Init ==
  broker = [next |-> 0, leases |-> [i \in 1 .. 0 |-> 0],
            total_mb |-> ConfigTotal,
            queue_paused |-> FALSE, training |-> FALSE, interactive |-> {},
            held |-> {}, measured_used_mb |-> 0,
            ollama |-> [loaded_mb |-> 0, unloading |-> FALSE],
            residents |-> [r \in Resident |->
                             [present |-> FALSE, busy |-> FALSE, freeing |-> FALSE,
                              floor_mb |-> 0, freeing_from |-> 0, late |-> FALSE]],
            reserved_for |-> Nobody, effects |-> {}]

-----------------------------------------------------------------------------
(* Accounting. *)

\* Mutant of Monus: a subtraction that does not saturate.
PlainDifference(m, n) == m - n

Monus(m, n) == IF m > n THEN m - n ELSE 0

InState(b, s) == {i \in 1 .. b.next : b.leases[i].state = s}
Queued(b) == InState(b, "queued")
Granted(b) == InState(b, "granted")
Active(b) == Queued(b) \cup Granted(b)

\* The sum of vram_mb over the leases of S, as the number of megabytes leased.
Megabytes(b, S) ==
  Cardinality(UNION {{i} \X (1 .. b.leases[i].job.vram_mb) : i \in S})

BackendInUse(b, backend) == \E i \in Granted(b) : b.leases[i].job.backend = backend
OllamaInUse(b) == BackendInUse(b, "ollama")

AccountedMb(b) ==
  Megabytes(b, Granted(b)) + (IF OllamaInUse(b) THEN 0 ELSE b.ollama.loaded_mb)

UnexplainedMb(b) == Monus(b.measured_used_mb, Baseline + AccountedMb(b))

\* Mutant of FreeMb: the desktop is forgotten.
FreeWithoutDesktop(b) == Monus(b.total_mb, AccountedMb(b) + UnexplainedMb(b))

FreeMb(b) == Monus(b.total_mb, Baseline + AccountedMb(b) + UnexplainedMb(b))

ReservedForCritical(b) == b.training \/ b.interactive # {}

IdleResidents(b) ==
  {r \in Resident : b.residents[r].present /\ ~BackendInUse(b, ResidentBackend[r])}
FirstIdle(b) == CHOOSE r \in IdleResidents(b) : \A s \in IdleResidents(b) : r <= s
ResidentCacheMb(b) == IF IdleResidents(b) = {} THEN 0 ELSE UnexplainedMb(b)

-----------------------------------------------------------------------------
(* Making room. *)

PushFree(b, r, cache) ==
  [b EXCEPT !.residents[r] = [@ EXCEPT !.freeing = TRUE, !.freeing_from = cache,
                                       !.late = FALSE],
            !.effects = @ \cup {r}]

\* What the idle resident is expected to give back, 0 when it is not asked.
Reclaimable(b) ==
  IF IdleResidents(b) = {} \/ b.residents[FirstIdle(b)].busy THEN 0
  ELSE LET spare == Monus(ResidentCacheMb(b), b.residents[FirstIdle(b)].floor_mb)
       IN  IF spare < RESIDENT_MIN_MB THEN 0 ELSE spare

\* Mutant of FreeIdleResident: the flag that it was asked is not read.
FreeEveryTime(b) ==
  IF Reclaimable(b) = 0 THEN b ELSE PushFree(b, FirstIdle(b), ResidentCacheMb(b))

FreeIdleResident(b) ==
  IF Reclaimable(b) = 0 \/ b.residents[FirstIdle(b)].freeing THEN b
  ELSE PushFree(b, FirstIdle(b), ResidentCacheMb(b))

UnloadsOllama(b) == [b EXCEPT !.ollama.unloading = TRUE, !.effects = @ \cup {UnloadOllama}]

\* Mutant of IdleOllamaMb: the lease that works on Ollama is not looked for.
LoadedMb(b) == b.ollama.loaded_mb

IdleOllamaMb(b) == IF OllamaInUse(b) THEN 0 ELSE b.ollama.loaded_mb

TellToYield(b, S) ==
  [b EXCEPT !.leases = [i \in 1 .. b.next |->
       IF i \in S THEN [b.leases[i] EXCEPT !.directive = "yield"] ELSE b.leases[i]]]

\* Mutant of Preemptible: whether the lease was already told to stop is not looked at.
CanYield(b, i) == b.leases[i].job.preemptible

\* Mutant of Preemptible: whether the client can yield is not looked at.
NotYetTold(b, i) == b.leases[i].directive = "continue"

Preemptible(b, i) ==
  /\ b.leases[i].job.preemptible
  /\ b.leases[i].directive = "continue"

\* Victims of lower priority go first; among equals, the last one granted.
YieldsBefore(b, v, w) ==
  LET lv == b.leases[v]
      lw == b.leases[w]
  IN  \/ lv.priority > lw.priority
      \/ lv.priority = lw.priority /\ lv.granted_at > lw.granted_at
      \/ lv.priority = lw.priority /\ lv.granted_at = lw.granted_at /\ v < w

\* Room for lease i: what Ollama and the idle resident give back, then as many
\* victims as are needed to reach what is missing.
ForFreeMb(b, i) ==
  IF b.leases[i].priority < Opportunistic THEN IdleOllamaMb(b) + Reclaimable(b) ELSE 0
Victims(b, i) ==
  {v \in Granted(b) : Preemptible(b, v) /\ b.leases[v].priority > b.leases[i].priority}
Asked(b, i) ==
  {v \in Victims(b, i) :
     ForFreeMb(b, i) + Megabytes(b, {w \in Victims(b, i) : YieldsBefore(b, w, v)})
       < Monus(b.leases[i].job.vram_mb, FreeMb(b))}

MakeRoom(b, i) ==
  LET opportunist == b.leases[i].priority = Opportunistic
      unloaded == IF opportunist \/ IdleOllamaMb(b) = 0 \/ b.ollama.unloading
                  THEN b ELSE UnloadsOllama(b)
      freed == IF opportunist THEN unloaded ELSE FreeIdleResident(unloaded)
  IN  TellToYield(freed, Asked(b, i))

-----------------------------------------------------------------------------
(* The scheduler. *)

\* The order of the strings "<boot>-<n>", for n below 100.
IdRank(i) ==
  LET n == Served + i IN IF n < 10 THEN 11 * n ELSE n + n \div 10 + 1

Before(b, i, j) ==
  LET li == b.leases[i]
      lj == b.leases[j]
  IN  \/ li.priority < lj.priority
      \/ li.priority = lj.priority /\ li.requested_at < lj.requested_at
      \/ /\ li.priority = lj.priority /\ li.requested_at = lj.requested_at
         /\ IdRank(i) < IdRank(j)

\* Mutant of First: the queue sorted the other way round.
LastOf(b, S) == CHOOSE i \in S : \A j \in S : ~Before(b, i, j)

First(b, S) == CHOOSE i \in S : \A j \in S : ~Before(b, j, i)

\* A rank for this pass, later than that of every pass that granted before.
Now(b) == 1 + Cardinality({i \in 1 .. b.next : b.leases[i].granted_at > 0})

Grant(b, i, now) ==
  [b EXCEPT !.leases[i] = [@ EXCEPT !.state = "granted", !.granted_at = now,
                                    !.directive = "continue", !.overdue = FALSE],
            !.reserved_for = IF @ = i THEN Nobody ELSE @]

Blocked(b, i) ==
  b.leases[i].held \/ (ReservedForCritical(b) /\ b.leases[i].priority # Critical)

\* Mutant of KeptMb: no reservation.
NothingKept(b, i) == 0

\* Memory kept for the lease others are making room for, when it is not i.
KeptMb(b, i) ==
  IF b.reserved_for \in Active(b) \ {i} THEN b.leases[b.reserved_for].job.vram_mb ELSE 0

Fits(b, i) == b.leases[i].job.vram_mb + KeptMb(b, i) <= FreeMb(b)

Visit(b, i, now) ==
  IF Blocked(b, i) THEN b
  ELSE IF Fits(b, i) THEN Grant(b, i, now)
  ELSE IF b.reserved_for = Nobody /\ (ForFreeMb(b, i) > 0 \/ Asked(b, i) # {})
       THEN [MakeRoom(b, i) EXCEPT !.reserved_for = i]
  ELSE b

\* Mutant of DropStaleReservation: the reservation outlives the lease it is for.
KeepReservation(b) == b

DropStaleReservation(b) ==
  IF b.reserved_for \in Queued(b) THEN b ELSE [b EXCEPT !.reserved_for = Nobody]

\* One turn of a pass: the first of the leases that are left is visited.
Turn(p, now) ==
  IF p.left = {} THEN p
  ELSE LET i == First(p.broker, p.left)
       IN  [broker |-> Visit(p.broker, i, now), left |-> p.left \ {i}]

\* Every queued lease is visited once.
Schedule(b) ==
  LET pass[n \in 0 .. b.next] ==
        IF n = 0 THEN [broker |-> DropStaleReservation(b), left |-> Queued(b)]
        ELSE Turn(pass[n - 1], Now(b))
  IN  IF b.queue_paused THEN b ELSE pass[b.next].broker

-----------------------------------------------------------------------------
(* What a client calls. *)

\* Mutant of NewLease: a request forgets that its owner and task are paused.
NewLeaseNotHeld(b, job, gap) ==
  [job |-> job, priority |-> job.priority, state |-> "queued",
   directive |-> "continue", outcome |-> "none", held |-> FALSE,
   requested_at |-> gap + (IF b.next = 0 THEN 0 ELSE b.leases[b.next].requested_at),
   granted_at |-> 0, overdue |-> FALSE]

NewLease(b, job, gap) ==
  [job |-> job, priority |-> job.priority, state |-> "queued",
   directive |-> "continue", outcome |-> "none", held |-> job.who \in b.held,
   requested_at |-> gap + (IF b.next = 0 THEN 0 ELSE b.leases[b.next].requested_at),
   granted_at |-> 0, overdue |-> FALSE]

Enqueue(b, job, gap) ==
  [b EXCEPT !.next = @ + 1,
            !.leases = [i \in 1 .. b.next + 1 |->
                          IF i = b.next + 1 THEN NewLease(b, job, gap) ELSE b.leases[i]]]

Acquire(job, gap) ==
  /\ broker.next < MaxLeases
  /\ broker' = Schedule(Enqueue(broker, job, gap))

Touch(b, i) == [b EXCEPT !.leases[i].overdue = FALSE]

Poll(i) == i \in Active(broker) /\ broker' = Touch(broker, i)

Heartbeat(i) == i \in Active(broker) /\ broker' = Touch(broker, i)

YieldPoint(i) == i \in Active(broker) /\ broker' = Touch(broker, i)

\* The leases of S leave; of its entry in the history each keeps the outcome.
End(b, S, outcome) ==
  [b EXCEPT !.leases = [i \in 1 .. b.next |->
       IF i \in S
       THEN [b.leases[i] EXCEPT !.state = "ended", !.outcome = outcome,
                                !.priority = b.leases[i].job.priority, !.directive = "continue",
                                !.held = FALSE, !.overdue = FALSE]
       ELSE b.leases[i]]]

OutcomeOf(directive) ==
  CASE directive = "yield" -> "yielded"
    [] directive = "cancel" -> "cancelled"
    [] directive = "continue" -> "released"

Release(i) ==
  /\ i \in Active(broker)
  /\ broker' = Schedule(End(broker, {i}, OutcomeOf(broker.leases[i].directive)))

-----------------------------------------------------------------------------
(* What the user does from La Oficina. *)

\* A granted lease that cannot yield is refused (NotPreemptible).
Hold(i) ==
  /\ "hold" \in UserOps /\ i \in Active(broker)
  /\ broker.leases[i].job.preemptible \/ i \in Queued(broker)
  /\ broker' = Schedule(
       [broker EXCEPT
          !.held = @ \cup {broker.leases[i].job.who},
          !.leases[i] = [@ EXCEPT !.held = TRUE,
                                  !.directive = IF i \in Granted(broker) THEN "yield"
                                                ELSE broker.leases[i].directive]])

Resume(i) ==
  /\ "resume" \in UserOps /\ i \in Active(broker)
  /\ broker' = Schedule([broker EXCEPT !.held = @ \ {broker.leases[i].job.who},
                                       !.leases[i].held = FALSE])

\* Mutant of SetPriority: the lease goes back to the queue with its new priority.
Requeue(i, priority) ==
  /\ "priority" \in UserOps /\ i \in Active(broker)
  /\ broker' = Schedule([broker EXCEPT !.leases[i] = [@ EXCEPT !.priority = priority,
                                                             !.state = "queued"]])

SetPriority(i, priority) ==
  /\ "priority" \in UserOps /\ i \in Active(broker)
  /\ broker' = Schedule([broker EXCEPT !.leases[i].priority = priority])

Cancel(i) ==
  /\ "cancel" \in UserOps /\ i \in Active(broker)
  /\ broker' = Schedule(IF i \in Queued(broker)
                        THEN End(broker, {i}, "cancelled")
                        ELSE [broker EXCEPT !.leases[i].directive = "cancel"])

\* Mutant of ClearForCritical: everyone who can is told to yield.
ClearForNobody(b) ==
  LET asked == TellToYield(b, {i \in Granted(b) : Preemptible(b, i)})
  IN  FreeIdleResident(IF IdleOllamaMb(b) > 0 THEN UnloadsOllama(asked) ELSE asked)

\* The GPU is for what is critical: the rest yields, and what is idle is unloaded.
ClearForCritical(b) ==
  LET asked == TellToYield(b, {i \in Granted(b) : Preemptible(b, i)
                                                  /\ b.leases[i].priority # Critical})
  IN  FreeIdleResident(IF IdleOllamaMb(b) > 0 THEN UnloadsOllama(asked) ELSE asked)

\* Mutant of SetTraining: the mode ends and nobody is let in.
SetTrainingOnly(on) ==
  /\ "training" \in UserOps
  /\ LET b == [broker EXCEPT !.training = on]
     IN  broker' = IF on /\ ~ReservedForCritical(broker) THEN ClearForCritical(b) ELSE b

SetTraining(on) ==
  /\ "training" \in UserOps
  /\ LET b == [broker EXCEPT !.training = on]
     IN  broker' = Schedule(IF on /\ ~ReservedForCritical(broker)
                            THEN ClearForCritical(b) ELSE b)

SetQueuePaused(paused) ==
  /\ "queue" \in UserOps
  /\ broker' = Schedule([broker EXCEPT !.queue_paused = paused])

RequestOllamaUnload ==
  /\ "unload" \in UserOps /\ ~OllamaInUse(broker)
  /\ broker' = Schedule(UnloadsOllama(broker))

RequestResidentFree(r) ==
  /\ "free" \in UserOps
  /\ broker.residents[r].present /\ ~broker.residents[r].busy
  /\ ~BackendInUse(broker, ResidentBackend[r])
  /\ broker' = Schedule(PushFree(broker, r, ResidentCacheMb(broker)))

-----------------------------------------------------------------------------
(* What the sampler brings: one turn applies all of it under one lock. *)

SetOllama(b, mb) ==
  LET c == [b EXCEPT !.ollama = [loaded_mb |-> mb, unloading |-> mb > 0 /\ @.unloading]]
  IN  Schedule(IF ReservedForCritical(c) /\ IdleOllamaMb(c) > 0 /\ ~c.ollama.unloading
               THEN UnloadsOllama(c) ELSE c)

SetResidents(b, seen) ==
  LET c == [b EXCEPT !.residents = [r \in Resident |->
              [b.residents[r] EXCEPT !.present = seen[r].present, !.busy = seen[r].busy,
                                     !.freeing = seen[r].present /\ @]]]
  IN  Schedule(IF ReservedForCritical(c) THEN FreeIdleResident(c) ELSE c)

\* A resident has let go when its cache fell to half; after 60 s it may be asked again.
Confirm(state, cache) ==
  CASE ~state.freeing -> state
    [] state.freeing /\ cache <= state.freeing_from \div 2 ->
         [state EXCEPT !.freeing = FALSE, !.floor_mb = cache]
    [] OTHER -> [state EXCEPT !.freeing = ~state.late]

SetMeasured(b, used) ==
  LET c == [b EXCEPT !.measured_used_mb = used,
                     !.total_mb = IF CardTotal > 0 THEN CardTotal ELSE @]
  IN  Schedule([c EXCEPT !.residents = [r \in Resident |->
                           Confirm(c.residents[r], ResidentCacheMb(c))]])

SetInteractive(b, apps) ==
  LET c == [b EXCEPT !.interactive = apps]
  IN  IF apps = b.interactive THEN b
      ELSE Schedule(IF ~ReservedForCritical(b) /\ ReservedForCritical(c)
                    THEN ClearForCritical(c) ELSE c)

Tick(b) == Schedule(End(b, {i \in Active(b) : b.leases[i].overdue}, "expired"))

Sample(s) ==
  LET seen == SetResidents(SetOllama(broker, s.ollama_mb), s.seen)
  IN  broker' = Tick(IF s.reading
                     THEN SetInteractive(SetMeasured(seen, s.used_mb), s.apps)
                     ELSE seen)

\* settle: the effects are taken out under the lock, to be carried out later.
Settle == broker.effects # {} /\ broker' = [broker EXCEPT !.effects = {}]

-----------------------------------------------------------------------------
(* Time. *)

\* The client of lease i gives no sign of life for longer than the timeout.
GoQuiet(i) ==
  /\ i \in Active(broker) /\ ~broker.leases[i].overdue
  /\ broker' = [broker EXCEPT !.leases[i].overdue = TRUE]

\* A minute goes by since resident r was asked to free its cache.
FreeingGoesLate(r) ==
  /\ broker.residents[r].freeing /\ ~broker.residents[r].late
  /\ broker' = [broker EXCEPT !.residents[r].late = TRUE]

Client ==
  \/ \E job \in Job, gap \in RequestGaps : Acquire(job, gap)
  \/ \E i \in 1 .. broker.next :
       Poll(i) \/ Heartbeat(i) \/ YieldPoint(i) \/ Release(i) \/ GoQuiet(i)

User ==
  \/ \E i \in 1 .. broker.next :
       \/ Hold(i) \/ Resume(i) \/ Cancel(i)
       \/ \E priority \in NewPriorities : SetPriority(i, priority)
  \/ \E on \in BOOLEAN : SetTraining(on) \/ SetQueuePaused(on)
  \/ RequestOllamaUnload
  \/ \E r \in Resident : RequestResidentFree(r)

Server ==
  \/ \E s \in Sampled : Sample(s)
  \/ Settle
  \/ \E r \in Resident : FreeingGoesLate(r)

Next == Client \/ User \/ Server

Spec == Init /\ [][Next]_broker

\* The client of lease i is alive, and is told to stop or cannot be interrupted.
WillStop(i) ==
  /\ i \in Granted(broker) /\ ~broker.leases[i].overdue
  /\ broker.leases[i].directive = "continue" => ~broker.leases[i].job.preemptible

\* Fairness, said of states.  The sampler loop never ends, so no lease stays overdue
\* (weak fairness of Sample).  A client that is heard from again and again stops at
\* a safe point when it is told to, and work that nobody can interrupt comes to its
\* end (strong fairness of Release, which a lease takes once).
Fairness ==
  /\ \A i \in 1 .. MaxLeases : []<>(i \in Active(broker) => ~broker.leases[i].overdue)
  /\ \A i \in 1 .. MaxLeases : <>[]~WillStop(i)

FairSpec == Spec /\ Fairness

-----------------------------------------------------------------------------
(* Safety. *)

Capacity == IF ConfigTotal > CardTotal THEN ConfigTotal ELSE CardTotal

\* The leases the broker has granted and not seen end fit, together and next to
\* the desktop, in the card, whatever made it grant them: a release, an expiry,
\* a change of priority or mode, a turn of the sampler (schedule, grant, end).
NoOvercommit ==
  Megabytes(broker, Granted(broker)) > 0 =>
    Baseline + Megabytes(broker, Granted(broker)) <= Capacity

\* Nobody is told to yield who did not say it can: not to make room, not for
\* training or a game, not by the pause button (make_room, clear_for_critical, hold).
OnlyPreemptibleYield ==
  \A i \in Granted(broker) :
    broker.leases[i].directive = "yield" => broker.leases[i].job.preemptible

\* No lease waits for memory that is there: whoever is first to leave room, change
\* a mode or bring a reading has run the scheduler.  Memory that a grant explains
\* (Ollama's, or what nobody explained before) stops being counted in the middle
\* of a pass, and who was visited before waits for the next one (schedule).
NoIdleMemory ==
  \A i \in Queued(broker) :
    \/ broker.queue_paused \/ Blocked(broker, i) \/ ~Fits(broker, i)
    \/ OllamaInUse(broker) \/ broker.measured_used_mb > Baseline

\* Within a step nothing tells the broker that what it counts has changed: no new
\* reading, and no lease ends that explained what Ollama has loaded.
NoNewsOfMemory ==
  /\ broker'.measured_used_mb = broker.measured_used_mb
  /\ broker'.total_mb = broker.total_mb
  /\ broker'.ollama.loaded_mb = broker.ollama.loaded_mb
  /\ OllamaInUse(broker) => OllamaInUse(broker')

\* The memory being freed for a lease is for it: unless the same step brings news of
\* the memory, what others are granted leaves its whole need free (the reservation
\* of schedule).
RoomStaysReserved ==
  [][\A i \in Granted(broker') \ Granted(broker) :
       LET r == broker.reserved_for
       IN  r \notin {Nobody, i} /\ broker'.reserved_for = r /\ NoNewsOfMemory
             => broker'.leases[r].job.vram_mb <= FreeMb(broker')]_broker

\* The queue goes by priority, then arrival: one is granted ahead of an earlier one
\* only if that one asks for more, or if it had the reservation.  Memory that a grant
\* explains, as above, comes too late for who was visited before; and of the passes of
\* one turn of the sampler a later one may see memory, or who may have it, with news
\* that an earlier one did not have (schedule, the sampler loop).
NoQueueJump ==
  [][\A i \in Granted(broker') \ Granted(broker), h \in Queued(broker) \cap Queued(broker') :
       \/ ~Before(broker', h, i) \/ Blocked(broker', h)
       \/ broker.reserved_for = i
       \/ broker'.leases[h].job.vram_mb > broker'.leases[i].job.vram_mb
       \/ OllamaInUse(broker') \/ broker'.measured_used_mb > Baseline
       \/ ~NoNewsOfMemory \/ broker'.interactive # broker.interactive]_broker

\* What is critical is never interrupted to make room, nor by a mode: only the
\* pause button, which also holds it, tells it to yield (make_room, clear_for_critical).
CriticalNotInterrupted ==
  [][\A i \in Granted(broker) \cap Granted(broker') :
       /\ broker'.leases[i].priority = Critical
       /\ broker.leases[i].directive = "continue"
       /\ broker'.leases[i].directive = "yield"
       => broker'.leases[i].held]_broker

\* While the user pauses the queue, a lease, or everything that is not critical,
\* nothing of what is paused gets in by whatever path, not even as a new request
\* of the owner and task that were paused (schedule, acquire).
NothingPastTheUser ==
  [][\A i \in Granted(broker') \ Granted(broker) :
       /\ ~broker'.queue_paused
       /\ ~broker'.leases[i].held
       /\ i > broker.next => broker'.leases[i].job.who \notin broker.held
       /\ broker.training /\ broker'.training => broker'.leases[i].priority = Critical]_broker

\* Nobody asks Ollama or a resident to let go of its models while one lease works
\* on them from before to after: not to make room, not for a mode, not by a button
\* (make_room, clear_for_critical, set_ollama, request_resident_free).
LeasedEngineNotAsked ==
  [][\A i \in Granted(broker) \cap Granted(broker'), e \in broker'.effects \ broker.effects :
       broker.leases[i].job.backend
         # (IF e = UnloadOllama THEN "ollama" ELSE ResidentBackend[e])]_broker

\* A turn of the sampler that shows a resident at half of what it held when asked: the
\* reading comes after the passes for Ollama and the residents.
Answered(r) ==
  \E s \in Sampled :
    LET seen == SetResidents(SetOllama(broker, s.ollama_mb), s.seen)
    IN  /\ s.reading /\ Sample(s)
        /\ ResidentCacheMb([seen EXCEPT !.measured_used_mb = s.used_mb])
             <= broker.residents[r].freeing_from \div 2

\* What was asked to let go is not asked again at every turn of the scheduler, only
\* by the user, when a mode begins, or once it has answered or had its minute
\* (the flags unloading and freeing).
NotAskedAgain ==
  [][\/ \A e \in broker'.effects \ broker.effects :
          IF e = UnloadOllama THEN ~broker.ollama.unloading
          ELSE ~broker.residents[e].freeing \/ broker.residents[e].late \/ Answered(e)
     \/ ~ReservedForCritical(broker) /\ ReservedForCritical(broker')
     \/ RequestOllamaUnload \/ \E r \in Resident : RequestResidentFree(r)
    ]_broker

\* Who was told to cancel is not told something milder by the scheduler: only the
\* pause button overwrites it (make_room, clear_for_critical, hold).
CancelStands ==
  [][\A i \in Granted(broker) \cap Granted(broker') :
       broker.leases[i].directive = "cancel" /\ ~broker'.leases[i].held
         => broker'.leases[i].directive = "cancel"]_broker

\* What a client sees of a lease, and the promise: the broker, whatever its queue,
\* modes and engines make it do in a step, keeps what a client may count on
\* (acquire, release, schedule, tick and every directive).
SeenByClient ==
  [i \in 1 .. broker.next |->
     [vram_mb |-> broker.leases[i].job.vram_mb,
      preemptible |-> broker.leases[i].job.preemptible,
      state |-> broker.leases[i].state,
      directive |-> broker.leases[i].directive]]
Promised == INSTANCE VramAllocator
              WITH Room <- Monus(Capacity, Baseline), next <- broker.next,
                   lease <- SeenByClient
KeepsItsPromise == Promised!Spec

-----------------------------------------------------------------------------
(* Liveness. *)

\* A critical lease gets in, whatever works for others without being interrupted:
\* room is asked for, the one who is asked stops, and its going is noticed.
CriticalGetsIn ==
  \A i \in 1 .. MaxLeases :
    (i \in Queued(broker) /\ broker.leases[i].priority = Critical) ~> (i \notin Queued(broker))

-----------------------------------------------------------------------------
(* What the documentation says and the code does not do. *)

\* "extra" is not free (broker.rs, header): what one step grants, when it ends
\* nothing and reads nothing, fits in what was free before it.
GrantsFitWhatIsFree ==
  [][/\ Granted(broker) \subseteq Granted(broker')
     /\ broker'.measured_used_mb = broker.measured_used_mb
     /\ broker'.total_mb = broker.total_mb
     /\ broker'.ollama = broker.ollama
     => Megabytes(broker', Granted(broker') \ Granted(broker)) <= FreeMb(broker)]_broker

\* The reservation is there against priority inversion (schedule): it does not keep
\* out a critical lease that fits in what is free.
ReservationWithoutInversion ==
  \A i \in Queued(broker) :
    LET l == broker.leases[i]
        r == broker.reserved_for
    IN  /\ ~broker.queue_paused /\ ~Blocked(broker, i)
        /\ l.priority = Critical /\ l.job.vram_mb <= FreeMb(broker)
        => r = Nobody \/ broker.leases[r].priority = Critical

\* "To pause is to hold that work, not an id" (field held): while the user has an
\* owner and task paused, no lease of theirs is granted.
PauseHoldsTheWork ==
  [][\A i \in Granted(broker') \ Granted(broker) :
       broker'.leases[i].job.who \notin broker.held \cap broker'.held]_broker
=============================================================================
