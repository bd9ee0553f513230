------------------------ MODULE GpuSchedulerProofs ------------------------
(***************************************************************************)
(* What a pass of the scheduler leaves behind: nobody waits for memory     *)
(* that is there, the memory that is being freed for one lease is not      *)
(* given to another, nobody is asked twice, and the queue is kept.  For    *)
(* every set of jobs, card and history, as in GpuBrokerProofs.             *)
(***************************************************************************)
EXTENDS GpuBrokerProofs

-----------------------------------------------------------------------------
(* What a pass leaves alone. *)

\* The part of the account that only readings and requests change.
SameAccount(b, c) ==
  /\ c.next = b.next /\ c.total_mb = b.total_mb
  /\ c.measured_used_mb = b.measured_used_mb
  /\ c.ollama.loaded_mb = b.ollama.loaded_mb
  /\ \A i \in 1 .. b.next : c.leases[i].job = b.leases[i].job

\* A pass grants what waits, and changes nothing else of a lease that the queue is
\* ordered by or that keeps it out.
Steady(b, c) ==
  /\ SameAccount(b, c)
  /\ c.training = b.training /\ c.interactive = b.interactive
  /\ c.queue_paused = b.queue_paused
  /\ \A i \in 1 .. b.next :
       /\ c.leases[i].priority = b.leases[i].priority
       /\ c.leases[i].requested_at = b.leases[i].requested_at
       /\ c.leases[i].held = b.leases[i].held
       /\ \/ c.leases[i].state = b.leases[i].state
          \/ /\ b.leases[i].state = "queued" /\ c.leases[i].state = "granted"
             /\ ~c.leases[i].overdue
       /\ c.leases[i].overdue => b.leases[i].overdue

\* Nobody is granted.
Still(b, c) ==
  Steady(b, c) /\ \A i \in 1 .. b.next : c.leases[i].state = b.leases[i].state

LEMMA SteadyTrans ==
  ASSUME NEW b, NEW c, NEW d, Steady(b, c), Steady(c, d)
  PROVE  Steady(b, d)
BY DEF Steady, SameAccount

LEMMA StillTrans ==
  ASSUME NEW b, NEW c, NEW d, Still(b, c), Still(c, d)
  PROVE  Still(b, d)
BY SteadyTrans DEF Still, Steady, SameAccount

LEMMA StillSame == ASSUME NEW b PROVE Still(b, b)
BY DEF Still, Steady, SameAccount

\* Who waits and who works, before and after a pass.
LEMMA SteadyStates ==
  ASSUME NEW b, BrokerOK(b), NEW c, BrokerOK(c), Steady(b, c)
  PROVE  /\ Queued(c) \subseteq Queued(b) /\ Granted(b) \subseteq Granted(c)
         /\ Active(c) = Active(b)
         /\ \A i \in Granted(c) \ Granted(b) : i \in Queued(b) /\ ~c.leases[i].overdue
         /\ OllamaInUse(b) => OllamaInUse(c)
<1>1. \A i \in 1 .. b.next : b.leases[i] \in Lease /\ c.leases[i] \in Lease
  BY LeaseFields DEF Steady, SameAccount
<1>2. c.next = b.next
  BY DEF Steady, SameAccount
<1>3. Queued(c) \subseteq Queued(b) /\ Granted(b) \subseteq Granted(c)
  BY <1>2 DEF Steady, Queued, Granted, InState
<1>4. \A i \in Granted(c) \ Granted(b) : i \in Queued(b) /\ ~c.leases[i].overdue
  BY <1>2 DEF Steady, Queued, Granted, InState
<1>5. \A i \in Active(b) : i \in Active(c)
  BY <1>2 DEF Steady, Active, Queued, Granted, InState
<1>6. OllamaInUse(b) => OllamaInUse(c)
  <2>1. \A i \in Granted(b) : c.leases[i].job = b.leases[i].job
    BY DEF Granted, InState, Steady, SameAccount
  <2> QED BY <1>3, <2>1 DEF OllamaInUse, BackendInUse
<1> QED BY <1>3, <1>4, <1>5, <1>6 DEF Active

-----------------------------------------------------------------------------
(* What is free. *)

\* The memory that is taken: what the broker accounts for, or more if NVML says so.
Taken(b) == IF b.measured_used_mb > Baseline + AccountedMb(b)
            THEN b.measured_used_mb ELSE Baseline + AccountedMb(b)

\* free_mb is what is not taken of the card.
LEMMA FreeIsTheRest ==
  ASSUME NEW b, BrokerOK(b)
  PROVE  /\ FreeMb(b) = Monus(b.total_mb, Taken(b))
         /\ Taken(b) \in Nat /\ b.total_mb \in Nat /\ FreeMb(b) \in Nat
         /\ Baseline \in Nat /\ AccountedMb(b) \in Nat /\ b.measured_used_mb \in Nat
<1>1. /\ b.total_mb \in Nat /\ b.measured_used_mb \in Nat /\ Baseline \in Nat
      /\ AccountedMb(b) \in Nat /\ FreeMb(b) \in Nat
  BY Accounting, GpuBrokerAssumption DEF BrokerOK, Broker
<1>2. UnexplainedMb(b) = IF b.measured_used_mb > Baseline + AccountedMb(b)
                         THEN b.measured_used_mb - (Baseline + AccountedMb(b)) ELSE 0
  BY DEF UnexplainedMb, Monus
<1>3. Baseline + AccountedMb(b) + UnexplainedMb(b) = Taken(b)
  BY <1>1, <1>2 DEF Taken
<1> QED BY <1>1, <1>3 DEF FreeMb, Taken

\* Fewer leases leave no less free, if none that explained what Ollama has loaded went.
LEMMA FreeOfFewer ==
  ASSUME NEW b, BrokerOK(b), NEW c, BrokerOK(c), SameAccount(b, c),
         Granted(c) \subseteq Granted(b), OllamaInUse(b) => OllamaInUse(c)
  PROVE  FreeMb(b) <= FreeMb(c)
<1>1. Granted(b) \in SUBSET (1 .. b.next)
  BY Accounting
<1>2. Megabytes(c, Granted(c)) <= Megabytes(b, Granted(b))
  BY <1>1, MegabytesOfFewer DEF SameAccount
<1>3. OllamaInUse(c) => OllamaInUse(b)
  BY <1>1 DEF OllamaInUse, BackendInUse, SameAccount
<1>4. Megabytes(c, Granted(c)) \in Nat /\ Megabytes(b, Granted(b)) \in Nat
      /\ b.ollama.loaded_mb \in Nat
  BY Accounting DEF BrokerOK, Broker
<1>5. AccountedMb(c) <= AccountedMb(b)
  BY <1>2, <1>3, <1>4 DEF AccountedMb, SameAccount
<1>6. Taken(c) <= Taken(b)
  BY <1>5, FreeIsTheRest DEF Taken, SameAccount
<1> QED BY <1>6, FreeIsTheRest DEF Monus, SameAccount

\* Who granted nobody left as much free as there was.
LEMMA StillFree ==
  ASSUME NEW b, BrokerOK(b), NEW c, BrokerOK(c), Still(b, c)
  PROVE  /\ FreeMb(c) = FreeMb(b) /\ OllamaInUse(c) = OllamaInUse(b)
         /\ Granted(c) = Granted(b) /\ Queued(c) = Queued(b)
<1>1. Granted(c) = Granted(b) /\ Queued(c) = Queued(b)
  BY DEF Still, Steady, SameAccount, Granted, Queued, InState
<1>2. \A i \in Granted(b) : c.leases[i].job = b.leases[i].job
  BY DEF Still, Steady, SameAccount, Granted, InState
<1>3. OllamaInUse(c) = OllamaInUse(b)
  BY <1>1, <1>2 DEF OllamaInUse, BackendInUse
<1>4. SameAccount(b, c) /\ SameAccount(c, b)
  BY DEF Still, Steady, SameAccount
<1>5. FreeMb(b) <= FreeMb(c) /\ FreeMb(c) <= FreeMb(b)
  BY <1>1, <1>3, <1>4, FreeOfFewer
<1>6. FreeMb(b) \in Nat /\ FreeMb(c) \in Nat
  BY Accounting
<1>7. FreeMb(c) = FreeMb(b)
  BY <1>5, <1>6
<1> QED BY <1>1, <1>3, <1>7

-----------------------------------------------------------------------------
(* Who is asked to let go. *)

\* An engine is asked when it has not been asked yet, and holds something.
Asks(b, c) ==
  /\ b.ollama.unloading => c.ollama.unloading
  /\ UnloadOllama \in c.effects \ b.effects =>
       ~b.ollama.unloading /\ b.ollama.loaded_mb # 0
  /\ \A r \in Resident :
       /\ c.residents[r].present = b.residents[r].present
       /\ c.residents[r].floor_mb = b.residents[r].floor_mb
       /\ b.residents[r].freeing => c.residents[r] = b.residents[r]
       /\ r \in c.effects \ b.effects => ~b.residents[r].freeing /\ b.residents[r].present

LEMMA AsksNobody ==
  ASSUME NEW b, NEW c, c.ollama = b.ollama, c.residents = b.residents, c.effects = b.effects
  PROVE  Asks(b, c)
BY DEF Asks

LEMMA AsksTrans ==
  ASSUME NEW b, NEW c, NEW d, SameAccount(b, c), Asks(b, c), Asks(c, d)
  PROVE  Asks(b, d)
<1>1. /\ b.ollama.unloading => d.ollama.unloading
      /\ UnloadOllama \in d.effects \ b.effects =>
           ~b.ollama.unloading /\ b.ollama.loaded_mb # 0
  BY DEF Asks, SameAccount
<1>2. ASSUME NEW r \in Resident
      PROVE  /\ d.residents[r].present = b.residents[r].present
             /\ d.residents[r].floor_mb = b.residents[r].floor_mb
             /\ b.residents[r].freeing => d.residents[r] = b.residents[r]
             /\ r \in d.effects \ b.effects =>
                  ~b.residents[r].freeing /\ b.residents[r].present
  BY DEF Asks
<1> QED BY <1>1, <1>2 DEF Asks

\* The method that asks Ollama.
LEMMA UnloadsOllamaStill ==
  ASSUME NEW b, BrokerOK(b)
  PROVE  /\ Still(b, UnloadsOllama(b))
         /\ UnloadsOllama(b).reserved_for = b.reserved_for
         /\ b.ollama.loaded_mb # 0 /\ ~b.ollama.unloading => Asks(b, UnloadsOllama(b))
<1> DEFINE c == UnloadsOllama(b)
<1>1. /\ c.next = b.next /\ c.leases = b.leases /\ c.total_mb = b.total_mb
      /\ c.measured_used_mb = b.measured_used_mb /\ c.reserved_for = b.reserved_for
      /\ c.training = b.training /\ c.interactive = b.interactive
      /\ c.queue_paused = b.queue_paused /\ c.residents = b.residents
      /\ c.effects = b.effects \cup {UnloadOllama}
      /\ c.ollama = [b.ollama EXCEPT !.unloading = TRUE]
  BY DEF UnloadsOllama, BrokerOK, Broker
<1>2. b.ollama \in [loaded_mb : Nat, unloading : BOOLEAN]
  BY DEF BrokerOK, Broker
<1>3. c.ollama.loaded_mb = b.ollama.loaded_mb /\ c.ollama.unloading
  BY <1>1, <1>2
<1>4. UnloadOllama \notin Resident
  BY DEF UnloadOllama, Resident
<1> HIDE DEF c
<1>5. Still(b, c)
  BY <1>1, <1>3 DEF Still, Steady, SameAccount
<1>6. b.ollama.loaded_mb # 0 /\ ~b.ollama.unloading => Asks(b, c)
  BY <1>1, <1>3, <1>4 DEF Asks
<1> QED BY <1>1, <1>5, <1>6 DEF c

\* The method that asks a resident (push_free).
LEMMA PushFreeStill ==
  ASSUME NEW b, BrokerOK(b), NEW r \in Resident, NEW cache
  PROVE  /\ Still(b, PushFree(b, r, cache))
         /\ PushFree(b, r, cache).reserved_for = b.reserved_for
         /\ b.residents[r].present /\ ~b.residents[r].freeing =>
              Asks(b, PushFree(b, r, cache))
<1> DEFINE c == PushFree(b, r, cache)
           rs == [b.residents[r] EXCEPT !.freeing = TRUE, !.freeing_from = cache, !.late = FALSE]
<1>1. b.residents \in [Resident -> ResidentState] /\ b.residents[r] \in ResidentState
  BY DEF BrokerOK, Broker
<1>2. /\ c.next = b.next /\ c.leases = b.leases /\ c.total_mb = b.total_mb
      /\ c.measured_used_mb = b.measured_used_mb /\ c.reserved_for = b.reserved_for
      /\ c.training = b.training /\ c.interactive = b.interactive
      /\ c.queue_paused = b.queue_paused /\ c.ollama = b.ollama
      /\ c.effects = b.effects \cup {r} /\ c.residents = [b.residents EXCEPT ![r] = rs]
  BY <1>1 DEF PushFree, BrokerOK, Broker
<1>3. rs.present = b.residents[r].present /\ rs.floor_mb = b.residents[r].floor_mb
  BY <1>1 DEF ResidentState
<1>4. UnloadOllama # r
  BY DEF UnloadOllama, Resident
<1> HIDE DEF c, rs
<1>5. Still(b, c)
  BY <1>2 DEF Still, Steady, SameAccount
<1>6. \A q \in Resident : c.residents[q] = IF q = r THEN rs ELSE b.residents[q]
  BY <1>1, <1>2
<1>7. b.residents[r].present /\ ~b.residents[r].freeing => Asks(b, c)
  BY <1>2, <1>3, <1>4, <1>6 DEF Asks
<1> QED BY <1>2, <1>5, <1>7 DEF c

\* The idle resident is asked once.
LEMMA FreeIdleResidentStill ==
  ASSUME NEW b, BrokerOK(b)
  PROVE  /\ Still(b, FreeIdleResident(b)) /\ Asks(b, FreeIdleResident(b))
         /\ FreeIdleResident(b).reserved_for = b.reserved_for
<1>1. CASE Reclaimable(b) = 0 \/ b.residents[FirstIdle(b)].freeing
  BY <1>1, StillSame, AsksNobody DEF FreeIdleResident
<1>2. CASE ~(Reclaimable(b) = 0 \/ b.residents[FirstIdle(b)].freeing)
  <2>1. FirstIdle(b) \in Resident /\ b.residents[FirstIdle(b)].present
    <3>1. IdleResidents(b) # {}
      BY <1>2 DEF Reclaimable
    <3> QED BY <3>1, FirstIdleIsOne DEF IdleResidents
  <2> QED BY <1>2, <2>1, PushFreeStill DEF FreeIdleResident
<1> QED BY <1>1, <1>2

\* Telling leases to yield asks no engine.
LEMMA TellToYieldStill ==
  ASSUME NEW b, BrokerOK(b), NEW S
  PROVE  /\ Still(b, TellToYield(b, S)) /\ Asks(b, TellToYield(b, S))
         /\ TellToYield(b, S).reserved_for = b.reserved_for
<1> DEFINE c == TellToYield(b, S)
<1>1. /\ c.next = b.next /\ c.total_mb = b.total_mb
      /\ c.measured_used_mb = b.measured_used_mb /\ c.reserved_for = b.reserved_for
      /\ c.training = b.training /\ c.interactive = b.interactive
      /\ c.queue_paused = b.queue_paused /\ c.ollama = b.ollama
      /\ c.effects = b.effects /\ c.residents = b.residents
  BY DEF TellToYield, BrokerOK, Broker
<1>2. ASSUME NEW i \in 1 .. b.next
      PROVE  /\ c.leases[i].job = b.leases[i].job
             /\ c.leases[i].priority = b.leases[i].priority
             /\ c.leases[i].requested_at = b.leases[i].requested_at
             /\ c.leases[i].held = b.leases[i].held
             /\ c.leases[i].state = b.leases[i].state
             /\ c.leases[i].overdue = b.leases[i].overdue
  <2>1. b.leases[i] \in Lease
    BY LeaseFields
  <2>2. c.leases[i] = IF i \in S THEN [b.leases[i] EXCEPT !.directive = "yield"]
                      ELSE b.leases[i]
    BY DEF TellToYield, BrokerOK, Broker
  <2> QED BY <2>1, <2>2 DEF Lease
<1> HIDE DEF c
<1>3. Still(b, c) /\ Asks(b, c)
  BY <1>1, <1>2, AsksNobody DEF Still, Steady, SameAccount
<1> QED BY <1>1, <1>3 DEF c

\* Making room grants nobody, and asks who has not been asked.
LEMMA MakeRoomStill ==
  ASSUME NEW b, Sound(b), NEW i
  PROVE  /\ Still(b, MakeRoom(b, i)) /\ Asks(b, MakeRoom(b, i))
         /\ MakeRoom(b, i).reserved_for = b.reserved_for
<1> DEFINE opportunist == b.leases[i].priority = Opportunistic
           unloaded == IF opportunist \/ IdleOllamaMb(b) = 0 \/ b.ollama.unloading
                       THEN b ELSE UnloadsOllama(b)
           freed == IF opportunist THEN unloaded ELSE FreeIdleResident(unloaded)
<1>1. /\ Still(b, unloaded) /\ Asks(b, unloaded) /\ Sound(unloaded)
      /\ unloaded.reserved_for = b.reserved_for
  BY UnloadsOllamaStill, UnloadsOllamaSound, StillSame, AsksNobody DEF Sound, IdleOllamaMb
<1> HIDE DEF unloaded
<1>2. /\ Still(b, freed) /\ Asks(b, freed) /\ Sound(freed)
      /\ freed.reserved_for = b.reserved_for
  <2>1. SameAccount(b, unloaded)
    BY <1>1 DEF Still, Steady
  <2> QED BY <1>1, <2>1, FreeIdleResidentStill, FreeIdleResidentSound, StillTrans, AsksTrans
          DEF Sound
<1>3. MakeRoom(b, i) = TellToYield(freed, Asked(b, i))
  BY DEF MakeRoom, unloaded
<1> HIDE DEF freed
<1>4. SameAccount(b, freed)
  BY <1>2 DEF Still, Steady
<1> QED BY <1>2, <1>3, <1>4, TellToYieldStill, StillTrans, AsksTrans DEF Sound

\* What a grant takes, and what it leaves.
LEMMA GrantTakes ==
  ASSUME NEW b, Calm(b), NEW i \in Queued(b), Fits(b, i), NEW now \in Nat,
         NEW c, c = Grant(b, i, now)
  PROVE  /\ Steady(b, c) /\ Asks(b, c)
         /\ Granted(c) = Granted(b) \cup {i} /\ Queued(c) = Queued(b) \ {i}
         /\ c.reserved_for = IF b.reserved_for = i THEN Nobody ELSE b.reserved_for
         /\ FreeMb(b) <= FreeMb(c) + b.leases[i].job.vram_mb
         /\ (OllamaInUse(c) => OllamaInUse(b)) /\ b.measured_used_mb <= Baseline
              => FreeMb(c) = FreeMb(b) - b.leases[i].job.vram_mb
<1> DEFINE l == [b.leases[i] EXCEPT !.state = "granted", !.granted_at = now,
                                    !.directive = "continue", !.overdue = FALSE]
           vram == b.leases[i].job.vram_mb
<1>0. i \in 1 .. b.next /\ b.leases[i].state = "queued" /\ i \notin Granted(b)
  BY DEF Queued, Granted, InState
<1>1. BrokerOK(b) /\ b.leases \in [1 .. b.next -> Lease] /\ b.leases[i] \in Lease
  BY <1>0 DEF Calm, Sound, BrokerOK, Broker
<1>2. Sound(c)
  BY <1>0, GrantSound DEF Calm
<1>3. /\ c.next = b.next /\ c.total_mb = b.total_mb
      /\ c.measured_used_mb = b.measured_used_mb
      /\ c.training = b.training /\ c.interactive = b.interactive
      /\ c.queue_paused = b.queue_paused /\ c.ollama = b.ollama
      /\ c.effects = b.effects /\ c.residents = b.residents
      /\ c.leases = [b.leases EXCEPT ![i] = l]
      /\ c.reserved_for = IF b.reserved_for = i THEN Nobody ELSE b.reserved_for
  BY <1>1 DEF Grant, BrokerOK, Broker
<1>4. \A j \in 1 .. b.next : c.leases[j] = IF j = i THEN l ELSE b.leases[j]
  <2> HIDE DEF l
  <2> QED BY <1>1, <1>3
<1>5. /\ l.job = b.leases[i].job /\ l.priority = b.leases[i].priority
      /\ l.requested_at = b.leases[i].requested_at /\ l.held = b.leases[i].held
      /\ l.state = "granted" /\ ~l.overdue
  BY <1>1 DEF Lease
<1> HIDE DEF l
<1>6. Steady(b, c) /\ Asks(b, c)
  BY <1>0, <1>3, <1>4, <1>5, AsksNobody DEF Steady, SameAccount
<1>7. Granted(c) = Granted(b) \cup {i} /\ Queued(c) = Queued(b) \ {i}
  BY <1>0, <1>3, <1>4, <1>5 DEF Granted, Queued, InState
<1>8. Megabytes(c, Granted(c)) = Megabytes(b, Granted(b)) + vram
  <2>1. Granted(b) \in SUBSET (1 .. b.next) /\ Granted(c) \in SUBSET (1 .. b.next)
    BY <1>0, <1>1, <1>7, Accounting
  <2>2. Megabytes(c, Granted(c)) = Megabytes(b, Granted(c))
    <3>1. \A j \in Granted(c) : c.leases[j].job = b.leases[j].job
      BY <1>4, <1>5, <2>1
    <3>2. {{j} \X (1 .. c.leases[j].job.vram_mb) : j \in Granted(c)}
            = {{j} \X (1 .. b.leases[j].job.vram_mb) : j \in Granted(c)}
      BY <3>1
    <3> QED BY <3>2 DEF Megabytes
  <2> QED BY <1>0, <1>1, <1>7, <2>1, <2>2, MegabytesOfANewOne
<1>9. /\ vram \in Nat /\ Megabytes(b, Granted(b)) \in Nat /\ b.ollama.loaded_mb \in Nat
      /\ Megabytes(c, Granted(c)) \in Nat
  BY <1>0, <1>1, <1>2, LeaseFields, Accounting DEF Sound, BrokerOK, Broker
<1>10. OllamaInUse(b) => OllamaInUse(c)
  BY <1>1, <1>2, <1>6, SteadyStates DEF Sound
<1>11. /\ FreeMb(b) = Monus(b.total_mb, Taken(b)) /\ FreeMb(c) = Monus(b.total_mb, Taken(c))
       /\ Taken(b) \in Nat /\ Taken(c) \in Nat /\ b.total_mb \in Nat /\ Baseline \in Nat
       /\ AccountedMb(b) \in Nat /\ AccountedMb(c) \in Nat /\ b.measured_used_mb \in Nat
       /\ FreeMb(b) \in Nat
  BY <1>1, <1>2, <1>3, FreeIsTheRest DEF Sound
<1> HIDE DEF vram
<1>12. AccountedMb(c) <= AccountedMb(b) + vram
  BY <1>3, <1>8, <1>9, <1>10 DEF AccountedMb
<1>13. FreeMb(b) <= FreeMb(c) + vram
  <2>1. Taken(c) <= Taken(b) + vram
    BY <1>3, <1>9, <1>11, <1>12 DEF Taken
  <2> QED BY <1>9, <1>11, <2>1 DEF Monus
<1>14. ASSUME OllamaInUse(c) => OllamaInUse(b), b.measured_used_mb <= Baseline
       PROVE  FreeMb(c) = FreeMb(b) - vram
  <2>1. AccountedMb(c) = AccountedMb(b) + vram
    BY <1>3, <1>8, <1>9, <1>10, <1>14 DEF AccountedMb
  <2>2. Taken(c) = Taken(b) + vram
    BY <1>3, <1>9, <1>11, <1>14, <2>1 DEF Taken
  <2>3. vram <= FreeMb(b)
    <3>1. KeptMb(b, i) \in Nat
      <4>1. \A j \in Active(b) : j \in 1 .. b.next
        BY DEF Active, Queued, Granted, InState
      <4> QED BY <1>1, <4>1, LeaseFields DEF KeptMb
    <3> QED BY <1>9, <1>11, <3>1 DEF Fits, vram
  <2> QED BY <1>9, <1>11, <2>2, <2>3 DEF Monus
<1> QED BY <1>3, <1>6, <1>7, <1>13, <1>14 DEF vram

-----------------------------------------------------------------------------
(* Who has something to give. *)

\* What Ollama and the idle resident can give back.
LEMMA ForFreeNat ==
  ASSUME NEW b, BrokerOK(b), NEW i
  PROVE  IdleOllamaMb(b) \in Nat /\ Reclaimable(b) \in Nat /\ ForFreeMb(b, i) \in Nat
<1>1. b.ollama \in [loaded_mb : Nat, unloading : BOOLEAN] /\ ResidentCacheMb(b) \in Nat
  BY Accounting DEF BrokerOK, Broker
<1>2. IdleOllamaMb(b) \in Nat
  BY <1>1 DEF IdleOllamaMb
<1>3. Reclaimable(b) \in Nat
  <2>1. CASE IdleResidents(b) = {}
    BY <2>1 DEF Reclaimable
  <2>2. CASE IdleResidents(b) # {}
    <3>1. FirstIdle(b) \in Resident
      BY <2>2, FirstIdleIsOne DEF IdleResidents
    <3>2. b.residents[FirstIdle(b)].floor_mb \in Nat
      BY <3>1 DEF BrokerOK, Broker, ResidentState
    <3> QED BY <1>1, <3>2, MonusNat DEF Reclaimable
  <2> QED BY <2>1, <2>2
<1> QED BY <1>2, <1>3 DEF ForFreeMb

\* Among victims there is one that yields first: one with the fewest before it.
LEMMA SomeVictimIsFirst ==
  ASSUME NEW b, BrokerOK(b), NEW S \in SUBSET (1 .. b.next), S # {}
  PROVE  \E v \in S : \A w \in S : ~YieldsBefore(b, w, v)
<1> DEFINE earlier(v) == {w \in S : YieldsBefore(b, w, v)}
           sizes == {Cardinality(earlier(v)) : v \in S}
<1>0. b.next \in Nat
  BY DEF BrokerOK
<1>1. IsFiniteSet(S)
  <2>1. 1 \in Int /\ b.next \in Int
    BY <1>0
  <2>2. IsFiniteSet(1 .. b.next)
    BY <2>1, FS_Interval
  <2> QED BY <2>2, FS_Subset
<1>2. ASSUME NEW v \in S
      PROVE  IsFiniteSet(earlier(v)) /\ Cardinality(earlier(v)) \in Nat
  <2>1. earlier(v) \in SUBSET S
    OBVIOUS
  <2> QED BY <1>1, <2>1, FS_Subset, FS_CardinalityType
<1>3. PICK n \in sizes : \A k \in sizes : n <= k
  <2>1. sizes \in SUBSET Nat /\ sizes # {}
    BY <1>2
  <2> HIDE DEF sizes
  <2> QED BY <2>1, NatMin
<1>4. PICK v \in S : Cardinality(earlier(v)) = n
  BY <1>3
<1>5. ASSUME NEW w \in S, YieldsBefore(b, w, v) PROVE FALSE
  <2>1. \A u \in S : /\ b.leases[u].priority \in Nat /\ b.leases[u].granted_at \in Nat
                     /\ u \in Nat
    <3>1. \A u \in S : b.leases[u] \in Lease
      BY LeaseFields
    <3> QED BY <1>0, <3>1 DEF Lease, Priority, Critical, Opportunistic
  <2>2. ASSUME NEW u \in S, YieldsBefore(b, u, w) PROVE YieldsBefore(b, u, v)
    <3>1. \A x, y, z \in Nat : x > y /\ y > z => x > z
      OBVIOUS
    <3>2. \A x, y, z \in Nat : x < y /\ y < z => x < z
      OBVIOUS
    <3> HIDE DEF earlier, sizes
    <3> QED BY <1>5, <2>1, <2>2, <3>1, <3>2, Zenon DEF YieldsBefore
  <2>3. ~YieldsBefore(b, w, w)
    <3>1. \A x \in Nat : ~(x > x) /\ ~(x < x)
      OBVIOUS
    <3> HIDE DEF earlier, sizes
    <3> QED BY <2>1, <3>1, Zenon DEF YieldsBefore
  <2>4. earlier(w) \in SUBSET earlier(v) /\ w \in earlier(v) /\ w \notin earlier(w)
    BY <1>5, <2>2, <2>3
  <2>5. Cardinality(earlier(w)) \in sizes /\ n \in Nat
    BY <1>2, <1>4
  <2> HIDE DEF earlier, sizes
  <2>6. Cardinality(earlier(w)) <= n /\ Cardinality(earlier(w)) # n
        /\ Cardinality(earlier(w)) \in Nat
    BY <1>2, <1>4, <2>4, FS_Subset
  <2> QED BY <1>3, <2>5, <2>6
<1> QED BY <1>4, <1>5

\* For lease i nobody has anything to give.
NothingToAsk(c, i) == ForFreeMb(c, i) = 0 /\ Asked(c, i) = {}

\* Who does not fit and for whom nobody has anything to give comes before nobody for whom
\* somebody has: what can be asked for a lease can be asked for a more urgent one.
LEMMA LaterAsksNoMore ==
  ASSUME NEW c, BrokerOK(c), c.reserved_for = Nobody,
         NEW h \in 1 .. c.next, NEW i \in 1 .. c.next,
         c.leases[h].priority <= c.leases[i].priority,
         ~Fits(c, h), NothingToAsk(c, h)
  PROVE  NothingToAsk(c, i)
<1>1. \A j \in 1 .. c.next : c.leases[j].priority \in Nat /\ c.leases[j].job.vram_mb \in Nat
  <2>1. \A j \in 1 .. c.next : c.leases[j] \in Lease
    BY LeaseFields
  <2> QED BY <2>1, LeaseFields DEF Lease, Priority, Critical, Opportunistic
<1>2. Granted(c) \in SUBSET (1 .. c.next) /\ FreeMb(c) \in Nat
  BY Accounting
<1>3. ForFreeMb(c, i) = 0
  BY <1>1, ForFreeNat DEF ForFreeMb, NothingToAsk, Opportunistic
<1>4. Victims(c, h) = {}
  <2>1. SUFFICES ASSUME Victims(c, h) # {} PROVE FALSE
    OBVIOUS
  <2>2. Victims(c, h) \in SUBSET (1 .. c.next)
    BY <1>2 DEF Victims
  <2>3. PICK v \in Victims(c, h) : \A w \in Victims(c, h) : ~YieldsBefore(c, w, v)
    BY <2>1, <2>2, SomeVictimIsFirst
  <2>4. {w \in Victims(c, h) : YieldsBefore(c, w, v)} = {}
    BY <2>3
  <2>5. Megabytes(c, {}) = 0
    BY FS_EmptySet DEF Megabytes
  <2>6. Monus(c.leases[h].job.vram_mb, FreeMb(c)) > 0
    <3>1. KeptMb(c, h) = 0
      BY DEF KeptMb, Active, Queued, Granted, InState, Nobody
    <3> QED BY <1>1, <1>2, <3>1 DEF Fits, Monus
  <2>7. ForFreeMb(c, h) = 0
    BY DEF NothingToAsk
  <2>8. v \in Asked(c, h)
    BY <2>3, <2>4, <2>5, <2>6, <2>7 DEF Asked
  <2> QED BY <2>8 DEF NothingToAsk
<1>5. Victims(c, i) \subseteq Victims(c, h)
  <2>1. ASSUME NEW v \in Victims(c, i) PROVE c.leases[v].priority > c.leases[h].priority
    BY <1>1, <1>2 DEF Victims
  <2> QED BY <2>1 DEF Victims
<1> QED BY <1>3, <1>4, <1>5 DEF NothingToAsk, Asked

-----------------------------------------------------------------------------
(* A visit. *)

\* A visit passes over a lease, or grants it, or makes room for it and reserves that.
PassesOver(c, i, d) ==
  /\ d = c
  /\ Blocked(c, i) \/ (~Fits(c, i) /\ (c.reserved_for # Nobody \/ NothingToAsk(c, i)))
Grants(c, i, now, d) == ~Blocked(c, i) /\ Fits(c, i) /\ d = Grant(c, i, now)
Reserves(c, i, d) ==
  /\ ~Fits(c, i) /\ ~NothingToAsk(c, i) /\ c.reserved_for = Nobody /\ d.reserved_for = i
  /\ Still(c, d) /\ Asks(c, d)

LEMMA VisitGives ==
  ASSUME NEW c, Calm(c), NEW i \in Queued(c), NEW now \in Nat, NEW d, d = Visit(c, i, now)
  PROVE  PassesOver(c, i, d) \/ Grants(c, i, now, d) \/ Reserves(c, i, d)
<1>1. CASE Blocked(c, i) \/ Fits(c, i)
  BY <1>1 DEF Visit, PassesOver, Grants
<1>2. CASE ~Blocked(c, i) /\ ~Fits(c, i)
  <2> DEFINE r == MakeRoom(c, i)
             e == [r EXCEPT !.reserved_for = i]
  <2>1. /\ Still(c, r) /\ Asks(c, r) /\ r.reserved_for = c.reserved_for
        /\ Sound(r) /\ r.next = c.next
    BY MakeRoomStill, MakeRoomSound DEF Calm
  <2>2. \/ d = c /\ (c.reserved_for # Nobody \/ NothingToAsk(c, i))
        \/ d = e /\ c.reserved_for = Nobody /\ ~NothingToAsk(c, i)
    <3>1. ForFreeMb(c, i) \in Nat
      BY ForFreeNat DEF Calm, Sound
    <3>2. ForFreeMb(c, i) > 0 <=> ForFreeMb(c, i) # 0
      BY <3>1
    <3> QED BY <1>2, <3>2 DEF Visit, NothingToAsk
  <2> HIDE DEF r
  <2>3. /\ e.reserved_for = i /\ e.ollama = r.ollama /\ e.residents = r.residents
        /\ e.effects = r.effects /\ e.leases = r.leases /\ e.next = r.next
        /\ e.total_mb = r.total_mb /\ e.measured_used_mb = r.measured_used_mb
        /\ e.training = r.training /\ e.interactive = r.interactive
        /\ e.queue_paused = r.queue_paused
    BY <2>1 DEF Sound, BrokerOK, Broker
  <2> HIDE DEF e
  <2>4. Still(r, e) /\ Asks(r, e)
    BY <2>3, AsksNobody DEF Still, Steady, SameAccount
  <2>5. Still(c, e) /\ Asks(c, e)
    <3>1. SameAccount(c, r)
      BY <2>1 DEF Still, Steady
    <3> QED BY <2>1, <2>4, <3>1, StillTrans, AsksTrans
  <2> QED BY <1>2, <2>2, <2>3, <2>5 DEF PassesOver, Reserves
<1> QED BY <1>1, <1>2

\* Whom a pass turns away: the user keeps it out, or it does not fit.  What a pass that
\* began at b frees as it grants is not seen by who was visited before.
TurnedAway(b, c, h) ==
  \/ Blocked(c, h) \/ ~Fits(c, h)
  \/ OllamaInUse(c) /\ ~OllamaInUse(b)
  \/ c.measured_used_mb > Baseline

\* What keeps a lease out goes on doing so.
LEMMA BlockedStays ==
  ASSUME NEW c, NEW d, Steady(c, d), NEW h \in 1 .. c.next
  PROVE  Blocked(d, h) = Blocked(c, h)
BY DEF Steady, Blocked, ReservedForCritical

\* The memory kept is that of a lease which is there.
LEMMA KeptNat ==
  ASSUME NEW b, BrokerOK(b), NEW i
  PROVE  KeptMb(b, i) \in Nat
<1>1. \A j \in Active(b) : j \in 1 .. b.next
  BY DEF Active, Queued, Granted, InState
<1> QED BY <1>1, LeaseFields DEF KeptMb

\* Who was turned away is still, after the visit to another.
LEMMA AwayStaysAway ==
  ASSUME NEW b, NEW c, Calm(c), NEW i \in Queued(c), NEW now \in Nat,
         NEW d, BrokerOK(d), d = Visit(c, i, now), OllamaInUse(b) => OllamaInUse(c),
         NEW h \in Queued(d), h # i, TurnedAway(b, c, h)
  PROVE  TurnedAway(b, d, h)
<1>0. BrokerOK(c) /\ i \in 1 .. c.next
  BY DEF Calm, Sound, Queued, InState
<1>1. CASE PassesOver(c, i, d)
  BY <1>1 DEF PassesOver
<1>2. CASE Reserves(c, i, d)
  <2>1. FreeMb(d) = FreeMb(c) /\ OllamaInUse(d) = OllamaInUse(c) /\ Queued(d) = Queued(c)
    BY <1>0, <1>2, StillFree DEF Reserves
  <2>2. h \in 1 .. c.next /\ Steady(c, d)
    BY <1>2, <2>1 DEF Reserves, Still, Queued, InState
  <2>3. d.leases[h].job = c.leases[h].job /\ d.measured_used_mb = c.measured_used_mb
    BY <2>2 DEF Steady, SameAccount
  <2>4. ~Fits(c, h) => ~Fits(d, h)
    <3>1. KeptMb(c, h) = 0
      BY <1>2 DEF Reserves, KeptMb, Active, Queued, Granted, InState, Nobody
    <3>2. KeptMb(d, h) \in Nat /\ FreeMb(c) \in Nat /\ c.leases[h].job.vram_mb \in Nat
      BY <1>0, <2>2, KeptNat, Accounting, LeaseFields
    <3> QED BY <2>1, <2>3, <3>1, <3>2 DEF Fits
  <2> QED BY <2>1, <2>2, <2>3, <2>4, BlockedStays DEF TurnedAway
<1>3. CASE Grants(c, i, now, d)
  <2>1. /\ Steady(c, d) /\ Queued(d) = Queued(c) \ {i}
        /\ d.reserved_for = IF c.reserved_for = i THEN Nobody ELSE c.reserved_for
        /\ (OllamaInUse(d) => OllamaInUse(c)) /\ c.measured_used_mb <= Baseline
              => FreeMb(d) = FreeMb(c) - c.leases[i].job.vram_mb
    BY <1>3, GrantTakes DEF Grants
  <2>2. h \in Queued(c) /\ h \in 1 .. c.next /\ Active(d) = Active(c) /\ h # i
        /\ (OllamaInUse(c) => OllamaInUse(d))
    BY <1>0, <2>1, SteadyStates DEF Queued, InState
  <2>3. d.leases[h].job = c.leases[h].job /\ d.measured_used_mb = c.measured_used_mb
    BY <2>1, <2>2 DEF Steady, SameAccount
  <2>4. c.measured_used_mb \in Nat /\ Baseline \in Nat
    BY <1>0, FreeIsTheRest
  <2>5. ASSUME ~Fits(c, h), OllamaInUse(d) => OllamaInUse(c), c.measured_used_mb <= Baseline
        PROVE  ~Fits(d, h)
    <3> DEFINE vram == c.leases[i].job.vram_mb
    <3>1. FreeMb(d) = FreeMb(c) - vram
      BY <2>1, <2>5
    <3>2. /\ vram \in Nat /\ FreeMb(c) \in Nat /\ c.leases[h].job.vram_mb \in Nat
          /\ KeptMb(c, h) \in Nat /\ KeptMb(d, h) \in Nat
      BY <1>0, <2>2, KeptNat, Accounting, LeaseFields
    <3>3. CASE c.reserved_for = i
      <4>1. i \in Active(c) \ {h}
        BY <2>2 DEF Active
      <4>2. KeptMb(c, h) = vram
        BY <3>3, <4>1 DEF KeptMb
      <4> HIDE DEF vram
      <4> QED BY <2>3, <2>5, <3>1, <3>2, <4>2 DEF Fits
    <3>4. CASE c.reserved_for # i
      <4>1. d.reserved_for = c.reserved_for
        BY <2>1, <3>4
      <4>2. \A j \in Active(c) : d.leases[j].job = c.leases[j].job
        BY <2>1 DEF Steady, SameAccount, Active, Queued, Granted, InState
      <4>3. KeptMb(d, h) = KeptMb(c, h)
        BY <2>2, <4>1, <4>2 DEF KeptMb
      <4> HIDE DEF vram
      <4> QED BY <2>3, <2>5, <3>1, <3>2, <4>3 DEF Fits
    <3> QED BY <3>3, <3>4
  <2> QED BY <2>1, <2>2, <2>3, <2>4, <2>5, BlockedStays DEF TurnedAway
<1> QED BY <1>1, <1>2, <1>3, VisitGives

\* Who is visited and goes on waiting was turned away.
LEMMA VisitedIsAway ==
  ASSUME NEW b, NEW c, Calm(c), NEW i \in Queued(c), NEW now \in Nat,
         NEW d, BrokerOK(d), d = Visit(c, i, now), i \in Queued(d)
  PROVE  TurnedAway(b, d, i)
<1>0. BrokerOK(c) /\ i \in 1 .. c.next
  BY DEF Calm, Sound, Queued, InState
<1>1. CASE PassesOver(c, i, d)
  BY <1>1 DEF PassesOver, TurnedAway
<1>2. CASE Reserves(c, i, d)
  <2>1. FreeMb(d) = FreeMb(c) /\ d.leases[i].job = c.leases[i].job
    BY <1>0, <1>2, StillFree DEF Reserves, Still, Steady, SameAccount
  <2>2. KeptMb(c, i) = 0 /\ KeptMb(d, i) = 0
    BY <1>2 DEF Reserves, KeptMb, Active, Queued, Granted, InState, Nobody
  <2> QED BY <1>2, <2>1, <2>2 DEF Reserves, Fits, TurnedAway
<1>3. CASE Grants(c, i, now, d)
  BY <1>3, GrantTakes DEF Grants
<1> QED BY <1>1, <1>2, <1>3, VisitGives

-----------------------------------------------------------------------------
(* A pass. *)

\* Who was granted since b let nobody in before its turn: of those that waited longer or
\* are more urgent, each is kept out, or asks for more, unless what the pass freed came
\* too late for it.
InOrder(b, c) ==
  \A i \in Granted(c) \ Granted(b) :
    /\ ~Blocked(c, i)
    /\ \A h \in Queued(c) :
         \/ ~Before(c, h, i) \/ Blocked(c, h) \/ b.reserved_for = i
         \/ OllamaInUse(c) /\ ~OllamaInUse(b)
         \/ c.measured_used_mb > Baseline
         \/ c.leases[h].job.vram_mb > c.leases[i].job.vram_mb

\* Whatever was granted since b, the lease that has the reservation would fit.
RoomLeft(b, c) ==
  c.reserved_for # Nobody /\ c.reserved_for = b.reserved_for /\ Granted(c) # Granted(b)
    => c.leases[c.reserved_for].job.vram_mb <= FreeMb(c)

\* The reservation is for someone who waits; it is new only if it is for one visited, and
\* while the old one waits it has it.
Reserving(b, c, left) ==
  /\ c.reserved_for \in Queued(c) \cup {Nobody}
  /\ b.reserved_for \in Queued(c) => c.reserved_for = b.reserved_for
  /\ c.reserved_for \in left => c.reserved_for = b.reserved_for

\* A visit leaves room for who has the reservation.
LEMMA VisitLeavesRoom ==
  ASSUME NEW b, NEW c, Calm(c), NEW left \in SUBSET Queued(c), NEW i \in left, NEW now \in Nat,
         NEW d, BrokerOK(d), d = Visit(c, i, now), Reserving(b, c, left), RoomLeft(b, c)
  PROVE  Reserving(b, d, left \ {i}) /\ RoomLeft(b, d)
<1>0. BrokerOK(c) /\ i \in 1 .. c.next
  BY DEF Calm, Sound, Queued, InState
<1>1. CASE PassesOver(c, i, d)
  BY <1>1 DEF PassesOver, Reserving
<1>2. CASE Reserves(c, i, d)
  <2>1. FreeMb(d) = FreeMb(c) /\ Queued(d) = Queued(c) /\ Granted(d) = Granted(c)
    BY <1>0, <1>2, StillFree DEF Reserves
  <2>2. b.reserved_for \notin Queued(c)
    BY <1>2 DEF Reserving, Reserves, Queued, InState, Nobody
  <2> QED BY <1>2, <2>1, <2>2 DEF Reserving, Reserves, RoomLeft
<1>3. CASE Grants(c, i, now, d)
  <2> DEFINE r == c.reserved_for
             vram == c.leases[i].job.vram_mb
             need == c.leases[r].job.vram_mb
  <2>1. /\ Queued(d) = Queued(c) \ {i} /\ Steady(c, d)
        /\ d.reserved_for = IF r = i THEN Nobody ELSE r
        /\ FreeMb(c) <= FreeMb(d) + vram
    BY <1>3, GrantTakes DEF Grants
  <2>2. Reserving(b, d, left \ {i})
    BY <2>1 DEF Reserving, Queued, InState, Nobody
  <2>3. ASSUME d.reserved_for # Nobody
        PROVE  d.leases[r].job.vram_mb <= FreeMb(d)
    <3>1. r # i /\ r \in Active(c) \ {i} /\ r \in 1 .. c.next
      BY <2>1, <2>3 DEF Reserving, Active, Queued, InState
    <3>2. vram + need <= FreeMb(c)
      BY <1>3, <3>1 DEF Grants, Fits, KeptMb
    <3>3. d.leases[r].job = c.leases[r].job
      BY <2>1, <3>1 DEF Steady, SameAccount
    <3>4. vram \in Nat /\ need \in Nat /\ FreeMb(c) \in Nat /\ FreeMb(d) \in Nat
      BY <1>0, <3>1, LeaseFields, Accounting
    <3> HIDE DEF vram
    <3> QED BY <2>1, <3>2, <3>3, <3>4
  <2> QED BY <2>1, <2>2, <2>3 DEF RoomLeft
<1> QED BY <1>1, <1>2, <1>3, VisitGives

\* A visit to the first of the queue lets nobody in before its turn.
LEMMA VisitInOrder ==
  ASSUME NEW b, NEW c, Calm(c), NEW left \in SUBSET Queued(c), NEW i \in left, NEW now \in Nat,
         \A j \in left : ~Before(c, j, i),
         NEW d, BrokerOK(d), d = Visit(c, i, now), Reserving(b, c, left),
         OllamaInUse(b) => OllamaInUse(c),
         \A h \in Queued(c) \ left : TurnedAway(b, c, h), InOrder(b, c)
  PROVE  InOrder(b, d)
<1>0. BrokerOK(c) /\ i \in 1 .. c.next
  BY DEF Calm, Sound, Queued, InState
<1>1. CASE PassesOver(c, i, d)
  BY <1>1 DEF PassesOver
<1>2. ASSUME Steady(c, d) PROVE \A g, h \in 1 .. c.next :
        /\ Before(d, h, g) = Before(c, h, g) /\ Blocked(d, h) = Blocked(c, h)
        /\ d.leases[h].job = c.leases[h].job
  BY <1>2, BlockedStays DEF Before, Steady, SameAccount
<1>3. CASE Reserves(c, i, d)
  <2>1. /\ Steady(c, d) /\ Queued(d) = Queued(c) /\ Granted(d) = Granted(c)
        /\ OllamaInUse(d) = OllamaInUse(c) /\ d.measured_used_mb = c.measured_used_mb
    BY <1>0, <1>3, StillFree DEF Reserves, Still, Steady, SameAccount
  <2>2. Queued(c) \subseteq 1 .. c.next /\ Granted(c) \subseteq 1 .. c.next
    BY DEF Queued, Granted, InState
  <2> QED BY <1>2, <2>1, <2>2 DEF InOrder
<1>4. CASE Grants(c, i, now, d)
  <2>1. /\ Steady(c, d) /\ Queued(d) = Queued(c) \ {i} /\ Granted(d) = Granted(c) \cup {i}
    BY <1>4, GrantTakes DEF Grants
  <2>2. /\ OllamaInUse(c) => OllamaInUse(d)
        /\ d.measured_used_mb = c.measured_used_mb
        /\ c.measured_used_mb \in Nat /\ Baseline \in Nat
    BY <1>0, <2>1, SteadyStates, FreeIsTheRest DEF Steady, SameAccount
  <2>3. Queued(c) \subseteq 1 .. c.next /\ Granted(c) \subseteq 1 .. c.next
    BY DEF Queued, Granted, InState
  <2>4. ASSUME NEW h \in Queued(d)
        PROVE  \/ ~Before(c, h, i) \/ Blocked(c, h) \/ b.reserved_for = i
               \/ OllamaInUse(c) /\ ~OllamaInUse(b)
               \/ c.measured_used_mb > Baseline
               \/ c.leases[h].job.vram_mb > c.leases[i].job.vram_mb
    <3>1. h \in Queued(c) /\ h # i /\ h \in 1 .. c.next
      BY <2>1, <2>3
    <3>2. CASE h \in left
      BY <3>2
    <3>3. CASE h \notin left /\ ~Fits(c, h) /\ b.reserved_for # i
      <4> DEFINE r == c.reserved_for
      <4>1. r # i
        BY <3>3 DEF Reserving
      <4>2. /\ c.leases[h].job.vram_mb \in Nat /\ c.leases[i].job.vram_mb \in Nat
            /\ KeptMb(c, h) \in Nat /\ KeptMb(c, i) \in Nat /\ FreeMb(c) \in Nat
        BY <1>0, <3>1, LeaseFields, KeptNat, Accounting
      <4>3. c.leases[i].job.vram_mb + KeptMb(c, i) <= FreeMb(c)
        BY <1>4 DEF Grants, Fits
      <4>4. c.leases[h].job.vram_mb + KeptMb(c, h) > FreeMb(c)
        BY <3>3, <4>2 DEF Fits
      <4>5. CASE r = h
        <5>1. h \in Active(c) \ {i}
          BY <3>1 DEF Active
        <5>2. KeptMb(c, i) = c.leases[h].job.vram_mb
          BY <4>5, <5>1 DEF KeptMb
        <5>3. KeptMb(c, h) = 0
          BY <4>5 DEF KeptMb
        <5> QED BY <4>2, <4>3, <4>4, <5>2, <5>3
      <4>6. CASE r # h
        <5>1. KeptMb(c, i) = KeptMb(c, h)
          BY <4>1, <4>6 DEF KeptMb
        <5> QED BY <4>2, <4>3, <4>4, <5>1
      <4> QED BY <4>5, <4>6
    <3> QED BY <3>1, <3>2, <3>3 DEF TurnedAway
  <2>5. ~Blocked(c, i)
    BY <1>4 DEF Grants
  <2>6. ASSUME NEW g \in Granted(d) \ Granted(b) PROVE ~Blocked(c, g) /\ g \in 1 .. c.next
    BY <2>1, <2>3, <2>5, <2>6, <1>0 DEF InOrder
  <2>7. ASSUME NEW g \in Granted(d) \ Granted(b), NEW h \in Queued(d)
        PROVE  \/ ~Before(c, h, g) \/ Blocked(c, h) \/ b.reserved_for = g
               \/ OllamaInUse(c) /\ ~OllamaInUse(b)
               \/ c.measured_used_mb > Baseline
               \/ c.leases[h].job.vram_mb > c.leases[g].job.vram_mb
    <3>1. CASE g = i
      BY <2>4, <3>1
    <3>2. CASE g # i
      <4>1. g \in Granted(c) \ Granted(b) /\ h \in Queued(c)
        BY <2>1, <2>7, <3>2
      <4> QED BY <4>1 DEF InOrder
    <3> QED BY <3>1, <3>2
  <2>8. \A h \in Queued(d) : h \in 1 .. c.next
    BY <2>1, <2>3
  <2> QED BY <1>2, <2>1, <2>2, <2>6, <2>7, <2>8 DEF InOrder
<1> QED BY <1>1, <1>3, <1>4, VisitGives

\* Who changed no lease but granting nobody changed no lease that counts.
LEMMA SteadyIsStill ==
  ASSUME NEW b, NEW c, Steady(b, c), Granted(c) = Granted(b)
  PROVE  Still(b, c)
<1>1. ASSUME NEW i \in 1 .. b.next PROVE c.leases[i].state = b.leases[i].state
  <2>1. SUFFICES ASSUME b.leases[i].state = "queued", c.leases[i].state = "granted" PROVE FALSE
    BY DEF Steady
  <2>2. i \in Granted(c) /\ i \notin Granted(b)
    BY <2>1 DEF Granted, InState, Steady, SameAccount
  <2> QED BY <2>2
<1> QED BY <1>1 DEF Still

\* Nobody who waits can be let in.
Stuck(b) == \A j \in Queued(b) : Blocked(b, j) \/ ~Fits(b, j)

\* Then the pass lets nobody in: it can only reserve memory.
NobodyGetsIn(b, c) ==
  Stuck(b) /\ b.reserved_for \in Queued(b) \cup {Nobody} => Granted(c) = Granted(b)

\* If nobody was let in and nobody had the reservation, who got it is the first that
\* nothing keeps out: of those visited before, nobody had anything to give for them.
FirstIsServed(b, c, left) ==
  b.reserved_for \notin Queued(b) /\ Granted(c) = Granted(b) =>
    IF c.reserved_for = Nobody
    THEN \A h \in Queued(c) \ left : Blocked(c, h) \/ (~Fits(c, h) /\ NothingToAsk(c, h))
    ELSE \A h \in Queued(c) : ~Before(c, h, c.reserved_for) \/ Blocked(c, h)

\* A visit does not let in who was stuck when the pass began.
LEMMA VisitToStuck ==
  ASSUME NEW b, BrokerOK(b), NEW c, Calm(c), Steady(b, c),
         NEW left \in SUBSET Queued(c), NEW i \in left, NEW now \in Nat,
         NEW d, BrokerOK(d), d = Visit(c, i, now), Reserving(b, c, left), NobodyGetsIn(b, c)
  PROVE  NobodyGetsIn(b, d)
<1> SUFFICES ASSUME Stuck(b), b.reserved_for \in Queued(b) \cup {Nobody}
             PROVE  Granted(d) = Granted(b)
  BY DEF NobodyGetsIn
<1>0. BrokerOK(c) /\ i \in 1 .. c.next /\ c.next = b.next
  BY DEF Calm, Sound, Queued, InState, Steady, SameAccount
<1>1. /\ Granted(c) = Granted(b) /\ Queued(c) = Queued(b) /\ FreeMb(c) = FreeMb(b)
      /\ Active(c) = Active(b)
  BY <1>0, SteadyIsStill, StillFree DEF NobodyGetsIn, Active
<1>2. KeptMb(b, i) \in Nat /\ KeptMb(c, i) \in Nat /\ KeptMb(b, i) <= KeptMb(c, i)
  <2>1. KeptMb(b, i) \in Nat /\ KeptMb(c, i) \in Nat
    BY <1>0, KeptNat
  <2>2. CASE b.reserved_for = Nobody
    <3>1. KeptMb(b, i) = 0
      BY <2>2 DEF KeptMb, Active, Queued, Granted, InState, Nobody
    <3> QED BY <2>1, <3>1
  <2>3. CASE b.reserved_for \in Queued(b)
    <3>1. c.reserved_for = b.reserved_for /\ b.reserved_for \in 1 .. b.next
      BY <1>1, <2>3 DEF Reserving, Queued, InState
    <3>2. KeptMb(c, i) = KeptMb(b, i)
      BY <1>1, <3>1 DEF KeptMb, Steady, SameAccount
    <3> QED BY <2>1, <3>2
  <2> QED BY <2>2, <2>3
<1>3. Blocked(c, i) \/ ~Fits(c, i)
  <2>1. /\ c.leases[i].job = b.leases[i].job /\ b.leases[i].job.vram_mb \in Nat
        /\ FreeMb(b) \in Nat
    BY <1>0, LeaseFields, Accounting DEF Steady, SameAccount
  <2>2. ~Fits(b, i) => ~Fits(c, i)
    BY <1>1, <1>2, <2>1 DEF Fits
  <2>3. Blocked(b, i) => Blocked(c, i)
    BY <1>0, BlockedStays
  <2> QED BY <1>1, <2>2, <2>3 DEF Stuck
<1> QED BY <1>0, <1>1, <1>3, VisitGives, StillFree DEF PassesOver, Grants, Reserves

\* A visit gives the reservation to nobody while an earlier one could have it.
LEMMA VisitServesFirst ==
  ASSUME NEW b, NEW c, Calm(c), Steady(b, c), Granted(b) \subseteq Granted(c),
         NEW left \in SUBSET Queued(c), NEW i \in left, NEW now \in Nat,
         \A j \in left : ~Before(c, j, i),
         NEW d, BrokerOK(d), d = Visit(c, i, now), FirstIsServed(b, c, left)
  PROVE  FirstIsServed(b, d, left \ {i})
<1> SUFFICES ASSUME b.reserved_for \notin Queued(b), Granted(d) = Granted(b)
             PROVE  IF d.reserved_for = Nobody
                    THEN \A h \in Queued(d) \ (left \ {i}) :
                           Blocked(d, h) \/ (~Fits(d, h) /\ NothingToAsk(d, h))
                    ELSE \A h \in Queued(d) :
                           ~Before(d, h, d.reserved_for) \/ Blocked(d, h)
  BY DEF FirstIsServed
<1>0. BrokerOK(c) /\ i \in 1 .. c.next /\ i # Nobody
  BY DEF Calm, Sound, Queued, InState, Nobody
<1>1. CASE PassesOver(c, i, d)
  <2>1. d = c /\ Granted(c) = Granted(b)
    BY <1>1 DEF PassesOver
  <2> QED BY <1>1, <2>1 DEF PassesOver, FirstIsServed
<1>2. CASE Grants(c, i, now, d)
  <2>1. i \in Granted(d) /\ i \notin Granted(c)
    BY <1>2, GrantTakes DEF Grants, Queued, Granted, InState
  <2> QED BY <2>1
<1>3. CASE Reserves(c, i, d)
  <2>1. Granted(d) = Granted(c) /\ Queued(d) = Queued(c)
    BY <1>0, <1>3, StillFree DEF Reserves
  <2>2. ASSUME NEW h \in Queued(c) PROVE ~Before(c, h, i) \/ Blocked(c, h)
    <3>1. CASE h \in left
      BY <3>1
    <3>2. CASE h \notin left /\ ~Blocked(c, h)
      <4>1. ~Fits(c, h) /\ NothingToAsk(c, h) /\ h \in 1 .. c.next
        BY <1>3, <2>1, <3>2 DEF FirstIsServed, Reserves, Queued, InState
      <4>2. ~(c.leases[h].priority <= c.leases[i].priority)
        BY <1>0, <1>3, <4>1, LaterAsksNoMore DEF Reserves
      <4>3. c.leases[h].priority \in Nat /\ c.leases[i].priority \in Nat
        <5>1. c.leases[h] \in Lease /\ c.leases[i] \in Lease
          BY <1>0, <4>1, LeaseFields
        <5> QED BY <5>1 DEF Lease, Priority, Critical, Opportunistic
      <4> QED BY <4>2, <4>3 DEF Before
    <3> QED BY <3>1, <3>2
  <2>3. ASSUME NEW h \in Queued(d)
        PROVE  Before(d, h, i) = Before(c, h, i) /\ Blocked(d, h) = Blocked(c, h)
    <3>1. h \in 1 .. c.next /\ Steady(c, d)
      BY <1>3, <2>1 DEF Queued, InState, Reserves, Still
    <3> QED BY <1>0, <3>1, BlockedStays DEF Before, Steady, SameAccount
  <2> QED BY <1>0, <1>3, <2>1, <2>2, <2>3 DEF Reserves
<1> QED BY <1>1, <1>2, <1>3, VisitGives

\* A pass that began at b, after n turns.
Running(b, n, p) ==
  /\ PassKept(b, p) /\ Steady(b, p.broker) /\ Asks(b, p.broker)
  /\ IsFiniteSet(p.left) /\ (p.left = {} \/ Cardinality(p.left) + n <= b.next)
  /\ Reserving(b, p.broker, p.left) /\ RoomLeft(b, p.broker)
  /\ \A h \in Queued(p.broker) \ p.left : TurnedAway(b, p.broker, h)
  /\ InOrder(b, p.broker)
  /\ NobodyGetsIn(b, p.broker) /\ FirstIsServed(b, p.broker, p.left)

\* A turn of the loop of schedule.
LEMMA TurnRuns ==
  ASSUME NEW b, Calm(b), ~b.queue_paused, NEW n \in Nat, n < b.next,
         NEW p, Running(b, n, p), NEW now \in Nat
  PROVE  Running(b, n + 1, Turn(p, now))
<1>0. b.next \in Nat
  BY DEF Calm, Sound, BrokerOK
<1>1. CASE p.left = {}
  BY <1>1 DEF Turn, Running
<1>2. CASE p.left # {}
  <2> DEFINE c == p.broker
             i == First(c, p.left)
             d == Visit(c, i, now)
             rest == p.left \ {i}
  <2>1. Calm(c) /\ BrokerOK(c) /\ ~c.queue_paused /\ p.left \in SUBSET Queued(c)
    BY KeptTrans DEF Running, PassKept, Kept, Soft, Calm, Sound
  <2>2. i \in p.left /\ \A j \in p.left : ~Before(c, j, i)
    <3>1. p.left \in SUBSET (1 .. c.next)
      BY <2>1 DEF Queued, InState
    <3> QED BY <1>2, <2>1, <3>1, FirstIsOne
  <2>3. Turn(p, now) = [broker |-> d, left |-> rest]
    BY <1>2 DEF Turn
  <2> HIDE DEF i, d
  <2>4. PassKept(b, [broker |-> d, left |-> rest])
    BY <2>3, TurnKept DEF Running
  <2>5. BrokerOK(d)
    BY <2>4 DEF PassKept, Kept, Sound
  <2>6. i \in Queued(c)
    BY <2>1, <2>2
  <2>7. Steady(c, d) /\ Asks(c, d)
    BY <2>1, <2>6, VisitGives, GrantTakes, StillSame, AsksNobody
       DEF d, PassesOver, Grants, Reserves, Still
  <2>8. Steady(b, d) /\ Asks(b, d)
    <3>1. SameAccount(b, c)
      BY DEF Running, Steady
    <3> QED BY <2>7, <3>1, SteadyTrans, AsksTrans DEF Running
  <2>9. IsFiniteSet(rest) /\ (rest = {} \/ Cardinality(rest) + (n + 1) <= b.next)
    <3>1. IsFiniteSet(p.left) /\ Cardinality(p.left) + n <= b.next
      BY <1>2 DEF Running
    <3>2. IsFiniteSet(rest) /\ Cardinality(rest) = Cardinality(p.left) - 1
      BY <2>2, <3>1, FS_RemoveElement
    <3>3. Cardinality(p.left) \in Nat
      BY <3>1, FS_CardinalityType
    <3> QED BY <1>0, <3>1, <3>2, <3>3
  <2>10. OllamaInUse(b) => OllamaInUse(c)
    BY <2>1, SteadyStates DEF Running, Calm, Sound
  <2>11. Reserving(b, d, rest) /\ RoomLeft(b, d)
    BY <2>1, <2>2, <2>5, VisitLeavesRoom DEF Running, d
  <2>12. InOrder(b, d)
    <3>1. \A h \in Queued(c) \ p.left : TurnedAway(b, c, h)
      BY DEF Running
    <3>2. Reserving(b, c, p.left) /\ InOrder(b, c)
      BY DEF Running
    <3> QED BY <2>1, <2>2, <2>5, <2>10, <3>1, <3>2, VisitInOrder DEF d
  <2>13. NobodyGetsIn(b, d)
    <3>1. Steady(b, c) /\ Reserving(b, c, p.left) /\ NobodyGetsIn(b, c)
      BY DEF Running
    <3> QED BY <2>1, <2>2, <2>5, <3>1, VisitToStuck DEF d, Calm, Sound
  <2>14. FirstIsServed(b, d, rest)
    <3>1. Steady(b, c) /\ FirstIsServed(b, c, p.left) /\ Granted(b) \subseteq Granted(c)
      BY <2>1, SteadyStates DEF Running, Calm, Sound
    <3> QED BY <2>1, <2>2, <2>5, <3>1, VisitServesFirst DEF d
  <2>15. ASSUME NEW h \in Queued(d) \ rest PROVE TurnedAway(b, d, h)
    <3>1. CASE h = i
      BY <2>1, <2>5, <2>6, <3>1, VisitedIsAway DEF d
    <3>2. CASE h # i
      <4>1. Queued(d) \subseteq Queued(c)
        BY <2>1, <2>5, <2>7, SteadyStates
      <4>2. TurnedAway(b, c, h)
        BY <3>2, <4>1 DEF Running
      <4> QED BY <2>1, <2>5, <2>6, <2>10, <3>2, <4>2, AwayStaysAway DEF d
    <3> QED BY <3>1, <3>2
  <2> HIDE DEF rest
  <2>16. Running(b, n + 1, [broker |-> d, left |-> rest])
    BY <2>4, <2>8, <2>9, <2>11, <2>12, <2>13, <2>14, <2>15 DEF Running
  <2> QED BY <2>3, <2>16
<1> QED BY <1>1, <1>2

\* What the scheduler makes of b.
Scheduled(b, c) ==
  /\ Kept(b, c) /\ Steady(b, c) /\ Asks(b, c)
  /\ b.reserved_for \in Queued(c) => c.reserved_for = b.reserved_for
  /\ RoomLeft(b, c) /\ InOrder(b, c) /\ NobodyGetsIn(b, c)
  /\ b.queue_paused => c = b
  /\ ~b.queue_paused =>
       /\ c.reserved_for \in Queued(c) \cup {Nobody}
       /\ \A h \in Queued(c) : TurnedAway(b, c, h)
       /\ FirstIsServed(b, c, {})

\* A pass visits every lease that waits, by the least turn after which something else
\* would be so.
LEMMA ScheduleRuns ==
  ASSUME NEW b, Calm(b)
  PROVE  Scheduled(b, Schedule(b))
<1> DEFINE start == [broker |-> DropStaleReservation(b), left |-> Queued(b)]
           pass[n \in 0 .. b.next] == IF n = 0 THEN start ELSE Turn(pass[n - 1], Now(b))
<1>1. Schedule(b) = IF b.queue_paused THEN b ELSE pass[b.next].broker
  BY DEF Schedule
<1>2. b.next \in Nat /\ Now(b) \in Nat /\ BrokerOK(b)
  BY NowNat DEF Calm, Sound, BrokerOK
<1>3. pass = [n \in 0 .. b.next |-> IF n = 0 THEN start ELSE Turn(pass[n - 1], Now(b))]
  <2> HIDE DEF start
  <2>1. pass = CHOOSE g : g = [n \in 0 .. b.next |->
                                 IF n = 0 THEN start ELSE Turn(g[n - 1], Now(b))]
    BY Zenon
  <2> HIDE DEF pass
  <2> QED BY <1>2, <2>1, PassIsDefined
<1> HIDE DEF pass
<1>4. Running(b, 0, start)
  <2> DEFINE c == DropStaleReservation(b)
  <2>1. /\ c.next = b.next /\ c.leases = b.leases /\ c.training = b.training
        /\ c.queue_paused = b.queue_paused /\ c.effects = b.effects
        /\ c.ollama = b.ollama /\ c.residents = b.residents
        /\ c.interactive = b.interactive /\ c.total_mb = b.total_mb
        /\ c.measured_used_mb = b.measured_used_mb
        /\ c.reserved_for = IF b.reserved_for \in Queued(b) THEN b.reserved_for ELSE Nobody
    BY <1>2 DEF DropStaleReservation, BrokerOK, Broker
  <2>2. Sound(c)
    <3>1. Nobody \in 0 .. b.next
      BY <1>2 DEF Nobody
    <3> QED BY <3>1, ReservationSound DEF DropStaleReservation, Calm
  <2> HIDE DEF c
  <2>3. Kept(b, c) /\ Queued(c) = Queued(b) /\ Granted(c) = Granted(b)
    BY <2>1, <2>2, SameIsKept DEF Queued, Granted, InState
  <2>4. Steady(b, c) /\ Asks(b, c)
    BY <2>1, AsksNobody DEF Steady, SameAccount
  <2>5. IsFiniteSet(Queued(b)) /\ Cardinality(Queued(b)) + 0 <= b.next
    <3>1. 1 \in Int /\ b.next \in Int
      BY <1>2
    <3>2. IsFiniteSet(1 .. b.next)
          /\ Cardinality(1 .. b.next) = IF 1 > b.next THEN 0 ELSE b.next - 1 + 1
      BY <3>1, FS_Interval
    <3>3. Queued(b) \in SUBSET (1 .. b.next)
      BY DEF Queued, InState
    <3>4. IsFiniteSet(Queued(b)) /\ Cardinality(Queued(b)) <= Cardinality(1 .. b.next)
      BY <3>2, <3>3, FS_Subset
    <3>5. Cardinality(Queued(b)) \in Nat
      BY <3>4, FS_CardinalityType
    <3> QED BY <1>2, <3>2, <3>4, <3>5
  <2>6. Reserving(b, c, Queued(b))
    BY <2>1, <2>3 DEF Reserving, Queued, InState, Nobody
  <2>7. RoomLeft(b, c) /\ InOrder(b, c)
    BY <2>3 DEF RoomLeft, InOrder
  <2>8. start.broker = c /\ start.left = Queued(b)
    BY DEF c
  <2>9. NobodyGetsIn(b, c) /\ FirstIsServed(b, c, Queued(b))
    BY <2>1, <2>3 DEF NobodyGetsIn, FirstIsServed
  <2> HIDE DEF start
  <2> QED BY <2>3, <2>4, <2>5, <2>6, <2>7, <2>8, <2>9 DEF Running, PassKept
<1> HIDE DEF start
<1>5. CASE b.queue_paused
  <2>1. Kept(b, b) /\ Steady(b, b) /\ Asks(b, b)
    BY KeptSame, StillSame, AsksNobody DEF Still
  <2> QED BY <1>1, <1>5, <2>1 DEF Scheduled, RoomLeft, InOrder, NobodyGetsIn
<1>6. CASE ~b.queue_paused
  <2> DEFINE T == {n \in 0 .. b.next : ~Running(b, n, pass[n])}
  <2>1. T = {}
    <3>1. SUFFICES ASSUME T # {} PROVE FALSE
      OBVIOUS
    <3>2. PICK m \in T : \A k \in T : m <= k
      <4>1. T \in SUBSET Nat
        BY <1>2
      <4> HIDE DEF T
      <4> QED BY <3>1, <4>1, NatMin
    <3>3. m # 0
      BY <1>2, <1>3, <1>4
    <3>4. /\ m - 1 \in 0 .. b.next /\ m - 1 \notin T
          /\ m - 1 \in Nat /\ m - 1 < b.next /\ m \in Int
      <4>1. m \in 0 .. b.next /\ m - 1 \in 0 .. b.next /\ ~(m <= m - 1)
        BY <1>2, <3>3
      <4> QED BY <1>2, <4>1, <3>2
    <3>5. pass[m] = Turn(pass[m - 1], Now(b))
      BY <1>3, <3>3
    <3>6. Running(b, m - 1, pass[m - 1])
      BY <3>4
    <3> HIDE DEF T
    <3>7. Running(b, (m - 1) + 1, pass[m])
      BY <1>2, <1>6, <3>4, <3>5, <3>6, TurnRuns
    <3>8. (m - 1) + 1 = m
      BY <3>4
    <3> QED BY <3>2, <3>7, <3>8 DEF T
  <2>2. Running(b, b.next, pass[b.next])
    BY <1>2, <2>1
  <2> DEFINE p == pass[b.next]
  <2> HIDE DEF T, p
  <2>3. Schedule(b) = p.broker /\ Running(b, b.next, p)
    BY <1>1, <1>6, <2>2 DEF p
  <2>4. p.left = {}
    <3>1. SUFFICES ASSUME p.left # {} PROVE FALSE
      OBVIOUS
    <3>2. IsFiniteSet(p.left) /\ Cardinality(p.left) + b.next <= b.next
      BY <2>3, <3>1 DEF Running
    <3>3. Cardinality(p.left) \in Nat /\ Cardinality(p.left) # 0
      BY <3>1, <3>2, FS_CardinalityType, FS_EmptySet
    <3> QED BY <1>2, <3>2, <3>3
  <2> QED BY <1>6, <2>3, <2>4 DEF Running, PassKept, Reserving, Scheduled
<1> QED BY <1>5, <1>6

-----------------------------------------------------------------------------
(* What comes before a pass. *)

\* What a turn of the sampler does before a pass: it tells leases something, or ends
\* those that were silent for too long.
Readies(b, x) ==
  /\ Kept(b, x) /\ x.reserved_for = b.reserved_for
  /\ \A i \in 1 .. b.next :
       /\ x.leases[i].job = b.leases[i].job
       /\ x.leases[i].requested_at = b.leases[i].requested_at
       /\ \/ /\ x.leases[i].state = b.leases[i].state
             /\ x.leases[i].priority = b.leases[i].priority
             /\ x.leases[i].held = b.leases[i].held
             /\ x.leases[i].overdue => b.leases[i].overdue
          \/ /\ b.leases[i].state # "ended" /\ x.leases[i].state = "ended"
             /\ b.leases[i].overdue

\* The pass that follows is one of a broker that is calm.
LEMMA PassAfter ==
  ASSUME NEW b, Calm(b), NEW x, Kept(b, x)
  PROVE  Calm(x) /\ Scheduled(x, Schedule(x)) /\ Calm(Schedule(x)) /\ Kept(b, Schedule(x))
<1>1. Calm(x)
  BY KeptTrans
<1>2. Kept(b, Schedule(x))
  BY <1>1, ScheduleKept, KeptTrans
<1> QED BY <1>1, <1>2, ScheduleRuns, KeptTrans

\* A reading changes a field, and then engines and leases are told.
LEMMA FieldReadies ==
  ASSUME NEW b, Calm(b), NEW c, c.next = b.next, c.leases = b.leases,
         c.reserved_for = b.reserved_for,
         NEW x, Kept(b, x), Still(c, x), x.reserved_for = c.reserved_for
  PROVE  Readies(b, x) /\ Granted(x) = Granted(b) /\ Queued(x) = Queued(b)
BY DEF Readies, Still, Steady, SameAccount, Granted, Queued, InState

\* A mode that clears the card grants nobody.
LEMMA ClearForCriticalStill ==
  ASSUME NEW b, Sound(b)
  PROVE  /\ Still(b, ClearForCritical(b))
         /\ ClearForCritical(b).reserved_for = b.reserved_for
<1> DEFINE S == {i \in Granted(b) : Preemptible(b, i) /\ b.leases[i].priority # Critical}
           asked == TellToYield(b, S)
           unloaded == IF IdleOllamaMb(b) > 0 THEN UnloadsOllama(asked) ELSE asked
<1>1. Still(b, asked) /\ asked.reserved_for = b.reserved_for
  BY TellToYieldStill DEF Sound
<1>2. Sound(asked)
  <2>1. \A i \in S : b.leases[i].job.preemptible /\ i \in 1 .. b.next
    BY DEF Preemptible, Granted, InState
  <2> HIDE DEF S
  <2> QED BY <2>1, TellToYieldSound
<1> HIDE DEF asked, S
<1>3. Still(b, unloaded) /\ unloaded.reserved_for = b.reserved_for /\ Sound(unloaded)
  BY <1>1, <1>2, UnloadsOllamaStill, UnloadsOllamaSound, StillTrans DEF Sound
<1> HIDE DEF unloaded
<1>4. ClearForCritical(b) = FreeIdleResident(unloaded)
  BY DEF ClearForCritical, unloaded, asked, S
<1> QED BY <1>3, <1>4, FreeIdleResidentStill, StillTrans DEF Sound

\* While Ollama has not answered it is not asked again.
OllamaWaits(b, c) ==
  b.ollama.unloading =>
    /\ UnloadOllama \notin c.effects \ b.effects
    /\ c.ollama.unloading \/ c.ollama.loaded_mb = 0

\* While a resident has not answered and has its minute it is not asked again.
ResidentWaits(b, c, r) ==
  b.residents[r].freeing /\ ~b.residents[r].late =>
    /\ r \notin c.effects \ b.effects
    /\ \/ ~c.residents[r].present
       \/ /\ c.residents[r].freeing /\ ~c.residents[r].late
          /\ c.residents[r].freeing_from = b.residents[r].freeing_from

\* Who asks as Asks says breaks neither.
LEMMA WaitsOn ==
  ASSUME NEW b, NEW c, NEW d, Asks(c, d), SameAccount(c, d)
  PROVE  /\ OllamaWaits(b, c) => OllamaWaits(b, d)
         /\ \A r \in Resident : ResidentWaits(b, c, r) => ResidentWaits(b, d, r)
<1>1. OllamaWaits(b, c) => OllamaWaits(b, d)
  BY DEF OllamaWaits, Asks, SameAccount
<1>2. ASSUME NEW r \in Resident, ResidentWaits(b, c, r)
      PROVE  ResidentWaits(b, d, r)
  BY <1>2 DEF ResidentWaits, Asks
<1> QED BY <1>1, <1>2

-----------------------------------------------------------------------------
(* The passes of a turn of the sampler. *)

\* What Ollama has loaded.
LEMMA SetOllamaReads ==
  ASSUME NEW b, Calm(b), NEW mb \in Nat
  PROVE  \E x : /\ SetOllama(b, mb) = Schedule(x)
                /\ Readies(b, x) /\ Granted(x) = Granted(b) /\ Queued(x) = Queued(b)
                /\ x.total_mb = b.total_mb /\ x.measured_used_mb = b.measured_used_mb
                /\ x.interactive = b.interactive /\ x.residents = b.residents
                /\ x.ollama.loaded_mb = mb /\ OllamaWaits(b, x)
                /\ \A r \in Resident : r \notin x.effects \ b.effects
<1> DEFINE o == [loaded_mb |-> mb, unloading |-> mb > 0 /\ b.ollama.unloading]
           c == [b EXCEPT !.ollama = o]
           x == IF ReservedForCritical(c) /\ IdleOllamaMb(c) > 0 /\ ~c.ollama.unloading
                THEN UnloadsOllama(c) ELSE c
<1>1. SetOllama(b, mb) = Schedule(x)
  BY DEF SetOllama, Calm, Sound, BrokerOK, Broker
<1>2. /\ o \in [loaded_mb : Nat, unloading : BOOLEAN] /\ o.loaded_mb = mb
      /\ b.ollama.unloading /\ mb > 0 => o.unloading
  OBVIOUS
<1> HIDE DEF o
<1>3. /\ BrokerOK(c) /\ c.next = b.next /\ c.leases = b.leases /\ c.total_mb = b.total_mb
      /\ c.training = b.training /\ c.queue_paused = b.queue_paused
      /\ c.effects = b.effects /\ c.residents = b.residents /\ c.ollama = o
      /\ c.measured_used_mb = b.measured_used_mb /\ c.interactive = b.interactive
      /\ c.reserved_for = b.reserved_for
  BY <1>2 DEF Calm, Sound, BrokerOK, Broker
<1> HIDE DEF c
<1>4. Kept(b, c)
  BY <1>3, SameLeases, SameIsKept DEF Calm, Sound
<1>5. Calm(c)
  BY <1>4, KeptTrans
<1>6. IdleOllamaMb(c) > 0 => Kept(b, UnloadsOllama(c))
  BY <1>4, <1>5, EnginesKept, KeptTrans DEF IdleOllamaMb
<1>7. /\ Kept(b, x) /\ Still(c, x) /\ x.reserved_for = c.reserved_for
      /\ x.residents = c.residents
  <2>1. CASE x = c
    BY <1>4, <2>1, StillSame
  <2>2. CASE x = UnloadsOllama(c) /\ IdleOllamaMb(c) > 0
    <3>1. UnloadsOllama(c).residents = c.residents
      BY <1>3 DEF UnloadsOllama, BrokerOK, Broker
    <3> QED BY <1>3, <1>6, <2>2, <3>1, UnloadsOllamaStill
  <2> QED BY <2>1, <2>2
<1>8. Readies(b, x) /\ Granted(x) = Granted(b) /\ Queued(x) = Queued(b)
  BY <1>3, <1>7, FieldReadies
<1>9. OllamaWaits(b, x) /\ \A r \in Resident : r \notin x.effects \ b.effects
  <2>1. OllamaWaits(b, c)
    BY <1>2, <1>3 DEF OllamaWaits
  <2>2. CASE x = c
    BY <1>3, <2>1, <2>2
  <2>3. CASE x = UnloadsOllama(c) /\ IdleOllamaMb(c) > 0 /\ ~c.ollama.unloading
    <3>1. c.ollama.loaded_mb # 0
      BY <2>3, GpuBrokerAssumption DEF IdleOllamaMb
    <3>2. Asks(c, x) /\ SameAccount(c, x)
      BY <1>3, <2>3, <3>1, UnloadsOllamaStill DEF Still, Steady
    <3>3. x.effects = c.effects \cup {UnloadOllama}
      BY <1>3, <2>3 DEF UnloadsOllama, BrokerOK, Broker
    <3>4. \A r \in Resident : r # UnloadOllama
      BY DEF Resident, UnloadOllama
    <3> QED BY <1>3, <2>1, <3>2, <3>3, <3>4, WaitsOn
  <2> QED BY <2>2, <2>3
<1>10. /\ x.total_mb = b.total_mb /\ x.measured_used_mb = b.measured_used_mb
       /\ x.interactive = b.interactive /\ x.ollama.loaded_mb = mb
  BY <1>2, <1>3, <1>7 DEF Still, Steady, SameAccount
<1> HIDE DEF x
<1> QED BY <1>1, <1>3, <1>7, <1>8, <1>9, <1>10

\* Who is there of the residents, and who is busy.
LEMMA SetResidentsReads ==
  ASSUME NEW b, Calm(b), NEW seen \in [Resident -> [present : BOOLEAN, busy : BOOLEAN]]
  PROVE  \E x : /\ SetResidents(b, seen) = Schedule(x)
                /\ Readies(b, x) /\ Granted(x) = Granted(b) /\ Queued(x) = Queued(b)
                /\ x.total_mb = b.total_mb /\ x.measured_used_mb = b.measured_used_mb
                /\ x.interactive = b.interactive /\ x.ollama = b.ollama
                /\ UnloadOllama \notin x.effects \ b.effects
                /\ \A r \in Resident : ResidentWaits(b, x, r)
<1> DEFINE R == [r \in Resident |->
                   [b.residents[r] EXCEPT !.present = seen[r].present, !.busy = seen[r].busy,
                                          !.freeing = seen[r].present /\ @]]
           c == [b EXCEPT !.residents = R]
           x == IF ReservedForCritical(c) THEN FreeIdleResident(c) ELSE c
<1>1. SetResidents(b, seen) = Schedule(x)
  BY DEF SetResidents
<1>2. ASSUME NEW r \in Resident
      PROVE  /\ R[r] \in ResidentState
             /\ b.residents[r].freeing =>
                  \/ ~R[r].present
                  \/ /\ R[r].freeing /\ R[r].freeing_from = b.residents[r].freeing_from
                     /\ R[r].late = b.residents[r].late
  <2>1. b.residents[r] \in ResidentState
    BY DEF Calm, Sound, BrokerOK, Broker
  <2>2. seen[r] \in [present : BOOLEAN, busy : BOOLEAN]
    OBVIOUS
  <2>3. R[r] = [b.residents[r] EXCEPT !.present = seen[r].present, !.busy = seen[r].busy,
                                      !.freeing = seen[r].present /\ @]
    OBVIOUS
  <2>4. R[r] \in ResidentState
    BY <2>1, <2>2 DEF ResidentState
  <2>5. /\ R[r].present = seen[r].present
        /\ R[r].freeing = (seen[r].present /\ b.residents[r].freeing)
        /\ R[r].freeing_from = b.residents[r].freeing_from
        /\ R[r].late = b.residents[r].late
    BY <2>1, <2>2 DEF ResidentState
  <2> HIDE DEF R
  <2> QED BY <2>4, <2>5
<1>3. R \in [Resident -> ResidentState]
  BY <1>2
<1> HIDE DEF R
<1>4. /\ BrokerOK(c) /\ c.next = b.next /\ c.leases = b.leases /\ c.total_mb = b.total_mb
      /\ c.training = b.training /\ c.queue_paused = b.queue_paused
      /\ c.effects = b.effects /\ c.ollama = b.ollama /\ c.residents = R
      /\ c.measured_used_mb = b.measured_used_mb /\ c.interactive = b.interactive
      /\ c.reserved_for = b.reserved_for
  BY <1>3 DEF Calm, Sound, BrokerOK, Broker
<1> HIDE DEF c
<1>5. Kept(b, c)
  BY <1>4, SameLeases, SameIsKept DEF Calm, Sound
<1>6. Calm(c)
  BY <1>5, KeptTrans
<1>7. /\ Kept(b, x) /\ Still(c, x) /\ x.reserved_for = c.reserved_for /\ Asks(c, x)
      /\ x.ollama = c.ollama /\ UnloadOllama \notin x.effects \ c.effects
  <2>1. CASE x = c
    BY <1>5, <2>1, StillSame, AsksNobody
  <2>2. CASE x = FreeIdleResident(c)
    <3>1. Kept(b, x)
      BY <1>5, <1>6, <2>2, EnginesKept, KeptTrans
    <3>2. x.ollama = c.ollama /\ UnloadOllama \notin x.effects \ c.effects
      <4>1. CASE x = c
        BY <4>1
      <4>2. CASE Reclaimable(c) # 0 /\ x = PushFree(c, FirstIdle(c), ResidentCacheMb(c))
        <5>1. FirstIdle(c) \in Resident
          BY <4>2, FirstIdleIsOne DEF Reclaimable, IdleResidents
        <5>2. /\ x.ollama = c.ollama /\ x.effects = c.effects \cup {FirstIdle(c)}
          BY <1>4, <4>2 DEF PushFree, BrokerOK, Broker
        <5> QED BY <5>1, <5>2 DEF UnloadOllama, Resident
      <4> QED BY <2>2, <4>1, <4>2 DEF FreeIdleResident
    <3> QED BY <1>4, <2>2, <3>1, <3>2, FreeIdleResidentStill
  <2> QED BY <2>1, <2>2
<1>8. Readies(b, x) /\ Granted(x) = Granted(b) /\ Queued(x) = Queued(b)
  BY <1>4, <1>7, FieldReadies
<1>9. \A r \in Resident : ResidentWaits(b, x, r)
  <2>1. \A r \in Resident : ResidentWaits(b, c, r)
    BY <1>2, <1>4 DEF ResidentWaits
  <2> QED BY <1>7, <2>1, WaitsOn DEF Still, Steady
<1>10. x.total_mb = b.total_mb /\ x.measured_used_mb = b.measured_used_mb
       /\ x.interactive = b.interactive
  BY <1>4, <1>7 DEF Still, Steady, SameAccount
<1> HIDE DEF x
<1> QED BY <1>1, <1>4, <1>7, <1>8, <1>9, <1>10

\* What a resident holds by a reading of the card.
CacheAt(b, used) == ResidentCacheMb([b EXCEPT !.measured_used_mb = used])

\* A reading of the card.
LEMMA SetMeasuredReads ==
  ASSUME NEW b, Calm(b), NEW used \in Nat
  PROVE  \E x : /\ SetMeasured(b, used) = Schedule(x)
                /\ Readies(b, x) /\ Granted(x) = Granted(b) /\ Queued(x) = Queued(b)
                /\ x.total_mb = (IF CardTotal > 0 THEN CardTotal ELSE b.total_mb)
                /\ x.measured_used_mb = used
                /\ x.interactive = b.interactive /\ x.ollama = b.ollama
                /\ x.effects = b.effects
                /\ \A r \in Resident :
                     /\ x.residents[r].present = b.residents[r].present
                     /\ \/ CacheAt(b, used) <= b.residents[r].freeing_from \div 2
                        \/ b.residents[r].freeing /\ ~b.residents[r].late =>
                             x.residents[r] = b.residents[r]
<1> DEFINE m == [b EXCEPT !.measured_used_mb = used]
           c == [b EXCEPT !.measured_used_mb = used,
                          !.total_mb = IF CardTotal > 0 THEN CardTotal ELSE @]
           R == [r \in Resident |-> Confirm(c.residents[r], ResidentCacheMb(c))]
           x == [c EXCEPT !.residents = R]
<1>1. /\ BrokerOK(c) /\ c.next = b.next /\ c.leases = b.leases
      /\ c.total_mb \in {ConfigTotal, CardTotal}
      /\ c.total_mb = (IF CardTotal > 0 THEN CardTotal ELSE b.total_mb)
      /\ c.training = b.training /\ c.queue_paused = b.queue_paused
      /\ c.effects = b.effects /\ c.ollama = b.ollama /\ c.residents = b.residents
      /\ c.measured_used_mb = used /\ c.interactive = b.interactive
      /\ c.reserved_for = b.reserved_for
  BY GpuBrokerAssumption DEF Calm, Sound, BrokerOK, Broker
<1>2. SetMeasured(b, used) = Schedule(x)
  BY DEF SetMeasured
<1>3. ResidentCacheMb(m) = ResidentCacheMb(c)
  <2>1. /\ m.next = b.next /\ m.leases = b.leases /\ m.ollama = b.ollama
        /\ m.residents = b.residents /\ m.measured_used_mb = used
    BY DEF Calm, Sound, BrokerOK, Broker
  <2> HIDE DEF m, c
  <2>2. Granted(m) = Granted(c)
    BY <1>1, <2>1 DEF Granted, InState
  <2>3. AccountedMb(m) = AccountedMb(c)
    BY <1>1, <2>1, <2>2 DEF AccountedMb, OllamaInUse, BackendInUse, Megabytes
  <2>4. IdleResidents(m) = IdleResidents(c)
    BY <1>1, <2>1, <2>2 DEF IdleResidents, BackendInUse
  <2> QED BY <1>1, <2>1, <2>3, <2>4 DEF ResidentCacheMb, UnexplainedMb
<1> HIDE DEF m, c
<1>4. ASSUME NEW r \in Resident
      PROVE  /\ R[r] \in ResidentState
             /\ R[r].present = b.residents[r].present
             /\ \/ ResidentCacheMb(c) <= b.residents[r].freeing_from \div 2
                \/ b.residents[r].freeing /\ ~b.residents[r].late =>
                     R[r] = b.residents[r]
  <2>1. b.residents[r] \in ResidentState
    BY DEF Calm, Sound, BrokerOK, Broker
  <2>2. R[r] = Confirm(b.residents[r], ResidentCacheMb(c)) /\ ResidentCacheMb(c) \in Nat
    BY <1>1, Accounting
  <2> HIDE DEF R
  <2>3. R[r] \in ResidentState
    BY <2>1, <2>2 DEF ResidentState, Confirm
  <2>4. CASE ResidentCacheMb(c) <= b.residents[r].freeing_from \div 2
    <3>1. R[r].present = b.residents[r].present
      BY <2>1, <2>2 DEF ResidentState, Confirm
    <3> QED BY <2>3, <2>4, <3>1
  <2>5. CASE ~(ResidentCacheMb(c) <= b.residents[r].freeing_from \div 2)
    <3>1. R[r] = IF ~b.residents[r].freeing THEN b.residents[r]
                 ELSE [b.residents[r] EXCEPT !.freeing = ~b.residents[r].late]
      BY <2>2, <2>5 DEF Confirm
    <3> QED BY <2>1, <2>3, <3>1 DEF ResidentState
  <2> QED BY <2>4, <2>5
<1>5. R \in [Resident -> ResidentState]
  BY <1>4
<1> HIDE DEF R
<1>6. /\ BrokerOK(x) /\ x.next = b.next /\ x.leases = b.leases
      /\ x.total_mb = c.total_mb
      /\ x.training = b.training /\ x.queue_paused = b.queue_paused
      /\ x.effects = b.effects /\ x.ollama = b.ollama /\ x.residents = R
      /\ x.measured_used_mb = used /\ x.interactive = b.interactive
      /\ x.reserved_for = b.reserved_for
  BY <1>1, <1>5 DEF BrokerOK, Broker
<1> HIDE DEF x
<1>7. Kept(b, x)
  BY <1>1, <1>6, SameLeases, SameIsKept DEF Calm
<1>8. Readies(b, x) /\ Granted(x) = Granted(b) /\ Queued(x) = Queued(b)
  BY <1>6, <1>7, StillSame, FieldReadies
<1> QED BY <1>1, <1>2, <1>3, <1>4, <1>6, <1>8 DEF m, CacheAt

\* The programs in front of the user: game mode begins or ends, or nothing is done.
LEMMA SetInteractiveReads ==
  ASSUME NEW b, Calm(b), NEW apps \in SUBSET App
  PROVE  \/ SetInteractive(b, apps) = b /\ apps = b.interactive
         \/ \E x : /\ SetInteractive(b, apps) = Schedule(x)
                   /\ Readies(b, x) /\ Granted(x) = Granted(b) /\ Queued(x) = Queued(b)
                   /\ x.total_mb = b.total_mb /\ x.measured_used_mb = b.measured_used_mb
                   /\ x.interactive = apps /\ apps # b.interactive
                   /\ x.training = b.training /\ x.ollama.loaded_mb = b.ollama.loaded_mb
                   /\ ReservedForCritical(b) \/ ~ReservedForCritical(x) => SameEngines(b, x)
<1> DEFINE c == [b EXCEPT !.interactive = apps]
           x == IF ~ReservedForCritical(b) /\ ReservedForCritical(c)
                THEN ClearForCritical(c) ELSE c
<1>1. CASE apps = b.interactive
  BY <1>1 DEF SetInteractive
<1>2. CASE apps # b.interactive
  <2>1. SetInteractive(b, apps) = Schedule(x)
    BY <1>2 DEF SetInteractive
  <2>2. /\ BrokerOK(c) /\ c.next = b.next /\ c.leases = b.leases /\ c.total_mb = b.total_mb
        /\ c.training = b.training /\ c.queue_paused = b.queue_paused
        /\ c.effects = b.effects /\ c.ollama = b.ollama /\ c.residents = b.residents
        /\ c.measured_used_mb = b.measured_used_mb /\ c.interactive = apps
        /\ c.reserved_for = b.reserved_for
    BY DEF Calm, Sound, BrokerOK, Broker
  <2> HIDE DEF c
  <2>3. Kept(b, c)
    BY <2>2, SameLeases, SameIsKept DEF Calm, Sound
  <2>4. Calm(c)
    BY <2>3, KeptTrans
  <2>5. Kept(b, x) /\ Still(c, x) /\ x.reserved_for = c.reserved_for
    BY <2>3, <2>4, ClearForCriticalKept, ClearForCriticalStill, StillSame, KeptTrans DEF Calm
  <2>6. Readies(b, x) /\ Granted(x) = Granted(b) /\ Queued(x) = Queued(b)
    BY <2>2, <2>5, FieldReadies
  <2>7. /\ x.total_mb = b.total_mb /\ x.measured_used_mb = b.measured_used_mb
        /\ x.interactive = apps /\ x.training = b.training
        /\ x.ollama.loaded_mb = b.ollama.loaded_mb
    BY <2>2, <2>5 DEF Still, Steady, SameAccount
  <2>8. ReservedForCritical(c) = ReservedForCritical(x)
    BY <2>2, <2>7 DEF ReservedForCritical
  <2>9. ReservedForCritical(b) \/ ~ReservedForCritical(x) => SameEngines(b, x)
    BY <2>2, <2>8 DEF SameEngines
  <2> HIDE DEF x
  <2> QED BY <1>2, <2>1, <2>6, <2>7, <2>9
<1> QED BY <1>1, <1>2

\* The expiry of who was silent for too long.
LEMMA TickReads ==
  ASSUME NEW b, Calm(b)
  PROVE  \E x : /\ Tick(b) = Schedule(x)
                /\ Readies(b, x) /\ SameEngines(b, x)
                /\ x.total_mb = b.total_mb /\ x.measured_used_mb = b.measured_used_mb
                /\ x.interactive = b.interactive
<1> DEFINE S == {i \in Active(b) : b.leases[i].overdue}
           x == End(b, S, "expired")
<1>1. BrokerOK(b)
  BY DEF Calm, Sound
<1>2. Kept(b, x)
  BY EndKept
<1>3. /\ x.next = b.next /\ x.reserved_for = b.reserved_for /\ SameEngines(b, x)
      /\ x.total_mb = b.total_mb /\ x.measured_used_mb = b.measured_used_mb
      /\ x.interactive = b.interactive
  BY <1>1 DEF End, SameEngines, BrokerOK, Broker
<1>4. ASSUME NEW i \in 1 .. b.next
      PROVE  /\ x.leases[i].job = b.leases[i].job
             /\ x.leases[i].requested_at = b.leases[i].requested_at
             /\ \/ /\ x.leases[i].state = b.leases[i].state
                   /\ x.leases[i].priority = b.leases[i].priority
                   /\ x.leases[i].held = b.leases[i].held
                   /\ x.leases[i].overdue => b.leases[i].overdue
                \/ /\ b.leases[i].state # "ended" /\ x.leases[i].state = "ended"
                   /\ b.leases[i].overdue
  <2>1. b.leases[i] \in Lease
    BY <1>1, LeaseFields
  <2>2. CASE i \in S
    <3>1. x.leases[i] = [b.leases[i] EXCEPT !.state = "ended", !.outcome = "expired",
                           !.priority = b.leases[i].job.priority, !.directive = "continue",
                           !.held = FALSE, !.overdue = FALSE]
      BY <1>1, <2>2 DEF End, BrokerOK, Broker
    <3>2. b.leases[i].overdue /\ b.leases[i].state # "ended"
      BY <2>2 DEF Active, Queued, Granted, InState
    <3> HIDE DEF x, S
    <3>3. /\ x.leases[i].job = b.leases[i].job
          /\ x.leases[i].requested_at = b.leases[i].requested_at
          /\ x.leases[i].state = "ended"
      BY <2>1, <3>1 DEF Lease
    <3> QED BY <3>2, <3>3
  <2>3. CASE i \notin S
    <3>1. x.leases[i] = b.leases[i]
      BY <1>1, <2>3 DEF End, BrokerOK, Broker
    <3> QED BY <3>1
  <2> QED BY <2>2, <2>3
<1>5. Tick(b) = Schedule(x)
  BY DEF Tick
<1> HIDE DEF x
<1> QED BY <1>2, <1>3, <1>4, <1>5 DEF Readies

\* A turn of the sampler, reading by reading.
Loaded(s) == SetOllama(broker, s.ollama_mb)
SeenThen(s) == SetResidents(Loaded(s), s.seen)
Measured(s) == SetMeasured(SeenThen(s), s.used_mb)
Read(s) == IF s.reading THEN SetInteractive(Measured(s), s.apps) ELSE SeenThen(s)

LEMMA SampleReads ==
  ASSUME NEW s \in Sampled, Calm(broker), Sample(s)
  PROVE  /\ broker' = Tick(Read(s))
         /\ s.ollama_mb \in Nat /\ s.used_mb \in Nat /\ s.apps \in SUBSET App
         /\ s.seen \in [Resident -> [present : BOOLEAN, busy : BOOLEAN]]
         /\ s.reading \in BOOLEAN
         /\ Calm(Loaded(s)) /\ Calm(SeenThen(s)) /\ Calm(Measured(s)) /\ Calm(Read(s))
<1>1. /\ s.ollama_mb \in Nat /\ s.used_mb \in Nat /\ s.apps \in SUBSET App
      /\ s.seen \in [Resident -> [present : BOOLEAN, busy : BOOLEAN]]
      /\ s.reading \in BOOLEAN
  BY GpuBrokerAssumption DEF SampleType
<1>2. Calm(Loaded(s))
  BY <1>1, SetOllamaKept, KeptTrans DEF Loaded
<1>3. Calm(SeenThen(s))
  BY <1>1, <1>2, SetResidentsKept, KeptTrans DEF SeenThen
<1>4. Calm(Measured(s))
  BY <1>1, <1>3, SetMeasuredKept, KeptTrans DEF Measured
<1>5. Calm(Read(s))
  BY <1>1, <1>3, <1>4, SetInteractiveKept, KeptTrans DEF Read
<1>6. broker' = Tick(Read(s))
  BY DEF Sample, Read, Measured, SeenThen, Loaded
<1> QED BY <1>1, <1>2, <1>3, <1>4, <1>5, <1>6

-----------------------------------------------------------------------------
(* Memory that is there. *)

\* The reservation is for someone who waits, unless the queue stands still.
NoStaleReservation(b) ==
  ~b.queue_paused => b.reserved_for \in Queued(b) \cup {Nobody}

\* Every step ends with a pass, or changes nothing a pass looks at.
LEMMA StepSchedules ==
  ASSUME Calm(broker), [Next]_broker
  PROVE  \/ UNCHANGED broker
         \/ \E x : Calm(x) /\ broker' = Schedule(x) /\ Scheduled(x, broker')
         \/ Kept(broker, broker') /\ Rests(broker, broker')
<1>1. CASE Runs
  <2>1. PICK c, x : Prepares(broker, c, x) /\ broker' = Schedule(x)
    BY <1>1 DEF Runs
  <2>2. Calm(c) /\ Kept(c, x)
    BY <2>1, OpensCalm DEF Prepares
  <2> QED BY <2>1, <2>2, PassAfter
<1>2. ASSUME NEW s \in Sampled, Sample(s)
      PROVE  \E x : Calm(x) /\ broker' = Schedule(x) /\ Scheduled(x, broker')
  <2>1. Calm(Read(s)) /\ broker' = Tick(Read(s))
    BY <1>2, SampleReads
  <2>2. PICK x : Tick(Read(s)) = Schedule(x) /\ Readies(Read(s), x)
    BY <2>1, TickReads
  <2> QED BY <2>1, <2>2, PassAfter DEF Readies
<1> QED BY <1>1, <1>2, ClientRuns, UserRuns, ServerRests DEF Next, Server

\* What a step changes nothing of, the scheduler sees as it was.
LEMMA RestsIsSame ==
  ASSUME NEW b, BrokerOK(b), NEW d, BrokerOK(d), Rests(b, d)
  PROVE  /\ Queued(d) = Queued(b) /\ Granted(d) = Granted(b)
         /\ OllamaInUse(d) = OllamaInUse(b) /\ FreeMb(d) = FreeMb(b)
         /\ \A i \in 1 .. b.next : Fits(d, i) = Fits(b, i) /\ Blocked(d, i) = Blocked(b, i)
<1>1. Queued(d) = Queued(b) /\ Granted(d) = Granted(b)
  BY DEF Rests, Queued, Granted, InState
<1>2. \A i \in Granted(b) \cup Active(b) : i \in 1 .. b.next
  BY DEF Active, Queued, Granted, InState
<1>3. OllamaInUse(d) = OllamaInUse(b)
  BY <1>1, <1>2 DEF Rests, OllamaInUse, BackendInUse
<1>4. FreeMb(d) = FreeMb(b)
  <2>1. SameAccount(b, d) /\ SameAccount(d, b)
    BY DEF Rests, SameAccount
  <2>2. FreeMb(b) <= FreeMb(d) /\ FreeMb(d) <= FreeMb(b)
    BY <1>1, <1>3, <2>1, FreeOfFewer
  <2>3. FreeMb(b) \in Nat /\ FreeMb(d) \in Nat
    BY Accounting
  <2> QED BY <2>2, <2>3
<1>5. ASSUME NEW i \in 1 .. b.next
      PROVE  Fits(d, i) = Fits(b, i) /\ Blocked(d, i) = Blocked(b, i)
  <2>1. d.leases[i].job = b.leases[i].job
    BY DEF Rests
  <2>2. KeptMb(d, i) = KeptMb(b, i)
    BY <1>1, <1>2 DEF Rests, KeptMb, Active
  <2>3. Blocked(d, i) = Blocked(b, i)
    BY DEF Rests, Blocked, ReservedForCritical
  <2> QED BY <1>4, <2>1, <2>2, <2>3 DEF Fits
<1> QED BY <1>1, <1>3, <1>4, <1>5

IdleInv == Calm(broker) /\ NoIdleMemory /\ NoStaleReservation(broker)

LEMMA IdleInvAlways == Spec => []IdleInv
<1>1. Init => IdleInv
  <2> SUFFICES ASSUME Init PROVE IdleInv
    OBVIOUS
  <2>1. Calm(broker)
    <3>1. broker.next = 0
      BY DEF Init
    <3> QED BY <3>1, InitSound DEF Calm, Quiet
  <2>2. broker.next = 0 /\ broker.reserved_for = Nobody
    BY DEF Init
  <2> QED BY <2>1, <2>2 DEF IdleInv, NoIdleMemory, NoStaleReservation, Queued, InState
<1>2. IdleInv /\ [Next]_broker => IdleInv'
  <2> SUFFICES ASSUME IdleInv, [Next]_broker
               PROVE  Calm(broker') /\ NoIdleMemory' /\ NoStaleReservation(broker')
    BY DEF IdleInv, Calm, Sound, BrokerOK, Broker, FitsTheCard, OnlyThePreemptibleYield, Quiet,
           NoStaleReservation
  <2>0. Calm(broker) /\ Calm(broker') /\ BrokerOK(broker) /\ BrokerOK(broker')
    BY StepGoes DEF IdleInv, Calm, Sound
  <2>1. CASE UNCHANGED broker
    BY <2>1 DEF IdleInv, NoIdleMemory, NoStaleReservation
  <2>2. ASSUME NEW x, Scheduled(x, broker') PROVE NoIdleMemory' /\ NoStaleReservation(broker')
    <3>1. broker'.queue_paused = x.queue_paused
      BY <2>2 DEF Scheduled, Steady
    <3> QED BY <2>2, <3>1
            DEF Scheduled, TurnedAway, NoIdleMemory, NoStaleReservation, Queued, InState,
                OllamaInUse, BackendInUse
  <2>3. CASE Rests(broker, broker')
    <3>1. Queued(broker) \subseteq 1 .. broker.next
      BY DEF Queued, InState
    <3> QED BY <2>0, <2>3, <3>1, RestsIsSame DEF IdleInv, NoIdleMemory, NoStaleReservation, Rests
  <2> QED BY <2>0, <2>1, <2>2, <2>3, StepSchedules
<1> QED BY <1>1, <1>2, PTL DEF Spec

\* No lease waits for memory that is there: whatever a step does, it ends with a pass
\* that turned away who goes on waiting, or it changed nothing a pass looks at
\* (schedule, and every handler that calls it).
THEOREM NothingLiesIdle == Spec => []NoIdleMemory
BY IdleInvAlways, PTL DEF IdleInv

-----------------------------------------------------------------------------
(* Memory that is kept. *)

\* What the broker was told of the card.
Card(b) == <<b.total_mb, b.measured_used_mb, b.ollama.loaded_mb>>

\* A turn of the sampler that brings no news of the memory knows the card from its
\* first pass to its last.
LEMMA CardIsKnown ==
  ASSUME NEW s \in Sampled, Calm(broker), Sample(s),
         broker'.measured_used_mb = broker.measured_used_mb,
         broker'.total_mb = broker.total_mb,
         broker'.ollama.loaded_mb = broker.ollama.loaded_mb
  PROVE  /\ Card(Loaded(s)) = Card(broker) /\ Card(SeenThen(s)) = Card(broker)
         /\ s.reading => Card(Measured(s)) = Card(broker)
         /\ Card(Read(s)) = Card(broker) /\ Card(broker') = Card(broker)
<1>0. /\ broker' = Tick(Read(s))
      /\ s.ollama_mb \in Nat /\ s.used_mb \in Nat /\ s.apps \in SUBSET App
      /\ s.seen \in [Resident -> [present : BOOLEAN, busy : BOOLEAN]]
      /\ Calm(Loaded(s)) /\ Calm(SeenThen(s)) /\ Calm(Measured(s)) /\ Calm(Read(s))
  BY SampleReads
<1>1. ASSUME NEW b, Calm(b), NEW x, Readies(b, x)
      PROVE  Card(Schedule(x)) = Card(x)
  <2>1. Scheduled(x, Schedule(x))
    BY <1>1, PassAfter DEF Readies
  <2> QED BY <2>1 DEF Scheduled, Steady, SameAccount, Card
<1>2. /\ Loaded(s).total_mb = broker.total_mb
      /\ Loaded(s).measured_used_mb = broker.measured_used_mb
  <2>1. PICK x : /\ Loaded(s) = Schedule(x) /\ Readies(broker, x)
                 /\ x.total_mb = broker.total_mb
                 /\ x.measured_used_mb = broker.measured_used_mb
    BY <1>0, SetOllamaReads DEF Loaded
  <2> QED BY <1>1, <2>1 DEF Card
<1>3. Card(SeenThen(s)) = Card(Loaded(s))
  <2>1. PICK x : /\ SeenThen(s) = Schedule(x) /\ Readies(Loaded(s), x)
                 /\ x.total_mb = Loaded(s).total_mb /\ x.ollama = Loaded(s).ollama
                 /\ x.measured_used_mb = Loaded(s).measured_used_mb
    BY <1>0, SetResidentsReads DEF SeenThen
  <2> QED BY <1>0, <1>1, <2>1 DEF Card
<1>4. Measured(s).ollama.loaded_mb = SeenThen(s).ollama.loaded_mb
  <2>1. PICK x : /\ Measured(s) = Schedule(x) /\ Readies(SeenThen(s), x)
                 /\ x.ollama = SeenThen(s).ollama
    BY <1>0, SetMeasuredReads DEF Measured
  <2> QED BY <1>0, <1>1, <2>1 DEF Card
<1>5. s.reading => Card(Read(s)) = Card(Measured(s))
  <2> SUFFICES ASSUME s.reading PROVE Card(Read(s)) = Card(Measured(s))
    OBVIOUS
  <2>1. Read(s) = SetInteractive(Measured(s), s.apps)
    BY DEF Read
  <2>2. CASE Read(s) = Measured(s)
    BY <2>2
  <2>3. CASE Read(s) # Measured(s)
    <3>1. PICK x : /\ Read(s) = Schedule(x) /\ Readies(Measured(s), x)
                   /\ x.total_mb = Measured(s).total_mb
                   /\ x.measured_used_mb = Measured(s).measured_used_mb
                   /\ x.ollama.loaded_mb = Measured(s).ollama.loaded_mb
      BY <1>0, <2>1, <2>3, SetInteractiveReads
    <3> QED BY <1>0, <1>1, <3>1 DEF Card
  <2> QED BY <2>2, <2>3
<1>6. Card(broker') = Card(Read(s))
  <2>1. PICK x : /\ broker' = Schedule(x) /\ Readies(Read(s), x)
                 /\ SameEngines(Read(s), x) /\ x.total_mb = Read(s).total_mb
                 /\ x.measured_used_mb = Read(s).measured_used_mb
    BY <1>0, TickReads
  <2> QED BY <1>0, <1>1, <2>1 DEF Card, SameEngines
<1>7. CASE s.reading
  BY <1>2, <1>3, <1>4, <1>5, <1>6, <1>7 DEF Card
<1>8. CASE ~s.reading
  <2>1. Read(s) = SeenThen(s)
    BY <1>8 DEF Read
  <2> QED BY <1>2, <1>3, <1>6, <1>8, <2>1 DEF Card
<1> QED BY <1>7, <1>8

\* Who was granted since a has been heard from.
Fresh(a, c) == \A i \in Granted(c) \ Granted(a) : ~c.leases[i].overdue

\* A turn of the sampler that began at a has kept the reservation of r, and if it
\* granted anybody it left room for r.
KeepsRoom(a, c, r) ==
  /\ Calm(c) /\ SameAccount(a, c) /\ c.reserved_for = r /\ Fresh(a, c)
  /\ Granted(c) \subseteq Granted(a) \/ a.leases[r].job.vram_mb <= FreeMb(c)

\* Its next pass does so too, while r waits.
LEMMA PassKeepsRoom ==
  ASSUME NEW a, NEW r \in 1 .. a.next, NEW b, KeepsRoom(a, b, r),
         NEW x, Readies(b, x), Card(x) = Card(a),
         NEW d, d = Schedule(x), r \in Queued(d),
         Granted(d) = Granted(x) /\ OllamaInUse(b) => OllamaInUse(x)
  PROVE  KeepsRoom(a, d, r)
<1>1. /\ Calm(b) /\ Calm(x) /\ Calm(d) /\ Scheduled(x, d) /\ Steady(x, d)
      /\ BrokerOK(b) /\ BrokerOK(x) /\ BrokerOK(d)
  BY PassAfter DEF KeepsRoom, Readies, Scheduled, Calm, Sound
<1>2. x.next = b.next /\ b.next = a.next
  BY DEF Readies, Kept, Soft, KeepsRoom, SameAccount
<1>3. SameAccount(a, x) /\ SameAccount(a, d)
  <2>1. SameAccount(a, x)
    BY <1>2 DEF Readies, KeepsRoom, SameAccount, Card
  <2> QED BY <1>1, <2>1 DEF Steady, SameAccount
<1>4. d.reserved_for = r /\ x.reserved_for = r /\ r # Nobody
  <2>1. x.reserved_for = r
    BY DEF Readies, KeepsRoom
  <2> QED BY <1>1, <2>1 DEF Scheduled, Nobody
<1>5. Granted(x) \subseteq Granted(b)
  BY <1>2 DEF Readies, Granted, InState
<1>6. Fresh(a, d)
  <2>1. ASSUME NEW i \in Granted(d) \ Granted(a) PROVE ~d.leases[i].overdue
    <3>1. CASE i \in Granted(x)
      <4>1. i \in Granted(b) /\ i \in 1 .. b.next /\ x.leases[i].state = "granted"
        BY <1>2, <1>5, <3>1 DEF Granted, InState
      <4>2. ~b.leases[i].overdue
        BY <2>1, <4>1 DEF KeepsRoom, Fresh
      <4>3. ~x.leases[i].overdue
        BY <4>1, <4>2 DEF Readies
      <4> QED BY <1>1, <1>2, <4>1, <4>3 DEF Steady
    <3>2. CASE i \notin Granted(x)
      BY <1>1, <2>1, <3>2, SteadyStates
    <3> QED BY <3>1, <3>2
  <2> QED BY <2>1 DEF Fresh
<1>7. Granted(d) \subseteq Granted(a) \/ a.leases[r].job.vram_mb <= FreeMb(d)
  <2>1. d.leases[r].job = a.leases[r].job
    BY <1>3 DEF SameAccount
  <2>2. CASE Granted(d) # Granted(x)
    BY <1>1, <1>4, <2>1, <2>2 DEF Scheduled, RoomLeft
  <2>3. CASE Granted(d) = Granted(x) /\ ~(Granted(d) \subseteq Granted(a))
    <3>1. a.leases[r].job.vram_mb <= FreeMb(b)
      BY <1>5, <2>3 DEF KeepsRoom
    <3>2. SameAccount(b, d)
      BY <1>2, <1>3 DEF KeepsRoom, SameAccount
    <3>3. OllamaInUse(b) => OllamaInUse(d)
      BY <1>1, <2>3, SteadyStates
    <3>4. FreeMb(b) <= FreeMb(d)
      BY <1>1, <1>5, <2>3, <3>2, <3>3, FreeOfFewer
    <3>5. FreeMb(b) \in Nat /\ FreeMb(d) \in Nat /\ a.leases[r].job.vram_mb \in Nat
      <4>1. d.leases[r].job.vram_mb \in Nat
        BY <1>1, <1>2, <1>3, LeaseFields DEF SameAccount
      <4> QED BY <1>1, <2>1, <4>1, Accounting
    <3> QED BY <3>1, <3>4, <3>5
  <2> QED BY <2>2, <2>3
<1> QED BY <1>1, <1>3, <1>4, <1>6, <1>7 DEF KeepsRoom

\* Who waits after a step that presses no button waited before it.
LEMMA KeptQueued ==
  ASSUME NEW b, NEW d, Kept(b, d)
  PROVE  Queued(d) \subseteq Queued(b)
BY DEF Kept, Soft, Gentle, Queued, InState

\* A reading changes nothing of who works on Ollama.
LEMMA ReadyInUse ==
  ASSUME NEW b, NEW x, Readies(b, x), Granted(x) = Granted(b)
  PROVE  OllamaInUse(x) = OllamaInUse(b)
<1>1. \A i \in Granted(b) : x.leases[i].job = b.leases[i].job
  BY DEF Readies, Granted, InState
<1> QED BY <1>1 DEF OllamaInUse, BackendInUse

\* A turn of the sampler without news of the memory leaves room for who has the
\* reservation from its beginning to its end.
LEMMA SampleKeepsRoom ==
  ASSUME NEW s \in Sampled, Calm(broker), Sample(s), NoNewsOfMemory,
         NEW r, r = broker.reserved_for, r \in Queued(broker')
  PROVE  KeepsRoom(broker, broker', r)
<1>0. /\ broker' = Tick(Read(s))
      /\ s.ollama_mb \in Nat /\ s.used_mb \in Nat /\ s.apps \in SUBSET App
      /\ s.seen \in [Resident -> [present : BOOLEAN, busy : BOOLEAN]]
      /\ Calm(Loaded(s)) /\ Calm(SeenThen(s)) /\ Calm(Measured(s)) /\ Calm(Read(s))
  BY SampleReads
<1>1. /\ Card(Loaded(s)) = Card(broker) /\ Card(SeenThen(s)) = Card(broker)
      /\ s.reading => Card(Measured(s)) = Card(broker)
      /\ Card(Read(s)) = Card(broker) /\ Card(broker') = Card(broker)
  BY CardIsKnown DEF NoNewsOfMemory
<1>2. ASSUME NEW b, Calm(b), NEW x, Readies(b, x)
      PROVE  Card(Schedule(x)) = Card(x) /\ Queued(Schedule(x)) \subseteq Queued(b)
  <2>1. Scheduled(x, Schedule(x)) /\ Kept(b, Schedule(x))
    BY <1>2, PassAfter DEF Readies
  <2> QED BY <2>1, KeptQueued DEF Scheduled, Steady, SameAccount, Card
<1>3. PICK x1 : /\ Loaded(s) = Schedule(x1) /\ Readies(broker, x1)
                /\ Granted(x1) = Granted(broker)
  BY <1>0, SetOllamaReads DEF Loaded
<1>4. PICK x2 : /\ SeenThen(s) = Schedule(x2) /\ Readies(Loaded(s), x2)
                /\ Granted(x2) = Granted(Loaded(s))
  BY <1>0, SetResidentsReads DEF SeenThen
<1>5. PICK x3 : /\ Measured(s) = Schedule(x3) /\ Readies(SeenThen(s), x3)
                /\ Granted(x3) = Granted(SeenThen(s))
  BY <1>0, SetMeasuredReads DEF Measured
<1>6. \/ Read(s) = SeenThen(s)
      \/ s.reading /\ Read(s) = Measured(s)
      \/ /\ s.reading
         /\ \E x : /\ Read(s) = Schedule(x) /\ Readies(Measured(s), x)
                   /\ Granted(x) = Granted(Measured(s))
  BY <1>0, SetInteractiveReads DEF Read
<1>7. PICK x5 : broker' = Schedule(x5) /\ Readies(Read(s), x5)
  BY <1>0, TickReads
<1>8. r \in Queued(Read(s))
  BY <1>0, <1>2, <1>7
<1>9. s.reading /\ Read(s) # SeenThen(s) => r \in Queued(Measured(s))
  BY <1>0, <1>2, <1>6, <1>8
<1>10. r \in Queued(SeenThen(s))
  BY <1>0, <1>2, <1>5, <1>6, <1>8, <1>9
<1>11. r \in Queued(Loaded(s)) /\ r \in Queued(broker)
  BY <1>0, <1>2, <1>3, <1>4, <1>10
<1>12. r \in 1 .. broker.next
  BY <1>11 DEF Queued, InState
<1>13. KeepsRoom(broker, broker, r)
  BY DEF KeepsRoom, SameAccount, Fresh
<1>14. KeepsRoom(broker, Loaded(s), r)
  <2>1. Card(x1) = Card(broker)
    BY <1>1, <1>2, <1>3
  <2> QED BY <1>3, <1>11, <1>12, <1>13, <2>1, ReadyInUse, PassKeepsRoom
<1>15. KeepsRoom(broker, SeenThen(s), r)
  <2>1. Card(x2) = Card(broker)
    BY <1>0, <1>1, <1>2, <1>4
  <2> QED BY <1>4, <1>10, <1>12, <1>14, <2>1, ReadyInUse, PassKeepsRoom
<1>16. s.reading /\ Read(s) # SeenThen(s) => KeepsRoom(broker, Measured(s), r)
  <2> SUFFICES ASSUME s.reading, Read(s) # SeenThen(s)
               PROVE  KeepsRoom(broker, Measured(s), r)
    OBVIOUS
  <2>1. Card(x3) = Card(broker)
    BY <1>0, <1>1, <1>2, <1>5
  <2> QED BY <1>5, <1>9, <1>12, <1>15, <2>1, ReadyInUse, PassKeepsRoom
<1>17. KeepsRoom(broker, Read(s), r)
  <2>1. CASE Read(s) = SeenThen(s)
    BY <1>15, <2>1
  <2>2. CASE Read(s) # SeenThen(s) /\ Read(s) = Measured(s)
    BY <1>6, <1>16, <2>2
  <2>3. CASE Read(s) # SeenThen(s) /\ Read(s) # Measured(s)
    <3>1. s.reading
      BY <1>6, <2>3
    <3>2. PICK x : /\ Read(s) = Schedule(x) /\ Readies(Measured(s), x)
                   /\ Granted(x) = Granted(Measured(s))
      BY <1>6, <2>3
    <3>3. Card(x) = Card(broker)
      BY <1>0, <1>1, <1>2, <3>2
    <3> QED BY <1>8, <1>12, <1>16, <2>3, <3>1, <3>2, <3>3, ReadyInUse, PassKeepsRoom
  <2> QED BY <2>1, <2>2, <2>3
<1>18. Card(x5) = Card(broker)
  BY <1>0, <1>1, <1>2, <1>7
<1>19. ASSUME Granted(broker') = Granted(x5), OllamaInUse(Read(s)) PROVE OllamaInUse(x5)
  <2>1. Scheduled(x5, broker') /\ x5.next = Read(s).next
    BY <1>0, <1>7, PassAfter DEF Readies, Kept, Soft
  <2>2. PICK i \in Granted(Read(s)) : Read(s).leases[i].job.backend = "ollama"
    BY <1>19 DEF OllamaInUse, BackendInUse
  <2>3. i \in 1 .. Read(s).next /\ i \in 1 .. broker.next
    BY <1>17, <2>2 DEF Granted, InState, KeepsRoom, SameAccount
  <2>4. CASE i \in Granted(broker)
    <3>1. OllamaInUse(broker)
      BY <1>17, <2>2, <2>3, <2>4 DEF OllamaInUse, BackendInUse, KeepsRoom, SameAccount
    <3>2. PICK j \in Granted(broker') : broker'.leases[j].job.backend = "ollama"
      BY <3>1 DEF NoNewsOfMemory, OllamaInUse, BackendInUse
    <3>3. j \in Granted(x5) /\ j \in 1 .. x5.next
      BY <1>19, <3>2 DEF Granted, InState
    <3>4. x5.leases[j].job = broker'.leases[j].job
      BY <2>1, <3>3 DEF Scheduled, Steady, SameAccount
    <3> QED BY <3>2, <3>3, <3>4 DEF OllamaInUse, BackendInUse
  <2>5. CASE i \notin Granted(broker)
    <3>1. ~Read(s).leases[i].overdue
      BY <1>17, <2>2, <2>5 DEF KeepsRoom, Fresh
    <3>2. x5.leases[i].state = Read(s).leases[i].state
          /\ x5.leases[i].job = Read(s).leases[i].job
      BY <1>7, <2>3, <3>1 DEF Readies
    <3>3. i \in Granted(x5)
      BY <2>1, <2>2, <2>3, <3>2 DEF Granted, InState
    <3> QED BY <2>2, <3>2, <3>3 DEF OllamaInUse, BackendInUse
  <2> QED BY <2>4, <2>5
<1> QED BY <1>7, <1>12, <1>17, <1>18, <1>19, PassKeepsRoom

\* The memory that is being freed for a lease is for it, whatever a step without news of
\* the memory grants to others (schedule, and every handler that calls it).
THEOREM RoomIsReserved == Spec => RoomStaysReserved
<1> DEFINE Reserved == \A i \in Granted(broker') \ Granted(broker) :
       LET r == broker.reserved_for
       IN  r \notin {Nobody, i} /\ broker'.reserved_for = r /\ NoNewsOfMemory
             => broker'.leases[r].job.vram_mb <= FreeMb(broker')
<1>1. IdleInv /\ IdleInv' /\ [Next]_broker => [Reserved]_broker
  <2> DEFINE r == broker.reserved_for
  <2> SUFFICES ASSUME IdleInv, IdleInv', [Next]_broker,
                      NEW i \in Granted(broker') \ Granted(broker),
                      r # Nobody, broker'.reserved_for = r, NoNewsOfMemory
               PROVE  broker'.leases[r].job.vram_mb <= FreeMb(broker')
    OBVIOUS
  <2>0. Calm(broker) /\ BrokerOK(broker) /\ BrokerOK(broker')
        /\ NoStaleReservation(broker')
    BY DEF IdleInv, Calm, Sound
  <2>1. CASE UNCHANGED broker
    BY <2>1 DEF Granted, InState
  <2>2. CASE Runs
    <3>1. PICK c, x : Prepares(broker, c, x) /\ broker' = Schedule(x)
      BY <2>2 DEF Runs
    <3>2. Scheduled(x, broker')
      BY <2>0, <3>1, OpensCalm, PassAfter DEF Prepares
    <3>3. Granted(broker') # Granted(x) /\ x.reserved_for = r
      BY <3>1 DEF Prepares
    <3> QED BY <3>2, <3>3 DEF Scheduled, RoomLeft
  <2>3. ASSUME NEW s \in Sampled, Sample(s)
        PROVE  broker'.leases[r].job.vram_mb <= FreeMb(broker')
    <3>1. ~broker'.queue_paused
      <4>1. i \in 1 .. broker'.next /\ broker'.leases[i].state = "granted"
            /\ Kept(broker, broker')
        BY <2>0, <2>3, SampleKept DEF Granted, InState
      <4>2. i \in 1 .. broker.next /\ broker.leases[i].state = "queued"
        <5>1. broker'.next = broker.next
          BY <4>1 DEF Kept, Soft
        <5>2. i \in 1 .. broker.next /\ broker.leases[i].state # "granted"
          BY <4>1, <5>1 DEF Granted, InState
        <5>3. broker.leases[i] \in Lease
          BY <2>0, <5>2, LeaseFields
        <5> QED BY <4>1, <5>2, <5>3 DEF Kept, Soft, Gentle, Lease
      <4> QED BY <4>1, <4>2 DEF Kept, Soft, LetIn
    <3>2. r \in Queued(broker')
      BY <2>0, <3>1 DEF NoStaleReservation
    <3>3. KeepsRoom(broker, broker', r)
      BY <2>0, <2>3, <3>2, SampleKeepsRoom
    <3>4. broker'.leases[r].job = broker.leases[r].job
      BY <3>2, <3>3 DEF KeepsRoom, SameAccount, Queued, InState
    <3> QED BY <3>3, <3>4 DEF KeepsRoom
  <2>4. CASE Rests(broker, broker')
    BY <2>0, <2>4, RestsIsSame
  <2> QED BY <2>0, <2>1, <2>2, <2>3, <2>4, ClientRuns, UserRuns, ServerRests DEF Next, Server
<1>2. Spec => []IdleInv
  BY IdleInvAlways
<1> QED BY <1>1, <1>2, PTL DEF Spec, RoomStaysReserved

-----------------------------------------------------------------------------
(* Who was asked. *)

\* A turn of the sampler with which no mode begins asks nobody again who has not
\* answered.
LEMMA SampleWaits ==
  ASSUME NEW s \in Sampled, Calm(broker), Sample(s),
         ReservedForCritical(broker) \/ ~ReservedForCritical(broker')
  PROVE  /\ OllamaWaits(broker, broker')
         /\ \A r \in Resident : Answered(r) \/ ResidentWaits(broker, broker', r)
<1>0. /\ broker' = Tick(Read(s))
      /\ s.ollama_mb \in Nat /\ s.used_mb \in Nat /\ s.apps \in SUBSET App
      /\ s.seen \in [Resident -> [present : BOOLEAN, busy : BOOLEAN]]
      /\ Calm(Loaded(s)) /\ Calm(SeenThen(s)) /\ Calm(Measured(s)) /\ Calm(Read(s))
  BY SampleReads
<1>1. ASSUME NEW b, Calm(b), NEW x, Readies(b, x)
      PROVE  LET d == Schedule(x)
             IN  /\ Asks(x, d) /\ SameAccount(x, d) /\ x.training = b.training
                 /\ d.training = x.training /\ d.interactive = x.interactive
  <2>1. Scheduled(x, Schedule(x))
    BY <1>1, PassAfter DEF Readies
  <2> QED BY <1>1, <2>1 DEF Scheduled, Steady, Readies, Kept, Soft
<1>2. /\ OllamaWaits(broker, Loaded(s))
      /\ \A r \in Resident :
           broker.residents[r].freeing =>
             /\ Loaded(s).residents[r] = broker.residents[r]
             /\ r \notin Loaded(s).effects \ broker.effects
      /\ Loaded(s).training = broker.training
      /\ Loaded(s).interactive = broker.interactive
  <2>1. PICK x : /\ Loaded(s) = Schedule(x) /\ Readies(broker, x)
                 /\ x.interactive = broker.interactive /\ x.residents = broker.residents
                 /\ OllamaWaits(broker, x)
                 /\ \A r \in Resident : r \notin x.effects \ broker.effects
    BY <1>0, SetOllamaReads DEF Loaded
  <2>2. /\ Asks(x, Loaded(s)) /\ SameAccount(x, Loaded(s))
        /\ Loaded(s).training = broker.training /\ Loaded(s).interactive = x.interactive
    BY <1>1, <2>1
  <2>3. OllamaWaits(broker, Loaded(s))
    BY <2>1, <2>2, WaitsOn
  <2>4. ASSUME NEW r \in Resident, broker.residents[r].freeing
        PROVE  /\ Loaded(s).residents[r] = broker.residents[r]
               /\ r \notin Loaded(s).effects \ broker.effects
    BY <2>1, <2>2, <2>4 DEF Asks
  <2> QED BY <2>1, <2>2, <2>3, <2>4
<1>3. /\ OllamaWaits(broker, SeenThen(s))
      /\ \A r \in Resident : ResidentWaits(broker, SeenThen(s), r)
      /\ SeenThen(s).training = broker.training
      /\ SeenThen(s).interactive = broker.interactive
  <2>1. PICK x : /\ SeenThen(s) = Schedule(x) /\ Readies(Loaded(s), x)
                 /\ x.interactive = Loaded(s).interactive /\ x.ollama = Loaded(s).ollama
                 /\ UnloadOllama \notin x.effects \ Loaded(s).effects
                 /\ \A r \in Resident : ResidentWaits(Loaded(s), x, r)
    BY <1>0, SetResidentsReads DEF SeenThen
  <2>2. /\ Asks(x, SeenThen(s)) /\ SameAccount(x, SeenThen(s))
        /\ SeenThen(s).training = broker.training
        /\ SeenThen(s).interactive = broker.interactive
    BY <1>0, <1>1, <1>2, <2>1
  <2>3. OllamaWaits(broker, x)
    BY <1>2, <2>1 DEF OllamaWaits
  <2>4. ASSUME NEW r \in Resident PROVE ResidentWaits(broker, x, r)
    BY <1>2, <2>1 DEF ResidentWaits
  <2> QED BY <2>2, <2>3, <2>4, WaitsOn
<1>4. s.reading =>
        /\ OllamaWaits(broker, Measured(s))
        /\ \A r \in Resident : Answered(r) \/ ResidentWaits(broker, Measured(s), r)
        /\ Measured(s).training = broker.training
        /\ Measured(s).interactive = broker.interactive
  <2> SUFFICES ASSUME s.reading
               PROVE  /\ OllamaWaits(broker, Measured(s))
                      /\ \A r \in Resident :
                           Answered(r) \/ ResidentWaits(broker, Measured(s), r)
                      /\ Measured(s).training = broker.training
                      /\ Measured(s).interactive = broker.interactive
    OBVIOUS
  <2>1. PICK x : /\ Measured(s) = Schedule(x) /\ Readies(SeenThen(s), x)
                 /\ x.interactive = SeenThen(s).interactive
                 /\ x.ollama = SeenThen(s).ollama /\ x.effects = SeenThen(s).effects
                 /\ \A r \in Resident :
                      /\ x.residents[r].present = SeenThen(s).residents[r].present
                      /\ \/ CacheAt(SeenThen(s), s.used_mb)
                              <= SeenThen(s).residents[r].freeing_from \div 2
                         \/ SeenThen(s).residents[r].freeing
                            /\ ~SeenThen(s).residents[r].late =>
                              x.residents[r] = SeenThen(s).residents[r]
    BY <1>0, SetMeasuredReads DEF Measured
  <2>2. /\ Asks(x, Measured(s)) /\ SameAccount(x, Measured(s))
        /\ Measured(s).training = broker.training
        /\ Measured(s).interactive = broker.interactive
    BY <1>0, <1>1, <1>3, <2>1
  <2>3. OllamaWaits(broker, x)
    BY <1>3, <2>1 DEF OllamaWaits
  <2>4. ASSUME NEW r \in Resident PROVE Answered(r) \/ ResidentWaits(broker, x, r)
    <3>1. CASE CacheAt(SeenThen(s), s.used_mb) <= broker.residents[r].freeing_from \div 2
      <4>1. Sample(s) /\ SeenThen(s) = SetResidents(SetOllama(broker, s.ollama_mb), s.seen)
        BY DEF SeenThen, Loaded
      <4> QED BY <3>1, <4>1 DEF Answered, CacheAt
    <3>2. CASE ~(CacheAt(SeenThen(s), s.used_mb)
                   <= broker.residents[r].freeing_from \div 2)
      BY <1>3, <2>1, <3>2 DEF ResidentWaits
    <3> QED BY <3>1, <3>2
  <2> QED BY <2>2, <2>3, <2>4, WaitsOn
<1>5. PICK x5 : /\ broker' = Schedule(x5) /\ Readies(Read(s), x5)
                /\ SameEngines(Read(s), x5) /\ x5.interactive = Read(s).interactive
  BY <1>0, TickReads
<1>6. /\ Asks(x5, broker') /\ SameAccount(x5, broker')
      /\ broker'.training = Read(s).training /\ broker'.interactive = Read(s).interactive
  BY <1>0, <1>1, <1>5
<1>7. /\ OllamaWaits(broker, Read(s))
      /\ \A r \in Resident : Answered(r) \/ ResidentWaits(broker, Read(s), r)
  <2>1. CASE ~s.reading
    BY <1>3, <2>1 DEF Read
  <2>2. CASE s.reading /\ Read(s) = Measured(s)
    BY <1>4, <2>2
  <2>3. CASE s.reading /\ Read(s) # Measured(s)
    <3>1. Read(s) = SetInteractive(Measured(s), s.apps)
      BY <2>3 DEF Read
    <3>2. PICK x : /\ Read(s) = Schedule(x) /\ Readies(Measured(s), x)
                   /\ ReservedForCritical(Measured(s)) \/ ~ReservedForCritical(x)
                        => SameEngines(Measured(s), x)
      BY <1>0, <2>3, <3>1, SetInteractiveReads
    <3>3. /\ Asks(x, Read(s)) /\ SameAccount(x, Read(s))
          /\ Read(s).training = x.training /\ Read(s).interactive = x.interactive
      BY <1>0, <1>1, <3>2
    <3>4. SameEngines(Measured(s), x)
      <4>1. ReservedForCritical(Measured(s)) = ReservedForCritical(broker)
        BY <1>4, <2>3 DEF ReservedForCritical
      <4>2. ReservedForCritical(broker') = ReservedForCritical(x)
        BY <1>6, <3>3 DEF ReservedForCritical
      <4> QED BY <3>2, <4>1, <4>2
    <3>5. /\ OllamaWaits(broker, x)
          /\ \A r \in Resident : Answered(r) \/ ResidentWaits(broker, x, r)
      BY <1>4, <2>3, <3>4 DEF SameEngines, OllamaWaits, ResidentWaits
    <3> QED BY <3>3, <3>5, WaitsOn
  <2> QED BY <2>1, <2>2, <2>3
<1>8. /\ OllamaWaits(broker, x5)
      /\ \A r \in Resident : Answered(r) \/ ResidentWaits(broker, x5, r)
  BY <1>5, <1>7 DEF SameEngines, OllamaWaits, ResidentWaits
<1> QED BY <1>6, <1>8, WaitsOn

\* What was asked to let go is not asked again before it has answered or had its minute,
\* but by the user or when a mode begins (the flags unloading and freeing).
THEOREM AskedOnce == Spec => NotAskedAgain
<1> DEFINE Again == \A e \in broker'.effects \ broker.effects :
              IF e = UnloadOllama THEN ~broker.ollama.unloading
              ELSE ~broker.residents[e].freeing \/ broker.residents[e].late \/ Answered(e)
           Once == \/ Again
                   \/ ~ReservedForCritical(broker) /\ ReservedForCritical(broker')
                   \/ RequestOllamaUnload \/ \E r \in Resident : RequestResidentFree(r)
<1>1. Calm(broker) /\ Calm(broker)' /\ [Next]_broker => [Once]_broker
  <2> SUFFICES ASSUME Calm(broker), Calm(broker)', [Next]_broker, ~Told
               PROVE  Again
    BY DEF Told
  <2>0. \A e \in broker'.effects : e = UnloadOllama \/ (e \in Resident /\ e # UnloadOllama)
    BY DEF Calm, Sound, BrokerOK, Broker, Effect, UnloadOllama, Resident
  <2>1. CASE UNCHANGED broker \/ Rests(broker, broker')
    BY <2>1 DEF Rests
  <2>2. CASE Runs
    <3>1. PICK c, x : /\ Prepares(broker, c, x) /\ broker' = Schedule(x)
                      /\ SameEngines(broker, x)
      BY <2>2 DEF Runs
    <3>2. Asks(x, broker')
      BY <3>1, OpensCalm, PassAfter DEF Prepares, Scheduled
    <3> QED BY <2>0, <3>1, <3>2 DEF Asks, SameEngines
  <2>3. ASSUME NEW s \in Sampled, Sample(s) PROVE Again
    <3>1. /\ OllamaWaits(broker, broker')
          /\ \A r \in Resident : Answered(r) \/ ResidentWaits(broker, broker', r)
      BY <2>3, SampleWaits DEF Told
    <3> QED BY <2>0, <3>1 DEF OllamaWaits, ResidentWaits
  <2> QED BY <2>1, <2>2, <2>3, ClientRuns, UserRuns, ServerRests DEF Next, Server
<1>2. Spec => []Calm(broker)
  BY CalmAlways
<1> QED BY <1>1, <1>2, PTL DEF Spec, NotAskedAgain

-----------------------------------------------------------------------------
(* Whose turn it is. *)

\* Who is granted by a step that presses no button waited, and the queue moves.
LEMMA GrantedWaited ==
  ASSUME NEW b, Calm(b), NEW d, Kept(b, d), NEW i \in Granted(d) \ Granted(b)
  PROVE  i \in Queued(b) /\ ~d.queue_paused
<1>1. i \in 1 .. b.next /\ b.leases[i].state # "granted" /\ d.leases[i].state = "granted"
  BY DEF Kept, Soft, Granted, InState
<1>2. b.leases[i] \in Lease
  BY <1>1, LeaseFields DEF Calm, Sound
<1>3. b.leases[i].state = "queued"
  BY <1>1, <1>2 DEF Kept, Soft, Gentle, Lease
<1> QED BY <1>1, <1>3 DEF Kept, Soft, LetIn, Queued, InState

\* A turn of the sampler that began at a has let nobody in: all are stuck, and who has
\* got the reservation is the first that nothing keeps out.
StillStuck(a, c) ==
  /\ Calm(c) /\ Still(a, c) /\ Stuck(c)
  /\ c.reserved_for \in Queued(c) \cup {Nobody}
  /\ c.reserved_for # a.reserved_for =>
       /\ a.reserved_for = Nobody
       /\ \A h \in Queued(c) : ~Before(c, h, c.reserved_for) \/ Blocked(c, h)

\* Before the next pass it is so, if nothing is new.
LEMMA ReadsStuck ==
  ASSUME NEW a, BrokerOK(a), NEW b, StillStuck(a, b),
         NEW x, Readies(b, x), Granted(x) = Granted(b), Queued(x) = Queued(b),
         Card(x) = Card(a), x.interactive = a.interactive
  PROVE  StillStuck(a, x)
<1>1. Calm(b) /\ Calm(x) /\ BrokerOK(b) /\ BrokerOK(x)
  BY PassAfter DEF StillStuck, Readies, Calm, Sound
<1>2. /\ x.next = b.next /\ b.next = a.next
      /\ x.training = b.training /\ x.queue_paused = b.queue_paused
      /\ x.reserved_for = b.reserved_for
  BY DEF Readies, Kept, Soft, StillStuck, Still, Steady, SameAccount
<1>3. ASSUME NEW i \in 1 .. b.next
      PROVE  /\ x.leases[i].job = b.leases[i].job
             /\ x.leases[i].requested_at = b.leases[i].requested_at
             /\ x.leases[i].state = b.leases[i].state
             /\ x.leases[i].priority = b.leases[i].priority
             /\ x.leases[i].held = b.leases[i].held
             /\ x.leases[i].overdue => b.leases[i].overdue
  <2>1. SUFFICES ASSUME b.leases[i].state # "ended", x.leases[i].state = "ended" PROVE FALSE
    BY DEF Readies
  <2>2. b.leases[i] \in Lease
    BY <1>1, LeaseFields
  <2>3. i \in Queued(b) \cup Granted(b)
    BY <2>1, <2>2 DEF Lease, Queued, Granted, InState
  <2> QED BY <2>1, <2>3 DEF Queued, Granted, InState
<1>4. Still(b, x)
  <2>1. Card(b) = Card(a) /\ b.interactive = a.interactive
    BY DEF StillStuck, Still, Steady, SameAccount, Card
  <2> QED BY <1>2, <1>3, <2>1 DEF Still, Steady, SameAccount, Card
<1>5. ASSUME NEW h \in Queued(b)
      PROVE  /\ Blocked(x, h) = Blocked(b, h) /\ Fits(x, h) = Fits(b, h)
             /\ \A i \in 1 .. b.next : Before(x, h, i) = Before(b, h, i)
  <2>1. h \in 1 .. b.next /\ FreeMb(x) = FreeMb(b) /\ Active(x) = Active(b)
    BY <1>1, <1>4, StillFree DEF Queued, InState, Active
  <2>2. KeptMb(x, h) = KeptMb(b, h)
    <3>1. \A j \in Active(b) : x.leases[j].job = b.leases[j].job
      BY <1>3 DEF Active, Queued, Granted, InState
    <3> QED BY <1>2, <2>1, <3>1 DEF KeptMb
  <2>3. Fits(x, h) = Fits(b, h)
    BY <1>3, <2>1, <2>2 DEF Fits
  <2>4. Blocked(x, h) = Blocked(b, h)
    BY <1>4, <2>1, BlockedStays DEF Still
  <2>5. \A i \in 1 .. b.next : Before(x, h, i) = Before(b, h, i)
    BY <1>3, <2>1 DEF Before
  <2> QED BY <2>3, <2>4, <2>5
<1>6. Still(a, x)
  BY <1>4, StillTrans DEF StillStuck
<1>7. Stuck(x)
  BY <1>5 DEF StillStuck, Stuck
<1>8. x.reserved_for # a.reserved_for =>
        /\ a.reserved_for = Nobody
        /\ \A h \in Queued(x) : ~Before(x, h, x.reserved_for) \/ Blocked(x, h)
  <2> SUFFICES ASSUME x.reserved_for # a.reserved_for
               PROVE  /\ a.reserved_for = Nobody
                      /\ \A h \in Queued(x) : ~Before(x, h, x.reserved_for) \/ Blocked(x, h)
    OBVIOUS
  <2>1. a.reserved_for = Nobody /\ x.reserved_for \in 1 .. b.next
    BY <1>2 DEF StillStuck, Queued, InState
  <2> QED BY <1>2, <1>5, <2>1 DEF StillStuck
<1> QED BY <1>1, <1>2, <1>6, <1>7, <1>8 DEF StillStuck

\* After a pass it is so.
LEMMA PassStuck ==
  ASSUME NEW a, BrokerOK(a), ~a.queue_paused, ~OllamaInUse(a), a.measured_used_mb <= Baseline,
         NEW x, StillStuck(a, x)
  PROVE  StillStuck(a, Schedule(x))
<1> DEFINE d == Schedule(x)
<1>1. Calm(x) /\ BrokerOK(x) /\ Kept(x, x)
  BY KeptSame DEF StillStuck, Calm, Sound
<1>2. Scheduled(x, d) /\ Calm(d) /\ BrokerOK(d)
  BY <1>1, PassAfter DEF Calm, Sound
<1> HIDE DEF d
<1> SUFFICES StillStuck(a, d)
  BY DEF d
<1>3. ~x.queue_paused /\ Granted(d) = Granted(x)
  BY <1>2 DEF StillStuck, Still, Steady, Scheduled, NobodyGetsIn
<1>4. Still(x, d) /\ Queued(d) = Queued(x)
  BY <1>1, <1>2, <1>3, SteadyIsStill, StillFree DEF Scheduled
<1>5. Still(a, d)
  BY <1>4, StillTrans DEF StillStuck
<1>6. ~OllamaInUse(d) /\ d.measured_used_mb <= Baseline
  BY <1>2, <1>5, StillFree DEF Still, Steady, SameAccount
<1>7. Stuck(d)
  <2>1. \A h \in Queued(d) : TurnedAway(x, d, h)
    BY <1>2, <1>3 DEF Scheduled
  <2>2. d.measured_used_mb \in Nat /\ Baseline \in Nat
    BY <1>2, FreeIsTheRest
  <2>3. ~(d.measured_used_mb > Baseline)
    BY <1>6, <2>2
  <2> QED BY <1>6, <2>1, <2>3 DEF TurnedAway, Stuck
<1>8. d.reserved_for \in Queued(d) \cup {Nobody}
  BY <1>2, <1>3 DEF Scheduled
<1>9. CASE d.reserved_for = x.reserved_for
  <2>1. \A h, i \in 1 .. x.next : /\ Before(d, h, i) = Before(x, h, i)
                                  /\ Blocked(d, h) = Blocked(x, h)
    BY <1>4, BlockedStays DEF Before, Still, Steady, SameAccount
  <2>2. \A h \in Queued(x) : h \in 1 .. x.next
    BY DEF Queued, InState
  <2>3. ASSUME d.reserved_for # a.reserved_for
        PROVE  /\ a.reserved_for = Nobody
               /\ \A h \in Queued(d) : ~Before(d, h, d.reserved_for) \/ Blocked(d, h)
    <3>1. a.reserved_for = Nobody /\ x.reserved_for \in Queued(x)
      BY <1>9, <2>3 DEF StillStuck
    <3>2. \A h \in Queued(x) : ~Before(x, h, x.reserved_for) \/ Blocked(x, h)
      BY <1>9, <2>3 DEF StillStuck
    <3> QED BY <1>4, <1>9, <2>1, <2>2, <3>1, <3>2
  <2> QED BY <1>2, <1>5, <1>7, <1>8, <2>3 DEF StillStuck
<1>10. CASE d.reserved_for # x.reserved_for
  <2>1. x.reserved_for = Nobody
    BY <1>2, <1>4, <1>10 DEF Scheduled, StillStuck
  <2>2. x.reserved_for \notin Queued(x) /\ d.reserved_for # Nobody
    BY <1>10, <2>1 DEF Queued, InState, Nobody
  <2>3. \A h \in Queued(d) : ~Before(d, h, d.reserved_for) \/ Blocked(d, h)
    BY <1>2, <1>3, <2>2 DEF Scheduled, FirstIsServed
  <2>4. a.reserved_for = Nobody
    BY <2>1 DEF StillStuck
  <2> QED BY <1>2, <1>5, <1>7, <1>8, <2>3, <2>4 DEF StillStuck
<1> QED BY <1>9, <1>10


\* Of a turn of the sampler without news, all passes before the last let nobody in.
LEMMA SampleStuck ==
  ASSUME NEW s \in Sampled, IdleInv, Sample(s), NoNewsOfMemory, ~broker.queue_paused,
         ~OllamaInUse(broker), broker.measured_used_mb <= Baseline,
         broker'.interactive = broker.interactive
  PROVE  StillStuck(broker, Read(s))
<1>0. /\ Calm(broker) /\ BrokerOK(broker) /\ broker' = Tick(Read(s))
      /\ s.ollama_mb \in Nat /\ s.used_mb \in Nat /\ s.apps \in SUBSET App
      /\ s.seen \in [Resident -> [present : BOOLEAN, busy : BOOLEAN]]
      /\ Calm(Loaded(s)) /\ Calm(SeenThen(s)) /\ Calm(Measured(s)) /\ Calm(Read(s))
  BY SampleReads DEF IdleInv, Calm, Sound
<1>1. /\ Card(Loaded(s)) = Card(broker) /\ Card(SeenThen(s)) = Card(broker)
      /\ s.reading => Card(Measured(s)) = Card(broker)
  BY <1>0, CardIsKnown DEF NoNewsOfMemory
<1>2. ASSUME NEW b, Calm(b), NEW x, Readies(b, x)
      PROVE  Card(Schedule(x)) = Card(x) /\ Schedule(x).interactive = x.interactive
  <2>1. Scheduled(x, Schedule(x))
    BY <1>2, PassAfter DEF Readies
  <2> QED BY <2>1 DEF Scheduled, Steady, SameAccount, Card
<1>3. StillStuck(broker, broker)
  <2>1. ASSUME NEW j \in Queued(broker) PROVE Blocked(broker, j) \/ ~Fits(broker, j)
    <3>1. broker.measured_used_mb \in Nat /\ Baseline \in Nat
      BY <1>0, FreeIsTheRest
    <3>2. ~(broker.measured_used_mb > Baseline)
      BY <3>1
    <3> QED BY <3>2 DEF IdleInv, NoIdleMemory
  <2> QED BY <1>0, <2>1, StillSame DEF StillStuck, Stuck, IdleInv, NoStaleReservation
<1>4. ASSUME NEW b, StillStuck(broker, b), NEW x, Readies(b, x), Granted(x) = Granted(b),
             Queued(x) = Queued(b), Card(x) = Card(broker),
             x.interactive = broker.interactive
      PROVE  StillStuck(broker, Schedule(x))
  <2>1. StillStuck(broker, x)
    BY <1>0, <1>4, ReadsStuck
  <2> QED BY <1>0, <2>1, PassStuck
<1>5. StillStuck(broker, Loaded(s)) /\ Loaded(s).interactive = broker.interactive
  <2>1. PICK x : /\ Loaded(s) = Schedule(x) /\ Readies(broker, x)
                 /\ Granted(x) = Granted(broker) /\ Queued(x) = Queued(broker)
                 /\ x.interactive = broker.interactive
    BY <1>0, SetOllamaReads DEF Loaded
  <2>2. Card(x) = Card(broker)
    BY <1>0, <1>1, <1>2, <2>1
  <2> QED BY <1>0, <1>2, <1>3, <1>4, <2>1, <2>2
<1>6. StillStuck(broker, SeenThen(s)) /\ SeenThen(s).interactive = broker.interactive
  <2>1. PICK x : /\ SeenThen(s) = Schedule(x) /\ Readies(Loaded(s), x)
                 /\ Granted(x) = Granted(Loaded(s)) /\ Queued(x) = Queued(Loaded(s))
                 /\ x.interactive = Loaded(s).interactive
    BY <1>0, SetResidentsReads DEF SeenThen
  <2>2. Card(x) = Card(broker)
    BY <1>0, <1>1, <1>2, <2>1
  <2> QED BY <1>0, <1>2, <1>4, <1>5, <2>1, <2>2
<1>7. s.reading => /\ StillStuck(broker, Measured(s))
                   /\ Measured(s).interactive = broker.interactive
  <2> SUFFICES ASSUME s.reading
               PROVE  /\ StillStuck(broker, Measured(s))
                      /\ Measured(s).interactive = broker.interactive
    OBVIOUS
  <2>1. PICK x : /\ Measured(s) = Schedule(x) /\ Readies(SeenThen(s), x)
                 /\ Granted(x) = Granted(SeenThen(s)) /\ Queued(x) = Queued(SeenThen(s))
                 /\ x.interactive = SeenThen(s).interactive
    BY <1>0, SetMeasuredReads DEF Measured
  <2>2. Card(x) = Card(broker)
    BY <1>0, <1>1, <1>2, <2>1
  <2> QED BY <1>0, <1>2, <1>4, <1>6, <2>1, <2>2
<1>8. Read(s).interactive = broker.interactive
  <2>1. PICK x : broker' = Schedule(x) /\ Readies(Read(s), x)
                 /\ x.interactive = Read(s).interactive
    BY <1>0, TickReads
  <2> QED BY <1>0, <1>2, <2>1
<1>9. CASE ~s.reading
  BY <1>6, <1>9 DEF Read
<1>10. CASE s.reading
  <2>1. Read(s) = SetInteractive(Measured(s), s.apps)
    BY <1>10 DEF Read
  <2>2. Read(s) = Measured(s)
    <3>1. SUFFICES ASSUME Read(s) # Measured(s) PROVE FALSE
      OBVIOUS
    <3>2. PICK x : /\ Read(s) = Schedule(x) /\ Readies(Measured(s), x)
                   /\ x.interactive = s.apps /\ s.apps # Measured(s).interactive
      BY <1>0, <2>1, <3>1, SetInteractiveReads
    <3> QED BY <1>0, <1>2, <1>7, <1>8, <1>10, <3>2
  <2> QED BY <1>7, <1>10, <2>2
<1> QED BY <1>9, <1>10

\* The queue goes by priority, then arrival, but for who has the reservation and for
\* memory that a grant explains: a pass visits the first that is left, and of a turn of
\* the sampler without news only the last pass can let anybody in (schedule, the sampler
\* loop).
THEOREM TheQueueIsKept == Spec => NoQueueJump
<1> DEFINE Jump == \A i \in Granted(broker') \ Granted(broker),
                     h \in Queued(broker) \cap Queued(broker') :
       \/ ~Before(broker', h, i) \/ Blocked(broker', h)
       \/ broker.reserved_for = i
       \/ broker'.leases[h].job.vram_mb > broker'.leases[i].job.vram_mb
       \/ OllamaInUse(broker') \/ broker'.measured_used_mb > Baseline
       \/ ~NoNewsOfMemory \/ broker'.interactive # broker.interactive
<1>1. IdleInv /\ IdleInv' /\ [Next]_broker => [Jump]_broker
  <2> SUFFICES ASSUME IdleInv, IdleInv', [Next]_broker,
                      NEW i \in Granted(broker') \ Granted(broker),
                      NEW h \in Queued(broker) \cap Queued(broker'),
                      Before(broker', h, i), ~Blocked(broker', h), broker.reserved_for # i,
                      ~(broker'.leases[h].job.vram_mb > broker'.leases[i].job.vram_mb),
                      ~OllamaInUse(broker'), ~(broker'.measured_used_mb > Baseline),
                      NoNewsOfMemory, broker'.interactive = broker.interactive
               PROVE  FALSE
    OBVIOUS
  <2>0. Calm(broker) /\ BrokerOK(broker) /\ BrokerOK(broker')
    BY DEF IdleInv, Calm, Sound
  <2>1. CASE UNCHANGED broker
    BY <2>1 DEF Granted, InState
  <2>2. CASE Runs
    <3>1. PICK c, x : Prepares(broker, c, x) /\ broker' = Schedule(x)
      BY <2>2 DEF Runs
    <3>2. InOrder(x, broker')
      BY <2>0, <3>1, OpensCalm, PassAfter DEF Prepares, Scheduled
    <3>3. i \in Granted(broker') \ Granted(x) /\ x.reserved_for # i
      BY <3>1 DEF Prepares
    <3> QED BY <3>2, <3>3 DEF InOrder
  <2>3. ASSUME NEW s \in Sampled, Sample(s) PROVE FALSE
    <3>1. broker' = Tick(Read(s)) /\ Calm(Read(s))
      BY <2>0, <2>3, SampleReads
    <3>2. PICK x : /\ broker' = Schedule(x) /\ Readies(Read(s), x)
                   /\ x.interactive = Read(s).interactive
      BY <3>1, TickReads
    <3>3. Scheduled(x, broker') /\ Kept(Read(s), broker') /\ Kept(broker, broker')
      BY <2>0, <2>3, <3>1, <3>2, PassAfter, SampleKept DEF Readies
    <3>4. ~broker.queue_paused
      BY <2>0, <3>3, GrantedWaited DEF Kept, Soft
    <3>5. ~OllamaInUse(broker) /\ broker.measured_used_mb <= Baseline
      <4>1. broker.measured_used_mb \in Nat /\ Baseline \in Nat
        BY <2>0, FreeIsTheRest
      <4> QED BY <4>1 DEF NoNewsOfMemory
    <3>6. StillStuck(broker, Read(s))
      BY <2>3, <3>4, <3>5, SampleStuck
    <3>7. Granted(Read(s)) = Granted(broker)
      BY <2>0, <3>6, StillFree DEF StillStuck, Calm, Sound
    <3>8. Granted(x) \subseteq Granted(Read(s)) /\ x.next = Read(s).next
      BY <3>2 DEF Readies, Kept, Soft, Granted, InState
    <3>9. x.reserved_for = i
      BY <3>3, <3>7, <3>8 DEF Scheduled, InOrder
    <3>10. Read(s).reserved_for = i /\ h \in Queued(Read(s))
      BY <3>2, <3>3, <3>9, KeptQueued DEF Readies
    <3>11. ~Before(Read(s), h, i) \/ Blocked(Read(s), h)
      BY <3>6, <3>10 DEF StillStuck
    <3>12. /\ h \in 1 .. Read(s).next /\ i \in 1 .. Read(s).next
           /\ broker'.leases[h].state = "queued" /\ broker'.leases[i].state = "granted"
      BY <3>3 DEF Kept, Soft, Granted, Queued, InState
    <3>13. ASSUME NEW j \in {h, i}
           PROVE  /\ broker'.leases[j].priority = Read(s).leases[j].priority
                  /\ broker'.leases[j].requested_at = Read(s).leases[j].requested_at
                  /\ broker'.leases[j].held = Read(s).leases[j].held
      <4>1. j \in 1 .. Read(s).next /\ broker'.leases[j].state # "ended"
        BY <3>12
      <4>2. x.leases[j].state # "ended" /\ Steady(x, broker')
        BY <3>3, <3>8, <4>1 DEF Scheduled, Steady
      <4> QED BY <3>2, <3>8, <4>1, <4>2 DEF Readies, Steady
    <3>14. broker'.training = Read(s).training /\ broker'.interactive = Read(s).interactive
      BY <3>2, <3>3 DEF Scheduled, Steady, Readies, Kept, Soft
    <3> QED BY <3>11, <3>13, <3>14 DEF Before, Blocked, ReservedForCritical
  <2>4. CASE Rests(broker, broker')
    BY <2>0, <2>4, RestsIsSame
  <2> QED BY <2>0, <2>1, <2>2, <2>3, <2>4, ClientRuns, UserRuns, ServerRests DEF Next, Server
<1>2. Spec => []IdleInv
  BY IdleInvAlways
<1> QED BY <1>1, <1>2, PTL DEF Spec, NoQueueJump

=============================================================================
