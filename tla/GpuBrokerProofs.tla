-------------------------- MODULE GpuBrokerProofs --------------------------
(***************************************************************************)
(* Proofs about the GPU broker, for every set of jobs, card and history:   *)
(* first the states it can be in, then what it may do to a lease in one    *)
(* step, and what follows from that: it implements VramAllocator, a cancel *)
(* stands, what is critical is not interrupted, nothing gets in past the   *)
(* user, and no engine is unloaded under the lease that works on it.       *)
(***************************************************************************)
EXTENDS GpuBroker, TLAPS, FiniteSetTheorems

-----------------------------------------------------------------------------
(* Least elements, and the recursion of a pass. *)

\* A set of naturals has a least element.
LEMMA NatMin ==
  ASSUME NEW T \in SUBSET Nat, T # {}
  PROVE  \E m \in T : \A k \in T : m <= k
<1> DEFINE R == {ss \in Nat \X Nat : ss[1] < ss[2]}
<1>1. IsWellFoundedOn(R, Nat)
  BY NatLessThanWellFounded DEF OpToRel
<1>2. \E x \in T : \A y \in T : <<y, x>> \notin R
  <2> HIDE DEF R
  <2> QED BY <1>1, WFMin
<1>3. \A x, y \in Nat : y < x => <<y, x>> \in R
  OBVIOUS
<1> HIDE DEF R
<1>4. PICK m \in T : \A y \in T : <<y, m>> \notin R
  BY <1>2
<1>5. ASSUME NEW k \in T PROVE m <= k
  <2>1. <<k, m>> \notin R
    BY <1>4
  <2>2. k \in Nat /\ m \in Nat
    OBVIOUS
  <2>3. ~(k < m)
    BY <2>1, <2>2, <1>3
  <2> QED BY <2>2, <2>3
<1> QED BY <1>5

\* The function a pass computes exists: it is built up to m, for every m.
LEMMA PassIsDefined ==
  ASSUME NEW start, NEW now, NEW N \in Nat, NEW f,
         f = CHOOSE g : g = [n \in 0 .. N |-> IF n = 0 THEN start ELSE Turn(g[n - 1], now)]
  PROVE  f = [n \in 0 .. N |-> IF n = 0 THEN start ELSE Turn(f[n - 1], now)]
<1> DEFINE T == {m \in Nat : ~ \E g : g = [n \in 0 .. m |->
                    IF n = 0 THEN start ELSE Turn(g[n - 1], now)]}
<1>1. SUFFICES T = {}
  OBVIOUS
<1>2. SUFFICES ASSUME T # {} PROVE FALSE
  OBVIOUS
<1>3. PICK m \in T : \A k \in T : m <= k
  BY <1>2, NatMin
<1>4. CASE m = 0
  <2> DEFINE g == [n \in 0 .. 0 |-> start]
  <2>1. g = [n \in 0 .. 0 |-> IF n = 0 THEN start ELSE Turn(g[n - 1], now)]
    OBVIOUS
  <2> QED BY <2>1, <1>3, <1>4
<1>5. CASE m # 0
  <2>1. m - 1 \in Nat /\ m - 1 \notin T
    <3>1. m \in Nat /\ m - 1 \in Nat /\ ~(m <= m - 1)
      BY <1>5
    <3> QED BY <3>1, <1>3
  <2>2. PICK h : h = [n \in 0 .. m - 1 |-> IF n = 0 THEN start ELSE Turn(h[n - 1], now)]
    BY <2>1
  <2> DEFINE g == [n \in 0 .. m |-> IF n = m THEN Turn(h[m - 1], now) ELSE h[n]]
  <2>3. ASSUME NEW n \in 0 .. m
        PROVE  g[n] = IF n = 0 THEN start ELSE Turn(g[n - 1], now)
    <3>1. CASE n = m
      BY <3>1, <1>5, <2>1
    <3>2. CASE n # m
      <4>1. n \in 0 .. m - 1 /\ g[n] = h[n]
        BY <3>2, <2>1
      <4>2. n # 0 => g[n - 1] = h[n - 1]
        <5>1. \A i \in 0 .. m : i # m => g[i] = h[i]
          OBVIOUS
        <5>2. n # 0 => n - 1 \in 0 .. m /\ n - 1 # m
          BY <2>1, <2>3
        <5> HIDE DEF g
        <5> QED BY <5>1, <5>2, SMT
      <4>3. h[n] = IF n = 0 THEN start ELSE Turn(h[n - 1], now)
        BY <4>1, <2>2
      <4> QED BY <4>1, <4>2, <4>3
    <3> QED BY <3>1, <3>2
  <2>4. g = [n \in 0 .. m |-> IF n = 0 THEN start ELSE Turn(g[n - 1], now)]
    BY <2>3
  <2> HIDE DEF g
  <2>5. \E e : e = [n \in 0 .. m |-> IF n = 0 THEN start ELSE Turn(e[n - 1], now)]
    BY <2>4
  <2> QED BY <2>5, <1>3
<1> QED BY <1>4, <1>5

-----------------------------------------------------------------------------
(* Sums of memory. *)

\* The types of the fields of a lease of a well-typed broker.
LEMMA LeaseFields ==
  ASSUME NEW b, BrokerOK(b), NEW i \in 1 .. b.next
  PROVE  /\ b.leases[i] \in Lease
         /\ b.leases[i].job \in Job
         /\ b.leases[i].job.vram_mb \in Nat
         /\ b.leases[i].priority \in Priority
         /\ b.leases[i].requested_at \in Nat
         /\ b.leases[i].granted_at \in Nat
<1>1. b.leases \in [1 .. b.next -> Lease]
  BY DEF BrokerOK, Broker
<1>2. b.leases[i] \in Lease
  BY <1>1
<1>3. b.leases[i].job \in JobType
  BY <1>2, GpuBrokerAssumption DEF Lease
<1>4. b.leases[i].job.vram_mb \in Nat
  BY <1>3 DEF JobType
<1> QED BY <1>2, <1>4 DEF Lease

\* The leases of a set take a natural number of megabytes: the sum of accounted_mb is finite.
LEMMA MegabytesOfASet ==
  ASSUME NEW b, BrokerOK(b), NEW S \in SUBSET (1 .. b.next)
  PROVE  /\ IsFiniteSet(UNION {{i} \X (1 .. b.leases[i].job.vram_mb) : i \in S})
         /\ Megabytes(b, S) \in Nat
<1> DEFINE block(i) == {i} \X (1 .. b.leases[i].job.vram_mb)
           blocks == {block(i) : i \in S}
           f == [i \in S |-> block(i)]
<1>1. IsFiniteSet(S)
  <2>1. 1 \in Int /\ b.next \in Int
    BY DEF BrokerOK
  <2>2. IsFiniteSet(1 .. b.next)
    BY <2>1, FS_Interval
  <2> QED BY <2>2, FS_Subset
<1>2. f \in Surjection(S, blocks)
  BY DEF Surjection
<1>3. IsFiniteSet(blocks)
  BY <1>1, <1>2, FS_Surjection
<1>4. ASSUME NEW i \in S PROVE IsFiniteSet(block(i))
  <2> DEFINE vram == b.leases[i].job.vram_mb
  <2>0. 1 \in Int /\ vram \in Int
    BY LeaseFields
  <2>1. IsFiniteSet(1 .. vram)
    <3> HIDE DEF vram
    <3> QED BY <2>0, FS_Interval
  <2>2. IsFiniteSet({i})
    BY FS_Singleton
  <2> QED BY <2>1, <2>2, FS_Product
<1>5. IsFiniteSet(UNION blocks)
  BY <1>3, <1>4, FS_UNION
<1> QED BY <1>5, FS_CardinalityType DEF Megabytes

\* A lease that is not there yet takes as much as it asked for.
LEMMA MegabytesOfANewOne ==
  ASSUME NEW b, BrokerOK(b), NEW S \in SUBSET (1 .. b.next), NEW i \in 1 .. b.next,
         i \notin S
  PROVE  Megabytes(b, S \cup {i}) = Megabytes(b, S) + b.leases[i].job.vram_mb
<1> DEFINE block(j) == {j} \X (1 .. b.leases[j].job.vram_mb)
           U == UNION {block(j) : j \in S}
           V == block(i)
           vram == b.leases[i].job.vram_mb
<1>1. IsFiniteSet(U)
  BY MegabytesOfASet
<1>2. IsFiniteSet(V) /\ Cardinality(V) = vram
  <2>1. vram \in Nat /\ vram \in Int /\ 1 \in Int
    BY LeaseFields
  <2>2. IsFiniteSet({i}) /\ Cardinality({i}) = 1
    BY FS_Singleton
  <2>3. IsFiniteSet(1 .. vram) /\ Cardinality(1 .. vram) = vram
    <3> HIDE DEF vram
    <3>1. IsFiniteSet(1 .. vram) /\ Cardinality(1 .. vram) = IF 1 > vram THEN 0 ELSE vram - 1 + 1
      BY <2>1, FS_Interval
    <3> QED BY <3>1, <2>1
  <2>4. IsFiniteSet(V) /\ Cardinality(V) = Cardinality({i}) * Cardinality(1 .. vram)
    <3> DEFINE W == 1 .. vram
    <3>1. V = {i} \X W /\ IsFiniteSet(W) /\ IsFiniteSet({i})
      BY <2>2, <2>3
    <3> HIDE DEF V, W
    <3>2. IsFiniteSet({i} \X W) /\ Cardinality({i} \X W) = Cardinality({i}) * Cardinality(W)
      BY <3>1, FS_Product
    <3> QED BY <3>1, <3>2 DEF W
  <2> HIDE DEF V, vram
  <2> QED BY <2>1, <2>2, <2>3, <2>4
<1>3. UNION {block(j) : j \in S \cup {i}} = U \cup V
  OBVIOUS
<1>4. U \cap V = {}
  OBVIOUS
<1>5. Cardinality(U \cup V) = Cardinality(U) + Cardinality(V) - Cardinality(U \cap V)
  BY <1>1, <1>2, FS_Union
<1>6. Cardinality(U) \in Nat /\ Cardinality(U \cap V) = 0 /\ vram \in Nat
  BY <1>1, <1>4, FS_CardinalityType, FS_EmptySet, LeaseFields
<1> HIDE DEF U, V, vram
<1>7. Cardinality(U \cup V) = Cardinality(U) + vram
  BY <1>2, <1>5, <1>6
<1> QED BY <1>3, <1>7 DEF Megabytes, U, V, vram

\* A lease takes at most as much more as it asked for.
LEMMA MegabytesOfOneMore ==
  ASSUME NEW b, BrokerOK(b), NEW S \in SUBSET (1 .. b.next), NEW i \in 1 .. b.next
  PROVE  Megabytes(b, S \cup {i}) <= Megabytes(b, S) + b.leases[i].job.vram_mb
<1>1. Megabytes(b, S) \in Nat /\ b.leases[i].job.vram_mb \in Nat
  BY MegabytesOfASet, LeaseFields
<1>2. CASE i \in S
  <2>1. Megabytes(b, S \cup {i}) = Megabytes(b, S)
    <3>1. S \cup {i} = S
      BY <1>2
    <3> QED BY <3>1
  <2> QED BY <1>1, <2>1
<1>3. CASE i \notin S
  BY <1>1, <1>3, MegabytesOfANewOne
<1> QED BY <1>2, <1>3

\* Fewer leases take no more megabytes.
LEMMA MegabytesOfFewer ==
  ASSUME NEW b, BrokerOK(b), NEW S \in SUBSET (1 .. b.next),
         NEW c, NEW T \in SUBSET S,
         \A i \in T : c.leases[i].job = b.leases[i].job
  PROVE  Megabytes(c, T) <= Megabytes(b, S)
<1> DEFINE U == UNION {{i} \X (1 .. b.leases[i].job.vram_mb) : i \in S}
           V == UNION {{i} \X (1 .. c.leases[i].job.vram_mb) : i \in T}
<1>1. IsFiniteSet(U)
  BY MegabytesOfASet
<1>2. V \in SUBSET U
  OBVIOUS
<1> HIDE DEF U, V
<1>3. Cardinality(V) <= Cardinality(U)
  BY <1>1, <1>2, FS_Subset
<1> QED BY <1>3 DEF Megabytes, U, V

-----------------------------------------------------------------------------
(* The accounting gives naturals. *)

\* A subtraction that saturates, as saturating_sub does, stays a natural number.
LEMMA MonusNat ==
  ASSUME NEW m \in Nat, NEW n \in Nat
  PROVE  Monus(m, n) \in Nat /\ Monus(m, n) <= m /\ (Monus(m, n) > 0 => Monus(m, n) = m - n)
BY DEF Monus

\* What accounted_mb, raw_unexplained_mb, free_mb and resident_cache_mb return is a
\* natural number.
LEMMA Accounting ==
  ASSUME NEW b, BrokerOK(b)
  PROVE  /\ Granted(b) \in SUBSET (1 .. b.next)
         /\ Megabytes(b, Granted(b)) \in Nat
         /\ AccountedMb(b) \in Nat
         /\ Megabytes(b, Granted(b)) <= AccountedMb(b)
         /\ UnexplainedMb(b) \in Nat
         /\ FreeMb(b) \in Nat
         /\ ResidentCacheMb(b) \in Nat
<1>1. Granted(b) \in SUBSET (1 .. b.next)
  BY DEF Granted, InState
<1>2. Megabytes(b, Granted(b)) \in Nat
  BY <1>1, MegabytesOfASet
<1>3. b.ollama.loaded_mb \in Nat /\ b.measured_used_mb \in Nat /\ b.total_mb \in Nat
  BY DEF BrokerOK, Broker
<1>4. AccountedMb(b) \in Nat /\ Megabytes(b, Granted(b)) <= AccountedMb(b)
  BY <1>2, <1>3 DEF AccountedMb
<1>5. Baseline \in Nat
  BY GpuBrokerAssumption
<1>6. Baseline + AccountedMb(b) \in Nat
  BY <1>4, <1>5
<1>7. UnexplainedMb(b) \in Nat
  BY <1>3, <1>6, MonusNat DEF UnexplainedMb
<1>8. Baseline + AccountedMb(b) + UnexplainedMb(b) \in Nat
  BY <1>6, <1>7
<1>9. FreeMb(b) \in Nat
  BY <1>3, <1>8, MonusNat DEF FreeMb
<1>10. ResidentCacheMb(b) \in Nat
  BY <1>7 DEF ResidentCacheMb
<1> QED BY <1>1, <1>2, <1>4, <1>7, <1>9, <1>10

-----------------------------------------------------------------------------
(* What the scheduler chooses is among what it chooses from. *)

\* The rank of an id in the order of strings is a natural number.
LEMMA IdRankNat ==
  ASSUME NEW i \in Nat
  PROVE  IdRank(i) \in Nat
<1>1. Served + i \in Nat
  BY GpuBrokerAssumption
<1>2. (Served + i) \div 10 \in Nat
  BY <1>1
<1> QED BY <1>1, <1>2 DEF IdRank

\* The queue has a first: the least rank among the earliest of the most urgent.
LEMMA FirstIsOne ==
  ASSUME NEW b, BrokerOK(b), NEW S \in SUBSET (1 .. b.next), S # {}
  PROVE  First(b, S) \in S /\ \A j \in S : ~Before(b, j, First(b, S))
<1> DEFINE urgency(i) == b.leases[i].priority
           arrival(i) == b.leases[i].requested_at
<1>0. \A i \in S : urgency(i) \in Nat /\ arrival(i) \in Nat /\ IdRank(i) \in Nat
  <2> TAKE i \in S
  <2>1. b.leases[i].priority \in Priority /\ b.leases[i].requested_at \in Nat
    BY LeaseFields
  <2>2. b.leases[i].priority \in Nat
    BY <2>1 DEF Priority, Critical, Opportunistic
  <2>3. i \in Nat
    BY DEF BrokerOK
  <2> QED BY <2>1, <2>2, <2>3, IdRankNat
<1>1. PICK p \in {urgency(i) : i \in S} : \A q \in {urgency(i) : i \in S} : p <= q
  <2>1. {urgency(i) : i \in S} \in SUBSET Nat /\ {urgency(i) : i \in S} # {}
    BY <1>0
  <2> QED BY <2>1, NatMin
<1> DEFINE S1 == {i \in S : urgency(i) = p}
<1>2. PICK r \in {arrival(i) : i \in S1} : \A q \in {arrival(i) : i \in S1} : r <= q
  <2>1. {arrival(i) : i \in S1} \in SUBSET Nat /\ {arrival(i) : i \in S1} # {}
    BY <1>0, <1>1
  <2> QED BY <2>1, NatMin
<1> DEFINE S2 == {i \in S1 : arrival(i) = r}
<1>3. PICK d \in {IdRank(i) : i \in S2} : \A q \in {IdRank(i) : i \in S2} : d <= q
  <2>1. {IdRank(i) : i \in S2} \in SUBSET Nat /\ {IdRank(i) : i \in S2} # {}
    BY <1>0, <1>2
  <2> QED BY <2>1, NatMin
<1>4. PICK i \in S2 : IdRank(i) = d
  OBVIOUS
<1>5. ASSUME NEW j \in S PROVE ~Before(b, j, i)
  <2>1. /\ i \in S /\ urgency(i) = p /\ arrival(i) = r /\ IdRank(i) = d
        /\ p \in Nat /\ r \in Nat /\ d \in Nat
        /\ urgency(j) \in Nat /\ arrival(j) \in Nat /\ IdRank(j) \in Nat
    BY <1>0, <1>4
  <2>2. p <= urgency(j)
    BY <1>1
  <2>3. urgency(j) = p => r <= arrival(j)
    BY <1>2
  <2>4. urgency(j) = p /\ arrival(j) = r => d <= IdRank(j)
    BY <1>3
  <2> QED BY <2>1, <2>2, <2>3, <2>4 DEF Before
<1> QED BY <1>4, <1>5 DEF First

\* The residents are numbered from one.
LEMMA ResidentIsInterval ==
  /\ Len(ResidentBackend) \in Nat
  /\ Resident \in SUBSET Nat
BY GpuBrokerAssumption DEF Resident

\* When some resident is idle, the one idle_resident finds is one of them.
LEMMA FirstIdleIsOne ==
  ASSUME NEW b, IdleResidents(b) # {}
  PROVE  FirstIdle(b) \in IdleResidents(b) /\ FirstIdle(b) \in Resident
<1>1. IdleResidents(b) \in SUBSET Nat /\ IdleResidents(b) \in SUBSET Resident
  BY ResidentIsInterval DEF IdleResidents
<1>2. \E r \in IdleResidents(b) : \A s \in IdleResidents(b) : r <= s
  BY <1>1, NatMin
<1> QED BY <1>1, <1>2 DEF FirstIdle

\* The rank of a pass is a natural number.
LEMMA NowNat ==
  ASSUME NEW b, BrokerOK(b)
  PROVE  Now(b) \in Nat
<1> DEFINE S == {i \in 1 .. b.next : b.leases[i].granted_at > 0}
<1>1. IsFiniteSet(1 .. b.next)
  <2>1. 1 \in Int /\ b.next \in Int
    BY DEF BrokerOK
  <2> QED BY <2>1, FS_Interval
<1>2. S \in SUBSET (1 .. b.next)
  OBVIOUS
<1> HIDE DEF S
<1>3. Cardinality(S) \in Nat
  BY <1>1, <1>2, FS_Subset, FS_CardinalityType
<1> QED BY <1>3 DEF Now, S

-----------------------------------------------------------------------------
(* What every method of the broker preserves. *)

\* The granted leases fit in the card, whichever size the card has.
FitsTheCard(b) ==
  Megabytes(b, Granted(b)) > 0 => Baseline + Megabytes(b, Granted(b)) <= Capacity

OnlyThePreemptibleYield(b) ==
  \A i \in Granted(b) : b.leases[i].directive = "yield" => b.leases[i].job.preemptible

Sound(b) ==
  /\ BrokerOK(b)
  /\ b.total_mb \in {ConfigTotal, CardTotal}
  /\ FitsTheCard(b)
  /\ OnlyThePreemptibleYield(b)

\* A method that grants nothing, and tells nobody to yield who cannot, is sound.
LEMMA GrantingNothing ==
  ASSUME NEW b, Sound(b), NEW c, BrokerOK(c),
         c.total_mb \in {ConfigTotal, CardTotal},
         Granted(c) \subseteq Granted(b),
         \A i \in Granted(c) : /\ c.leases[i].job = b.leases[i].job
                               /\ c.leases[i].directive = "yield"
                                    => \/ b.leases[i].directive = "yield"
                                       \/ b.leases[i].job.preemptible
  PROVE  Sound(c)
<1>1. Megabytes(c, Granted(c)) <= Megabytes(b, Granted(b))
  BY MegabytesOfFewer, Accounting DEF Sound
<1>2. Megabytes(c, Granted(c)) \in Nat /\ Megabytes(b, Granted(b)) \in Nat
  BY Accounting DEF Sound
<1>3. Baseline \in Nat /\ Capacity \in Nat
  BY GpuBrokerAssumption DEF Capacity
<1>4. FitsTheCard(c)
  BY <1>1, <1>2, <1>3 DEF Sound, FitsTheCard
<1>5. OnlyThePreemptibleYield(c)
  BY DEF Sound, OnlyThePreemptibleYield
<1> QED BY <1>4, <1>5 DEF Sound

\* Nothing these fields hold is a lease: a change of them grants nothing.
LEMMA SameLeases ==
  ASSUME NEW b, Sound(b), NEW c, BrokerOK(c),
         c.total_mb \in {ConfigTotal, CardTotal},
         c.next = b.next, c.leases = b.leases
  PROVE  Sound(c)
<1>1. Granted(c) = Granted(b)
  BY DEF Granted, InState
<1> QED BY <1>1, GrantingNothing

-----------------------------------------------------------------------------
(* Making room. *)

\* Telling leases that can yield to do so keeps a broker sound.
LEMMA TellToYieldSound ==
  ASSUME NEW b, Sound(b), NEW S,
         \A i \in S \cap Granted(b) : b.leases[i].job.preemptible
  PROVE  Sound(TellToYield(b, S)) /\ TellToYield(b, S).next = b.next
<1> DEFINE L == [i \in 1 .. b.next |->
                   IF i \in S THEN [b.leases[i] EXCEPT !.directive = "yield"] ELSE b.leases[i]]
           c == [b EXCEPT !.leases = L]
<1>1. BrokerOK(b)
  BY DEF Sound
<1>2. ASSUME NEW i \in 1 .. b.next
      PROVE  /\ L[i] \in Lease
             /\ L[i].job = b.leases[i].job /\ L[i].state = b.leases[i].state
             /\ L[i].directive = "yield" => b.leases[i].directive = "yield" \/ i \in S
  <2>1. b.leases[i] \in Lease
    BY <1>1, LeaseFields
  <2> QED BY <2>1 DEF Lease
<1>3. L \in [1 .. b.next -> Lease]
  BY <1>2
<1>4. c.leases = L /\ c.next = b.next /\ c.total_mb = b.total_mb
  BY <1>1 DEF BrokerOK, Broker
<1>5. BrokerOK(c)
  <2> HIDE DEF L
  <2> QED BY <1>1, <1>3 DEF BrokerOK, Broker
<1>6. Granted(c) = Granted(b) /\ Granted(b) \in SUBSET (1 .. b.next)
  BY <1>2, <1>4 DEF Granted, InState
<1> HIDE DEF c, L
<1>7. Sound(c)
  BY <1>2, <1>4, <1>5, <1>6, GrantingNothing DEF Sound
<1> QED BY <1>4, <1>7 DEF TellToYield, c, L

\* Asking Ollama to unload keeps a broker sound.
LEMMA UnloadsOllamaSound ==
  ASSUME NEW b, Sound(b)
  PROVE  /\ Sound(UnloadsOllama(b))
         /\ UnloadsOllama(b).next = b.next /\ UnloadsOllama(b).leases = b.leases
<1> DEFINE c == [b EXCEPT !.ollama.unloading = TRUE, !.effects = @ \cup {UnloadOllama}]
<1>1. BrokerOK(b)
  BY DEF Sound
<1>2. BrokerOK(c) /\ c.next = b.next /\ c.leases = b.leases /\ c.total_mb = b.total_mb
  BY <1>1 DEF BrokerOK, Broker, Effect
<1> HIDE DEF c
<1>3. Sound(c)
  BY <1>2, SameLeases DEF Sound
<1> QED BY <1>2, <1>3 DEF UnloadsOllama, c

\* Asking a resident to free its cache keeps a broker sound (push_free).
LEMMA PushFreeSound ==
  ASSUME NEW b, Sound(b), NEW r \in Resident, NEW cache \in Nat
  PROVE  /\ Sound(PushFree(b, r, cache))
         /\ PushFree(b, r, cache).next = b.next /\ PushFree(b, r, cache).leases = b.leases
<1> DEFINE c == PushFree(b, r, cache)
<1>1. BrokerOK(b)
  BY DEF Sound
<1>2. b.residents \in [Resident -> ResidentState] /\ b.residents[r] \in ResidentState
  BY <1>1 DEF BrokerOK, Broker
<1> DEFINE rs == [b.residents[r] EXCEPT !.freeing = TRUE, !.freeing_from = cache, !.late = FALSE]
<1>3. rs \in ResidentState
  BY <1>2 DEF ResidentState
<1>4. c = [b EXCEPT !.residents = [b.residents EXCEPT ![r] = rs], !.effects = @ \cup {r}]
  BY <1>1, <1>2 DEF PushFree, BrokerOK, Broker
<1>5. [b.residents EXCEPT ![r] = rs] \in [Resident -> ResidentState]
  <2> HIDE DEF rs
  <2> QED BY <1>2, <1>3
<1>6. BrokerOK(c) /\ c.next = b.next /\ c.leases = b.leases /\ c.total_mb = b.total_mb
  <2> HIDE DEF rs, c
  <2> QED BY <1>1, <1>4, <1>5 DEF BrokerOK, Broker, Effect
<1> HIDE DEF c
<1>7. Sound(c)
  BY <1>6, SameLeases DEF Sound
<1> QED BY <1>6, <1>7 DEF c

\* Asking the idle resident, if there is one and it is worth it, keeps a broker sound.
LEMMA FreeIdleResidentSound ==
  ASSUME NEW b, Sound(b)
  PROVE  /\ Sound(FreeIdleResident(b))
         /\ FreeIdleResident(b).next = b.next /\ FreeIdleResident(b).leases = b.leases
<1>1. CASE Reclaimable(b) = 0 \/ b.residents[FirstIdle(b)].freeing
  BY <1>1 DEF FreeIdleResident
<1>2. CASE ~(Reclaimable(b) = 0 \/ b.residents[FirstIdle(b)].freeing)
  <2>1. IdleResidents(b) # {}
    BY <1>2 DEF Reclaimable
  <2>2. FirstIdle(b) \in Resident
    BY <2>1, FirstIdleIsOne
  <2>3. ResidentCacheMb(b) \in Nat
    BY Accounting DEF Sound
  <2> QED BY <1>2, <2>2, <2>3, PushFreeSound DEF FreeIdleResident
<1> QED BY <1>1, <1>2

\* Making room for a lease keeps a broker sound: only leases that can yield are told to.
LEMMA MakeRoomSound ==
  ASSUME NEW b, Sound(b), NEW i
  PROVE  Sound(MakeRoom(b, i)) /\ MakeRoom(b, i).next = b.next
<1> DEFINE opportunist == b.leases[i].priority = Opportunistic
           unloaded == IF opportunist \/ IdleOllamaMb(b) = 0 \/ b.ollama.unloading
                       THEN b ELSE UnloadsOllama(b)
           freed == IF opportunist THEN unloaded ELSE FreeIdleResident(unloaded)
<1>1. Sound(unloaded) /\ unloaded.next = b.next /\ unloaded.leases = b.leases
  BY UnloadsOllamaSound
<1>2. Sound(freed) /\ freed.next = b.next /\ freed.leases = b.leases
  <2> HIDE DEF unloaded
  <2> QED BY <1>1, FreeIdleResidentSound
<1>3. \A v \in Asked(b, i) : b.leases[v].job.preemptible
  BY DEF Asked, Victims, Preemptible
<1> HIDE DEF freed
<1>4. Sound(TellToYield(freed, Asked(b, i))) /\ TellToYield(freed, Asked(b, i)).next = b.next
  BY <1>2, <1>3, TellToYieldSound
<1> QED BY <1>4 DEF MakeRoom, freed

-----------------------------------------------------------------------------
(* The scheduler. *)

\* A lease that fits can be granted: what is free leaves room for it.
LEMMA GrantSound ==
  ASSUME NEW b, Sound(b), NEW i \in 1 .. b.next, Fits(b, i), NEW now \in Nat
  PROVE  Sound(Grant(b, i, now)) /\ Grant(b, i, now).next = b.next
<1> DEFINE l == [b.leases[i] EXCEPT !.state = "granted", !.granted_at = now,
                                    !.directive = "continue", !.overdue = FALSE]
           L == [b.leases EXCEPT ![i] = l]
           r == IF b.reserved_for = i THEN Nobody ELSE b.reserved_for
           c == [b EXCEPT !.leases = L, !.reserved_for = r]
           vram == b.leases[i].job.vram_mb
<1>1. BrokerOK(b)
  BY DEF Sound
<1>2. b.leases \in [1 .. b.next -> Lease] /\ b.leases[i] \in Lease
  BY <1>1 DEF BrokerOK, Broker
<1>3. Grant(b, i, now) = c
  BY <1>1, <1>2 DEF Grant, BrokerOK, Broker
<1>4. /\ l \in Lease /\ l.job = b.leases[i].job
      /\ l.state = "granted" /\ l.directive = "continue"
  BY <1>2 DEF Lease
<1>5. L \in [1 .. b.next -> Lease] /\ r \in 0 .. b.next
  <2>1. r \in 0 .. b.next
    BY <1>1 DEF BrokerOK, Broker, Nobody
  <2> HIDE DEF l
  <2> QED BY <1>2, <1>4, <2>1
<1>6. BrokerOK(c) /\ c.leases = L /\ c.next = b.next /\ c.total_mb = b.total_mb
  <2> HIDE DEF L, r
  <2> QED BY <1>1, <1>5 DEF BrokerOK, Broker
<1>7. \A j \in 1 .. b.next : L[j] = IF j = i THEN l ELSE b.leases[j]
  BY <1>2
<1> HIDE DEF c, L, l
<1>8. Granted(c) = Granted(b) \cup {i}
  BY <1>4, <1>6, <1>7 DEF Granted, InState
<1>9. Megabytes(c, Granted(c)) <= Megabytes(b, Granted(b)) + vram
  <2>1. Granted(c) \in SUBSET (1 .. b.next) /\ Granted(b) \in SUBSET (1 .. b.next)
    BY <1>1, <1>8, Accounting
  <2>2. \A j \in Granted(c) : c.leases[j].job = b.leases[j].job
    BY <1>4, <1>6, <1>7, <2>1
  <2>3. Megabytes(c, Granted(c)) <= Megabytes(b, Granted(c))
    BY <1>1, <2>1, <2>2, MegabytesOfFewer
  <2>4. Megabytes(b, Granted(c)) <= Megabytes(b, Granted(b)) + vram
    BY <1>1, <1>8, <2>1, MegabytesOfOneMore
  <2>5. /\ Megabytes(c, Granted(c)) \in Nat /\ Megabytes(b, Granted(c)) \in Nat
        /\ Megabytes(b, Granted(b)) \in Nat /\ vram \in Nat
    BY <1>1, <1>6, <2>1, Accounting, MegabytesOfASet, LeaseFields
  <2> QED BY <2>3, <2>4, <2>5
<1>10. vram > 0 => Baseline + Megabytes(b, Granted(b)) + vram <= Capacity
  <2>1. vram \in Nat /\ KeptMb(b, i) \in Nat
    <3>1. \A j \in Active(b) : j \in 1 .. b.next
      BY DEF Active, Queued, Granted, InState
    <3> QED BY <1>1, <3>1, LeaseFields DEF KeptMb
  <2>2. vram <= FreeMb(b)
    BY <1>1, <2>1, Accounting DEF Fits
  <2>3. /\ b.total_mb \in Nat /\ Baseline \in Nat /\ Capacity \in Nat /\ b.total_mb <= Capacity
    BY GpuBrokerAssumption DEF Sound, Capacity
  <2>4. /\ AccountedMb(b) \in Nat /\ UnexplainedMb(b) \in Nat /\ FreeMb(b) \in Nat
        /\ Megabytes(b, Granted(b)) \in Nat /\ Megabytes(b, Granted(b)) <= AccountedMb(b)
    BY <1>1, Accounting
  <2>5. FreeMb(b) > 0 => FreeMb(b) = b.total_mb - (Baseline + AccountedMb(b) + UnexplainedMb(b))
    <3> DEFINE used == Baseline + AccountedMb(b) + UnexplainedMb(b)
    <3>1. used \in Nat
      BY <2>3, <2>4
    <3>2. FreeMb(b) = Monus(b.total_mb, used)
      BY DEF FreeMb
    <3> HIDE DEF used
    <3>3. FreeMb(b) > 0 => FreeMb(b) = b.total_mb - used
      BY <2>3, <3>1, <3>2, MonusNat
    <3> QED BY <3>3 DEF used
  <2> HIDE DEF vram
  <2> QED BY <2>1, <2>2, <2>3, <2>4, <2>5
<1>11. FitsTheCard(c)
  <2>1. /\ Megabytes(c, Granted(c)) \in Nat /\ Megabytes(b, Granted(b)) \in Nat
        /\ vram \in Nat /\ Baseline \in Nat /\ Capacity \in Nat
    BY <1>1, <1>6, Accounting, LeaseFields, GpuBrokerAssumption DEF Capacity
  <2> HIDE DEF vram
  <2> QED BY <1>9, <1>10, <2>1 DEF Sound, FitsTheCard
<1>12. OnlyThePreemptibleYield(c)
  <2>0. Granted(b) \in SUBSET (1 .. b.next)
    BY <1>1, Accounting
  <2>1. \A j \in Granted(c) : j = i \/ (j \in Granted(b) /\ c.leases[j] = b.leases[j])
    BY <1>6, <1>7, <1>8, <2>0
  <2> QED BY <1>4, <1>6, <1>7, <2>1 DEF Sound, OnlyThePreemptibleYield
<1> QED BY <1>3, <1>6, <1>11, <1>12 DEF Sound

\* Changing for whom the reservation is keeps a broker sound.
LEMMA ReservationSound ==
  ASSUME NEW b, Sound(b), NEW i \in 0 .. b.next
  PROVE  /\ Sound([b EXCEPT !.reserved_for = i])
         /\ [b EXCEPT !.reserved_for = i].next = b.next
<1> DEFINE c == [b EXCEPT !.reserved_for = i]
<1>1. BrokerOK(c) /\ c.next = b.next /\ c.leases = b.leases /\ c.total_mb = b.total_mb
  BY DEF Sound, BrokerOK, Broker
<1> HIDE DEF c
<1>2. Sound(c)
  BY <1>1, SameLeases DEF Sound
<1> QED BY <1>1, <1>2 DEF c

\* A visit of the scheduler to a queued lease keeps a broker sound.
LEMMA VisitSound ==
  ASSUME NEW b, Sound(b), NEW i \in 1 .. b.next, NEW now \in Nat
  PROVE  Sound(Visit(b, i, now)) /\ Visit(b, i, now).next = b.next
<1>1. Sound(MakeRoom(b, i)) /\ MakeRoom(b, i).next = b.next
  BY MakeRoomSound
<1>2. i \in 0 .. MakeRoom(b, i).next
  BY <1>1 DEF Sound, BrokerOK
<1>3. /\ Sound([MakeRoom(b, i) EXCEPT !.reserved_for = i])
      /\ [MakeRoom(b, i) EXCEPT !.reserved_for = i].next = b.next
  BY <1>1, <1>2, ReservationSound
<1>4. Fits(b, i) => Sound(Grant(b, i, now)) /\ Grant(b, i, now).next = b.next
  BY GrantSound
<1> QED BY <1>3, <1>4 DEF Visit

\* A pass in the middle: some of the queue is left, and the broker is sound.
PassSound(p, n) ==
  /\ Sound(p.broker) /\ p.broker.next = n
  /\ p.left \in SUBSET (1 .. n)

\* A turn of the loop of schedule keeps the pass sound: what is left of it is queued.
LEMMA TurnSound ==
  ASSUME NEW p, NEW n \in Nat, PassSound(p, n), NEW now \in Nat
  PROVE  PassSound(Turn(p, now), n)
<1>1. CASE p.left = {}
  BY <1>1 DEF Turn
<1>2. CASE p.left # {}
  <2> DEFINE i == First(p.broker, p.left)
  <2>1. i \in p.left /\ i \in 1 .. p.broker.next
    BY <1>2, FirstIsOne DEF PassSound, Sound
  <2>2. Sound(Visit(p.broker, i, now)) /\ Visit(p.broker, i, now).next = n
    BY <2>1, VisitSound DEF PassSound
  <2>3. Turn(p, now) = [broker |-> Visit(p.broker, i, now), left |-> p.left \ {i}]
    BY <1>2 DEF Turn
  <2> HIDE DEF i
  <2> QED BY <2>2, <2>3 DEF PassSound
<1> QED BY <1>1, <1>2

\* By the least turn that would leave the broker unsound.
LEMMA ScheduleSound ==
  ASSUME NEW b, Sound(b)
  PROVE  Sound(Schedule(b)) /\ Schedule(b).next = b.next
<1> DEFINE start == [broker |-> DropStaleReservation(b), left |-> Queued(b)]
           pass[n \in 0 .. b.next] == IF n = 0 THEN start ELSE Turn(pass[n - 1], Now(b))
<1>1. Schedule(b) = IF b.queue_paused THEN b ELSE pass[b.next].broker
  BY DEF Schedule
<1>2. b.next \in Nat
  BY DEF Sound, BrokerOK
<1>3. pass = [n \in 0 .. b.next |-> IF n = 0 THEN start ELSE Turn(pass[n - 1], Now(b))]
  <2> HIDE DEF start
  <2>1. pass = CHOOSE g : g = [n \in 0 .. b.next |->
                                 IF n = 0 THEN start ELSE Turn(g[n - 1], Now(b))]
    BY Zenon
  <2> HIDE DEF pass
  <2> QED BY <1>2, <2>1, PassIsDefined
<1> HIDE DEF pass
<1>4. PassSound(start, b.next)
  <2>1. Sound(DropStaleReservation(b)) /\ DropStaleReservation(b).next = b.next
    <3>1. Nobody \in 0 .. b.next
      BY <1>2 DEF Nobody
    <3> QED BY <3>1, ReservationSound DEF DropStaleReservation
  <2>2. Queued(b) \in SUBSET (1 .. b.next)
    BY DEF Queued, InState
  <2> QED BY <2>1, <2>2 DEF PassSound
<1> HIDE DEF start
<1>5. Now(b) \in Nat
  BY NowNat DEF Sound
<1> DEFINE T == {n \in 0 .. b.next : ~PassSound(pass[n], b.next)}
<1>6. T = {}
  <2>1. SUFFICES ASSUME T # {} PROVE FALSE
    OBVIOUS
  <2>2. PICK m \in T : \A k \in T : m <= k
    <3>1. T \in SUBSET Nat
      BY <1>2
    <3> HIDE DEF T
    <3> QED BY <2>1, <3>1, NatMin
  <2>3. m # 0
    BY <1>2, <1>3, <1>4
  <2>4. m - 1 \in 0 .. b.next /\ m - 1 \notin T
    <3>1. m \in 0 .. b.next /\ m - 1 \in 0 .. b.next /\ ~(m <= m - 1)
      BY <1>2, <2>3
    <3> QED BY <3>1, <2>2
  <2>5. pass[m] = Turn(pass[m - 1], Now(b))
    BY <1>3, <2>3
  <2>6. PassSound(pass[m], b.next)
    BY <1>2, <1>5, <2>4, <2>5, TurnSound
  <2> QED BY <2>6
<1>7. PassSound(pass[b.next], b.next)
  BY <1>2, <1>6
<1> QED BY <1>1, <1>7 DEF PassSound

-----------------------------------------------------------------------------
(* What clients and the user call. *)

\* A method that changes leases one by one, and neither grants one nor tells one to
\* yield that cannot, is sound.
LEMMA LeasesSound ==
  ASSUME NEW b, Sound(b), NEW L \in [1 .. b.next -> Lease],
         \A i \in 1 .. b.next :
            /\ L[i].job = b.leases[i].job
            /\ L[i].state = "granted" => b.leases[i].state = "granted"
            /\ L[i].state = "granted" /\ L[i].directive = "yield"
                 => b.leases[i].directive = "yield" \/ b.leases[i].job.preemptible
  PROVE  Sound([b EXCEPT !.leases = L]) /\ [b EXCEPT !.leases = L].next = b.next
<1> DEFINE c == [b EXCEPT !.leases = L]
<1>1. /\ BrokerOK(c) /\ c.leases = L /\ c.next = b.next
      /\ c.total_mb \in {ConfigTotal, CardTotal}
  BY DEF Sound, BrokerOK, Broker
<1> HIDE DEF c
<1>2. Granted(c) \subseteq Granted(b) /\ Granted(c) \subseteq 1 .. b.next
  BY <1>1 DEF Granted, InState
<1>3. \A i \in Granted(c) : i \in 1 .. b.next /\ L[i].state = "granted"
  BY <1>1 DEF Granted, InState
<1>4. Sound(c)
  BY <1>1, <1>2, <1>3, GrantingNothing
<1> QED BY <1>1, <1>4 DEF c

\* Changing one lease keeps a broker sound, if it is not granted by it and it is told
\* to yield only if it can.
LEMMA OneLeaseSound ==
  ASSUME NEW b, Sound(b), NEW i \in 1 .. b.next, NEW l \in Lease,
         l.job = b.leases[i].job, l.state = b.leases[i].state,
         l.directive = "yield" =>
            \/ b.leases[i].directive = "yield"
            \/ b.leases[i].job.preemptible \/ b.leases[i].state # "granted"
  PROVE  Sound([b EXCEPT !.leases[i] = l]) /\ [b EXCEPT !.leases[i] = l].next = b.next
<1> DEFINE L == [b.leases EXCEPT ![i] = l]
<1>1. BrokerOK(b) /\ b.leases \in [1 .. b.next -> Lease]
  BY DEF Sound, BrokerOK, Broker
<1>2. L \in [1 .. b.next -> Lease]
  BY <1>1
<1>3. \A j \in 1 .. b.next : L[j] = IF j = i THEN l ELSE b.leases[j]
  BY <1>1
<1>4. [b EXCEPT !.leases[i] = l] = [b EXCEPT !.leases = L]
  BY <1>1 DEF BrokerOK, Broker
<1>5. \A j \in 1 .. b.next :
        /\ L[j].job = b.leases[j].job
        /\ L[j].state = "granted" => b.leases[j].state = "granted"
        /\ L[j].state = "granted" /\ L[j].directive = "yield"
             => b.leases[j].directive = "yield" \/ b.leases[j].job.preemptible
  BY <1>3
<1> HIDE DEF L
<1>6. Sound([b EXCEPT !.leases = L]) /\ [b EXCEPT !.leases = L].next = b.next
  BY <1>2, <1>5, LeasesSound
<1> QED BY <1>4, <1>6

\* Ending leases keeps a broker sound: what stays granted takes no more than before.
LEMMA EndSound ==
  ASSUME NEW b, Sound(b), NEW S,
         NEW outcome \in {"none", "released", "yielded", "expired", "cancelled"}
  PROVE  Sound(End(b, S, outcome)) /\ End(b, S, outcome).next = b.next
<1> DEFINE L == [i \in 1 .. b.next |->
                   IF i \in S
                   THEN [b.leases[i] EXCEPT !.state = "ended", !.outcome = outcome,
                                !.priority = b.leases[i].job.priority, !.directive = "continue",
                                !.held = FALSE, !.overdue = FALSE]
                   ELSE b.leases[i]]
<1>1. ASSUME NEW i \in 1 .. b.next
      PROVE  /\ L[i] \in Lease /\ L[i].job = b.leases[i].job
             /\ L[i].state = "granted" => b.leases[i].state = "granted"
             /\ L[i].directive = "yield" => b.leases[i].directive = "yield"
  <2>1. b.leases[i] \in Lease /\ b.leases[i].job \in JobType
    BY LeaseFields, GpuBrokerAssumption DEF Sound
  <2>2. b.leases[i].job.priority \in Priority
    BY <2>1 DEF JobType
  <2> DEFINE m == [b.leases[i] EXCEPT !.state = "ended", !.outcome = outcome,
                      !.priority = b.leases[i].job.priority, !.directive = "continue",
                      !.held = FALSE, !.overdue = FALSE]
  <2>3. /\ m \in Lease /\ m.job = b.leases[i].job
        /\ m.state = "ended" /\ m.directive = "continue"
    BY <2>1, <2>2 DEF Lease
  <2>4. L[i] = m \/ L[i] = b.leases[i]
    OBVIOUS
  <2> HIDE DEF L, m
  <2> QED BY <2>1, <2>3, <2>4
<1>2. L \in [1 .. b.next -> Lease]
  BY <1>1
<1>3. End(b, S, outcome) = [b EXCEPT !.leases = L]
  BY DEF End
<1> HIDE DEF L
<1>4. \A j \in 1 .. b.next :
        /\ L[j].job = b.leases[j].job
        /\ L[j].state = "granted" => b.leases[j].state = "granted"
        /\ L[j].state = "granted" /\ L[j].directive = "yield"
             => b.leases[j].directive = "yield" \/ b.leases[j].job.preemptible
  BY <1>1
<1>5. Sound([b EXCEPT !.leases = L]) /\ [b EXCEPT !.leases = L].next = b.next
  BY <1>2, <1>4, LeasesSound
<1> QED BY <1>3, <1>5

\* A new lease at the end of the queue keeps a broker sound.
LEMMA EnqueueSound ==
  ASSUME NEW b, Sound(b), NEW job \in Job, NEW gap \in RequestGaps
  PROVE  Sound(Enqueue(b, job, gap))
<1> DEFINE l == NewLease(b, job, gap)
           n == b.next + 1
           L == [i \in 1 .. n |-> IF i = n THEN l ELSE b.leases[i]]
           c == [b EXCEPT !.next = n, !.leases = L]
<1>1. /\ BrokerOK(b) /\ b.next \in Nat /\ n \in Nat
      /\ b.leases \in [1 .. b.next -> Lease]
  BY DEF Sound, BrokerOK, Broker
<1>2. l \in Lease /\ l.state = "queued"
  <2>1. gap \in Nat
    BY GpuBrokerAssumption
  <2>2. b.next # 0 => b.leases[b.next].requested_at \in Nat
    BY <1>1, LeaseFields
  <2>3. gap + (IF b.next = 0 THEN 0 ELSE b.leases[b.next].requested_at) \in Nat
    BY <2>1, <2>2
  <2>4. job.priority \in Priority
    BY GpuBrokerAssumption DEF JobType
  <2> QED BY <2>3, <2>4 DEF NewLease, Lease
<1> HIDE DEF l
<1>3. L \in [1 .. n -> Lease]
  BY <1>1, <1>2
<1>4. /\ \A i \in 1 .. n : L[i] = IF i = n THEN l ELSE b.leases[i]
      /\ \A i \in 1 .. n : i # n => i \in 1 .. b.next
  BY <1>1
<1>5. /\ BrokerOK(c) /\ c.leases = L /\ c.next = n
      /\ c.total_mb \in {ConfigTotal, CardTotal}
  <2>1. b.reserved_for \in 0 .. n
    BY <1>1 DEF BrokerOK, Broker
  <2> HIDE DEF L, n
  <2> QED BY <1>1, <1>3, <2>1 DEF Sound, BrokerOK, Broker
<1>6. Enqueue(b, job, gap) = c
  BY DEF Enqueue, l
<1> HIDE DEF c, L
<1>7. \A i \in Granted(c) : i \in 1 .. b.next /\ c.leases[i] = b.leases[i] /\ i \in Granted(b)
  BY <1>2, <1>4, <1>5 DEF Granted, InState
<1>8. Granted(c) \subseteq Granted(b)
  BY <1>7
<1> QED BY <1>5, <1>6, <1>7, <1>8, GrantingNothing

\* A lease in the queue or granted is one the broker handed out.
LEMMA ActiveIsLease ==
  ASSUME NEW b, NEW i \in Active(b)
  PROVE  i \in 1 .. b.next
BY DEF Active, Queued, Granted, InState

\* A sign of life keeps a broker sound.
LEMMA TouchSound ==
  ASSUME NEW b, Sound(b), NEW i \in 1 .. b.next, NEW overdue \in BOOLEAN
  PROVE  Sound([b EXCEPT !.leases[i].overdue = overdue])
<1> DEFINE l == [b.leases[i] EXCEPT !.overdue = overdue]
<1>1. b.leases \in [1 .. b.next -> Lease] /\ b.leases[i] \in Lease
  BY DEF Sound, BrokerOK, Broker
<1>2. /\ l \in Lease /\ l.job = b.leases[i].job /\ l.state = b.leases[i].state
      /\ l.directive = b.leases[i].directive
  BY <1>1 DEF Lease
<1>3. [b EXCEPT !.leases[i].overdue = overdue] = [b EXCEPT !.leases[i] = l]
  <2>1. /\ [b EXCEPT !.leases[i].overdue = overdue]
               = [b EXCEPT !.leases = [b.leases EXCEPT ![i] = l]]
    BY <1>1 DEF Sound, BrokerOK, Broker
  <2>2. [b EXCEPT !.leases[i] = l] = [b EXCEPT !.leases = [b.leases EXCEPT ![i] = l]]
    <3> HIDE DEF l
    <3> QED BY <1>1 DEF Sound, BrokerOK, Broker
  <2> QED BY <2>1, <2>2
<1> HIDE DEF l
<1> QED BY <1>2, <1>3, OneLeaseSound

\* Pausing a lease keeps a broker sound, as a granted one that cannot yield is refused.
LEMMA HoldSound ==
  ASSUME NEW b, Sound(b), NEW i \in 1 .. b.next,
         b.leases[i].job.preemptible \/ i \in Queued(b)
  PROVE  Sound([b EXCEPT
                  !.held = @ \cup {b.leases[i].job.who},
                  !.leases[i] = [@ EXCEPT !.held = TRUE,
                                          !.directive = IF i \in Granted(b) THEN "yield"
                                                        ELSE b.leases[i].directive]])
<1> DEFINE l == [b.leases[i] EXCEPT !.held = TRUE,
                      !.directive = IF i \in Granted(b) THEN "yield"
                                    ELSE b.leases[i].directive]
           c == [b EXCEPT !.held = @ \cup {b.leases[i].job.who}]
<1>1. /\ BrokerOK(b) /\ b.leases \in [1 .. b.next -> Lease] /\ b.leases[i] \in Lease
      /\ b.leases[i].job \in Job
  BY LeaseFields DEF Sound, BrokerOK, Broker
<1>2. BrokerOK(c) /\ c.next = b.next /\ c.leases = b.leases /\ c.total_mb = b.total_mb
  BY <1>1 DEF BrokerOK, Broker
<1>3. /\ l \in Lease /\ l.job = b.leases[i].job /\ l.state = b.leases[i].state
      /\ l.directive = "yield" => b.leases[i].directive = "yield" \/ i \in Granted(b)
  BY <1>1 DEF Lease
<1>4. i \in Granted(b) => b.leases[i].job.preemptible
  BY DEF Granted, Queued, InState
<1>5. [b EXCEPT !.held = @ \cup {b.leases[i].job.who},
                !.leases[i] = [@ EXCEPT !.held = TRUE,
                                        !.directive = IF i \in Granted(b) THEN "yield"
                                                      ELSE b.leases[i].directive]]
        = [c EXCEPT !.leases[i] = l]
  <2> DEFINE L == [b.leases EXCEPT ![i] = l]
  <2>1. [c EXCEPT !.leases[i] = l] = [c EXCEPT !.leases = L]
    <3> HIDE DEF c, l
    <3> QED BY <1>2 DEF BrokerOK, Broker
  <2>2. [b EXCEPT !.held = @ \cup {b.leases[i].job.who},
                  !.leases[i] = [@ EXCEPT !.held = TRUE,
                                          !.directive = IF i \in Granted(b) THEN "yield"
                                                        ELSE b.leases[i].directive]]
          = [b EXCEPT !.held = @ \cup {b.leases[i].job.who}, !.leases = L]
    BY <1>1 DEF BrokerOK, Broker
  <2>3. [c EXCEPT !.leases = L]
          = [b EXCEPT !.held = @ \cup {b.leases[i].job.who}, !.leases = L]
    <3> HIDE DEF L
    <3> QED BY <1>1 DEF BrokerOK, Broker
  <2> QED BY <2>1, <2>2, <2>3
<1> HIDE DEF c, l
<1>6. Sound(c)
  BY <1>2, SameLeases DEF Sound
<1>7. Sound([c EXCEPT !.leases[i] = l])
  BY <1>2, <1>3, <1>4, <1>6, OneLeaseSound
<1> QED BY <1>5, <1>7

\* Resuming a lease keeps a broker sound.
LEMMA ResumeSound ==
  ASSUME NEW b, Sound(b), NEW i \in 1 .. b.next
  PROVE  Sound([b EXCEPT !.held = @ \ {b.leases[i].job.who}, !.leases[i].held = FALSE])
<1> DEFINE l == [b.leases[i] EXCEPT !.held = FALSE]
           c == [b EXCEPT !.held = @ \ {b.leases[i].job.who}]
<1>1. BrokerOK(b) /\ b.leases \in [1 .. b.next -> Lease] /\ b.leases[i] \in Lease
  BY DEF Sound, BrokerOK, Broker
<1>2. BrokerOK(c) /\ c.next = b.next /\ c.leases = b.leases /\ c.total_mb = b.total_mb
  BY <1>1 DEF BrokerOK, Broker
<1>3. /\ l \in Lease /\ l.job = b.leases[i].job /\ l.state = b.leases[i].state
      /\ l.directive = b.leases[i].directive
  BY <1>1 DEF Lease
<1>4. [b EXCEPT !.held = @ \ {b.leases[i].job.who}, !.leases[i].held = FALSE]
        = [c EXCEPT !.leases[i] = l]
  BY <1>1 DEF BrokerOK, Broker
<1> HIDE DEF c, l
<1>5. Sound(c)
  BY <1>2, SameLeases DEF Sound
<1>6. Sound([c EXCEPT !.leases[i] = l])
  BY <1>2, <1>3, <1>5, OneLeaseSound
<1> QED BY <1>4, <1>6

\* A new priority keeps a broker sound.
LEMMA PrioritySound ==
  ASSUME NEW b, Sound(b), NEW i \in 1 .. b.next, NEW priority \in Priority
  PROVE  Sound([b EXCEPT !.leases[i].priority = priority])
<1> DEFINE l == [b.leases[i] EXCEPT !.priority = priority]
<1>1. b.leases \in [1 .. b.next -> Lease] /\ b.leases[i] \in Lease
  BY DEF Sound, BrokerOK, Broker
<1>2. /\ l \in Lease /\ l.job = b.leases[i].job /\ l.state = b.leases[i].state
      /\ l.directive = b.leases[i].directive
  BY <1>1 DEF Lease
<1>3. [b EXCEPT !.leases[i].priority = priority] = [b EXCEPT !.leases[i] = l]
  BY <1>1 DEF Sound, BrokerOK, Broker
<1> HIDE DEF l
<1> QED BY <1>2, <1>3, OneLeaseSound

\* Telling a granted lease to cancel keeps a broker sound.
LEMMA CancelDirectiveSound ==
  ASSUME NEW b, Sound(b), NEW i \in 1 .. b.next
  PROVE  Sound([b EXCEPT !.leases[i].directive = "cancel"])
<1> DEFINE l == [b.leases[i] EXCEPT !.directive = "cancel"]
<1>1. b.leases \in [1 .. b.next -> Lease] /\ b.leases[i] \in Lease
  BY DEF Sound, BrokerOK, Broker
<1>2. /\ l \in Lease /\ l.job = b.leases[i].job /\ l.state = b.leases[i].state
      /\ l.directive = "cancel"
  BY <1>1 DEF Lease
<1>3. [b EXCEPT !.leases[i].directive = "cancel"] = [b EXCEPT !.leases[i] = l]
  BY <1>1 DEF Sound, BrokerOK, Broker
<1> HIDE DEF l
<1> QED BY <1>2, <1>3, OneLeaseSound

\* Clearing the card for what is critical keeps a broker sound.
LEMMA ClearForCriticalSound ==
  ASSUME NEW b, Sound(b)
  PROVE  Sound(ClearForCritical(b))
<1> DEFINE S == {i \in Granted(b) : Preemptible(b, i) /\ b.leases[i].priority # Critical}
           asked == TellToYield(b, S)
           unloaded == IF IdleOllamaMb(b) > 0 THEN UnloadsOllama(asked) ELSE asked
<1>1. \A i \in S : b.leases[i].job.preemptible
  BY DEF Preemptible
<1> HIDE DEF S
<1>2. Sound(asked)
  BY <1>1, TellToYieldSound
<1> HIDE DEF asked
<1>3. Sound(unloaded)
  BY <1>2, UnloadsOllamaSound
<1> HIDE DEF unloaded
<1>4. Sound(FreeIdleResident(unloaded))
  BY <1>3, FreeIdleResidentSound
<1> QED BY <1>4 DEF ClearForCritical, S, asked, unloaded

-----------------------------------------------------------------------------
(* What the sampler brings. *)

\* What the sampler says of Ollama keeps a broker sound.
LEMMA SetOllamaSound ==
  ASSUME NEW b, Sound(b), NEW mb \in Nat
  PROVE  Sound(SetOllama(b, mb))
<1> DEFINE c == [b EXCEPT !.ollama = [loaded_mb |-> mb, unloading |-> mb > 0 /\ @.unloading]]
<1>1. BrokerOK(c) /\ c.next = b.next /\ c.leases = b.leases /\ c.total_mb = b.total_mb
  <2> DEFINE o == [loaded_mb |-> mb, unloading |-> mb > 0 /\ b.ollama.unloading]
  <2>1. o \in [loaded_mb : Nat, unloading : BOOLEAN]
    OBVIOUS
  <2>2. c = [b EXCEPT !.ollama = o]
    BY DEF Sound, BrokerOK, Broker
  <2> HIDE DEF o, c
  <2> QED BY <2>1, <2>2 DEF Sound, BrokerOK, Broker
<1> HIDE DEF c
<1>2. Sound(c)
  BY <1>1, SameLeases DEF Sound
<1>3. Sound(UnloadsOllama(c))
  BY <1>2, UnloadsOllamaSound
<1>4. Sound(Schedule(c)) /\ Sound(Schedule(UnloadsOllama(c)))
  BY <1>2, <1>3, ScheduleSound
<1> QED BY <1>4 DEF SetOllama, c

\* What the sampler says of the residents keeps a broker sound.
LEMMA SetResidentsSound ==
  ASSUME NEW b, Sound(b), NEW seen \in [Resident -> [present : BOOLEAN, busy : BOOLEAN]]
  PROVE  Sound(SetResidents(b, seen))
<1> DEFINE R == [r \in Resident |->
                   [b.residents[r] EXCEPT !.present = seen[r].present, !.busy = seen[r].busy,
                                          !.freeing = seen[r].present /\ @]]
           c == [b EXCEPT !.residents = R]
<1>1. R \in [Resident -> ResidentState]
  <2>1. ASSUME NEW r \in Resident PROVE R[r] \in ResidentState
    <3>1. b.residents[r] \in ResidentState
      BY DEF Sound, BrokerOK, Broker
    <3>2. seen[r] \in [present : BOOLEAN, busy : BOOLEAN]
      OBVIOUS
    <3> QED BY <3>1, <3>2 DEF ResidentState
  <2> QED BY <2>1
<1>2. BrokerOK(c) /\ c.next = b.next /\ c.leases = b.leases /\ c.total_mb = b.total_mb
  <2> HIDE DEF R
  <2> QED BY <1>1 DEF Sound, BrokerOK, Broker
<1>3. SetResidents(b, seen)
        = Schedule(IF ReservedForCritical(c) THEN FreeIdleResident(c) ELSE c)
  BY DEF SetResidents
<1> HIDE DEF c, R
<1>4. Sound(c)
  BY <1>2, SameLeases DEF Sound
<1>5. Sound(FreeIdleResident(c))
  BY <1>4, FreeIdleResidentSound
<1>6. Sound(Schedule(c)) /\ Sound(Schedule(FreeIdleResident(c)))
  BY <1>4, <1>5, ScheduleSound
<1> QED BY <1>3, <1>6

\* A reading of the card keeps a broker sound, although it may change its total.
LEMMA SetMeasuredSound ==
  ASSUME NEW b, Sound(b), NEW used \in Nat
  PROVE  Sound(SetMeasured(b, used))
<1> DEFINE c == [b EXCEPT !.measured_used_mb = used,
                          !.total_mb = IF CardTotal > 0 THEN CardTotal ELSE @]
           R == [r \in Resident |-> Confirm(c.residents[r], ResidentCacheMb(c))]
           d == [c EXCEPT !.residents = R]
<1>1. /\ BrokerOK(c) /\ c.next = b.next /\ c.leases = b.leases
      /\ c.total_mb \in {ConfigTotal, CardTotal}
  BY GpuBrokerAssumption DEF Sound, BrokerOK, Broker
<1>2. SetMeasured(b, used) = Schedule(d)
  BY DEF SetMeasured
<1> HIDE DEF c
<1>3. R \in [Resident -> ResidentState]
  <2>1. ASSUME NEW r \in Resident PROVE R[r] \in ResidentState
    <3>1. c.residents[r] \in ResidentState
      BY <1>1 DEF BrokerOK, Broker
    <3>2. ResidentCacheMb(c) \in Nat
      BY <1>1, Accounting
    <3> QED BY <3>1, <3>2 DEF ResidentState, Confirm
  <2> QED BY <2>1
<1> HIDE DEF R
<1>4. /\ BrokerOK(d) /\ d.next = b.next /\ d.leases = b.leases
      /\ d.total_mb \in {ConfigTotal, CardTotal}
  BY <1>1, <1>3 DEF BrokerOK, Broker
<1> HIDE DEF d
<1>5. Sound(d)
  BY <1>4, SameLeases
<1> QED BY <1>2, <1>5, ScheduleSound

\* The beginning and the end of game mode keep a broker sound.
LEMMA SetInteractiveSound ==
  ASSUME NEW b, Sound(b), NEW apps \in SUBSET App
  PROVE  Sound(SetInteractive(b, apps))
<1> DEFINE c == [b EXCEPT !.interactive = apps]
<1>1. BrokerOK(c) /\ c.next = b.next /\ c.leases = b.leases /\ c.total_mb = b.total_mb
  BY DEF Sound, BrokerOK, Broker
<1> HIDE DEF c
<1>2. Sound(c)
  BY <1>1, SameLeases DEF Sound
<1>3. Sound(Schedule(c)) /\ Sound(Schedule(ClearForCritical(c)))
  BY <1>2, ClearForCriticalSound, ScheduleSound
<1> QED BY <1>3 DEF SetInteractive, c

\* Expiry keeps a broker sound.
LEMMA TickSound ==
  ASSUME NEW b, Sound(b)
  PROVE  Sound(Tick(b))
BY EndSound, ScheduleSound DEF Tick

-----------------------------------------------------------------------------
(* The theorem. *)

\* A new broker is sound.
LEMMA InitSound == Init => Sound(broker)
<1> SUFFICES ASSUME Init PROVE Sound(broker)
  OBVIOUS
<1>1. BrokerOK(broker)
  <2>1. [r \in Resident |-> [present |-> FALSE, busy |-> FALSE, freeing |-> FALSE,
                             floor_mb |-> 0, freeing_from |-> 0, late |-> FALSE]]
          \in [Resident -> ResidentState]
    BY DEF ResidentState
  <2>2. [i \in 1 .. 0 |-> 0] \in [1 .. 0 -> Lease]
    OBVIOUS
  <2> QED BY <2>1, <2>2, GpuBrokerAssumption DEF Init, BrokerOK, Broker, Nobody
<1>2. Granted(broker) = {} /\ broker.total_mb = ConfigTotal
  BY DEF Init, Granted, InState
<1>3. Megabytes(broker, {}) = 0
  <2>1. UNION {{i} \X (1 .. broker.leases[i].job.vram_mb) : i \in {}} = {}
    OBVIOUS
  <2> QED BY <2>1, FS_EmptySet DEF Megabytes
<1> QED BY <1>1, <1>2, <1>3 DEF Sound, FitsTheCard, OnlyThePreemptibleYield

\* What clients call keeps the broker sound: one step per handler.
LEMMA ClientSound == Sound(broker) /\ Client => Sound(broker')
<1> SUFFICES ASSUME Sound(broker), Client PROVE Sound(broker')
  OBVIOUS
<1>1. ASSUME NEW job \in Job, NEW gap \in RequestGaps, Acquire(job, gap)
      PROVE  Sound(broker')
  BY <1>1, EnqueueSound, ScheduleSound DEF Acquire
<1>2. ASSUME NEW i \in 1 .. broker.next, Poll(i) \/ Heartbeat(i) \/ YieldPoint(i)
      PROVE  Sound(broker')
  <2>1. Sound([broker EXCEPT !.leases[i].overdue = FALSE])
    BY TouchSound
  <2> QED BY <1>2, <2>1 DEF Poll, Heartbeat, YieldPoint, Touch
<1>3. ASSUME NEW i \in 1 .. broker.next, Release(i)
      PROVE  Sound(broker')
  <2>1. i \in Active(broker)
    BY <1>3 DEF Release
  <2>2. broker.leases[i].directive \in {"continue", "yield", "cancel"}
    BY <2>1, ActiveIsLease, LeaseFields DEF Sound, Lease
  <2>3. OutcomeOf(broker.leases[i].directive)
          \in {"none", "released", "yielded", "expired", "cancelled"}
    BY <2>2 DEF OutcomeOf
  <2>4. Sound(End(broker, {i}, OutcomeOf(broker.leases[i].directive)))
    BY <2>3, EndSound
  <2> QED BY <1>3, <2>4, ScheduleSound DEF Release
<1>4. ASSUME NEW i \in 1 .. broker.next, GoQuiet(i)
      PROVE  Sound(broker')
  <2>1. Sound([broker EXCEPT !.leases[i].overdue = TRUE])
    BY TouchSound
  <2> QED BY <1>4, <2>1 DEF GoQuiet
<1> QED BY <1>1, <1>2, <1>3, <1>4 DEF Client

\* What the user does keeps the broker sound: one step per button.
LEMMA UserSound == Sound(broker) /\ User => Sound(broker')
<1> SUFFICES ASSUME Sound(broker), User PROVE Sound(broker')
  OBVIOUS
<1>1. ASSUME NEW i \in 1 .. broker.next, Hold(i)
      PROVE  Sound(broker')
  BY <1>1, HoldSound, ScheduleSound DEF Hold
<1>2. ASSUME NEW i \in 1 .. broker.next, Resume(i)
      PROVE  Sound(broker')
  BY <1>2, ResumeSound, ScheduleSound DEF Resume
<1>3. ASSUME NEW i \in 1 .. broker.next, Cancel(i)
      PROVE  Sound(broker')
  <2>1. Sound(End(broker, {i}, "cancelled"))
    BY EndSound
  <2>2. Sound([broker EXCEPT !.leases[i].directive = "cancel"])
    BY CancelDirectiveSound
  <2> QED BY <1>3, <2>1, <2>2, ScheduleSound DEF Cancel
<1>4. ASSUME NEW i \in 1 .. broker.next, NEW priority \in NewPriorities,
             SetPriority(i, priority)
      PROVE  Sound(broker')
  <2>1. priority \in Priority
    BY GpuBrokerAssumption
  <2> QED BY <1>4, <2>1, PrioritySound, ScheduleSound DEF SetPriority
<1>5. ASSUME NEW on \in BOOLEAN, SetTraining(on)
      PROVE  Sound(broker')
  <2> DEFINE b == [broker EXCEPT !.training = on]
  <2>1. BrokerOK(b) /\ b.next = broker.next /\ b.leases = broker.leases
        /\ b.total_mb = broker.total_mb
    BY DEF Sound, BrokerOK, Broker
  <2> HIDE DEF b
  <2>2. Sound(b) /\ Sound(ClearForCritical(b))
    BY <2>1, SameLeases, ClearForCriticalSound DEF Sound
  <2>3. Sound(Schedule(b)) /\ Sound(Schedule(ClearForCritical(b)))
    BY <2>2, ScheduleSound
  <2> QED BY <1>5, <2>3 DEF SetTraining, b
<1>6. ASSUME NEW paused \in BOOLEAN, SetQueuePaused(paused)
      PROVE  Sound(broker')
  <2> DEFINE b == [broker EXCEPT !.queue_paused = paused]
  <2>1. BrokerOK(b) /\ b.next = broker.next /\ b.leases = broker.leases
        /\ b.total_mb = broker.total_mb
    BY DEF Sound, BrokerOK, Broker
  <2> HIDE DEF b
  <2>2. Sound(b)
    BY <2>1, SameLeases DEF Sound
  <2> QED BY <1>6, <2>2, ScheduleSound DEF SetQueuePaused, b
<1>7. ASSUME RequestOllamaUnload
      PROVE  Sound(broker')
  BY <1>7, UnloadsOllamaSound, ScheduleSound DEF RequestOllamaUnload
<1>8. ASSUME NEW r \in Resident, RequestResidentFree(r)
      PROVE  Sound(broker')
  <2>1. ResidentCacheMb(broker) \in Nat
    BY Accounting DEF Sound
  <2> QED BY <1>8, <2>1, PushFreeSound, ScheduleSound DEF RequestResidentFree
<1> QED BY <1>1, <1>2, <1>3, <1>4, <1>5, <1>6, <1>7, <1>8 DEF User

\* The sampler, the draining of effects and the passing of time keep the broker sound.
LEMMA ServerSound == Sound(broker) /\ Server => Sound(broker')
<1> SUFFICES ASSUME Sound(broker), Server PROVE Sound(broker')
  OBVIOUS
<1>1. ASSUME NEW s \in Sampled, Sample(s)
      PROVE  Sound(broker')
  <2>1. /\ s.ollama_mb \in Nat /\ s.used_mb \in Nat /\ s.apps \in SUBSET App
        /\ s.seen \in [Resident -> [present : BOOLEAN, busy : BOOLEAN]]
    BY GpuBrokerAssumption DEF SampleType
  <2> DEFINE seen == SetResidents(SetOllama(broker, s.ollama_mb), s.seen)
             read == SetInteractive(SetMeasured(seen, s.used_mb), s.apps)
  <2>2. Sound(seen)
    BY <2>1, SetOllamaSound, SetResidentsSound
  <2> HIDE DEF seen
  <2>3. Sound(read)
    BY <2>1, <2>2, SetMeasuredSound, SetInteractiveSound
  <2>4. Sound(Tick(read)) /\ Sound(Tick(seen))
    <3> HIDE DEF read
    <3> QED BY <2>2, <2>3, TickSound
  <2> QED BY <1>1, <2>4 DEF Sample, seen, read
<1>2. ASSUME Settle
      PROVE  Sound(broker')
  <2> DEFINE b == [broker EXCEPT !.effects = {}]
  <2>1. BrokerOK(b) /\ b.next = broker.next /\ b.leases = broker.leases
        /\ b.total_mb = broker.total_mb
    BY DEF Sound, BrokerOK, Broker
  <2> HIDE DEF b
  <2>2. Sound(b)
    BY <2>1, SameLeases DEF Sound
  <2> QED BY <1>2, <2>2 DEF Settle, b
<1>3. ASSUME NEW r \in Resident, FreeingGoesLate(r)
      PROVE  Sound(broker')
  <2> DEFINE rs == [broker.residents[r] EXCEPT !.late = TRUE]
             R == [broker.residents EXCEPT ![r] = rs]
             b == [broker EXCEPT !.residents = R]
  <2>1. broker.residents \in [Resident -> ResidentState]
        /\ broker.residents[r] \in ResidentState
    BY DEF Sound, BrokerOK, Broker
  <2>2. rs \in ResidentState
    BY <2>1 DEF ResidentState
  <2>3. broker' = b
    BY <1>3, <2>1 DEF FreeingGoesLate, Sound, BrokerOK, Broker
  <2>4. R \in [Resident -> ResidentState]
    <3> HIDE DEF rs
    <3> QED BY <2>1, <2>2
  <2> HIDE DEF R
  <2>5. BrokerOK(b) /\ b.next = broker.next /\ b.leases = broker.leases
        /\ b.total_mb = broker.total_mb
    BY <2>4 DEF Sound, BrokerOK, Broker
  <2> HIDE DEF b
  <2>6. Sound(b)
    BY <2>5, SameLeases DEF Sound
  <2> QED BY <2>3, <2>6
<1> QED BY <1>1, <1>2, <1>3 DEF Server

\* Every reachable broker is sound: the methods compose, whatever the handlers, the
\* buttons and the sampler do, and in whatever order they take the lock.
THEOREM SoundAlways == Spec => []Sound(broker)
<1>1. Init => Sound(broker)
  BY InitSound
<1>2. Sound(broker) /\ [Next]_broker => Sound(broker)'
  <2> SUFFICES ASSUME Sound(broker), [Next]_broker PROVE Sound(broker')
    BY DEF Sound, BrokerOK, Broker, FitsTheCard, OnlyThePreemptibleYield
  <2>1. CASE Client
    BY <2>1, ClientSound
  <2>2. CASE User
    BY <2>2, UserSound
  <2>3. CASE Server
    BY <2>3, ServerSound
  <2>4. CASE UNCHANGED broker
    BY <2>4
  <2> QED BY <2>1, <2>2, <2>3, <2>4 DEF Next
<1> QED BY <1>1, <1>2, PTL DEF Spec

\* The broker keeps the shape the struct has (broker.rs, Broker and Lease).
THEOREM TypeCorrect == Spec => []TypeOK
<1>1. Sound(broker) => TypeOK
  BY DEF Sound, TypeOK
<1> QED BY <1>1, SoundAlways, PTL

\* The leases granted fit in the card next to the desktop: schedule grants only what
\* fits, and nothing else grants (broker.rs, schedule and free_mb).
THEOREM NeverOvercommitted == Spec => []NoOvercommit
<1>1. Sound(broker) => NoOvercommit
  BY DEF Sound, FitsTheCard, NoOvercommit
<1> QED BY <1>1, SoundAlways, PTL

\* Only what declared that it can yield is told to (make_room, clear_for_critical, hold).
THEOREM YieldIsVoluntary == Spec => []OnlyPreemptibleYield
<1>1. Sound(broker) => OnlyPreemptibleYield
  BY DEF Sound, OnlyThePreemptibleYield, OnlyPreemptibleYield
<1> QED BY <1>1, SoundAlways, PTL

-----------------------------------------------------------------------------
(* Gentle steps. *)

\* Who does not work is told nothing.
Quiet(b) ==
  \A i \in 1 .. b.next : b.leases[i].state # "granted" => b.leases[i].directive = "continue"

\* What everything but a button may make of lease l: it does not go back, stays paused
\* or not and keeps its priority while it is there; what it was told stands; it is not
\* told to cancel, nor to yield if it is critical.
Gentle(l, m) ==
  /\ m.job = l.job
  /\ l.state # "queued" => m.state # "queued"
  /\ l.state = "ended" => m.state = "ended"
  /\ m.state # "granted" => m.directive = "continue"
  /\ m.state # "ended" => m.held = l.held /\ m.priority = l.priority
  /\ m.state = "granted" =>
       /\ l.state = "granted" /\ l.directive # "continue" => m.directive = l.directive
       /\ m.directive = "cancel" => l.state = "granted" /\ l.directive = "cancel"
       /\ m.directive = "yield" =>
            \/ l.state = "granted" /\ l.directive = "yield"
            \/ m.priority # Critical

\* Nobody is granted against the user: what is paused, or not critical in training.
LetIn(b, m) ==
  /\ ~b.queue_paused /\ ~m.held
  /\ b.training => m.priority = Critical

Soft(b, c) ==
  /\ c.next = b.next /\ c.training = b.training /\ c.queue_paused = b.queue_paused
  /\ \A i \in 1 .. b.next :
       /\ Gentle(b.leases[i], c.leases[i])
       /\ b.leases[i].state = "queued" /\ c.leases[i].state = "granted"
            => LetIn(c, c.leases[i])

\* The engine an effect asks to let go of its memory.
Engine(e) == IF e = UnloadOllama THEN "ollama" ELSE ResidentBackend[e]

\* No engine is asked to let go that a lease works on from before to after.
SparesLeased(b, c) ==
  \A i \in 1 .. b.next, e \in c.effects \ b.effects :
    b.leases[i].state = "granted" /\ c.leases[i].state = "granted"
      => b.leases[i].job.backend # Engine(e)

\* A sound broker whose queue is told nothing: what every method expects and gives.
Calm(b) == Sound(b) /\ Quiet(b)

\* Doing nothing to the leases is gentle.
LEMMA SameIsSoft ==
  ASSUME NEW b, Calm(b), NEW c, c.next = b.next, c.leases = b.leases,
         c.training = b.training, c.queue_paused = b.queue_paused
  PROVE  Soft(b, c)
<1> SUFFICES ASSUME NEW i \in 1 .. b.next
             PROVE  Gentle(b.leases[i], b.leases[i])
  BY DEF Soft
<1>1. b.leases[i] \in Lease
  BY LeaseFields DEF Calm, Sound
<1> QED BY <1>1 DEF Calm, Quiet, Gentle, Lease

\* One gentle change after another is one.
LEMMA GentleTrans ==
  ASSUME NEW l \in Lease, NEW m \in Lease, NEW n \in Lease, Gentle(l, m), Gentle(m, n)
  PROVE  Gentle(l, n)
BY DEF Gentle, Lease

\* One soft method after another is one.
LEMMA SoftTrans ==
  ASSUME NEW b, Sound(b), NEW c, Sound(c), NEW d, Sound(d), Soft(b, c), Soft(c, d)
  PROVE  Soft(b, d)
<1>1. d.next = b.next /\ d.training = b.training /\ d.queue_paused = b.queue_paused
      /\ c.next = b.next
  BY DEF Soft
<1>2. ASSUME NEW i \in 1 .. b.next
      PROVE  /\ Gentle(b.leases[i], d.leases[i])
             /\ b.leases[i].state = "queued" /\ d.leases[i].state = "granted"
                  => LetIn(d, d.leases[i])
  <2>1. /\ b.leases[i] \in Lease /\ c.leases[i] \in Lease /\ d.leases[i] \in Lease
    BY <1>1, LeaseFields DEF Sound
  <2>2. Gentle(b.leases[i], c.leases[i]) /\ Gentle(c.leases[i], d.leases[i])
    BY <1>1 DEF Soft
  <2>3. Gentle(b.leases[i], d.leases[i])
    BY <2>1, <2>2, GentleTrans
  <2>4. ASSUME b.leases[i].state = "queued", d.leases[i].state = "granted"
        PROVE  LetIn(d, d.leases[i])
    <3>1. CASE c.leases[i].state = "queued"
      BY <1>1, <2>4, <3>1 DEF Soft
    <3>2. CASE c.leases[i].state = "granted"
      <4>1. LetIn(c, c.leases[i])
        BY <1>1, <2>4, <3>2 DEF Soft
      <4>2. d.leases[i].held = c.leases[i].held /\ d.leases[i].priority = c.leases[i].priority
        BY <2>2, <2>4 DEF Gentle
      <4> QED BY <4>1, <4>2 DEF LetIn, Soft
    <3>3. c.leases[i].state # "ended"
      BY <2>2, <2>4 DEF Gentle
    <3> QED BY <2>1, <3>1, <3>2, <3>3 DEF Lease
  <2> QED BY <2>3, <2>4
<1> QED BY <1>1, <1>2 DEF Soft

\* A soft method keeps the queue quiet.
LEMMA SoftIsQuiet ==
  ASSUME NEW b, NEW c, Soft(b, c)
  PROVE  Quiet(c)
BY DEF Soft, Gentle, Quiet

-----------------------------------------------------------------------------
(* Making room. *)

\* Telling who works and was told nothing to yield.
LEMMA TellToYieldSoft ==
  ASSUME NEW b, Calm(b), NEW S \in SUBSET Granted(b),
         \A i \in S : /\ b.leases[i].directive = "continue"
                      /\ b.leases[i].priority # Critical
  PROVE  Soft(b, TellToYield(b, S))
<1> DEFINE L == [i \in 1 .. b.next |->
                   IF i \in S THEN [b.leases[i] EXCEPT !.directive = "yield"] ELSE b.leases[i]]
           c == [b EXCEPT !.leases = L]
<1>1. BrokerOK(b)
  BY DEF Calm, Sound
<1>2. c.leases = L /\ c.next = b.next /\ c.training = b.training
      /\ c.queue_paused = b.queue_paused
  BY <1>1 DEF BrokerOK, Broker
<1>3. ASSUME NEW i \in 1 .. b.next
      PROVE  Gentle(b.leases[i], L[i]) /\ L[i].state = b.leases[i].state
  <2>1. b.leases[i] \in Lease
    BY <1>1, LeaseFields
  <2>2. CASE i \in S
    <3>1. b.leases[i].state = "granted"
      BY <2>2 DEF Granted, InState
    <3> QED BY <2>1, <2>2, <3>1 DEF Gentle, Lease
  <2>3. CASE i \notin S
    BY <2>1, <2>3 DEF Gentle, Lease, Calm, Quiet
  <2> QED BY <2>2, <2>3
<1> HIDE DEF c, L
<1>4. Soft(b, c)
  BY <1>2, <1>3 DEF Soft
<1> QED BY <1>4 DEF TellToYield, c, L

\* Asking Ollama or a resident to let go leaves the leases as they are.
LEMMA EnginesSoft ==
  ASSUME NEW b, Calm(b)
  PROVE  /\ Soft(b, UnloadsOllama(b))
         /\ \A r \in Resident, cache \in Nat : Soft(b, PushFree(b, r, cache))
         /\ Soft(b, FreeIdleResident(b))
<1>1. BrokerOK(b)
  BY DEF Calm, Sound
<1>2. Soft(b, UnloadsOllama(b))
  <2> DEFINE c == UnloadsOllama(b)
  <2>1. c.next = b.next /\ c.leases = b.leases /\ c.training = b.training
        /\ c.queue_paused = b.queue_paused
    BY <1>1 DEF UnloadsOllama, BrokerOK, Broker
  <2> HIDE DEF c
  <2>2. Soft(b, c)
    BY <2>1, SameIsSoft
  <2> QED BY <2>2 DEF c
<1>3. ASSUME NEW r, NEW cache
      PROVE  Soft(b, PushFree(b, r, cache))
  <2> DEFINE c == PushFree(b, r, cache)
  <2>1. c.next = b.next /\ c.leases = b.leases /\ c.training = b.training
        /\ c.queue_paused = b.queue_paused
    BY <1>1 DEF PushFree, BrokerOK, Broker
  <2> HIDE DEF c
  <2>2. Soft(b, c)
    BY <2>1, SameIsSoft
  <2> QED BY <2>2 DEF c
<1>4. Soft(b, b)
  BY SameIsSoft
<1> QED BY <1>2, <1>3, <1>4 DEF FreeIdleResident

\* A method that keeps a broker sound, is soft and spares the engines at work.
Kept(b, c) == Sound(c) /\ Soft(b, c) /\ SparesLeased(b, c)

\* Methods that keep a broker compose.
LEMMA KeptTrans ==
  ASSUME NEW b, Calm(b), NEW c, Kept(b, c)
  PROVE  /\ Calm(c)
         /\ \A d : Kept(c, d) => Kept(b, d)
<1>1. Calm(c)
  BY SoftIsQuiet DEF Kept, Calm
<1>2. ASSUME NEW d, Kept(c, d) PROVE Kept(b, d)
  <2>1. Sound(d) /\ Soft(b, d)
    BY <1>2, SoftTrans DEF Kept, Calm
  <2>2. ASSUME NEW i \in 1 .. b.next, NEW e \in d.effects \ b.effects,
               b.leases[i].state = "granted", d.leases[i].state = "granted"
        PROVE  b.leases[i].job.backend # Engine(e)
    <3>1. /\ i \in 1 .. c.next /\ c.leases[i] \in Lease
          /\ Gentle(b.leases[i], c.leases[i]) /\ Gentle(c.leases[i], d.leases[i])
      BY <1>2, LeaseFields DEF Kept, Soft, Sound
    <3>2. c.leases[i].state = "granted" /\ c.leases[i].job = b.leases[i].job
      BY <2>2, <3>1 DEF Gentle, Lease
    <3>3. CASE e \in c.effects
      BY <2>2, <3>2, <3>3 DEF Kept, SparesLeased
    <3>4. CASE e \notin c.effects
      BY <1>2, <2>2, <3>1, <3>2, <3>4 DEF Kept, SparesLeased
    <3> QED BY <3>3, <3>4
  <2> QED BY <2>1, <2>2 DEF Kept, SparesLeased
<1> QED BY <1>1, <1>2

\* Changing neither leases nor modes, and asking nobody, keeps a broker.
LEMMA SameIsKept ==
  ASSUME NEW b, Calm(b), NEW c, Sound(c), c.next = b.next, c.leases = b.leases,
         c.training = b.training, c.queue_paused = b.queue_paused,
         c.effects \subseteq b.effects
  PROVE  Kept(b, c)
BY SameIsSoft DEF Kept, SparesLeased

\* Doing nothing keeps a broker.
LEMMA KeptSame == ASSUME NEW b, Calm(b) PROVE Kept(b, b)
BY SameIsKept DEF Calm

\* Asking an engine that nobody works on to let go keeps a broker; so does asking the
\* idle resident, as idle_resident skips those at work.
LEMMA EnginesKept ==
  ASSUME NEW b, Calm(b)
  PROVE  /\ ~OllamaInUse(b) => Kept(b, UnloadsOllama(b))
         /\ \A r \in Resident, cache \in Nat :
              ~BackendInUse(b, ResidentBackend[r]) => Kept(b, PushFree(b, r, cache))
         /\ Kept(b, FreeIdleResident(b))
<1>1. BrokerOK(b)
  BY DEF Calm, Sound
<1>2. ASSUME ~OllamaInUse(b) PROVE Kept(b, UnloadsOllama(b))
  <2> DEFINE c == UnloadsOllama(b)
  <2>1. c.effects = b.effects \cup {UnloadOllama}
    BY <1>1 DEF UnloadsOllama, BrokerOK, Broker
  <2>2. Sound(c) /\ Soft(b, c)
    BY EnginesSoft, UnloadsOllamaSound DEF Calm
  <2> HIDE DEF c
  <2>3. SparesLeased(b, c)
    BY <1>2, <2>1 DEF SparesLeased, Engine, OllamaInUse, BackendInUse, Granted, InState
  <2> QED BY <2>2, <2>3 DEF Kept, c
<1>3. ASSUME NEW r \in Resident, NEW cache \in Nat, ~BackendInUse(b, ResidentBackend[r])
      PROVE  Kept(b, PushFree(b, r, cache))
  <2> DEFINE c == PushFree(b, r, cache)
  <2>1. c.effects = b.effects \cup {r}
    BY <1>1 DEF PushFree, BrokerOK, Broker
  <2>2. Sound(c) /\ Soft(b, c)
    BY EnginesSoft, PushFreeSound DEF Calm
  <2>3. Engine(r) = ResidentBackend[r]
    BY DEF Engine, Resident, UnloadOllama
  <2> HIDE DEF c
  <2>4. SparesLeased(b, c)
    BY <1>3, <2>1, <2>3 DEF SparesLeased, BackendInUse, Granted, InState
  <2> QED BY <2>2, <2>4 DEF Kept, c
<1>4. Kept(b, FreeIdleResident(b))
  <2>1. CASE Reclaimable(b) = 0 \/ b.residents[FirstIdle(b)].freeing
    BY <2>1, KeptSame DEF FreeIdleResident
  <2>2. CASE ~(Reclaimable(b) = 0 \/ b.residents[FirstIdle(b)].freeing)
    <3>1. IdleResidents(b) # {}
      BY <2>2 DEF Reclaimable
    <3>2. FirstIdle(b) \in IdleResidents(b)
      BY <3>1, FirstIdleIsOne
    <3>3. FirstIdle(b) \in Resident /\ ~BackendInUse(b, ResidentBackend[FirstIdle(b)])
      BY <3>2 DEF IdleResidents
    <3>4. ResidentCacheMb(b) \in Nat
      BY <1>1, Accounting
    <3> QED BY <1>3, <2>2, <3>3, <3>4 DEF FreeIdleResident
  <2> QED BY <2>1, <2>2
<1> QED BY <1>2, <1>3, <1>4

\* Telling to yield, among those that work, who can and was told nothing keeps a broker.
LEMMA TellToYieldKept ==
  ASSUME NEW b, Calm(b), NEW S \in SUBSET Granted(b),
         \A i \in S : Preemptible(b, i) /\ b.leases[i].priority # Critical
  PROVE  /\ Kept(b, TellToYield(b, S))
         /\ \A j \in 1 .. b.next : TellToYield(b, S).leases[j].state = b.leases[j].state
<1>1. Soft(b, TellToYield(b, S))
  BY TellToYieldSoft DEF Preemptible
<1>2. Sound(TellToYield(b, S))
  BY TellToYieldSound DEF Preemptible, Calm
<1>3. ASSUME NEW j \in 1 .. b.next
      PROVE  TellToYield(b, S).leases[j].state = b.leases[j].state
  <2>1. b.leases[j] \in Lease
    BY LeaseFields DEF Calm, Sound
  <2> QED BY <2>1 DEF TellToYield, Calm, Sound, BrokerOK, Broker, Lease
<1>4. TellToYield(b, S).effects = b.effects
  BY DEF TellToYield, Calm, Sound, BrokerOK, Broker
<1> QED BY <1>1, <1>2, <1>3, <1>4 DEF Kept, SparesLeased

\* The victims of a lease are less urgent than it is, so none of them is critical.
LEMMA VictimsNotCritical ==
  ASSUME NEW b, BrokerOK(b), NEW i \in 1 .. b.next, NEW v \in Victims(b, i)
  PROVE  v \in Granted(b) /\ Preemptible(b, v) /\ b.leases[v].priority # Critical
<1>1. v \in Granted(b) /\ Preemptible(b, v) /\ b.leases[v].priority > b.leases[i].priority
  BY DEF Victims
<1>2. b.leases[i].priority \in Priority
  BY LeaseFields
<1> QED BY <1>1, <1>2 DEF Priority, Critical, Opportunistic

\* Making room keeps a broker: only the less urgent are told, once, to yield.
LEMMA MakeRoomKept ==
  ASSUME NEW b, Calm(b), NEW i \in 1 .. b.next
  PROVE  /\ Kept(b, MakeRoom(b, i))
         /\ \A j \in 1 .. b.next : MakeRoom(b, i).leases[j].state = b.leases[j].state
<1> DEFINE opportunist == b.leases[i].priority = Opportunistic
           unloaded == IF opportunist \/ IdleOllamaMb(b) = 0 \/ b.ollama.unloading
                       THEN b ELSE UnloadsOllama(b)
           freed == IF opportunist THEN unloaded ELSE FreeIdleResident(unloaded)
           S == Asked(b, i)
<1>1. Kept(b, unloaded) /\ unloaded.next = b.next /\ unloaded.leases = b.leases
  BY KeptSame, EnginesKept, UnloadsOllamaSound DEF Calm, IdleOllamaMb
<1>2. Kept(b, freed) /\ freed.next = b.next /\ freed.leases = b.leases
  <2> HIDE DEF unloaded
  <2>1. Calm(unloaded)
    BY <1>1, KeptTrans
  <2>2. Kept(unloaded, FreeIdleResident(unloaded))
    BY <2>1, EnginesKept
  <2>3. Kept(b, FreeIdleResident(unloaded))
    BY <1>1, <2>2, KeptTrans
  <2> QED BY <1>1, <2>1, <2>3, FreeIdleResidentSound DEF Calm
<1>3. MakeRoom(b, i) = TellToYield(freed, S)
  BY DEF MakeRoom
<1>4. S \in SUBSET Granted(b)
      /\ \A v \in S : Preemptible(b, v) /\ b.leases[v].priority # Critical
  BY VictimsNotCritical DEF Asked, Calm, Sound, Victims
<1> HIDE DEF freed, S
<1>5. S \in SUBSET Granted(freed)
      /\ \A v \in S : Preemptible(freed, v) /\ freed.leases[v].priority # Critical
  BY <1>2, <1>4 DEF Granted, InState, Preemptible
<1>6. Calm(freed)
  BY <1>2, KeptTrans
<1>7. /\ Kept(freed, TellToYield(freed, S))
      /\ \A j \in 1 .. b.next : TellToYield(freed, S).leases[j].state = b.leases[j].state
  BY <1>2, <1>5, <1>6, TellToYieldKept
<1> QED BY <1>2, <1>3, <1>7, KeptTrans

-----------------------------------------------------------------------------
(* The scheduler. *)

\* What waits is granted when neither it nor everything that is not critical is paused.
LEMMA GrantKept ==
  ASSUME NEW b, Calm(b), NEW i \in Queued(b), ~Blocked(b, i), Fits(b, i),
         ~b.queue_paused, NEW now \in Nat
  PROVE  Kept(b, Grant(b, i, now))
<1> DEFINE l == [b.leases[i] EXCEPT !.state = "granted", !.granted_at = now,
                                    !.directive = "continue", !.overdue = FALSE]
           c == Grant(b, i, now)
<1>0. i \in 1 .. b.next /\ b.leases[i].state = "queued"
  BY DEF Queued, InState
<1>1. BrokerOK(b) /\ b.leases \in [1 .. b.next -> Lease] /\ b.leases[i] \in Lease
  BY <1>0 DEF Calm, Sound, BrokerOK, Broker
<1>2. /\ c.next = b.next /\ c.training = b.training /\ c.queue_paused = b.queue_paused
      /\ c.leases = [b.leases EXCEPT ![i] = l] /\ c.effects = b.effects
  BY <1>1 DEF Grant, BrokerOK, Broker
<1>3. \A j \in 1 .. b.next : c.leases[j] = IF j = i THEN l ELSE b.leases[j]
  <2> HIDE DEF l, c
  <2> QED BY <1>1, <1>2
<1>4. Gentle(b.leases[i], l) /\ l.held = b.leases[i].held /\ l.priority = b.leases[i].priority
  BY <1>0, <1>1 DEF Gentle, Lease
<1>5. LetIn(c, l)
  BY <1>2, <1>4 DEF LetIn, Blocked, ReservedForCritical
<1>6. Sound(c)
  BY <1>0, GrantSound DEF Calm
<1>7. Soft(b, b)
  BY SameIsSoft
<1> HIDE DEF c, l
<1>8. Soft(b, c) /\ SparesLeased(b, c)
  BY <1>2, <1>3, <1>4, <1>5, <1>7 DEF Soft, SparesLeased
<1> QED BY <1>6, <1>8 DEF Kept, c

\* A visit keeps the broker, and leaves the other leases where they are.
LEMMA VisitKept ==
  ASSUME NEW b, Calm(b), NEW i \in Queued(b), ~b.queue_paused, NEW now \in Nat
  PROVE  /\ Kept(b, Visit(b, i, now))
         /\ Queued(b) \ {i} \subseteq Queued(Visit(b, i, now))
<1>0. i \in 1 .. b.next /\ BrokerOK(b) /\ b.leases \in [1 .. b.next -> Lease]
  BY DEF Queued, InState, Calm, Sound, BrokerOK, Broker
<1>1. CASE Blocked(b, i)
  BY <1>1, KeptSame DEF Visit
<1>2. CASE ~Blocked(b, i) /\ Fits(b, i)
  <2>1. Kept(b, Grant(b, i, now))
    BY <1>2, GrantKept
  <2>2. \A j \in 1 .. b.next : j # i => Grant(b, i, now).leases[j] = b.leases[j]
    BY <1>0 DEF Grant, BrokerOK, Broker
  <2>3. Grant(b, i, now).next = b.next
    BY <2>1 DEF Kept, Soft
  <2> QED BY <1>2, <2>1, <2>2, <2>3 DEF Visit, Queued, InState
<1>3. CASE ~Blocked(b, i) /\ ~Fits(b, i)
  <2> DEFINE r == MakeRoom(b, i)
             c == [r EXCEPT !.reserved_for = i]
  <2>1. Kept(b, r) /\ r.next = b.next /\ Calm(r)
    <3>1. Kept(b, r)
      BY <1>0, MakeRoomKept
    <3> QED BY <3>1, KeptTrans DEF Kept, Soft
  <2>2. i \in 0 .. r.next
    BY <1>0, <2>1 DEF BrokerOK
  <2>3. c.next = r.next /\ c.leases = r.leases /\ c.training = r.training
        /\ c.queue_paused = r.queue_paused /\ c.effects = r.effects
    <3> HIDE DEF r
    <3> QED BY <2>1 DEF Calm, Sound, BrokerOK, Broker
  <2>4. Kept(b, c)
    <3> HIDE DEF r
    <3>1. Sound(c)
      BY <2>1, <2>2, ReservationSound DEF Calm
    <3> HIDE DEF c
    <3>2. Kept(r, c)
      BY <2>1, <2>3, <3>1, SameIsKept
    <3> QED BY <2>1, <3>2, KeptTrans
  <2>5. \A j \in 1 .. b.next : r.leases[j].state = b.leases[j].state
    BY <1>0, MakeRoomKept
  <2>6. Queued(b) \subseteq Queued(c)
    <3> HIDE DEF r, c
    <3> QED BY <2>1, <2>3, <2>5 DEF Queued, InState
  <2>7. Visit(b, i, now) \in {b, c}
    BY <1>3 DEF Visit
  <2> HIDE DEF c, r
  <2> QED BY <2>4, <2>6, <2>7, KeptSame
<1> QED BY <1>1, <1>2, <1>3

\* A pass in the middle: it kept the broker, and what is left of it still waits.
PassKept(b, p) == Kept(b, p.broker) /\ p.left \subseteq Queued(p.broker)

\* A turn of the loop of schedule: the first of what is left is visited.
LEMMA TurnKept ==
  ASSUME NEW b, Calm(b), ~b.queue_paused, NEW p, PassKept(b, p), NEW now \in Nat
  PROVE  PassKept(b, Turn(p, now))
<1>1. CASE p.left = {}
  BY <1>1 DEF Turn
<1>2. CASE p.left # {}
  <2> DEFINE i == First(p.broker, p.left)
  <2>1. Calm(p.broker) /\ ~p.broker.queue_paused
    BY KeptTrans DEF PassKept, Kept, Soft
  <2>2. i \in p.left
    <3>1. p.left \in SUBSET (1 .. p.broker.next)
      BY DEF PassKept, Queued, InState
    <3> QED BY <1>2, <2>1, <3>1, FirstIsOne DEF Calm, Sound
  <2>3. Turn(p, now) = [broker |-> Visit(p.broker, i, now), left |-> p.left \ {i}]
    BY <1>2 DEF Turn
  <2> HIDE DEF i
  <2>4. /\ Kept(p.broker, Visit(p.broker, i, now))
        /\ Queued(p.broker) \ {i} \subseteq Queued(Visit(p.broker, i, now))
    BY <2>1, <2>2, VisitKept DEF PassKept
  <2>5. Kept(b, Visit(p.broker, i, now))
    BY <2>4, KeptTrans DEF PassKept
  <2> QED BY <2>3, <2>4, <2>5 DEF PassKept
<1> QED BY <1>1, <1>2

\* A pass keeps the broker: by the least turn that would not.
LEMMA ScheduleKept ==
  ASSUME NEW b, Calm(b)
  PROVE  Kept(b, Schedule(b))
<1> DEFINE start == [broker |-> DropStaleReservation(b), left |-> Queued(b)]
           pass[n \in 0 .. b.next] == IF n = 0 THEN start ELSE Turn(pass[n - 1], Now(b))
<1>1. Schedule(b) = IF b.queue_paused THEN b ELSE pass[b.next].broker
  BY DEF Schedule
<1>2. b.next \in Nat /\ Now(b) \in Nat
  BY NowNat DEF Calm, Sound, BrokerOK
<1>3. pass = [n \in 0 .. b.next |-> IF n = 0 THEN start ELSE Turn(pass[n - 1], Now(b))]
  <2> HIDE DEF start
  <2>1. pass = CHOOSE g : g = [n \in 0 .. b.next |->
                                 IF n = 0 THEN start ELSE Turn(g[n - 1], Now(b))]
    BY Zenon
  <2> HIDE DEF pass
  <2> QED BY <1>2, <2>1, PassIsDefined
<1> HIDE DEF pass
<1>4. PassKept(b, start)
  <2> DEFINE c == DropStaleReservation(b)
  <2>1. c.next = b.next /\ c.leases = b.leases /\ c.training = b.training
        /\ c.queue_paused = b.queue_paused /\ c.effects = b.effects
    BY DEF DropStaleReservation, Calm, Sound, BrokerOK, Broker
  <2>2. Sound(c)
    <3>1. Nobody \in 0 .. b.next
      BY <1>2 DEF Nobody
    <3> QED BY <3>1, ReservationSound DEF DropStaleReservation, Calm
  <2> HIDE DEF c
  <2>3. Kept(b, c) /\ Queued(b) = Queued(c)
    BY <2>1, <2>2, SameIsKept DEF Queued, InState
  <2> QED BY <2>3 DEF PassKept, c
<1> HIDE DEF start
<1>5. CASE ~b.queue_paused
  <2> DEFINE T == {n \in 0 .. b.next : ~PassKept(b, pass[n])}
  <2>1. SUFFICES ASSUME T # {} PROVE FALSE
    <3>1. T = {} => PassKept(b, pass[b.next])
      BY <1>2
    <3> QED BY <1>1, <1>5, <3>1 DEF PassKept
  <2>2. PICK m \in T : \A k \in T : m <= k
    <3>1. T \in SUBSET Nat
      BY <1>2
    <3> HIDE DEF T
    <3> QED BY <2>1, <3>1, NatMin
  <2>3. m # 0
    BY <1>2, <1>3, <1>4
  <2>4. m - 1 \in 0 .. b.next /\ m - 1 \notin T
    <3>1. m \in 0 .. b.next /\ m - 1 \in 0 .. b.next /\ ~(m <= m - 1)
      BY <1>2, <2>3
    <3> QED BY <3>1, <2>2
  <2>5. pass[m] = Turn(pass[m - 1], Now(b))
    BY <1>3, <2>3
  <2>6. PassKept(b, pass[m])
    BY <1>2, <1>5, <2>4, <2>5, TurnKept
  <2> QED BY <2>6
<1> QED BY <1>1, <1>5, KeptSame

-----------------------------------------------------------------------------
(* The methods before the pass. *)

\* Ending leases: who is there leaves, and is told nothing any more.
LEMMA EndKept ==
  ASSUME NEW b, Calm(b), NEW S,
         NEW outcome \in {"none", "released", "yielded", "expired", "cancelled"}
  PROVE  Kept(b, End(b, S, outcome))
<1> DEFINE c == End(b, S, outcome)
<1>1. BrokerOK(b)
  BY DEF Calm, Sound
<1>2. c.next = b.next /\ c.training = b.training /\ c.queue_paused = b.queue_paused
      /\ c.effects = b.effects
  BY <1>1 DEF End, BrokerOK, Broker
<1>3. ASSUME NEW i \in 1 .. b.next
      PROVE  /\ Gentle(b.leases[i], c.leases[i])
             /\ b.leases[i].state = "queued" => c.leases[i].state # "granted"
  <2>1. b.leases[i] \in Lease
    BY <1>1, LeaseFields
  <2>2. CASE i \in S
    <3>1. c.leases[i] = [b.leases[i] EXCEPT !.state = "ended", !.outcome = outcome,
                           !.priority = b.leases[i].job.priority, !.directive = "continue",
                           !.held = FALSE, !.overdue = FALSE]
      BY <1>1, <2>2 DEF End, BrokerOK, Broker
    <3> QED BY <2>1, <3>1 DEF Gentle, Lease
  <2>3. CASE i \notin S
    <3>1. c.leases[i] = b.leases[i]
      BY <1>1, <2>3 DEF End, BrokerOK, Broker
    <3> QED BY <2>1, <3>1 DEF Gentle, Lease, Calm, Quiet
  <2> QED BY <2>2, <2>3
<1>4. Sound(c)
  BY EndSound DEF Calm
<1> HIDE DEF c
<1>5. Soft(b, c) /\ SparesLeased(b, c)
  BY <1>2, <1>3 DEF Soft, SparesLeased
<1> QED BY <1>4, <1>5 DEF Kept, c

\* What is not critical is told to yield, once, when it can.
LEMMA ClearForCriticalKept ==
  ASSUME NEW b, Calm(b)
  PROVE  Kept(b, ClearForCritical(b))
<1> DEFINE S == {i \in Granted(b) : Preemptible(b, i) /\ b.leases[i].priority # Critical}
           asked == TellToYield(b, S)
           unloaded == IF IdleOllamaMb(b) > 0 THEN UnloadsOllama(asked) ELSE asked
<1>1. /\ Kept(b, asked)
      /\ \A j \in 1 .. b.next : asked.leases[j].state = b.leases[j].state
  BY TellToYieldKept
<1> HIDE DEF asked, S
<1>2. Calm(asked)
  BY <1>1, KeptTrans
<1>3. Kept(b, unloaded)
  <2>1. ASSUME IdleOllamaMb(b) > 0 PROVE ~OllamaInUse(asked)
    <3>1. ~OllamaInUse(b)
      BY <2>1 DEF IdleOllamaMb
    <3>2. \A j \in Granted(asked) :
            j \in Granted(b) /\ asked.leases[j].job = b.leases[j].job
      BY <1>1 DEF Granted, InState, Kept, Soft, Gentle
    <3> QED BY <3>1, <3>2 DEF OllamaInUse, BackendInUse
  <2> QED BY <1>1, <1>2, <2>1, EnginesKept, KeptTrans
<1> HIDE DEF unloaded
<1>4. Calm(unloaded)
  BY <1>3, KeptTrans
<1>5. Kept(b, FreeIdleResident(unloaded))
  BY <1>3, <1>4, EnginesKept, KeptTrans
<1> QED BY <1>5 DEF ClearForCritical, S, asked, unloaded

\* What the sampler says of Ollama.
LEMMA SetOllamaKept ==
  ASSUME NEW b, Calm(b), NEW mb \in Nat
  PROVE  Kept(b, SetOllama(b, mb))
<1> DEFINE o == [loaded_mb |-> mb, unloading |-> mb > 0 /\ b.ollama.unloading]
           c == [b EXCEPT !.ollama = o]
<1>1. SetOllama(b, mb)
        = Schedule(IF ReservedForCritical(c) /\ IdleOllamaMb(c) > 0 /\ ~c.ollama.unloading
                   THEN UnloadsOllama(c) ELSE c)
  BY DEF SetOllama, Calm, Sound, BrokerOK, Broker
<1>2. o \in [loaded_mb : Nat, unloading : BOOLEAN]
  OBVIOUS
<1> HIDE DEF o
<1>3. /\ BrokerOK(c) /\ c.next = b.next /\ c.leases = b.leases /\ c.total_mb = b.total_mb
      /\ c.training = b.training /\ c.queue_paused = b.queue_paused
      /\ c.effects = b.effects
  BY <1>2 DEF Calm, Sound, BrokerOK, Broker
<1> HIDE DEF c
<1>4. Kept(b, c)
  BY <1>3, SameLeases, SameIsKept DEF Calm, Sound
<1>5. Calm(c)
  BY <1>4, KeptTrans
<1>6. IdleOllamaMb(c) > 0 => Kept(b, UnloadsOllama(c)) /\ Calm(UnloadsOllama(c))
  BY <1>4, <1>5, EnginesKept, KeptTrans DEF IdleOllamaMb
<1>7. /\ Kept(b, Schedule(c))
      /\ IdleOllamaMb(c) > 0 => Kept(b, Schedule(UnloadsOllama(c)))
  BY <1>4, <1>5, <1>6, ScheduleKept, KeptTrans
<1> QED BY <1>1, <1>7

\* What the sampler says of the residents.
LEMMA SetResidentsKept ==
  ASSUME NEW b, Calm(b), NEW seen \in [Resident -> [present : BOOLEAN, busy : BOOLEAN]]
  PROVE  Kept(b, SetResidents(b, seen))
<1> DEFINE R == [r \in Resident |->
                   [b.residents[r] EXCEPT !.present = seen[r].present, !.busy = seen[r].busy,
                                          !.freeing = seen[r].present /\ @]]
           c == [b EXCEPT !.residents = R]
<1>1. SetResidents(b, seen)
        = Schedule(IF ReservedForCritical(c) THEN FreeIdleResident(c) ELSE c)
  BY DEF SetResidents
<1>2. R \in [Resident -> ResidentState]
  <2>1. ASSUME NEW r \in Resident PROVE R[r] \in ResidentState
    <3>1. b.residents[r] \in ResidentState
      BY DEF Calm, Sound, BrokerOK, Broker
    <3>2. seen[r] \in [present : BOOLEAN, busy : BOOLEAN]
      OBVIOUS
    <3> QED BY <3>1, <3>2 DEF ResidentState
  <2> QED BY <2>1
<1> HIDE DEF R
<1>3. /\ BrokerOK(c) /\ c.next = b.next /\ c.leases = b.leases /\ c.total_mb = b.total_mb
      /\ c.training = b.training /\ c.queue_paused = b.queue_paused
      /\ c.effects = b.effects
  BY <1>2 DEF Calm, Sound, BrokerOK, Broker
<1> HIDE DEF c
<1>4. Kept(b, c)
  BY <1>3, SameLeases, SameIsKept DEF Calm, Sound
<1>5. Calm(c)
  BY <1>4, KeptTrans
<1>6. Kept(b, FreeIdleResident(c)) /\ Calm(FreeIdleResident(c))
  BY <1>4, <1>5, EnginesKept, KeptTrans
<1>7. Kept(b, Schedule(c)) /\ Kept(b, Schedule(FreeIdleResident(c)))
  BY <1>4, <1>5, <1>6, ScheduleKept, KeptTrans
<1> QED BY <1>1, <1>7

\* A reading of the card.
LEMMA SetMeasuredKept ==
  ASSUME NEW b, Calm(b), NEW used \in Nat
  PROVE  Kept(b, SetMeasured(b, used))
<1> DEFINE c == [b EXCEPT !.measured_used_mb = used,
                          !.total_mb = IF CardTotal > 0 THEN CardTotal ELSE @]
           R == [r \in Resident |-> Confirm(c.residents[r], ResidentCacheMb(c))]
           d == [c EXCEPT !.residents = R]
<1>1. /\ BrokerOK(c) /\ c.next = b.next /\ c.leases = b.leases
      /\ c.total_mb \in {ConfigTotal, CardTotal}
      /\ c.training = b.training /\ c.queue_paused = b.queue_paused
      /\ c.effects = b.effects
  BY GpuBrokerAssumption DEF Calm, Sound, BrokerOK, Broker
<1>2. SetMeasured(b, used) = Schedule(d)
  BY DEF SetMeasured
<1> HIDE DEF c
<1>3. R \in [Resident -> ResidentState]
  <2>1. ASSUME NEW r \in Resident PROVE R[r] \in ResidentState
    <3>1. c.residents[r] \in ResidentState
      BY <1>1 DEF BrokerOK, Broker
    <3>2. ResidentCacheMb(c) \in Nat
      BY <1>1, Accounting
    <3> QED BY <3>1, <3>2 DEF ResidentState, Confirm
  <2> QED BY <2>1
<1> HIDE DEF R
<1>4. /\ BrokerOK(d) /\ d.next = b.next /\ d.leases = b.leases
      /\ d.total_mb \in {ConfigTotal, CardTotal}
      /\ d.training = b.training /\ d.queue_paused = b.queue_paused
      /\ d.effects = b.effects
  BY <1>1, <1>3 DEF BrokerOK, Broker
<1> HIDE DEF d
<1>5. Kept(b, d)
  BY <1>4, SameLeases, SameIsKept DEF Calm
<1>6. Kept(b, Schedule(d))
  BY <1>5, ScheduleKept, KeptTrans
<1> QED BY <1>2, <1>6

\* The beginning and the end of game mode.
LEMMA SetInteractiveKept ==
  ASSUME NEW b, Calm(b), NEW apps \in SUBSET App
  PROVE  Kept(b, SetInteractive(b, apps))
<1> DEFINE c == [b EXCEPT !.interactive = apps]
<1>1. /\ BrokerOK(c) /\ c.next = b.next /\ c.leases = b.leases /\ c.total_mb = b.total_mb
      /\ c.training = b.training /\ c.queue_paused = b.queue_paused
      /\ c.effects = b.effects
  BY DEF Calm, Sound, BrokerOK, Broker
<1> HIDE DEF c
<1>2. Kept(b, c)
  BY <1>1, SameLeases, SameIsKept DEF Calm, Sound
<1>3. Calm(c)
  BY <1>2, KeptTrans
<1>4. Kept(b, ClearForCritical(c)) /\ Calm(ClearForCritical(c))
  BY <1>2, <1>3, ClearForCriticalKept, KeptTrans
<1>5. Kept(b, Schedule(c)) /\ Kept(b, Schedule(ClearForCritical(c)))
  BY <1>2, <1>3, <1>4, ScheduleKept, KeptTrans
<1> QED BY <1>5, KeptSame DEF SetInteractive, c

\* A turn of the sampler: every reading in order, each with its pass, and the expiry.
LEMMA SampleKept ==
  ASSUME NEW s \in Sampled, Calm(broker), Sample(s)
  PROVE  Kept(broker, broker')
<1>1. /\ s.ollama_mb \in Nat /\ s.used_mb \in Nat /\ s.apps \in SUBSET App
      /\ s.seen \in [Resident -> [present : BOOLEAN, busy : BOOLEAN]]
  BY GpuBrokerAssumption DEF SampleType
<1> DEFINE loaded == SetOllama(broker, s.ollama_mb)
           seen == SetResidents(loaded, s.seen)
           measured == SetMeasured(seen, s.used_mb)
           read == SetInteractive(measured, s.apps)
           b == IF s.reading THEN read ELSE seen
<1>2. Kept(broker, loaded)
  BY <1>1, SetOllamaKept
<1> HIDE DEF loaded
<1>3. Kept(broker, seen)
  BY <1>1, <1>2, SetResidentsKept, KeptTrans
<1> HIDE DEF seen
<1>4. Kept(broker, measured)
  BY <1>1, <1>3, SetMeasuredKept, KeptTrans
<1> HIDE DEF measured
<1>5. Kept(broker, read)
  BY <1>1, <1>4, SetInteractiveKept, KeptTrans
<1> HIDE DEF read
<1>6. Kept(broker, b)
  BY <1>3, <1>5
<1>7. broker' = Tick(b)
  BY DEF Sample, b, read, measured, seen, loaded
<1> HIDE DEF b
<1> DEFINE e == End(b, {i \in Active(b) : b.leases[i].overdue}, "expired")
<1>8. Kept(broker, e)
  BY <1>6, EndKept, KeptTrans
<1> HIDE DEF e
<1>9. Kept(broker, Schedule(e))
  BY <1>8, ScheduleKept, KeptTrans
<1> QED BY <1>7, <1>9 DEF Tick, e

-----------------------------------------------------------------------------
(* A step is a button or a request, and then what is kept. *)

\* What a button makes of a lease by itself: it stays where it is, and if it works it
\* may be told to cancel, or to yield as it is paused.
Pressed(l, m) ==
  /\ m.job = l.job /\ m.state = l.state
  /\ m.state # "granted" => m.directive = "continue"
  /\ m.state = "granted" =>
       m.directive = l.directive \/ m.directive = "cancel" \/ (m.directive = "yield" /\ m.held)

\* A request waits, and is paused if its owner and task are.
Requested(b, m) ==
  m.state = "queued" /\ m.directive = "continue" /\ m.held = (m.job.who \in b.held)

Opens(b, c) ==
  /\ Sound(c) /\ c.next \in {b.next, b.next + 1} /\ c.effects = b.effects
  /\ \A i \in 1 .. b.next : Pressed(b.leases[i], c.leases[i])
  /\ \A i \in 1 .. c.next : i > b.next => Requested(b, c.leases[i])

\* Most handlers change no lease before the pass.
LEMMA SameOpens ==
  ASSUME NEW b, Calm(b), NEW c, Sound(c), c.next = b.next, c.leases = b.leases,
         c.effects = b.effects
  PROVE  Opens(b, c)
<1>1. b.next \in Nat
  BY DEF Calm, Sound, BrokerOK
<1> QED BY <1>1 DEF Opens, Pressed, Calm, Quiet

\* A button that changes one lease.
LEMMA OneOpens ==
  ASSUME NEW b, Calm(b), NEW i \in 1 .. b.next, NEW l, Pressed(b.leases[i], l),
         NEW c, Sound(c), c.next = b.next, c.leases = [b.leases EXCEPT ![i] = l],
         c.effects = b.effects
  PROVE  Opens(b, c)
<1>1. b.next \in Nat /\ b.leases \in [1 .. b.next -> Lease]
  BY DEF Calm, Sound, BrokerOK, Broker
<1>2. \A j \in 1 .. b.next : c.leases[j] = IF j = i THEN l ELSE b.leases[j]
  BY <1>1
<1>3. \A j \in 1 .. b.next : Pressed(b.leases[j], b.leases[j])
  BY DEF Pressed, Calm, Quiet
<1> QED BY <1>1, <1>2, <1>3 DEF Opens

\* What opens a step leaves the queue quiet.
LEMMA OpensCalm == ASSUME NEW b, Calm(b), NEW c, Opens(b, c) PROVE Calm(c)
<1>1. b.next \in Nat
  BY DEF Calm, Sound, BrokerOK
<1>2. \A i \in 1 .. c.next : i \in 1 .. b.next \/ i > b.next
  BY <1>1
<1> QED BY <1>2 DEF Opens, Pressed, Requested, Calm, Quiet

\* A sign of life, or its absence, changes nothing a client is told.
LEMMA TouchKept ==
  ASSUME NEW b, Calm(b), NEW i \in 1 .. b.next, NEW overdue \in BOOLEAN
  PROVE  Kept(b, [b EXCEPT !.leases[i].overdue = overdue])
<1> DEFINE c == [b EXCEPT !.leases[i].overdue = overdue]
           l == [b.leases[i] EXCEPT !.overdue = overdue]
<1>1. b.leases \in [1 .. b.next -> Lease] /\ b.leases[i] \in Lease
  BY DEF Calm, Sound, BrokerOK, Broker
<1>2. /\ c.next = b.next /\ c.training = b.training /\ c.queue_paused = b.queue_paused
      /\ c.leases = [b.leases EXCEPT ![i] = l] /\ c.effects = b.effects
  BY <1>1 DEF Calm, Sound, BrokerOK, Broker
<1>3. \A j \in 1 .. b.next : c.leases[j] = IF j = i THEN l ELSE b.leases[j]
  <2> HIDE DEF c, l
  <2> QED BY <1>1, <1>2
<1>4. Gentle(b.leases[i], l) /\ l.state = b.leases[i].state
  BY <1>1 DEF Gentle, Lease, Calm, Quiet
<1>5. Sound(c)
  BY TouchSound DEF Calm
<1>6. Soft(b, b)
  BY SameIsSoft
<1> HIDE DEF c, l
<1>7. Soft(b, c) /\ SparesLeased(b, c)
  BY <1>2, <1>3, <1>4, <1>6 DEF Soft, SparesLeased
<1> QED BY <1>5, <1>7 DEF Kept, c

\* A step opened by c and kept from there on.
Goes(b, c, d) == Opens(b, c) /\ Kept(c, d)

\* What a handler makes of b before the pass: nobody is granted, and who had the
\* reservation has it.
Prepares(b, c, x) ==
  /\ Opens(b, c) /\ Kept(c, x)
  /\ Granted(x) \subseteq Granted(b)
  /\ x.reserved_for = b.reserved_for

SameEngines(b, x) ==
  x.ollama = b.ollama /\ x.residents = b.residents /\ x.effects = b.effects

\* Nothing changes but how long a lease or a resident has been silent.
Rests(b, d) ==
  /\ d.next = b.next /\ d.total_mb = b.total_mb /\ d.ollama = b.ollama
  /\ d.training = b.training /\ d.queue_paused = b.queue_paused
  /\ d.interactive = b.interactive /\ d.measured_used_mb = b.measured_used_mb
  /\ d.reserved_for = b.reserved_for /\ d.effects \subseteq b.effects
  /\ \A i \in 1 .. b.next :
       /\ d.leases[i].job = b.leases[i].job /\ d.leases[i].state = b.leases[i].state
       /\ d.leases[i].priority = b.leases[i].priority /\ d.leases[i].held = b.leases[i].held

\* The user asks an engine to let go, or a mode begins.
Told ==
  \/ RequestOllamaUnload \/ \E r \in Resident : RequestResidentFree(r)
  \/ ~ReservedForCritical(broker) /\ ReservedForCritical(broker')

\* A handler that runs the scheduler at its end.
Runs ==
  \E c, x : /\ Prepares(broker, c, x) /\ broker' = Schedule(x)
            /\ SameEngines(broker, x) \/ Told

\* What opens a step grants nobody.
LEMMA OpensPrepares ==
  ASSUME NEW b, Calm(b), NEW c, Opens(b, c), c.reserved_for = b.reserved_for
  PROVE  Prepares(b, c, c)
<1>1. Kept(c, c)
  BY OpensCalm, KeptSame
<1>2. b.next \in Nat
  BY DEF Calm, Sound, BrokerOK
<1>3. \A i \in 1 .. c.next : i \in 1 .. b.next \/ i > b.next
  BY <1>2
<1>4. Granted(c) \subseteq Granted(b)
  BY <1>3 DEF Opens, Pressed, Requested, Granted, InState
<1> QED BY <1>1, <1>4 DEF Prepares

\* A handler that ends leases.
LEMMA EndPrepares ==
  ASSUME NEW b, Calm(b), NEW S,
         NEW outcome \in {"none", "released", "yielded", "expired", "cancelled"}
  PROVE  Prepares(b, b, End(b, S, outcome)) /\ SameEngines(b, End(b, S, outcome))
<1> DEFINE x == End(b, S, outcome)
<1>1. Opens(b, b) /\ Kept(b, x)
  BY SameOpens, EndKept DEF Calm
<1>2. x.reserved_for = b.reserved_for /\ SameEngines(b, x) /\ x.next = b.next
  BY DEF SameEngines, End, Calm, Sound, BrokerOK, Broker
<1>3. ASSUME NEW i \in Granted(x) PROVE i \in Granted(b)
  <2>1. i \in 1 .. b.next /\ x.leases[i].state = "granted"
    BY <1>2 DEF Granted, InState
  <2>2. i \notin S
    <3>1. SUFFICES ASSUME i \in S PROVE x.leases[i].state = "ended"
      BY <2>1
    <3>2. b.leases[i] \in Lease
      BY <2>1, LeaseFields DEF Calm, Sound
    <3> QED BY <2>1, <3>1, <3>2 DEF End, Calm, Sound, BrokerOK, Broker, Lease
  <2>3. x.leases[i] = b.leases[i]
    BY <2>1, <2>2 DEF End, Calm, Sound, BrokerOK, Broker
  <2> QED BY <2>1, <2>3 DEF Granted, InState
<1> QED BY <1>1, <1>2, <1>3 DEF Prepares

\* What clients call: a request waits at the end of the queue; the rest only ends
\* leases or notes that they live.
LEMMA ClientRuns ==
  ASSUME Calm(broker), Client
  PROVE  Runs \/ (Kept(broker, broker') /\ Rests(broker, broker'))
<1>0. Opens(broker, broker)
  BY SameOpens DEF Calm
<1>1. ASSUME NEW job \in Job, NEW gap \in RequestGaps, Acquire(job, gap)
      PROVE  Runs
  <2> DEFINE c == Enqueue(broker, job, gap)
  <2>1. Sound(c)
    BY EnqueueSound DEF Calm
  <2>2. BrokerOK(broker) /\ broker.next \in Nat
    BY DEF Calm, Sound, BrokerOK
  <2>3. c.next = broker.next + 1 /\ c.reserved_for = broker.reserved_for
        /\ SameEngines(broker, c)
    BY <2>2 DEF Enqueue, SameEngines, BrokerOK, Broker
  <2>4. \A i \in 1 .. broker.next : c.leases[i] = broker.leases[i]
    BY <2>2 DEF Enqueue, BrokerOK, Broker
  <2>5. c.leases[broker.next + 1] = NewLease(broker, job, gap)
    BY <2>2 DEF Enqueue, BrokerOK, Broker
  <2>6. broker' = Schedule(c)
    BY <1>1 DEF Acquire
  <2> HIDE DEF c
  <2>7. Requested(broker, NewLease(broker, job, gap))
    BY DEF Requested, NewLease
  <2>8. \A i \in 1 .. c.next : i > broker.next => i = broker.next + 1
    BY <2>2, <2>3
  <2>9. \A i \in 1 .. broker.next : Pressed(broker.leases[i], broker.leases[i])
    BY <1>0 DEF Opens
  <2>10. Opens(broker, c)
    BY <2>1, <2>3, <2>4, <2>5, <2>7, <2>8, <2>9 DEF Opens, SameEngines
  <2>11. Prepares(broker, c, c)
    BY <2>3, <2>10, OpensPrepares
  <2> QED BY <2>3, <2>6, <2>11 DEF Runs
<1>2. ASSUME NEW i \in 1 .. broker.next, Poll(i) \/ Heartbeat(i) \/ YieldPoint(i) \/ GoQuiet(i)
      PROVE  Kept(broker, broker') /\ Rests(broker, broker')
  <2>1. PICK overdue \in BOOLEAN : broker' = [broker EXCEPT !.leases[i].overdue = overdue]
    BY <1>2 DEF Poll, Heartbeat, YieldPoint, GoQuiet, Touch
  <2>2. Kept(broker, broker')
    BY <2>1, TouchKept
  <2>3. broker.leases \in [1 .. broker.next -> Lease] /\ broker.leases[i] \in Lease
    BY DEF Calm, Sound, BrokerOK, Broker
  <2>4. \A j \in 1 .. broker.next :
          broker'.leases[j] = IF j = i THEN [broker.leases[i] EXCEPT !.overdue = overdue]
                              ELSE broker.leases[j]
    BY <2>1, <2>3 DEF Calm, Sound, BrokerOK, Broker
  <2>5. LET l == [broker.leases[i] EXCEPT !.overdue = overdue]
        IN  /\ l.job = broker.leases[i].job /\ l.state = broker.leases[i].state
            /\ l.priority = broker.leases[i].priority /\ l.held = broker.leases[i].held
    BY <2>3 DEF Lease
  <2>6. Rests(broker, broker')
    BY <2>1, <2>4, <2>5 DEF Rests, Calm, Sound, BrokerOK, Broker
  <2> QED BY <2>2, <2>6
<1>3. ASSUME NEW i \in 1 .. broker.next, Release(i)
      PROVE  Runs
  <2> DEFINE outcome == OutcomeOf(broker.leases[i].directive)
             e == End(broker, {i}, outcome)
  <2>1. broker.leases[i].directive \in {"continue", "yield", "cancel"}
    BY LeaseFields DEF Calm, Sound, Lease
  <2>2. outcome \in {"none", "released", "yielded", "expired", "cancelled"}
    BY <2>1 DEF OutcomeOf
  <2>3. broker' = Schedule(e)
    BY <1>3 DEF Release
  <2> HIDE DEF outcome
  <2> QED BY <2>2, <2>3, EndPrepares DEF Runs
<1> QED BY <1>1, <1>2, <1>3 DEF Client

\* A mode clears the card without granting anybody, whoever has the reservation.
LEMMA ClearPrepares ==
  ASSUME NEW b, Calm(b)
  PROVE  /\ Granted(ClearForCritical(b)) \subseteq Granted(b)
         /\ ClearForCritical(b).reserved_for = b.reserved_for
<1> DEFINE S == {i \in Granted(b) : Preemptible(b, i) /\ b.leases[i].priority # Critical}
           asked == TellToYield(b, S)
           unloaded == IF IdleOllamaMb(b) > 0 THEN UnloadsOllama(asked) ELSE asked
<1>1. /\ Kept(b, asked)
      /\ \A j \in 1 .. b.next : asked.leases[j].state = b.leases[j].state
  BY TellToYieldKept
<1>2. asked.reserved_for = b.reserved_for
  BY DEF TellToYield, Calm, Sound, BrokerOK, Broker
<1> HIDE DEF asked, S
<1>3. Granted(asked) \subseteq Granted(b) /\ Sound(asked)
  BY <1>1 DEF Granted, InState, Kept, Soft
<1>4. /\ Sound(unloaded) /\ unloaded.next = asked.next /\ unloaded.leases = asked.leases
      /\ unloaded.reserved_for = asked.reserved_for
  BY <1>3, UnloadsOllamaSound DEF UnloadsOllama, Sound, BrokerOK, Broker
<1> HIDE DEF unloaded
<1>5. /\ FreeIdleResident(unloaded).next = unloaded.next
      /\ FreeIdleResident(unloaded).leases = unloaded.leases
  BY <1>4, FreeIdleResidentSound
<1>6. FreeIdleResident(unloaded).reserved_for = unloaded.reserved_for
  BY <1>4 DEF FreeIdleResident, PushFree, Sound, BrokerOK, Broker
<1>7. ClearForCritical(b) = FreeIdleResident(unloaded)
  BY DEF ClearForCritical, unloaded, asked, S
<1> QED BY <1>2, <1>3, <1>4, <1>5, <1>6, <1>7 DEF Granted, InState

\* A method that changes a field next to the leases opens a step.
LEMMA FieldPrepares ==
  ASSUME NEW b, Calm(b), NEW c, BrokerOK(c), c.next = b.next, c.leases = b.leases,
         c.total_mb = b.total_mb, c.effects = b.effects, c.reserved_for = b.reserved_for
  PROVE  /\ Prepares(b, c, c) /\ Prepares(b, c, ClearForCritical(c)) /\ Calm(c)
         /\ Kept(c, Schedule(ClearForCritical(c)))
<1>1. Opens(b, c) /\ Calm(c)
  BY SameLeases, SameOpens, OpensCalm DEF Calm, Sound
<1>2. Prepares(b, c, c)
  BY <1>1, OpensPrepares
<1>3. Kept(c, ClearForCritical(c))
  BY <1>1, ClearForCriticalKept
<1>4. /\ Granted(ClearForCritical(c)) \subseteq Granted(c)
      /\ ClearForCritical(c).reserved_for = c.reserved_for
  BY <1>1, ClearPrepares
<1>5. Kept(c, Schedule(ClearForCritical(c)))
  BY <1>1, <1>3, ScheduleKept, KeptTrans
<1> QED BY <1>1, <1>2, <1>3, <1>4, <1>5 DEF Prepares

\* What the user does: a button changes one lease, or a mode, or asks an engine.
LEMMA UserRuns == ASSUME Calm(broker), User PROVE Runs
<1>0. /\ Opens(broker, broker) /\ Sound(broker) /\ BrokerOK(broker)
      /\ broker.leases \in [1 .. broker.next -> Lease]
  BY SameOpens DEF Calm, Sound, BrokerOK, Broker
<1>1. ASSUME NEW i \in 1 .. broker.next, NEW l, Pressed(broker.leases[i], l),
             NEW c, Sound(c), c.next = broker.next,
             c.leases = [broker.leases EXCEPT ![i] = l], SameEngines(broker, c),
             c.reserved_for = broker.reserved_for, broker' = Schedule(c)
      PROVE  Runs
  <2>1. Opens(broker, c)
    BY <1>1, OneOpens DEF SameEngines
  <2> QED BY <1>1, <2>1, OpensPrepares DEF Runs
<1>2. ASSUME NEW i \in 1 .. broker.next, Hold(i)
      PROVE  Runs
  <2> DEFINE l == [broker.leases[i] EXCEPT !.held = TRUE,
                      !.directive = IF i \in Granted(broker) THEN "yield"
                                    ELSE broker.leases[i].directive]
             c == [broker EXCEPT
                     !.held = @ \cup {broker.leases[i].job.who},
                     !.leases[i] = [@ EXCEPT !.held = TRUE,
                                             !.directive = IF i \in Granted(broker) THEN "yield"
                                                           ELSE broker.leases[i].directive]]
  <2>1. Sound(c)
    BY <1>0, <1>2, HoldSound DEF Hold
  <2>2. /\ c.next = broker.next /\ SameEngines(broker, c)
        /\ c.reserved_for = broker.reserved_for
        /\ c.leases = [broker.leases EXCEPT ![i] = l]
    BY <1>0 DEF SameEngines, BrokerOK, Broker
  <2>3. broker.leases[i] \in Lease
    BY <1>0
  <2>4. broker.leases[i].state = "granted" <=> i \in Granted(broker)
    BY DEF Granted, InState
  <2>5. broker.leases[i].state # "granted" => broker.leases[i].directive = "continue"
    BY DEF Calm, Quiet
  <2>6. Pressed(broker.leases[i], l)
    BY <2>3, <2>4, <2>5 DEF Pressed, Lease
  <2>7. broker' = Schedule(c)
    BY <1>2 DEF Hold
  <2> HIDE DEF c, l
  <2> QED BY <1>1, <2>1, <2>2, <2>6, <2>7
<1>3. ASSUME NEW i \in 1 .. broker.next, Resume(i)
      PROVE  Runs
  <2> DEFINE l == [broker.leases[i] EXCEPT !.held = FALSE]
             c == [broker EXCEPT !.held = @ \ {broker.leases[i].job.who},
                                 !.leases[i].held = FALSE]
  <2>1. Sound(c)
    BY <1>0, ResumeSound
  <2>2. /\ c.next = broker.next /\ SameEngines(broker, c)
        /\ c.reserved_for = broker.reserved_for
        /\ c.leases = [broker.leases EXCEPT ![i] = l]
    BY <1>0 DEF SameEngines, BrokerOK, Broker
  <2>3. broker.leases[i] \in Lease
    BY <1>0
  <2>4. Pressed(broker.leases[i], l)
    BY <2>3 DEF Pressed, Lease, Calm, Quiet
  <2>5. broker' = Schedule(c)
    BY <1>3 DEF Resume
  <2> HIDE DEF c, l
  <2> QED BY <1>1, <2>1, <2>2, <2>4, <2>5
<1>4. ASSUME NEW i \in 1 .. broker.next, Cancel(i)
      PROVE  Runs
  <2>1. CASE i \in Queued(broker)
    <3>1. broker' = Schedule(End(broker, {i}, "cancelled"))
      BY <1>4, <2>1 DEF Cancel
    <3> QED BY <3>1, EndPrepares DEF Runs
  <2>2. CASE i \notin Queued(broker)
    <3> DEFINE l == [broker.leases[i] EXCEPT !.directive = "cancel"]
               c == [broker EXCEPT !.leases[i].directive = "cancel"]
    <3>1. Sound(c)
      BY <1>0, CancelDirectiveSound
    <3>2. /\ c.next = broker.next /\ SameEngines(broker, c)
          /\ c.reserved_for = broker.reserved_for
          /\ c.leases = [broker.leases EXCEPT ![i] = l]
      BY <1>0 DEF SameEngines, BrokerOK, Broker
    <3>3. broker.leases[i] \in Lease
      BY <1>0
    <3>4. broker.leases[i].state = "granted"
      BY <1>4, <2>2 DEF Cancel, Active, Granted, InState
    <3>5. Pressed(broker.leases[i], l)
      BY <3>3, <3>4 DEF Pressed, Lease
    <3>6. broker' = Schedule(c)
      BY <1>4, <2>2 DEF Cancel
    <3> HIDE DEF c, l
    <3> QED BY <1>1, <3>1, <3>2, <3>5, <3>6
  <2> QED BY <2>1, <2>2
<1>5. ASSUME NEW i \in 1 .. broker.next, NEW priority \in NewPriorities,
             SetPriority(i, priority)
      PROVE  Runs
  <2> DEFINE l == [broker.leases[i] EXCEPT !.priority = priority]
             c == [broker EXCEPT !.leases[i].priority = priority]
  <2>1. Sound(c)
    BY <1>0, GpuBrokerAssumption, PrioritySound
  <2>2. /\ c.next = broker.next /\ SameEngines(broker, c)
        /\ c.reserved_for = broker.reserved_for
        /\ c.leases = [broker.leases EXCEPT ![i] = l]
    BY <1>0 DEF SameEngines, BrokerOK, Broker
  <2>3. broker.leases[i] \in Lease
    BY <1>0
  <2>4. Pressed(broker.leases[i], l)
    BY <2>3 DEF Pressed, Lease, Calm, Quiet
  <2>5. broker' = Schedule(c)
    BY <1>5 DEF SetPriority
  <2> HIDE DEF c, l
  <2> QED BY <1>1, <2>1, <2>2, <2>4, <2>5
<1>6. ASSUME NEW on \in BOOLEAN, SetTraining(on)
      PROVE  Runs
  <2> DEFINE c == [broker EXCEPT !.training = on]
  <2>1. BrokerOK(c) /\ c.next = broker.next /\ c.leases = broker.leases
        /\ c.total_mb = broker.total_mb /\ c.reserved_for = broker.reserved_for
        /\ SameEngines(broker, c) /\ c.training = on
    BY <1>0 DEF SameEngines, BrokerOK, Broker
  <2>2. IF on /\ ~ReservedForCritical(broker)
        THEN broker' = Schedule(ClearForCritical(c)) ELSE broker' = Schedule(c)
    BY <1>6 DEF SetTraining
  <2> HIDE DEF c
  <2>3. Prepares(broker, c, c) /\ Prepares(broker, c, ClearForCritical(c))
        /\ Kept(c, Schedule(ClearForCritical(c)))
    BY <2>1, FieldPrepares DEF SameEngines
  <2>4. CASE on /\ ~ReservedForCritical(broker)
    <3>1. broker'.training
      BY <2>1, <2>2, <2>3, <2>4 DEF Kept, Soft
    <3>2. Told
      BY <2>4, <3>1 DEF Told, ReservedForCritical
    <3> QED BY <2>2, <2>3, <2>4, <3>2 DEF Runs
  <2>5. CASE ~(on /\ ~ReservedForCritical(broker))
    BY <2>1, <2>2, <2>3, <2>5 DEF Runs
  <2> QED BY <2>4, <2>5
<1>7. ASSUME NEW paused \in BOOLEAN, SetQueuePaused(paused)
      PROVE  Runs
  <2> DEFINE c == [broker EXCEPT !.queue_paused = paused]
  <2>1. BrokerOK(c) /\ c.next = broker.next /\ c.leases = broker.leases
        /\ c.total_mb = broker.total_mb /\ c.reserved_for = broker.reserved_for
        /\ SameEngines(broker, c)
    BY <1>0 DEF SameEngines, BrokerOK, Broker
  <2>2. broker' = Schedule(c)
    BY <1>7 DEF SetQueuePaused
  <2> HIDE DEF c
  <2> QED BY <2>1, <2>2, FieldPrepares DEF SameEngines, Runs
<1>8. ASSUME RequestOllamaUnload
      PROVE  Runs
  <2> DEFINE x == UnloadsOllama(broker)
  <2>1. Kept(broker, x)
    BY <1>8, EnginesKept DEF RequestOllamaUnload
  <2>2. x.next = broker.next /\ x.leases = broker.leases
        /\ x.reserved_for = broker.reserved_for
    BY <1>0 DEF UnloadsOllama, BrokerOK, Broker
  <2>3. broker' = Schedule(x)
    BY <1>8 DEF RequestOllamaUnload
  <2> HIDE DEF x
  <2>4. Prepares(broker, broker, x)
    BY <1>0, <2>1, <2>2 DEF Prepares, Granted, InState
  <2> QED BY <1>8, <2>3, <2>4 DEF Runs, Told
<1>9. ASSUME NEW r \in Resident, RequestResidentFree(r)
      PROVE  Runs
  <2> DEFINE x == PushFree(broker, r, ResidentCacheMb(broker))
  <2>1. ResidentCacheMb(broker) \in Nat
    BY <1>0, Accounting
  <2>2. Kept(broker, x)
    BY <1>9, <2>1, EnginesKept DEF RequestResidentFree
  <2>3. x.next = broker.next /\ x.leases = broker.leases
        /\ x.reserved_for = broker.reserved_for
    BY <1>0 DEF PushFree, BrokerOK, Broker
  <2>4. broker' = Schedule(x)
    BY <1>9 DEF RequestResidentFree
  <2> HIDE DEF x
  <2>5. Prepares(broker, broker, x)
    BY <1>0, <2>2, <2>3 DEF Prepares, Granted, InState
  <2>6. Told
    BY <1>9 DEF Told
  <2> QED BY <2>4, <2>5, <2>6 DEF Runs
<1> QED BY <1>2, <1>3, <1>4, <1>5, <1>6, <1>7, <1>8, <1>9 DEF User

\* The draining of effects and the passing of time press no button.
LEMMA ServerRests ==
  ASSUME Calm(broker), Settle \/ \E r \in Resident : FreeingGoesLate(r)
  PROVE  Kept(broker, broker') /\ Rests(broker, broker')
<1>1. Sound(broker')
  BY ServerSound DEF Calm, Server
<1>2. Rests(broker, broker') /\ broker'.leases = broker.leases
  BY DEF Rests, Settle, FreeingGoesLate, Calm, Sound, BrokerOK, Broker
<1> QED BY <1>1, <1>2, SameIsKept DEF Rests

\* Every step of the broker.
LEMMA StepGoes ==
  ASSUME Calm(broker), [Next]_broker PROVE Calm(broker') /\ \E c : Goes(broker, c, broker')
<1>0. Opens(broker, broker)
  BY SameOpens DEF Calm
<1>1. \E c : Goes(broker, c, broker')
  <2>1. CASE UNCHANGED broker
    BY <1>0, <2>1, KeptSame DEF Goes
  <2>2. CASE Runs
    <3>1. PICK c, x : Prepares(broker, c, x) /\ broker' = Schedule(x)
      BY <2>2 DEF Runs
    <3>2. Calm(c) /\ Calm(x)
      BY <3>1, OpensCalm, KeptTrans DEF Prepares
    <3> QED BY <3>1, <3>2, ScheduleKept, KeptTrans DEF Prepares, Goes
  <2>3. ASSUME NEW s \in Sampled, Sample(s) PROVE \E c : Goes(broker, c, broker')
    BY <1>0, <2>3, SampleKept DEF Goes
  <2>4. CASE Kept(broker, broker')
    BY <1>0, <2>4 DEF Goes
  <2> QED BY <2>1, <2>2, <2>3, <2>4, ClientRuns, UserRuns, ServerRests DEF Next, Server
<1>2. ASSUME NEW c, Goes(broker, c, broker') PROVE Calm(broker')
  BY <1>2, OpensCalm, KeptTrans DEF Goes
<1> QED BY <1>1, <1>2

\* In every reachable state the broker is sound and its queue is told nothing.
LEMMA CalmAlways == Spec => []Calm(broker)
<1>1. Init => Calm(broker)
  <2> SUFFICES ASSUME Init PROVE Quiet(broker)
    BY InitSound DEF Calm
  <2>1. broker.next = 0
    BY DEF Init
  <2> QED BY <2>1 DEF Quiet
<1>2. Calm(broker) /\ [Next]_broker => Calm(broker)'
  <2> SUFFICES ASSUME Calm(broker), [Next]_broker PROVE Calm(broker')
    BY DEF Calm, Sound, BrokerOK, Broker, FitsTheCard, OnlyThePreemptibleYield, Quiet
  <2> QED BY StepGoes
<1> QED BY <1>1, <1>2, PTL DEF Spec

-----------------------------------------------------------------------------
(* What a step may do to a lease. *)

\* The types of the leases of a step, and how they follow.
LEMMA LeaseGoes ==
  ASSUME NEW b, Calm(b), NEW c, NEW d, Goes(b, c, d), NEW i \in 1 .. d.next
  PROVE  /\ c.next = d.next /\ c.leases[i] \in Lease /\ d.leases[i] \in Lease
         /\ Gentle(c.leases[i], d.leases[i])
         /\ c.leases[i].state = "queued" /\ d.leases[i].state = "granted"
              => LetIn(d, d.leases[i])
         /\ i \in 1 .. b.next =>
              b.leases[i] \in Lease /\ Pressed(b.leases[i], c.leases[i])
         /\ i \notin 1 .. b.next => Requested(b, c.leases[i])
<1>1. b.next \in Nat /\ d.next \in Nat
  BY DEF Goes, Kept, Calm, Sound, BrokerOK
<1>2. c.next = d.next /\ c.leases[i] \in Lease /\ d.leases[i] \in Lease
  <2>1. c.next = d.next
    BY DEF Goes, Kept, Soft
  <2> QED BY <2>1, LeaseFields DEF Goes, Opens, Kept, Sound
<1>3. /\ Gentle(c.leases[i], d.leases[i])
      /\ c.leases[i].state = "queued" /\ d.leases[i].state = "granted"
              => LetIn(d, d.leases[i])
  BY <1>2 DEF Goes, Kept, Soft
<1>4. i \in 1 .. b.next => b.leases[i] \in Lease /\ Pressed(b.leases[i], c.leases[i])
  BY LeaseFields DEF Goes, Opens, Calm, Sound
<1>5. i \notin 1 .. b.next => Requested(b, c.leases[i])
  <2>1. i \notin 1 .. b.next => i > b.next
    BY <1>1
  <2> QED BY <1>2, <2>1 DEF Goes, Opens
<1> QED BY <1>2, <1>3, <1>4, <1>5

\* Who was told to cancel and is not paused goes on being told so (schedule, hold).
THEOREM CancelsStand == Spec => CancelStands
<1> DEFINE Stands == \A i \in Granted(broker) \cap Granted(broker') :
       broker.leases[i].directive = "cancel" /\ ~broker'.leases[i].held
         => broker'.leases[i].directive = "cancel"
<1>1. Calm(broker) /\ [Next]_broker => [Stands]_broker
  <2> SUFFICES ASSUME Calm(broker), [Next]_broker,
                      NEW i \in Granted(broker) \cap Granted(broker'),
                      broker.leases[i].directive = "cancel", ~broker'.leases[i].held
               PROVE  broker'.leases[i].directive = "cancel"
    OBVIOUS
  <2>1. PICK c : Goes(broker, c, broker')
    BY StepGoes
  <2>2. /\ i \in 1 .. broker.next /\ i \in 1 .. broker'.next
        /\ broker.leases[i].state = "granted" /\ broker'.leases[i].state = "granted"
    BY DEF Granted, InState
  <2>3. Pressed(broker.leases[i], c.leases[i]) /\ Gentle(c.leases[i], broker'.leases[i])
    BY <2>1, <2>2, LeaseGoes
  <2> QED BY <2>2, <2>3 DEF Pressed, Gentle
<1> HIDE DEF Stands
<1>2. Spec => [][Stands]_broker
  BY <1>1, CalmAlways, PTL DEF Spec
<1> QED BY <1>2 DEF CancelStands, Stands

\* What is critical is told to yield by the pause button only (make_room,
\* clear_for_critical, hold).
THEOREM CriticalWorksOn == Spec => CriticalNotInterrupted
<1> DEFINE WorksOn == \A i \in Granted(broker) \cap Granted(broker') :
       /\ broker'.leases[i].priority = Critical
       /\ broker.leases[i].directive = "continue"
       /\ broker'.leases[i].directive = "yield"
       => broker'.leases[i].held
<1>1. Calm(broker) /\ [Next]_broker => [WorksOn]_broker
  <2> SUFFICES ASSUME Calm(broker), [Next]_broker,
                      NEW i \in Granted(broker) \cap Granted(broker'),
                      broker'.leases[i].priority = Critical,
                      broker.leases[i].directive = "continue",
                      broker'.leases[i].directive = "yield"
               PROVE  broker'.leases[i].held
    OBVIOUS
  <2>1. PICK c : Goes(broker, c, broker')
    BY StepGoes
  <2>2. /\ i \in 1 .. broker.next /\ i \in 1 .. broker'.next
        /\ broker.leases[i].state = "granted" /\ broker'.leases[i].state = "granted"
    BY DEF Granted, InState
  <2>3. Pressed(broker.leases[i], c.leases[i]) /\ Gentle(c.leases[i], broker'.leases[i])
    BY <2>1, <2>2, LeaseGoes
  <2> QED BY <2>2, <2>3 DEF Pressed, Gentle
<1> HIDE DEF WorksOn
<1>2. Spec => [][WorksOn]_broker
  BY <1>1, CalmAlways, PTL DEF Spec
<1> QED BY <1>2 DEF CriticalNotInterrupted, WorksOn

\* Whatever makes the scheduler run, it lets nobody in whom the user keeps out
\* (schedule, acquire).
THEOREM UserKeepsOut == Spec => NothingPastTheUser
<1> DEFINE KeptOut == \A i \in Granted(broker') \ Granted(broker) :
       /\ ~broker'.queue_paused
       /\ ~broker'.leases[i].held
       /\ i > broker.next => broker'.leases[i].job.who \notin broker.held
       /\ broker.training /\ broker'.training => broker'.leases[i].priority = Critical
<1>1. Calm(broker) /\ [Next]_broker => [KeptOut]_broker
  <2> SUFFICES ASSUME Calm(broker), [Next]_broker,
                      NEW i \in Granted(broker') \ Granted(broker)
               PROVE  /\ ~broker'.queue_paused
                      /\ ~broker'.leases[i].held
                      /\ i > broker.next => broker'.leases[i].job.who \notin broker.held
                      /\ broker.training /\ broker'.training
                           => broker'.leases[i].priority = Critical
    OBVIOUS
  <2>1. PICK c : Goes(broker, c, broker')
    BY StepGoes
  <2>2. i \in 1 .. broker'.next /\ broker'.leases[i].state = "granted"
    BY DEF Granted, InState
  <2>3. /\ c.leases[i] \in Lease /\ Gentle(c.leases[i], broker'.leases[i])
        /\ c.leases[i].state = "queued" => LetIn(broker', broker'.leases[i])
        /\ i \in 1 .. broker.next => Pressed(broker.leases[i], c.leases[i])
        /\ i \notin 1 .. broker.next => Requested(broker, c.leases[i])
    BY <2>1, <2>2, LeaseGoes
  <2>4. i \in 1 .. broker.next => c.leases[i].state # "granted"
    BY <2>3 DEF Pressed, Granted, InState
  <2>5. c.leases[i].state = "queued"
    BY <2>2, <2>3, <2>4 DEF Requested, Gentle, Lease
  <2>6. LetIn(broker', broker'.leases[i])
    BY <2>3, <2>5
  <2>7. i > broker.next => broker'.leases[i].job.who \notin broker.held
    <3> SUFFICES ASSUME i > broker.next PROVE broker'.leases[i].job.who \notin broker.held
      OBVIOUS
    <3>1. i \notin 1 .. broker.next
      BY DEF Calm, Sound, BrokerOK
    <3>2. /\ c.leases[i].held = (c.leases[i].job.who \in broker.held)
          /\ broker'.leases[i].held = c.leases[i].held
          /\ broker'.leases[i].job = c.leases[i].job
      BY <2>2, <2>3, <3>1 DEF Requested, Gentle
    <3> QED BY <2>6, <3>2 DEF LetIn
  <2> QED BY <2>6, <2>7 DEF LetIn
<1> HIDE DEF KeptOut
<1>2. Spec => [][KeptOut]_broker
  BY <1>1, CalmAlways, PTL DEF Spec
<1> QED BY <1>2 DEF NothingPastTheUser, KeptOut

\* No engine is asked to let go of its models under a lease that works on it from before
\* to after (make_room, clear_for_critical, set_ollama, request_resident_free).
THEOREM LeasedEnginesSpared == Spec => LeasedEngineNotAsked
<1> DEFINE Spared ==
      \A i \in Granted(broker) \cap Granted(broker'), e \in broker'.effects \ broker.effects :
        broker.leases[i].job.backend
          # (IF e = UnloadOllama THEN "ollama" ELSE ResidentBackend[e])
<1>1. Calm(broker) /\ [Next]_broker => [Spared]_broker
  <2> SUFFICES ASSUME Calm(broker), [Next]_broker,
                      NEW i \in Granted(broker) \cap Granted(broker'),
                      NEW e \in broker'.effects \ broker.effects
               PROVE  broker.leases[i].job.backend # Engine(e)
    BY DEF Engine
  <2>1. PICK c : Goes(broker, c, broker')
    BY StepGoes
  <2>2. /\ i \in 1 .. broker.next /\ i \in 1 .. broker'.next
        /\ broker.leases[i].state = "granted" /\ broker'.leases[i].state = "granted"
    BY DEF Granted, InState
  <2>3. c.next = broker'.next /\ Pressed(broker.leases[i], c.leases[i])
    BY <2>1, <2>2, LeaseGoes
  <2>4. e \in broker'.effects \ c.effects /\ SparesLeased(c, broker')
    BY <2>1 DEF Goes, Opens, Kept
  <2> QED BY <2>2, <2>3, <2>4 DEF Pressed, SparesLeased
<1> HIDE DEF Spared
<1>2. Spec => [][Spared]_broker
  BY <1>1, CalmAlways, PTL DEF Spec
<1> QED BY <1>2 DEF LeasedEngineNotAsked, Spared

-----------------------------------------------------------------------------
(* The refinement. *)

\* What clients see of the leases of b.
Seen(b) ==
  [i \in 1 .. b.next |->
     [vram_mb |-> b.leases[i].job.vram_mb, preemptible |-> b.leases[i].job.preemptible,
      state |-> b.leases[i].state, directive |-> b.leases[i].directive]]

\* A sound broker shows leases of the right shape, which fit next to the desktop.
LEMMA SeenIsSound ==
  ASSUME NEW b, Sound(b)
  PROVE  /\ Seen(b) \in [1 .. b.next -> Promised!ALease]
         /\ Promised!MegabytesHeld(b.next, Seen(b)) <= Monus(Capacity, Baseline)
<1>1. Seen(b) \in [1 .. b.next -> Promised!ALease]
  <2> SUFFICES ASSUME NEW i \in 1 .. b.next
               PROVE  Seen(b)[i] \in Promised!ALease
    BY DEF Seen
  <2>1. b.leases[i] \in Lease /\ b.leases[i].job \in JobType
    BY LeaseFields, GpuBrokerAssumption DEF Sound
  <2> QED BY <2>1 DEF Seen, Promised!ALease, Lease, JobType
<1>2. Promised!MegabytesHeld(b.next, Seen(b)) = Megabytes(b, Granted(b))
  <2>1. Promised!Holders(b.next, Seen(b)) = Granted(b)
    BY DEF Promised!Holders, Seen, Granted, InState
  <2>2. \A i \in Granted(b) : Seen(b)[i].vram_mb = b.leases[i].job.vram_mb
    BY DEF Seen, Granted, InState
  <2>3. {{i} \X (1 .. Seen(b)[i].vram_mb) : i \in Granted(b)}
          = {{i} \X (1 .. b.leases[i].job.vram_mb) : i \in Granted(b)}
    BY <2>2
  <2>4. Promised!MegabytesHeld(b.next, Seen(b))
          = Cardinality(UNION {{i} \X (1 .. Seen(b)[i].vram_mb) : i \in Granted(b)})
    <3>1. ASSUME NEW S PROVE Promised!Cardinality(S) = Cardinality(S)
      BY DEF Promised!Cardinality, Cardinality
    <3> QED BY <2>1, <3>1 DEF Promised!MegabytesHeld
  <2> QED BY <2>3, <2>4 DEF Megabytes
<1>3. Megabytes(b, Granted(b)) \in Nat /\ Capacity \in Nat /\ Baseline \in Nat
  BY Accounting, GpuBrokerAssumption DEF Sound, Capacity
<1>4. Megabytes(b, Granted(b)) <= Monus(Capacity, Baseline)
  BY <1>3 DEF Sound, FitsTheCard, Monus
<1> QED BY <1>1, <1>2, <1>4

\* A lease of the broker goes on as a client may count on.
LEMMA SeenFollows ==
  ASSUME NEW b, Calm(b), NEW c, NEW d, Goes(b, c, d), NEW i \in 1 .. b.next
  PROVE  i \in 1 .. d.next /\ Promised!Follows(Seen(b)[i], Seen(d)[i])
<1>1. i \in 1 .. d.next
  BY DEF Goes, Opens, Kept, Soft, Calm, Sound, BrokerOK
<1>2. /\ b.leases[i] \in Lease /\ c.leases[i] \in Lease /\ d.leases[i] \in Lease
      /\ Pressed(b.leases[i], c.leases[i]) /\ Gentle(c.leases[i], d.leases[i])
  BY <1>1, LeaseGoes
<1>3. d.leases[i].state = "granted" /\ d.leases[i].directive = "yield"
        => d.leases[i].job.preemptible
  BY <1>1 DEF Goes, Kept, Sound, OnlyThePreemptibleYield, Granted, InState
<1>4. /\ Seen(b)[i] = [vram_mb |-> b.leases[i].job.vram_mb,
                       preemptible |-> b.leases[i].job.preemptible,
                       state |-> b.leases[i].state, directive |-> b.leases[i].directive]
      /\ Seen(d)[i] = [vram_mb |-> d.leases[i].job.vram_mb,
                       preemptible |-> d.leases[i].job.preemptible,
                       state |-> d.leases[i].state, directive |-> d.leases[i].directive]
  BY <1>1 DEF Seen
<1> QED BY <1>1, <1>2, <1>3, <1>4 DEF Promised!Follows, Pressed, Gentle, Lease

\* A new lease is told nothing, or at most to yield, if it can.
LEMMA SeenBorn ==
  ASSUME NEW b, Calm(b), NEW c, NEW d, Goes(b, c, d), NEW i \in 1 .. d.next, i > b.next
  PROVE  Promised!Born(Seen(d)[i])
<1>1. i \notin 1 .. b.next
  BY DEF Calm, Sound, BrokerOK
<1>2. Requested(b, c.leases[i]) /\ Gentle(c.leases[i], d.leases[i]) /\ d.leases[i] \in Lease
  BY <1>1, LeaseGoes
<1>3. d.leases[i].state = "granted" /\ d.leases[i].directive = "yield"
        => d.leases[i].job.preemptible
  BY DEF Goes, Kept, Sound, OnlyThePreemptibleYield, Granted, InState
<1>4. Seen(d)[i] = [vram_mb |-> d.leases[i].job.vram_mb,
                    preemptible |-> d.leases[i].job.preemptible,
                    state |-> d.leases[i].state, directive |-> d.leases[i].directive]
  BY DEF Seen
<1> QED BY <1>2, <1>3, <1>4 DEF Promised!Born, Requested, Gentle, Lease

\* A step of the broker is a step of the allocator.
LEMMA StepRefines ==
  ASSUME Calm(broker), [Next]_broker
  PROVE  [Promised!Step]_<<broker.next, SeenByClient>>
<1>1. PICK c : Goes(broker, c, broker')
  BY StepGoes
<1>2. SeenByClient = Seen(broker) /\ SeenByClient' = Seen(broker')
  BY DEF SeenByClient, Seen
<1>3. Sound(broker')
  BY StepGoes DEF Calm
<1>4. broker'.next \in {broker.next, broker.next + 1} /\ broker.next \in Nat
  BY <1>1 DEF Goes, Opens, Kept, Soft, Calm, Sound, BrokerOK
<1>5. \A i \in 1 .. broker.next : Promised!Follows(Seen(broker)[i], Seen(broker')[i])
  BY <1>1, SeenFollows
<1>6. \A i \in broker.next + 1 .. broker'.next : Promised!Born(Seen(broker')[i])
  <2>1. \A i \in broker.next + 1 .. broker'.next : i \in 1 .. broker'.next /\ i > broker.next
    BY <1>4
  <2> QED BY <1>1, <2>1, SeenBorn
<1>7. /\ Seen(broker') \in [1 .. broker'.next -> Promised!ALease]
      /\ Promised!MegabytesHeld(broker'.next, Seen(broker')) <= Monus(Capacity, Baseline)
  BY <1>3, SeenIsSound
<1>8. Promised!Step
  BY <1>2, <1>4, <1>5, <1>6, <1>7 DEF Promised!Step
<1> QED BY <1>8

\* The broker implements the allocator: whatever is requested, pressed and read, a
\* client sees of its lease what it may count on, and what is granted fits.
THEOREM Implements == Spec => KeepsItsPromise
<1>1. Init => Promised!Init
  <2> SUFFICES ASSUME Init PROVE Promised!Init
    OBVIOUS
  <2>1. broker.next = 0
    BY DEF Init
  <2>2. SeenByClient = [i \in 1 .. 0 |-> 0]
    BY <2>1 DEF SeenByClient
  <2> QED BY <2>1, <2>2 DEF Promised!Init
<1>2. Calm(broker) /\ [Next]_broker => [Promised!Step]_<<broker.next, SeenByClient>>
  BY StepRefines
<1>3. Spec => Promised!Spec
  BY <1>1, <1>2, CalmAlways, PTL DEF Spec, Promised!Spec
<1> QED BY <1>3 DEF KeepsItsPromise

=============================================================================
