------------------------ MODULE WorkbenchListProofs ------------------------
(***************************************************************************)
(* Proofs about the two components that make one list from another: the    *)
(* rows of the history from the turns, and the chunks of a file from its   *)
(* lines.  For all values of their constants, as in WorkbenchProofs.       *)
(***************************************************************************)
EXTENDS WorkbenchProofs

-----------------------------------------------------------------------------
(* The history. *)

\* The Cardinality that the history uses is the one of the library.
LEMMA HistoryCounted == \A I : History!Cardinality(I) = Cardinality(I)
<1>1. ASSUME NEW I PROVE History!Cardinality(I) = Cardinality(I)
  BY Zenon DEF History!Cardinality, Cardinality
<1> QED BY <1>1

\* The rows a table can have, and the places of its turns.
HistoryRow ==
  [job : HistoryJob, granted : Int, ended : Int, outcome : {"released", "expired"}, turns : Nat]
PlacesOf(table) == UNION {{r} \X (1 .. table[r].turns) : r \in DOMAIN table}

RowsLike(table, t) == {r \in DOMAIN table : table[r] = History!Row(t)}
TurnsLike(list, t) == {k \in DOMAIN list : list[k] = t}
Failed == {t \in History!Turn : t.outcome # "released"}

\* No turn is lost, and the ones that failed are counted by their own rows.
Apart(table, list) ==
  /\ IsFiniteSet(PlacesOf(table)) /\ Cardinality(PlacesOf(table)) = Len(list)
  /\ \A t \in Failed :
       /\ IsFiniteSet(RowsLike(table, t)) /\ IsFiniteSet(TurnsLike(list, t))
       /\ Cardinality(RowsLike(table, t)) = Cardinality(TurnsLike(list, t))

\* What a row of one turn says of it.
LEMMA TurnIsRow ==
  ASSUME NEW t \in History!Turn
  PROVE  /\ t.job \in HistoryJob /\ t.granted \in Int /\ t.ended \in Int
         /\ t.outcome \in {"released", "expired"}
         /\ History!Row(t) \in HistoryRow /\ History!Row(t).turns = 1
         /\ History!Row(t).outcome = t.outcome /\ History!Row(t).job = t.job
         /\ \A u \in History!Turn : History!Row(u) = History!Row(t) => u = t
<1>1. \A u \in History!Turn :
        /\ u \in [job : HistoryJob, granted : History!Instant \cup {History!NeverGranted},
                  ended : History!Instant, outcome : {"released", "expired"}]
        /\ u.granted \in Int /\ u.ended \in Int
  BY WorkbenchAssumption DEF History!Turn, History!Instant, History!NeverGranted
<1>2. ASSUME NEW u \in History!Turn, History!Row(u) = History!Row(t) PROVE u = t
  <2>1. u.job = t.job /\ u.granted = t.granted /\ u.ended = t.ended /\ u.outcome = t.outcome
    BY <1>2 DEF History!Row
  <2> QED BY <1>1, <2>1
<1> QED BY <1>1, <1>2 DEF History!Row, HistoryRow

\* What a row says once a turn is added to it.
LEMMA MergedIsRow ==
  ASSUME NEW row \in HistoryRow, NEW t \in History!Turn
  PROVE  /\ History!Merged(row, t) \in HistoryRow /\ row.turns \in Nat
         /\ History!Merged(row, t).turns = row.turns + 1
         /\ History!Merged(row, t).outcome = row.outcome /\ History!Merged(row, t).job = row.job
         /\ History!Merged(row, t).ended = t.ended /\ History!Merged(row, t).granted = row.granted
<1>1. PICK e \in Int : e = t.ended
  BY TurnIsRow
<1>2. History!Merged(row, t) = [row EXCEPT !.ended = e, !.turns = row.turns + 1]
  BY <1>1, Zenon DEF History!Merged
<1>3. PICK n \in Nat : n = row.turns + 1 /\ row.turns \in Nat
  BY DEF HistoryRow
<1>4. PICK m : m = [row EXCEPT !.ended = e, !.turns = n]
  OBVIOUS
<1>5. /\ m \in HistoryRow /\ m.turns = n /\ m.outcome = row.outcome /\ m.job = row.job
      /\ m.ended = e /\ m.granted = row.granted
  BY <1>4 DEF HistoryRow
<1> QED BY <1>1, <1>2, <1>3, <1>4, <1>5

\* One more in a finite set of numbers.
LEMMA OneMore ==
  ASSUME NEW A, NEW B, NEW x, IsFiniteSet(A), x \notin A, B = A \cup {x}
  PROVE  IsFiniteSet(B) /\ Cardinality(B) = Cardinality(A) + 1
BY FS_AddElement

\* A turn that is written, and a row of its own.
LEMMA ApartWithRow ==
  ASSUME NEW table \in Seq(HistoryRow), NEW list \in Seq(History!Turn), Apart(table, list),
         NEW t \in History!Turn
  PROVE  Apart(Append(table, History!Row(t)), Append(list, t))
<1>a. PICK row, after, long : /\ row = History!Row(t) /\ after = Append(table, row)
                              /\ long = Append(list, t)
  OBVIOUS
<1>1. row \in HistoryRow /\ row.turns = 1 /\ \A u \in History!Turn : History!Row(u) = row => u = t
  BY <1>a, TurnIsRow
<1>2. /\ Len(table) \in Nat /\ DOMAIN table = 1 .. Len(table)
      /\ DOMAIN after = 1 .. Len(table) + 1 /\ after[Len(table) + 1] = row
      /\ \A r \in 1 .. Len(table) : after[r] = table[r]
  BY <1>1, <1>a
<1>3. /\ Len(list) \in Nat /\ DOMAIN list = 1 .. Len(list) /\ Len(long) = Len(list) + 1
      /\ DOMAIN long = 1 .. Len(list) + 1 /\ long[Len(list) + 1] = t
      /\ \A k \in 1 .. Len(list) : long[k] = list[k]
  BY <1>a
<1>4. IsFiniteSet(PlacesOf(after)) /\ Cardinality(PlacesOf(after)) = Len(long)
  <2>1. PlacesOf(after) = PlacesOf(table) \cup {<<Len(table) + 1, 1>>}
    <3>1. ASSUME NEW x
          PROVE x \in PlacesOf(after) <=> x \in PlacesOf(table) \cup {<<Len(table) + 1, 1>>}
      <4>1. x \in PlacesOf(after) <=> \E r \in DOMAIN after : x \in {r} \X (1 .. after[r].turns)
        BY DEF PlacesOf
      <4>2. x \in PlacesOf(table) <=> \E r \in DOMAIN table : x \in {r} \X (1 .. table[r].turns)
        BY DEF PlacesOf
      <4>3. x \in {Len(table) + 1} \X (1 .. after[Len(table) + 1].turns)
              <=> x = <<Len(table) + 1, 1>>
        BY <1>1, <1>2
      <4>4. \A r \in DOMAIN after : r \in DOMAIN table \/ r = Len(table) + 1
        BY <1>2
      <4>5. Len(table) + 1 \in DOMAIN after /\ \A r \in DOMAIN table : r \in DOMAIN after
        BY <1>2
      <4> QED BY <1>2, <4>1, <4>2, <4>3, <4>4, <4>5
    <3> QED BY <3>1
  <2>2. <<Len(table) + 1, 1>> \notin PlacesOf(table)
    BY <1>2 DEF PlacesOf
  <2>3. IsFiniteSet(PlacesOf(table)) /\ Cardinality(PlacesOf(table)) = Len(list)
    BY DEF Apart
  <2>4. IsFiniteSet(PlacesOf(after)) /\ Cardinality(PlacesOf(after)) = Len(list) + 1
    BY <2>1, <2>2, <2>3, OneMore
  <2> QED BY <1>3, <2>4
<1>5. ASSUME NEW u \in Failed
      PROVE  /\ IsFiniteSet(RowsLike(after, u)) /\ IsFiniteSet(TurnsLike(long, u))
             /\ Cardinality(RowsLike(after, u)) = Cardinality(TurnsLike(long, u))
  <2>1. u \in History!Turn
    BY DEF Failed
  <2>2. CASE u = t
    <3>1. RowsLike(after, u) = RowsLike(table, u) \cup {Len(table) + 1}
      BY <1>2, <1>a, <2>2 DEF RowsLike
    <3>2. TurnsLike(long, u) = TurnsLike(list, u) \cup {Len(list) + 1}
      BY <1>3, <2>2 DEF TurnsLike
    <3>3. Len(table) + 1 \notin RowsLike(table, u) /\ Len(list) + 1 \notin TurnsLike(list, u)
      BY <1>2, <1>3 DEF RowsLike, TurnsLike
    <3> QED BY <3>1, <3>2, <3>3, OneMore, ZenonT(60) DEF Apart
  <2>3. CASE u # t
    <3>1. History!Row(u) # row
      BY <1>1, <2>1, <2>3
    <3>2. RowsLike(after, u) = RowsLike(table, u)
      BY <1>2, <3>1 DEF RowsLike
    <3>3. TurnsLike(long, u) = TurnsLike(list, u)
      BY <1>3, <2>3 DEF TurnsLike
    <3> QED BY <3>2, <3>3 DEF Apart
  <2> QED BY <2>2, <2>3
<1> QED BY <1>4, <1>5, <1>a DEF Apart

\* A turn that is written, and added to a row.
LEMMA ApartWithin ==
  ASSUME NEW table \in Seq(HistoryRow), NEW list \in Seq(History!Turn), Apart(table, list),
         NEW t \in History!Turn, NEW r \in DOMAIN table, History!Continues(t, table[r])
  PROVE  /\ [table EXCEPT ![r] = History!Merged(@, t)] \in Seq(HistoryRow)
         /\ Apart([table EXCEPT ![r] = History!Merged(@, t)], Append(list, t))
<1>a. PICK row, after, long : /\ row = History!Merged(table[r], t) /\ long = Append(list, t)
                              /\ after = [table EXCEPT ![r] = row]
  OBVIOUS
<1>1. /\ table[r] \in HistoryRow /\ row \in HistoryRow /\ row.turns = table[r].turns + 1
      /\ row.outcome = "released" /\ table[r].outcome = "released" /\ t.outcome = "released"
      /\ table[r].turns \in Nat
  <2>1. table[r] \in HistoryRow
    OBVIOUS
  <2>2. table[r].outcome = "released" /\ t.outcome = "released"
    BY DEF History!Continues
  <2> QED BY <1>a, <2>1, <2>2, MergedIsRow
<1>2. /\ DOMAIN after = DOMAIN table /\ after[r] = row
      /\ \A q \in DOMAIN table : q # r => after[q] = table[q]
  BY <1>a
<1>3. /\ Len(list) \in Nat /\ DOMAIN list = 1 .. Len(list) /\ Len(long) = Len(list) + 1
      /\ DOMAIN long = 1 .. Len(list) + 1 /\ long[Len(list) + 1] = t
      /\ \A k \in 1 .. Len(list) : long[k] = list[k]
  BY <1>a
<1>4. IsFiniteSet(PlacesOf(after)) /\ Cardinality(PlacesOf(after)) = Len(long)
  <2>1. PlacesOf(after) = PlacesOf(table) \cup {<<r, table[r].turns + 1>>}
    <3>1. ASSUME NEW x
          PROVE  x \in PlacesOf(after) <=> x \in PlacesOf(table) \cup {<<r, table[r].turns + 1>>}
      <4>1. x \in PlacesOf(after) <=> \E q \in DOMAIN after : x \in {q} \X (1 .. after[q].turns)
        BY DEF PlacesOf
      <4>2. x \in PlacesOf(table) <=> \E q \in DOMAIN table : x \in {q} \X (1 .. table[q].turns)
        BY DEF PlacesOf
      <4>3. x \in {r} \X (1 .. after[r].turns)
              <=> x \in {r} \X (1 .. table[r].turns) \/ x = <<r, table[r].turns + 1>>
        BY <1>1, <1>2
      <4> QED BY <1>2, <4>1, <4>2, <4>3
    <3> QED BY <3>1
  <2>2. <<r, table[r].turns + 1>> \notin PlacesOf(table)
    BY <1>1 DEF PlacesOf
  <2>3. IsFiniteSet(PlacesOf(table)) /\ Cardinality(PlacesOf(table)) = Len(list)
    BY DEF Apart
  <2>4. IsFiniteSet(PlacesOf(after)) /\ Cardinality(PlacesOf(after)) = Len(list) + 1
    BY <2>1, <2>2, <2>3, OneMore
  <2> QED BY <1>3, <2>4
<1>5. ASSUME NEW u \in Failed
      PROVE  /\ IsFiniteSet(RowsLike(after, u)) /\ IsFiniteSet(TurnsLike(long, u))
             /\ Cardinality(RowsLike(after, u)) = Cardinality(TurnsLike(long, u))
  <2>1. u \in History!Turn /\ u.outcome # "released" /\ u # t
    BY <1>1 DEF Failed
  <2>2. History!Row(u) # row /\ History!Row(u) # table[r]
    BY <1>1, <2>1, TurnIsRow
  <2>3. RowsLike(after, u) = RowsLike(table, u)
    BY <1>2, <2>2 DEF RowsLike
  <2>4. TurnsLike(long, u) = TurnsLike(list, u)
    BY <1>3, <2>1 DEF TurnsLike
  <2> QED BY <2>3, <2>4 DEF Apart
<1>6. after \in Seq(HistoryRow)
  <2>1. \A q \in DOMAIN table : after[q] \in HistoryRow
    BY <1>1, <1>2
  <2>2. after = [q \in 1 .. Len(table) |-> after[q]] /\ DOMAIN table = 1 .. Len(table)
        /\ Len(table) \in Nat
    <3>1. after = [q \in DOMAIN table |-> after[q]]
      BY <1>a
    <3> QED BY <3>1
  <2> QED BY <2>1, <2>2
<1> QED BY <1>4, <1>5, <1>6, <1>a DEF Apart

\* The runs of a list in which each turn continues the one before it, and their rows.
Joined(l, k) == History!Continues(l[k], l[k - 1])
IsBurst(l, k, n) ==
  /\ k \in 1 .. Len(l) /\ n \in k .. Len(l)
  /\ k = 1 \/ ~Joined(l, k)
  /\ \A i \in k + 1 .. n : Joined(l, i)
  /\ n = Len(l) \/ ~Joined(l, n + 1)
BurstRow(l, k, n) ==
  [job |-> l[k].job, granted |-> l[k].granted, ended |-> l[n].ended, outcome |-> l[k].outcome,
   turns |-> n - k + 1]

\* Each start has one run, which is as long as it can be.
LEMMA LongestRun ==
  ASSUME NEW l, Len(l) \in Nat, NEW k \in 1 .. Len(l),
         NEW S, S = {n \in k .. Len(l) : \A i \in k + 1 .. n : Joined(l, i)}
  PROVE  /\ History!Max(S) \in k .. Len(l) /\ \A i \in k + 1 .. History!Max(S) : Joined(l, i)
         /\ History!Max(S) = Len(l) \/ ~Joined(l, History!Max(S) + 1)
         /\ \A n \in k .. Len(l) :
              (\A i \in k + 1 .. n : Joined(l, i)) /\ (n = Len(l) \/ ~Joined(l, n + 1))
                => n = History!Max(S)
<1>1. S \in SUBSET Int /\ IsFiniteSet(S) /\ k \in S
  <2>1. IsFiniteSet(k .. Len(l))
    BY FS_Interval
  <2>2. S \in SUBSET (k .. Len(l))
    OBVIOUS
  <2>3. IsFiniteSet(S)
    BY <2>1, <2>2, FS_Subset
  <2>4. k \in S
    OBVIOUS
  <2> QED BY <2>2, <2>3, <2>4
<1>2. \E x \in S : \A y \in S : x >= y
  BY <1>1, LargestOne
<1>a. PICK m : m = History!Max(S)
  OBVIOUS
<1>3. m \in S /\ \A y \in S : m >= y
  BY <1>2, <1>a DEF History!Max
<1>4. m \in k .. Len(l) /\ \A i \in k + 1 .. m : Joined(l, i)
  BY <1>3
<1>5. ASSUME m # Len(l), Joined(l, m + 1) PROVE FALSE
  <2>1. m + 1 \in k .. Len(l)
    BY <1>4, <1>5
  <2>2. \A i \in k + 1 .. m + 1 : i \in k + 1 .. m \/ i = m + 1
    BY <1>4
  <2>3. m + 1 \in S
    BY <1>4, <1>5, <2>1, <2>2
  <2> QED BY <1>3, <1>4, <2>3
<1>6. ASSUME NEW n \in k .. Len(l), \A i \in k + 1 .. n : Joined(l, i),
             n = Len(l) \/ ~Joined(l, n + 1), n # m
      PROVE  FALSE
  <2>1. n \in S
    BY <1>6
  <2>2. n < m
    BY <1>3, <1>4, <1>6, <2>1
  <2>3. n + 1 \in k + 1 .. m /\ n # Len(l)
    BY <1>4, <2>2
  <2> QED BY <1>4, <1>6, <2>3
<1> QED BY <1>4, <1>5, <1>6, <1>a

\* The rows that Bursts expects are those of the longest runs of joined turns.
LEMMA BurstsAre ==
  ASSUME NEW l \in Seq(History!Turn), NEW row
  PROVE  row \in History!Bursts(l) <=> \E k, n : IsBurst(l, k, n) /\ row = BurstRow(l, k, n)
<1> DEFINE run(k) == {n \in k .. Len(l) : \A i \in k + 1 .. n : Joined(l, i)}
           last(k) == History!Max(run(k))
           starts == {k \in DOMAIN l : k = 1 \/ ~Joined(l, k)}
<1>1. Len(l) \in Nat /\ DOMAIN l = 1 .. Len(l)
  OBVIOUS
<1>2. History!Bursts(l) =
        {[job |-> l[k].job, granted |-> l[k].granted, ended |-> l[last(k)].ended,
          outcome |-> l[k].outcome, turns |-> last(k) - k + 1] : k \in starts}
  BY Zenon DEF History!Bursts, Joined
<1>3. ASSUME NEW k \in starts PROVE IsBurst(l, k, last(k))
  <2>1. k \in 1 .. Len(l)
    BY <1>1
  <2>2. /\ last(k) \in k .. Len(l) /\ \A i \in k + 1 .. last(k) : Joined(l, i)
        /\ last(k) = Len(l) \/ ~Joined(l, last(k) + 1)
    BY <1>1, <2>1, LongestRun
  <2> HIDE DEF last
  <2> QED BY <2>1, <2>2 DEF IsBurst
<1>4. ASSUME NEW k, NEW n, IsBurst(l, k, n) PROVE k \in starts /\ n = last(k)
  <2>1. k \in 1 .. Len(l) /\ k \in starts
    BY <1>1, <1>4 DEF IsBurst
  <2>2. \A m \in k .. Len(l) :
          (\A i \in k + 1 .. m : Joined(l, i)) /\ (m = Len(l) \/ ~Joined(l, m + 1)) => m = last(k)
    BY <1>1, <2>1, LongestRun
  <2> HIDE DEF last
  <2> QED BY <1>4, <2>1, <2>2 DEF IsBurst
<1> HIDE DEF last, starts
<1> QED BY <1>2, <1>3, <1>4, Zenon DEF BurstRow

\* The last turn is the end of one run.
LEMMA LastBurst ==
  ASSUME NEW l, Len(l) \in Nat \ {0}
  PROVE  /\ \E k : IsBurst(l, k, Len(l))
         /\ \A j, k, n : IsBurst(l, j, n) /\ IsBurst(l, k, n) => j = k
<1> DEFINE S == {k \in 1 .. Len(l) : k = 1 \/ ~Joined(l, k)}
<1>1. S \in SUBSET Int /\ IsFiniteSet(S) /\ S # {}
  <2>1. IsFiniteSet(1 .. Len(l))
    BY FS_Interval
  <2>2. S \in SUBSET (1 .. Len(l)) /\ S \in SUBSET Int /\ 1 \in S
    OBVIOUS
  <2> HIDE DEF S
  <2>3. IsFiniteSet(S)
    BY <2>1, <2>2, FS_Subset
  <2> QED BY <2>2, <2>3
<1>2. PICK b \in S : \A y \in S : b >= y
  <2> HIDE DEF S
  <2> QED BY <1>1, LargestOne
<1>3. b \in 1 .. Len(l) /\ (b = 1 \/ ~Joined(l, b))
  OBVIOUS
<1>4. ASSUME NEW i \in b + 1 .. Len(l) PROVE Joined(l, i)
  <2>1. i \notin S
    <3> HIDE DEF S
    <3> QED BY <1>2, <1>3
  <2>2. i \in 1 .. Len(l)
    BY <1>3
  <2> QED BY <2>1, <2>2
<1>5. IsBurst(l, b, Len(l))
  BY <1>3, <1>4 DEF IsBurst
<1>6. ASSUME NEW j, NEW k, NEW n, IsBurst(l, j, n), IsBurst(l, k, n), j < k PROVE FALSE
  BY <1>6 DEF IsBurst
<1>7. ASSUME NEW j, NEW k, NEW n, IsBurst(l, j, n), IsBurst(l, k, n) PROVE j = k
  <2>1. j \in Int /\ k \in Int
    BY <1>7 DEF IsBurst
  <2>2. ~(j < k) /\ ~(k < j)
    BY <1>6, <1>7
  <2> QED BY <2>1, <2>2
<1> QED BY <1>5, <1>7

\* The runs of a list that has grown by a turn.
LEMMA BurstsGrow ==
  ASSUME NEW l, NEW t, NEW l2, Grown(l2, l, t), NEW N \in Nat, N = Len(l)
  PROVE  /\ Len(l2) = N + 1 /\ l2[N + 1] = t
         /\ \A k \in 1 .. N : l2[k] = l[k]
         /\ N = 0 \/ ~Joined(l2, N + 1) =>
              \A k, n : IsBurst(l2, k, n) <=> IsBurst(l, k, n) \/ (k = N + 1 /\ n = N + 1)
         /\ N # 0 /\ Joined(l2, N + 1) =>
              \A k, n : IsBurst(l2, k, n) <=>
                \/ IsBurst(l, k, n) /\ n # N
                \/ IsBurst(l, k, N) /\ n = N + 1
<1>1. Len(l2) = N + 1 /\ l2[N + 1] = t /\ \A k \in 1 .. N : l2[k] = l[k]
  BY DEF Grown
<1>2. \A i \in 2 .. N : Joined(l2, i) = Joined(l, i)
  BY <1>1 DEF Joined
<1>3. ASSUME NEW k, NEW n, N = 0 \/ ~Joined(l2, N + 1)
      PROVE  IsBurst(l2, k, n) <=> IsBurst(l, k, n) \/ (k = N + 1 /\ n = N + 1)
  <2>1. ASSUME IsBurst(l2, k, n), k # N + 1 PROVE IsBurst(l, k, n)
    <3>1. /\ k \in 1 .. N /\ n \in k .. N + 1 /\ (k = 1 \/ ~Joined(l2, k))
          /\ \A i \in k + 1 .. n : Joined(l2, i)
          /\ n = N + 1 \/ ~Joined(l2, n + 1)
      BY <1>1, <2>1 DEF IsBurst
    <3>2. n \in k .. N
      BY <1>1, <1>3, <3>1
    <3>3. \A i \in k + 1 .. n : i \in 2 .. N
      BY <1>1, <3>1, <3>2
    <3>4. n # N => n + 1 \in 2 .. N
      BY <1>1, <3>1, <3>2
    <3>5. n # N => ~Joined(l, n + 1)
      BY <1>1, <1>2, <3>1, <3>2, <3>4
    <3>6. k = 1 \/ ~Joined(l, k)
      BY <1>1, <1>2, <3>1
    <3> QED BY <1>1, <1>2, <3>1, <3>2, <3>3, <3>5, <3>6 DEF IsBurst
  <2>2. ASSUME IsBurst(l2, k, n), k = N + 1 PROVE n = N + 1
    BY <1>1, <2>2 DEF IsBurst
  <2>3. ASSUME IsBurst(l, k, n) PROVE IsBurst(l2, k, n)
    <3>1. /\ k \in 1 .. N /\ n \in k .. N /\ (k = 1 \/ ~Joined(l, k))
          /\ \A i \in k + 1 .. n : Joined(l, i)
          /\ n = N \/ ~Joined(l, n + 1)
      BY <2>3 DEF IsBurst
    <3>2. \A i \in k + 1 .. n : i \in 2 .. N
      BY <1>1, <3>1
    <3>3. ~Joined(l2, n + 1)
      <4>1. CASE n = N
        BY <1>1, <1>3, <3>1, <4>1
      <4>2. CASE n # N
        <5>1. n + 1 \in 2 .. N
          BY <1>1, <3>1, <4>2
        <5> QED BY <1>2, <3>1, <4>2, <5>1
      <4> QED BY <4>1, <4>2
    <3>4. k = 1 \/ ~Joined(l2, k)
      BY <1>1, <1>2, <3>1
    <3>5. k \in 1 .. N + 1 /\ n \in k .. N + 1
      BY <1>1, <3>1
    <3> QED BY <1>1, <1>2, <3>1, <3>2, <3>3, <3>4, <3>5 DEF IsBurst
  <2>4. IsBurst(l2, N + 1, N + 1)
    <3>1. N + 1 = 1 \/ ~Joined(l2, N + 1)
      BY <1>1, <1>3
    <3>2. N + 1 \in 1 .. N + 1 /\ N + 1 \in N + 1 .. N + 1 /\ (N + 1) + 1 .. N + 1 = {}
      BY <1>1
    <3> QED BY <1>1, <3>1, <3>2 DEF IsBurst
  <2> QED BY <2>1, <2>2, <2>3, <2>4
<1>4. ASSUME NEW k, NEW n, N # 0, Joined(l2, N + 1)
      PROVE  IsBurst(l2, k, n) <=> (IsBurst(l, k, n) /\ n # N) \/ (IsBurst(l, k, N) /\ n = N + 1)
  <2>1. ASSUME IsBurst(l2, k, n)
          PROVE (IsBurst(l, k, n) /\ n # N) \/ (IsBurst(l, k, N) /\ n = N + 1)
    <3>1. /\ k \in 1 .. N + 1 /\ n \in k .. N + 1 /\ (k = 1 \/ ~Joined(l2, k))
          /\ \A i \in k + 1 .. n : Joined(l2, i)
          /\ n = N + 1 \/ ~Joined(l2, n + 1)
      BY <1>1, <2>1 DEF IsBurst
    <3>2. k \in 1 .. N
      BY <1>1, <1>4, <3>1
    <3>3. n # N
      BY <1>1, <1>4, <3>1
    <3>4. k = 1 \/ ~Joined(l, k)
      BY <1>1, <1>2, <3>1, <3>2
    <3>5. CASE n = N + 1
      <4>1. \A i \in k + 1 .. N : i \in k + 1 .. n /\ i \in 2 .. N
        BY <1>1, <3>2, <3>5
      <4>2. N \in k .. N
        BY <1>1, <3>2
      <4> QED BY <1>1, <1>2, <3>1, <3>2, <3>4, <3>5, <4>1, <4>2 DEF IsBurst
    <3>6. CASE n # N + 1
      <4>1. n \in k .. N /\ n + 1 \in 2 .. N /\ \A i \in k + 1 .. n : i \in 2 .. N
        BY <1>1, <3>1, <3>2, <3>3, <3>6
      <4> QED BY <1>1, <1>2, <3>1, <3>2, <3>3, <3>4, <3>6, <4>1 DEF IsBurst
    <3> QED BY <3>5, <3>6
  <2>2. ASSUME IsBurst(l, k, n), n # N PROVE IsBurst(l2, k, n)
    <3>1. /\ k \in 1 .. N /\ n \in k .. N /\ (k = 1 \/ ~Joined(l, k))
          /\ \A i \in k + 1 .. n : Joined(l, i)
          /\ ~Joined(l, n + 1)
      BY <2>2 DEF IsBurst
    <3>2. n + 1 \in 2 .. N /\ \A i \in k + 1 .. n : i \in 2 .. N
      BY <1>1, <2>2, <3>1
    <3>3. k = 1 \/ ~Joined(l2, k)
      BY <1>1, <1>2, <3>1
    <3>4. k \in 1 .. N + 1 /\ n \in k .. N + 1
      BY <1>1, <3>1
    <3> QED BY <1>1, <1>2, <3>1, <3>2, <3>3, <3>4 DEF IsBurst
  <2>3. ASSUME IsBurst(l, k, N) PROVE IsBurst(l2, k, N + 1)
    <3>1. /\ k \in 1 .. N /\ (k = 1 \/ ~Joined(l, k))
          /\ \A i \in k + 1 .. N : Joined(l, i)
      BY <2>3 DEF IsBurst
    <3>2. ASSUME NEW i \in k + 1 .. N + 1 PROVE Joined(l2, i)
      <4>1. CASE i = N + 1
        BY <1>4, <4>1
      <4>2. CASE i # N + 1
        <5>1. i \in k + 1 .. N /\ i \in 2 .. N
          BY <1>1, <3>1, <4>2
        <5> QED BY <1>2, <3>1, <5>1
      <4> QED BY <4>1, <4>2
    <3>3. k = 1 \/ ~Joined(l2, k)
      BY <1>1, <1>2, <3>1
    <3>4. k \in 1 .. N + 1 /\ N + 1 \in k .. N + 1
      BY <1>1, <3>1
    <3> QED BY <1>1, <3>2, <3>3, <3>4 DEF IsBurst
  <2> QED BY <2>1, <2>2, <2>3
<1> QED BY <1>1, <1>3, <1>4

\* The turns of a job, in the order in which they were written.
Mine(list, job) == Picked(list, {k \in DOMAIN list : list[k].job = job})
Sorted(list) == \A i, j \in DOMAIN list : i < j => list[i].ended < list[j].ended

\* The rows of a job are its bursts, and no two of them ended together.
JobRows(table, l, job) ==
  /\ \A row : (\E r \in DOMAIN table : table[r] = row /\ row.job = job)
                <=> \E k, n : IsBurst(l, k, n) /\ row = BurstRow(l, k, n)
  /\ \A r, q \in DOMAIN table :
       table[r].job = job /\ table[q].job = job /\ r # q => table[r].ended # table[q].ended
BurstRows(table, list) == \A job \in HistoryJob : JobRows(table, Mine(list, job), job)

\* The turns of one job are in the order of the list.
LEMMA MineIsSorted ==
  ASSUME NEW list \in Seq(History!Turn), Sorted(list), NEW job, NEW l, l = Mine(list, job)
  PROVE  /\ l \in Seq(History!Turn) /\ Sorted(l)
         /\ \A i \in DOMAIN l : l[i].job = job /\ \E k \in DOMAIN list : l[i] = list[k]
<1>a. PICK I \in SUBSET DOMAIN list : I = {k \in DOMAIN list : list[k].job = job}
  OBVIOUS
<1>1. l = Picked(list, I)
  BY <1>a DEF Mine
<1>2. /\ Picked(list, I) \in Seq(History!Turn)
      /\ \A j \in DOMAIN Picked(list, I) : Nth(I, j) \in I /\ Picked(list, I)[j] = list[Nth(I, j)]
      /\ \A i, j \in DOMAIN Picked(list, I) : i < j => Nth(I, i) < Nth(I, j)
  BY PickedList
<1>3. /\ l \in Seq(History!Turn)
      /\ \A j \in DOMAIN l : Nth(I, j) \in DOMAIN list /\ Nth(I, j) \in I /\ l[j] = list[Nth(I, j)]
      /\ \A i, j \in DOMAIN l : i < j => Nth(I, i) < Nth(I, j)
  BY <1>1, <1>2
<1>4. Sorted(l)
  BY <1>3 DEF Sorted
<1>5. \A i \in DOMAIN l : l[i].job = job /\ \E k \in DOMAIN list : l[i] = list[k]
  BY <1>3, <1>a
<1> QED BY <1>3, <1>4, <1>5

\* A turn that is added is added to the list of its job, and of no other.
LEMMA MineGrows ==
  ASSUME NEW list \in Seq(History!Turn), NEW t, NEW long, Grown(long, list, t), NEW job
  PROVE  /\ t.job = job => Grown(Mine(long, job), Mine(list, job), t)
         /\ t.job # job => Mine(long, job) = Mine(list, job)
<1>a. PICK I \in SUBSET DOMAIN list : I = {k \in DOMAIN list : list[k].job = job}
  OBVIOUS
<1>b. PICK J : J = {k \in DOMAIN long : long[k].job = job}
  OBVIOUS
<1>1. /\ Picked(long, I) = Picked(list, I)
      /\ Grown(Picked(long, I \cup {Len(list) + 1}), Picked(list, I), t)
  BY PickedGrows
<1>2. /\ Len(list) \in Nat /\ DOMAIN list = 1 .. Len(list)
      /\ DOMAIN long = 1 .. Len(list) + 1 /\ long[Len(list) + 1] = t
      /\ \A k \in 1 .. Len(list) : long[k] = list[k]
  BY DEF Grown
<1>3. J = IF t.job = job THEN I \cup {Len(list) + 1} ELSE I
  BY <1>2, <1>a, <1>b
<1> QED BY <1>1, <1>3, <1>a, <1>b DEF Mine

\* Only the rows of a job matter to it.
LEMMA SameRows ==
  ASSUME NEW table, NEW after, NEW job, NEW m, NEW l, l = m, JobRows(table, m, job),
         \A r \in DOMAIN after : after[r].job = job => r \in DOMAIN table /\ after[r] = table[r],
         \A r \in DOMAIN table : table[r].job = job => r \in DOMAIN after /\ after[r] = table[r]
  PROVE  JobRows(after, l, job)
<1>1. \A row : (\E r \in DOMAIN after : after[r] = row /\ row.job = job)
                <=> (\E r \in DOMAIN table : table[r] = row /\ row.job = job)
  OBVIOUS
<1>2. \A row : (\E r \in DOMAIN after : after[r] = row /\ row.job = job)
                <=> \E k, n : IsBurst(l, k, n) /\ row = BurstRow(l, k, n)
  BY <1>1 DEF JobRows
<1>3. ASSUME NEW r \in DOMAIN after, NEW q \in DOMAIN after,
             after[r].job = job, after[q].job = job, r # q
      PROVE  after[r].ended # after[q].ended
  <2>1. r \in DOMAIN table /\ after[r] = table[r] /\ q \in DOMAIN table /\ after[q] = table[q]
    BY <1>3
  <2> QED BY <1>3, <2>1 DEF JobRows
<1> QED BY <1>2, <1>3 DEF JobRows

\* A burst of its own.
LEMMA RowAdded ==
  ASSUME NEW table \in Seq(HistoryRow), NEW list \in Seq(History!Turn), BurstRows(table, list),
         NEW t \in History!Turn, Sorted(list), \A k \in DOMAIN list : list[k].ended < t.ended,
         NEW l, l = Mine(list, t.job), NEW N, N = Len(l),
         N = 0 \/ ~History!Continues(t, l[N]),
         NEW after, Grown(after, table, History!Row(t)), NEW long, Grown(long, list, t)
  PROVE  BurstRows(after, long)
<1>a. PICK row, l2 : row = History!Row(t) /\ l2 = Mine(long, t.job)
  OBVIOUS
<1>1. /\ l \in Seq(History!Turn) /\ Sorted(l)
      /\ \A i \in DOMAIN l : l[i].job = t.job /\ \E k \in DOMAIN list : l[i] = list[k]
  BY MineIsSorted
<1>2. /\ N \in Nat /\ Len(l2) = N + 1 /\ l2[N + 1] = t
      /\ \A k \in 1 .. N : l2[k] = l[k]
      /\ N = 0 \/ ~Joined(l2, N + 1) =>
           \A k, n : IsBurst(l2, k, n) <=> IsBurst(l, k, n) \/ (k = N + 1 /\ n = N + 1)
  <2>1. Grown(l2, l, t) /\ N \in Nat
    BY <1>1, <1>a, MineGrows
  <2> QED BY <2>1, BurstsGrow
<1>3. N = 0 \/ ~Joined(l2, N + 1)
  <2>1. N # 0 => N \in 1 .. N /\ (N + 1) - 1 = N
    BY <1>2
  <2> QED BY <1>2, <2>1 DEF Joined
<1>4. /\ Len(table) \in Nat /\ DOMAIN table = 1 .. Len(table)
      /\ DOMAIN after = 1 .. Len(table) + 1 /\ after[Len(table) + 1] = row
      /\ \A r \in 1 .. Len(table) : after[r] = table[r]
      /\ row.job = t.job /\ row.ended = t.ended /\ row = BurstRow(l2, N + 1, N + 1)
  <2>1. row \in HistoryRow /\ row.job = t.job /\ row.ended = t.ended
    BY <1>a, TurnIsRow DEF History!Row
  <2>2. (N + 1) - (N + 1) + 1 = 1
    BY <1>2
  <2>3. row = BurstRow(l2, N + 1, N + 1)
    BY <1>a, <1>2, <2>2 DEF BurstRow, History!Row
  <2> QED BY <1>a, <2>1, <2>3 DEF Grown
<1>5. \A k, n : IsBurst(l, k, n) => BurstRow(l2, k, n) = BurstRow(l, k, n)
  BY <1>2 DEF IsBurst, BurstRow
<1>6. ASSUME NEW job \in HistoryJob, job # t.job PROVE JobRows(after, Mine(long, job), job)
  <2>1. Mine(long, job) = Mine(list, job)
    BY <1>6, MineGrows
  <2>2. \A r \in DOMAIN after : after[r].job = job => r \in DOMAIN table /\ after[r] = table[r]
    BY <1>4, <1>6
  <2>3. \A r \in DOMAIN table : r \in DOMAIN after /\ after[r] = table[r]
    BY <1>4
  <2>4. JobRows(table, Mine(list, job), job)
    BY DEF BurstRows
  <2> QED BY <2>1, <2>2, <2>3, <2>4, SameRows
<1>7. JobRows(table, l, t.job)
  BY TurnIsRow DEF BurstRows
<1>8. ASSUME NEW r \in DOMAIN table, table[r].job = t.job
      PROVE  table[r].ended < t.ended /\ table[r].ended \in Int
  <2>1. PICK k, n : IsBurst(l, k, n) /\ table[r] = BurstRow(l, k, n)
    BY <1>7, <1>8 DEF JobRows
  <2>2. n \in DOMAIN l /\ table[r].ended = l[n].ended
    BY <1>2, <2>1 DEF IsBurst, BurstRow
  <2>3. l[n] \in History!Turn
    BY <1>1, <2>2
  <2> QED BY <1>1, <2>2, <2>3, TurnIsRow
<1>9. \A r, q \in DOMAIN after :
        after[r].job = t.job /\ after[q].job = t.job /\ r # q => after[r].ended # after[q].ended
  <2>1. \A r \in DOMAIN after : \/ r = Len(table) + 1 /\ after[r].ended = t.ended
                                \/ r \in DOMAIN table /\ after[r] = table[r]
    BY <1>4
  <2>2. t.ended \in Int
    BY TurnIsRow
  <2>3. \A r \in DOMAIN table : table[r].job = t.job => table[r].ended # t.ended
    BY <1>8, <2>2
  <2>4. ASSUME NEW r \in DOMAIN after, NEW q \in DOMAIN after,
               after[r].job = t.job, after[q].job = t.job, r # q
        PROVE  after[r].ended # after[q].ended
    <3>1. CASE r \in DOMAIN table /\ after[r] = table[r]
             /\ q \in DOMAIN table /\ after[q] = table[q]
      BY <1>7, <2>4, <3>1 DEF JobRows
    <3>2. CASE r = Len(table) + 1 /\ after[r].ended = t.ended
      BY <2>1, <2>3, <2>4, <3>2
    <3>3. CASE q = Len(table) + 1 /\ after[q].ended = t.ended
      BY <2>1, <2>3, <2>4, <3>3
    <3> QED BY <2>1, <3>1, <3>2, <3>3
  <2> QED BY <2>4
<1>10. ASSUME NEW w
       PROVE  (\E r \in DOMAIN after : after[r] = w /\ w.job = t.job)
                <=> \E k, n : IsBurst(l2, k, n) /\ w = BurstRow(l2, k, n)
  <2>1. (\E r \in DOMAIN after : after[r] = w /\ w.job = t.job)
          <=> (\E r \in DOMAIN table : table[r] = w /\ w.job = t.job) \/ w = row
    <3>1. \A r \in DOMAIN after : \/ r = Len(table) + 1 /\ after[r] = row
                                  \/ r \in DOMAIN table /\ after[r] = table[r]
      BY <1>4
    <3>2. Len(table) + 1 \in DOMAIN after
           /\ \A r \in DOMAIN table : r \in DOMAIN after /\ after[r] = table[r]
      BY <1>4
    <3> QED BY <1>4, <3>1, <3>2
  <2>2. (\E k, n : IsBurst(l2, k, n) /\ w = BurstRow(l2, k, n))
          <=> (\E k, n : IsBurst(l, k, n) /\ w = BurstRow(l, k, n)) \/ w = row
    BY <1>2, <1>3, <1>4, <1>5
  <2> QED BY <1>7, <2>1, <2>2 DEF JobRows
<1>11. JobRows(after, l2, t.job)
  BY <1>9, <1>10 DEF JobRows
<1> QED BY <1>6, <1>11, <1>a DEF BurstRows

\* One turn more in the newest burst.
LEMMA RowMerged ==
  ASSUME NEW table \in Seq(HistoryRow), NEW list \in Seq(History!Turn), BurstRows(table, list),
         NEW t \in History!Turn, Sorted(list), \A k \in DOMAIN list : list[k].ended < t.ended,
         NEW l, l = Mine(list, t.job), NEW N, N = Len(l), N # 0,
         History!Continues(t, l[N]),
         NEW b, IsBurst(l, b, N), NEW r \in DOMAIN table, table[r] = BurstRow(l, b, N),
         NEW row, row = History!Merged(table[r], t),
         NEW after, DOMAIN after = DOMAIN table, after[r] = row,
         \A q \in DOMAIN table : q # r => after[q] = table[q],
         NEW long, Grown(long, list, t)
  PROVE  BurstRows(after, long)
<1>a. PICK l2 : l2 = Mine(long, t.job)
  OBVIOUS
<1>1. /\ l \in Seq(History!Turn) /\ Sorted(l)
      /\ \A i \in DOMAIN l : l[i].job = t.job /\ \E k \in DOMAIN list : l[i] = list[k]
  BY MineIsSorted
<1>2. /\ N \in Nat /\ Len(l2) = N + 1 /\ l2[N + 1] = t
      /\ \A k \in 1 .. N : l2[k] = l[k]
      /\ N # 0 /\ Joined(l2, N + 1) =>
           \A k, n : IsBurst(l2, k, n) <=>
             \/ IsBurst(l, k, n) /\ n # N
             \/ IsBurst(l, k, N) /\ n = N + 1
  <2>1. Grown(l2, l, t) /\ N \in Nat
    BY <1>1, <1>a, MineGrows
  <2>2. /\ Len(l2) = N + 1 /\ l2[N + 1] = t
        /\ \A k \in 1 .. N : l2[k] = l[k]
    BY <2>1 DEF Grown
  <2>3. N # 0 /\ Joined(l2, N + 1) =>
           \A k, n : IsBurst(l2, k, n) <=>
             \/ IsBurst(l, k, n) /\ n # N
             \/ IsBurst(l, k, N) /\ n = N + 1
    <3>1. \A n_1 \in Nat : n_1 = Len(l) =>
            (n_1 # 0 /\ Joined(l2, n_1 + 1) =>
               \A k, n : IsBurst(l2, k, n) <=>
                 \/ IsBurst(l, k, n) /\ n # n_1
                 \/ IsBurst(l, k, n_1) /\ n = n_1 + 1)
      BY <2>1, BurstsGrow
    <3>2. N = Len(l)
      OBVIOUS
    <3> QED BY <2>1, <3>1, <3>2, Zenon
  <2> QED BY <2>1, <2>2, <2>3
<1>3. Joined(l2, N + 1) /\ \A k : IsBurst(l, k, N) => k = b
  <2>1. N \in 1 .. N /\ (N + 1) - 1 = N
    BY <1>2
  <2>2. Joined(l2, N + 1)
    BY <1>2, <2>1 DEF Joined
  <2>3. \A k : IsBurst(l, k, N) => k = b
    <3>1. Len(l) \in Nat \ {0}
      BY <1>2
    <3> QED BY <3>1, LastBurst
  <2> QED BY <2>2, <2>3
<1>4. /\ DOMAIN after = DOMAIN table /\ after[r] = row
      /\ \A q \in DOMAIN table : q # r => after[q] = table[q]
      /\ b \in 1 .. N /\ table[r].job = t.job /\ row.job = t.job /\ row.ended = t.ended
      /\ table[r].ended = l[N].ended /\ table[r] \in HistoryRow
  <2>1. b \in 1 .. N /\ DOMAIN l = 1 .. N
    BY <1>2, <1>1 DEF IsBurst
  <2>2. table[r].job = t.job /\ table[r].ended = l[N].ended
    BY <1>1, <2>1 DEF BurstRow
  <2>3. table[r] \in HistoryRow
    OBVIOUS
  <2>4. row.job = t.job /\ row.ended = t.ended
    BY <2>2, <2>3, MergedIsRow
  <2> QED BY <2>1, <2>2, <2>3, <2>4
<1>5. ASSUME NEW k, NEW n, IsBurst(l, k, n) PROVE BurstRow(l2, k, n) = BurstRow(l, k, n)
  <2>1. k \in 1 .. N /\ n \in 1 .. N
    BY <1>2, <1>5 DEF IsBurst
  <2>2. l2[k] = l[k] /\ l2[n] = l[n]
    BY <1>2, <2>1
  <2> QED BY <2>2 DEF BurstRow
<1>6. row = BurstRow(l2, b, N + 1)
  <2>1. (N - b + 1) + 1 = (N + 1) - b + 1
    BY <1>2, <1>4
  <2>2. table[r].turns + 1 = (N + 1) - b + 1
    BY <2>1 DEF BurstRow
  <2>3. row = [table[r] EXCEPT !.ended = t.ended, !.turns = table[r].turns + 1]
    BY Zenon DEF History!Merged
  <2>4. row = [job |-> l[b].job, granted |-> l[b].granted, ended |-> t.ended,
               outcome |-> l[b].outcome, turns |-> (N + 1) - b + 1]
    <3>1. PICK e, m : e = t.ended /\ m = (N + 1) - b + 1
      OBVIOUS
    <3>2. row = [BurstRow(l, b, N) EXCEPT !.ended = e, !.turns = m]
      BY <2>2, <2>3, <3>1
    <3> QED BY <3>1, <3>2 DEF BurstRow
  <2>5. l2[b] = l[b] /\ l2[N + 1] = t
    BY <1>2, <1>4
  <2> QED BY <2>4, <2>5 DEF BurstRow
<1>7. JobRows(table, l, t.job)
  BY TurnIsRow DEF BurstRows
<1>8. ASSUME NEW job \in HistoryJob, job # t.job PROVE JobRows(after, Mine(long, job), job)
  <2>1. Mine(long, job) = Mine(list, job)
    BY <1>8, MineGrows
  <2>2. \A q \in DOMAIN after : after[q].job = job => q \in DOMAIN table /\ after[q] = table[q]
    BY <1>4, <1>8
  <2>3. \A q \in DOMAIN table : table[q].job = job => q \in DOMAIN after /\ after[q] = table[q]
    BY <1>4, <1>8
  <2>4. JobRows(table, Mine(list, job), job)
    BY DEF BurstRows
  <2> QED BY <2>1, <2>2, <2>3, <2>4, SameRows
<1>9. ASSUME NEW q \in DOMAIN table, table[q].job = t.job, q # r
      PROVE  /\ table[q].ended # t.ended
             /\ \E k, n : IsBurst(l, k, n) /\ n # N /\ table[q] = BurstRow(l, k, n)
  <2>1. PICK k, n : IsBurst(l, k, n) /\ table[q] = BurstRow(l, k, n)
    BY <1>7, <1>9 DEF JobRows
  <2>2. n \in DOMAIN l /\ table[q].ended = l[n].ended
    BY <1>1, <1>2, <2>1 DEF IsBurst, BurstRow
  <2>3. l[n].ended < t.ended /\ l[n].ended \in Int /\ t.ended \in Int
    <3>1. l[n] \in History!Turn
      BY <1>1, <2>2
    <3> QED BY <1>1, <2>2, <3>1, TurnIsRow
  <2>4. n # N
    BY <1>4, <1>7, <1>9, <2>2 DEF JobRows
  <2> QED BY <2>1, <2>2, <2>3, <2>4
<1>10. \A p, q \in DOMAIN after :
         after[p].job = t.job /\ after[q].job = t.job /\ p # q => after[p].ended # after[q].ended
  BY <1>4, <1>7, <1>9, SMTT(60) DEF JobRows
<1>11. ASSUME NEW w
       PROVE  (\E q \in DOMAIN after : after[q] = w /\ w.job = t.job)
                <=> \E k, n : IsBurst(l2, k, n) /\ w = BurstRow(l2, k, n)
  <2>1. ASSUME NEW q \in DOMAIN after, after[q] = w, w.job = t.job
        PROVE  \E k, n : IsBurst(l2, k, n) /\ w = BurstRow(l2, k, n)
    <3>1. CASE q = r
      <4>1. IsBurst(l2, b, N + 1)
        BY <1>2, <1>3
      <4> QED BY <1>4, <1>6, <2>1, <3>1, <4>1
    <3>2. CASE q # r
      <4>1. PICK k, n : IsBurst(l, k, n) /\ n # N /\ table[q] = BurstRow(l, k, n)
        BY <1>4, <1>9, <2>1, <3>2
      <4>2. IsBurst(l2, k, n) /\ w = BurstRow(l2, k, n)
        BY <1>2, <1>3, <1>4, <1>5, <2>1, <3>2, <4>1
      <4> QED BY <4>2
    <3> QED BY <3>1, <3>2
  <2>2. ASSUME NEW k, NEW n, IsBurst(l2, k, n), w = BurstRow(l2, k, n)
        PROVE  \E q \in DOMAIN after : after[q] = w /\ w.job = t.job
    <3>1. (IsBurst(l, k, n) /\ n # N) \/ (k = b /\ n = N + 1)
      BY <1>2, <1>3, <2>2
    <3>2. CASE k = b /\ n = N + 1
      BY <1>4, <1>6, <2>2, <3>2
    <3>3. CASE IsBurst(l, k, n) /\ n # N
      <4>1. w = BurstRow(l, k, n)
        BY <1>5, <2>2, <3>3
      <4>2. PICK q \in DOMAIN table : table[q] = w /\ w.job = t.job
        BY <1>7, <3>3, <4>1 DEF JobRows
      <4>3. n \in DOMAIN l /\ N \in DOMAIN l /\ n < N /\ w.ended = l[n].ended
        <5>1. k \in 1 .. N /\ n \in k .. N /\ n # N /\ DOMAIN l = 1 .. N
          BY <1>1, <3>3 DEF IsBurst
        <5>2. w.ended = l[n].ended
          BY <4>1 DEF BurstRow
        <5> QED BY <1>2, <5>1, <5>2
      <4>4. l[n].ended < l[N].ended /\ l[n].ended \in Int /\ l[N].ended \in Int
        <5>1. l[n] \in History!Turn /\ l[N] \in History!Turn
          BY <1>1, <4>3
        <5> QED BY <1>1, <4>3, <5>1, TurnIsRow DEF Sorted
      <4>5. q # r
        BY <1>4, <4>2, <4>3, <4>4
      <4> QED BY <1>4, <4>2, <4>5
    <3> QED BY <3>1, <3>2, <3>3
  <2> QED BY <2>1, <2>2
<1>12. JobRows(after, l2, t.job)
  BY <1>10, <1>11 DEF JobRows
<1> QED BY <1>8, <1>12, <1>a DEF BurstRows

\* What the table is to the turns that were written.
RowsRight(table, list) ==
  /\ table \in Seq(HistoryRow) /\ list \in Seq(History!Turn) /\ Apart(table, list)
  /\ History!InOrder(list) => Sorted(list) /\ BurstRows(table, list)

\* The rows of a job of which none ended later.
NewestIn(table, job) ==
  {r \in DOMAIN table : /\ table[r].job = job
                        /\ \A q \in DOMAIN table : table[q].job = job
                                  => table[q].ended <= table[r].ended}

\* A turn that is written as it ends is later than all before it.
LEMMA OrderGrows ==
  ASSUME NEW list \in Seq(History!Turn), NEW t \in History!Turn, NEW long, Grown(long, list, t),
         History!InOrder(long), History!InOrder(list) => Sorted(list)
  PROVE  History!InOrder(list) /\ Sorted(long) /\ \A k \in DOMAIN list : list[k].ended < t.ended
<1>1. /\ Len(list) \in Nat /\ DOMAIN list = 1 .. Len(list) /\ Len(long) = Len(list) + 1
      /\ DOMAIN long = 1 .. Len(list) + 1 /\ long[Len(list) + 1] = t
      /\ \A k \in 1 .. Len(list) : long[k] = list[k]
  BY DEF Grown
<1>2. ASSUME NEW k \in 2 .. Len(list) PROVE list[k - 1].ended < list[k].ended
  <2>1. k \in 2 .. Len(long) /\ k \in 1 .. Len(list) /\ k - 1 \in 1 .. Len(list)
    BY <1>1
  <2>2. long[k - 1].ended < long[k].ended
    BY <2>1 DEF History!InOrder
  <2> QED BY <1>1, <2>1, <2>2
<1>3. History!InOrder(list) /\ Sorted(list)
  BY <1>2 DEF History!InOrder
<1>4. \A k \in 1 .. Len(list) : list[k].ended \in Int
  <2>1. \A k \in 1 .. Len(list) : list[k] \in History!Turn
    BY <1>1
  <2> QED BY <2>1, TurnIsRow
<1>5. t.ended \in Int
  BY TurnIsRow
<1>6. ASSUME NEW k \in 1 .. Len(list) PROVE list[k].ended < t.ended
  <2>1. Len(list) + 1 \in 2 .. Len(long) /\ (Len(list) + 1) - 1 = Len(list)
       /\ Len(list) \in 1 .. Len(list)
    BY <1>1
  <2>2. long[(Len(list) + 1) - 1].ended < long[Len(list) + 1].ended
    BY <2>1 DEF History!InOrder
  <2>3. list[Len(list)].ended < t.ended
    BY <1>1, <2>1, <2>2
  <2>4. list[k].ended <= list[Len(list)].ended
    <3>1. CASE k = Len(list)
      BY <1>4, <2>1, <3>1
    <3>2. CASE k # Len(list)
      <4>1. k < Len(list) /\ k \in DOMAIN list /\ Len(list) \in DOMAIN list
        <5>1. \A n \in Nat : \A m \in 1 .. n : m # n => m < n /\ n \in 1 .. n
          OBVIOUS
        <5> QED BY <1>1, <3>2, <5>1
      <4>2. list[k].ended < list[Len(list)].ended
        BY <1>3, <4>1 DEF Sorted
      <4> QED BY <1>4, <2>1, <4>2
    <3> QED BY <3>1, <3>2
  <2> QED BY <1>4, <1>5, <2>1, <2>3, <2>4
<1>7. ASSUME NEW i \in DOMAIN long, NEW j \in DOMAIN long, i < j PROVE long[i].ended < long[j].ended
  <2>1. i \in 1 .. Len(list) /\ (j \in 1 .. Len(list) \/ j = Len(list) + 1)
    BY <1>1, <1>7
  <2>2. CASE j \in 1 .. Len(list)
    BY <1>1, <1>3, <1>7, <2>1, <2>2 DEF Sorted
  <2>3. CASE j = Len(list) + 1
    BY <1>1, <1>6, <2>1, <2>3
  <2> QED BY <2>1, <2>2, <2>3
<1> QED BY <1>1, <1>3, <1>6, <1>7 DEF Sorted

\* The newest row of a job is its last burst.
LEMMA NewestIsLast ==
  ASSUME NEW table \in Seq(HistoryRow), NEW list \in Seq(History!Turn), Sorted(list),
         BurstRows(table, list),
          NEW job \in HistoryJob, NEW l, l = Mine(list, job), NEW N, N = Len(l)
  PROVE  /\ NewestIn(table, job) = {} => N = 0
         /\ \A r \in NewestIn(table, job) :
              /\ N \in Nat \ {0} /\ N \in DOMAIN l
              /\ \E b : IsBurst(l, b, N) /\ b \in DOMAIN l /\ table[r] = BurstRow(l, b, N)
<1>1. l \in Seq(History!Turn) /\ Sorted(l) /\ N \in Nat /\ DOMAIN l = 1 .. N
  BY MineIsSorted
<1>2. JobRows(table, l, job)
  BY DEF BurstRows
<1>3. \A k \in 1 .. N : l[k].ended \in Int /\ l[k].job = job
  <2>1. \A k \in 1 .. N : l[k] \in History!Turn /\ l[k].job = job
    BY <1>1, MineIsSorted
  <2> QED BY <2>1, TurnIsRow
<1>4. ASSUME NEW q \in DOMAIN table, table[q].job = job
      PROVE  \E k, n \in 1 .. N : IsBurst(l, k, n) /\ table[q] = BurstRow(l, k, n)
                                  /\ table[q].ended = l[n].ended
  <2>1. PICK k, n : IsBurst(l, k, n) /\ table[q] = BurstRow(l, k, n)
    BY <1>2, <1>4 DEF JobRows
  <2>2. k \in 1 .. N /\ n \in 1 .. N
    BY <1>1, <2>1 DEF IsBurst
  <2>3. table[q].ended = l[n].ended
    BY <2>1 DEF BurstRow
  <2> QED BY <2>1, <2>2, <2>3
<1>5. ASSUME N # 0
      PROVE  \E b, q : /\ IsBurst(l, b, N)
                     /\ b \in 1 .. N /\ q \in DOMAIN table /\ table[q].job = job
                       /\ table[q] = BurstRow(l, b, N) /\ table[q].ended = l[N].ended
  <2>1. PICK b : IsBurst(l, b, N)
    <3>1. Len(l) \in Nat \ {0}
      BY <1>1, <1>5
    <3> QED BY <3>1, LastBurst
  <2>2. PICK q \in DOMAIN table : table[q] = BurstRow(l, b, N) /\ table[q].job = job
    BY <1>2, <2>1, SMTT(60) DEF JobRows
  <2>3. b \in 1 .. N /\ table[q].ended = l[N].ended
    BY <1>1, <2>1, <2>2 DEF IsBurst, BurstRow
  <2> QED BY <2>1, <2>2, <2>3
<1>6. ASSUME NEW n \in 1 .. N PROVE l[n].ended <= l[N].ended /\ (l[n].ended = l[N].ended => n = N)
  <2>1. N \in 1 .. N
    BY <1>1
  <2>2. CASE n # N
    <3>1. n < N
      BY <1>1, <2>2
    <3>2. l[n].ended < l[N].ended
      BY <1>1, <2>1, <3>1 DEF Sorted
    <3> QED BY <1>3, <2>1, <3>2
  <2> QED BY <1>3, <2>1, <2>2
<1>7. ASSUME N # 0 PROVE NewestIn(table, job) # {}
  <2>1. PICK b, q : /\ q \in DOMAIN table /\ table[q].job = job /\ table[q].ended = l[N].ended
    BY <1>5, <1>7
  <2>2. \A p \in DOMAIN table : table[p].job = job => table[p].ended <= table[q].ended
    BY <1>4, <1>6, <2>1
  <2>3. q \in NewestIn(table, job)
    BY <2>1, <2>2 DEF NewestIn
  <2> QED BY <2>3
<1>8. ASSUME NEW r \in NewestIn(table, job)
      PROVE  /\ N # 0
             /\ \E b : IsBurst(l, b, N) /\ b \in DOMAIN l /\ table[r] = BurstRow(l, b, N)
  <2>1. /\ r \in DOMAIN table /\ table[r].job = job
        /\ \A q \in DOMAIN table : table[q].job = job => table[q].ended <= table[r].ended
    BY DEF NewestIn
  <2>2. PICK k, n \in 1 .. N : IsBurst(l, k, n) /\ table[r] = BurstRow(l, k, n)
                               /\ table[r].ended = l[n].ended
    BY <1>4, <2>1
  <2>3. N # 0
    BY <1>1, <2>2
  <2>4. PICK b, q : q \in DOMAIN table /\ table[q].job = job /\ table[q].ended = l[N].ended
    BY <1>5, <2>3
  <2>5. l[N].ended <= l[n].ended
    BY <2>1, <2>2, <2>4
  <2>6. n = N
    <3>1. l[n].ended \in Int /\ l[N].ended \in Int
      BY <1>1, <1>3, <2>3
    <3> QED BY <1>6, <2>5, <3>1
  <2> QED BY <1>1, <2>2, <2>3, <2>6
<1> QED BY <1>1, <1>7, <1>8

\* A turn that goes on with the last of a burst goes on with the burst.
LEMMA ContinuesLast ==
  ASSUME NEW l \in Seq(History!Turn), NEW b \in DOMAIN l, NEW N \in DOMAIN l, N = Len(l),
         IsBurst(l, b, N), NEW t \in History!Turn
  PROVE  History!Continues(t, BurstRow(l, b, N)) <=> History!Continues(t, l[N])
<1>1. BurstRow(l, b, N).outcome = l[b].outcome /\ BurstRow(l, b, N).ended = l[N].ended
  BY DEF BurstRow
<1>2. l[b].outcome = l[N].outcome
  <2>1. CASE b = N
    BY <2>1
  <2>2. CASE b # N
    <3>1. b \in 1 .. N /\ N \in Nat /\ b + 1 \in b + 1 .. N /\ N \in b + 1 .. N
      BY <2>2
    <3>2. Joined(l, b + 1) /\ Joined(l, N)
      BY <3>1 DEF IsBurst
    <3>3. (b + 1) - 1 = b
      BY <3>1
    <3>4. l[b].outcome = "released" /\ l[N].outcome = "released"
      BY <3>2, <3>3 DEF Joined, History!Continues
    <3> QED BY <3>4
  <2> QED BY <2>1, <2>2
<1> QED BY <1>1, <1>2 DEF History!Continues

\* The newest row is added to.
LEMMA NewestMerged ==
  ASSUME NEW table \in Seq(HistoryRow), NEW list \in Seq(History!Turn), BurstRows(table, list),
         NEW t \in History!Turn, Sorted(list), \A k \in DOMAIN list : list[k].ended < t.ended,
         NEW r \in NewestIn(table, t.job), History!Continues(t, table[r]),
         NEW row, row = History!Merged(table[r], t),
         NEW after, DOMAIN after = DOMAIN table, after[r] = row,
         \A q \in DOMAIN table : q # r => after[q] = table[q],
         NEW long, Grown(long, list, t)
  PROVE  BurstRows(after, long)
<1>1. PICK l, N : l = Mine(list, t.job) /\ N = Len(l)
  OBVIOUS
<1>2. l \in Seq(History!Turn)
  BY <1>1, MineIsSorted
<1>3. /\ N \in Nat \ {0} /\ N \in DOMAIN l /\ N # 0
      /\ \E b : IsBurst(l, b, N) /\ b \in DOMAIN l /\ table[r] = BurstRow(l, b, N)
  BY <1>1, NewestIsLast, TurnIsRow
<1>4. PICK b : IsBurst(l, b, N) /\ b \in DOMAIN l /\ table[r] = BurstRow(l, b, N)
  BY <1>3
<1>5. History!Continues(t, l[N])
  BY <1>1, <1>2, <1>3, <1>4, ContinuesLast
<1>6. r \in DOMAIN table
  BY DEF NewestIn
<1>7. /\ l = Mine(list, t.job) /\ N = Len(l) /\ N # 0 /\ IsBurst(l, b, N)
      /\ table[r] = BurstRow(l, b, N)
  BY <1>1, <1>3, <1>4
<1> QED BY <1>5, <1>6, <1>7, RowMerged, ZenonT(60)

\* record
LEMMA RecordKeepsRows ==
  ASSUME NEW table, NEW list, RowsRight(table, list), NEW t \in History!Turn,
         NEW newest, newest = NewestIn(table, t.job), NEW after, NEW long, long = Append(list, t),
         \/ newest = {} /\ after = Append(table, History!Row(t))
         \/ \E r \in newest :
              after = IF History!Continues(t, table[r])
                      THEN [table EXCEPT ![r] = History!Merged(@, t)]
                       ELSE Append(table, History!Row(t))
  PROVE  RowsRight(after, long)
<1>1. /\ table \in Seq(HistoryRow) /\ list \in Seq(History!Turn) /\ Apart(table, list)
      /\ History!InOrder(list) => Sorted(list) /\ BurstRows(table, list)
      /\ t.job \in HistoryJob
  BY TurnIsRow DEF RowsRight
<1>2. long \in Seq(History!Turn) /\ Grown(long, list, t)
  BY <1>1, AppendGrows
<1>3. ASSUME after = Append(table, History!Row(t))
      PROVE  after \in Seq(HistoryRow) /\ Grown(after, table, History!Row(t)) /\ Apart(after, long)
  <2>1. History!Row(t) \in HistoryRow
    BY TurnIsRow
  <2>2. after \in Seq(HistoryRow) /\ Grown(after, table, History!Row(t))
    BY <1>1, <1>3, <2>1, AppendGrows
  <2>3. Apart(Append(table, History!Row(t)), Append(list, t))
    BY <1>1, ApartWithRow
  <2> QED BY <1>3, <2>2, <2>3
<1>4. ASSUME NEW r \in newest, History!Continues(t, table[r]),
             after = [table EXCEPT ![r] = History!Merged(@, t)]
      PROVE  after \in Seq(HistoryRow) /\ Apart(after, long)
  <2>1. r \in DOMAIN table
    BY DEF NewestIn
  <2>2. /\ [table EXCEPT ![r] = History!Merged(@, t)] \in Seq(HistoryRow)
        /\ Apart([table EXCEPT ![r] = History!Merged(@, t)], Append(list, t))
    BY <1>1, <1>4, <2>1, ApartWithin
  <2> QED BY <1>4, <2>2
<1>5. after \in Seq(HistoryRow) /\ Apart(after, long)
  BY <1>3, <1>4
<1>6. ASSUME History!InOrder(long) PROVE Sorted(long) /\ BurstRows(after, long)
  <2>1. /\ Sorted(long) /\ Sorted(list) /\ BurstRows(table, list)
        /\ \A k \in DOMAIN list : list[k].ended < t.ended
    BY <1>1, <1>2, <1>6, OrderGrows
  <2>2. PICK l, N : l = Mine(list, t.job) /\ N = Len(l)
    OBVIOUS
  <2>3. l \in Seq(History!Turn)
    BY <1>1, <2>1, <2>2, MineIsSorted
  <2>4. /\ newest = {} => N = 0
        /\ \A r \in newest :
              /\ N \in Nat \ {0} /\ N \in DOMAIN l
              /\ \E b : IsBurst(l, b, N) /\ b \in DOMAIN l /\ table[r] = BurstRow(l, b, N)
    BY <1>1, <2>1, <2>2, NewestIsLast, SMTT(60)
  <2>5. ASSUME after = Append(table, History!Row(t)), N = 0 \/ ~History!Continues(t, l[N])
        PROVE  BurstRows(after, long)
    <3>1. Grown(after, table, History!Row(t))
      BY <1>3, <2>5
    <3> QED BY <1>1, <1>2, <2>1, <2>2, <2>5, <3>1, RowAdded
  <2>6. ASSUME NEW r \in newest, after = [table EXCEPT ![r] = History!Merged(@, t)],
               History!Continues(t, table[r])
        PROVE  BurstRows(after, long)
    <3>1. r \in DOMAIN table
      BY DEF NewestIn
    <3>2. PICK row : row = History!Merged(table[r], t)
      OBVIOUS
    <3>3. /\ DOMAIN after = DOMAIN table /\ after[r] = row
          /\ \A q \in DOMAIN table : q # r => after[q] = table[q]
      BY <2>6, <3>1, <3>2
    <3>4. table \in Seq(HistoryRow) /\ list \in Seq(History!Turn) /\ Grown(long, list, t)
          /\ r \in NewestIn(table, t.job) /\ History!Continues(t, table[r])
      BY <1>1, <1>2, <2>6
    <3> QED BY <2>1, <3>2, <3>3, <3>4, NewestMerged
  <2>7. ASSUME newest = {}, after = Append(table, History!Row(t)) PROVE BurstRows(after, long)
    BY <2>4, <2>5, <2>7
  <2>8. ASSUME NEW r \in newest,
               after = IF History!Continues(t, table[r])
                      THEN [table EXCEPT ![r] = History!Merged(@, t)]
                       ELSE Append(table, History!Row(t))
        PROVE BurstRows(after, long)
    <3>1. PICK b : IsBurst(l, b, N) /\ b \in DOMAIN l /\ table[r] = BurstRow(l, b, N)
      BY <2>4
    <3>2. N \in Nat \ {0} /\ N \in DOMAIN l
      BY <2>4
    <3>3. CASE History!Continues(t, table[r])
      <4>1. after = [table EXCEPT ![r] = History!Merged(@, t)]
        BY <2>8, <3>3
      <4> QED BY <2>6, <3>3, <4>1, Zenon
    <3>4. CASE ~History!Continues(t, table[r])
      <4>1. ~History!Continues(t, l[N])
        BY <2>2, <2>3, <3>1, <3>2, <3>4, ContinuesLast
      <4>2. after = Append(table, History!Row(t))
        BY <2>8, <3>4
      <4> QED BY <2>5, <4>1, <4>2, Zenon
    <3> QED BY <3>3, <3>4
  <2>9. BurstRows(after, long)
    BY <2>7, <2>8
  <2> QED BY <2>1, <2>9
<1> QED BY <1>2, <1>5, <1>6 DEF RowsRight

\* The invariant of the history holds of every behaviour of the workbench.
LEMMA RowsAlwaysRight == WorkbenchSpec => []RowsRight(rows, written)
<1>1. WorkbenchInit => RowsRight(rows, written)
  <2>1. History!Init => RowsRight(rows, written)
    <3> SUFFICES ASSUME History!Init PROVE RowsRight(rows, written)
      OBVIOUS
    <3>1. rows = << >> /\ written = << >>
           /\ rows \in Seq(HistoryRow) /\ written \in Seq(History!Turn)
          /\ DOMAIN rows = {} /\ DOMAIN written = {} /\ Len(written) = 0
      BY DEF History!Init
    <3>2. PlacesOf(rows) = {} /\ \A t : RowsLike(rows, t) = {} /\ TurnsLike(written, t) = {}
      BY <3>1 DEF PlacesOf, RowsLike, TurnsLike
    <3>3. Apart(rows, written)
      BY <3>1, <3>2, FS_EmptySet DEF Apart
    <3>4. Sorted(written)
      BY <3>1 DEF Sorted
    <3>5. ASSUME NEW job PROVE JobRows(rows, Mine(written, job), job)
      <4>1. PICK l : l = Mine(written, job)
        OBVIOUS
      <4>2. l \in Seq(History!Turn)
             /\ \A i \in DOMAIN l : \E k \in DOMAIN written : l[i] = written[k]
        BY <3>1, <3>4, <4>1, MineIsSorted
      <4>3. DOMAIN l = {} /\ DOMAIN l = 1 .. Len(l)
        BY <3>1, <4>2
      <4>4. \A k, n : ~IsBurst(l, k, n)
        BY <4>3 DEF IsBurst
      <4> QED BY <3>1, <4>1, <4>4 DEF JobRows
    <3> QED BY <3>1, <3>3, <3>4, <3>5 DEF RowsRight, BurstRows
  <2> QED BY <2>1 DEF WorkbenchInit
<1>2. RowsRight(rows, written) /\ [WorkbenchNext]_workbench => RowsRight(rows, written)'
  <2>1. ASSUME NEW t \in History!Turn, RowsRight(rows, written), History!Record(t)
        PROVE  RowsRight(rows, written)'
    <3>1. History!Newest(t.job) = NewestIn(rows, t.job)
      BY DEF History!Newest, NewestIn
    <3>2. \A table, list, after, long : RowsRight(table, list) /\ after = rows' /\ long = written'
                             /\ table = rows /\ list = written => RowsRight(after, long)
      BY <2>1, <3>1, RecordKeepsRows, ZenonT(60) DEF History!Record
    <3> QED BY <2>1, <3>2
  <2>2. RowsRight(rows, written) /\ UNCHANGED history => RowsRight(rows, written)'
    BY DEF history
  <2> QED BY <2>1, <2>2 DEF WorkbenchNext, workbench, History!Next
<1> QED BY <1>1, <1>2, PTL DEF WorkbenchSpec

\* The Picked that the history uses is the one of Lists.
LEMMA HistoryPicked == \A s, I : History!Picked(s, I) = Picked(s, I)
<1>1. ASSUME NEW I, NEW j PROVE History!Nth(I, j) = Nth(I, j)
  <2>1. \A k : (History!Cardinality({i \in I : i <= k}) = j) = (Cardinality({i \in I : i <= k}) = j)
    BY HistoryCounted
  <2> QED BY <2>1, Zenon DEF History!Nth, Nth
<1>2. ASSUME NEW s, NEW I PROVE History!Picked(s, I) = Picked(s, I)
  BY <1>1, HistoryCounted, Zenon DEF History!Picked, Picked
<1> QED BY <1>2

\* No turn is lost, and one that failed has a row of its own, with its own instants, that
\* no later turn of the burst is added to, in whatever order two settles write their turns
\* and whichever of two rows that ended together is taken for the newest (record).
THEOREM FailuresAlwaysStandOut == WorkbenchSpec => []FailuresStandOut
<1>1. RowsRight(rows, written) => FailuresStandOut
  <2> SUFFICES ASSUME RowsRight(rows, written) PROVE FailuresStandOut
    OBVIOUS
  <2>1. written \in Seq(History!Turn) /\ Apart(rows, written)
    BY DEF RowsRight
  <2>2. History!TurnsOf(rows) = Len(written)
    <3>1. History!TurnsOf(rows) = History!Cardinality(PlacesOf(rows))
      BY Zenon DEF History!TurnsOf, PlacesOf
    <3> QED BY <2>1, <3>1, HistoryCounted DEF Apart
  <2>3. ASSUME NEW t \in History!ToSet(written), t.outcome # "released"
        PROVE  History!Cardinality({r \in DOMAIN rows : rows[r] = History!Row(t)})
                 = History!Cardinality({k \in DOMAIN written : written[k] = t})
    <3>1. t \in History!Turn
      BY <2>1 DEF History!ToSet
    <3>2. Cardinality(RowsLike(rows, t)) = Cardinality(TurnsLike(written, t))
      BY <2>1, <2>3, <3>1 DEF Apart, Failed
    <3>3. /\ History!Cardinality(RowsLike(rows, t)) = Cardinality(RowsLike(rows, t))
          /\ History!Cardinality(TurnsLike(written, t)) = Cardinality(TurnsLike(written, t))
      BY HistoryCounted
    <3> QED BY <3>2, <3>3, Zenon DEF RowsLike, TurnsLike
  <2> QED BY <2>2, <2>3 DEF FailuresStandOut, History!FailuresStandOut
<1> QED BY <1>1, RowsAlwaysRight, PTL

\* Turns that are written as they end, those of two jobs in any mixture, leave one row for
\* each burst of each job: when it began, when it ended and how many turns it had (record).
THEOREM BurstsAlwaysRows == WorkbenchSpec => []BurstsAreRows
<1>1. RowsRight(rows, written) => BurstsAreRows
  <2> SUFFICES ASSUME RowsRight(rows, written), History!InOrder(written), NEW job \in HistoryJob
               PROVE  {row \in History!ToSet(rows) : row.job = job}
                        = History!Bursts(History!Picked(written,
                                            {k \in DOMAIN written : written[k].job = job}))
    BY DEF BurstsAreRows, History!BurstsAreRows
  <2>1. PICK l : l = Mine(written, job)
    OBVIOUS
  <2>2. written \in Seq(History!Turn) /\ Sorted(written) /\ JobRows(rows, l, job)
    BY <2>1 DEF RowsRight, BurstRows
  <2>3. l \in Seq(History!Turn)
    BY <2>1, <2>2, MineIsSorted
  <2>4. \A row : row \in History!Bursts(l) <=> \E k, n : IsBurst(l, k, n) /\ row = BurstRow(l, k, n)
    BY <2>3, BurstsAre
  <2>5. \A row : row \in {w \in History!ToSet(rows) : w.job = job}
                   <=> \E r \in DOMAIN rows : rows[r] = row /\ row.job = job
    BY DEF History!ToSet
  <2>6. {row \in History!ToSet(rows) : row.job = job} = History!Bursts(l)
    BY <2>2, <2>4, <2>5 DEF JobRows
  <2>7. History!Picked(written, {k \in DOMAIN written : written[k].job = job}) = l
    BY <2>1, HistoryPicked DEF Mine
  <2> QED BY <2>6, <2>7
<1> QED BY <1>1, RowsAlwaysRight, PTL

-----------------------------------------------------------------------------
(* The chunks of a file. *)

\* What is cut from each place on: the piece that is there, and what is cut after it.
CutUp(f, from, to, end, c) ==
  f = [s \in from .. to |-> IF s = to THEN << >> ELSE c[s] \o f[end[s]]]

\* A stretch can be cut from any of its places on.
LEMMA CutExists ==
  ASSUME NEW from \in Int, NEW to \in Int, from <= to, NEW end, NEW c,
         \A s \in from .. to - 1 : end[s] \in s + 1 .. to
  PROVE  \E f : CutUp(f, from, to, end, c)
<1> DEFINE Cut(f, n) == f = [s \in to - n .. to |-> IF s = to THEN << >> ELSE c[s] \o f[end[s]]]
           T == {n \in 0 .. to - from : \E f : Cut(f, n)}
<1>1. 0 \in T
  <2>1. PICK f : f = [s \in to .. to |-> << >>]
    OBVIOUS
  <2>2. Cut(f, 0)
    BY <2>1
  <2>3. 0 \in 0 .. to - from
    OBVIOUS
  <2> HIDE DEF Cut
  <2> QED BY <2>2, <2>3
<1>2. ASSUME NEW n \in 0 .. to - from - 1, n \in T PROVE n + 1 \in T
  <2>1. PICK f : Cut(f, n)
    BY <1>2
  <2>2. PICK a : a = to - (n + 1)
    OBVIOUS
  <2>3. /\ a \in Int /\ a # to /\ a \in from .. to - 1 /\ to - n = a + 1
        /\ n + 1 \in 0 .. to - from
    BY <2>2
  <2>4. PICK g : g = [s \in a .. to |-> IF s = a THEN c[s] \o f[end[s]] ELSE f[s]]
    OBVIOUS
  <2>5. ASSUME NEW s \in a .. to
        PROVE  g[s] = IF s = to THEN << >> ELSE c[s] \o g[end[s]]
    <3>1. CASE s = a
      <4>1. end[a] \in a + 1 .. to
        BY <2>3
      <4>2. g[end[a]] = f[end[a]]
        BY <2>3, <2>4, <4>1
      <4> QED BY <2>3, <2>4, <3>1, <4>2
    <3>2. CASE s # a
      <4>1. s \in a + 1 .. to
        BY <2>3, <3>2
      <4>2. f[s] = IF s = to THEN << >> ELSE c[s] \o f[end[s]]
        BY <2>1, <2>3, <4>1
      <4>3. s # to => end[s] \in s + 1 .. to
        BY <2>3, <4>1
      <4>4. s # to => end[s] \in a .. to /\ end[s] # a
        BY <2>3, <4>1, <4>3
      <4>5. s # to => g[end[s]] = f[end[s]]
        BY <2>4, <4>4
      <4>6. g[s] = f[s]
        BY <2>4, <3>2
      <4> QED BY <4>2, <4>5, <4>6
    <3> QED BY <3>1, <3>2
  <2>6. Cut(g, n + 1)
    <3>1. g = [s \in a .. to |-> g[s]]
      BY <2>4
    <3>2. g = [s \in a .. to |-> IF s = to THEN << >> ELSE c[s] \o g[end[s]]]
      BY <2>5, <3>1
    <3> QED BY <2>2, <3>2
  <2> HIDE DEF Cut
  <2> QED BY <2>3, <2>6
<1>3. to - from \in T
  <2> HIDE DEF T
  <2>1. to - from \in Nat /\ to - from \in 0 .. to - from
    OBVIOUS
  <2>2. 0 .. to - from \subseteq T
    BY <1>1, <1>2, <2>1, Counting
  <2> QED BY <2>1, <2>2
<1>4. PICK f : Cut(f, to - from)
  BY <1>3
<1>5. to - (to - from) = from
  OBVIOUS
<1>6. f = [s \in from .. to |-> IF s = to THEN << >> ELSE c[s] \o f[end[s]]]
  BY <1>4, <1>5
<1> QED BY <1>6 DEF CutUp

\* Lists can be put one after another, up to any of them.
LEMMA FlatExists ==
  ASSUME NEW N \in Nat, NEW seqs
  PROVE  \E f : f = [i \in 1 .. N |-> IF i = 1 THEN seqs[i] ELSE f[i - 1] \o seqs[i]]
<1> DEFINE Flat(f, n) == f = [i \in 1 .. n |-> IF i = 1 THEN seqs[i] ELSE f[i - 1] \o seqs[i]]
           T == {n \in 0 .. N : \E f : Flat(f, n)}
<1>1. 0 \in T
  <2>1. PICK f : f = [i \in 1 .. 0 |-> << >>]
    OBVIOUS
  <2>2. Flat(f, 0)
    BY <2>1
  <2>3. 0 \in 0 .. N
    OBVIOUS
  <2> HIDE DEF Flat
  <2> QED BY <2>2, <2>3
<1>2. ASSUME NEW n \in 0 .. N - 1, n \in T PROVE n + 1 \in T
  <2>1. PICK f : Flat(f, n)
    BY <1>2
  <2>2. n \in Nat /\ n + 1 \in 0 .. N
    OBVIOUS
  <2>4. PICK g : g = [i \in 1 .. n + 1 |->
                        IF i <= n THEN f[i] ELSE IF i = 1 THEN seqs[i] ELSE f[i - 1] \o seqs[i]]
    OBVIOUS
  <2>5. ASSUME NEW i \in 1 .. n + 1
        PROVE  g[i] = IF i = 1 THEN seqs[i] ELSE g[i - 1] \o seqs[i]
    <3>1. i # 1 => i - 1 \in 1 .. n + 1 /\ i - 1 <= n /\ g[i - 1] = f[i - 1]
      BY <2>2, <2>4
    <3>2. CASE i <= n
      <4>1. i \in 1 .. n
        BY <2>2, <3>2
      <4>2. f[i] = IF i = 1 THEN seqs[i] ELSE f[i - 1] \o seqs[i]
        BY <2>1, <4>1
      <4> QED BY <2>4, <3>1, <3>2, <4>2
    <3>3. CASE ~(i <= n)
      BY <2>4, <3>1, <3>3
    <3> QED BY <3>2, <3>3
  <2>6. Flat(g, n + 1)
    <3>1. g = [i \in 1 .. n + 1 |-> g[i]]
      BY <2>4
    <3> QED BY <2>5, <3>1
  <2> HIDE DEF Flat
  <2> QED BY <2>2, <2>6
<1>3. N \in T
  <2> HIDE DEF T
  <2>1. 0 .. N \subseteq T
    BY <1>1, <1>2, Counting
  <2> QED BY <2>1
<1> QED BY <1>3

\* A chunk, and one that is neither too large nor tiny.
ChunkType == [line_start : Int, line_end : Int]
Proper(lines, c) ==
  /\ c.line_end - c.line_start + 1 \in 1 .. MAX_FUNCTION_LINES
  /\ c.line_end - c.line_start + 1 < MIN_CHUNK_LINES =>
       c.line_start = 1 \/ lines[c.line_start] = "fn"

\* Where the first k of some chunks end.
Until(s, from, k) == IF k = 0 THEN from ELSE s[k].line_end

\* Chunks that fit and follow each other from one line to another.
Tiles(lines, s, from, to) ==
  /\ s \in Seq(ChunkType) /\ Until(s, from, Len(s)) = to
  /\ \A k \in 1 .. Len(s) : s[k].line_start = Until(s, from, k - 1) + 1 /\ Proper(lines, s[k])

\* No chunk is needed where there is no line.
LEMMA NoTiles == ASSUME NEW lines, NEW x PROVE Tiles(lines, << >>, x, x)
BY DEF Tiles, Until

\* One chunk tiles its own lines.
LEMMA OneTile ==
  ASSUME NEW lines, NEW from \in Int, NEW to \in Int, Proper(lines, Cutting!Chunk(from, to))
  PROVE  Tiles(lines, <<Cutting!Chunk(from, to)>>, from, to)
<1>1. PICK c : c = Cutting!Chunk(from, to)
  OBVIOUS
<1>2. c \in ChunkType /\ c.line_start = from + 1 /\ c.line_end = to
  BY <1>1 DEF ChunkType, Cutting!Chunk
<1>3. /\ <<c>> \in Seq(ChunkType) /\ Len(<<c>>) = 1 /\ <<c>>[1] = c
  BY <1>2
<1>4. \A k \in 1 .. 1 : k = 1 /\ k - 1 = 0
  OBVIOUS
<1>5. Tiles(lines, <<c>>, from, to)
  BY <1>1, <1>2, <1>3, <1>4 DEF Tiles, Until
<1> QED BY <1>1, <1>5

\* What is tiled up to a line and from it on is tiled.
LEMMA TilesJoin ==
  ASSUME NEW lines, NEW x, NEW y, NEW z, NEW a, NEW b, Tiles(lines, a, x, y), Tiles(lines, b, y, z)
  PROVE  Tiles(lines, a \o b, x, z)
<1>1. PICK s : s = a \o b
  OBVIOUS
<1>2. /\ s \in Seq(ChunkType) /\ Len(s) = Len(a) + Len(b) /\ Len(a) \in Nat /\ Len(b) \in Nat
      /\ \A k \in 1 .. Len(a) : s[k] = a[k]
      /\ \A k \in 1 .. Len(b) : s[Len(a) + k] = b[k]
  <2>1. a \in Seq(ChunkType) /\ b \in Seq(ChunkType)
    BY DEF Tiles
  <2>2. \A e \in Seq(ChunkType) :
          /\ a \o e \in Seq(ChunkType) /\ Len(a \o e) = Len(a) + Len(e)
          /\ \A k \in 1 .. Len(a) : (a \o e)[k] = a[k]
          /\ \A k \in 1 .. Len(e) : (a \o e)[Len(a) + k] = e[k]
    BY <2>1
  <2> QED BY <1>1, <2>1, <2>2
<1>3. PICK m, n : m = Len(a) /\ n = Len(b)
  OBVIOUS
<1>4. \A k \in 0 .. m : Until(s, x, k) = Until(a, x, k)
  <2>1. \A k \in 0 .. m : k = 0 \/ k \in 1 .. m
    BY <1>2, <1>3
  <2> QED BY <1>2, <1>3, <2>1 DEF Until
<1>5. Until(a, x, m) = y /\ Until(b, y, n) = z
  BY <1>3 DEF Tiles
<1>6. \A k \in 0 .. n : Until(s, x, m + k) = Until(b, y, k)
  <2>1. \A k \in 0 .. n : IF k = 0 THEN m + k = m /\ m \in 0 .. m ELSE k \in 1 .. n /\ m + k # 0
    BY <1>2, <1>3
  <2> SUFFICES ASSUME NEW k \in 0 .. n PROVE Until(s, x, m + k) = Until(b, y, k)
    OBVIOUS
  <2>2. CASE k = 0
    <3>1. Until(b, y, k) = y
      BY <2>2 DEF Until
    <3>2. Until(s, x, m + k) = Until(a, x, m)
      BY <1>4, <2>1, <2>2
    <3> QED BY <1>5, <3>1, <3>2
  <2>3. CASE k # 0
    BY <1>2, <1>3, <2>1, <2>3 DEF Until
  <2> QED BY <2>2, <2>3
<1>7. ASSUME NEW k \in 1 .. m + n
      PROVE s[k].line_start = Until(s, x, k - 1) + 1 /\ Proper(lines, s[k])
  <2>1. CASE k \in 1 .. m
    <3>1. k - 1 \in 0 .. m
      BY <1>2, <1>3, <2>1
    <3>2. s[k] = a[k] /\ Until(s, x, k - 1) = Until(a, x, k - 1)
      BY <1>2, <1>3, <1>4, <2>1, <3>1
    <3>3. a[k].line_start = Until(a, x, k - 1) + 1 /\ Proper(lines, a[k])
      BY <1>3, <2>1 DEF Tiles
    <3> QED BY <3>2, <3>3
  <2>2. CASE k \notin 1 .. m
    <3>1. PICK j : j = k - m
      OBVIOUS
    <3>2. j \in 1 .. n /\ j - 1 \in 0 .. n /\ k = m + j /\ k - 1 = m + (j - 1)
      BY <1>2, <1>3, <2>2, <3>1
    <3>3. s[k] = b[j] /\ Until(s, x, k - 1) = Until(b, y, j - 1)
      BY <1>2, <1>3, <1>6, <3>2
    <3>4. b[j].line_start = Until(b, y, j - 1) + 1 /\ Proper(lines, b[j])
      BY <1>3, <3>2 DEF Tiles
    <3> QED BY <3>3, <3>4
  <2> QED BY <2>1, <2>2
<1>8. Until(s, x, m + n) = z
  BY <1>2, <1>3, <1>5, <1>6
<1>9. Tiles(lines, s, x, z)
  BY <1>2, <1>3, <1>7, <1>8 DEF Tiles
<1> QED BY <1>1, <1>9

\* Cut at places that come round to themselves, a stretch is tiled.
LEMMA PiecesTile ==
  ASSUME NEW lines, NEW from \in Int, NEW to \in Int, from <= to, NEW end,
         \A s \in from .. to - 1 : end[s] \in s + 1 .. to,
         NEW G, from \in G,
         \A s \in from .. to - 1 : s \in G => end[s] \in G
                                 /\ Proper(lines, Cutting!Chunk(s, end[s]))
  PROVE  Tiles(lines, Cutting!Pieces(end, from, to), from, to)
<1>1. PICK cut :
        /\ cut = CHOOSE f : f = [start \in from .. to |->
                   IF start = to THEN << >>
                    ELSE <<Cutting!Chunk(start, end[start])>> \o f[end[start]]]
        /\ Cutting!Pieces(end, from, to) = cut[from]
  BY Zenon DEF Cutting!Pieces
<1>2. \E f : f = [start \in from .. to |->
                IF start = to THEN << >> ELSE <<Cutting!Chunk(start, end[start])>> \o f[end[start]]]
  <2>1. PICK c : c = [s \in from .. to |-> <<Cutting!Chunk(s, end[s])>>]
    OBVIOUS
  <2>2. PICK f : CutUp(f, from, to, end, c)
    BY CutExists
  <2>3. \A s \in from .. to : (IF s = to THEN << >> ELSE c[s] \o f[end[s]])
                  = IF s = to THEN << >> ELSE <<Cutting!Chunk(s, end[s])>> \o f[end[s]]
    <3>1. \A s \in from .. to : c[s] = <<Cutting!Chunk(s, end[s])>>
      BY <2>1
    <3> QED BY <3>1, Zenon
  <2>4. f = [s \in from .. to |-> IF s = to THEN << >>
                                    ELSE <<Cutting!Chunk(s, end[s])>> \o f[end[s]]]
    BY <2>2, <2>3, Zenon DEF CutUp
  <2> QED BY <2>4
<1>3. cut = [start \in from .. to |->
        IF start = to THEN << >> ELSE <<Cutting!Chunk(start, end[start])>> \o cut[end[start]]]
  BY <1>1, <1>2, Zenon
<1> DEFINE T == {n \in 0 .. to - from :
                   \A s \in from .. to : s \in G /\ to - s <= n => Tiles(lines, cut[s], s, to)}
<1>4. cut[to] = << >>
  <2>1. to \in from .. to
    OBVIOUS
  <2> QED BY <1>3, <2>1, Zenon
<1>5. 0 \in T
  <2>1. ASSUME NEW s \in from .. to, to - s <= 0 PROVE Tiles(lines, cut[s], s, to)
    <3>1. s = to
      BY <2>1
    <3> QED BY <1>4, <3>1, NoTiles
  <2> QED BY <2>1
<1>6. ASSUME NEW n \in 0 .. to - from - 1, n \in T PROVE n + 1 \in T
  <2>1. ASSUME NEW s \in from .. to, s \in G, to - s <= n + 1 PROVE Tiles(lines, cut[s], s, to)
    <3>1. CASE s = to
      BY <1>4, <3>1, NoTiles
    <3>2. CASE s # to
      <4>1. s \in from .. to - 1 /\ s \in Int
        BY <3>2
      <4>2. PICK e : e = end[s]
        OBVIOUS
      <4>3. e \in s + 1 .. to /\ e \in G /\ Proper(lines, Cutting!Chunk(s, e))
        BY <2>1, <4>1, <4>2
      <4>4. e \in from .. to /\ to - e <= n /\ e \in Int
        BY <2>1, <4>1, <4>3
      <4>5. Tiles(lines, cut[e], e, to)
        BY <1>6, <4>3, <4>4
      <4>6. Tiles(lines, <<Cutting!Chunk(s, e)>>, s, e)
        BY <4>1, <4>3, <4>4, OneTile
      <4>7. cut[s] = <<Cutting!Chunk(s, e)>> \o cut[e]
        BY <1>3, <3>2, <4>2, Zenon
      <4>8. Tiles(lines, <<Cutting!Chunk(s, e)>> \o cut[e], s, to)
        BY <4>5, <4>6, TilesJoin
      <4> QED BY <4>7, <4>8
    <3> QED BY <3>1, <3>2
  <2>2. n + 1 \in 0 .. to - from
    OBVIOUS
  <2> QED BY <2>1, <2>2
<1>7. to - from \in T
  <2> HIDE DEF T
  <2>1. to - from \in Nat /\ to - from \in 0 .. to - from
    OBVIOUS
  <2>2. 0 .. to - from \subseteq T
    BY <1>5, <1>6, <2>1, Counting
  <2> QED BY <2>1, <2>2
<1>8. Tiles(lines, cut[from], from, to)
  BY <1>7
<1> QED BY <1>1, <1>8

\* Parts that are as large as they may be, and leave no tiny rest.
LEMMA PiecesFit ==
  ASSUME NEW lines, NEW from \in Nat, NEW to \in Nat, from < to, from = 0 \/ lines[from + 1] = "fn",
         NEW end,
         \A s \in from .. to - 1 :
           /\ end[s] \in s + 1 .. to /\ end[s] - s <= MAX_FUNCTION_LINES
           /\ end[s] - s >= MIN_CHUNK_LINES \/ end[s] = to
           /\ end[s] = to \/ to - end[s] >= MIN_CHUNK_LINES
  PROVE  Tiles(lines, Cutting!Pieces(end, from, to), from, to)
<1>1. MIN_CHUNK_LINES \in Nat /\ MAX_FUNCTION_LINES \in Nat
  BY WorkbenchAssumption
<1>2. PICK G : G = {s \in from .. to : s = from \/ s = to \/ to - s >= MIN_CHUNK_LINES}
  OBVIOUS
<1>3. from \in G
  BY <1>2
<1>4. ASSUME NEW s \in from .. to - 1, s \in G
      PROVE  end[s] \in G /\ Proper(lines, Cutting!Chunk(s, end[s]))
  <2>1. PICK e : e = end[s]
    OBVIOUS
  <2>2. /\ s \in Int /\ e \in s + 1 .. to /\ e - s <= MAX_FUNCTION_LINES
        /\ e - s >= MIN_CHUNK_LINES \/ e = to
        /\ e = to \/ to - e >= MIN_CHUNK_LINES
        /\ s = from \/ to - s >= MIN_CHUNK_LINES
    BY <1>2, <1>4, <2>1
  <2>3. e \in G
    BY <1>2, <2>2
  <2>4. PICK c : c = Cutting!Chunk(s, e)
    OBVIOUS
  <2>5. c.line_start = s + 1 /\ c.line_end = e /\ c.line_end - c.line_start + 1 = e - s
    <3>1. c.line_start = s + 1 /\ c.line_end = e
      BY <2>4 DEF Cutting!Chunk
    <3>2. e - (s + 1) + 1 = e - s
      BY <2>2
    <3> QED BY <3>1, <3>2
  <2>6. e - s \in 1 .. MAX_FUNCTION_LINES
    BY <1>1, <2>2
  <2>7. e - s < MIN_CHUNK_LINES => s = from
    BY <1>1, <2>2
  <2>8. Proper(lines, c)
    BY <2>5, <2>6, <2>7 DEF Proper
  <2> QED BY <2>1, <2>3, <2>4, <2>8
<1>5. \A s \in from .. to - 1 : end[s] \in s + 1 .. to
  OBVIOUS
<1>6. from \in Int /\ to \in Int /\ from <= to
  OBVIOUS
<1> QED BY <1>3, <1>4, <1>5, <1>6, PiecesTile

\* Lists of chunks, one after another.
LEMMA FlatTiles ==
  ASSUME NEW lines, NEW seqs, NEW K \in Nat \ {0}, Len(seqs) = K, NEW at,
         \A k \in 1 .. K : Tiles(lines, seqs[k], at[k], at[k + 1])
  PROVE  Tiles(lines, Cutting!FlattenSeq(seqs), at[1], at[K + 1])
<1>1. PICK flat :
        /\ flat = CHOOSE f : f = [i \in 1 .. K |-> IF i = 1 THEN seqs[i] ELSE f[i - 1] \o seqs[i]]
        /\ Cutting!FlattenSeq(seqs) = flat[K]
  <2>1. Cutting!FlattenSeq(seqs) = IF Len(seqs) = 0 THEN seqs ELSE
          (CHOOSE f : f = [i \in 1 .. Len(seqs) |->
             IF i = 1 THEN seqs[i] ELSE f[i - 1] \o seqs[i]])[Len(seqs)]
    BY Zenon DEF Cutting!FlattenSeq
  <2> QED BY <2>1, Zenon
<1>2. \E f : f = [i \in 1 .. K |-> IF i = 1 THEN seqs[i] ELSE f[i - 1] \o seqs[i]]
  BY FlatExists
<1>3. flat = [i \in 1 .. K |-> IF i = 1 THEN seqs[i] ELSE flat[i - 1] \o seqs[i]]
  BY <1>1, <1>2, Zenon
<1> DEFINE T == {n \in 0 .. K : n # 0 => Tiles(lines, flat[n], at[1], at[n + 1])}
<1>4. 0 \in T
  OBVIOUS
<1>5. ASSUME NEW n \in 0 .. K - 1, n \in T PROVE n + 1 \in T
  <2>1. PICK m : m = n + 1
    OBVIOUS
  <2>2. m \in 1 .. K /\ m \in 0 .. K /\ m - 1 = n /\ (n = 0 <=> m = 1)
    BY <2>1
  <2>3. Tiles(lines, seqs[m], at[m], at[m + 1])
    BY <2>2
  <2>4. flat[m] = IF m = 1 THEN seqs[m] ELSE flat[n] \o seqs[m]
    BY <1>3, <2>2
  <2>5. CASE n = 0
    BY <2>1, <2>2, <2>3, <2>4, <2>5
  <2>6. CASE n # 0
    <3>1. Tiles(lines, flat[n], at[1], at[m])
      BY <1>5, <2>1, <2>6
    <3>2. Tiles(lines, flat[n] \o seqs[m], at[1], at[m + 1])
      BY <2>3, <3>1, TilesJoin
    <3>3. flat[m] = flat[n] \o seqs[m]
      BY <2>2, <2>4, <2>6
    <3>4. Tiles(lines, flat[m], at[1], at[m + 1])
      BY <3>2, <3>3
    <3> QED BY <2>1, <2>2, <3>4
  <2> QED BY <2>5, <2>6
<1>6. K \in T
  <2> HIDE DEF T
  <2>1. 0 .. K \subseteq T
    BY <1>4, <1>5, Counting
  <2> QED BY <2>1
<1> QED BY <1>1, <1>6

\* The Cardinality and the Picked that the chunker uses.
LEMMA CuttingCounted == \A I : Cutting!Cardinality(I) = Cardinality(I)
  BY Zenon DEF Cutting!Cardinality, Cardinality

LEMMA CuttingPicked == \A s, I : Cutting!Picked(s, I) = Picked(s, I)
<1>1. ASSUME NEW I, NEW j PROVE Cutting!Nth(I, j) = Nth(I, j)
  <2>1. \A k : (Cutting!Cardinality({i \in I : i <= k}) = j) = (Cardinality({i \in I : i <= k}) = j)
    BY CuttingCounted
  <2> QED BY <2>1, Zenon DEF Cutting!Nth, Nth
<1>2. ASSUME NEW s, NEW I PROVE Cutting!Picked(s, I) = Picked(s, I)
  BY <1>1, CuttingCounted, Zenon DEF Cutting!Picked, Picked
<1> QED BY <1>2

\* The least of two numbers.
LEMMA LeastOfTwo ==
  ASSUME NEW x \in Int, NEW y \in Int
  PROVE  Cutting!Min({x, y}) = IF x <= y THEN x ELSE y
<1>1. PICK m : m = IF x <= y THEN x ELSE y
  OBVIOUS
<1>2. m \in {x, y} /\ \A z \in {x, y} : m <= z
  BY <1>1
<1>3. PICK n : n = Cutting!Min({x, y})
  OBVIOUS
<1>4. n \in {x, y} /\ \A z \in {x, y} : n <= z
  BY <1>2, <1>3, Zenon DEF Cutting!Min
<1> QED BY <1>1, <1>3, <1>4

\* What the sizes are to each other.
LEMMA Sizes ==
  /\ CHUNK_LINES \in Nat /\ MIN_CHUNK_LINES \in Nat \ {0} /\ MAX_FUNCTION_LINES \in Nat
  /\ MAX_CHUNK_FOR_FUNCTIONS \in Nat /\ BlankWindow \in Nat
  /\ MIN_CHUNK_LINES <= CHUNK_LINES - BlankWindow
  /\ MIN_CHUNK_LINES <= MAX_CHUNK_FOR_FUNCTIONS
  /\ CHUNK_LINES + BlankWindow + MIN_CHUNK_LINES - 1 <= MAX_FUNCTION_LINES
  /\ MAX_CHUNK_FOR_FUNCTIONS + MIN_CHUNK_LINES - 1 <= MAX_FUNCTION_LINES
BY WorkbenchAssumption

\* chunk_by_lines
LEMMA LinesTile ==
  ASSUME NEW lines, NEW to \in Nat \ {0}
  PROVE  Tiles(lines, Cutting!ChunkByLines(lines, 0, to), 0, to)
<1> DEFINE blanks(start) ==
             {i \in start + CHUNK_LINES - BlankWindow ..
                      Cutting!Min({start + CHUNK_LINES + BlankWindow, to}) - 1
                           : lines[i + 1] = "blank"}
           target(start) == Cutting!Min({start + CHUNK_LINES, to})
           break(start) == IF target(start) < to /\ blanks(start) # {}
                            THEN Cutting!Max(blanks(start)) + 1
                           ELSE target(start)
<1>1. PICK end : end = [start \in 0 .. to |->
                          IF to - break(start) < MIN_CHUNK_LINES THEN to ELSE break(start)]
  OBVIOUS
<1>2. Cutting!ChunkByLines(lines, 0, to) = Cutting!Pieces(end, 0, to)
  BY <1>1, Zenon DEF Cutting!ChunkByLines
<1>3. ASSUME NEW s \in 0 .. to - 1
      PROVE  /\ end[s] \in s + 1 .. to /\ end[s] - s <= MAX_FUNCTION_LINES
             /\ end[s] - s >= MIN_CHUNK_LINES \/ end[s] = to
             /\ end[s] = to \/ to - end[s] >= MIN_CHUNK_LINES
  <2>1. PICK b : b = break(s)
    OBVIOUS
  <2>2. s \in Nat /\ s < to /\ s \in 0 .. to
    OBVIOUS
  <2>3. target(s) = IF s + CHUNK_LINES <= to THEN s + CHUNK_LINES ELSE to
    BY <2>2, Sizes, LeastOfTwo
  <2>4. PICK w : w = Cutting!Min({s + CHUNK_LINES + BlankWindow, to})
    OBVIOUS
  <2>5. w \in Int /\ w <= to /\ w <= s + CHUNK_LINES + BlankWindow
    BY <2>2, <2>4, Sizes, LeastOfTwo
  <2>6. ASSUME blanks(s) # {}
        PROVE  /\ Cutting!Max(blanks(s)) + 1 \in s + CHUNK_LINES - BlankWindow + 1 .. to
               /\ Cutting!Max(blanks(s)) + 1 <= s + CHUNK_LINES + BlankWindow
    <3>1. PICK lo, hi : lo = s + CHUNK_LINES - BlankWindow /\ hi = w - 1
      OBVIOUS
    <3>2. lo \in Int /\ hi \in Int
      BY <2>2, <2>5, <3>1, Sizes
    <3>3. PICK B : B = blanks(s)
      OBVIOUS
    <3>4. B \subseteq lo .. hi
      BY <2>4, <3>1, <3>3
    <3>5. IsFiniteSet(B)
      <4>1. IsFiniteSet(lo .. hi)
        BY <3>2, FS_Interval
      <4> QED BY <3>4, <4>1, FS_Subset
    <3>6. B \in SUBSET Int /\ B # {}
      <4>1. B # {}
        BY <2>6, <3>3, Zenon
      <4>2. \A x \in lo .. hi : x \in Int
        BY <3>2
      <4> QED BY <3>4, <4>1, <4>2, Zenon
    <3>7. \E x \in B : \A y \in B : x >= y
      BY <3>5, <3>6, LargestOne
    <3>8. Cutting!Max(B) \in B
      BY <3>7, Zenon DEF Cutting!Max
    <3>9. Cutting!Max(B) \in lo .. hi
      BY <3>4, <3>8
    <3> QED BY <2>2, <2>5, <3>1, <3>3, <3>9, Sizes
  <2>7. \/ b \in s + CHUNK_LINES - BlankWindow + 1 .. to /\ b <= s + CHUNK_LINES + BlankWindow
        \/ b = s + CHUNK_LINES /\ b <= to
        \/ b = to /\ to <= s + CHUNK_LINES
    <3>1. CASE target(s) < to /\ blanks(s) # {}
      BY <2>1, <2>6, <3>1
    <3>2. CASE ~(target(s) < to /\ blanks(s) # {})
      <4>1. b = target(s)
        BY <2>1, <3>2
      <4> HIDE DEF target
      <4> QED BY <2>2, <2>3, <4>1, Sizes
    <3> QED BY <3>1, <3>2
  <2>8. end[s] = IF to - b < MIN_CHUNK_LINES THEN to ELSE b
    <3> HIDE DEF break
    <3> QED BY <1>1, <2>1, <2>2
  <2> HIDE DEF break, target, blanks
  <2>9. /\ b \in Int /\ b <= to /\ b <= s + CHUNK_LINES + BlankWindow
        /\ b >= s + MIN_CHUNK_LINES \/ b = to
    BY <2>2, <2>7, Sizes
  <2>10. CASE to - b < MIN_CHUNK_LINES
    <3>1. end[s] = to
      BY <2>8, <2>10
    <3>2. to - s <= MAX_FUNCTION_LINES
      BY <2>2, <2>9, <2>10, Sizes
    <3> QED BY <2>2, <3>1, <3>2
  <2>11. CASE ~(to - b < MIN_CHUNK_LINES)
    <3>1. end[s] = b
      BY <2>8, <2>11
    <3>2. b # to /\ to - b >= MIN_CHUNK_LINES
      BY <2>2, <2>9, <2>11, Sizes
    <3>3. b - s >= MIN_CHUNK_LINES /\ b - s <= MAX_FUNCTION_LINES /\ b \in s + 1 .. to
      BY <2>2, <2>9, <3>2, Sizes
    <3> QED BY <3>1, <3>2, <3>3
  <2> QED BY <2>10, <2>11
<1>4. 0 \in Nat /\ to \in Nat /\ 0 < to
  OBVIOUS
<1> HIDE DEF break, target, blanks
<1>5. Tiles(lines, Cutting!Pieces(end, 0, to), 0, to)
  BY <1>3, <1>4, PiecesFit
<1> QED BY <1>2, <1>5

\* push_segment
LEMMA SegmentTiles ==
  ASSUME NEW lines, NEW to \in Nat \ {0}
  PROVE  Tiles(lines, Cutting!Segment(lines, 0, to), 0, to)
<1>1. CASE to <= MAX_FUNCTION_LINES
  <2>1. Cutting!Segment(lines, 0, to) = <<Cutting!Chunk(0, to)>>
    <3>1. to - 0 <= MAX_FUNCTION_LINES
      BY <1>1
    <3> QED BY <3>1, Zenon DEF Cutting!Segment
  <2>2. Proper(lines, Cutting!Chunk(0, to))
    <3>1. PICK c : c = Cutting!Chunk(0, to)
      OBVIOUS
    <3>2. c.line_start = 1 /\ c.line_end = to
      BY <3>1 DEF Cutting!Chunk
    <3> QED BY <1>1, <3>1, <3>2, Sizes DEF Proper
  <2>3. 0 \in Int /\ to \in Int
    OBVIOUS
  <2> QED BY <2>1, <2>2, <2>3, OneTile
<1>2. CASE ~(to <= MAX_FUNCTION_LINES)
  <2>1. ~(to - 0 <= MAX_FUNCTION_LINES)
    BY <1>2
  <2>2. Cutting!Segment(lines, 0, to) = Cutting!ChunkByLines(lines, 0, to)
    BY <2>1, Zenon DEF Cutting!Segment
  <2> QED BY <2>2, LinesTile
<1> QED BY <1>1, <1>2

\* A function, whole or in parts.
LEMMA FunctionTiles ==
  ASSUME NEW lines, NEW from \in Nat, NEW to \in Nat, from < to, lines[from + 1] = "fn"
  PROVE  Tiles(lines, Cutting!FunctionChunks(from, to), from, to)
<1> DEFINE sub(start) == Cutting!Min({start + MAX_CHUNK_FOR_FUNCTIONS, to})
<1>1. PICK end : end = [start \in from .. to |->
                          IF to - sub(start) \in 1 .. MIN_CHUNK_LINES - 1 THEN to ELSE sub(start)]
  OBVIOUS
<1>2. Cutting!FunctionChunks(from, to) =
        IF to - from <= MAX_FUNCTION_LINES THEN <<Cutting!Chunk(from, to)>>
        ELSE Cutting!Pieces(end, from, to)
  BY <1>1, Zenon DEF Cutting!FunctionChunks
<1>3. CASE to - from <= MAX_FUNCTION_LINES
  <2>1. PICK c : c = Cutting!Chunk(from, to)
    OBVIOUS
  <2>2. c.line_start = from + 1 /\ c.line_end = to
    BY <2>1 DEF Cutting!Chunk
  <2>3. c.line_end - c.line_start + 1 \in 1 .. MAX_FUNCTION_LINES
    BY <1>3, <2>2, Sizes
  <2>4. Proper(lines, c)
    BY <2>2, <2>3 DEF Proper
  <2>5. from \in Int /\ to \in Int
    OBVIOUS
  <2> QED BY <1>2, <1>3, <2>1, <2>4, <2>5, OneTile
<1>4. CASE ~(to - from <= MAX_FUNCTION_LINES)
  <2>1. ASSUME NEW s \in from .. to - 1
        PROVE  /\ end[s] \in s + 1 .. to /\ end[s] - s <= MAX_FUNCTION_LINES
               /\ end[s] - s >= MIN_CHUNK_LINES \/ end[s] = to
               /\ end[s] = to \/ to - end[s] >= MIN_CHUNK_LINES
    <3>1. PICK b : b = sub(s)
      OBVIOUS
    <3>2. s \in Nat /\ s < to /\ s \in from .. to
      OBVIOUS
    <3>3. b = IF s + MAX_CHUNK_FOR_FUNCTIONS <= to THEN s + MAX_CHUNK_FOR_FUNCTIONS ELSE to
      BY <3>1, <3>2, Sizes, LeastOfTwo
    <3> HIDE DEF sub
    <3>4. end[s] = IF to - b \in 1 .. MIN_CHUNK_LINES - 1 THEN to ELSE b
      BY <1>1, <3>1, <3>2
    <3>5. b \in Int /\ b <= to /\ b <= s + MAX_CHUNK_FOR_FUNCTIONS
          /\ (b = s + MAX_CHUNK_FOR_FUNCTIONS \/ b = to)
      BY <3>2, <3>3, Sizes
    <3>6. CASE to - b \in 1 .. MIN_CHUNK_LINES - 1
      <4>1. end[s] = to
        BY <3>4, <3>6
      <4>2. to - s <= MAX_FUNCTION_LINES
        BY <3>2, <3>5, <3>6, Sizes
      <4> QED BY <3>2, <4>1, <4>2
    <3>7. CASE to - b \notin 1 .. MIN_CHUNK_LINES - 1
      <4>1. end[s] = b
        BY <3>4, <3>7
      <4>2. b = to \/ to - b >= MIN_CHUNK_LINES
        BY <3>2, <3>5, <3>7, Sizes
      <4>3. b - s <= MAX_FUNCTION_LINES /\ b \in s + 1 .. to
        BY <3>2, <3>5, Sizes
      <4>4. b - s >= MIN_CHUNK_LINES \/ b = to
        BY <3>2, <3>5, Sizes
      <4> QED BY <4>1, <4>2, <4>3, <4>4
    <3> QED BY <3>6, <3>7
  <2> HIDE DEF sub
  <2>2. Tiles(lines, Cutting!Pieces(end, from, to), from, to)
    BY <2>1, PiecesFit
  <2> QED BY <1>2, <1>4, <2>2
<1> QED BY <1>3, <1>4

\* Where the functions begin, in order.
StartsOf(lines) ==
  Cutting!Picked([i \in DOMAIN lines |-> i - 1], {i \in DOMAIN lines : lines[i] = "fn"})

\* The lines where functions start, in the order of the file.
LEMMA StartsInOrder ==
  ASSUME NEW lines \in Seq(Cutting!Line), NEW st, st = StartsOf(lines)
  PROVE  /\ st \in Seq(Int)
         /\ \A k \in 1 .. Len(st) : st[k] \in 0 .. Len(lines) - 1 /\ lines[st[k] + 1] = "fn"
         /\ \A j, k \in 1 .. Len(st) : j < k => st[j] < st[k]
<1>a. PICK s, I, n : /\ s = [i \in DOMAIN lines |-> i - 1]
                     /\ I = {i \in DOMAIN lines : lines[i] = "fn"} /\ n = Len(lines)
  OBVIOUS
<1>1. st = Picked(s, I)
  BY <1>a, CuttingPicked DEF StartsOf
<1>2. n \in Nat /\ DOMAIN lines = 1 .. n
  BY <1>a
<1>3. s \in Seq(Int) /\ DOMAIN s = 1 .. n /\ \A i \in 1 .. n : s[i] = i - 1
  <2>1. s = [i \in 1 .. n |-> i - 1]
    BY <1>a, <1>2
  <2> QED BY <1>2, <2>1
<1>4. I \in SUBSET DOMAIN s
  BY <1>2, <1>3, <1>a
<1>5. PICK q : q = Picked(s, I)
  OBVIOUS
<1>6. /\ q \in Seq(Int)
      /\ \A j \in DOMAIN q : Nth(I, j) \in I /\ q[j] = s[Nth(I, j)]
      /\ \A i, j \in DOMAIN q : i < j => Nth(I, i) < Nth(I, j)
  <2>1. /\ Picked(s, I) \in Seq(Int)
        /\ \A j \in DOMAIN Picked(s, I) : Nth(I, j) \in I /\ Picked(s, I)[j] = s[Nth(I, j)]
        /\ \A i, j \in DOMAIN Picked(s, I) : i < j => Nth(I, i) < Nth(I, j)
    BY <1>3, <1>4, PickedList, ZenonT(60)
  <2> QED BY <1>5, <2>1
<1>7. DOMAIN q = 1 .. Len(q)
  BY <1>6
<1>8. ASSUME NEW j \in 1 .. Len(q)
      PROVE  q[j] = Nth(I, j) - 1 /\ Nth(I, j) \in 1 .. n /\ lines[Nth(I, j)] = "fn"
  <2>1. Nth(I, j) \in I /\ q[j] = s[Nth(I, j)]
    BY <1>6, <1>7
  <2>2. Nth(I, j) \in 1 .. n /\ lines[Nth(I, j)] = "fn"
    BY <1>2, <1>a, <2>1
  <2> QED BY <1>3, <2>1, <2>2
<1>9. ASSUME NEW j \in 1 .. Len(q)
      PROVE  q[j] \in 0 .. n - 1 /\ lines[q[j] + 1] = "fn"
  <2>1. PICK x : x = Nth(I, j)
    OBVIOUS
  <2>2. q[j] = x - 1 /\ x \in 1 .. n /\ lines[x] = "fn"
    BY <1>8, <2>1
  <2>3. (x - 1) + 1 = x /\ x - 1 \in 0 .. n - 1
    BY <1>2, <2>2
  <2> QED BY <2>2, <2>3
<1>10. ASSUME NEW i \in 1 .. Len(q), NEW j \in 1 .. Len(q), i < j PROVE q[i] < q[j]
  <2>1. PICK x, y : x = Nth(I, i) /\ y = Nth(I, j)
    OBVIOUS
  <2>2. q[i] = x - 1 /\ x \in 1 .. n /\ q[j] = y - 1 /\ y \in 1 .. n
    BY <1>8, <2>1
  <2>3. x < y
    BY <1>6, <1>7, <1>10, <2>1
  <2> QED BY <1>2, <2>2, <2>3
<1> QED BY <1>1, <1>5, <1>6, <1>9, <1>10, <1>a

\* The lines that are not blank are counted by a number, from none.
LEMMA NonEmptyCounts ==
  ASSUME NEW lines, NEW to \in Nat
  PROVE  /\ Cutting!NonEmpty(lines, 0, to) \in Nat
         /\ Cutting!NonEmpty(lines, 0, 0) = 0
<1>1. \A x \in Nat : Cutting!NonEmpty(lines, 0, x)
                            = Cardinality({i \in 0 .. x - 1 : lines[i + 1] # "blank"})
  BY CuttingCounted DEF Cutting!NonEmpty
<1>2. {i \in 0 .. 0 - 1 : lines[i + 1] # "blank"} = {}
  OBVIOUS
<1>3. PICK S : S = {i \in 0 .. to - 1 : lines[i + 1] # "blank"}
  OBVIOUS
<1>4. IsFiniteSet(0 .. to - 1) /\ S \subseteq 0 .. to - 1
  <2>1. 0 \in Int /\ to - 1 \in Int
    OBVIOUS
  <2> QED BY <1>3, <2>1, FS_Interval
<1>5. Cardinality(S) \in Nat
  BY <1>4, FS_Subset, FS_CardinalityType
<1> QED BY <1>1, <1>2, <1>3, <1>5, FS_EmptySet

\* chunk_by_functions, when there are some.
LEMMA FunctionsTile ==
  ASSUME NEW lines \in Seq(Cutting!Line), Cutting!ChunkByFunctions(lines) # << >>
  PROVE  \E x \in 0 .. Len(lines) : /\ Tiles(lines, Cutting!ChunkByFunctions(lines), x, Len(lines))
                                    /\ Cutting!NonEmpty(lines, 0, x) < 3
<1>1. PICK st, N, K :
        /\ st = StartsOf(lines) /\ N = Len(lines) /\ K = Len(st)
  OBVIOUS
<1>2. /\ st \in Seq(Int) /\ K \in Nat /\ N \in Nat
      /\ \A k \in 1 .. K : st[k] \in 0 .. N - 1 /\ lines[st[k] + 1] = "fn"
      /\ \A j, k \in 1 .. K : j < k => st[j] < st[k]
  <2>1. /\ st \in Seq(Int)
        /\ \A k \in 1 .. Len(st) : st[k] \in 0 .. Len(lines) - 1 /\ lines[st[k] + 1] = "fn"
        /\ \A j, k \in 1 .. Len(st) : j < k => st[j] < st[k]
    BY <1>1, StartsInOrder
  <2>2. Len(st) \in Nat /\ Len(lines) \in Nat
    BY <2>1
  <2> QED BY <1>1, <2>1, <2>2
<1> DEFINE next(k) == IF k < Len(st) THEN st[k + 1] ELSE Len(lines)
<1>3. PICK seqs : seqs = [k \in 1 .. Len(st) |-> Cutting!FunctionChunks(st[k], next(k))]
  OBVIOUS
<1>4. PICK head : head = IF Cutting!NonEmpty(lines, 0, st[1]) >= 3
                      THEN Cutting!Segment(lines, 0, st[1])
                         ELSE << >>
  OBVIOUS
<1>5. Cutting!ChunkByFunctions(lines) =
        IF st = << >> THEN << >> ELSE head \o Cutting!FlattenSeq(seqs)
  BY <1>1, <1>3, <1>4, Zenon DEF Cutting!ChunkByFunctions, StartsOf
<1>6. st # << >> /\ K # 0
  <2>1. st # << >>
    BY <1>5
  <2> QED BY <1>1, <1>2, <2>1
<1>7. PICK at : at = [k \in 1 .. K + 1 |-> IF k <= K THEN st[k] ELSE N]
  OBVIOUS
<1>8. /\ at[1] = st[1] /\ at[K + 1] = N /\ K \in Nat \ {0}
      /\ st[1] \in 0 .. N - 1 /\ 1 \in 1 .. K
  BY <1>2, <1>6, <1>7
<1>9. ASSUME NEW k \in 1 .. K PROVE Tiles(lines, seqs[k], at[k], at[k + 1])
  <2>1. at[k] = st[k] /\ at[k + 1] = IF k < K THEN st[k + 1] ELSE N
    BY <1>2, <1>7
  <2>2. PICK from, to : from = at[k] /\ to = at[k + 1]
    OBVIOUS
  <2>3. from \in Nat /\ to \in Nat /\ from < to /\ lines[from + 1] = "fn"
    <3>1. CASE k < K
      <4>1. k + 1 \in 1 .. K /\ k < k + 1
        BY <1>2, <3>1
      <4>2. st[k] < st[k + 1] /\ st[k] \in 0 .. N - 1 /\ st[k + 1] \in 0 .. N - 1
        BY <1>2, <4>1
      <4> QED BY <1>2, <2>1, <2>2, <3>1, <4>2
    <3>2. CASE ~(k < K)
      <4>1. st[k] \in 0 .. N - 1
        BY <1>2
      <4> QED BY <1>2, <2>1, <2>2, <3>2, <4>1
    <3> QED BY <3>1, <3>2
  <2>4. seqs[k] = Cutting!FunctionChunks(from, to)
    <3>1. next(k) = to
      BY <1>1, <2>1, <2>2
    <3> HIDE DEF next
    <3> QED BY <1>1, <1>3, <2>1, <2>2, <3>1
  <2> QED BY <2>2, <2>3, <2>4, FunctionTiles
<1> HIDE DEF next
<1>10. Len(seqs) = K
  BY <1>1, <1>2, <1>3
<1>11. Tiles(lines, Cutting!FlattenSeq(seqs), st[1], N)
  <2>1. Tiles(lines, Cutting!FlattenSeq(seqs), at[1], at[K + 1])
    BY <1>8, <1>9, <1>10, FlatTiles
  <2> QED BY <1>8, <2>1
<1>12. CASE Cutting!NonEmpty(lines, 0, st[1]) >= 3
  <2>1. st[1] \in Nat \ {0}
    BY <1>8, <1>12, NonEmptyCounts
  <2>2. Tiles(lines, head, 0, st[1])
    BY <1>4, <1>12, <2>1, SegmentTiles
  <2>3. Tiles(lines, head \o Cutting!FlattenSeq(seqs), 0, N)
    BY <1>11, <2>2, TilesJoin
  <2>4. 0 \in 0 .. N /\ Cutting!NonEmpty(lines, 0, 0) < 3
    BY <1>2, NonEmptyCounts
  <2> QED BY <1>1, <1>5, <1>6, <2>3, <2>4
<1>13. CASE ~(Cutting!NonEmpty(lines, 0, st[1]) >= 3)
  <2>1. head = << >>
    BY <1>4, <1>13
  <2>2. Tiles(lines, head, st[1], st[1])
    BY <2>1, NoTiles
  <2>3. Tiles(lines, head \o Cutting!FlattenSeq(seqs), st[1], N)
    BY <1>11, <2>2, TilesJoin
  <2>4. st[1] \in 0 .. N /\ Cutting!NonEmpty(lines, 0, st[1]) < 3
    <3>1. Cutting!NonEmpty(lines, 0, st[1]) \in Nat
      BY <1>8, NonEmptyCounts
    <3> QED BY <1>2, <1>8, <1>13, <3>1
  <2> QED BY <1>1, <1>5, <1>6, <2>3, <2>4
<1> QED BY <1>12, <1>13

\* chunk_file
LEMMA FileTiles ==
  ASSUME NEW lines \in Seq(Cutting!Line), lines # << >>, NEW supported
  PROVE  \E x \in 0 .. Len(lines) : /\ Tiles(lines, Cutting!ChunkFile(lines, supported), x,
                                                                      Len(lines))
                                    /\ Cutting!NonEmpty(lines, 0, x) < 3
                                    /\ Cutting!ChunkFile(lines, supported) # << >>
<1>1. PICK N : N = Len(lines)
  OBVIOUS
<1>2. N \in Nat \ {0} /\ 0 \in 0 .. N /\ Cutting!NonEmpty(lines, 0, 0) < 3
  <2>1. N \in Nat \ {0}
    BY <1>1
  <2> QED BY <2>1, NonEmptyCounts
<1>3. PICK functions : functions = IF supported THEN Cutting!ChunkByFunctions(lines) ELSE << >>
  OBVIOUS
<1>4. Cutting!ChunkFile(lines, supported) =
        IF N \in 1 .. MIN_CHUNK_LINES - 1 THEN <<Cutting!Chunk(0, N)>>
        ELSE IF functions # << >> THEN functions ELSE Cutting!ChunkByLines(lines, 0, N)
  BY <1>1, <1>3 DEF Cutting!ChunkFile
<1>5. CASE N \in 1 .. MIN_CHUNK_LINES - 1
  <2>1. PICK c : c = Cutting!Chunk(0, N)
    OBVIOUS
  <2>2. c.line_start = 1 /\ c.line_end = N
    BY <2>1 DEF Cutting!Chunk
  <2>3. N <= MAX_FUNCTION_LINES
    BY <1>2, <1>5, Sizes
  <2>4. Proper(lines, c)
    BY <1>2, <2>2, <2>3, Sizes DEF Proper
  <2>5. Tiles(lines, <<c>>, 0, N)
    <3>1. 0 \in Int /\ N \in Int
      BY <1>2
    <3> QED BY <2>1, <2>4, <3>1, OneTile
  <2>6. Cutting!ChunkFile(lines, supported) = <<c>> /\ <<c>> # << >>
    BY <1>4, <1>5, <2>1
  <2> QED BY <1>1, <1>2, <2>5, <2>6
<1>6. CASE N \notin 1 .. MIN_CHUNK_LINES - 1 /\ functions # << >>
  <2>1. functions = Cutting!ChunkByFunctions(lines)
       /\ Cutting!ChunkFile(lines, supported) = functions
    BY <1>3, <1>4, <1>6
  <2>2. \E x \in 0 .. Len(lines) : /\ Tiles(lines, Cutting!ChunkByFunctions(lines), x, Len(lines))
                                    /\ Cutting!NonEmpty(lines, 0, x) < 3
    BY <1>6, <2>1, FunctionsTile
  <2> QED BY <1>6, <2>1, <2>2
<1>7. CASE N \notin 1 .. MIN_CHUNK_LINES - 1 /\ functions = << >>
  <2>1. PICK s : s = Cutting!ChunkByLines(lines, 0, N)
    OBVIOUS
  <2>2. Tiles(lines, s, 0, N)
    BY <1>2, <2>1, LinesTile
  <2>3. s # << >>
    <3>1. ASSUME s = << >> PROVE FALSE
      <4>1. Len(s) = 0
        BY <3>1
      <4> QED BY <1>2, <2>2, <4>1 DEF Tiles, Until
    <3> QED BY <3>1
  <2>4. Cutting!ChunkFile(lines, supported) = s
    BY <1>4, <1>7, <2>1
  <2> QED BY <1>1, <1>2, <2>2, <2>3, <2>4
<1> QED BY <1>5, <1>6, <1>7

\* The chunks of a file follow each other to its last line, with nothing before the first
\* but a preamble of fewer than three lines that say something; none is larger than a
\* function may be, and none is tiny but where a function or the file begins: for every
\* text, cut at its functions or at its blank lines (chunk_file and all it calls).
THEOREM ChunksAlwaysTile == WorkbenchSpec => []ChunksTile
<1> DEFINE Cuttable == text \in Seq(Cutting!Line)
<1>1. WorkbenchInit => Cuttable
  <2>1. Cutting!SmallFile \subseteq Seq(Cutting!Line)
    BY WorkbenchAssumption DEF Cutting!SmallFile, Cutting!BoundedSeq, Cutting!SeqOf
  <2>2. << >> \in Seq(Cutting!Line)
    OBVIOUS
  <2>3. WorkbenchInit => text \in Cutting!SmallFile \/ text = << >>
    BY DEF WorkbenchInit, Cutting!Init
  <2> QED BY <2>1, <2>2, <2>3
<1>2. Cuttable /\ [WorkbenchNext]_workbench => Cuttable'
  BY DEF WorkbenchNext, workbench, cutting
<1>3. Cuttable => ChunksTile
  <2> SUFFICES ASSUME Cuttable PROVE ChunksTile
    OBVIOUS
  <2>1. PICK lines, chunks, N : lines = text /\ chunks = Cutting!ChunkFile(text, known)
            /\ N = Len(chunks)
    OBVIOUS
  <2> SUFFICES ASSUME lines # << >>
               PROVE  /\ chunks # << >> /\ Cutting!Last(chunks).line_end = Len(lines)
                      /\ \A k \in 2 .. N : chunks[k].line_start = chunks[k - 1].line_end + 1
                      /\ Cutting!NonEmpty(lines, 0, Head(chunks).line_start - 1) < 3
                      /\ \A c \in Cutting!ToSet(chunks) : Proper(lines, c)
    BY <2>1, Zenon DEF ChunksTile, Cutting!ChunksTile, Proper
  <2>2. PICK x \in 0 .. Len(lines) : /\ Tiles(lines, chunks, x, Len(lines))
                                    /\ Cutting!NonEmpty(lines, 0, x) < 3 /\ chunks # << >>
    <3>1. lines \in Seq(Cutting!Line)
      BY <2>1
    <3> QED BY <2>1, <3>1, FileTiles
  <2>3. /\ chunks \in Seq(ChunkType) /\ N \in Nat \ {0} /\ DOMAIN chunks = 1 .. N
        /\ Cutting!Last(chunks) = chunks[N] /\ Head(chunks) = chunks[1]
    <3>1. chunks \in Seq(ChunkType) /\ chunks # << >>
      BY <2>2 DEF Tiles
    <3> QED BY <2>1, <3>1 DEF Cutting!Last
  <2>4. chunks[N].line_end = Len(lines)
    BY <2>1, <2>2, <2>3 DEF Tiles, Until
  <2>5. ASSUME NEW k \in 2 .. N PROVE chunks[k].line_start = chunks[k - 1].line_end + 1
    <3>1. k \in 1 .. N /\ k - 1 # 0
      BY <2>3
    <3> QED BY <2>1, <2>2, <3>1 DEF Tiles, Until
  <2>6. Head(chunks).line_start - 1 = x
    <3>1. 1 \in 1 .. N /\ 1 - 1 = 0
      BY <2>3
    <3>2. chunks[1].line_start = Until(chunks, x, 1 - 1) + 1
      BY <2>1, <2>2, <3>1 DEF Tiles
    <3>3. Until(chunks, x, 1 - 1) = x
      BY <3>1 DEF Until
    <3> QED BY <2>3, <3>2, <3>3
  <2>7. \A c \in Cutting!ToSet(chunks) : Proper(lines, c)
    BY <2>1, <2>2, <2>3 DEF Tiles, Cutting!ToSet
  <2> QED BY <2>2, <2>3, <2>4, <2>5, <2>6, <2>7
<1> QED BY <1>1, <1>2, <1>3, PTL DEF WorkbenchSpec
=============================================================================
