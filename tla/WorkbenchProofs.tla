-------------------------- MODULE WorkbenchProofs --------------------------
(***************************************************************************)
(* Proofs about the smaller components, each within the workbench, for all *)
(* values of their constants: a step of the workbench is one of the        *)
(* component, or leaves it alone.  The history and the chunks of a file    *)
(* are in WorkbenchListProofs.                                             *)
(***************************************************************************)
EXTENDS Workbench, Lists, TLAPS, FiniteSetTheorems

-----------------------------------------------------------------------------
(* Numbers and lists. *)

\* A set of naturals has a least element.
LEMMA NatMin ==
  ASSUME NEW T \in SUBSET Nat, T # {}
  PROVE  \E m \in T : \A k \in T : m <= k
<1> DEFINE R == {ss \in Nat \X Nat : ss[1] < ss[2]}
<1>1. IsWellFoundedOn(R, Nat)
  BY NatLessThanWellFounded DEF OpToRel
<1>2. \E x \in T : \A y \in T : <<y, x>> \notin R
  <2> HIDE DEF R
  <2> QED BY <1>1, WFMin
<1>3. \A x, y \in Nat : y < x => <<y, x>> \in R
  OBVIOUS
<1> HIDE DEF R
<1>4. PICK m \in T : \A y \in T : <<y, m>> \notin R
  BY <1>2
<1>5. ASSUME NEW k \in T PROVE m <= k
  <2>1. <<k, m>> \notin R
    BY <1>4
  <2>2. k \in Nat /\ m \in Nat
    OBVIOUS
  <2>3. ~(k < m)
    BY <2>1, <2>2, <1>3
  <2> QED BY <2>2, <2>3
<1> QED BY <1>5

\* What holds of 0 and of the next number with each holds of all.
LEMMA Counting ==
  ASSUME NEW n \in Nat, NEW T, 0 \in T, \A k \in 0 .. n - 1 : k \in T => k + 1 \in T
  PROVE  0 .. n \subseteq T
<1> DEFINE U == {k \in 0 .. n : k \notin T}
<1>1. SUFFICES ASSUME U # {} PROVE FALSE
  OBVIOUS
<1>2. PICK m \in U : \A k \in U : m <= k
  <2>1. U \in SUBSET Nat
    OBVIOUS
  <2> HIDE DEF U
  <2> QED BY <1>1, <2>1, NatMin
<1>3. m - 1 \in 0 .. n - 1 /\ m - 1 \notin U
  BY <1>2
<1>4. m - 1 \in T
  BY <1>3
<1> QED BY <1>2, <1>3, <1>4

\* A finite set of numbers has a largest one.
LEMMA LargestOne ==
  ASSUME NEW S \in SUBSET Int, IsFiniteSet(S), S # {}
  PROVE  \E x \in S : \A y \in S : x >= y
<1> DEFINE above(x) == {y \in S : y > x}
           K == {Cardinality(above(x)) : x \in S}
<1>1. ASSUME NEW x \in S PROVE IsFiniteSet(above(x)) /\ Cardinality(above(x)) \in Nat
  <2>1. above(x) \in SUBSET S
    OBVIOUS
  <2> HIDE DEF above
  <2> QED BY <2>1, FS_Subset, FS_CardinalityType
<1>2. K \in SUBSET Nat /\ K # {}
  BY <1>1
<1>3. PICK c \in K : \A d \in K : c <= d
  <2> HIDE DEF K
  <2> QED BY <1>2, NatMin
<1>4. PICK x \in S : c = Cardinality(above(x))
  OBVIOUS
<1>5. ASSUME NEW y \in S, y > x PROVE FALSE
  <2>1. above(y) \in SUBSET above(x) /\ y \in above(x) /\ y \notin above(y)
    <3>1. x \in Int /\ y \in Int
      OBVIOUS
    <3>2. ASSUME NEW z \in S, z > y PROVE z > x
      <4>1. z \in Int
        OBVIOUS
      <4> QED BY <1>5, <3>1, <3>2, <4>1
    <3>3. above(y) \subseteq above(x)
      BY <3>2
    <3>4. y \in above(x) /\ y \notin above(y)
      BY <1>5, <3>1
    <3> QED BY <3>3, <3>4
  <2>2. Cardinality(above(y)) <= Cardinality(above(x))
        /\ Cardinality(above(x)) # Cardinality(above(y))
    <3> HIDE DEF above
    <3>1. IsFiniteSet(above(x))
      BY <1>1
    <3> QED BY <2>1, <3>1, FS_Subset
  <2>3. Cardinality(above(x)) <= Cardinality(above(y))
    BY <1>3, <1>4
  <2>4. Cardinality(above(x)) \in Nat /\ Cardinality(above(y)) \in Nat
    <3> HIDE DEF above
    <3> QED BY <1>1
  <2> HIDE DEF above
  <2> QED BY <2>2, <2>3, <2>4
<1> QED BY <1>5

\* The places of a set are counted through, in order.
LEMMA NthPlace ==
  ASSUME NEW n \in Nat, NEW I \in SUBSET (1 .. n)
  PROVE  /\ IsFiniteSet(I) /\ Cardinality(I) \in Nat
         /\ \A j \in 1 .. Cardinality(I) : Nth(I, j) \in I
         /\ \A k \in I : \E j \in 1 .. Cardinality(I) : Nth(I, j) = k
         /\ \A i, j \in 1 .. Cardinality(I) : i < j => Nth(I, i) < Nth(I, j)
         /\ \A k \in I, j \in 1 .. Cardinality(I) :
              Cardinality({i \in I : i <= k}) = j => Nth(I, j) = k
         /\ \A j \in 1 .. Cardinality(I) : Cardinality({i \in I : i <= Nth(I, j)}) = j
<1> DEFINE upto(k) == {i \in I : i <= k}
           rank == [k \in I |-> Cardinality(upto(k))]
           N == Cardinality(I)
<1>1. IsFiniteSet(I) /\ N \in Nat
  <2>1. IsFiniteSet(1 .. n)
    BY FS_Interval
  <2> QED BY <2>1, FS_Subset, FS_CardinalityType
<1>2. ASSUME NEW k \in I
      PROVE  IsFiniteSet(upto(k)) /\ Cardinality(upto(k)) \in 1 .. N
  <2>1. upto(k) \in SUBSET I /\ k \in upto(k)
    OBVIOUS
  <2> HIDE DEF upto
  <2>2. IsFiniteSet(upto(k)) /\ Cardinality(upto(k)) <= N /\ Cardinality(upto(k)) \in Nat
    BY <1>1, <2>1, FS_Subset, FS_CardinalityType
  <2>3. Cardinality(upto(k)) # 0
    BY <2>1, <2>2, FS_EmptySet
  <2> QED BY <1>1, <2>2, <2>3
<1>3. ASSUME NEW i \in I, NEW k \in I, i < k
      PROVE  Cardinality(upto(i)) < Cardinality(upto(k))
  <2>1. upto(i) \in SUBSET upto(k) /\ k \in upto(k) /\ k \notin upto(i)
    <3>1. i \in Int /\ k \in Int
      OBVIOUS
    <3>2. ASSUME NEW z \in I, z <= i PROVE z <= k
      <4>1. z \in Int
        OBVIOUS
      <4> QED BY <1>3, <3>1, <3>2, <4>1
    <3>3. upto(i) \subseteq upto(k)
      BY <3>2
    <3>4. k \in upto(k) /\ k \notin upto(i)
      BY <1>3, <3>1
    <3> QED BY <3>3, <3>4
  <2>2. IsFiniteSet(upto(k)) /\ Cardinality(upto(i)) \in Nat /\ Cardinality(upto(k)) \in Nat
    BY <1>1, <1>2
  <2> HIDE DEF upto
  <2> QED BY <2>1, <2>2, FS_Subset
<1>4. rank \in Injection(I, 1 .. N)
  <2>1. rank \in [I -> 1 .. N]
    BY <1>2
  <2>2. \A i, k \in I : rank[i] = rank[k] => i = k
    <3> SUFFICES ASSUME NEW i \in I, NEW k \in I, i # k PROVE rank[i] # rank[k]
      OBVIOUS
    <3>1. i < k \/ k < i
      OBVIOUS
    <3>2. Cardinality(upto(i)) \in Nat /\ Cardinality(upto(k)) \in Nat
      BY <1>1, <1>2
    <3> QED BY <1>3, <3>1, <3>2
  <2> HIDE DEF rank
  <2> QED BY <2>1, <2>2 DEF Injection, IsInjective
<1>5. rank \in Surjection(I, 1 .. N)
  <2> HIDE DEF rank
  <2>1. IsFiniteSet(1 .. N) /\ Cardinality(1 .. N) = N
    <3>1. 1 \in Int /\ N \in Int
      BY <1>1
    <3>2. Cardinality(1 .. N) = IF 1 > N THEN 0 ELSE N - 1 + 1
      <4> HIDE DEF N
      <4> QED BY <3>1, FS_Interval
    <3>3. IsFiniteSet(1 .. N)
      <4> HIDE DEF N
      <4> QED BY <3>1, FS_Interval
    <3> QED BY <1>1, <3>2, <3>3
  <2> HIDE DEF N
  <2>2. Cardinality(I) = Cardinality(1 .. N)
    BY <2>1 DEF N
  <2> QED BY <1>4, <2>1, <2>2, FS_Injection
<1>6. ASSUME NEW j \in 1 .. N
      PROVE  Nth(I, j) \in I /\ Cardinality(upto(Nth(I, j))) = j
  <2>1. \E k \in I : Cardinality(upto(k)) = j
    BY <1>5 DEF Surjection
  <2> QED BY <2>1 DEF Nth
<1>7. ASSUME NEW k \in I PROVE \E j \in 1 .. N : Nth(I, j) = k
  <2> DEFINE j == Cardinality(upto(k))
  <2>1. j \in 1 .. N
    BY <1>2
  <2>2. Nth(I, j) \in I /\ Cardinality(upto(Nth(I, j))) = j
    BY <1>6, <2>1
  <2>3. rank[k] = rank[Nth(I, j)]
    BY <2>2
  <2>4. k = Nth(I, j)
    <3> HIDE DEF rank, j
    <3> QED BY <1>4, <2>2, <2>3 DEF Injection, IsInjective
  <2> QED BY <2>1, <2>4
<1>8. ASSUME NEW i \in 1 .. N, NEW j \in 1 .. N, i < j PROVE Nth(I, i) < Nth(I, j)
  <2> DEFINE a == Nth(I, i)
             b == Nth(I, j)
  <2>1. a \in I /\ b \in I /\ Cardinality(upto(a)) = i /\ Cardinality(upto(b)) = j
    BY <1>6
  <2> HIDE DEF a, b
  <2>2. a # b /\ ~(b < a)
    <3> HIDE DEF upto
    <3> QED BY <1>1, <1>3, <1>8, <2>1
  <2>3. a \in Int /\ b \in Int
    BY <2>1
  <2>4. a < b
    BY <2>2, <2>3
  <2> QED BY <2>4 DEF a, b
<1>9. ASSUME NEW k \in I, NEW j \in 1 .. N, Cardinality(upto(k)) = j PROVE Nth(I, j) = k
  <2>1. Nth(I, j) \in I /\ Cardinality(upto(Nth(I, j))) = j
    BY <1>6
  <2>2. rank[k] = rank[Nth(I, j)]
    BY <1>9, <2>1
  <2> HIDE DEF rank
  <2> QED BY <1>4, <2>1, <2>2 DEF Injection, IsInjective
<1> QED BY <1>1, <1>6, <1>7, <1>8, <1>9

\* What is picked of a list.
LEMMA PickedList ==
  ASSUME NEW S, NEW s \in Seq(S), NEW I \in SUBSET DOMAIN s
  PROVE  /\ Picked(s, I) \in Seq(S) /\ Len(Picked(s, I)) = Cardinality(I)
         /\ Cardinality(I) \in Nat /\ DOMAIN Picked(s, I) = 1 .. Cardinality(I)
         /\ \A j \in DOMAIN Picked(s, I) : Nth(I, j) \in I /\ Picked(s, I)[j] = s[Nth(I, j)]
         /\ \A k \in I : \E j \in DOMAIN Picked(s, I) : Nth(I, j) = k /\ Picked(s, I)[j] = s[k]
         /\ \A i, j \in DOMAIN Picked(s, I) : i < j => Nth(I, i) < Nth(I, j)
<1> DEFINE N == Cardinality(I)
<1>1. Len(s) \in Nat /\ I \in SUBSET (1 .. Len(s))
  OBVIOUS
<1>2. /\ N \in Nat
      /\ \A j \in 1 .. N : Nth(I, j) \in I
      /\ \A k \in I : \E j \in 1 .. N : Nth(I, j) = k
      /\ \A i, j \in 1 .. N : i < j => Nth(I, i) < Nth(I, j)
  BY <1>1, NthPlace
<1> HIDE DEF N
<1>3. Picked(s, I) = [j \in 1 .. N |-> s[Nth(I, j)]]
  BY DEF Picked, N
<1>4. \A j \in 1 .. N : s[Nth(I, j)] \in S
  BY <1>1, <1>2
<1>5. Picked(s, I) \in Seq(S) /\ DOMAIN Picked(s, I) = 1 .. N /\ Len(Picked(s, I)) = N
  BY <1>2, <1>3, <1>4
<1> QED BY <1>2, <1>3, <1>5 DEF N

\* One list is the other with an element more.
Grown(a, s, e) ==
  /\ Len(a) = Len(s) + 1 /\ DOMAIN a = 1 .. Len(s) + 1
  /\ a[Len(s) + 1] = e /\ \A k \in 1 .. Len(s) : a[k] = s[k]

\* Append makes a list grow.
LEMMA AppendGrows ==
  ASSUME NEW S, NEW s \in Seq(S), NEW e \in S
  PROVE  Append(s, e) \in Seq(S) /\ Grown(Append(s, e), s, e)
BY DEF Grown

\* What is picked of a list that has grown.
LEMMA PickedGrows ==
  ASSUME NEW S, NEW s \in Seq(S), NEW I \in SUBSET DOMAIN s, NEW e, NEW a, Grown(a, s, e)
  PROVE  /\ Picked(a, I) = Picked(s, I)
         /\ Grown(Picked(a, I \cup {Len(s) + 1}), Picked(s, I), e)
<1> DEFINE n == Len(s)
           N == Cardinality(I)
           J == I \cup {n + 1}
<1>1. n \in Nat /\ I \in SUBSET (1 .. n) /\ J \in SUBSET (1 .. n + 1) /\ n + 1 \notin I
      /\ a[n + 1] = e /\ \A k \in 1 .. n : a[k] = s[k]
  BY DEF Grown
<1> HIDE DEF n
<1>2. /\ N \in Nat /\ IsFiniteSet(I)
      /\ \A j \in 1 .. N : Nth(I, j) \in I
      /\ \A j \in 1 .. N : Cardinality({i \in I : i <= Nth(I, j)}) = j
  BY <1>1, NthPlace
<1>3. Cardinality(J) = N + 1
  BY <1>1, <1>2, FS_AddElement
<1>4. ASSUME NEW k \in J, NEW j \in 1 .. N + 1, Cardinality({i \in J : i <= k}) = j
      PROVE  Nth(J, j) = k
  <2>1. \A k_1 \in J, j_1 \in 1 .. Cardinality(J) :
          Cardinality({i \in J : i <= k_1}) = j_1 => Nth(J, j_1) = k_1
    <3>1. n + 1 \in Nat
      BY <1>1
    <3> HIDE DEF J
    <3> QED BY <1>1, <3>1, NthPlace
  <2> QED BY <1>3, <1>4, <2>1
<1>5. ASSUME NEW j \in 1 .. N PROVE Nth(J, j) = Nth(I, j)
  <2>1. Nth(I, j) \in I /\ Cardinality({i \in I : i <= Nth(I, j)}) = j
    BY <1>2
  <2>2. {i \in J : i <= Nth(I, j)} = {i \in I : i <= Nth(I, j)}
    <3>1. Nth(I, j) \in 1 .. n /\ ~(n + 1 <= Nth(I, j))
      BY <1>1, <2>1
    <3> QED BY <3>1
  <2>3. Cardinality({i \in J : i <= Nth(I, j)}) = j
    BY <2>1, <2>2
  <2>4. Nth(I, j) \in J /\ j \in 1 .. N + 1
    BY <1>2, <2>1
  <2> HIDE DEF J, N
  <2> QED BY <1>4, <2>3, <2>4
<1>6. Nth(J, N + 1) = n + 1
  <2>1. {i \in J : i <= n + 1} = J
    <3>1. \A i \in J : i <= n + 1
      BY <1>1
    <3> QED BY <3>1
  <2>2. n + 1 \in J
    OBVIOUS
  <2> HIDE DEF J, N
  <2>3. N + 1 \in 1 .. N + 1
    BY <1>2
  <2>4. Cardinality({i \in J : i <= n + 1}) = N + 1
    BY <1>3, <2>1
  <2> QED BY <1>4, <2>2, <2>3, <2>4
<1> HIDE DEF J, N
<1>7. Picked(a, I) = Picked(s, I)
  <2>1. Picked(a, I) = [j \in 1 .. N |-> a[Nth(I, j)]]
       /\ Picked(s, I) = [j \in 1 .. N |-> s[Nth(I, j)]]
    BY DEF Picked, N
  <2>2. \A j \in 1 .. N : a[Nth(I, j)] = s[Nth(I, j)]
    BY <1>1, <1>2
  <2> QED BY <2>1, <2>2
<1>8. Grown(Picked(a, J), Picked(s, I), e)
  <2>1. Picked(a, J) = [j \in 1 .. N + 1 |-> a[Nth(J, j)]]
    BY <1>3 DEF Picked
  <2>2. Picked(s, I) \in Seq(S) /\ Len(Picked(s, I)) = N
    BY PickedList DEF N
  <2>3. Picked(s, I) = [j \in 1 .. N |-> s[Nth(I, j)]]
    BY DEF N, Picked
  <2>4. Picked(a, J)[N + 1] = e
    BY <1>1, <1>2, <1>6, <2>1
  <2>5. ASSUME NEW j \in 1 .. N PROVE Picked(a, J)[j] = Picked(s, I)[j]
    <3>1. Nth(J, j) \in 1 .. n /\ Nth(J, j) = Nth(I, j) /\ j \in 1 .. N + 1
      BY <1>1, <1>2, <1>5
    <3> QED BY <1>1, <2>1, <2>3, <3>1
  <2>6. DOMAIN Picked(a, J) = 1 .. N + 1 /\ Len(Picked(a, J)) = N + 1
    BY <1>2, <2>1
  <2> QED BY <2>2, <2>4, <2>5, <2>6 DEF Grown
<1> QED BY <1>7, <1>8 DEF J, n

-----------------------------------------------------------------------------
(* A project is renamed or moved. *)

\* The kinds of data that the update under way has moved.
Through(k) ==
  \/ update.pc \in {"hook", "trust", "save"}
  \/ k = "indexes" /\ update.pc = "structural"

\* Everything is under the name and the path that the registry has.
Followed ==
  /\ \A k \in Renaming!Kind, n \in Name : derived[k][n] = "work" => n = project.name
  /\ hook \in {project.name, Renaming!NoHook, Renaming!Mangled}
  /\ trusted = IF approved THEN {project.path} ELSE {}

\* Everything is under what the registry has or under what was asked for, and what an
\* update is through with under what was asked for.
HalfFollowed ==
  /\ update.pc # "idle" => update.to = half
  /\ \A k \in Renaming!Kind, n \in Name :
       derived[k][n] = "work" => n = half.name \/ (n = project.name /\ ~Through(k))
  /\ \/ hook \in {half.name, Renaming!NoHook, Renaming!Mangled}
     \/ hook = project.name /\ update.pc \notin {"trust", "save"}
  /\ ~approved => trusted = {}
  /\ approved => \/ trusted = {half.path}
                 \/ trusted = {project.path} /\ update.pc # "save"

RenamingInv ==
  /\ Renaming!TypeOK
  /\ update.pc # "idle" => half # Renaming!NoRequest
  /\ ~strayed => IF half = Renaming!NoRequest THEN Followed ELSE HalfFollowed

LEMMA RenamingTyped ==
  ASSUME Renaming!TypeOK, Renaming!Next
  PROVE  Renaming!TypeOK'
<1> USE DEF Renaming!TypeOK, Renaming!Project, Renaming!At, Renaming!Goto
<1>1. \A pc \in {"idle", "indexes", "structural", "hook", "trust", "save"} :
        [update EXCEPT !.pc = pc] \in
          [pc : {"idle", "indexes", "structural", "hook", "trust", "save"},
           to : [name : Name, path : Path]]
  OBVIOUS
<1>2. ASSUME NEW to \in Renaming!Project, Renaming!Begin(to) PROVE Renaming!TypeOK'
  BY <1>2 DEF Renaming!Begin
<1>3. CASE Renaming!Move("indexes", "structural") \/ Renaming!Move("structural", "hook")
  <2>1. derived' \in [Renaming!Kind -> [Name -> Renaming!Data]]
    BY <1>3 DEF Renaming!Move, Renaming!Kind, Renaming!Data
  <2> QED BY <1>1, <1>3, <2>1 DEF Renaming!Move
<1>4. CASE Renaming!RewriteHook
  BY <1>1, <1>4 DEF Renaming!RewriteHook, Renaming!Rewritten, Renaming!Renamed
<1>5. CASE Renaming!RekeyTrusted
  BY <1>1, <1>5 DEF Renaming!RekeyTrusted
<1>6. CASE Renaming!SaveRegistry \/ Renaming!Fail
  BY <1>1, <1>6 DEF Renaming!SaveRegistry, Renaming!Fail, Renaming!NoRequest
<1>7. CASE \E k \in Renaming!Kind : Renaming!Index(k)
  BY <1>7 DEF Renaming!Index, Renaming!Kind, Renaming!Data
<1>8. CASE Renaming!Approve \/ \E p \in Path : Renaming!MoveFolder(p)
  BY <1>8 DEF Renaming!Approve, Renaming!MoveFolder
<1> QED BY <1>2, <1>3, <1>4, <1>5, <1>6, <1>7, <1>8 DEF Renaming!Next

\* A request is for a name that a project can have.
LEMMA RequestsAreReal == \A to \in Renaming!Project : to # Renaming!NoRequest
BY WorkbenchAssumption DEF Renaming!Project, Renaming!NoRequest

LEMMA RenamingStep ==
  ASSUME RenamingInv, Renaming!Next
  PROVE  RenamingInv'
<1>0. Renaming!TypeOK /\ Renaming!TypeOK'
  BY RenamingTyped DEF RenamingInv
<1> USE DEF Renaming!At, Renaming!Goto
<1>1. ASSUME NEW to \in Renaming!Project, Renaming!Begin(to) PROVE RenamingInv'
  <2>1. /\ update.pc = "idle" /\ update' = [pc |-> "indexes", to |-> to] /\ half' = to
        /\ strayed' = (strayed \/ half \notin {Renaming!NoRequest, to})
        /\ UNCHANGED <<project, derived, hook, trusted, approved>>
    BY <1>1 DEF Renaming!Begin
  <2>2. half' # Renaming!NoRequest /\ ~Through("indexes")' /\ ~Through("structural")'
    BY <2>1, RequestsAreReal DEF Through
  <2>3. ~strayed' => HalfFollowed'
    <3> SUFFICES ASSUME ~strayed' PROVE HalfFollowed'
      OBVIOUS
    <3>1. CASE half = Renaming!NoRequest
      BY <2>1, <2>2, <3>1 DEF RenamingInv, Followed, HalfFollowed, Renaming!Kind
    <3>2. CASE half = to
      BY <1>1, <2>1, <2>2, <3>2, RequestsAreReal DEF RenamingInv, HalfFollowed, Renaming!Kind
    <3> QED BY <2>1, <3>1, <3>2
  <2> QED BY <1>0, <2>2, <2>3 DEF RenamingInv
<1>2. ASSUME NEW k \in Renaming!Kind, NEW next \in {"structural", "hook"}, Renaming!Move(k, next),
             <<k, next>> \in {<<"indexes", "structural">>, <<"structural", "hook">>}
      PROVE  RenamingInv'
  <2>1. /\ update.pc = k /\ half # Renaming!NoRequest
        /\ UNCHANGED <<project, hook, trusted, half, approved, strayed>>
    BY <1>2 DEF Renaming!Move, RenamingInv, Renaming!Kind
  <2>2. update'.pc \in {"idle", next} /\ update'.to = update.to
    BY <1>0, <1>2 DEF Renaming!Move, Renaming!TypeOK
  <2>3. ASSUME ~strayed PROVE HalfFollowed'
    <3>1. HalfFollowed /\ update.to = half
      BY <2>1, <2>3 DEF RenamingInv, HalfFollowed, Renaming!Kind
    <3>2. half.name \in Name /\ project.name \in Name
      BY <1>0, <2>1 DEF Renaming!TypeOK, Renaming!Project, Renaming!NoRequest
    <3>3. ASSUME NEW j \in Renaming!Kind, NEW n \in Name, derived'[j][n] = "work"
          PROVE  n = half.name \/ (n = project.name /\ ~Through(j)')
      <4>1. CASE j # k
        <5>1. derived'[j] = derived[j]
          BY <1>0, <1>2, <4>1 DEF Renaming!Move, Renaming!TypeOK
        <5>2. Through(j)' => Through(j)
          BY <1>2, <2>1, <2>2, <4>1 DEF Through, Renaming!Kind
        <5> QED BY <3>1, <3>3, <5>1, <5>2 DEF HalfFollowed
      <4>2. CASE j = k /\ derived' = derived
        <5>1. n = half.name \/ n = project.name
          BY <3>1, <3>3, <4>2 DEF HalfFollowed
        <5>2. update'.pc = "idle" \/ half.name = project.name \/ derived[k][project.name] = "none"
          <6>1. CASE derived' = [derived EXCEPT ![k][half.name] = derived[k][project.name],
                                                ![k][project.name] = "none"]
            <7>1. derived'[k][project.name] = "none"
              BY <1>0, <3>2, <6>1 DEF Renaming!TypeOK
            <7> QED BY <4>2, <7>1
          <6>2. CASE update' = [update EXCEPT !.pc = "idle"]
            BY <1>0, <6>2 DEF Renaming!TypeOK
          <6> QED BY <1>2, <3>1, <6>1, <6>2 DEF Renaming!Move, Renaming!Renamed
        <5>3. update'.pc = "idle" => ~Through(j)'
          BY DEF Through
        <5> QED BY <3>3, <4>2, <5>1, <5>2, <5>3
      <4>3. CASE j = k /\ derived' # derived
        <5>1. derived' = [derived EXCEPT ![k][half.name] = derived[k][project.name],
                                         ![k][project.name] = "none"]
          BY <1>2, <3>1, <4>3 DEF Renaming!Move
        <5>2. n # project.name
          BY <1>0, <3>2, <3>3, <4>3, <5>1 DEF Renaming!TypeOK
        <5>3. n # half.name => derived'[k][n] = derived[k][n]
          BY <1>0, <3>2, <4>3, <5>1, <5>2 DEF Renaming!TypeOK
        <5> QED BY <3>1, <3>3, <4>3, <5>2, <5>3 DEF HalfFollowed
      <4> QED BY <4>1, <4>2, <4>3
    <3> QED BY <1>2, <2>1, <2>2, <3>1, <3>3 DEF HalfFollowed
  <2> QED BY <1>0, <2>1, <2>3 DEF RenamingInv
<1>3. CASE Renaming!RewriteHook
  <2>1. /\ update.pc = "hook" /\ update' = [update EXCEPT !.pc = "trust"]
        /\ half # Renaming!NoRequest
        /\ UNCHANGED <<project, derived, trusted, half, approved>>
    BY <1>3 DEF Renaming!RewriteHook, RenamingInv
  <2>2. update'.pc = "trust" /\ update'.to = update.to
    BY <1>0, <2>1 DEF Renaming!TypeOK
  <2>3. ASSUME ~strayed' PROVE HalfFollowed'
    <3>1. ~strayed /\ HalfFollowed /\ update.to = half
      BY <1>3, <2>1, <2>3 DEF Renaming!RewriteHook, RenamingInv, HalfFollowed
    <3>2. hook' \in {half.name, Renaming!NoHook, Renaming!Mangled}
      <4>1. hook \in {half.name, project.name, Renaming!NoHook, Renaming!Mangled}
        BY <3>1 DEF HalfFollowed
      <4>2. CASE half.name = project.name
        BY <1>3, <3>1, <4>1, <4>2 DEF Renaming!RewriteHook, Renaming!Renamed
      <4>3. CASE half.name # project.name
        <5>1. hook' = Renaming!Rewritten
          BY <1>3, <2>3, <3>1, <4>3 DEF Renaming!RewriteHook, Renaming!Renamed
        <5> QED BY <3>1, <4>1, <5>1 DEF Renaming!Rewritten
      <4> QED BY <4>2, <4>3
    <3>3. \A k \in Renaming!Kind : Through(k)' => Through(k)
      BY <2>1 DEF Through
    <3> QED BY <2>1, <2>2, <3>1, <3>2, <3>3 DEF HalfFollowed
  <2> QED BY <1>0, <2>1, <2>3 DEF RenamingInv
<1>4. CASE Renaming!RekeyTrusted
  <2>1. /\ update.pc = "trust" /\ update' = [update EXCEPT !.pc = "save"]
        /\ half # Renaming!NoRequest
        /\ UNCHANGED <<project, derived, hook, half, approved, strayed>>
    BY <1>4 DEF Renaming!RekeyTrusted, RenamingInv
  <2>2. update'.pc = "save" /\ update'.to = update.to
    BY <1>0, <2>1 DEF Renaming!TypeOK
  <2>3. ASSUME ~strayed PROVE HalfFollowed'
    <3>1. HalfFollowed /\ update.to = half
      BY <2>1, <2>3 DEF RenamingInv, HalfFollowed
    <3>2. (approved => trusted' = {half.path}) /\ (~approved => trusted' = {})
      BY <1>4, <3>1 DEF Renaming!RekeyTrusted, Renaming!Moved, HalfFollowed
    <3>3. \A k \in Renaming!Kind : Through(k)' => Through(k)
      BY <2>1 DEF Through
    <3> QED BY <2>1, <2>2, <3>1, <3>2, <3>3 DEF HalfFollowed
  <2> QED BY <1>0, <2>1, <2>3 DEF RenamingInv
<1>5. CASE Renaming!SaveRegistry
  <2>1. /\ update.pc = "save" /\ project' = update.to /\ half' = Renaming!NoRequest
        /\ half # Renaming!NoRequest /\ update'.pc = "idle"
        /\ UNCHANGED <<derived, hook, trusted, approved, strayed>>
    BY <1>0, <1>5 DEF Renaming!SaveRegistry, RenamingInv, Renaming!TypeOK
  <2>2. ASSUME ~strayed PROVE Followed'
    <3>1. HalfFollowed /\ project' = half
      BY <2>1, <2>2 DEF RenamingInv, HalfFollowed
    <3>2. \A k \in Renaming!Kind : Through(k)
      BY <2>1 DEF Through
    <3> QED BY <2>1, <3>1, <3>2 DEF HalfFollowed, Followed
  <2> QED BY <1>0, <2>1, <2>2 DEF RenamingInv
<1>6. CASE Renaming!Fail
  <2>1. update'.pc = "idle" /\ UNCHANGED <<project, derived, hook, trusted, half, approved, strayed>>
    BY <1>0, <1>6 DEF Renaming!Fail, Renaming!TypeOK
  <2>2. \A k \in Renaming!Kind : ~Through(k)'
    BY <2>1 DEF Through
  <2> QED BY <1>0, <2>1, <2>2 DEF RenamingInv, Followed, HalfFollowed
<1>7. ASSUME NEW k \in Renaming!Kind, Renaming!Index(k) PROVE RenamingInv'
  <2>1. /\ derived' = [derived EXCEPT ![k][project.name] = IF @ = "none" THEN "work" ELSE @]
        /\ strayed' = (strayed \/ half # Renaming!NoRequest)
        /\ UNCHANGED <<project, hook, trusted, update, half, approved>>
    BY <1>7 DEF Renaming!Index
  <2>2. ASSUME ~strayed' PROVE Followed'
    <3>1. half = Renaming!NoRequest /\ Followed
      BY <2>1, <2>2 DEF RenamingInv
    <3>2. \A j \in Renaming!Kind, n \in Name \ {project.name} : derived'[j][n] = derived[j][n]
      BY <1>0, <2>1 DEF Renaming!TypeOK
    <3> QED BY <2>1, <3>1, <3>2 DEF Followed
  <2> QED BY <1>0, <2>1, <2>2 DEF RenamingInv
<1>8. CASE Renaming!Approve
  <2>1. /\ approved' = TRUE /\ trusted' = trusted \cup {project.path}
        /\ strayed' = (strayed \/ half # Renaming!NoRequest)
        /\ UNCHANGED <<project, derived, hook, update, half>>
    BY <1>8 DEF Renaming!Approve
  <2> QED BY <1>0, <2>1 DEF RenamingInv, Followed
<1>9. ASSUME NEW p \in Path, Renaming!MoveFolder(p) PROVE RenamingInv'
  <2>1. UNCHANGED <<project, derived, hook, trusted, update, half, approved, strayed>>
    BY <1>9 DEF Renaming!MoveFolder
  <2> QED BY <1>0, <2>1 DEF RenamingInv, Followed, HalfFollowed, Through
<1>10. CASE Renaming!Move("indexes", "structural") \/ Renaming!Move("structural", "hook")
  <2>1. "indexes" \in Renaming!Kind /\ "structural" \in Renaming!Kind
    BY DEF Renaming!Kind
  <2>2. CASE Renaming!Move("indexes", "structural")
    BY <1>2, <2>1, <2>2
  <2>3. CASE Renaming!Move("structural", "hook")
    BY <1>2, <2>1, <2>3
  <2> QED BY <1>10, <2>2, <2>3
<1> QED BY <1>1, <1>3, <1>4, <1>5, <1>6, <1>7, <1>8, <1>9, <1>10 DEF Renaming!Next

LEMMA RenamingStart == Renaming!Init => RenamingInv
<1> SUFFICES ASSUME Renaming!Init PROVE RenamingInv
  OBVIOUS
<1>1. Renaming!TypeOK
  <2>1. project.name \in Name
    BY DEF Renaming!Init, Renaming!Project
  <2>2. update \in [pc : {"idle", "indexes", "structural", "hook", "trust", "save"},
                    to : Renaming!Project]
    BY DEF Renaming!Init
  <2>3. half = [name |-> Renaming!Nowhere, path |-> Renaming!Nowhere] /\ trusted = {}
    BY DEF Renaming!Init, Renaming!NoRequest
  <2> QED BY <2>1, <2>2, <2>3 DEF Renaming!Init, Renaming!TypeOK, Renaming!Project
<1>2. update.pc = "idle" /\ half = Renaming!NoRequest /\ Followed
  BY DEF Renaming!Init, Followed
<1> QED BY <1>1, <1>2 DEF RenamingInv

\* However often an update failed or was killed, at whatever step, before it was asked for
\* again and went through: what was derived from the project, its hook and its approval are
\* under the name and the path the registry has (update_project).
THEOREM WorkAlwaysFollows == WorkbenchSpec => []WorkFollows
<1>1. WorkbenchInit => RenamingInv
  BY RenamingStart DEF WorkbenchInit
<1>2. RenamingInv /\ [WorkbenchNext]_workbench => RenamingInv'
  <2>1. RenamingInv /\ UNCHANGED renaming => RenamingInv'
    BY DEF renaming, RenamingInv, Renaming!TypeOK, Followed, HalfFollowed, Through
  <2> QED BY <2>1, RenamingStep DEF WorkbenchNext, workbench
<1>3. RenamingInv => WorkFollows
  BY DEF RenamingInv, Followed, WorkFollows, Renaming!WorkFollows, Renaming!At
<1> QED BY <1>1, <1>2, <1>3, PTL DEF WorkbenchSpec

-----------------------------------------------------------------------------
(* Daemons and the commands that find them. *)

\* Commands came one after the other, and no daemon was asked to shut down.
InTurn == ~overlapped /\ shutdown = {}

\* One daemon is alive, but for another that looks whether there is one; it has the pid
\* file, once it has written it.  What is not yet or no longer serving is alone with the
\* commands, and what a command does without finding a daemon, it does when there is none.
Alone ==
  /\ \A d, e \in Daemons!Pid :
       Daemons!IsProcessAlive(d) /\ Daemons!IsProcessAlive(e) /\ d # e =>
         \/ daemon[d].pc = "check" /\ daemon[e].pc = "serving"
         \/ daemon[e].pc = "check" /\ daemon[d].pc = "serving"
  /\ \A d \in Daemons!Pid :
       /\ daemon[d].pc \in {"bind", "serving", "stopping"} => pid_file = d
       /\ command.pc # "idle" /\ Daemons!IsProcessAlive(d) => daemon[d].pc = "serving"
       /\ command.pc \in {"stale", "remove"} => ~Daemons!IsProcessAlive(d)
  /\ command.pc = "connect" => command.target = pid_file

\* The briefings there were are of days up to the one that is marked, and the one that is
\* due is of a later one.
Briefed ==
  /\ marker <= day
  /\ \A x \in Daemons!Day : briefings[x] <= 1 /\ (briefings[x] # 0 => x <= marker)
  /\ \A d \in Daemons!Pid :
       /\ daemon[d].pc \in {"none", "check", "stale", "confirm", "write"} =>
            daemon[d].scheduler = "tick"
       /\ Daemons!Scheduling(d) /\ daemon[d].scheduler = "due" =>
            marker < daemon[d].on /\ daemon[d].on <= day

DaemonInv == Daemons!TypeOK /\ (InTurn => Alone /\ Briefed)

LEMMA DaemonTyped ==
  ASSUME Daemons!TypeOK, Daemons!Next
  PROVE  Daemons!TypeOK'
<1> USE DEF Daemons!TypeOK, Daemons!Goes, Daemons!Turns
<1>0. /\ \A d \in Daemons!Pid : daemon[d] \in Daemons!Process
      /\ 0 \in {Daemons!NoFile} \cup Daemons!Pid /\ Daemons!NoFile = 0
      /\ Daemons!Idle \in Daemons!Command
  BY DEF Daemons!NoFile, Daemons!Idle, Daemons!Command
<1>1. ASSUME NEW d \in Daemons!Pid,
             NEW pc \in {"none", "check", "stale", "confirm", "write", "bind", "serving",
                         "stopping", "draining", "gone"}
      PROVE  [daemon EXCEPT ![d].pc = pc] \in [Daemons!Pid -> Daemons!Process]
  <2>1. [daemon[d] EXCEPT !.pc = pc] \in Daemons!Process
    BY <1>0 DEF Daemons!Process
  <2> QED BY <2>1
<1>2. ASSUME NEW d \in Daemons!Pid, NEW x \in {"tick", "due", "writing"}
      PROVE  [daemon EXCEPT ![d].scheduler = x] \in [Daemons!Pid -> Daemons!Process]
  <2>1. [daemon[d] EXCEPT !.scheduler = x] \in Daemons!Process
    BY <1>0 DEF Daemons!Process
  <2> QED BY <2>1
<1>3. ASSUME NEW d \in Daemons!Pid,
             Daemons!Step(d) \/ Daemons!CtrlC(d) \/ Daemons!Die(d)
             \/ \E port \in Port : Daemons!Start(d, port)
      PROVE  Daemons!TypeOK'
  <2>1. daemon' \in [Daemons!Pid -> Daemons!Process]
    <3>1. CASE \E port \in Port : Daemons!Start(d, port)
      <4> PICK port \in Port : Daemons!Start(d, port)
        BY <3>1
      <4>1. [daemon[d] EXCEPT !.pc = "check", !.port = port] \in Daemons!Process
        BY <1>0 DEF Daemons!Process
      <4>2. daemon' = [daemon EXCEPT ![d] = [daemon[d] EXCEPT !.pc = "check", !.port = port]]
        BY DEF Daemons!Start
      <4> QED BY <4>1, <4>2
    <3>2. CASE Daemons!Step(d) \/ Daemons!CtrlC(d) \/ Daemons!Die(d)
      <4>1. PICK pc \in {"none", "check", "stale", "confirm", "write", "bind", "serving",
                         "stopping", "draining", "gone"} : daemon' = [daemon EXCEPT ![d].pc = pc]
        BY <3>2 DEF Daemons!Step, Daemons!Check, Daemons!RemoveStale, Daemons!Confirm,
                    Daemons!WritePidFile, Daemons!Bind, Daemons!RemovePidFile, Daemons!Exit,
                    Daemons!CtrlC, Daemons!Die
      <4>2. [daemon EXCEPT ![d].pc = pc] \in [Daemons!Pid -> Daemons!Process]
        BY <1>1
      <4> QED BY <4>1, <4>2
    <3> QED BY <1>3, <3>1, <3>2
  <2>2. pid_file' \in {Daemons!NoFile} \cup Daemons!Pid /\ overlapped' \in BOOLEAN
    BY <1>3 DEF Daemons!Step, Daemons!Check, Daemons!RemoveStale, Daemons!Confirm,
                Daemons!WritePidFile, Daemons!Bind, Daemons!RemovePidFile, Daemons!Exit,
                Daemons!CtrlC, Daemons!Die, Daemons!Start, Daemons!MayOverlap
  <2>3. UNCHANGED <<command, commands, shutdown, Daemons!days>>
    BY <1>3 DEF Daemons!Step, Daemons!Check, Daemons!RemoveStale, Daemons!Confirm,
                Daemons!WritePidFile, Daemons!Bind, Daemons!RemovePidFile, Daemons!Exit,
                Daemons!CtrlC, Daemons!Die, Daemons!Start
  <2> QED BY <2>1, <2>2, <2>3 DEF Daemons!days
<1>4. ASSUME NEW d \in Daemons!Pid, Daemons!Tick(d) \/ Daemons!Fire(d) \/ Daemons!Written(d)
      PROVE  Daemons!TypeOK'
  <2>1. daemon' \in [Daemons!Pid -> Daemons!Process]
    <3>1. CASE Daemons!Tick(d)
      <4>1. [daemon[d] EXCEPT !.scheduler = "due", !.on = day] \in Daemons!Process
        BY <1>0 DEF Daemons!Process
      <4>2. daemon' = [daemon EXCEPT ![d] = [daemon[d] EXCEPT !.scheduler = "due", !.on = day]]
        BY <3>1 DEF Daemons!Tick
      <4> QED BY <4>1, <4>2
    <3>2. CASE Daemons!Fire(d) \/ Daemons!Written(d)
      <4>1. PICK x \in {"tick", "due", "writing"} : daemon' = [daemon EXCEPT ![d].scheduler = x]
        BY <3>2 DEF Daemons!Fire, Daemons!Written
      <4>2. [daemon EXCEPT ![d].scheduler = x] \in [Daemons!Pid -> Daemons!Process]
        BY <1>2
      <4> QED BY <4>1, <4>2
    <3> QED BY <1>4, <3>1, <3>2
  <2>2. marker' \in {Daemons!Never} \cup Daemons!Day /\ briefings' \in [Daemons!Day -> Nat]
    BY <1>0, <1>4 DEF Daemons!Tick, Daemons!Fire, Daemons!Written, Daemons!days, Daemons!Process
  <2>3. UNCHANGED <<pid_file, command, commands, shutdown, overlapped, day, due>>
    BY <1>4 DEF Daemons!Tick, Daemons!Fire, Daemons!Written, Daemons!days
  <2> QED BY <2>1, <2>2, <2>3
<1>5. CASE \E stops \in BOOLEAN : Daemons!Give(stops)
  <2>1. command' \in Daemons!Command
    BY <1>0, <1>5 DEF Daemons!Give, Daemons!Command
  <2>2. commands' \in 0 .. MaxCommands
    BY <1>5, WorkbenchAssumption DEF Daemons!Give
  <2> QED BY <1>5, <2>1, <2>2 DEF Daemons!Give, Daemons!MayOverlap, Daemons!days
<1>6. CASE Daemons!Read
  <2>1. command' \in Daemons!Command
    <3>1. [command EXCEPT !.pc = "stale"] \in Daemons!Command
      BY DEF Daemons!Command
    <3>2. pid_file # Daemons!NoFile =>
            [command EXCEPT !.pc = "connect", !.target = pid_file] \in Daemons!Command
      BY DEF Daemons!Command
    <3> QED BY <1>0, <1>6, <3>1, <3>2 DEF Daemons!Read
  <2> QED BY <1>6, <2>1 DEF Daemons!Read, Daemons!days
<1>7. CASE Daemons!Connect
  <2>1. command' \in Daemons!Command
    BY <1>7 DEF Daemons!Connect, Daemons!Command
  <2>2. daemon' \in [Daemons!Pid -> Daemons!Process]
    <3>1. daemon' = daemon \/ daemon' = [daemon EXCEPT ![command.target].pc = "gone"]
      BY <1>7 DEF Daemons!Connect
    <3>2. CASE daemon' = [daemon EXCEPT ![command.target].pc = "gone"]
      <4>1. CASE command.target \in Daemons!Pid
        BY <1>1, <3>2, <4>1
      <4>2. CASE command.target \notin Daemons!Pid
        BY <3>2, <4>2
      <4> QED BY <4>1, <4>2
    <3> QED BY <3>1, <3>2
  <2>3. shutdown' \in SUBSET Daemons!Pid
    BY <1>7 DEF Daemons!Connect
  <2> QED BY <1>7, <2>1, <2>2, <2>3 DEF Daemons!Connect, Daemons!days
<1>8. CASE Daemons!Remove \/ Daemons!CommandFails
  BY <1>0, <1>8 DEF Daemons!Remove, Daemons!CommandFails, Daemons!days
<1>9. CASE Daemons!MinutePasses \/ Daemons!DayPasses
  <2>1. day' \in Daemons!Day
    BY <1>9, WorkbenchAssumption
       DEF Daemons!MinutePasses, Daemons!DayPasses, Daemons!Day
  <2> QED BY <1>9, <2>1 DEF Daemons!MinutePasses, Daemons!DayPasses, Daemons!pids
<1> QED BY <1>3, <1>4, <1>5, <1>6, <1>7, <1>8, <1>9 DEF Daemons!Next

\* Once a command came too early, or a daemon was asked to shut down, it stays so.
LEMMA InTurnBefore ==
  ASSUME Daemons!TypeOK, Daemons!Next, InTurn'
  PROVE  InTurn
<1>0. overlapped \in BOOLEAN
  BY DEF Daemons!TypeOK
<1>1. ASSUME NEW d \in Daemons!Pid,
             \/ \E port \in Port : Daemons!Start(d, port)
             \/ Daemons!Step(d) \/ Daemons!CtrlC(d) \/ Daemons!Die(d)
             \/ Daemons!Tick(d) \/ Daemons!Fire(d) \/ Daemons!Written(d)
      PROVE  (overlapped => overlapped') /\ shutdown' = shutdown
  BY <1>0, <1>1 DEF Daemons!Start, Daemons!MayOverlap, Daemons!Step, Daemons!Check, Daemons!RemoveStale,
              Daemons!Confirm, Daemons!WritePidFile, Daemons!Bind, Daemons!RemovePidFile,
              Daemons!Exit, Daemons!CtrlC, Daemons!Die, Daemons!Tick, Daemons!Fire,
              Daemons!Written
<1>2. CASE \/ \E stops \in BOOLEAN : Daemons!Give(stops)
           \/ Daemons!Read \/ Daemons!Connect \/ Daemons!Remove \/ Daemons!CommandFails
           \/ Daemons!MinutePasses \/ Daemons!DayPasses
  <2>1. (overlapped => overlapped') /\ shutdown \subseteq shutdown'
    BY <1>0, <1>2 DEF Daemons!Give, Daemons!MayOverlap, Daemons!Read, Daemons!Connect, Daemons!Remove,
                Daemons!CommandFails, Daemons!MinutePasses, Daemons!DayPasses, Daemons!pids
  <2> QED BY <2>1 DEF InTurn
<1> QED BY <1>1, <1>2 DEF InTurn, Daemons!Next

\* A daemon that goes on leaves the others, and what its own scheduler is at, as it was.
LEMMA DaemonGoes ==
  ASSUME Daemons!TypeOK, NEW d \in Daemons!Pid, NEW pc, Daemons!Goes(d, pc)
  PROVE  /\ daemon'[d].pc = pc
         /\ \A e \in Daemons!Pid :
              /\ e # d => daemon'[e] = daemon[e]
              /\ daemon'[e].scheduler = daemon[e].scheduler /\ daemon'[e].on = daemon[e].on
<1>1. daemon[d] \in Daemons!Process /\ daemon \in [Daemons!Pid -> Daemons!Process]
  BY DEF Daemons!TypeOK
<1>2. daemon'[d] = [daemon[d] EXCEPT !.pc = pc] /\ \A e \in Daemons!Pid : e # d => daemon'[e] = daemon[e]
  BY <1>1 DEF Daemons!Goes
<1> QED BY <1>1, <1>2 DEF Daemons!Process

\* The daemon that is at work is alone with the file, as long as commands take turns.
LEMMA AloneStep ==
  ASSUME Daemons!TypeOK, Daemons!Next, InTurn', Alone
  PROVE  Alone'
<1>0. InTurn /\ \A d \in Daemons!Pid : daemon[d] \in Daemons!Process
  BY InTurnBefore DEF Daemons!TypeOK
<1> USE DEF Daemons!IsProcessAlive, Daemons!At
<1>1. ASSUME NEW d \in Daemons!Pid, NEW port \in Port, Daemons!Start(d, port) PROVE Alone'
  <2>1. /\ daemon[d].pc = "none" /\ UNCHANGED <<pid_file, command>>
        /\ command.pc = "idle"
        /\ \A e \in Daemons!Pid : Daemons!IsProcessAlive(e) => daemon[e].pc = "serving"
    BY <1>1 DEF Daemons!Start, InTurn, Daemons!MayOverlap
  <2>2. daemon'[d].pc = "check" /\ \A e \in Daemons!Pid : e # d => daemon'[e] = daemon[e]
    BY <1>0, <1>1 DEF Daemons!Start, Daemons!TypeOK, Daemons!Process
  <2> QED BY <2>1, <2>2 DEF Alone
<1>2. ASSUME NEW d \in Daemons!Pid, Daemons!Check(d) PROVE Alone'
  <2>1. PICK pc \in {"confirm", "gone", "stale"} :
          /\ Daemons!Goes(d, pc) /\ daemon[d].pc = "check" /\ UNCHANGED <<pid_file, command>>
          /\ pc # "gone" => pid_file = Daemons!NoFile \/ ~Daemons!IsProcessAlive(pid_file)
    BY <1>2 DEF Daemons!Check
  <2>2. pc # "gone" => \A e \in Daemons!Pid \ {d} : ~Daemons!IsProcessAlive(e)
    <3>1. Daemons!NoFile \notin Daemons!Pid
      BY WorkbenchAssumption DEF Daemons!NoFile, Daemons!Pid
    <3> QED BY <2>1, <3>1 DEF Alone
  <2> QED BY <2>1, <2>2, DaemonGoes DEF Alone
<1>3. ASSUME NEW d \in Daemons!Pid, Daemons!RemoveStale(d) PROVE Alone'
  <2>1. /\ Daemons!Goes(d, "confirm") /\ daemon[d].pc = "stale" /\ UNCHANGED command
        /\ command.pc = "idle"
        /\ \A e \in Daemons!Pid \ {d} : ~Daemons!IsProcessAlive(e)
    BY <1>3 DEF Daemons!RemoveStale, Alone
  <2> QED BY <2>1, DaemonGoes DEF Alone
<1>4. ASSUME NEW d \in Daemons!Pid, Daemons!Confirm(d) PROVE Alone'
  <2>1. Daemons!Goes(d, "write") /\ daemon[d].pc = "confirm" /\ UNCHANGED <<pid_file, command>>
    BY <1>4 DEF Daemons!Confirm
  <2> QED BY <2>1, DaemonGoes DEF Alone
<1>5. ASSUME NEW d \in Daemons!Pid, Daemons!WritePidFile(d) PROVE Alone'
  <2>1. /\ Daemons!Goes(d, "bind") /\ daemon[d].pc = "write" /\ UNCHANGED command
        /\ command.pc = "idle" /\ pid_file' = d
        /\ \A e \in Daemons!Pid \ {d} : daemon[e].pc \in {"none", "gone", "check"}
    BY <1>5 DEF Daemons!WritePidFile, Alone
  <2> QED BY <2>1, DaemonGoes DEF Alone
<1>6. ASSUME NEW d \in Daemons!Pid, Daemons!Bind(d) PROVE Alone'
  <2>1. PICK pc \in {"serving", "gone"} :
          Daemons!Goes(d, pc) /\ daemon[d].pc = "bind" /\ UNCHANGED <<pid_file, command>>
    BY <1>6 DEF Daemons!Bind
  <2> QED BY <2>1, DaemonGoes DEF Alone
<1>7. ASSUME NEW d \in Daemons!Pid, Daemons!RemovePidFile(d) \/ Daemons!Exit(d) PROVE Alone'
  <2>1. PICK pc \in {"draining", "gone"} :
          /\ Daemons!Goes(d, pc) /\ daemon[d].pc \in {"stopping", "draining"} /\ UNCHANGED command
          /\ command.pc = "idle"
          /\ \A e \in Daemons!Pid \ {d} : ~Daemons!IsProcessAlive(e)
    BY <1>7 DEF Daemons!RemovePidFile, Daemons!Exit, Alone
  <2> QED BY <2>1, DaemonGoes DEF Alone
<1>8. ASSUME NEW d \in Daemons!Pid, Daemons!CtrlC(d) PROVE Alone'
  <2>1. /\ Daemons!Goes(d, "stopping") /\ daemon[d].pc = "serving"
        /\ UNCHANGED <<pid_file, command>> /\ command.pc = "idle"
        /\ \A e \in Daemons!Pid : Daemons!IsProcessAlive(e) => daemon[e].pc = "serving"
    BY <1>8 DEF Daemons!CtrlC, Daemons!MayOverlap, InTurn
  <2> QED BY <2>1, DaemonGoes DEF Alone
<1>9. ASSUME NEW d \in Daemons!Pid, Daemons!Die(d) PROVE Alone'
  <2>1. Daemons!Goes(d, "gone") /\ UNCHANGED <<pid_file, command>>
    BY <1>9 DEF Daemons!Die
  <2> QED BY <2>1, DaemonGoes DEF Alone
<1>10. ASSUME NEW d \in Daemons!Pid, Daemons!Tick(d) \/ Daemons!Fire(d) \/ Daemons!Written(d)
       PROVE  Alone'
  <2>1. \A e \in Daemons!Pid : daemon'[e].pc = daemon[e].pc
    BY <1>0, <1>10 DEF Daemons!Tick, Daemons!Fire, Daemons!Written, Daemons!Turns,
                       Daemons!TypeOK, Daemons!Process
  <2>2. UNCHANGED <<pid_file, command>>
    BY <1>10 DEF Daemons!Tick, Daemons!Fire, Daemons!Written
  <2> QED BY <2>1, <2>2 DEF Alone
<1>11. ASSUME NEW stops \in BOOLEAN, Daemons!Give(stops) PROVE Alone'
  <2>1. /\ command'.pc = "read" /\ UNCHANGED <<pid_file, daemon>>
        /\ \A e \in Daemons!Pid : Daemons!IsProcessAlive(e) => daemon[e].pc = "serving"
    BY <1>11 DEF Daemons!Give, Daemons!MayOverlap, Daemons!Idle, InTurn
  <2> QED BY <2>1 DEF Alone
<1>12. CASE Daemons!Read
  <2>1. /\ command.pc = "read" /\ UNCHANGED <<pid_file, daemon>>
        /\ \/ command'.pc = "idle"
           \/ /\ command'.pc = "stale"
              /\ pid_file # Daemons!NoFile /\ ~Daemons!IsProcessAlive(pid_file)
           \/ command'.pc = "connect" /\ command'.target = pid_file
    BY <1>12 DEF Daemons!Read, Daemons!Idle, Daemons!TypeOK, Daemons!Command
  <2>2. command'.pc = "stale" => \A e \in Daemons!Pid : ~Daemons!IsProcessAlive(e)
    BY <2>1 DEF Alone
  <2> QED BY <2>1, <2>2 DEF Alone
<1>13. CASE Daemons!Connect
  <2> DEFINE listening == {e \in Daemons!Pid :
                             Daemons!Listens(e) /\ daemon[e].port = daemon[command.target].port}
  <2>1. /\ command.pc = "connect" /\ command' = [command EXCEPT !.pc = "remove"]
        /\ UNCHANGED pid_file
        /\ IF listening # {} THEN shutdown' = shutdown \cup listening /\ UNCHANGED daemon
           ELSE daemon' = [daemon EXCEPT ![command.target].pc = "gone"]
    BY <1>13 DEF Daemons!Connect
  <2>2. listening = {}
    BY <2>1 DEF InTurn
  <2>3. command'.pc = "remove" /\ command.target = pid_file
    BY <2>1 DEF Alone, Daemons!TypeOK, Daemons!Command
  <2>4. \A e \in Daemons!Pid : ~Daemons!IsProcessAlive(e)'
    <3> SUFFICES ASSUME NEW e \in Daemons!Pid PROVE daemon'[e].pc \in {"none", "gone"}
      OBVIOUS
    <3>1. CASE e = command.target
      <4>1. daemon'[e] = [daemon[e] EXCEPT !.pc = "gone"]
        BY <2>1, <2>2, <3>1 DEF Daemons!TypeOK
      <4> QED BY <1>0, <4>1 DEF Daemons!Process
    <3>2. CASE e # command.target
      <4>1. daemon'[e] = daemon[e]
        BY <2>1, <2>2, <3>2 DEF Daemons!TypeOK
      <4> QED BY <2>1, <2>3, <3>2, <4>1 DEF Alone
    <3> QED BY <3>1, <3>2
  <2> QED BY <2>3, <2>4 DEF Alone
<1>14. CASE Daemons!Remove \/ Daemons!CommandFails
  <2>1. command'.pc = "idle" /\ UNCHANGED daemon
        /\ (pid_file' = pid_file \/ command.pc \in {"stale", "remove"})
    BY <1>14 DEF Daemons!Remove, Daemons!CommandFails, Daemons!Idle
  <2> QED BY <2>1 DEF Alone
<1>15. CASE Daemons!MinutePasses \/ Daemons!DayPasses
  BY <1>15 DEF Daemons!MinutePasses, Daemons!DayPasses, Daemons!pids, Alone
<1> QED BY <1>1, <1>2, <1>3, <1>4, <1>5, <1>6, <1>7, <1>8, <1>9, <1>10, <1>11, <1>12, <1>13,
           <1>14, <1>15 DEF Daemons!Next, Daemons!Step

\* The process that is scheduling briefings does so alone.
LEMMA BriefedStep ==
  ASSUME Daemons!TypeOK, Daemons!Next, Alone, Briefed
  PROVE  Briefed'
<1>0. /\ \A d \in Daemons!Pid : daemon[d] \in Daemons!Process
      /\ day \in Nat /\ marker \in Nat /\ Daemons!Day \subseteq Nat
      /\ \A d \in Daemons!Pid : daemon[d].on \in Nat
      /\ briefings \in [Daemons!Day -> Nat]
  BY DEF Daemons!TypeOK, Daemons!Day, Daemons!Never, Daemons!Process
<1> USE DEF Daemons!At, Daemons!Scheduling, Daemons!Listens
<1>1. ASSUME UNCHANGED <<day, marker, briefings>>,
             \A d \in Daemons!Pid :
               /\ daemon'[d].scheduler = daemon[d].scheduler /\ daemon'[d].on = daemon[d].on
               /\ daemon'[d].pc \in {"none", "check", "stale", "confirm", "write"} =>
                    daemon[d].pc \in {"none", "check", "stale", "confirm", "write"}
               /\ daemon'[d].pc \in {"bind", "serving", "stopping", "draining"} =>
                    daemon[d].pc # "gone"
      PROVE  Briefed'
  <2>1. Daemons!TypeOK => \A d \in Daemons!Pid :
          daemon[d].pc \in {"none", "check", "stale", "confirm", "write", "bind", "serving",
                            "stopping", "draining", "gone"}
    BY <1>0 DEF Daemons!Process
  <2> QED BY <1>1, <2>1 DEF Briefed
<1>2. ASSUME NEW d \in Daemons!Pid, Daemons!Step(d) \/ Daemons!CtrlC(d) \/ Daemons!Die(d)
      PROVE  Briefed'
  <2>1. /\ UNCHANGED Daemons!days
        /\ \E pc \in {"stale", "confirm", "write", "bind", "serving", "stopping", "draining",
                      "gone"} :
             /\ Daemons!Goes(d, pc) /\ daemon[d].pc \notin {"none", "gone"}
             /\ pc \in {"stale", "confirm", "write"} =>
                  daemon[d].pc \in {"check", "stale", "confirm"}
    BY <1>2 DEF Daemons!Step, Daemons!Check, Daemons!RemoveStale, Daemons!Confirm,
                Daemons!WritePidFile, Daemons!Bind, Daemons!RemovePidFile, Daemons!Exit,
                Daemons!CtrlC, Daemons!Die, Daemons!IsProcessAlive
  <2> QED BY <1>1, <2>1, DaemonGoes DEF Daemons!days
<1>3. ASSUME NEW d \in Daemons!Pid, NEW port \in Port, Daemons!Start(d, port) PROVE Briefed'
  <2>1. /\ daemon[d].pc = "none" /\ daemon'[d].pc = "check"
        /\ daemon'[d].scheduler = daemon[d].scheduler /\ daemon'[d].on = daemon[d].on
        /\ \A e \in Daemons!Pid : e # d => daemon'[e] = daemon[e]
    BY <1>0, <1>3 DEF Daemons!Start, Daemons!TypeOK, Daemons!Process
  <2> QED BY <1>1, <1>3, <2>1 DEF Daemons!Start, Daemons!days
<1>4. ASSUME NEW d \in Daemons!Pid, Daemons!Tick(d) PROVE Briefed'
  <2>1. /\ daemon'[d].pc = daemon[d].pc /\ daemon'[d].on = day /\ marker # day
        /\ \A e \in Daemons!Pid : e # d => daemon'[e] = daemon[e]
        /\ daemon[d].pc \in {"bind", "serving", "stopping", "draining"}
        /\ UNCHANGED <<day, marker, briefings>>
    BY <1>0, <1>4 DEF Daemons!Tick, Daemons!ScheduleDue, Daemons!days, Daemons!TypeOK,
                      Daemons!Process
  <2> QED BY <1>0, <2>1 DEF Briefed
<1>5. ASSUME NEW d \in Daemons!Pid, Daemons!Fire(d) \/ Daemons!Written(d) PROVE Briefed'
  <2>1. /\ daemon'[d].pc = daemon[d].pc /\ daemon'[d].scheduler # "due"
        /\ \A e \in Daemons!Pid : e # d => daemon'[e] = daemon[e]
        /\ daemon[d].pc \in {"bind", "serving", "stopping", "draining"} /\ UNCHANGED day
    BY <1>0, <1>5 DEF Daemons!Fire, Daemons!Written, Daemons!Turns, Daemons!days,
                      Daemons!TypeOK, Daemons!Process
  <2>2. \A e \in Daemons!Pid \ {d} :
          daemon[e].pc \notin {"bind", "serving", "stopping", "draining"}
    BY <2>1 DEF Alone, Daemons!IsProcessAlive
  <2>3. CASE UNCHANGED <<marker, briefings>>
    BY <2>1, <2>2, <2>3 DEF Briefed
  <2>4. CASE ~UNCHANGED <<marker, briefings>>
    <3>1. /\ daemon[d].scheduler = "due" /\ marker' = daemon[d].on
          /\ briefings' = [briefings EXCEPT ![daemon[d].on] = @ + 1]
      BY <1>5, <2>4 DEF Daemons!Fire, Daemons!Written, Daemons!days
    <3>2. marker < daemon[d].on /\ daemon[d].on <= day
      BY <2>1, <3>1 DEF Briefed
    <3>3. ASSUME NEW x \in Daemons!Day
          PROVE  briefings'[x] <= 1 /\ (briefings'[x] # 0 => x <= marker')
      <4>1. CASE x = daemon[d].on
        <5>1. briefings[x] = 0
          BY <1>0, <3>2, <4>1 DEF Briefed
        <5>2. briefings'[x] = 1
          BY <1>0, <3>1, <4>1, <5>1
        <5> QED BY <1>0, <3>1, <4>1, <5>2
      <4>2. CASE x # daemon[d].on
        BY <1>0, <3>1, <3>2, <4>2 DEF Briefed
      <4> QED BY <4>1, <4>2
    <3> QED BY <2>1, <2>2, <3>1, <3>2, <3>3 DEF Briefed
  <2> QED BY <2>3, <2>4
<1>6. CASE Daemons!Connect
  <2>1. UNCHANGED daemon \/ Daemons!Goes(command.target, "gone")
    BY <1>6 DEF Daemons!Connect, Daemons!days, Daemons!Goes
  <2>2. UNCHANGED <<day, marker, briefings>>
    BY <1>6 DEF Daemons!Connect, Daemons!days
  <2>3. CASE UNCHANGED daemon
    BY <2>2, <2>3 DEF Briefed
  <2>4. CASE Daemons!Goes(command.target, "gone") /\ command.target \in Daemons!Pid
    BY <1>1, <2>2, <2>4, DaemonGoes
  <2>5. CASE Daemons!Goes(command.target, "gone") /\ command.target \notin Daemons!Pid
    <3>1. UNCHANGED daemon
      BY <2>5 DEF Daemons!Goes, Daemons!TypeOK
    <3> QED BY <2>3, <3>1
  <2> QED BY <2>1, <2>3, <2>4, <2>5
<1>7. CASE \/ \E stops \in BOOLEAN : Daemons!Give(stops)
           \/ Daemons!Read \/ Daemons!Remove \/ Daemons!CommandFails \/ Daemons!MinutePasses
  <2>1. UNCHANGED <<daemon, day, marker, briefings>>
    BY <1>7 DEF Daemons!Give, Daemons!Read, Daemons!Remove, Daemons!CommandFails,
                Daemons!MinutePasses, Daemons!days, Daemons!pids
  <2> QED BY <2>1 DEF Briefed
<1>8. CASE Daemons!DayPasses
  <2>1. UNCHANGED <<daemon, marker, briefings>> /\ day' = day + 1
    BY <1>8 DEF Daemons!DayPasses, Daemons!pids
  <2> QED BY <1>0, <2>1 DEF Briefed
<1> QED BY <1>2, <1>3, <1>4, <1>5, <1>6, <1>7, <1>8 DEF Daemons!Next

LEMMA DaemonStep == DaemonInv /\ [WorkbenchNext]_workbench => DaemonInv'
<1>1. DaemonInv /\ UNCHANGED service => DaemonInv'
  BY DEF service, DaemonInv, Daemons!TypeOK, InTurn, Alone, Briefed, Daemons!IsProcessAlive,
         Daemons!Scheduling, Daemons!At, Daemons!Listens
<1>2. DaemonInv /\ Daemons!Next => DaemonInv'
  BY DaemonTyped, InTurnBefore, AloneStep, BriefedStep DEF DaemonInv
<1> QED BY <1>1, <1>2 DEF WorkbenchNext, workbench

LEMMA DaemonStart == WorkbenchInit => DaemonInv
<1> SUFFICES ASSUME Daemons!Init PROVE DaemonInv
  BY DEF WorkbenchInit
<1>1. 1 \in Daemons!Day /\ Daemons!AnyPort \in Port /\ 0 \in 0 .. MaxCommands
  BY WorkbenchAssumption DEF Daemons!Day, Daemons!AnyPort
<1>2. Daemons!TypeOK
  BY <1>1 DEF Daemons!Init, Daemons!TypeOK, Daemons!Process, Daemons!Command, Daemons!Idle
<1>3. Alone
  BY DEF Daemons!Init, Alone, Daemons!IsProcessAlive, Daemons!Idle
<1>4. Briefed
  BY <1>1 DEF Daemons!Init, Briefed, Daemons!Scheduling, Daemons!At, Daemons!Listens, Daemons!Never
<1> QED BY <1>2, <1>3, <1>4 DEF DaemonInv

\* However commands, Ctrl+C, refused ports and deaths follow each other, as long as each
\* command waits for the one before: the daemon that listens is the one that the pid file
\* names, so there is but one (cmd_start, cmd_stop, cmd_status).
THEOREM ListenerIsFound == WorkbenchSpec => []FoundByItsFile
<1>1. DaemonInv => FoundByItsFile
  BY DEF DaemonInv, InTurn, Alone, FoundByItsFile, Daemons!FoundByItsFile, Daemons!Listens
<1> QED BY <1>1, DaemonStart, DaemonStep, PTL DEF WorkbenchSpec

\* Under the same condition no day has two briefings, whenever ticks come, days pass, the
\* schedule is edited, and daemons die while they write and are started again
\* (briefing_scheduler).
THEOREM BriefedOnce == WorkbenchSpec => []OneBriefingADay
<1>1. DaemonInv => OneBriefingADay
  BY DEF DaemonInv, InTurn, Briefed, OneBriefingADay, Daemons!OneBriefingADay
<1> QED BY <1>1, DaemonStart, DaemonStep, PTL DEF WorkbenchSpec

-----------------------------------------------------------------------------
(* The sessions of coding agents. *)

IsSession(s) ==
  s \in [status : {s.status}, doing : {s.doing}, todos : {s.todos}, progress : {s.progress},
         finished : {s.finished}]

\* The progress is that of the list; what else there is of a session does not matter.
TellsItsList(s) == IsSession(s) /\ s.progress = Agents!ProgressFrom(s.todos)

LEMMA NoListNoProgress == Agents!ProgressFrom(<< >>) = Agents!NoProgress
BY Zenon DEF Agents!ProgressFrom

\* record
LEMMA RecordedTells ==
  ASSUME NEW s, IsSession(s), NEW todos, NEW done
  PROVE  TellsItsList(Agents!Recorded(s, todos, done))
<1> DEFINE progress == Agents!ProgressFrom(todos)
           finished == done \o s.finished
           kept == SubSeq(finished, 1, Agents!Min({FINISHED_KEEP, Len(finished)}))
           shown == IF progress.current # Agents!None THEN progress.current ELSE s.doing
<1>1. Agents!Recorded(s, todos, done) =
        [s EXCEPT !.todos = todos, !.progress = progress, !.doing = shown, !.finished = kept]
  BY Zenon DEF Agents!Recorded
<1> HIDE DEF progress, kept, shown
<1>2. /\ IsSession([s EXCEPT !.todos = todos, !.progress = progress, !.doing = shown,
                            !.finished = kept])
      /\ Agents!Recorded(s, todos, done).todos = todos
      /\ Agents!Recorded(s, todos, done).progress = progress
  BY <1>1 DEF IsSession
<1> QED BY <1>1, <1>2 DEF TellsItsList, progress

\* apply
LEMMA ApplyTells ==
  ASSUME NEW s, TellsItsList(s), NEW h \in Agents!Hook
  PROVE  TellsItsList(Agents!Apply(s, h))
<1>1. IsSession(s)
  BY DEF TellsItsList
<1>2. ASSUME NEW u, TellsItsList(u), NEW status
      PROVE  TellsItsList([u EXCEPT !.status = status])
  BY <1>2 DEF TellsItsList, IsSession
<1>3. ASSUME NEW doing PROVE TellsItsList([s EXCEPT !.doing = doing])
  BY DEF TellsItsList, IsSession
<1>4. TellsItsList(Agents!TodoWrite(s, h))
  BY <1>1, RecordedTells DEF Agents!TodoWrite
<1>5. TellsItsList(Agents!TaskCreate(s, h))
  BY <1>1, RecordedTells DEF Agents!TaskCreate
<1>6. TellsItsList(Agents!TaskUpdate(s, h))
  BY <1>1, RecordedTells DEF Agents!TaskUpdate
<1>7. TellsItsList(Agents!UserPromptSubmit(s))
  <2> DEFINE through == s.progress # Agents!NoProgress /\ s.progress.done >= s.progress.total
             progress == IF through THEN Agents!NoProgress ELSE s.progress
             todos == IF through THEN << >> ELSE s.todos
  <2>1. Agents!UserPromptSubmit(s) =
          [s EXCEPT !.doing = Agents!None, !.progress = progress, !.todos = todos]
    BY Zenon DEF Agents!UserPromptSubmit
  <2>2. progress = Agents!ProgressFrom(todos)
    BY NoListNoProgress, Zenon DEF TellsItsList
  <2> HIDE DEF progress, todos
  <2>3. /\ IsSession([s EXCEPT !.doing = Agents!None, !.progress = progress, !.todos = todos])
        /\ Agents!UserPromptSubmit(s).todos = todos
        /\ Agents!UserPromptSubmit(s).progress = progress
    BY <1>1, <2>1 DEF IsSession
  <2> QED BY <2>1, <2>2, <2>3 DEF TellsItsList
<1> DEFINE pre == IF h.tool = "TodoWrite" THEN Agents!TodoWrite(s, h) ELSE [s EXCEPT !.doing = h.tool]
           post == IF h.tool = "TaskCreate" THEN Agents!TaskCreate(s, h) ELSE Agents!TaskUpdate(s, h)
<1>8. TellsItsList(pre) /\ TellsItsList(post)
  BY <1>3, <1>4, <1>5, <1>6
<1>9. Agents!Apply(s, h) \in
        {[pre EXCEPT !.status = "working"], [post EXCEPT !.status = "working"],
         [Agents!UserPromptSubmit(s) EXCEPT !.status = "working"],
         [s EXCEPT !.status = "waiting_approval"], [s EXCEPT !.status = "idle"],
         [s EXCEPT !.status = "done"]}
  <2>1. h.event \in {"PreToolUse", "PostToolUse", "UserPromptSubmit", "ask", "idle", "Stop"}
    BY DEF Agents!Hook
  <2> QED BY <2>1 DEF Agents!Apply
<1> HIDE DEF pre, post
<1> QED BY <1>2, <1>7, <1>8, <1>9

\* Whatever hooks arrive in whatever order, the progress that is shown is that of the list
\* that is shown (Agents::apply, progress_from).
THEOREM ProgressAlwaysTells == WorkbenchSpec => []ProgressTellsTheList
<1>1. WorkbenchInit => TellsItsList(session)
  BY NoListNoProgress
     DEF WorkbenchInit, Agents!Init, Agents!NewSession, TellsItsList, IsSession
<1>2. TellsItsList(session) /\ [WorkbenchNext]_workbench => TellsItsList(session)'
  <2>1. TellsItsList(session) /\ Agents!Next => TellsItsList(session)'
    BY ApplyTells DEF Agents!Next
  <2> QED BY <2>1 DEF WorkbenchNext, workbench
<1>3. TellsItsList(session) => ProgressTellsTheList
  BY DEF TellsItsList, ProgressTellsTheList, Agents!ProgressTellsTheList
<1> QED BY <1>1, <1>2, <1>3, PTL DEF WorkbenchSpec

-----------------------------------------------------------------------------
(* What a session finished. *)

\* What is picked, place by place.
LEMMA PickedTells ==
  ASSUME NEW S, NEW s \in Seq(S), NEW I \in SUBSET DOMAIN s, NEW q, q = Picked(s, I)
  PROVE  /\ q \in Seq(S)
         /\ \A j \in DOMAIN q : Nth(I, j) \in I /\ q[j] = s[Nth(I, j)]
         /\ \A k \in I : \E j \in DOMAIN q : q[j] = s[k]
<1>1. /\ Picked(s, I) \in Seq(S)
      /\ \A j \in DOMAIN Picked(s, I) : Nth(I, j) \in I /\ Picked(s, I)[j] = s[Nth(I, j)]
      /\ \A k \in I : \E j \in DOMAIN Picked(s, I) : Picked(s, I)[j] = s[k]
  BY PickedList
<1> QED BY <1>1

\* The Picked that the sessions use is the one of Lists.
LEMMA AgentsPicked == \A s, I : Agents!Picked(s, I) = Picked(s, I)
<1>1. ASSUME NEW I PROVE Agents!Cardinality(I) = Cardinality(I)
  BY Zenon DEF Agents!Cardinality, Cardinality
<1>2. ASSUME NEW I, NEW j PROVE Agents!Nth(I, j) = Nth(I, j)
  <2>1. \A k : (Agents!Cardinality({i \in I : i <= k}) = j) = (Cardinality({i \in I : i <= k}) = j)
    BY <1>1
  <2> QED BY <2>1, Zenon DEF Agents!Nth, Nth
<1>3. ASSUME NEW s, NEW I PROVE Agents!Picked(s, I) = Picked(s, I)
  BY <1>1, <1>2, Zenon DEF Agents!Picked, Picked
<1> QED BY <1>3

\* The content of a task that is completed.
IsDone(todos, c) == \E k \in DOMAIN todos : todos[k].status = "completed" /\ todos[k].content = c
IsIn(list, c) == \E k \in DOMAIN list : list[k] = c

\* Every task of its list that is completed is among the finished, unless they are full.
Keeps(s) ==
  /\ s \in [status : {s.status}, doing : {s.doing}, todos : Seq(Agents!Todo),
            progress : {s.progress}, finished : Seq(Content)]
  /\ Len(s.finished) <= FINISHED_KEEP
  /\ Len(s.finished) = FINISHED_KEEP \/ \A c : IsDone(s.todos, c) => IsIn(s.finished, c)

\* Completed lists the completed tasks and no other.
LEMMA CompletedList ==
  ASSUME NEW l \in Seq(Agents!Todo)
  PROVE  /\ Agents!Completed(l) \in Seq(Agents!Todo)
         /\ \A t \in Agents!ToSet(Agents!Completed(l)) : IsDone(l, t.content)
         /\ \A c : IsDone(l, c) =>
              \E k \in DOMAIN Agents!Completed(l) : Agents!Completed(l)[k].content = c
<1>a. PICK I \in SUBSET DOMAIN l : I = {k \in DOMAIN l : l[k].status = "completed"}
  OBVIOUS
<1>b. PICK d : d = Agents!Completed(l)
  OBVIOUS
<1>1. d = Picked(l, I)
  BY <1>a, <1>b, AgentsPicked DEF Agents!Completed, Agents!With
<1>2. /\ d \in Seq(Agents!Todo)
      /\ \A j \in DOMAIN d : Nth(I, j) \in I /\ d[j] = l[Nth(I, j)]
      /\ \A k \in I : \E j \in DOMAIN d : d[j] = l[k]
  BY <1>1, PickedTells
<1>3. ASSUME NEW j \in DOMAIN d PROVE IsDone(l, d[j].content)
  BY <1>a, <1>2 DEF IsDone
<1>4. ASSUME NEW c, IsDone(l, c) PROVE \E j \in DOMAIN d : d[j].content = c
  <2>1. PICK k \in I : l[k].content = c
    BY <1>a, <1>4 DEF IsDone
  <2> QED BY <1>2, <2>1
<1> QED BY <1>b, <1>2, <1>3, <1>4 DEF Agents!ToSet

\* newly_finished
LEMMA NewlyFinishedList ==
  ASSUME NEW before \in Seq(Agents!Todo), NEW after \in Seq(Agents!Todo)
  PROVE  /\ Agents!NewlyFinished(before, after) \in Seq(Content)
         /\ \A c : IsDone(after, c) =>
              IsDone(before, c) \/ IsIn(Agents!NewlyFinished(before, after), c)
<1>a. PICK old, done, I, new, f :
      /\ old = Agents!ToSet(Agents!Completed(before))
      /\ done = Agents!Completed(after)
      /\ I = {k \in DOMAIN done : \A b \in old : b.content # done[k].content}
      /\ new = Agents!Picked(done, I)
      /\ f = [k \in DOMAIN new |-> new[k].content]
  OBVIOUS
<1>1. f = Agents!NewlyFinished(before, after)
  BY <1>a DEF Agents!NewlyFinished
<1>2. done \in Seq(Agents!Todo) /\ I \in SUBSET DOMAIN done
  BY <1>a, CompletedList
<1>3. new = Picked(done, I)
  BY <1>a, AgentsPicked
<1>4. /\ new \in Seq(Agents!Todo)
      /\ \A k \in I : \E j \in DOMAIN new : new[j] = done[k]
  BY <1>2, <1>3, PickedTells
<1>5. f \in Seq(Content)
  <2>1. \A k \in DOMAIN new : new[k].content \in Content
    <3>1. \A k \in DOMAIN new : new[k] \in Agents!Todo
      BY <1>4
    <3> QED BY <3>1 DEF Agents!Todo
  <2>2. DOMAIN new = 1 .. Len(new) /\ Len(new) \in Nat
    BY <1>4
  <2>3. f = [k \in 1 .. Len(new) |-> new[k].content]
    BY <1>a, <2>2
  <2> QED BY <2>1, <2>2, <2>3
<1>6. ASSUME NEW c, IsDone(after, c), ~IsDone(before, c) PROVE IsIn(f, c)
  <2>1. PICK k \in DOMAIN done : done[k].content = c
    BY <1>a, <1>6, CompletedList
  <2>2. \A b \in old : b.content # c
    BY <1>a, <1>6, CompletedList
  <2>3. k \in I
    BY <1>a, <2>1, <2>2
  <2>4. PICK j \in DOMAIN new : new[j] = done[k]
    BY <1>4, <2>3
  <2>5. j \in DOMAIN f /\ f[j] = c
    BY <1>a, <2>1, <2>4
  <2> QED BY <2>5 DEF IsIn
<1> QED BY <1>1, <1>5, <1>6

\* record
LEMMA RecordedKeeps ==
  ASSUME NEW s, Keeps(s), NEW todos \in Seq(Agents!Todo), NEW done \in Seq(Content),
         \A c : IsDone(todos, c) => IsDone(s.todos, c) \/ IsIn(done, c)
  PROVE  Keeps(Agents!Recorded(s, todos, done))
<1>a. PICK progress, shown, finished, n, kept :
      /\ progress = Agents!ProgressFrom(todos)
      /\ shown = IF progress.current # Agents!None THEN progress.current ELSE s.doing
      /\ finished = done \o s.finished
      /\ n = Agents!Min({FINISHED_KEEP, Len(finished)})
      /\ kept = SubSeq(finished, 1, n)
  OBVIOUS
<1>1. Agents!Recorded(s, todos, done) =
        [s EXCEPT !.todos = todos, !.progress = progress, !.doing = shown, !.finished = kept]
  BY <1>a, Zenon DEF Agents!Recorded
<1>2. /\ s.finished \in Seq(Content) /\ FINISHED_KEEP \in Nat
      /\ finished \in Seq(Content) /\ Len(finished) = Len(done) + Len(s.finished)
      /\ \A k \in 1 .. Len(done) : finished[k] = done[k]
      /\ \A k \in 1 .. Len(s.finished) : finished[Len(done) + k] = s.finished[k]
  <2>1. s.finished \in Seq(Content) /\ FINISHED_KEEP \in Nat
    BY WorkbenchAssumption DEF Keeps
  <2>2. \A e \in Seq(Content) :
          /\ done \o e \in Seq(Content) /\ Len(done \o e) = Len(done) + Len(e)
          /\ \A k \in 1 .. Len(done) : (done \o e)[k] = done[k]
          /\ \A k \in 1 .. Len(e) : (done \o e)[Len(done) + k] = e[k]
    OBVIOUS
  <2> QED BY <1>a, <2>1, <2>2
<1>3. /\ n \in Nat /\ n <= FINISHED_KEEP /\ n <= Len(finished)
      /\ n = FINISHED_KEEP \/ n = Len(finished)
  <2>1. Len(finished) \in Nat /\ FINISHED_KEEP \in Nat
    BY <1>2
  <2>2. \E x \in {FINISHED_KEEP, Len(finished)} : \A y \in {FINISHED_KEEP, Len(finished)} : x <= y
    BY <2>1
  <2>3. n \in {FINISHED_KEEP, Len(finished)} /\ \A y \in {FINISHED_KEEP, Len(finished)} : n <= y
    BY <1>a, <2>2 DEF Agents!Min
  <2> QED BY <2>1, <2>3
<1>4. kept \in Seq(Content) /\ Len(kept) = n /\ \A k \in 1 .. n : kept[k] = finished[k]
  <2>1. finished \in Seq(Content) /\ n \in 0 .. Len(finished)
    BY <1>2, <1>3
  <2>2. ASSUME NEW e \in Seq(Content), NEW m \in Nat, m <= Len(e)
        PROVE  /\ SubSeq(e, 1, m) \in Seq(Content) /\ Len(SubSeq(e, 1, m)) = m
               /\ \A k \in 1 .. m : SubSeq(e, 1, m)[k] = e[k]
    BY <2>2
  <2>3. /\ SubSeq(finished, 1, n) \in Seq(Content) /\ Len(SubSeq(finished, 1, n)) = n
        /\ \A k \in 1 .. n : SubSeq(finished, 1, n)[k] = finished[k]
    BY <1>3, <2>1, <2>2
  <2> QED BY <1>a, <2>3
<1>5. ASSUME n # FINISHED_KEEP, NEW c, IsDone(todos, c) PROVE IsIn(kept, c)
  <2>1. n = Len(done) + Len(s.finished) /\ Len(done) \in Nat /\ Len(s.finished) \in Nat
    BY <1>2, <1>3, <1>5
  <2>2. Len(s.finished) # FINISHED_KEEP
    BY <1>3, <1>5, <2>1, <1>2
  <2>3. IsIn(done, c) \/ IsIn(s.finished, c)
    BY <1>5, <2>2 DEF Keeps
  <2>4. CASE IsIn(done, c)
    <3>1. PICK k \in 1 .. Len(done) : done[k] = c
      BY <2>4 DEF IsIn
    <3>2. k \in 1 .. n /\ k \in DOMAIN kept
      BY <1>4, <2>1
    <3> QED BY <1>2, <1>4, <3>1, <3>2 DEF IsIn
  <2>5. CASE IsIn(s.finished, c)
    <3>1. PICK k \in 1 .. Len(s.finished) : s.finished[k] = c
      BY <1>2, <2>5 DEF IsIn
    <3>2. Len(done) + k \in 1 .. n /\ Len(done) + k \in DOMAIN kept
      BY <1>4, <2>1
    <3> QED BY <1>2, <1>4, <3>1, <3>2 DEF IsIn
  <2> QED BY <2>3, <2>4, <2>5
<1>6. PICK r : r = Agents!Recorded(s, todos, done)
  OBVIOUS
<1>7. /\ r \in [status : {r.status}, doing : {r.doing}, todos : Seq(Agents!Todo),
                progress : {r.progress}, finished : Seq(Content)]
      /\ r.finished = kept /\ r.todos = todos
  BY <1>1, <1>4, <1>6 DEF Keeps
<1> QED BY <1>3, <1>4, <1>5, <1>6, <1>7 DEF Keeps

\* apply
LEMMA ApplyKeeps ==
  ASSUME NEW s, Keeps(s), NEW h \in Agents!Hook
  PROVE  Keeps(Agents!Apply(s, h))
<1>1. s.todos \in Seq(Agents!Todo) /\ s.finished \in Seq(Content)
  BY DEF Keeps
<1>2. ASSUME NEW u, Keeps(u), NEW status
      PROVE  Keeps([u EXCEPT !.status = status])
  BY <1>2 DEF Keeps
<1>3. ASSUME NEW doing PROVE Keeps([s EXCEPT !.doing = doing])
  BY DEF Keeps
<1>4. ASSUME h.event = "PreToolUse", h.tool = "TodoWrite" PROVE Keeps(Agents!TodoWrite(s, h))
  <2>1. h.todos \in Agents!BoundedSeq(Agents!Todo, MaxTasks)
    BY <1>4 DEF Agents!Hook
  <2>2. h.todos \in Seq(Agents!Todo)
    BY <2>1, WorkbenchAssumption DEF Agents!BoundedSeq, Agents!SeqOf
  <2> QED BY <1>1, <2>2, NewlyFinishedList, RecordedKeeps DEF Agents!TodoWrite
<1>5. ASSUME h.event = "PostToolUse", h.tool = "TaskCreate" PROVE Keeps(Agents!TaskCreate(s, h))
  <2>1. CASE \E t \in Agents!ToSet(s.todos) : t.id = h.id
    BY <2>1 DEF Agents!TaskCreate
  <2>2. CASE ~\E t \in Agents!ToSet(s.todos) : t.id = h.id
    <3>a. PICK t, l : t = [id |-> h.id, content |-> h.subject, status |-> "pending"]
                    /\ l = Append(s.todos, t)
      OBVIOUS
    <3>1. t \in Agents!Todo /\ t.status # "completed"
      BY <1>5, <3>a DEF Agents!Hook, Agents!Todo, Agents!TodoStatus
    <3>2. /\ l \in Seq(Agents!Todo) /\ DOMAIN l = 1 .. Len(s.todos) + 1
          /\ l[Len(s.todos) + 1] = t /\ \A k \in 1 .. Len(s.todos) : l[k] = s.todos[k]
      BY <1>1, <3>a, <3>1
    <3>3. ASSUME NEW c, IsDone(l, c) PROVE IsDone(s.todos, c)
      <4>1. PICK k \in DOMAIN l : l[k].status = "completed" /\ l[k].content = c
        BY <3>3 DEF IsDone
      <4>2. k \in 1 .. Len(s.todos) /\ k \in DOMAIN s.todos
        BY <1>1, <3>1, <3>2, <4>1
      <4> QED BY <3>2, <4>1, <4>2 DEF IsDone
    <3>4. Keeps(Agents!Recorded(s, l, << >>))
      <4>1. << >> \in Seq(Content) /\ l \in Seq(Agents!Todo)
        BY <3>2
      <4> QED BY <3>3, <4>1, RecordedKeeps
    <3> QED BY <2>2, <3>a, <3>4 DEF Agents!TaskCreate
  <2> QED BY <2>1, <2>2
<1>6. ASSUME h.event = "PostToolUse", h.tool # "TaskCreate" PROVE Keeps(Agents!TaskUpdate(s, h))
  <2>1. h.status \in Agents!TodoStatus \cup {"deleted", Agents!None}
        /\ h.subject \in Content \cup {Agents!None}
    BY <1>6 DEF Agents!Hook
  <2> DEFINE Changed(t) == [t EXCEPT !.status = IF h.status = Agents!None THEN @ ELSE h.status,
                                     !.content = IF h.subject = Agents!None THEN @ ELSE h.subject]
  <2>a. PICK places, after :
        /\ places = {k \in DOMAIN s.todos : s.todos[k].id = h.id}
        /\ after = IF h.status = "deleted" THEN Agents!Picked(s.todos, DOMAIN s.todos \ places)
                   ELSE IF places = {} THEN s.todos
                   ELSE [s.todos EXCEPT ![Agents!Min(places)] = Changed(@)]
    OBVIOUS
  <2>2. after \in Seq(Agents!Todo)
    <3>1. CASE h.status = "deleted"
      <4>1. PICK J \in SUBSET DOMAIN s.todos : J = DOMAIN s.todos \ places
        OBVIOUS
      <4>2. after = Picked(s.todos, J)
        BY <2>a, <3>1, <4>1, AgentsPicked
      <4> QED BY <1>1, <4>2, PickedTells
    <3>2. CASE h.status # "deleted" /\ places # {}
      <4> PICK n : n = Agents!Min(places)
        OBVIOUS
      <4>1. \A t \in Agents!Todo : Changed(t) \in Agents!Todo
        BY <2>1, <3>2 DEF Agents!Todo
      <4>2. \A k \in DOMAIN s.todos : s.todos[k] \in Agents!Todo
        BY <1>1
      <4> HIDE DEF Changed
      <4>3. after = [s.todos EXCEPT ![n] = Changed(s.todos[n])]
        BY <2>a, <3>2
      <4>4. DOMAIN after = DOMAIN s.todos /\ \A k \in DOMAIN s.todos : after[k] \in Agents!Todo
        BY <4>1, <4>2, <4>3
      <4>5. after = [k \in 1 .. Len(s.todos) |-> after[k]] /\ Len(s.todos) \in Nat
            /\ DOMAIN s.todos = 1 .. Len(s.todos)
        BY <1>1, <4>3, SMTT(60)
      <4> QED BY <4>4, <4>5
    <3>3. CASE h.status # "deleted" /\ places = {}
      BY <1>1, <2>a, <3>3
    <3> QED BY <3>1, <3>2, <3>3
  <2>3. Agents!TaskUpdate(s, h) =
          Agents!Recorded(s, after, Agents!NewlyFinished(s.todos, after))
    BY <2>a, Zenon DEF Agents!TaskUpdate
  <2>4. PICK f \in Seq(Content) :
          /\ f = Agents!NewlyFinished(s.todos, after)
          /\ \A c : IsDone(after, c) => IsDone(s.todos, c) \/ IsIn(f, c)
    BY <1>1, <2>2, NewlyFinishedList
  <2> QED BY <2>2, <2>3, <2>4, RecordedKeeps
<1>7. Keeps(Agents!UserPromptSubmit(s))
  <2> PICK through, progress, todos, u :
        /\ through = (s.progress # Agents!NoProgress /\ s.progress.done >= s.progress.total)
        /\ progress = IF through THEN Agents!NoProgress ELSE s.progress
        /\ todos = IF through THEN << >> ELSE s.todos
        /\ u = [s EXCEPT !.doing = Agents!None, !.progress = progress, !.todos = todos]
    OBVIOUS
  <2>1. Agents!UserPromptSubmit(s) = u
    BY Zenon DEF Agents!UserPromptSubmit
  <2>2. todos \in Seq(Agents!Todo) /\ \A c : IsDone(todos, c) => IsDone(s.todos, c)
    BY <1>1 DEF IsDone
  <2>3. u.todos = todos /\ u.finished = s.finished
        /\ u \in [status : {u.status}, doing : {u.doing}, todos : Seq(Agents!Todo),
                  progress : {u.progress}, finished : Seq(Content)]
    BY <1>1, <2>2 DEF Keeps
  <2> QED BY <2>1, <2>2, <2>3 DEF Keeps
<1>8. h.event \in {"PreToolUse", "PostToolUse", "UserPromptSubmit", "ask", "idle", "Stop"}
  BY DEF Agents!Hook
<1>9. CASE h.event = "PreToolUse"
  <2> PICK u : u = IF h.tool = "TodoWrite" THEN Agents!TodoWrite(s, h)
                    ELSE [s EXCEPT !.doing = h.tool]
    OBVIOUS
  <2>1. Agents!Apply(s, h) = [u EXCEPT !.status = "working"]
    BY <1>9 DEF Agents!Apply
  <2> QED BY <1>2, <1>3, <1>4, <1>9, <2>1
<1>10. CASE h.event = "PostToolUse"
  <2> PICK u : u = IF h.tool = "TaskCreate" THEN Agents!TaskCreate(s, h)
                    ELSE Agents!TaskUpdate(s, h)
    OBVIOUS
  <2>1. Agents!Apply(s, h) = [u EXCEPT !.status = "working"]
    BY <1>10 DEF Agents!Apply
  <2> QED BY <1>2, <1>5, <1>6, <1>10, <2>1
<1>11. CASE h.event = "UserPromptSubmit"
  BY <1>2, <1>7, <1>11 DEF Agents!Apply
<1>12. CASE h.event \in {"ask", "idle", "Stop"}
  BY <1>2, <1>12 DEF Agents!Apply
<1> QED BY <1>8, <1>9, <1>10, <1>11, <1>12

\* What a session finished is not lost with its list: every task of the list that is
\* completed is among the finished under the name it has, unless newer ones fill them,
\* whatever hooks arrive in whatever order (Agents::apply, newly_finished).
THEOREM FinishedAlwaysKept == WorkbenchSpec => []FinishedIsKept
<1>1. WorkbenchInit => Keeps(session)
  <2>1. Agents!Init => Keeps(session)
    BY WorkbenchAssumption DEF Agents!Init, Agents!NewSession, Keeps, IsDone
  <2> QED BY <2>1 DEF WorkbenchInit
<1>2. Keeps(session) /\ [WorkbenchNext]_workbench => Keeps(session)'
  <2>1. Keeps(session) /\ Agents!Next => Keeps(session)'
    BY ApplyKeeps DEF Agents!Next
  <2> QED BY <2>1 DEF WorkbenchNext, workbench
<1>3. Keeps(session) => FinishedIsKept
  <2>1. ASSUME Keeps(session), NEW t \in Agents!ToSet(Agents!Completed(session.todos)),
               IsIn(session.finished, t.content)
        PROVE  t.content \in Agents!ToSet(session.finished)
    BY <2>1 DEF IsIn, Agents!ToSet
  <2>2. ASSUME Keeps(session), NEW t \in Agents!ToSet(Agents!Completed(session.todos))
        PROVE  IsDone(session.todos, t.content)
    <3>1. session.todos \in Seq(Agents!Todo)
      BY <2>2 DEF Keeps
    <3> QED BY <2>2, <3>1, CompletedList
  <2> QED BY <2>1, <2>2 DEF Keeps, FinishedIsKept, Agents!FinishedIsKept
<1> QED BY <1>1, <1>2, <1>3, PTL DEF WorkbenchSpec

-----------------------------------------------------------------------------
(* The board. *)

\* What an instance counts and picks is what is counted and picked here.
LEMMA TasksCounted ==
  \A I : Tasks!Cardinality(I) = Cardinality(I) /\ Tasks!IsFiniteSet(I) = IsFiniteSet(I)
<1>1. ASSUME NEW I PROVE Tasks!Cardinality(I) = Cardinality(I)
  BY Zenon DEF Tasks!Cardinality, Cardinality
<1>2. ASSUME NEW I PROVE Tasks!IsFiniteSet(I) = IsFiniteSet(I)
  BY Zenon DEF Tasks!IsFiniteSet, IsFiniteSet
<1> QED BY <1>1, <1>2

\* The Picked that the board uses is the one of Lists.
LEMMA TasksPicked == \A s, I : Tasks!Picked(s, I) = Picked(s, I)
<1>1. ASSUME NEW I, NEW j PROVE Tasks!Nth(I, j) = Nth(I, j)
  <2>1. \A k : (Tasks!Cardinality({i \in I : i <= k}) = j) = (Cardinality({i \in I : i <= k}) = j)
    BY TasksCounted
  <2> QED BY <2>1, Zenon DEF Tasks!Nth, Nth
<1>2. \A I : Tasks!Cardinality(I) = Cardinality(I)
  BY TasksCounted
<1>3. ASSUME NEW s, NEW I PROVE Tasks!Picked(s, I) = Picked(s, I)
  BY <1>1, <1>2, Zenon DEF Tasks!Picked, Picked
<1> QED BY <1>3

\* Tasks with a number, before it is known to be within the bound.
Numbered == [id : Nat, sync : Marker \cup Tasks!Unsynced, column : Tasks!Column]

\* No number and no marker comes twice.
OneEach(list) ==
  \A j, k \in DOMAIN list : j # k =>
    /\ list[j].id # list[k].id
    /\ list[j].sync = list[k].sync => list[j].sync \in Tasks!Unsynced

\* What is read from a file has no hash that the file could not keep.
Kept(list) == \A k \in DOMAIN list : list[k].sync \notin Spoilt

\* What a sync leaves: every marker it found has a task, and no task is open without one,
\* if there is a column to resolve it to.
Settled(list, headings, scan) ==
  /\ \A m \in scan : \E k \in DOMAIN list : list[k].sync = m
  /\ \A k \in DOMAIN list :
       list[k].sync \in scan \cup Tasks!Unsynced \/ list[k].column = "Done" \/ "Done" \notin headings

\* Whatever is on the board is on this list, or there is a reason why it is not.
Accounted(s, archived) ==
  \A k \in DOMAIN board :
    \/ \E j \in DOMAIN s.board : /\ s.board[j].id = board[k].id
                                 /\ s.board[j].sync = board[k].sync \/ s.op = "edit"
    \/ s.op = "archive" /\ board[k].column = "Done" /\ board[k].id \in archived
    \/ s.op = "clean" /\ board[k].sync \notin s.scan \cup {Tasks!NotSynced}

ProgramRight(s) ==
  /\ OneEach(s.board)
  /\ s.alone => s.columns = columns
  /\ s.pc \in {"loaded", "return"} /\ s.alone => s.board = board
  /\ s.pc = "archiving" =>
       s.op = "archive" /\ (s.alone => Accounted(s, s.seen \cup s.old))
  /\ s.pc \in {"save", "return"} =>
       /\ s.alone => Accounted(s, archive)
       /\ s.op \in {"sync", "clean"} => Settled(s.board, s.columns, s.scan)

BoardInv ==
  /\ Tasks!TypeOK /\ OneEach(board) /\ Kept(board)
  /\ \A p \in Program : ProgramRight(program[p])

\* A list of tasks is one of numbered tasks, and one whose numbers are within the bound.
LEMMA NumberedTasks ==
  /\ Tasks!Task \subseteq Numbered
  /\ \A l \in Seq(Tasks!Task) : l \in Seq(Numbered)
  /\ \A l \in Seq(Numbered) : Tasks!Ids(l) \subseteq Tasks!Id => l \in Seq(Tasks!Task)
<1>1. Tasks!Task \subseteq Numbered
  BY WorkbenchAssumption DEF Tasks!Task, Numbered, Tasks!Id
<1>2. ASSUME NEW l \in Seq(Tasks!Task) PROVE l \in Seq(Numbered)
  BY <1>1
<1>3. ASSUME NEW l \in Seq(Numbered), Tasks!Ids(l) \subseteq Tasks!Id PROVE l \in Seq(Tasks!Task)
  <2>1. \A k \in DOMAIN l : l[k] \in Numbered /\ l[k].id \in Tasks!Id
    BY <1>3 DEF Tasks!Ids
  <2>2. \A t \in Numbered : t.id \in Tasks!Id => t \in Tasks!Task
    BY DEF Tasks!Task, Numbered
  <2>3. \A k \in 1 .. Len(l) : l[k] \in Tasks!Task
    BY <2>1, <2>2
  <2> QED BY <2>3
<1> QED BY <1>1, <1>2, <1>3

\* The numbers of tasks are naturals.
LEMMA NumbersAreNat ==
  ASSUME NEW l \in Seq(Numbered) PROVE \A k \in DOMAIN l : l[k] \in Numbered /\ l[k].id \in Nat
<1>1. \A k \in DOMAIN l : l[k] \in Numbered
  OBVIOUS
<1> QED BY <1>1 DEF Numbered

\* next_id: higher than any number there is.
LEMMA NextIdIsNew ==
  ASSUME NEW l \in Seq(Numbered)
  PROVE  Tasks!NextId(l) \in Nat /\ \A k \in DOMAIN l : l[k].id < Tasks!NextId(l)
<1> DEFINE ids == {l[k].id : k \in DOMAIN l}
           S == ids \cup {0}
           f == [k \in DOMAIN l |-> l[k].id]
<1>1. \A k \in DOMAIN l : l[k].id \in Nat
  BY NumbersAreNat
<1>2. S \in SUBSET Int /\ S \in SUBSET Nat /\ S # {} /\ IsFiniteSet(S)
  <2>1. IsFiniteSet(DOMAIN l)
    <3>1. DOMAIN l = 1 .. Len(l) /\ Len(l) \in Int
      OBVIOUS
    <3> QED BY <3>1, FS_Interval
  <2>2. f \in Surjection(DOMAIN l, ids)
    BY DEF Surjection
  <2>3. IsFiniteSet(ids)
    <3> HIDE DEF ids, f
    <3> QED BY <2>1, <2>2, FS_Surjection
  <2>4. IsFiniteSet(S)
    <3> HIDE DEF ids
    <3> QED BY <2>3, FS_AddElement
  <2> QED BY <1>1, <2>4
<1>3. \E x \in S : \A y \in S : x >= y
  <2> HIDE DEF S
  <2> QED BY <1>2, LargestOne
<1>4. Tasks!NextId(l) = Tasks!Max(S) + 1
  BY DEF Tasks!NextId, Tasks!Ids
<1>5. Tasks!Max(S) \in S /\ \A y \in S : Tasks!Max(S) >= y
  <2> HIDE DEF S
  <2> QED BY <1>3 DEF Tasks!Max
<1>6. Tasks!Max(S) \in Nat
  BY <1>2, <1>5
<1>7. \A k \in DOMAIN l : l[k].id \in S
  OBVIOUS
<1> HIDE DEF S
<1> QED BY <1>1, <1>4, <1>5, <1>6, <1>7

\* add_task
LEMMA AddTaskKeepsOneEach ==
  ASSUME NEW l \in Seq(Numbered), OneEach(l), NEW m \in Marker \cup Tasks!Unsynced,
         NEW c \in Tasks!Column,
         \A k \in DOMAIN l : l[k].sync # m \/ m \in Tasks!Unsynced
  PROVE  /\ Tasks!AddTask(l, m, c) \in Seq(Numbered) /\ OneEach(Tasks!AddTask(l, m, c))
         /\ Len(Tasks!AddTask(l, m, c)) = Len(l) + 1
         /\ \A k \in 1 .. Len(l) : Tasks!AddTask(l, m, c)[k] = l[k]
         /\ Tasks!AddTask(l, m, c)[Len(l) + 1].sync = m
<1> DEFINE t == [id |-> Tasks!NextId(l), sync |-> m, column |-> c]
           a == Tasks!AddTask(l, m, c)
<1>1. t \in Numbered /\ t.id = Tasks!NextId(l) /\ t.sync = m
  BY NextIdIsNew DEF Numbered
<1>2. a = Append(l, t)
  BY DEF Tasks!AddTask
<1>3. \A k \in 1 .. Len(l) : l[k].id \in Nat /\ l[k].id # t.id
  <2>1. \A k \in DOMAIN l : l[k].id \in Nat /\ l[k].id < Tasks!NextId(l)
    BY NextIdIsNew, NumbersAreNat
  <2>2. Tasks!NextId(l) \in Nat /\ DOMAIN l = 1 .. Len(l)
    BY NextIdIsNew
  <2> HIDE DEF t
  <2> QED BY <1>1, <2>1, <2>2
<1> HIDE DEF t, a
<1>4. /\ a \in Seq(Numbered) /\ Len(a) = Len(l) + 1 /\ DOMAIN a = 1 .. Len(l) + 1
      /\ a[Len(l) + 1] = t /\ \A k \in 1 .. Len(l) : a[k] = l[k]
  BY <1>1, <1>2
<1>5. OneEach(a)
  <2> SUFFICES ASSUME NEW j \in DOMAIN a, NEW k \in DOMAIN a, j # k
               PROVE  /\ a[j].id # a[k].id
                      /\ a[j].sync = a[k].sync => a[j].sync \in Tasks!Unsynced
    BY DEF OneEach
  <2>1. CASE j \in 1 .. Len(l) /\ k \in 1 .. Len(l)
    BY <1>4, <2>1 DEF OneEach
  <2>2. CASE j = Len(l) + 1 /\ k \in 1 .. Len(l)
    BY <1>1, <1>3, <1>4, <2>2
  <2>3. CASE k = Len(l) + 1 /\ j \in 1 .. Len(l)
    BY <1>1, <1>3, <1>4, <2>3
  <2> QED BY <1>4, <2>1, <2>2, <2>3
<1> QED BY <1>1, <1>4, <1>5 DEF a

\* One task after the other is added for different markers that have none.
LEMMA AddAllKeepsOneEach ==
  ASSUME NEW l \in Seq(Numbered), OneEach(l), NEW n \in Nat, NEW new \in [1 .. n -> Marker],
         NEW c \in Tasks!Column,
         \A i \in 1 .. n : \A k \in DOMAIN l : l[k].sync # new[i],
         \A i, j \in 1 .. n : i # j => new[i] # new[j]
  PROVE  /\ Tasks!AddAll(l, new, c) \in Seq(Numbered) /\ OneEach(Tasks!AddAll(l, new, c))
         /\ Len(Tasks!AddAll(l, new, c)) = Len(l) + n
         /\ \A k \in 1 .. Len(l) : Tasks!AddAll(l, new, c)[k] = l[k]
         /\ \A i \in 1 .. n : Tasks!AddAll(l, new, c)[Len(l) + i].sync = new[i]
<1> DEFINE Adds(g, m) ==
             g = [k \in 0 .. m |-> IF k = 0 THEN l ELSE Tasks!AddTask(g[k - 1], new[k], c)]
           T == {m \in Nat : \E g : Adds(g, m)}
<1>1. Len(new) = n
  OBVIOUS
<1>2. 0 .. n \subseteq T
  <2>1. 0 \in T
    <3>1. Adds([k \in 0 .. 0 |-> l], 0)
      OBVIOUS
    <3> QED BY <3>1
  <2>2. ASSUME NEW m \in 0 .. n - 1, m \in T PROVE m + 1 \in T
    <3>1. PICK h : Adds(h, m)
      BY <2>2
    <3> DEFINE g == [k \in 0 .. m + 1 |->
                       IF k = m + 1 THEN Tasks!AddTask(h[m], new[k], c) ELSE h[k]]
    <3>2. ASSUME NEW k \in 0 .. m + 1
          PROVE  g[k] = IF k = 0 THEN l ELSE Tasks!AddTask(g[k - 1], new[k], c)
      <4>1. CASE k = m + 1
        <5>1. k # 0 /\ g[k - 1] = h[m]
          BY <4>1
        <5> QED BY <4>1, <5>1
      <4>2. CASE k # m + 1
        <5>1. k \in 0 .. m /\ g[k] = h[k]
          BY <4>2
        <5>2. k # 0 => g[k - 1] = h[k - 1]
          BY <4>2
        <5>3. h[k] = IF k = 0 THEN l ELSE Tasks!AddTask(h[k - 1], new[k], c)
          BY <3>1, <5>1
        <5> HIDE DEF g
        <5> QED BY <5>1, <5>2, <5>3
      <4> QED BY <4>1, <4>2
    <3>3. Adds(g, m + 1)
      <4>1. g = [k \in 0 .. m + 1 |-> g[k]]
        OBVIOUS
      <4> HIDE DEF g
      <4> QED BY <3>2, <4>1
    <3> HIDE DEF g, Adds
    <3> QED BY <2>2, <3>3
  <2> HIDE DEF T
  <2> QED BY <2>1, <2>2, Counting
<1> DEFINE g == CHOOSE g : Adds(g, n)
<1>3. Adds(g, n)
  <2>1. \E e : Adds(e, n)
    BY <1>2
  <2> HIDE DEF Adds
  <2> QED BY <2>1
<1>4. Tasks!AddAll(l, new, c) = g[n]
  BY <1>1 DEF Tasks!AddAll
<1> HIDE DEF g, T
<1> DEFINE U == {m \in 0 .. n :
                   /\ g[m] \in Seq(Numbered) /\ OneEach(g[m]) /\ Len(g[m]) = Len(l) + m
                   /\ \A k \in 1 .. Len(l) : g[m][k] = l[k]
                   /\ \A i \in 1 .. m : g[m][Len(l) + i].sync = new[i]}
<1>5. 0 .. n \subseteq U
  <2>1. 0 \in U
    BY <1>3
  <2>2. ASSUME NEW m \in 0 .. n - 1, m \in U PROVE m + 1 \in U
    <3> DEFINE a == g[m]
    <3>1. /\ a \in Seq(Numbered) /\ OneEach(a) /\ Len(a) = Len(l) + m
          /\ \A k \in 1 .. Len(l) : a[k] = l[k]
          /\ \A i \in 1 .. m : a[Len(l) + i].sync = new[i]
      BY <2>2
    <3>2. m + 1 \in 1 .. n /\ new[m + 1] \in Marker /\ Len(l) \in Nat
      OBVIOUS
    <3>3. g[m + 1] = Tasks!AddTask(a, new[m + 1], c)
      BY <1>3, <3>2
    <3> HIDE DEF a, U
    <3>4. ASSUME NEW k \in DOMAIN a PROVE a[k].sync # new[m + 1]
      <4>1. CASE k \in 1 .. Len(l)
        BY <3>1, <3>2, <4>1
      <4>2. CASE k \notin 1 .. Len(l)
        <5> DEFINE i == k - Len(l)
        <5>1. i \in 1 .. m /\ k = Len(l) + i
          BY <3>1, <3>2, <4>2
        <5> HIDE DEF i
        <5>2. i \in 1 .. n /\ i # m + 1
          BY <5>1
        <5> QED BY <3>1, <3>2, <5>1, <5>2
      <4> QED BY <4>1, <4>2
    <3> DEFINE b == Tasks!AddTask(a, new[m + 1], c)
    <3>5. /\ b \in Seq(Numbered) /\ OneEach(b) /\ Len(b) = Len(a) + 1
          /\ \A k \in 1 .. Len(a) : b[k] = a[k]
          /\ b[Len(a) + 1].sync = new[m + 1]
      <4> PICK new_marker : new_marker = new[m + 1]
        OBVIOUS
      <4>1. new_marker \in Marker \cup Tasks!Unsynced
        BY <3>2
      <4>2. \A k \in DOMAIN a : a[k].sync # new_marker \/ new_marker \in Tasks!Unsynced
        BY <3>4
      <4>3. a \in Seq(Numbered) /\ OneEach(a)
        BY <3>1
      <4>4. /\ Tasks!AddTask(a, new_marker, c) \in Seq(Numbered)
            /\ OneEach(Tasks!AddTask(a, new_marker, c))
            /\ Len(Tasks!AddTask(a, new_marker, c)) = Len(a) + 1
            /\ \A k \in 1 .. Len(a) : Tasks!AddTask(a, new_marker, c)[k] = a[k]
            /\ Tasks!AddTask(a, new_marker, c)[Len(a) + 1].sync = new_marker
        BY <4>1, <4>2, <4>3, AddTaskKeepsOneEach, SMTT(60)
      <4>5. b = Tasks!AddTask(a, new_marker, c)
        OBVIOUS
      <4> HIDE DEF b
      <4> QED BY <4>4, <4>5
    <3> HIDE DEF b
    <3>6. Len(b) = Len(l) + (m + 1) /\ \A k \in 1 .. Len(l) : b[k] = l[k]
      BY <3>1, <3>2, <3>5
    <3>7. ASSUME NEW i \in 1 .. m + 1 PROVE b[Len(l) + i].sync = new[i]
      <4>1. CASE i = m + 1
        BY <3>1, <3>2, <3>5, <4>1
      <4>2. CASE i # m + 1
        <5>1. i \in 1 .. m /\ Len(l) + i \in 1 .. Len(a)
          BY <3>1, <3>2, <4>2
        <5> QED BY <3>1, <3>5, <5>1
      <4> QED BY <4>1, <4>2
    <3>8. g[m + 1] = b
      BY <3>3 DEF b
    <3>9. m + 1 \in 0 .. n
      BY <3>2
    <3>10. \A i \in 1 .. m + 1 : g[m + 1][Len(l) + i].sync = new[i]
      BY <3>7, <3>8
    <3> QED BY <3>5, <3>6, <3>8, <3>9, <3>10 DEF U
  <2> HIDE DEF U
  <2> QED BY <2>1, <2>2, Counting
<1>6. n \in U
  BY <1>5
<1> QED BY <1>4, <1>6

\* What is left of a list has no number and no marker twice either.
LEMMA PickedKeepsOneEach ==
  ASSUME NEW l \in Seq(Tasks!Task), OneEach(l), NEW I \in SUBSET DOMAIN l
  PROVE  /\ Tasks!Picked(l, I) \in Seq(Tasks!Task) /\ OneEach(Tasks!Picked(l, I))
         /\ \A j \in DOMAIN Tasks!Picked(l, I) : \E k \in I : Tasks!Picked(l, I)[j] = l[k]
         /\ \A k \in I : \E j \in DOMAIN Tasks!Picked(l, I) : Tasks!Picked(l, I)[j] = l[k]
<1> DEFINE q == Tasks!Picked(l, I)
<1>1. /\ q \in Seq(Tasks!Task) /\ DOMAIN q = 1 .. Cardinality(I) /\ Cardinality(I) \in Nat
      /\ \A j \in DOMAIN q : Nth(I, j) \in I /\ q[j] = l[Nth(I, j)]
      /\ \A k \in I : \E j \in DOMAIN q : Nth(I, j) = k /\ q[j] = l[k]
      /\ \A i, j \in DOMAIN q : i < j => Nth(I, i) < Nth(I, j)
  BY PickedList, TasksPicked
<1> HIDE DEF q
<1>2. OneEach(q)
  <2> SUFFICES ASSUME NEW i \in DOMAIN q, NEW j \in DOMAIN q, i # j
               PROVE  /\ q[i].id # q[j].id
                      /\ q[i].sync = q[j].sync => q[i].sync \in Tasks!Unsynced
    BY DEF OneEach
  <2>1. i < j \/ j < i
    BY <1>1
  <2>2. Nth(I, i) \in DOMAIN l /\ Nth(I, j) \in DOMAIN l
    BY <1>1
  <2>3. Nth(I, i) # Nth(I, j)
    BY <1>1, <2>1, <2>2
  <2> QED BY <1>1, <2>2, <2>3 DEF OneEach
<1>3. \A j \in DOMAIN q : \E k \in I : q[j] = l[k]
  BY <1>1
<1>4. \A k \in I : \E j \in DOMAIN q : q[j] = l[k]
  BY <1>1
<1> QED BY <1>1, <1>2, <1>3, <1>4 DEF q

\* purge_stale_synced
LEMMA PurgedKeepsOneEach ==
  ASSUME NEW l \in Seq(Tasks!Task), OneEach(l), NEW scan, NEW q, q = Tasks!Purged(l, scan)
  PROVE  /\ q \in Seq(Tasks!Task) /\ OneEach(q)
         /\ \A k \in DOMAIN l : l[k].sync \in scan \cup {Tasks!NotSynced} =>
              \E j \in DOMAIN q : q[j] = l[k]
<1> PICK J \in SUBSET DOMAIN l :
      J = {k \in DOMAIN l : l[k].sync \in scan \cup {Tasks!NotSynced}}
  OBVIOUS
<1>1. q = Tasks!Picked(l, J)
  BY DEF Tasks!Purged
<1>2. /\ Tasks!Picked(l, J) \in Seq(Tasks!Task) /\ OneEach(Tasks!Picked(l, J))
      /\ \A k \in J : \E j \in DOMAIN Tasks!Picked(l, J) : Tasks!Picked(l, J)[j] = l[k]
  BY PickedKeepsOneEach, Zenon
<1> QED BY <1>1, <1>2

\* Two lists of tasks with the same numbers and markers at the same places.
SameTasks(a, b) ==
  DOMAIN a = DOMAIN b /\ \A k \in DOMAIN a : a[k].id = b[k].id /\ a[k].sync = b[k].sync

\* Where the tasks are the same, each number is there once too.
LEMMA SameTasksOneEach ==
  ASSUME NEW a, NEW b, OneEach(a), SameTasks(a, b)
  PROVE  OneEach(b) /\ Tasks!Ids(b) = Tasks!Ids(a)
BY DEF OneEach, SameTasks, Tasks!Ids

\* move_task
LEMMA MoveKeepsTasks ==
  ASSUME NEW l \in Seq(Tasks!Task), NEW id, NEW column \in Tasks!Column
  PROVE  /\ Tasks!MoveTask(l, id, column) \in Seq(Tasks!Task)
         /\ SameTasks(l, Tasks!MoveTask(l, id, column))
<1> DEFINE n == Tasks!Place(l, id)
           m == [l EXCEPT ![n].column = column]
<1>1. Tasks!MoveTask(l, id, column) = m
  BY DEF Tasks!MoveTask
<1> HIDE DEF n
<1>2. DOMAIN m = DOMAIN l /\ DOMAIN l = 1 .. Len(l) /\ Len(l) \in Nat
  OBVIOUS
<1>3. ASSUME NEW k \in DOMAIN l
      PROVE  m[k] \in Tasks!Task /\ l[k].id = m[k].id /\ l[k].sync = m[k].sync
  <2>1. l[k] \in Tasks!Task
    OBVIOUS
  <2>2. m[k] = l[k] \/ m[k] = [l[k] EXCEPT !.column = column]
    OBVIOUS
  <2> HIDE DEF m
  <2> QED BY <2>1, <2>2 DEF Tasks!Task
<1> HIDE DEF m
<1>4. m = [k \in 1 .. Len(l) |-> m[k]]
  <2>1. m = [k \in DOMAIN l |-> m[k]]
    BY DEF m
  <2> QED BY <1>2, <2>1
<1>5. m \in Seq(Tasks!Task)
  BY <1>2, <1>3, <1>4
<1> QED BY <1>1, <1>2, <1>3, <1>5 DEF SameTasks

\* Markers that are gone
LEMMA ResolvedKeepsTasks ==
  ASSUME NEW l \in Seq(Numbered), NEW scan, NEW heads
  PROVE  /\ Tasks!Resolved(l, scan, heads) \in Seq(Numbered) /\ SameTasks(l, Tasks!Resolved(l, scan, heads))
         /\ \A k \in DOMAIN l :
              \/ l[k].sync \in scan \cup Tasks!Unsynced
              \/ Tasks!Resolved(l, scan, heads)[k].column = "Done" \/ "Done" \notin heads
<1> DEFINE r == Tasks!Resolved(l, scan, heads)
<1>1. ASSUME NEW k \in DOMAIN l
      PROVE  /\ r[k] \in Numbered /\ l[k].id = r[k].id /\ l[k].sync = r[k].sync
             /\ l[k].sync \in scan \cup Tasks!Unsynced \/ r[k].column = "Done"
                  \/ "Done" \notin heads
  <2>1. l[k] \in Numbered
    OBVIOUS
  <2>2. r[k] = IF l[k].sync \in scan \cup Tasks!Unsynced \/ "Done" \notin heads THEN l[k]
               ELSE [l[k] EXCEPT !.column = "Done"]
    BY DEF Tasks!Resolved
  <2> HIDE DEF r
  <2> QED BY <2>1, <2>2 DEF Numbered, Tasks!Column
<1>2. r = [k \in 1 .. Len(l) |-> r[k]] /\ DOMAIN l = 1 .. Len(l) /\ Len(l) \in Nat
  BY DEF Tasks!Resolved
<1> HIDE DEF r
<1>3. r \in Seq(Numbered) /\ DOMAIN r = DOMAIN l
  BY <1>1, <1>2
<1> QED BY <1>1, <1>3 DEF r, SameTasks

\* sync_into_board_opts, after the purge
LEMMA SyncSettled ==
  ASSUME NEW l \in Seq(Tasks!Task), OneEach(l), NEW scan \in SUBSET Marker,
         NEW heads, NEW c \in Tasks!Column,
         NEW new \in Tasks!SetToSeqs(Tasks!Missing(l, scan)),
         NEW r, r = Tasks!Resolved(Tasks!AddAll(l, new, c), scan, heads), Tasks!Ids(r) \subseteq Tasks!Id
  PROVE  /\ r \in Seq(Tasks!Task) /\ OneEach(r) /\ Settled(r, heads, scan)
         /\ \A k \in DOMAIN l : \E j \in DOMAIN r : r[j].id = l[k].id /\ r[j].sync = l[k].sync
<1> DEFINE S == Tasks!Missing(l, scan)
           n == Cardinality(S)
           a == Tasks!AddAll(l, new, c)
<1>1. S \subseteq Marker /\ IsFiniteSet(S) /\ n \in Nat
  <2>1. S \in SUBSET Marker
    BY DEF Tasks!Missing
  <2> HIDE DEF S
  <2> QED BY <2>1, WorkbenchAssumption, FS_Subset, FS_CardinalityType
<1>2. \A m \in S : \A k \in DOMAIN l : l[k].sync # m
  <2>1. \A m \in S : m \notin Tasks!Synced(l) /\ m \in Marker
    BY DEF Tasks!Missing
  <2> HIDE DEF S
  <2> QED BY <2>1, WorkbenchAssumption DEF Tasks!Synced
<1>3. scan = S \cup (scan \cap Tasks!Synced(l))
  BY DEF Tasks!Missing
<1> HIDE DEF S
<1>4. new \in [1 .. n -> S] /\ \A i, j \in 1 .. n : i # j => new[i] # new[j]
  <2>1. Tasks!Cardinality(S) = n
    BY TasksCounted
  <2>2. new \in Tasks!SetToSeqs(S)
    BY DEF S
  <2> QED BY <2>1, <2>2 DEF Tasks!SetToSeqs
<1>5. \A m \in S : \E i \in 1 .. n : new[i] = m
  <2>1. new \in Injection(1 .. n, S)
    BY <1>4 DEF Injection, IsInjective
  <2>2. Cardinality(1 .. n) = n
    <3>1. 1 \in Int /\ n \in Int
      BY <1>1
    <3>2. Cardinality(1 .. n) = IF 1 > n THEN 0 ELSE n - 1 + 1
      <4> HIDE DEF n
      <4> QED BY <3>1, FS_Interval
    <3> HIDE DEF n
    <3> QED BY <1>1, <3>2
  <2>3. new \in Surjection(1 .. n, S)
    BY <1>1, <2>1, <2>2, FS_Injection
  <2> QED BY <2>3 DEF Surjection
<1> HIDE DEF n
<1>6. /\ a \in Seq(Numbered) /\ OneEach(a) /\ Len(a) = Len(l) + n
      /\ \A k \in 1 .. Len(l) : a[k] = l[k]
      /\ \A i \in 1 .. n : a[Len(l) + i].sync = new[i]
  <2>1. l \in Seq(Numbered)
    BY NumberedTasks
  <2>2. new \in [1 .. n -> Marker]
    BY <1>1, <1>4
  <2>3. \A i \in 1 .. n : \A k \in DOMAIN l : l[k].sync # new[i]
    BY <1>2, <1>4
  <2>4. n \in Nat /\ \A i, j \in 1 .. n : i # j => new[i] # new[j]
    BY <1>1, <1>4
  <2> QED BY <2>1, <2>2, <2>3, <2>4, AddAllKeepsOneEach, ZenonT(60)
<1> HIDE DEF a
<1>7. /\ r \in Seq(Numbered) /\ SameTasks(a, r)
      /\ \A k \in DOMAIN a : a[k].sync \in scan \cup Tasks!Unsynced \/ r[k].column = "Done"
                            \/ "Done" \notin heads
  BY <1>6, ResolvedKeepsTasks DEF a
<1>8. r \in Seq(Tasks!Task) /\ OneEach(r)
  BY <1>6, <1>7, SameTasksOneEach, NumberedTasks
<1>9. /\ DOMAIN l = 1 .. Len(l) /\ DOMAIN r = 1 .. (Len(l) + n) /\ Len(l) \in Nat
      /\ \A k \in DOMAIN r : r[k].id = a[k].id /\ r[k].sync = a[k].sync
  <2>1. DOMAIN a = 1 .. (Len(l) + n)
    BY <1>6
  <2> QED BY <1>7, <2>1 DEF SameTasks
<1>10. \A k \in DOMAIN l : k \in DOMAIN r /\ r[k].id = l[k].id /\ r[k].sync = l[k].sync
  BY <1>1, <1>6, <1>9
<1>11. ASSUME NEW m \in scan PROVE \E k \in DOMAIN r : r[k].sync = m
  <2>1. CASE m \in S
    <3>1. PICK i \in 1 .. n : new[i] = m
      BY <1>5, <2>1
    <3>2. Len(l) + i \in DOMAIN r
      BY <1>1, <1>9
    <3> QED BY <1>6, <1>9, <3>1, <3>2
  <2>2. CASE m \in Tasks!Synced(l)
    <3>1. \E k \in DOMAIN l : l[k].sync = m
      BY <2>2 DEF Tasks!Synced
    <3> QED BY <1>10, <3>1
  <2> QED BY <1>3, <2>1, <2>2
<1>12. Settled(r, heads, scan)
  <2>1. \A k \in DOMAIN r : r[k].sync \in scan \cup Tasks!Unsynced \/ r[k].column = "Done"
                            \/ "Done" \notin heads
    BY <1>7, <1>9 DEF SameTasks
  <2> QED BY <1>11, <2>1 DEF Settled
<1> QED BY <1>8, <1>10, <1>12

\* The list in which a task has another hash or none.
Relabelled(l, k, sync) == [l EXCEPT ![k].sync = sync]

\* A task that loses its hash, or keeps it: edited, or the last row of a file cut short.
LEMMA ForgettingKeepsOneEach ==
  ASSUME NEW l \in Seq(Tasks!Task), OneEach(l), NEW k, NEW sync,
         sync \in Tasks!Unsynced \/ sync = l[k].sync
  PROVE  LET n == Relabelled(l, k, sync)
         IN  /\ n \in Seq(Tasks!Task) /\ OneEach(n) /\ DOMAIN n = DOMAIN l
             /\ \A j \in DOMAIN l : n[j].id = l[j].id
             /\ \A j \in DOMAIN l : n[j].sync = l[j].sync \/ n[j].sync \in Tasks!Unsynced
<1> DEFINE m == [l EXCEPT ![k].sync = sync]
<1>1. DOMAIN m = DOMAIN l /\ DOMAIN l = 1 .. Len(l) /\ Len(l) \in Nat
  OBVIOUS
<1>2. ASSUME NEW j \in DOMAIN l
      PROVE  /\ m[j] \in Tasks!Task /\ m[j].id = l[j].id
             /\ m[j].sync = l[j].sync \/ m[j].sync \in Tasks!Unsynced
  <2>1. l[j] \in Tasks!Task
    OBVIOUS
  <2>2. m[j] = l[j] \/ (j = k /\ m[j] = [l[j] EXCEPT !.sync = sync])
    OBVIOUS
  <2> HIDE DEF m
  <2> QED BY <2>1, <2>2 DEF Tasks!Task
<1>3. m = [j \in 1 .. Len(l) |-> m[j]]
  <2>1. m = [j \in DOMAIN l |-> m[j]]
    OBVIOUS
  <2> QED BY <1>1, <2>1
<1> HIDE DEF m
<1>4. m \in Seq(Tasks!Task)
  BY <1>1, <1>2, <1>3
<1>5. OneEach(m)
  BY <1>1, <1>2 DEF OneEach
<1>6. Relabelled(l, k, sync) = m
  BY DEF m, Relabelled
<1> QED BY <1>1, <1>2, <1>4, <1>5, <1>6

\* parse_board, of what board_to_markdown wrote
LEMMA WrittenKeepsOneEach ==
  ASSUME NEW l \in Seq(Tasks!Task), OneEach(l)
  PROVE  /\ Tasks!Written(l) \in Seq(Tasks!Task) /\ OneEach(Tasks!Written(l))
         /\ Kept(Tasks!Written(l)) /\ DOMAIN Tasks!Written(l) = DOMAIN l
         /\ \A k \in DOMAIN l :
              /\ Tasks!Written(l)[k].id = l[k].id /\ Tasks!Written(l)[k].column = l[k].column
              /\ Tasks!Written(l)[k].sync = IF l[k].sync \in Spoilt THEN Tasks!Remnant
                                            ELSE l[k].sync
<1> DEFINE w == Tasks!Written(l)
<1>1. DOMAIN w = DOMAIN l /\ DOMAIN l = 1 .. Len(l) /\ Len(l) \in Nat
  BY DEF Tasks!Written
<1>2. Spoilt \subseteq Marker /\ Tasks!Remnant \notin Spoilt
  BY WorkbenchAssumption DEF Tasks!Unsynced
<1>3. ASSUME NEW k \in DOMAIN l
      PROVE  /\ w[k] \in Tasks!Task /\ w[k].id = l[k].id /\ w[k].column = l[k].column
             /\ w[k].sync = IF l[k].sync \in Spoilt THEN Tasks!Remnant ELSE l[k].sync
  <2>1. l[k] \in Tasks!Task
    OBVIOUS
  <2>2. w[k] = IF l[k].sync \in Spoilt THEN [l[k] EXCEPT !.sync = Tasks!Remnant] ELSE l[k]
    BY DEF Tasks!Written
  <2> HIDE DEF w
  <2> QED BY <2>1, <2>2 DEF Tasks!Task, Tasks!Unsynced
<1>4. w = [k \in 1 .. Len(l) |-> w[k]]
  <2>1. w = [k \in DOMAIN l |-> w[k]]
    BY DEF Tasks!Written
  <2> QED BY <1>1, <2>1
<1> HIDE DEF w
<1>5. w \in Seq(Tasks!Task)
  BY <1>1, <1>3, <1>4
<1>6. OneEach(w)
  BY <1>1, <1>3 DEF OneEach, Tasks!Unsynced
<1>7. Kept(w)
  BY <1>1, <1>2, <1>3 DEF Kept
<1> QED BY <1>1, <1>3, <1>5, <1>6, <1>7 DEF w

\* The programs that are not at it keep what they have, which is as right as it was when
\* the files stay as they are.
LEMMA OthersStayRight ==
  ASSUME BoardInv, NEW p \in Program, UNCHANGED <<board, columns, archive>>,
         \A q \in Program : q # p => program'[q] = program[q],
         ProgramRight(program'[p])
  PROVE  (OneEach(board) /\ Kept(board) /\ \A q \in Program : ProgramRight(program[q]))'
<1>1. OneEach(board)' /\ Kept(board)'
  BY DEF BoardInv, OneEach, Kept
<1>2. ASSUME NEW q \in Program PROVE ProgramRight(program[q])'
  <2>1. ProgramRight(program'[q])
    BY <1>2 DEF BoardInv
  <2> QED BY <2>1 DEF ProgramRight, Accounted
<1> QED BY <1>1, <1>2

\* Those that did not write a file know nothing of what is in it now.
LEMMA OthersOutdated ==
  ASSUME BoardInv, NEW p \in Program, NEW s \in Tasks!ProgramState, Tasks!WritesAs(p, s)
  PROVE  /\ program' \in [Program -> Tasks!ProgramState] /\ program'[p] = s
         /\ \A q \in Program : q # p => ProgramRight(program[q])'
<1>1. /\ program' = [q \in Program |-> IF q = p THEN s ELSE [program[q] EXCEPT !.alone = FALSE]]
      /\ program \in [Program -> Tasks!ProgramState]
  BY DEF Tasks!WritesAs, BoardInv, Tasks!TypeOK
<1>2. ASSUME NEW q \in Program, q # p
      PROVE  program'[q] \in Tasks!ProgramState /\ ProgramRight(program[q])'
  <2> DEFINE t == [program[q] EXCEPT !.alone = FALSE]
  <2>1. program'[q] = t /\ program[q] \in Tasks!ProgramState /\ ProgramRight(program[q])
    BY <1>1, <1>2 DEF BoardInv
  <2>2. /\ t \in Tasks!ProgramState /\ ~t.alone /\ t.board = program[q].board
        /\ t.pc = program[q].pc /\ t.op = program[q].op /\ t.scan = program[q].scan
        /\ t.columns = program[q].columns
    BY <2>1 DEF Tasks!ProgramState
  <2> HIDE DEF t
  <2> QED BY <2>1, <2>2 DEF ProgramRight
<1>3. program'[p] = s
  BY <1>1
<1>4. program' \in [Program -> Tasks!ProgramState]
  BY <1>1, <1>2, <1>3
<1> QED BY <1>2, <1>3, <1>4

\* A program that goes on leaves the others as they are.
LEMMA BoardTyped ==
  ASSUME Tasks!TypeOK, NEW p \in Program, NEW s, Tasks!Becomes(p, s)
  PROVE  /\ program'[p] = s /\ \A q \in Program : q # p => program'[q] = program[q]
         /\ s \in Tasks!ProgramState => program' \in [Program -> Tasks!ProgramState]
BY DEF Tasks!TypeOK, Tasks!Becomes

\* A program at rest has nothing in hand.
LEMMA AtRestIsRight ==
  /\ Tasks!AtRest \in Tasks!ProgramState /\ Tasks!AtRest.pc = "idle"
  /\ ~Tasks!AtRest.alone /\ ProgramRight(Tasks!AtRest)
BY DEF Tasks!AtRest, Tasks!ProgramState, OneEach, ProgramRight, Tasks!Op

\* Every step of a program, and a change of the code, keep the invariant.
LEMMA BoardStep ==
  ASSUME BoardInv, Tasks!Next
  PROVE  BoardInv'
<1>0. /\ Tasks!TypeOK /\ OneEach(board) /\ Kept(board)
      /\ \A p \in Program : ProgramRight(program[p])
  BY DEF BoardInv
<1>1. ASSUME NEW p \in Program, NEW s \in Tasks!ProgramState, Tasks!Becomes(p, s),
             ProgramRight(s), UNCHANGED <<board, columns, archive, code, changes, calls>>
      PROVE  BoardInv'
  <2>1. program'[p] = s /\ \A q \in Program : q # p => program'[q] = program[q]
    BY <1>0, <1>1, BoardTyped
  <2>2. (OneEach(board) /\ Kept(board) /\ \A q \in Program : ProgramRight(program[q]))'
    BY <1>1, <2>1, OthersStayRight
  <2>3. Tasks!TypeOK'
    BY <1>0, <1>1, BoardTyped DEF Tasks!TypeOK
  <2> QED BY <2>2, <2>3 DEF BoardInv
<1>2. ASSUME NEW p \in Program, NEW l \in Seq(Tasks!Task), Tasks!Changed(p, l),
             program[p].pc = "loaded", program[p].op \in {"add", "move", "edit", "archive"},
             OneEach(l), program[p].alone => Accounted([program[p] EXCEPT !.board = l], archive),
             UNCHANGED <<board, columns, archive, code, changes, calls>>
      PROVE  BoardInv'
  <2> DEFINE s == [program[p] EXCEPT !.board = l, !.pc = "save"]
             t == [program[p] EXCEPT !.board = l]
  <2>1. program[p] \in Tasks!ProgramState /\ ProgramRight(program[p])
    BY <1>0 DEF Tasks!TypeOK
  <2>2. /\ s \in Tasks!ProgramState /\ s.pc = "save" /\ s.board = l /\ s.op = program[p].op
        /\ s.alone = program[p].alone /\ s.scan = program[p].scan
        /\ s.columns = program[p].columns
    BY <1>2, <2>1 DEF Tasks!ProgramState
  <2>3. t.board = l /\ t.op = program[p].op /\ t.scan = program[p].scan
    BY <2>1 DEF Tasks!ProgramState
  <2>4. program[p].alone => Accounted(t, archive)
    BY <1>2
  <2>5. Tasks!Becomes(p, s)
    BY <1>2 DEF Tasks!Changed
  <2> HIDE DEF s, t
  <2>6. s.alone => Accounted(s, archive)
    BY <2>2, <2>3, <2>4 DEF Accounted
  <2>7. ProgramRight(s)
    BY <1>2, <2>1, <2>2, <2>6 DEF ProgramRight
  <2> QED BY <1>1, <1>2, <2>2, <2>5, <2>7
<1>3. ASSUME NEW p \in Program, NEW op \in Tasks!Op, Tasks!Load(p, op)
      PROVE  BoardInv'
  <2> DEFINE s == [Tasks!AtRest EXCEPT !.op = op, !.pc = "loaded", !.board = board,
                                       !.columns = columns, !.alone = TRUE]
  <2>1. /\ s \in Tasks!ProgramState /\ s.pc = "loaded" /\ s.board = board
        /\ s.columns = columns
        /\ Tasks!Becomes(p, s) /\ UNCHANGED <<board, columns, archive, code, changes>>
        /\ calls \in 0 .. MaxCalls /\ calls < MaxCalls /\ calls' = calls + 1
    BY <1>0, <1>3 DEF Tasks!Load, Tasks!AtRest, Tasks!ProgramState, Tasks!TypeOK
  <2> HIDE DEF s
  <2>2. program'[p] = s /\ \A q \in Program : q # p => program'[q] = program[q]
    BY <1>0, <2>1, BoardTyped
  <2>3. ProgramRight(s)
    BY <1>0, <2>1 DEF ProgramRight
  <2>4. (OneEach(board) /\ Kept(board) /\ \A q \in Program : ProgramRight(program[q]))'
    BY <2>1, <2>2, <2>3, OthersStayRight
  <2>5. calls' \in 0 .. MaxCalls
    BY <2>1, WorkbenchAssumption
  <2>6. Tasks!TypeOK'
    BY <1>0, <2>1, <2>5, BoardTyped DEF Tasks!TypeOK
  <2> QED BY <2>4, <2>6 DEF BoardInv
<1>4. ASSUME NEW p \in Program, program[p].pc = "loaded"
      PROVE  /\ program[p] \in Tasks!ProgramState /\ program[p].board \in Seq(Tasks!Task)
             /\ program[p].columns \in SUBSET Tasks!Column
             /\ OneEach(program[p].board) /\ (program[p].alone => program[p].board = board)
             /\ \A c \in Tasks!NewTasksIn(program[p].columns) : c \in Tasks!Column
  BY <1>0, <1>4 DEF ProgramRight, Tasks!TypeOK, Tasks!ProgramState, Tasks!NewTasksIn,
                    Tasks!Column
<1>5. ASSUME NEW p \in Program, Tasks!Add(p) PROVE BoardInv'
  <2>1. /\ program[p].pc = "loaded" /\ program[p].op = "add"
        /\ UNCHANGED <<board, columns, archive, code, changes, calls>>
    BY <1>5 DEF Tasks!Add, Tasks!Doing, Tasks!At
  <2>2. PICK typed \in Tasks!Unsynced, c \in Tasks!NewTasksIn(program[p].columns) :
          LET a == Tasks!AddTask(program[p].board, typed, c)
          IN  Tasks!Ids(a) \subseteq Tasks!Id /\ Tasks!Changed(p, a)
    BY <1>5 DEF Tasks!Add
  <2> PICK l, a, s : /\ l = program[p].board /\ a = Tasks!AddTask(l, typed, c)
                     /\ s = [program[p] EXCEPT !.board = a]
    OBVIOUS
  <2>3. /\ l \in Seq(Tasks!Task) /\ OneEach(l) /\ (program[p].alone => l = board)
        /\ s.board = a /\ c \in Tasks!Column
    BY <1>4, <2>1 DEF Tasks!ProgramState
  <2>4. l \in Seq(Numbered)
    BY <2>3, NumberedTasks
  <2>5. /\ a \in Seq(Numbered) /\ OneEach(a) /\ Len(a) = Len(l) + 1
        /\ \A k \in 1 .. Len(l) : a[k] = l[k]
    BY <2>3, <2>4, AddTaskKeepsOneEach
  <2>6. a \in Seq(Tasks!Task)
    BY <2>2, <2>5, NumberedTasks
  <2>7. program[p].alone => Accounted(s, archive)
    <3>1. \A k \in DOMAIN l : k \in DOMAIN a /\ a[k] = l[k]
      BY <2>4, <2>5
    <3> QED BY <2>3, <3>1 DEF Accounted
  <2>8. Tasks!Changed(p, a)
    BY <2>2
  <2> QED BY <1>2, <2>1, <2>5, <2>6, <2>7, <2>8
<1>6. ASSUME NEW p \in Program, Tasks!Move(p) PROVE BoardInv'
  <2> PICK l : l = program[p].board
    OBVIOUS
  <2>1. /\ program[p].pc = "loaded" /\ program[p].op = "move"
        /\ UNCHANGED <<board, columns, archive, code, changes, calls>>
    BY <1>6 DEF Tasks!Move, Tasks!Doing, Tasks!At
  <2>2. PICK id \in Tasks!Ids(l), column \in program[p].columns :
          Tasks!Changed(p, Tasks!MoveTask(l, id, column))
    BY <1>6 DEF Tasks!Move
  <2> PICK m, s : m = Tasks!MoveTask(l, id, column) /\ s = [program[p] EXCEPT !.board = m]
    OBVIOUS
  <2>3. /\ l \in Seq(Tasks!Task) /\ OneEach(l) /\ (program[p].alone => l = board)
        /\ s.board = m /\ column \in Tasks!Column
    BY <1>4, <2>1 DEF Tasks!ProgramState
  <2>4. m \in Seq(Tasks!Task) /\ SameTasks(l, m)
    BY <2>3, MoveKeepsTasks
  <2>5. OneEach(m)
    BY <2>3, <2>4, SameTasksOneEach
  <2>6. program[p].alone => Accounted(s, archive)
    <3>1. \A k \in DOMAIN l : k \in DOMAIN m /\ m[k].id = l[k].id /\ m[k].sync = l[k].sync
      BY <2>4 DEF SameTasks
    <3> QED BY <2>3, <3>1 DEF Accounted
  <2>7. Tasks!Changed(p, m)
    BY <2>2
  <2> QED BY <1>2, <2>1, <2>4, <2>5, <2>6, <2>7
<1>7. ASSUME NEW p \in Program, Tasks!Edit(p) PROVE BoardInv'
  <2> PICK l : l = program[p].board
    OBVIOUS
  <2>1. /\ program[p].pc = "loaded" /\ program[p].op = "edit"
        /\ UNCHANGED <<board, columns, archive, code, changes, calls>>
    BY <1>7 DEF Tasks!Edit, Tasks!Doing, Tasks!At
  <2>2. PICK k : \E sync \in Tasks!Edited(l[k].sync) :
                   Tasks!Changed(p, [l EXCEPT ![k].sync = sync])
    BY <1>7 DEF Tasks!Edit
  <2>3. PICK sync \in Tasks!Edited(l[k].sync) : Tasks!Changed(p, [l EXCEPT ![k].sync = sync])
    BY <2>2
  <2> PICK m, s : m = Relabelled(l, k, sync) /\ s = [program[p] EXCEPT !.board = m]
    OBVIOUS
  <2>4. /\ l \in Seq(Tasks!Task) /\ OneEach(l) /\ (program[p].alone => l = board)
        /\ s.board = m /\ s.op = "edit"
    BY <1>4, <2>1 DEF Tasks!ProgramState
  <2>5. sync \in Tasks!Unsynced \/ sync = l[k].sync
    BY <2>3 DEF Tasks!Edited, Tasks!Unsynced
  <2>6. /\ m \in Seq(Tasks!Task) /\ OneEach(m) /\ DOMAIN m = DOMAIN l
        /\ \A j \in DOMAIN l : m[j].id = l[j].id
    <3>1. l \in Seq(Tasks!Task) /\ OneEach(l)
      BY <2>4
    <3>2. LET n == Relabelled(l, k, sync)
          IN  /\ n \in Seq(Tasks!Task) /\ OneEach(n) /\ DOMAIN n = DOMAIN l
              /\ \A j \in DOMAIN l : n[j].id = l[j].id
      BY <2>5, <3>1, ForgettingKeepsOneEach
    <3> QED BY <3>2
  <2>7. program[p].alone => Accounted(s, archive)
    BY <2>4, <2>6 DEF Accounted
  <2>8. Tasks!Changed(p, m)
    BY <2>3 DEF Relabelled
  <2> QED BY <1>2, <2>1, <2>6, <2>7, <2>8
<1>8. ASSUME NEW p \in Program, Tasks!ArchiveDone(p) PROVE BoardInv'
  <2> DEFINE l == program[p].board
             done == {k \in DOMAIN l : l[k].column = "Done"}
  <2>1. /\ program[p].pc = "loaded" /\ program[p].op = "archive"
        /\ UNCHANGED <<board, columns, archive, code, changes, calls>>
    BY <1>8 DEF Tasks!ArchiveDone, Tasks!Doing, Tasks!At
  <2>2. /\ l \in Seq(Tasks!Task) /\ OneEach(l) /\ (program[p].alone => l = board)
        /\ program[p] \in Tasks!ProgramState /\ ProgramRight(program[p])
    BY <1>0, <1>4, <2>1
  <2>3. PICK old \in SUBSET {l[k].id : k \in done} :
          IF old = {} THEN Tasks!Changed(p, l)
          ELSE Tasks!Becomes(p, [program[p] EXCEPT !.board = Tasks!Without(l, old), !.old = old,
                                                   !.seen = archive, !.pc = "archiving"])
    BY <1>8 DEF Tasks!ArchiveDone
  <2> HIDE DEF l
  <2>4. CASE old = {}
    <3> PICK s : s = [program[p] EXCEPT !.board = l]
      OBVIOUS
    <3>1. s.board = l /\ Tasks!Changed(p, l)
      BY <2>2, <2>3, <2>4 DEF Tasks!ProgramState
    <3>2. program[p].alone => Accounted(s, archive)
      BY <2>2, <3>1 DEF Accounted
    <3> QED BY <1>2, <2>1, <2>2, <3>1, <3>2
  <2>5. CASE old # {}
    <3> DEFINE I == {k \in DOMAIN l : l[k].id \notin old}
    <3> PICK w, s :
          /\ w = Tasks!Without(l, old)
          /\ s = [program[p] EXCEPT !.board = w, !.old = old, !.seen = archive,
                                    !.pc = "archiving"]
      OBVIOUS
    <3>1. Tasks!Becomes(p, s)
      BY <2>3, <2>5
    <3>2. /\ w \in Seq(Tasks!Task) /\ OneEach(w)
          /\ \A k \in I : \E j \in DOMAIN w : w[j] = l[k]
      <4>1. PICK J \in SUBSET DOMAIN l : J = I /\ w = Tasks!Picked(l, J)
        BY DEF Tasks!Without
      <4>2. l \in Seq(Tasks!Task) /\ OneEach(l)
        BY <2>2
      <4> HIDE DEF I
      <4> QED BY <4>1, <4>2, PickedKeepsOneEach
    <3>3. old \in SUBSET Tasks!Id
      <4>1. \A k \in DOMAIN l : l[k] \in Tasks!Task
        BY <2>2
      <4> QED BY <4>1 DEF Tasks!Task
    <3>4. /\ s \in Tasks!ProgramState /\ s.board = w /\ s.old = old /\ s.seen = archive
          /\ s.pc = "archiving" /\ s.op = "archive" /\ s.alone = program[p].alone
          /\ s.columns = program[p].columns
      BY <1>0, <2>1, <2>2, <3>2, <3>3 DEF Tasks!ProgramState, Tasks!TypeOK
    <3>5. ASSUME NEW k \in DOMAIN l, l[k].id \in old PROVE l[k].column = "Done"
      <4>1. PICK j \in done : l[j].id = l[k].id
        BY <3>5
      <4>2. j = k
        BY <2>2, <4>1 DEF OneEach
      <4> QED BY <4>1, <4>2
    <3>6. s.alone => Accounted(s, s.seen \cup s.old)
      <4>1. ASSUME NEW k \in DOMAIN l
            PROVE  \/ \E j \in DOMAIN w : w[j].id = l[k].id /\ w[j].sync = l[k].sync
                   \/ l[k].column = "Done" /\ l[k].id \in old
        BY <3>2, <3>5
      <4> QED BY <2>2, <3>4, <4>1 DEF Accounted
    <3>7. ProgramRight(s)
      BY <2>2, <3>2, <3>4, <3>6 DEF ProgramRight
    <3> QED BY <1>1, <2>1, <3>1, <3>4, <3>7
  <2> QED BY <2>4, <2>5
<1>9. ASSUME NEW p \in Program, Tasks!Sync(p) PROVE BoardInv'
  <2> PICK l, heads, start, kept :
        /\ l = program[p].board /\ heads = program[p].columns
        /\ kept = {k \in DOMAIN l : l[k].sync \in code \cup {Tasks!NotSynced}}
        /\ start = IF program[p].op = "clean" THEN Tasks!Purged(program[p].board, code)
                   ELSE program[p].board
    OBVIOUS
  <2>1. /\ program[p].pc = "loaded" /\ program[p].op \in {"sync", "clean"}
        /\ UNCHANGED <<board, columns, archive, code, changes, calls>>
    BY <1>9 DEF Tasks!Sync, Tasks!Doing, Tasks!At
  <2>2. PICK new \in Tasks!SetToSeqs(Tasks!Missing(start, code)), c \in Tasks!NewTasksIn(heads) :
          LET r == Tasks!Resolved(Tasks!AddAll(start, new, c), code, heads)
          IN  /\ Tasks!Ids(r) \subseteq Tasks!Id
              /\ Tasks!Becomes(p, [program[p] EXCEPT !.board = r, !.scan = code,
                                     !.pc = IF r = program[p].board THEN "return" ELSE "save"])
    BY <1>9 DEF Tasks!Sync
  <2>0. PICK r, s :
        /\ r = Tasks!Resolved(Tasks!AddAll(start, new, c), code, heads)
        /\ s = [program[p] EXCEPT !.board = r, !.scan = code,
                                  !.pc = IF r = program[p].board THEN "return" ELSE "save"]
    OBVIOUS
  <2>3. Tasks!Ids(r) \subseteq Tasks!Id /\ Tasks!Becomes(p, s)
    BY <2>0, <2>2
  <2>4. /\ l \in Seq(Tasks!Task) /\ OneEach(l) /\ (program[p].alone => l = board)
        /\ c \in Tasks!Column
    BY <1>4, <2>1
  <2>5. /\ start \in Seq(Tasks!Task) /\ OneEach(start)
        /\ program[p].op = "sync" => start = l
        /\ \A k \in kept : \E j \in DOMAIN start : start[j] = l[k]
    <3>1. CASE program[p].op = "clean"
      <4>1. start = Tasks!Purged(l, code)
        BY <3>1
      <4> QED BY <2>4, <3>1, <4>1, PurgedKeepsOneEach
    <3>2. CASE program[p].op = "sync"
      BY <2>4, <3>2
    <3> QED BY <2>1, <3>1, <3>2
  <2>6. /\ r \in Seq(Tasks!Task) /\ OneEach(r) /\ Settled(r, heads, code)
        /\ \A k \in DOMAIN start :
             \E j \in DOMAIN r : r[j].id = start[k].id /\ r[j].sync = start[k].sync
    <3>1. code \in SUBSET Marker
      BY <1>0 DEF Tasks!TypeOK
    <3>2. new \in Tasks!SetToSeqs(Tasks!Missing(start, code))
      OBVIOUS
    <3>3. start \in Seq(Tasks!Task) /\ OneEach(start) /\ c \in Tasks!Column
      BY <2>4, <2>5
    <3>4. /\ r = Tasks!Resolved(Tasks!AddAll(start, new, c), code, heads)
          /\ Tasks!Ids(r) \subseteq Tasks!Id
      BY <2>0, <2>3
    <3> QED BY <3>1, <3>2, <3>3, <3>4, SyncSettled, SMTT(60)
  <2>7. /\ s \in Tasks!ProgramState /\ s.board = r /\ s.scan = code /\ s.op = program[p].op
        /\ s.columns = heads /\ s.alone = program[p].alone
        /\ s.pc \in {"save", "return"} /\ (s.pc = "return" => r = l)
    <3>1. code \in SUBSET Marker
      BY <1>0 DEF Tasks!TypeOK
    <3>2. program[p] \in Tasks!ProgramState /\ r \in Seq(Tasks!Task)
      BY <1>4, <2>1, <2>6
    <3>3. \/ r = l /\ s = [program[p] EXCEPT !.board = r, !.scan = code, !.pc = "return"]
          \/ s = [program[p] EXCEPT !.board = r, !.scan = code, !.pc = "save"]
      BY <2>0
    <3> QED BY <3>1, <3>2, <3>3 DEF Tasks!ProgramState
  <2>8. s.alone => Accounted(s, archive)
    <3>1. ASSUME NEW k \in DOMAIN l
          PROVE  \/ \E j \in DOMAIN r : r[j].id = l[k].id /\ r[j].sync = l[k].sync
                 \/ program[p].op = "clean" /\ l[k].sync \notin code \cup {Tasks!NotSynced}
      <4>1. CASE program[p].op = "sync"
        BY <2>5, <2>6, <4>1
      <4>2. CASE k \in kept
        <5>1. PICK i \in DOMAIN start : start[i] = l[k]
          BY <2>5, <4>2
        <5>2. PICK j \in DOMAIN r : r[j].id = start[i].id /\ r[j].sync = start[i].sync
          BY <2>6, <5>1
        <5> QED BY <5>1, <5>2
      <4> QED BY <2>1, <4>1, <4>2
    <3>2. s.alone => board = l
      BY <2>4, <2>7
    <3>3. s.board = r /\ s.scan = code /\ s.op = program[p].op
      BY <2>7
    <3> QED BY <3>1, <3>2, <3>3 DEF Accounted
  <2>9. ProgramRight(s)
    <3>1. ProgramRight(program[p])
      BY <1>0
    <3>2. OneEach(s.board) /\ Settled(s.board, s.columns, s.scan)
      BY <2>6, <2>7
    <3>3. s.alone => s.columns = columns
      BY <2>7, <3>1 DEF ProgramRight
    <3>4. s.pc = "return" /\ s.alone => s.board = board
      BY <2>4, <2>7
    <3>5. s.pc \in {"save", "return"}
      BY <2>7
    <3> QED BY <2>8, <3>2, <3>3, <3>4, <3>5 DEF ProgramRight
  <2> QED BY <1>1, <2>1, <2>3, <2>7, <2>9
<1>10. ASSUME NEW p \in Program, NEW s \in Tasks!ProgramState, Tasks!WritesAs(p, s),
              board' \in Seq(Tasks!Task), OneEach(board'), Kept(board'),
              columns' \in SUBSET Tasks!Column, archive' \in SUBSET Tasks!Id,
              ProgramRight(s)', UNCHANGED <<code, changes, calls>>
       PROVE  BoardInv'
  <2>1. /\ program' \in [Program -> Tasks!ProgramState] /\ program'[p] = s
        /\ \A q \in Program : q # p => ProgramRight(program[q])'
    BY <1>10, OthersOutdated
  <2>2. ProgramRight(program[p])'
    BY <1>10, <2>1 DEF ProgramRight, Accounted
  <2>3. Tasks!TypeOK'
    BY <1>0, <1>10, <2>1 DEF Tasks!TypeOK
  <2> QED BY <1>10, <2>1, <2>2, <2>3 DEF BoardInv, OneEach, Kept
<1>11. ProgramRight(Tasks!AtRest)' /\ Tasks!AtRest \in Tasks!ProgramState
  BY AtRestIsRight DEF ProgramRight, Tasks!AtRest, OneEach
<1>12. ASSUME NEW p \in Program, Tasks!WriteArchive(p) PROVE BoardInv'
  <2> PICK s : s = [program[p] EXCEPT !.pc = "save", !.old = {}, !.seen = {}]
    OBVIOUS
  <2>1. /\ program[p].pc = "archiving" /\ archive' = program[p].seen \cup program[p].old
        /\ Tasks!WritesAs(p, s) /\ UNCHANGED <<board, columns, code, changes, calls>>
    BY <1>12 DEF Tasks!WriteArchive, Tasks!At
  <2>2. program[p] \in Tasks!ProgramState /\ ProgramRight(program[p])
    BY <1>0 DEF Tasks!TypeOK
  <2>3. /\ s \in Tasks!ProgramState /\ s.pc = "save" /\ s.board = program[p].board
        /\ s.op = "archive" /\ s.alone = program[p].alone /\ s.columns = program[p].columns
        /\ s.scan = program[p].scan
    BY <2>1, <2>2 DEF Tasks!ProgramState, ProgramRight
  <2>4. archive' \in SUBSET Tasks!Id
    BY <2>1, <2>2 DEF Tasks!ProgramState
  <2>5. s.alone => Accounted(s, archive)'
    BY <2>1, <2>2, <2>3 DEF ProgramRight, Accounted
  <2>6. ProgramRight(s)'
    BY <2>1, <2>2, <2>3, <2>5 DEF ProgramRight
  <2>7. board' \in Seq(Tasks!Task) /\ columns' \in SUBSET Tasks!Column
    BY <1>0, <2>1 DEF Tasks!TypeOK
  <2>8. OneEach(board') /\ Kept(board')
    BY <1>0, <2>1
  <2> QED BY <1>10, <2>1, <2>3, <2>4, <2>6, <2>7, <2>8
<1>13. ASSUME NEW p \in Program, Tasks!TornArchive(p) PROVE BoardInv'
  <2>1. PICK old \in SUBSET program[p].old, seen \in SUBSET program[p].seen :
          archive' = seen \cup old
    BY <1>13 DEF Tasks!TornArchive
  <2>2. Tasks!WritesAs(p, Tasks!AtRest) /\ UNCHANGED <<board, columns, code, changes, calls>>
    BY <1>13 DEF Tasks!TornArchive
  <2>3. archive' \in SUBSET Tasks!Id
    BY <1>0, <2>1 DEF Tasks!TypeOK, Tasks!ProgramState
  <2>4. board' \in Seq(Tasks!Task) /\ columns' \in SUBSET Tasks!Column
    BY <1>0, <2>2 DEF Tasks!TypeOK
  <2>5. OneEach(board') /\ Kept(board')
    BY <1>0, <2>2
  <2> QED BY <1>10, <1>11, <2>2, <2>3, <2>4, <2>5
<1>14. ASSUME NEW p \in Program
       PROVE  LET w == Tasks!Written(program[p].board)
              IN  w \in Seq(Tasks!Task) /\ OneEach(w) /\ Kept(w)
  <2>1. program[p].board \in Seq(Tasks!Task) /\ OneEach(program[p].board)
    BY <1>0 DEF Tasks!TypeOK, Tasks!ProgramState, ProgramRight
  <2> QED BY <2>1, WrittenKeepsOneEach
<1>15. ASSUME NEW p \in Program, Tasks!Save(p) PROVE BoardInv'
  <2>1. /\ board' = Tasks!Written(program[p].board) /\ columns' = program[p].columns
        /\ Tasks!WritesAs(p, Tasks!AtRest) /\ UNCHANGED <<archive, code, changes, calls>>
    BY <1>15 DEF Tasks!Save
  <2>2. archive' \in SUBSET Tasks!Id /\ columns' \in SUBSET Tasks!Column
    BY <1>0, <2>1 DEF Tasks!TypeOK, Tasks!ProgramState
  <2>3. board' \in Seq(Tasks!Task) /\ OneEach(board') /\ Kept(board')
    BY <1>14, <2>1
  <2> QED BY <1>10, <1>11, <2>1, <2>2, <2>3
<1>16. ASSUME NEW p \in Program, Tasks!TornSave(p) PROVE BoardInv'
  <2> PICK w : w = Tasks!Written(program[p].board)
    OBVIOUS
  <2>1. w \in Seq(Tasks!Task) /\ OneEach(w) /\ Kept(w)
    BY <1>14
  <2>2. Tasks!WritesAs(p, Tasks!AtRest) /\ UNCHANGED <<archive, code, changes, calls>>
    BY <1>16 DEF Tasks!TornSave
  <2>3. archive' \in SUBSET Tasks!Id
    BY <1>0, <2>2 DEF Tasks!TypeOK
  <2>4. ASSUME NEW l \in Seq(Tasks!Task), OneEach(l), Kept(l), NEW there \in SUBSET DOMAIN l,
               board' = Tasks!Picked(l, there)
        PROVE  board' \in Seq(Tasks!Task) /\ OneEach(board') /\ Kept(board')
    <3>1. /\ board' \in Seq(Tasks!Task) /\ OneEach(board')
          /\ \A j \in DOMAIN board' : \E k \in there : board'[j] = l[k]
      BY <2>4, PickedKeepsOneEach
    <3> QED BY <2>4, <3>1 DEF Kept
  <2>5. CASE board' = << >> /\ columns' = Tasks!Column
    <3>1. board' \in Seq(Tasks!Task) /\ OneEach(board') /\ Kept(board')
      BY <2>5 DEF OneEach, Kept
    <3> QED BY <1>10, <1>11, <2>2, <2>3, <2>5, <3>1
  <2>6. CASE ~(board' = << >> /\ columns' = Tasks!Column)
    <3>1. PICK kept \in SUBSET program[p].columns, there \in SUBSET DOMAIN w,
               end \in DOMAIN w \cup {0} :
            /\ columns' = kept
            /\ \/ board' = Tasks!Picked(w, there)
               \/ \E sync \in Tasks!Unsynced :
                    board' = Tasks!Picked([w EXCEPT ![end].sync = sync], there)
      BY <1>16, <2>6, Zenon DEF Tasks!TornSave
    <3>2. columns' \in SUBSET Tasks!Column
      BY <1>0, <3>1 DEF Tasks!TypeOK, Tasks!ProgramState
    <3>3. CASE board' = Tasks!Picked(w, there)
      BY <1>10, <1>11, <2>1, <2>2, <2>3, <2>4, <3>2, <3>3
    <3>4. ASSUME NEW sync \in Tasks!Unsynced,
                 board' = Tasks!Picked([w EXCEPT ![end].sync = sync], there)
          PROVE  BoardInv'
      <4> PICK m : m = Relabelled(w, end, sync)
        OBVIOUS
      <4>1. /\ m \in Seq(Tasks!Task) /\ OneEach(m) /\ DOMAIN m = DOMAIN w
            /\ \A j \in DOMAIN w : m[j].sync = w[j].sync \/ m[j].sync \in Tasks!Unsynced
        <5>1. LET n == Relabelled(w, end, sync)
              IN  /\ n \in Seq(Tasks!Task) /\ OneEach(n) /\ DOMAIN n = DOMAIN w
                  /\ \A j \in DOMAIN w : n[j].sync = w[j].sync \/ n[j].sync \in Tasks!Unsynced
          BY <2>1, ForgettingKeepsOneEach
        <5> QED BY <5>1
      <4>2. Kept(m)
        BY <2>1, <4>1, WorkbenchAssumption DEF Kept
      <4>3. board' = Tasks!Picked(m, there)
        BY <3>4 DEF Relabelled
      <4>4. board' \in Seq(Tasks!Task) /\ OneEach(board') /\ Kept(board')
        BY <2>4, <4>1, <4>2, <4>3, Zenon
      <4> QED BY <1>10, <1>11, <2>2, <2>3, <3>2, <4>4
    <3> QED BY <3>1, <3>3, <3>4
  <2> QED BY <2>5, <2>6
<1>17. ASSUME NEW p \in Program, Tasks!Return(p) \/ Tasks!Crash(p) PROVE BoardInv'
  BY <1>1, <1>17, AtRestIsRight DEF Tasks!Return, Tasks!Crash
<1>18. ASSUME NEW m \in Marker, Tasks!ChangeCode(m) PROVE BoardInv'
  <2>1. /\ code' \in SUBSET Marker /\ changes' \in 0 .. MaxChanges
        /\ UNCHANGED <<board, columns, archive, program, calls>>
    BY <1>0, <1>18, WorkbenchAssumption DEF Tasks!ChangeCode, Tasks!TypeOK
  <2>2. Tasks!TypeOK'
    BY <1>0, <2>1 DEF Tasks!TypeOK
  <2> QED BY <1>0, <2>1, <2>2 DEF BoardInv, ProgramRight, Accounted
<1> QED BY <1>3, <1>5, <1>6, <1>7, <1>8, <1>9, <1>12, <1>13, <1>15, <1>16, <1>17, <1>18
        DEF Tasks!Next

\* The empty board satisfies the invariant.
LEMMA BoardStart == Tasks!Init => BoardInv
<1> SUFFICES ASSUME Tasks!Init PROVE BoardInv
  OBVIOUS
<1>1. Tasks!TypeOK
  BY AtRestIsRight, WorkbenchAssumption DEF Tasks!Init, Tasks!TypeOK
<1>2. \A p \in Program : program[p] = Tasks!AtRest
  BY DEF Tasks!Init
<1>3. OneEach(board) /\ Kept(board)
  BY DEF Tasks!Init, OneEach, Kept
<1> QED BY <1>1, <1>2, <1>3, AtRestIsRight DEF BoardInv

\* The invariant of the board holds of every behaviour of the workbench.
LEMMA BoardAlwaysRight == WorkbenchSpec => []BoardInv
<1>1. WorkbenchInit => BoardInv
  BY BoardStart DEF WorkbenchInit
<1>2. BoardInv /\ [WorkbenchNext]_workbench => BoardInv'
  <2>1. BoardInv /\ UNCHANGED tasks => BoardInv'
    BY DEF tasks, BoardInv, Tasks!TypeOK, ProgramRight, Accounted
  <2> QED BY <2>1, BoardStep DEF WorkbenchNext, workbench
<1> QED BY <1>1, <1>2, PTL DEF WorkbenchSpec

\* No two tasks of the board have the same number, however many programs load, change and
\* save it over each other's changes, and whatever is archived or purged in between: each
\* number is one higher than all on the board it was loaded with, and what is saved was
\* made from one such board (next_id, add_task, archive_done, sync_into_board_opts).
THEOREM NumbersStayUnique == WorkbenchSpec => []IdsAreUnique
<1>1. BoardInv => IdsAreUnique
  BY DEF BoardInv, OneEach, IdsAreUnique, Tasks!IdsAreUnique
<1> QED BY <1>1, BoardAlwaysRight, PTL

\* What a program that comes to its end leaves is what it was about to write, or the board
\* as it found it.
LEMMA EndsRight ==
  ASSUME BoardInv, NEW p \in Program, Tasks!Ends(p)
  PROVE  /\ program[p].pc \in {"save", "return"} /\ program[p].alone
         /\ ProgramRight(program[p]) /\ program[p].board \in Seq(Tasks!Task)
         /\ board' \in Seq(Tasks!Task) /\ OneEach(board')
         /\ columns' = program[p].columns /\ DOMAIN board' = DOMAIN program[p].board
         /\ \A k \in DOMAIN board' :
              /\ board'[k].id = program[p].board[k].id
              /\ board'[k].column = program[p].board[k].column
              /\ board'[k].sync = program[p].board[k].sync
                   \/ (program[p].board[k].sync \in Spoilt /\ board'[k].sync = Tasks!Remnant)
<1>1. /\ ProgramRight(program[p]) /\ program[p].board \in Seq(Tasks!Task)
      /\ OneEach(program[p].board) /\ OneEach(board) /\ board \in Seq(Tasks!Task)
      /\ program[p].alone
  BY DEF BoardInv, ProgramRight, Tasks!TypeOK, Tasks!ProgramState, Tasks!Ends
<1>2. CASE /\ program[p].pc = "save" /\ board' = Tasks!Written(program[p].board)
           /\ columns' = program[p].columns
  BY <1>1, <1>2, WrittenKeepsOneEach
<1>3. CASE program[p].pc = "return" /\ UNCHANGED <<board, columns>>
  BY <1>1, <1>3 DEF ProgramRight
<1> QED BY <1>2, <1>3 DEF Tasks!Ends, Tasks!At

\* After a sync that nobody came between, every marker that was found has one task, but for
\* those whose assignee spoils the row, and no task is open whose marker is gone, if there
\* is a Done column, however the board came to be what the sync loaded
\* (sync_into_board_opts, purge_stale_synced, move_task, parse_board).
THEOREM SyncAlwaysSettles == WorkbenchSpec => SyncSettles
<1>1. ASSUME BoardInv, NEW p \in Program, Tasks!Ends(p), program[p].op \in {"sync", "clean"}
      PROVE  /\ \A m \in program[p].scan \ Spoilt :
                  Tasks!Cardinality({k \in DOMAIN board' : board'[k].sync = m}) = 1
             /\ \A k \in DOMAIN board' :
                  \/ board'[k].sync \in program[p].scan \cup Tasks!Unsynced
                  \/ board'[k].column = "Done" \/ "Done" \notin columns'
  <2> PICK l : l = program[p].board
    OBVIOUS
  <2>1. /\ Settled(l, columns', program[p].scan) /\ OneEach(board')
        /\ DOMAIN board' = DOMAIN l
        /\ \A k \in DOMAIN board' :
             /\ board'[k].column = l[k].column
             /\ board'[k].sync = l[k].sync \/ (l[k].sync \in Spoilt /\ board'[k].sync = Tasks!Remnant)
    BY <1>1, EndsRight DEF ProgramRight
  <2>2. ASSUME NEW m \in program[p].scan \ Spoilt
        PROVE  Tasks!Cardinality({k \in DOMAIN board' : board'[k].sync = m}) = 1
    <3>1. m \in Marker
      BY <1>1 DEF BoardInv, Tasks!TypeOK, Tasks!ProgramState
    <3>2. PICK k \in DOMAIN board' : board'[k].sync = m
      BY <2>1 DEF Settled
    <3>3. {j \in DOMAIN board' : board'[j].sync = m} = {k}
      BY <2>1, <3>1, <3>2, WorkbenchAssumption DEF OneEach
    <3> QED BY <3>3, FS_Singleton, TasksCounted
  <2>3. ASSUME NEW k \in DOMAIN board'
        PROVE  \/ board'[k].sync \in program[p].scan \cup Tasks!Unsynced
               \/ board'[k].column = "Done" \/ "Done" \notin columns'
    <3>1. Tasks!Remnant \in Tasks!Unsynced
      BY DEF Tasks!Unsynced
    <3> QED BY <2>1, <3>1 DEF Settled
  <2> QED BY <2>2, <2>3
<1>2. BoardInv =>
        [\A p \in Program :
           Tasks!Ends(p) /\ program[p].op \in {"sync", "clean"} =>
             /\ \A m \in program[p].scan \ Spoilt :
                  Tasks!Cardinality({k \in DOMAIN board' : board'[k].sync = m}) = 1
             /\ \A k \in DOMAIN board' :
                  \/ board'[k].sync \in program[p].scan \cup Tasks!Unsynced
                  \/ board'[k].column = "Done" \/ "Done" \notin columns']_(Tasks!vars)
  BY <1>1
<1> QED BY <1>2, BoardAlwaysRight, PTL DEF SyncSettles, Tasks!SyncSettles

\* A task leaves the board only for a reason: it was done and is in the archive before the
\* board is saved without it, or --clean was asked for and it had the hash of a marker that
\* is gone or the rest of one; and it keeps its hash unless it was edited.  Another program
\* that wrote the board or the archive meanwhile, and a write cut short, are excepted
\* (archive_done, purge_stale_synced, parse_board).
THEOREM NothingIsSilentlyDeleted == WorkbenchSpec => NoSilentDelete
<1>1. ASSUME BoardInv, NEW p \in Program, Tasks!Ends(p), NEW k \in DOMAIN board
      PROVE  \/ \E j \in DOMAIN board' :
                  /\ board'[j].id = board[k].id
                  /\ board'[j].sync = board[k].sync \/ program[p].op = "edit"
             \/ program[p].op = "archive" /\ board[k].column = "Done" /\ board[k].id \in archive
             \/ program[p].op = "clean"
                /\ board[k].sync \notin program[p].scan \cup {Tasks!NotSynced}
  <2> PICK l : l = program[p].board
    OBVIOUS
  <2>1. /\ Accounted(program[p], archive) /\ DOMAIN board' = DOMAIN l
        /\ \A j \in DOMAIN board' :
             /\ board'[j].id = l[j].id
             /\ board'[j].sync = l[j].sync \/ l[j].sync \in Spoilt
    BY <1>1, EndsRight DEF ProgramRight
  <2>2. board[k].sync \notin Spoilt
    BY <1>1 DEF BoardInv, Kept
  <2>3. CASE \E j \in DOMAIN l : /\ l[j].id = board[k].id
                                 /\ l[j].sync = board[k].sync \/ program[p].op = "edit"
    <3>1. PICK j \in DOMAIN l : /\ l[j].id = board[k].id
                                /\ l[j].sync = board[k].sync \/ program[p].op = "edit"
      BY <2>3
    <3>2. j \in DOMAIN board' /\ board'[j].id = board[k].id
      BY <2>1, <3>1
    <3>3. board'[j].sync = board[k].sync \/ program[p].op = "edit"
      BY <2>1, <2>2, <3>1, <3>2
    <3> QED BY <3>2, <3>3
  <2>4. \/ \E j \in DOMAIN l : /\ l[j].id = board[k].id
                               /\ l[j].sync = board[k].sync \/ program[p].op = "edit"
        \/ program[p].op = "archive" /\ board[k].column = "Done" /\ board[k].id \in archive
        \/ program[p].op = "clean"
           /\ board[k].sync \notin program[p].scan \cup {Tasks!NotSynced}
    BY <2>1 DEF Accounted
  <2> QED BY <2>3, <2>4
<1>2. BoardInv =>
        [\A p \in Program :
           Tasks!Ends(p) => \A k \in DOMAIN board :
             \/ \E j \in DOMAIN board' :
                  /\ board'[j].id = board[k].id
                  /\ board'[j].sync = board[k].sync \/ program[p].op = "edit"
             \/ program[p].op = "archive" /\ board[k].column = "Done" /\ board[k].id \in archive
             \/ program[p].op = "clean"
                /\ board[k].sync \notin program[p].scan \cup {Tasks!NotSynced}]_(Tasks!vars)
  BY <1>1
<1> QED BY <1>2, BoardAlwaysRight, PTL DEF NoSilentDelete, Tasks!NoSilentDelete

-----------------------------------------------------------------------------
(* The global configuration. *)

ConfigProofs == INSTANCE GlobalConfigProofs WITH now <- clock, file <- config_file

\* What is served from the cache is what the file said since the load began, unless the
\* copy was read before the file had settled (load_global_config, config_cache).
THEOREM HitsStayCurrent == WorkbenchSpec => HitIsCurrent
<1>1. ConfigProofs!Spec => ConfigProofs!HitIsCurrent
  BY WorkbenchAssumption, ConfigProofs!HitsAreCurrent DEF ConfigProofs!Bounds
<1>2. WorkbenchInit => ConfigProofs!Init
  BY DEF WorkbenchInit, Config!Init, Config!Empty, Config!AtRest, Config!OldStamp,
         Config!NoEntry, ConfigProofs!Init, ConfigProofs!Empty, ConfigProofs!AtRest,
         ConfigProofs!OldStamp, ConfigProofs!NoEntry
<1>3. [WorkbenchNext]_workbench => [ConfigProofs!Next]_(ConfigProofs!vars)
  <2>1. Config!Next => ConfigProofs!Next
    BY DEF Config!Next, Config!Stat, Config!Get, Config!Read, Config!Put, Config!Write,
           Config!Save, Config!Clear, Config!WrittenElsewhere, Config!TimePasses,
           Config!At, Config!Goes, Config!Return, Config!Settled, Config!Hit,
           Config!Empty, Config!AtRest, Config!OldStamp, Config!NoEntry,
           ConfigProofs!Next, ConfigProofs!Stat, ConfigProofs!Get, ConfigProofs!Read,
           ConfigProofs!Put, ConfigProofs!Write, ConfigProofs!Save, ConfigProofs!Clear,
           ConfigProofs!WrittenElsewhere, ConfigProofs!TimePasses, ConfigProofs!At,
           ConfigProofs!Goes, ConfigProofs!Return, ConfigProofs!Settled,
           ConfigProofs!Hit, ConfigProofs!Empty, ConfigProofs!AtRest,
           ConfigProofs!OldStamp, ConfigProofs!NoEntry
  <2> QED BY <2>1 DEF WorkbenchNext, workbench, config, ConfigProofs!vars
<1>4. ConfigProofs!HitIsCurrent => Config!HitIsCurrent
  BY DEF Config!HitIsCurrent, Config!vars, Config!At, Config!Hit, Config!Settled,
         Config!NoEntry, ConfigProofs!HitIsCurrent, ConfigProofs!vars, ConfigProofs!At,
         ConfigProofs!Hit, ConfigProofs!Settled, ConfigProofs!NoEntry
<1> QED BY <1>1, <1>2, <1>3, <1>4, PTL DEF WorkbenchSpec, ConfigProofs!Spec, HitIsCurrent

=============================================================================
