--------------------------- MODULE VramAllocator ---------------------------
(***************************************************************************)
(* What a client of the GPU broker may count on, whatever the broker does  *)
(* inside (the protocol of the header of broker.rs).  Leases are numbered  *)
(* as they are requested.  A step of the broker may grant, stop and end    *)
(* several of them at once, since each of its handlers runs the scheduler: *)
(* so a step here says what may become of each, and of all together.       *)
(***************************************************************************)
EXTENDS Integers, FiniteSets

CONSTANT Room    \* what the card holds, next to the desktop

VARIABLES next,  \* how many leases have been requested
          lease  \* [1 .. next -> ALease]

ALease == [vram_mb : Nat, preemptible : BOOLEAN,
           state : {"queued", "granted", "ended"},
           directive : {"continue", "yield", "cancel"}]

ATypeOK == next \in Nat /\ lease \in [1 .. next -> ALease]

Holders(n, leases) == {i \in 1 .. n : leases[i].state = "granted"}

MegabytesHeld(n, leases) ==
  Cardinality(UNION {{i} \X (1 .. leases[i].vram_mb) : i \in Holders(n, leases)})

Born(l) == l.directive # "cancel" /\ (l.directive = "yield" => l.preemptible)

\* What may become of l: it never goes back, what has ended stays so, it is told to
\* stop only once it works, to yield only if it can, and is never told otherwise.
Follows(l, m) ==
  /\ m.vram_mb = l.vram_mb /\ m.preemptible = l.preemptible
  /\ l.state = "granted" => m.state # "queued"
  /\ l.state = "ended" => m.state = "ended"
  /\ m.state = "queued" => m.directive = "continue"
  /\ m.state = "granted" =>
       /\ l.state = "granted" /\ l.directive # "continue" => m.directive # "continue"
       /\ m.directive = "yield" => l.preemptible
       /\ l.state = "queued" => m.directive \in {"continue", "yield"}

Init == next = 0 /\ lease = [i \in 1 .. 0 |-> 0]

Step ==
  /\ next' \in {next, next + 1}
  /\ lease' \in [1 .. next' -> ALease]
  /\ \A i \in 1 .. next : Follows(lease[i], lease'[i])
  /\ \A i \in next + 1 .. next' : Born(lease'[i])
  /\ MegabytesHeld(next', lease') <= Room

Spec == Init /\ [][Step]_<<next, lease>>
=============================================================================
