--------------------------- MODULE ProcessLedger ---------------------------
(***************************************************************************)
(* What the process manager promises of the processes it spawns, however   *)
(* many callers start and stop services at once, and however late the exit *)
(* watchers come.  A process belongs to one service for ever.  It is       *)
(* recorded once, as the one its service runs, and is then forgotten for   *)
(* good; a service has one recorded process at a time.  No process is told *)
(* to stop before it has been recorded.                                    *)
(***************************************************************************)
EXTENDS Integers

CONSTANT Service

VARIABLES count,  \* how many processes have been spawned
          entry   \* [1 .. count -> Entry]

Entry == [service : Service, record : {"new", "recorded", "forgotten"},
          alive : BOOLEAN, told : BOOLEAN]

\* What may become of e: it goes from new to recorded to forgotten and never back, it is
\* told to stop once somebody can have found it, and what has died stays dead.
Follows(e, f) ==
  /\ f.service = e.service
  /\ f.alive => e.alive
  /\ e.told => f.told
  /\ f.told /\ ~e.told => e.record # "new"
  /\ e.record = "new" => f.record # "forgotten"
  /\ e.record = "recorded" => f.record # "new"
  /\ e.record = "forgotten" => f.record = "forgotten"

Born(e) == e.record = "new" /\ e.alive /\ ~e.told

OneEach(n, entries) ==
  \A i, j \in 1 .. n :
    /\ entries[i].record = "recorded" /\ entries[j].record = "recorded"
    /\ entries[i].service = entries[j].service
    => i = j

Init == count = 0 /\ entry = [i \in 1 .. 0 |-> 0]

Step ==
  /\ count' \in {count, count + 1}
  /\ entry' \in [1 .. count' -> Entry]
  /\ \A i \in 1 .. count : Follows(entry[i], entry'[i])
  /\ \A i \in count + 1 .. count' : Born(entry'[i])
  /\ OneEach(count', entry')

Spec == Init /\ [][Step]_<<count, entry>>
=============================================================================
