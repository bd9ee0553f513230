----------------------------- MODULE GpuHistory -----------------------------
(***************************************************************************)
(* The GPU's history (void-stack-gpu history.rs): one row of a table for   *)
(* each burst of turns that an owner took for one task.  What a turn costs *)
(* is left out; a job is an owner with a task; an instant is a number.     *)
(***************************************************************************)
EXTENDS Integers, Sequences, SequencesExt, FiniteSets, FiniteSetsExt, Lists

CONSTANTS
  Job,
  BURST_GAP,   \* BURST_GAP_MS
  MaxTurns,    \* bound: turns that are written
  MaxInstant   \* bound: the last instant

VARIABLES
  rows,    \* the table
  written  \* history: the turns, in the order in which they were written

NeverGranted == -1   \* granted_at_ms is None
Instant == 0 .. MaxInstant

\* What the broker hands over when a lease ends.  One that ends in the queue was never
\* granted; its owner may have given it up ("released") all the same.
Turn == {t \in [job : Job, granted : Instant \cup {NeverGranted}, ended : Instant,
                outcome : {"released", "expired"}] : t.granted <= t.ended}

\* Mutant of Newest: the newest of those that ended well.
NewestReleased(job) ==
  LET mine == {r \in DOMAIN rows : rows[r].job = job /\ rows[r].outcome = "released"}
  IN  {r \in mine : \A q \in mine : rows[q].ended <= rows[r].ended}

\* ORDER BY ended_at_ms DESC LIMIT 1: any of those that ended last.
Newest(job) ==
  LET mine == {r \in DOMAIN rows : rows[r].job = job}
  IN  {r \in mine : \A q \in mine : rows[q].ended <= rows[r].ended}

\* Mutant of Continues: any turn continues a burst, an expired one too.
ContinuesAnyhow(t, row) ==
  t.granted # NeverGranted /\ row.outcome = "released" /\ t.granted - row.ended <= BURST_GAP

Continues(t, row) ==
  /\ t.outcome = "released" /\ t.granted # NeverGranted
  /\ row.outcome = "released" /\ t.granted - row.ended <= BURST_GAP

Merged(row, t) == [row EXCEPT !.ended = t.ended, !.turns = @ + 1]
Row(t) == [job |-> t.job, granted |-> t.granted, ended |-> t.ended, outcome |-> t.outcome,
           turns |-> 1]

\* The turn goes into the newest row of its job, or into a row of its own.
Record(t) ==
  /\ Len(written) < MaxTurns /\ written' = Append(written, t)
  /\ \/ /\ Newest(t.job) = {}
        /\ rows' = Append(rows, Row(t))
     \/ \E r \in Newest(t.job) :
          rows' = IF Continues(t, rows[r]) THEN [rows EXCEPT ![r] = Merged(@, t)]
                  ELSE Append(rows, Row(t))

Init == rows = << >> /\ written = << >>
Next == \E t \in Turn : Record(t)
Spec == Init /\ [][Next]_<<rows, written>>

-----------------------------------------------------------------------------

\* How many turns the rows of a table stand for.
TurnsOf(table) == Cardinality(UNION {{r} \X (1 .. table[r].turns) : r \in DOMAIN table})

\* "An expired or cancelled turn is kept apart, because it is news" (record): in whatever
\* order two settles write their turns, and whichever of two rows that ended together is
\* taken for the newest, no turn is lost and one that failed has a row of its own, with
\* its own instants, that no later turn of the burst is added to.
FailuresStandOut ==
  /\ TurnsOf(rows) = Len(written)
  /\ \A t \in {t \in ToSet(written) : t.outcome # "released"} :
       Cardinality({r \in DOMAIN rows : rows[r] = Row(t)})
         = Cardinality({k \in DOMAIN written : written[k] = t})

\* Turns of one job, by when they ended, and the bursts they make up: the largest runs
\* k .. n in which each turn continues the one before it.
InOrder(turns) == \A k \in 2 .. Len(turns) : turns[k - 1].ended < turns[k].ended
Bursts(turns) ==
  LET Joined(k) == Continues(turns[k], turns[k - 1])
      starts == {k \in DOMAIN turns : k = 1 \/ ~Joined(k)}
      last(k) == Max({n \in k .. Len(turns) : \A i \in k + 1 .. n : Joined(i)})
  IN  {[job |-> turns[k].job, granted |-> turns[k].granted, ended |-> turns[last(k)].ended,
        outcome |-> turns[k].outcome, turns |-> last(k) - k + 1] : k \in starts}

\* "For who held the GPU the burst is ONE job: what matters is when it began, when it
\* ended and how many turns it had" (BURST_GAP_MS): turns that are written as they end,
\* those of two jobs in any mixture, leave one row for each burst of each job.
BurstsAreRows ==
  InOrder(written) =>
    \A job \in Job :
      {row \in ToSet(rows) : row.job = job}
        = Bursts(Picked(written, {k \in DOMAIN written : written[k].job = job}))
=============================================================================
