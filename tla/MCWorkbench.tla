---------------------------- MODULE MCWorkbench ----------------------------
(* An instance of Workbench for TLC, with the memory instance of the       *)
(* broker.  The sizes of the chunker, 40, 5, 150, 80 and 10, are cut down. *)
EXTENDS Workbench, MCGpuBroker, TLC

\* app2 begins with app.
App2BeginsWithApp == {<<"app", "app2">>}

\* A board of its own headings, and one with no backlog to put new tasks in.
OwnHeadings == {{"Backlog", "Done"}, {"Done"}}

\* The programs that keep the board do the same things.
ProgramsAlike == Permutations(Program)
=============================================================================
