---------------------------- MODULE MCArchiveJob ----------------------------
(***************************************************************************)
(* Instances of ArchiveJob for TLC: the command lines of each run.          *)
(***************************************************************************)
EXTENDS ArchiveJob, TLC

Command(mode, day, dryRun, keepDir) ==
    [mode |-> mode, day |-> day, dryRun |-> dryRun, keepDir |-> keepDir]

Daily    == Command("daily", 0, FALSE, FALSE)
Backfill == Command("backfill", 0, FALSE, FALSE)
Day(d)   == Command("day", d, FALSE, FALSE)

DailyAndDry  == {Daily} \cup {Command("daily", 0, dry, TRUE) : dry \in BOOLEAN}
WithBackfill == {Daily, Backfill}
AnyMode      == {Daily, Backfill} \cup {Day(d) : d \in Days}

\* Execution slots differ in nothing.
SlotSymmetry == Permutations(Jobs)
=============================================================================
