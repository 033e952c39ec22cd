---------------------------- MODULE MCProgramFiring ----------------------------
(***************************************************************************)
(* Rows a process may start with, one of each kind of trigger and          *)
(* destination, and the edits asked of them.                               *)
(***************************************************************************)
EXTENDS ProgramFiring

CONSTANTS c1, c2, f, g

Candidate(cron, grace, hook, filter, dest) ==
    [charter |-> c1, cron |-> cron, grace |-> grace, hook |-> hook,
     filter |-> filter, dest |-> dest]

MCSeeds ==
    {Candidate(3, 1, None, None, "telegram"), Candidate(2, None, None, None, "resp"),
     Candidate(2, None, 1, f, "app")}

MCDrafts == {Candidate(2, None, 0, None, "app")}

MCPatches ==
    {[charter |-> c2, grace |-> None], [filter |-> g], [filter |-> None], [hook |-> 0],
     [cron |-> 2], [cron |-> None]}

\* No definition reads both the clock and the mailbox: a behaviour moves one of them.
Focus == \/ now = 1 /\ ~attached /\ active
         \/ mailbox = <<>> /\ scan = None /\ failing = {}
            /\ \A p \in Live : rows[p].cursor = None

=============================================================================
