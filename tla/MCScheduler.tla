---------------------------- MODULE MCScheduler ----------------------------
(* One schedule name, running when the callers start.                      *)
EXTENDS SchedulerProps

CONSTANTS e1, e2, job

MCNames   == {job}
MCEntries == {e1, e2}
MCBoot    == [n \in MCNames |-> e1]
=============================================================================
