--------------------------- MODULE SchedulerProps ---------------------------
(***************************************************************************)
(* What the scheduler promises.  Its sections lock mu and pausedMu one     *)
(* after the other and nothing serialises Pause, Resume and the calls that *)
(* register; the promises hold as long as no Resume met a Pause or a       *)
(* registration in progress (raced), and, of one entry, as long as it was  *)
(* not registered while paused or in the middle of a Resume (early).       *)
(***************************************************************************)
EXTENDS Scheduler

Goroutines(e) == {r \in Runners : run[r].obj = e}
AllIdle       == \A c \in Callers : call[c].pc = "idle"

(* A schedule is never run by two goroutines at once, whatever pauses,     *)
(* resumes, updates and removals overlap (scheduler.go Resume launches one *)
(* goroutine per entry and relies on Pause having waited for the old one); *)
(* and once Pause has returned none runs and none waits, until Resume is   *)
(* called (the entries registered meanwhile apart).                        *)
OneGoroutineEach ==
    ~raced =>
        /\ \A e \in Entries \ early : Cardinality(Goroutines(e)) <= 1
        /\ paused /\ ~Crashed /\ ~Under(PausePcs) => \A r \in On : run[r].obj \in early

(* While no call is in progress and nothing is paused or stopped, every    *)
(* enabled schedule has a goroutine, and it waits on a context that is     *)
(* still live: no enabled schedule is silently dead.                       *)
EnabledRuns ==
    AllIdle /\ ~paused /\ ~stopped /\ ~raced =>
        \A e \in Listed \intersect enabled :
            \E r \in Goroutines(e) :
                ~Cancelled(e, IF run[r].pc = "select" THEN run[r].ctx ELSE ctx[e])

(* An entry that was removed, or replaced by an update, comes to an end:   *)
(* its goroutines stop, also when it was removed before its goroutine was  *)
(* launched or while the scheduler was paused.                             *)
Removed(e) == e \in made /\ e \notin Listed /\ \A c \in Callers : call[c].obj # e
RemovedStops == \A e \in Entries : Removed(e) ~> (Goroutines(e) = {} \/ Crashed)

(* Pause and Stop return.                                                  *)
PauseReturns ==
    \A c \in Callers :
        call[c].pc \in PausePcs ~> (call[c].pc = "idle" \/ raced \/ early # {} \/ Crashed)

(* Whatever was cancelled ends, and whoever waits for that returns.        *)
CancelledEnds == RemovedStops /\ PauseReturns

(* "New entries registered while paused will not start until Resume is     *)
(* called." (scheduler.go, comment of Pause)                               *)
NothingStartsWhilePaused ==
    [][\A r \in Runners :
          run[r].pc = "off" /\ run'[r].obj \in early => ~paused \/ Under(PausePcs)]_vars
=============================================================================
