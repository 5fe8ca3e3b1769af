--------------------------- MODULE PeriodicWorker ---------------------------
(***************************************************************************)
(* What ltz::scheduler::loop_worker promises its user, without threads,    *)
(* queues or handlers: a job that is either stopped, waiting for its       *)
(* interval, due, or running; a notification makes it due now, or once     *)
(* more if it is due or running already; a stop request is honoured at the *)
(* end of the run in progress.  SchedulerLoopWorker implements it.         *)
(***************************************************************************)

VARIABLES
  phase,   \* "stopped", "waiting", "due" or "running"
  again,   \* run once more right after this run
  halt     \* stop right after this run

vars == <<phase, again, halt>>

TypeOK ==
  /\ phase \in {"stopped", "waiting", "due", "running"}
  /\ again \in BOOLEAN
  /\ halt \in BOOLEAN

Init == phase = "stopped" /\ ~again /\ ~halt

\* The job is pending or in progress.
Busy == phase \in {"due", "running"}

Start ==
  /\ phase = "stopped"
  /\ phase' \in {"waiting", "due"}
  /\ UNCHANGED <<again, halt>>

StopNow ==
  /\ phase = "waiting"
  /\ phase' = "stopped"
  /\ UNCHANGED <<again, halt>>

StopLater ==
  /\ Busy
  /\ halt' = TRUE
  /\ UNCHANGED <<phase, again>>

RunAgain ==
  /\ Busy
  /\ again' = TRUE
  /\ UNCHANGED <<phase, halt>>

\* The interval is over, or somebody asks for a run before it is.
Interval ==
  /\ phase = "waiting"
  /\ phase' = "due"
  /\ UNCHANGED <<again, halt>>

Begin ==
  /\ phase = "due"
  /\ phase' = "running"
  /\ UNCHANGED <<again, halt>>

\* A stop request takes precedence over a request to run again.
Finish ==
  /\ phase = "running"
  /\ again' = FALSE
  /\ halt' = FALSE
  /\ phase' = IF halt THEN "stopped" ELSE IF again THEN "due" ELSE "waiting"

Next == Start \/ StopNow \/ StopLater \/ RunAgain \/ Interval \/ Begin \/ Finish

Fairness == WF_vars(Interval) /\ WF_vars(Begin) /\ WF_vars(Finish)

Spec == Init /\ [][Next]_vars /\ Fairness
=============================================================================
