----------------------------- MODULE ThreadLife -----------------------------
(***************************************************************************)
(* What ltz::thread::loop_worker promises the threads that use it, without *)
(* mutexes, condition variables or flags.  There is at most one thread; it *)
(* calls fnInit_, then fnWork_ once and again after each rest until it is  *)
(* told to end, then fnClear_.  It ends for no other reason than an order  *)
(* given during its life, or an fnInit_ that throws.  A start() finds a    *)
(* thread or makes one; when a stop() returns there is none.               *)
(* ThreadLoopWorker implements it.                                         *)
(***************************************************************************)

CONSTANT Clients

VARIABLES
  phase,  \* of the thread's life; "off" when there is no thread
  told,   \* the thread has been told to end
  doing   \* each client's call: "start", "stop", "notify_stop", "other", or "nothing"

vars == <<phase, told, doing>>

Phases == {"off", "new", "init", "work", "rest", "clear", "over"}

\* The thread can hear an order: before its first line it would forget it.
Listens == phase \in {"init", "work", "rest", "clear"}

TypeOK ==
  /\ phase \in Phases
  /\ told \in BOOLEAN
  /\ doing \in [Clients -> {"start", "stop", "notify_stop", "other", "nothing"}]

Init == phase = "off" /\ ~told /\ doing = [c \in Clients |-> "nothing"]

-----------------------------------------------------------------------------
(* The thread. *)

Moves(from, to) == phase = from /\ phase' = to /\ UNCHANGED doing

Begin == Moves("new", "init") /\ UNCHANGED told
InitReturns == Moves("init", "work") /\ UNCHANGED told
InitThrows == Moves("init", "over") /\ told' = FALSE
WorkReturns == Moves("work", IF told THEN "clear" ELSE "rest") /\ UNCHANGED told
RestEnds == Moves("rest", IF told THEN "clear" ELSE "work") /\ UNCHANGED told
ClearReturns == Moves("clear", "over") /\ told' = FALSE

\* Any of the three functions may tell its own thread to end.
TellsItself ==
  phase \in {"init", "work", "clear"} /\ told' = TRUE /\ UNCHANGED <<phase, doing>>

-----------------------------------------------------------------------------
(* The clients. *)

Calls(c, op) ==
  /\ doing[c] = "nothing" /\ doing' = [doing EXCEPT ![c] = op]
  /\ UNCHANGED <<phase, told>>

Returns(c, op) ==
  doing[c] = op /\ doing' = [doing EXCEPT ![c] = "nothing"]

\* A thread that is over is joined first.
StartJoins(c) ==
  /\ doing[c] = "start"
  /\ phase = "over" /\ phase' = "off"
  /\ UNCHANGED <<told, doing>>

StartReturns(c) ==
  /\ Returns(c, "start")
  /\ \/ phase = "off" /\ phase' = "new"
     \/ phase # "off" /\ UNCHANGED phase
  /\ UNCHANGED told

StopTells(c) ==
  /\ doing[c] = "stop"
  /\ Listens /\ told' = TRUE
  /\ UNCHANGED <<phase, doing>>

StopReturns(c) ==
  /\ Returns(c, "stop")
  /\ phase \in {"off", "over"} /\ phase' = "off"
  /\ UNCHANGED told

NotifyStopReturns(c) ==
  /\ Returns(c, "notify_stop")
  /\ told' = (told \/ Listens)
  /\ UNCHANGED phase

OtherReturns(c) == Returns(c, "other") /\ UNCHANGED <<phase, told>>

Next ==
  \/ Begin \/ InitReturns \/ InitThrows \/ WorkReturns \/ RestEnds \/ ClearReturns
  \/ TellsItself
  \/ \E c \in Clients :
       \/ \E op \in {"start", "stop", "notify_stop", "other"} : Calls(c, op)
       \/ StartJoins(c) \/ StartReturns(c)
       \/ StopTells(c) \/ StopReturns(c)
       \/ NotifyStopReturns(c) \/ OtherReturns(c)

Spec == Init /\ [][Next]_vars
=============================================================================
