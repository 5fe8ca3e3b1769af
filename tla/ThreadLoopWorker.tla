-------------------------- MODULE ThreadLoopWorker --------------------------
(***************************************************************************)
(* ltz::thread::loop_worker (src/include/ltz/thread/loop_worker.hpp): a     *)
(* thread that calls fnWork_, sleeps on cvWork_, and calls it again.       *)
(*                                                                         *)
(* Threads: the clients, which wait for mtxThis_ when they call a method   *)
(* and hold it to the method's end, also while they wait inside it; and    *)
(* the worker, which holds mtxWorkThread_ for the whole of work() except   *)
(* in cvWork_.wait_for.                                                    *)
(* A client's use of mtxWorkThread_ is one step, since it gives it back    *)
(* before it does anything another thread could see: so mtxWorkThread_ is  *)
(* taken exactly while the worker is in a place of Locked.                 *)
(*                                                                         *)
(* The flags are atomics, and the worker writes bStarted_ without mtxThis_. *)
(* notify_one on a condition variable reaches a thread only if it waits.   *)
(***************************************************************************)
EXTENDS Naturals

CONSTANTS
  Clients,       \* the threads that call the worker's methods
  Worker,        \* the thread behind thWork_
  NoThread,      \* nobody
  Ops,           \* the methods the clients call, among AllOps
  InitMayFail,   \* may fnInit_ throw a std::exception?
  CallbackOps    \* what fnInit_, fnWork_ and fnClear_ call on their own worker,
                 \* among AllCallbackOps

\* set_fn stands for set_init_fn and for set_clear_fn.
AllOps == {"start", "stop", "notify_work", "notify_stop", "set_fn", "assign"}

\* query stands for is_started and operator bool, and for start, notify_work,
\* set_init_fn and set_clear_fn, which change nothing when the worker's own
\* thread calls them: it finds bStarted_ set whenever it gets mtxThis_.
AllCallbackOps == {"query", "notify_stop", "stop"}

ASSUME ThreadsAssumption ==
  Worker \notin Clients /\ NoThread \notin Clients /\ Worker # NoThread
ASSUME OpsAssumption == Ops \subseteq AllOps /\ CallbackOps \subseteq AllCallbackOps
ASSUME SwitchAssumption == InitMayFail \in BOOLEAN

VARIABLES
  mtxThis_,     \* who holds it
  at,           \* each client's place: "ready", the method it calls while it
                \* waits for mtxThis_, or a place inside that method
  worker,       \* where the worker is in work(); "none" when thWork_ is not joinable
  calling,      \* the function it runs is in a call of its own on this worker
  bStarted_,
  bNeedStop_,
  bReadyStop_,
  asked         \* history: notify_stop() was called on the thread that now runs

flags == <<bStarted_, bNeedStop_, bReadyStop_>>
vars == <<mtxThis_, at, worker, calling, flags, asked>>

\* The places in which work() runs a function it was given.
Functions == {"init", "work", "clear"}

\* The worker holds mtxWorkThread_.
Locked == Functions \cup {"sleep", "cleaner", "leaving"}

\* Between the first line of work() and the cleaner.
Looping == Functions \cup {"sleep", "waiting", "wakeup", "cleaner"}

Alive == Looping \cup {"begin", "leaving"}

Init ==
  /\ mtxThis_ = NoThread
  /\ at = [c \in Clients |-> "ready"]
  /\ worker = "none"
  /\ calling = FALSE
  /\ bStarted_ = FALSE
  /\ bNeedStop_ = FALSE
  /\ bReadyStop_ = FALSE
  /\ asked = FALSE

-----------------------------------------------------------------------------
(* The clients. *)

Call(c, op) ==
  /\ at[c] = "ready"
  /\ at' = [at EXCEPT ![c] = op]
  /\ UNCHANGED <<mtxThis_, worker, calling, flags, asked>>

\* std::lock_guard on mtxThis_.  The method reads bStarted_ next, and either
\* returns at once or holds mtxThis_ from here on.
Enters(c, op) == at[c] = op /\ mtxThis_ = NoThread

GoOn(c, place) ==
  /\ mtxThis_' = c
  /\ at' = [at EXCEPT ![c] = place]

Return(c) ==
  /\ mtxThis_' = NoThread
  /\ at' = [at EXCEPT ![c] = "ready"]

\* cvWork_.notify_one()
WakeWorker == worker' = IF worker = "waiting" THEN "wakeup" ELSE worker

\* Mutant: a worker that is started already is started again.
Start_Unchecked(c) ==
  /\ Enters(c, "start")
  /\ GoOn(c, "start_join")
  /\ UNCHANGED <<worker, calling, flags, asked>>

Start(c) ==
  /\ Enters(c, "start")
  /\ IF bStarted_ THEN Return(c) ELSE GoOn(c, "start_join")
  /\ UNCHANGED <<worker, calling, flags, asked>>

\* thWork_.join(), if it is joinable.
StartJoin(c) ==
  /\ at[c] = "start_join"
  /\ worker \in {"none", "done"}
  /\ worker' = "none"
  /\ GoOn(c, "start_spawn")
  /\ UNCHANGED <<calling, flags, asked>>

StartSpawn(c) ==
  /\ at[c] = "start_spawn"
  /\ worker \notin Locked
  /\ bStarted_' = TRUE
  /\ worker' = "begin"
  /\ Return(c)
  /\ UNCHANGED <<calling, bNeedStop_, bReadyStop_, asked>>

Stop(c) ==
  /\ Enters(c, "stop")
  /\ GoOn(c, IF bStarted_ THEN "stop_lock" ELSE "stop_join")
  /\ UNCHANGED <<worker, calling, flags, asked>>

\* Mutant: the worker is not notified.
StopLock_Silent(c) ==
  /\ at[c] = "stop_lock"
  /\ worker \notin Locked
  /\ bStarted_' = IF bReadyStop_ THEN FALSE ELSE bStarted_
  /\ GoOn(c, IF bReadyStop_ THEN "stop_join" ELSE "stop_cv")
  /\ UNCHANGED <<worker, calling, bNeedStop_, bReadyStop_, asked>>

\* With mtxWorkThread_: wait for bReadyStop_, then tell the worker to end.  A
\* spurious wake-up finds bReadyStop_ false and waits again, so it is left out.
StopLock(c) ==
  /\ at[c] = "stop_lock"
  /\ worker \notin Locked
  /\ \/ /\ bReadyStop_
        /\ bStarted_' = FALSE
        /\ WakeWorker
        /\ GoOn(c, "stop_join")
     \/ /\ ~bReadyStop_
        /\ GoOn(c, "stop_cv")
        /\ UNCHANGED <<worker, bStarted_>>
  /\ UNCHANGED <<calling, bNeedStop_, bReadyStop_, asked>>

\* The cleaner of stop().
StopJoin(c) ==
  /\ at[c] = "stop_join"
  /\ worker \in {"none", "done"}
  /\ worker' = "none"
  /\ bReadyStop_' = FALSE
  /\ Return(c)
  /\ UNCHANGED <<calling, bStarted_, bNeedStop_, asked>>

NotifyWork(c) ==
  /\ Enters(c, "notify_work")
  /\ IF bStarted_ THEN WakeWorker ELSE UNCHANGED worker
  /\ Return(c)
  /\ UNCHANGED <<calling, flags, asked>>

NotifyStop(c) ==
  /\ Enters(c, "notify_stop")
  /\ bNeedStop_' = TRUE
  /\ asked' = (asked \/ bStarted_)
  /\ WakeWorker
  /\ Return(c)
  /\ UNCHANGED <<calling, bStarted_, bReadyStop_>>

\* Mutant: mtxThis_ is held for the check only.
SetFn_Unlocked(c) ==
  /\ Enters(c, "set_fn")
  /\ mtxThis_' = NoThread
  /\ at' = [at EXCEPT ![c] = IF bStarted_ THEN "ready" ELSE "set_write"]
  /\ UNCHANGED <<worker, calling, flags, asked>>

\* set_init_fn, set_clear_fn: the write follows the check.
SetFn(c) ==
  /\ Enters(c, "set_fn")
  /\ IF bStarted_ THEN Return(c) ELSE GoOn(c, "set_write")
  /\ UNCHANGED <<worker, calling, flags, asked>>

\* operator= writes the functions and cfg_ without asking whether a thread runs.
Assign(c) ==
  /\ Enters(c, "assign")
  /\ GoOn(c, "assign_write")
  /\ UNCHANGED <<worker, calling, flags, asked>>

Written(c) ==
  /\ at[c] \in {"set_write", "assign_write"}
  /\ Return(c)
  /\ UNCHANGED <<worker, calling, flags, asked>>

-----------------------------------------------------------------------------
(* The worker. *)

\* Mutant: cvReadyStop_ is not notified.
WorkBegin_Silent ==
  /\ worker = "begin"
  /\ worker' = "init"
  /\ bReadyStop_' = TRUE
  /\ bNeedStop_' = FALSE
  /\ UNCHANGED <<mtxThis_, at, calling, bStarted_, asked>>

\* bReadyStop_ and its notification; a stop that was asked for before is forgotten.
WorkBegin ==
  /\ worker = "begin"
  /\ worker' = "init"
  /\ bReadyStop_' = TRUE
  /\ at' = [c \in Clients |-> IF at[c] = "stop_cv" THEN "stop_lock" ELSE at[c]]
  /\ bNeedStop_' = FALSE
  /\ UNCHANGED <<mtxThis_, calling, bStarted_, asked>>

InitReturns ==
  /\ worker = "init" /\ ~calling
  /\ worker' = "work"
  /\ UNCHANGED <<mtxThis_, at, calling, flags, asked>>

\* work() returns without fnClear_.
InitThrows ==
  /\ InitMayFail
  /\ worker = "init" /\ ~calling
  /\ worker' = "cleaner"
  /\ UNCHANGED <<mtxThis_, at, calling, flags, asked>>

\* fnWork_ returns or throws a std::exception; then the first check.
WorkReturns ==
  /\ worker = "work" /\ ~calling
  /\ worker' = IF bNeedStop_ \/ ~bStarted_ THEN "clear" ELSE "sleep"
  /\ UNCHANGED <<mtxThis_, at, calling, flags, asked>>

\* cvWork_.wait_for releases mtxWorkThread_ and begins to listen.
Sleep ==
  /\ worker = "sleep"
  /\ worker' = "waiting"
  /\ UNCHANGED <<mtxThis_, at, calling, flags, asked>>

\* Mutant: wait instead of wait_for.
TimeOut_Never == FALSE /\ UNCHANGED vars

\* The sleep is over, or the wake-up is spurious.
TimeOut ==
  /\ worker = "waiting"
  /\ worker' = "wakeup"
  /\ UNCHANGED <<mtxThis_, at, calling, flags, asked>>

\* Mutant: the second check is missing.
WakeUp_Unchecked ==
  /\ worker = "wakeup"
  /\ worker' = "work"
  /\ UNCHANGED <<mtxThis_, at, calling, flags, asked>>

\* mtxWorkThread_ is taken again; the second check.
WakeUp ==
  /\ worker = "wakeup"
  /\ worker' = IF bNeedStop_ \/ ~bStarted_ THEN "clear" ELSE "work"
  /\ UNCHANGED <<mtxThis_, at, calling, flags, asked>>

ClearReturns ==
  /\ worker = "clear" /\ ~calling
  /\ worker' = "cleaner"
  /\ UNCHANGED <<mtxThis_, at, calling, flags, asked>>

\* Mutant: only the ready flag is reset.
Cleaner_KeepsStarted ==
  /\ worker = "cleaner"
  /\ worker' = "leaving"
  /\ bReadyStop_' = FALSE
  /\ asked' = FALSE
  /\ UNCHANGED <<mtxThis_, at, calling, bStarted_, bNeedStop_>>

\* Mutant: only the started flag is reset.
Cleaner_KeepsReady ==
  /\ worker = "cleaner"
  /\ worker' = "leaving"
  /\ bStarted_' = FALSE
  /\ asked' = FALSE
  /\ UNCHANGED <<mtxThis_, at, calling, bNeedStop_, bReadyStop_>>

\* The cleaner of work(), before mtxWorkThread_ is given back.
Cleaner ==
  /\ worker = "cleaner"
  /\ worker' = "leaving"
  /\ bStarted_' = FALSE
  /\ bReadyStop_' = FALSE
  /\ asked' = FALSE
  /\ UNCHANGED <<mtxThis_, at, calling, bNeedStop_>>

Leave ==
  /\ worker = "leaving"
  /\ worker' = "done"
  /\ UNCHANGED <<mtxThis_, at, calling, flags, asked>>

\* The function calls a method of its own worker: it waits for mtxThis_ first.
Callback ==
  /\ worker \in Functions /\ ~calling
  /\ CallbackOps # {}
  /\ calling' = TRUE
  /\ UNCHANGED <<mtxThis_, at, worker, flags, asked>>

CallbackRuns ==
  /\ calling
  /\ mtxThis_ = NoThread
  /\ \/ /\ "query" \in CallbackOps
        /\ calling' = FALSE
        /\ UNCHANGED <<mtxThis_, bNeedStop_, asked>>
     \/ /\ "notify_stop" \in CallbackOps
        /\ calling' = FALSE
        /\ bNeedStop_' = TRUE
        /\ asked' = TRUE
        /\ UNCHANGED mtxThis_
     \* stop() goes on to lock mtxWorkThread_, which this thread has locked
     \/ /\ "stop" \in CallbackOps
        /\ mtxThis_' = Worker
        /\ UNCHANGED <<calling, bNeedStop_, asked>>
  /\ UNCHANGED <<at, worker, bStarted_, bReadyStop_>>

-----------------------------------------------------------------------------
ClientEnters(c) ==
  Start(c) \/ Stop(c) \/ NotifyWork(c) \/ NotifyStop(c) \/ SetFn(c) \/ Assign(c)

ClientStep(c) == StartJoin(c) \/ StartSpawn(c) \/ StopJoin(c) \/ Written(c)

FunctionReturns == InitReturns \/ InitThrows \/ WorkReturns \/ ClearReturns

WorkerStep == WorkBegin \/ Sleep \/ WakeUp \/ Cleaner \/ Leave

\* What goes on by itself, when nobody calls anything new.
Going ==
  \/ \E c \in Clients : ClientEnters(c) \/ ClientStep(c) \/ StopLock(c)
  \/ WorkerStep \/ TimeOut
  \/ FunctionReturns \/ Callback \/ CallbackRuns

Next == (\E c \in Clients, op \in Ops : Call(c, op)) \/ Going

(***************************************************************************)
(* Threads go on; fnInit_, fnWork_ and fnClear_ return, however many calls *)
(* they make, unless one of these never returns.  A thread that waits for  *)
(* a mutex is not passed over for ever: mtxWorkThread_ is free for the     *)
(* whole of each sleep and mtxThis_ between any two calls.  Nobody has to  *)
(* call anything, and no sleep has to end.                                 *)
(***************************************************************************)
Fairness ==
  /\ WF_vars(WorkerStep)
  /\ SF_vars(FunctionReturns)
  /\ SF_vars(CallbackRuns)
  /\ \A c \in Clients :
       WF_vars(ClientStep(c)) /\ SF_vars(ClientEnters(c)) /\ SF_vars(StopLock(c))

Spec == Init /\ [][Next]_vars

FairSpec == Spec /\ Fairness

-----------------------------------------------------------------------------
(* Properties. *)

Inside == {"start_join", "start_spawn", "stop_lock", "stop_cv", "stop_join",
           "set_write", "assign_write"}

\* Every variable has its type, and mtxThis_ is held by exactly the thread
\* that is inside a method.
TypeOK ==
  /\ mtxThis_ \in Clients \cup {Worker, NoThread}
  /\ at \in [Clients -> Inside \cup AllOps \cup {"ready"}]
  /\ worker \in Alive \cup {"none", "done"}
  /\ calling \in BOOLEAN /\ (calling => worker \in Functions)
  /\ bStarted_ \in BOOLEAN
  /\ bNeedStop_ \in BOOLEAN
  /\ bReadyStop_ \in BOOLEAN
  /\ asked \in BOOLEAN
  /\ \A c \in Clients : at[c] \in Inside <=> mtxThis_ = c

\* bStarted_ tells the truth: while it is set a thread runs work() up to its
\* cleaner, and while such a thread runs it is set, except between stop()'s
\* order to end and the join, when nobody can look at it.
StartedMeansRunning ==
  /\ bStarted_ => worker \in Looping \cup {"begin"}
  /\ worker \in Looping \cup {"begin"} /\ ~bStarted_ =>
       \E c \in Clients : at[c] = "stop_join"

\* bReadyStop_ is set exactly from the first line of work() to its cleaner: a
\* stop() never takes the signal of an earlier thread for that of the next.
ReadyMeansRunning == bReadyStop_ <=> worker \in Looping

\* The write of set_init_fn and set_clear_fn never meets a thread that calls
\* these functions, although bStarted_ is cleared without mtxThis_.
SetFnRace ==
  (\E c \in Clients : at[c] = "set_write") => worker \notin Looping \cup {"begin"}

\* stop() waits for the signal only of a thread that has still to give it.
SignalWillCome ==
  (\E c \in Clients : at[c] = "stop_cv") => worker = "begin" /\ bStarted_

\* cfg_.sleep_time_ms is short enough to be waited for.
SleepsEnd == WF_vars(TimeOut)

\* Every stop() returns: the destructor, which is stop(), too.
StopReturns ==
  \A c \in Clients :
    at[c] \in {"stop", "stop_lock", "stop_cv", "stop_join"} ~> at[c] = "ready"

\* Whoever joins the thread joins one that neither works nor sleeps again: no
\* stop() lets the wake-up get lost, and none waits for a whole sleep.
JoinsEnd ==
  (\E c \in Clients : at[c] \in {"start_join", "stop_join"}) =>
    worker \in {"wakeup", "clear", "cleaner", "leaving", "done", "none"}

\* The four ways in which nothing moves any more.
\* The thread left by itself after stop() saw it started.
LostSignal == \E c \in Clients : at[c] = "stop_cv" /\ worker = "done"

\* A function wants mtxThis_, whose holder wants mtxWorkThread_.
LockOrder == calling /\ \E c \in Clients : at[c] = "stop_lock"

\* A function, fnClear_, wants mtxThis_, which stop() holds while it joins.
JoinOrder == calling /\ \E c \in Clients : at[c] = "stop_join"

\* A function called stop().
SelfStop == mtxThis_ = Worker

Hang == LostSignal \/ LockOrder \/ JoinOrder \/ SelfStop

\* Every stop() returns or ends in one of the four hangs, also while nobody but
\* stop() would ever wake the thread: it gives the signal, it hears the order,
\* and it is joined.
StopReturnsOrHangs ==
  \A c \in Clients :
    at[c] \in {"stop", "stop_lock", "stop_cv", "stop_join"} ~> at[c] = "ready" \/ Hang

\* Nobody is in a call, and no thread runs.
AtRest == worker \in {"none", "done"} /\ \A c \in Clients : at[c] = "ready"

\* Something can go on: the guards of Going.
ClientCan(c) ==
  \/ at[c] \in AllOps /\ mtxThis_ = NoThread
  \/ at[c] \in {"start_join", "stop_join"} /\ worker \in {"none", "done"}
  \/ at[c] \in {"start_spawn", "stop_lock"} /\ worker \notin Locked
  \/ at[c] \in {"set_write", "assign_write"}
WorkerCan ==
  \/ worker \in Alive /\ ~calling
  \/ calling /\ mtxThis_ = NoThread
CanGo == WorkerCan \/ \E c \in Clients : ClientCan(c)

GoesOn == CanGo \/ AtRest \/ Hang

\* The worker and its clients come to a stand only in these four ways, even
\* if no new call comes in, whatever fnInit_, fnWork_ and fnClear_ call on
\* their own worker.
OnlyKnownHangs == GoesOn /\ (CanGo <=> ENABLED Going)

\* A thread that has begun and has been told to stop ends if its sleeps do,
\* unless one of its functions is caught in its own call.
NeedStopEnds ==
  SleepsEnd => (bNeedStop_ /\ worker \in Looping ~> worker \notin Looping \/ Hang)

\* A notify_stop() on a started worker ends its thread, if its sleeps end.
NotifyStopEnds == SleepsEnd => (asked ~> ~asked)

\* Refinement.  A thread in its cleaner, or behind it, is over: nothing is
\* called any more.  What tells it to end is either flag.
Phase ==
  CASE worker = "none" -> "off"
    [] worker = "begin" -> "new"
    [] worker = "init" -> "init"
    [] worker = "work" -> "work"
    [] worker \in {"sleep", "waiting", "wakeup"} -> "rest"
    [] worker = "clear" -> "clear"
    [] OTHER -> "over"

Told == worker \in Looping \ {"cleaner"} /\ (bNeedStop_ \/ ~bStarted_)

Doing(place) ==
  CASE place \in {"start", "start_join", "start_spawn"} -> "start"
    [] place \in {"stop", "stop_lock", "stop_cv", "stop_join"} -> "stop"
    [] place = "notify_stop" -> "notify_stop"
    [] place = "ready" -> "nothing"
    [] OTHER -> "other"

Abstract == INSTANCE ThreadLife WITH
  phase <- Phase, told <- Told, doing <- [c \in Clients |-> Doing(at[c])]

\* The worker implements the thread's life: what the flags, the mutexes and
\* the signals do together is no more than that.
Refines == Abstract!Spec
=============================================================================
