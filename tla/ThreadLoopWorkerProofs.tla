----------------------- MODULE ThreadLoopWorkerProofs -----------------------
(***************************************************************************)
(* Proofs about ThreadLoopWorker: its safety properties for every set of   *)
(* clients, every choice of methods and callbacks, with and without a      *)
(* failing fnInit_; and that stop() waits for a signal that will come as   *)
(* long as nothing but stop() ends the thread.                             *)
(***************************************************************************)
EXTENDS ThreadLoopWorker, TLAPS

\* A client that goes on to write because it saw bStarted_ clear finds it
\* clear still: only the holder of mtxThis_ sets it.
UnstartedStays ==
  \A c \in Clients : at[c] \in {"start_join", "start_spawn", "set_write"} => ~bStarted_

\* Between the join and the assignment there is no thread.
JoinedStays ==
  \A c \in Clients : at[c] = "start_spawn" => worker = "none"

\* The worker holds mtxThis_ only in a call of one of its functions.
WorkerHolds == mtxThis_ = Worker => calling

IInv ==
  /\ TypeOK
  /\ StartedMeansRunning
  /\ ReadyMeansRunning
  /\ UnstartedStays
  /\ JoinedStays
  /\ WorkerHolds

\* mtxThis_ excludes: at most one client is inside a method.
LEMMA Exclusion ==
  ASSUME TypeOK, NEW c \in Clients, NEW d \in Clients, at[c] \in Inside, at[d] \in Inside
  PROVE  c = d
BY DEF TypeOK

\* The invariant holds at the start.
LEMMA IInvInit == Init => IInv
BY ThreadsAssumption
   DEF Init, IInv, TypeOK, StartedMeansRunning, ReadyMeansRunning, UnstartedStays,
       JoinedStays, WorkerHolds, Inside, AllOps, Alive, Looping, Functions

\* Every step of a client keeps the invariant.
LEMMA ClientKeeps ==
  ASSUME IInv, NEW c \in Clients,
         \/ \E op \in Ops : Call(c, op)
         \/ ClientEnters(c) \/ ClientStep(c) \/ StopLock(c)
  PROVE  IInv'
<1> USE ThreadsAssumption, OpsAssumption
        DEF IInv, TypeOK, StartedMeansRunning, ReadyMeansRunning, UnstartedStays,
            JoinedStays, WorkerHolds, Inside, AllOps, Alive, Looping, Functions, flags
<1>1. CASE \E op \in Ops : Call(c, op)
  BY <1>1 DEF Call
<1>2. CASE Start(c)
  BY <1>2 DEF Start, Enters, GoOn, Return
<1>3. CASE Stop(c)
  BY <1>3 DEF Stop, Enters, GoOn
<1>4. CASE NotifyWork(c) \/ NotifyStop(c)
  <2>1. /\ worker' = worker \/ (worker = "waiting" /\ worker' = "wakeup")
        /\ mtxThis_ = NoThread /\ mtxThis_' = NoThread
        /\ at' = [at EXCEPT ![c] = "ready"]
        /\ UNCHANGED <<calling, bStarted_, bReadyStop_>>
        /\ bNeedStop_' \in BOOLEAN /\ asked' \in BOOLEAN
    BY <1>4 DEF NotifyWork, NotifyStop, Enters, Return, WakeWorker
  <2>2. TypeOK' /\ ReadyMeansRunning'
    BY <2>1
  <2>3. StartedMeansRunning'
    BY <2>1
  <2>4. UnstartedStays' /\ JoinedStays' /\ WorkerHolds'
    BY <2>1
  <2> QED BY <2>2, <2>3, <2>4
<1>5. CASE SetFn(c) \/ Assign(c)
  BY <1>5 DEF SetFn, Assign, Enters, GoOn, Return
<1>6. CASE StartJoin(c)
  BY <1>6 DEF StartJoin, GoOn
<1>7. CASE StartSpawn(c)
  BY <1>7 DEF StartSpawn, Return
<1>8. CASE StopJoin(c)
  BY <1>8 DEF StopJoin, Return
<1>9. CASE Written(c)
  BY <1>9 DEF Written, Return
<1>10. CASE StopLock(c)
  <2>1. mtxThis_ = c
    BY <1>10 DEF StopLock
  <2>2. CASE bReadyStop_
    <3>1. /\ worker' \in Looping
          /\ ~calling /\ ~calling'
      BY <1>10, <2>2 DEF StopLock, WakeWorker, Locked, Functions
    <3>2. /\ at' = [at EXCEPT ![c] = "stop_join"]
          /\ mtxThis_' = c
          /\ bStarted_' = FALSE
          /\ UNCHANGED <<calling, bNeedStop_, bReadyStop_, asked>>
      BY <1>10, <2>2 DEF StopLock, GoOn
    <3>3. /\ TypeOK'
          /\ StartedMeansRunning'
          /\ ReadyMeansRunning'
      <4>1. TypeOK'
        BY <2>1, <3>1, <3>2
      <4>2. at'[c] = "stop_join"
        BY <3>2
      <4>3. StartedMeansRunning'
        BY <3>2, <4>2
      <4>4. ReadyMeansRunning'
        BY <2>2, <3>1, <3>2
      <4> QED BY <4>1, <4>3, <4>4
    <3>4. UnstartedStays'
      BY <3>2
    <3>5. JoinedStays'
      BY <2>1, <3>2
    <3>6. WorkerHolds'
      BY <2>1, <3>1, <3>2
    <3> QED BY <3>3, <3>4, <3>5, <3>6
  <2>3. CASE ~bReadyStop_
    BY <1>10, <2>1, <2>3 DEF StopLock, GoOn
  <2> QED BY <2>2, <2>3
<1> QED
  BY <1>1, <1>2, <1>3, <1>4, <1>5, <1>6, <1>7, <1>8, <1>9, <1>10 DEF ClientEnters, ClientStep

\* Every step of the worker keeps the invariant.
LEMMA WorkerKeeps ==
  ASSUME IInv, WorkerStep \/ TimeOut \/ FunctionReturns \/ Callback \/ CallbackRuns
  PROVE  IInv'
<1> USE ThreadsAssumption
        DEF IInv, TypeOK, StartedMeansRunning, ReadyMeansRunning, UnstartedStays,
            JoinedStays, WorkerHolds, Inside, AllOps, Alive, Looping, Functions, flags
<1>1. CASE WorkBegin
  BY <1>1 DEF WorkBegin
<1>2. CASE Sleep \/ WakeUp \/ Leave \/ TimeOut
  BY <1>2 DEF Sleep, WakeUp, Leave, TimeOut
<1>3. CASE Cleaner
  BY <1>3 DEF Cleaner
<1>4. CASE FunctionReturns
  BY <1>4 DEF FunctionReturns, InitReturns, InitThrows, WorkReturns, ClearReturns
<1>6. CASE Callback
  BY <1>6 DEF Callback
<1>5. CASE CallbackRuns
  <2>1. /\ worker \in Functions
        /\ UNCHANGED <<at, worker, bStarted_, bReadyStop_>>
        /\ bNeedStop_' \in BOOLEAN /\ asked' \in BOOLEAN
    BY <1>5 DEF CallbackRuns
  <2>2. /\ mtxThis_ = NoThread
        /\ \/ mtxThis_' = NoThread /\ calling' = FALSE
           \/ mtxThis_' = Worker /\ calling' = TRUE
    BY <1>5 DEF CallbackRuns
  <2>3. TypeOK'
    BY <2>1, <2>2
  <2>4. StartedMeansRunning' /\ ReadyMeansRunning' /\ UnstartedStays' /\ JoinedStays'
    BY <2>1, <2>2
  <2>5. WorkerHolds'
    BY <2>2
  <2> QED BY <2>3, <2>4, <2>5
<1> QED BY <1>1, <1>2, <1>3, <1>4, <1>5, <1>6 DEF WorkerStep

\* Every step keeps the invariant.
LEMMA IInvNext == IInv /\ [Next]_vars => IInv'
<1> SUFFICES ASSUME IInv, [Next]_vars PROVE IInv'
  OBVIOUS
<1>1. CASE UNCHANGED vars
  BY <1>1 DEF vars, flags, IInv, TypeOK, StartedMeansRunning, ReadyMeansRunning,
              UnstartedStays, JoinedStays, WorkerHolds
<1>2. CASE Next
  BY <1>2, ClientKeeps, WorkerKeeps DEF Next, Going
<1> QED BY <1>1, <1>2

\* The inductive invariant of the thread's worker.
THEOREM Invariance == Spec => []IInv
BY IInvInit, IInvNext, PTL DEF Spec

\* Types, and that mtxThis_ is held by exactly the thread inside a method.
THEOREM TypeCorrect == Spec => []TypeOK
<1>1. IInv => TypeOK
  BY DEF IInv
<1> QED BY <1>1, Invariance, PTL

\* bStarted_ tells whether a thread runs.
THEOREM StartedIsTrue == Spec => []StartedMeansRunning
<1>1. IInv => StartedMeansRunning
  BY DEF IInv
<1> QED BY <1>1, Invariance, PTL

\* bReadyStop_ is the signal of the thread that runs, never of an earlier one.
THEOREM ReadyIsFresh == Spec => []ReadyMeansRunning
<1>1. IInv => ReadyMeansRunning
  BY DEF IInv
<1> QED BY <1>1, Invariance, PTL

\* set_init_fn and set_clear_fn never write while a thread may call what they
\* write.  operator=, which writes without looking at bStarted_, is not meant.
THEOREM NoSetFnRace == Spec => []SetFnRace
<1>1. IInv => SetFnRace
  BY DEF IInv, TypeOK, StartedMeansRunning, UnstartedStays, SetFnRace, Inside
<1> QED BY <1>1, Invariance, PTL

\* A thread is never assigned to a joinable thWork_, which would terminate
\* the program.
NoTerminate ==
  [][worker' = "begin" /\ worker # "begin" => worker = "none"]_vars

\* No thread is assigned to a joinable thWork_.
THEOREM NeverTerminates == Spec => NoTerminate
<1>1. IInv /\ [Next]_vars => [worker' = "begin" /\ worker # "begin" => worker = "none"]_vars
  <2> SUFFICES ASSUME IInv, Next, worker' = "begin", worker # "begin"
               PROVE  worker = "none"
    OBVIOUS
  <2>1. PICK c \in Clients : StartSpawn(c)
    BY DEF Next, Going, Call, ClientEnters, Start, Stop, NotifyWork, NotifyStop, SetFn, Assign,
           ClientStep, StartJoin, StopJoin, Written, StopLock, WakeWorker, WorkerStep,
           WorkBegin, InitReturns, InitThrows, Sleep, WakeUp, ClearReturns, Cleaner, Leave,
           TimeOut, FunctionReturns, WorkReturns, Callback, CallbackRuns
  <2> QED BY <2>1 DEF StartSpawn, IInv, JoinedStays
<1> QED BY <1>1, Invariance, PTL DEF Spec, NoTerminate

-----------------------------------------------------------------------------
(* The hangs. *)

\* Client c and the worker are in a hang together.
CaughtBy(c) ==
  \/ at[c] = "stop_cv" /\ worker = "done"
  \/ calling /\ at[c] \in {"stop_lock", "stop_join"}

\* The worker and the client of a hang stay where they are.
Caught ==
  /\ SelfStop => worker' = worker /\ calling' = calling /\ SelfStop'
  /\ \A c \in Clients :
       CaughtBy(c) => worker' = worker /\ calling' = calling /\ at'[c] = at[c]

LEMMA HangKeeps ==
  ASSUME IInv, Next
  PROVE  Caught
<1> USE DEF IInv, TypeOK, Inside, WorkerHolds
<1>1. ASSUME NEW c \in Clients, CaughtBy(c)
      PROVE  worker' = worker /\ calling' = calling /\ at'[c] = at[c]
  <2>1. /\ mtxThis_ = c /\ mtxThis_ # NoThread
        /\ \/ calling /\ worker \in Functions
           \/ ~calling /\ worker = "done"
    <3>1. at[c] \in Inside
      BY <1>1 DEF CaughtBy
    <3>2. mtxThis_ = c /\ mtxThis_ # NoThread
      BY <3>1, ThreadsAssumption
    <3>3. calling \/ worker = "done"
      BY <1>1 DEF CaughtBy
    <3>4. calling => worker \in Functions /\ worker # "done"
      BY DEF Functions
    <3> QED BY <3>2, <3>3, <3>4
  <2>2. ASSUME NEW d \in Clients,
               \/ \E op \in Ops : Call(d, op)
               \/ ClientEnters(d) \/ ClientStep(d) \/ StopLock(d)
        PROVE  worker' = worker /\ calling' = calling /\ at'[c] = at[c]
    <3>1. ~ ClientEnters(d)
      BY <2>1 DEF ClientEnters, Start, Stop, NotifyWork, NotifyStop, SetFn, Assign, Enters
    <3>2. CASE \E op \in Ops : Call(d, op)
      BY <1>1, <3>2 DEF Call, CaughtBy
    <3>3. ~ (ClientStep(d) \/ StopLock(d))
      <4>1. SUFFICES ASSUME ClientStep(d) \/ StopLock(d) PROVE FALSE
        OBVIOUS
      <4>2. d = c
        BY <2>1, <4>1 DEF ClientStep, StartJoin, StartSpawn, StopJoin, Written, StopLock
      <4> QED
        BY <1>1, <2>1, <4>1, <4>2
           DEF CaughtBy, ClientStep, StartJoin, StartSpawn, StopJoin, Written, StopLock, Locked,
               Functions
    <3> QED BY <2>2, <3>1, <3>2, <3>3
  <2>3. ~ (WorkerStep \/ TimeOut \/ FunctionReturns \/ Callback \/ CallbackRuns)
    BY <2>1
       DEF WorkerStep, WorkBegin, InitReturns, InitThrows, Sleep, WakeUp, ClearReturns, Cleaner,
           Leave, TimeOut, FunctionReturns, WorkReturns, Callback, CallbackRuns, Functions
  <2> QED BY <2>2, <2>3 DEF Next, Going
<1>2. ASSUME SelfStop
      PROVE  worker' = worker /\ calling' = calling /\ SelfStop'
  <2>1. /\ mtxThis_ = Worker /\ Worker \notin Clients /\ mtxThis_ # NoThread
        /\ calling /\ worker \in Functions
    BY <1>2, ThreadsAssumption DEF SelfStop
  <2>2. ASSUME NEW d \in Clients,
               \/ \E op \in Ops : Call(d, op)
               \/ ClientEnters(d) \/ ClientStep(d) \/ StopLock(d)
        PROVE  worker' = worker /\ calling' = calling /\ SelfStop'
    <3>1. ~ ClientEnters(d)
      BY <2>1 DEF ClientEnters, Start, Stop, NotifyWork, NotifyStop, SetFn, Assign, Enters
    <3>2. ~ (ClientStep(d) \/ StopLock(d))
      BY <2>1 DEF ClientStep, StartJoin, StartSpawn, StopJoin, Written, StopLock
    <3> QED BY <1>2, <2>2, <3>1, <3>2 DEF Call, SelfStop
  <2>3. ~ (WorkerStep \/ TimeOut \/ FunctionReturns \/ Callback \/ CallbackRuns)
    BY <2>1
       DEF WorkerStep, WorkBegin, InitReturns, InitThrows, Sleep, WakeUp, ClearReturns, Cleaner,
           Leave, TimeOut, FunctionReturns, WorkReturns, Callback, CallbackRuns, Functions
  <2> QED BY <2>2, <2>3 DEF Next, Going
<1> QED BY <1>1, <1>2 DEF Caught

\* Nobody gets out of a hang: a client whose signal was lost, or that waits for
\* a thread that wants the client's mtxThis_, never returns from stop(), and a
\* thread that called stop() on itself never ends, whatever the other clients
\* call.
THEOREM HangsStay == Spec => [][Caught]_vars
<1>1. IInv /\ [Next]_vars => [Caught]_vars
  BY HangKeeps
<1> QED BY <1>1, Invariance, PTL DEF Spec

-----------------------------------------------------------------------------
(* When only stop() ends a thread. *)

OnlyStopEnds ==
  /\ "notify_stop" \notin Ops \cup CallbackOps
  /\ ~InitMayFail

\* The thread is on its way out only after stop() told it to end, and so
\* bStarted_ stays as stop() saw it until then.
SignalInv ==
  /\ ~bNeedStop_
  /\ worker \in {"clear", "cleaner"} => ~bStarted_
  /\ \A c \in Clients :
       /\ at[c] # "notify_stop"
       /\ at[c] \in {"stop_lock", "stop_cv"} => bStarted_
       /\ at[c] = "stop_cv" => ~bReadyStop_

\* Every step keeps it.
LEMMA SignalInvNext ==
  ASSUME OnlyStopEnds, IInv, SignalInv, [Next]_vars
  PROVE  SignalInv'
<1> USE DEF SignalInv
<1>1. ASSUME NEW c \in Clients,
             \/ \E op \in Ops : Call(c, op)
             \/ ClientEnters(c) \/ ClientStep(c) \/ StopLock(c)
      PROVE  SignalInv'
  <2> USE DEF IInv, TypeOK, Inside
  <2>1. CASE \E op \in Ops : Call(c, op)
    BY <2>1, OpsAssumption DEF Call, OnlyStopEnds, AllOps, flags
  <2>2. CASE Start(c) \/ Stop(c) \/ NotifyWork(c) \/ SetFn(c) \/ Assign(c)
    BY <2>2 DEF Start, Stop, NotifyWork, SetFn, Assign, Enters, GoOn, Return, WakeWorker, flags
  <2>3. CASE NotifyStop(c)
    BY <2>3 DEF NotifyStop, Enters
  <2>4. CASE StartJoin(c) \/ Written(c)
    BY <2>4 DEF StartJoin, Written, GoOn, Return, flags
  <2>5. CASE StartSpawn(c)
    BY <2>5 DEF StartSpawn, Return, UnstartedStays
  <2>6. CASE StopJoin(c)
    BY <2>6 DEF StopJoin, Return
  <2>7. CASE StopLock(c)
    BY <2>7 DEF StopLock, GoOn, WakeWorker
  <2> QED
    BY <1>1, <2>1, <2>2, <2>3, <2>4, <2>5, <2>6, <2>7 DEF ClientEnters, ClientStep
<1>2. ASSUME WorkerStep \/ TimeOut \/ FunctionReturns \/ Callback \/ CallbackRuns
      PROVE  SignalInv'
  <2> USE DEF IInv, TypeOK, Inside, AllOps, flags
  <2>1. CASE WorkBegin
    BY <2>1 DEF WorkBegin
  <2>2. CASE Sleep \/ WakeUp \/ Leave \/ TimeOut
    BY <2>2 DEF Sleep, WakeUp, Leave, TimeOut
  <2>3. CASE Cleaner
    BY <2>3 DEF Cleaner
  <2>4. CASE FunctionReturns \/ Callback
    BY <2>4 DEF FunctionReturns, InitReturns, InitThrows, WorkReturns, ClearReturns, Callback,
                OnlyStopEnds
  <2>5. CASE CallbackRuns
    <3>1. UNCHANGED <<at, worker, bStarted_, bReadyStop_, bNeedStop_>>
      BY <2>5 DEF CallbackRuns, OnlyStopEnds
    <3> QED BY <3>1
  <2> QED BY <1>2, <2>1, <2>2, <2>3, <2>4, <2>5 DEF WorkerStep, FunctionReturns
<1>3. CASE UNCHANGED vars
  BY <1>3 DEF vars, flags
<1> QED BY <1>1, <1>2, <1>3 DEF Next, Going

\* As long as only stop() ends a thread, a stop() that waits for the signal
\* waits for a thread that has still to give it: it is never lost.
THEOREM SignalNotLost ==
  ASSUME OnlyStopEnds PROVE Spec => []SignalWillCome
<1>1. Init => SignalInv
  BY DEF Init, SignalInv
<1>2. IInv /\ SignalInv /\ [Next]_vars => SignalInv'
  BY SignalInvNext
<1>3. IInv /\ SignalInv => SignalWillCome
  BY DEF IInv, SignalInv, StartedMeansRunning, ReadyMeansRunning, SignalWillCome
<1> QED BY <1>1, <1>2, <1>3, Invariance, PTL DEF Spec

-----------------------------------------------------------------------------
(* What stop() waits for, and when nothing moves.                           *)

\* Where a client in stop() or start() can find the thread.  The one that told
\* the thread to end, or saw it ended, finds bStarted_ clear until it returns.
WaitInv ==
  /\ JoinsEnd
  /\ \A c \in Clients :
       /\ at[c] = "stop_join" => ~bStarted_
       /\ at[c] = "stop_lock" => worker # "none"
       /\ at[c] = "stop_cv" => worker \in {"begin", "done"}

\* Every step keeps it.
LEMMA WaitInvNext ==
  ASSUME IInv, WaitInv, [Next]_vars
  PROVE  WaitInv'
<1> USE DEF WaitInv, JoinsEnd
<1>1. ASSUME NEW c \in Clients,
             \/ \E op \in Ops : Call(c, op)
             \/ ClientEnters(c) \/ ClientStep(c) \/ StopLock(c)
      PROVE  WaitInv'
  <2> USE DEF IInv, TypeOK, Inside
  <2>1. CASE \E op \in Ops : Call(c, op)
    BY <2>1, OpsAssumption DEF Call, AllOps, flags
  <2>2. CASE Start(c) \/ Stop(c)
    BY <2>2 DEF Start, Stop, Enters, GoOn, Return, StartedMeansRunning, Looping, Alive, Functions, flags
  <2>3. CASE NotifyWork(c) \/ NotifyStop(c) \/ SetFn(c) \/ Assign(c)
    BY <2>3 DEF NotifyWork, NotifyStop, SetFn, Assign, Enters, GoOn, Return, WakeWorker, flags
  <2>4. CASE StartJoin(c) \/ Written(c)
    BY <2>4 DEF StartJoin, Written, GoOn, Return, flags
  <2>5. CASE StartSpawn(c)
    BY <2>5 DEF StartSpawn, Return
  <2>6. CASE StopJoin(c)
    BY <2>6 DEF StopJoin, Return
  <2>7. CASE StopLock(c)
    <3>1. CASE bReadyStop_
      <4>1. worker \in {"waiting", "wakeup"} /\ worker' = "wakeup" /\ ~bStarted_'
        BY <2>7, <3>1 DEF StopLock, WakeWorker, ReadyMeansRunning, Looping, Locked, Functions
      <4>2. at' = [at EXCEPT ![c] = "stop_join"] /\ mtxThis_ = c
        BY <2>7, <3>1 DEF StopLock, GoOn
      <4> QED BY <4>1, <4>2
    <3>2. CASE ~bReadyStop_
      <4>1. worker' = worker /\ worker \in {"begin", "done", "none"}
        BY <2>7, <3>2 DEF StopLock, ReadyMeansRunning, Looping, Locked, Functions, Alive
      <4>2. /\ at' = [at EXCEPT ![c] = "stop_cv"] /\ mtxThis_ = c
            /\ at[c] = "stop_lock" /\ bStarted_' = bStarted_
        BY <2>7, <3>2 DEF StopLock, GoOn
      <4> QED BY <4>1, <4>2
    <3> QED BY <3>1, <3>2
  <2> QED
    BY <1>1, <2>1, <2>2, <2>3, <2>4, <2>5, <2>6, <2>7 DEF ClientEnters, ClientStep
<1>2. ASSUME WorkerStep \/ TimeOut \/ FunctionReturns \/ Callback \/ CallbackRuns
      PROVE  WaitInv'
  <2> USE DEF IInv, TypeOK, Inside, AllOps, flags
  <2>1. CASE WorkBegin
    BY <2>1 DEF WorkBegin
  <2>2. CASE WakeUp
    BY <2>2 DEF WakeUp, UnstartedStays
  <2>3. CASE Sleep \/ Leave \/ TimeOut
    BY <2>3 DEF Sleep, Leave, TimeOut
  <2>4. CASE Cleaner
    BY <2>4 DEF Cleaner
  <2>5. CASE FunctionReturns \/ Callback
    BY <2>5 DEF FunctionReturns, InitReturns, InitThrows, WorkReturns, ClearReturns, Callback
  <2>6. CASE CallbackRuns
    BY <2>6 DEF CallbackRuns
  <2> QED BY <1>2, <2>1, <2>2, <2>3, <2>4, <2>5, <2>6 DEF WorkerStep, FunctionReturns
<1>3. CASE UNCHANGED vars
  BY <1>3 DEF vars, flags
<1> QED BY <1>1, <1>2, <1>3 DEF Next, Going

LEMMA WaitInvariance == Spec => []WaitInv
<1>1. Init => WaitInv
  BY DEF Init, WaitInv, JoinsEnd
<1>2. IInv /\ WaitInv /\ [Next]_vars => WaitInv'
  BY WaitInvNext
<1> QED BY <1>1, <1>2, Invariance, PTL DEF Spec

\* Whoever waits for the thread's end waits for one that neither works nor
\* sleeps again.
THEOREM JoinsAreShort == Spec => []JoinsEnd
<1>1. WaitInv => JoinsEnd
  BY DEF WaitInv
<1> QED BY <1>1, WaitInvariance, PTL

\* How many steps the thread is away from its end.
Left ==
  CASE worker = "wakeup" -> 4
    [] worker = "clear" -> 3
    [] worker = "cleaner" -> 2
    [] worker = "leaving" -> 1
    [] OTHER -> 0

\* While a client joins, the thread only comes nearer to its end, and nothing
\* starts it again.
NearerToJoin ==
  (\E c \in Clients : at[c] \in {"start_join", "stop_join"} /\ at'[c] = at[c]) =>
     worker' = worker \/ Left' < Left

\* The join of a stop() or start() is as many steps of the thread away as it
\* has left, whatever the other clients do, and each of its steps is one less.
THEOREM JoinsComeNearer == Spec => [][NearerToJoin]_vars
<1>1. IInv /\ WaitInv /\ [Next]_vars => [NearerToJoin]_vars
  <2> SUFFICES ASSUME IInv, WaitInv, Next,
                      NEW c \in Clients, at[c] \in {"start_join", "stop_join"}, at'[c] = at[c]
               PROVE  worker' = worker \/ Left' < Left
    BY DEF NearerToJoin
  <2>1. /\ mtxThis_ = c /\ mtxThis_ # NoThread /\ ~bStarted_
        /\ worker \in {"wakeup", "clear", "cleaner", "leaving", "done", "none"}
    BY ThreadsAssumption DEF IInv, TypeOK, Inside, UnstartedStays, WaitInv, JoinsEnd
  <2>2. ASSUME NEW d \in Clients,
               \/ \E op \in Ops : Call(d, op)
               \/ ClientEnters(d) \/ ClientStep(d) \/ StopLock(d)
        PROVE  worker' = worker
    <3>1. ~ ClientEnters(d)
      BY <2>1 DEF ClientEnters, Start, Stop, NotifyWork, NotifyStop, SetFn, Assign, Enters
    <3>2. CASE \E op \in Ops : Call(d, op)
      BY <3>2 DEF Call
    <3>3. CASE ClientStep(d) \/ StopLock(d)
      <4>1. d = c
        BY <2>1, <3>3 DEF ClientStep, StartJoin, StartSpawn, StopJoin, Written, StopLock, IInv, TypeOK, Inside
      <4>2. at'[c] # at[c]
        BY <3>3, <4>1 DEF ClientStep, StartJoin, StartSpawn, StopJoin, Written, StopLock, GoOn, Return, IInv, TypeOK
      <4> QED BY <4>2
    <3> QED BY <2>2, <3>1, <3>2, <3>3
  <2>3. ASSUME WorkerStep \/ TimeOut \/ FunctionReturns \/ Callback \/ CallbackRuns
        PROVE  worker' = worker \/ Left' < Left
    BY <2>1, <2>3
       DEF WorkerStep, WorkBegin, InitReturns, InitThrows, Sleep, WakeUp, ClearReturns, Cleaner,
           Leave, TimeOut, FunctionReturns, WorkReturns, Callback, CallbackRuns, Left
  <2> QED BY <2>2, <2>3 DEF Next, Going
<1> QED BY <1>1, Invariance, WaitInvariance, PTL DEF Spec

\* The worker and its clients come to a stand only at rest or in one of the
\* four hangs, whatever fnInit_, fnWork_ and fnClear_ call on their worker:
\* everywhere else some guard of Going is true.
THEOREM NobodyElseHangs == Spec => []GoesOn
<1>1. IInv /\ WaitInv => GoesOn
  <2> SUFFICES ASSUME IInv, WaitInv, ~CanGo, ~AtRest, ~SelfStop
               PROVE  LostSignal \/ LockOrder \/ JoinOrder
    BY DEF GoesOn, Hang
  <2>1. \/ calling /\ worker \in Functions
        \/ ~calling /\ worker \in {"none", "done"}
    BY DEF IInv, TypeOK, CanGo, WorkerCan
  <2>2. PICK c \in Clients : at[c] # "ready" /\ mtxThis_ = c
    <3>1. CASE calling
      <4>1. mtxThis_ \in Clients
        BY <3>1 DEF CanGo, WorkerCan, IInv, TypeOK, SelfStop
      <4> QED BY <4>1 DEF IInv, TypeOK, Inside
    <3>2. CASE ~calling
      <4>1. PICK d \in Clients : at[d] # "ready"
        BY <2>1, <3>2 DEF AtRest
      <4>2. mtxThis_ \in Clients
        BY <4>1 DEF CanGo, ClientCan, IInv, TypeOK, SelfStop
      <4> QED BY <4>2 DEF IInv, TypeOK, Inside
    <3> QED BY <3>1, <3>2
  <2>3. at[c] \in {"start_join", "start_spawn", "stop_lock", "stop_cv", "stop_join"}
    BY <2>2 DEF IInv, TypeOK, Inside, CanGo, ClientCan
  <2>4. CASE calling
    <3>1. at[c] \notin {"start_spawn", "stop_cv"}
      BY <2>1, <2>4 DEF WaitInv, IInv, JoinedStays, Functions
    <3>2. at[c] # "start_join"
      <4>1. SUFFICES ASSUME at[c] = "start_join" PROVE FALSE
        OBVIOUS
      <4>2. PICK d \in Clients : at[d] = "stop_join"
        BY <2>1, <2>4, <4>1 DEF IInv, UnstartedStays, StartedMeansRunning, Looping, Functions
      <4>3. c = d
        BY <4>1, <4>2, Exclusion DEF IInv, Inside
      <4> QED BY <4>1, <4>2, <4>3
    <3> QED BY <2>3, <2>4, <3>1, <3>2 DEF LockOrder, JoinOrder
  <2>5. CASE ~calling
    <3>1. at[c] = "stop_cv"
      BY <2>1, <2>3, <2>5 DEF CanGo, ClientCan, Locked, Functions
    <3> QED BY <2>1, <2>5, <3>1 DEF WaitInv, LostSignal
  <2> QED BY <2>4, <2>5
<1> QED BY <1>1, Invariance, WaitInvariance, PTL

\* If fnInit_, fnWork_ and fnClear_ leave their worker alone and only stop()
\* ends the thread, nothing hangs: until all is at rest something can go on.
THEOREM StopAloneNeverHangs ==
  ASSUME OnlyStopEnds, CallbackOps = {} PROVE Spec => [](CanGo \/ AtRest)
<1> DEFINE Alone == ~calling
<1>1. Init => Alone
  BY DEF Init
<1>2. Alone /\ [Next]_vars => Alone'
  <2>1. ~Callback
    BY DEF Callback
  <2> QED
    BY <2>1
       DEF Next, Going, Call, ClientEnters, Start, Stop, NotifyWork, NotifyStop, SetFn, Assign,
           ClientStep, StartJoin, StartSpawn, StopJoin, Written, StopLock, WorkerStep,
           WorkBegin, InitReturns, InitThrows, Sleep, WakeUp, ClearReturns, Cleaner, Leave,
           TimeOut, FunctionReturns, WorkReturns, CallbackRuns, vars
<1>3. IInv /\ GoesOn /\ SignalWillCome /\ Alone => CanGo \/ AtRest
  BY DEF IInv, WorkerHolds, GoesOn, Hang, SignalWillCome, LostSignal, LockOrder, JoinOrder, SelfStop
<1>4. Spec => []SignalWillCome
  BY SignalNotLost
<1> HIDE DEF Alone
<1> QED BY <1>1, <1>2, <1>3, <1>4, Invariance, NobodyElseHangs, PTL DEF Spec

-----------------------------------------------------------------------------
(* ThreadLoopWorker implements ThreadLife.                                  *)

\* A thread that has not begun yet is started: no stop() gets past the signal.
BeginStarted == worker = "begin" => bStarted_

LEMMA BeginStartedNext == IInv /\ BeginStarted /\ [Next]_vars => BeginStarted'
<1> SUFFICES ASSUME IInv, BeginStarted, [Next]_vars PROVE BeginStarted'
  OBVIOUS
<1> USE DEF BeginStarted, flags
<1>1. ASSUME NEW c \in Clients, StopLock(c) PROVE BeginStarted'
  BY <1>1 DEF StopLock, WakeWorker, IInv, ReadyMeansRunning, Looping, Functions
<1>2. ASSUME NEW c \in Clients,
             \/ \E op \in Ops : Call(c, op)
             \/ ClientEnters(c) \/ ClientStep(c)
      PROVE  BeginStarted'
  BY <1>2 DEF Call, ClientEnters, Start, Stop, NotifyWork, NotifyStop, SetFn, Assign, WakeWorker,
              ClientStep, StartJoin, StartSpawn, StopJoin, Written
<1>3. ASSUME WorkerStep \/ TimeOut \/ FunctionReturns \/ Callback \/ CallbackRuns \/ UNCHANGED vars
      PROVE  BeginStarted'
  BY <1>3
     DEF WorkerStep, WorkBegin, InitReturns, InitThrows, Sleep, WakeUp, ClearReturns, Cleaner,
         Leave, TimeOut, FunctionReturns, WorkReturns, Callback, CallbackRuns, vars
<1> QED BY <1>1, <1>2, <1>3 DEF Next, Going

\* What a client's step does to the calls, seen from outside.
LEMMA DoingStays ==
  ASSUME TypeOK, NEW c \in Clients, NEW place, at' = [at EXCEPT ![c] = place]
  PROVE  [d \in Clients |-> Doing(at[d])]'
           = [[d \in Clients |-> Doing(at[d])] EXCEPT ![c] = Doing(place)]
BY DEF TypeOK


\* Every step of a client is one of its steps in the thread's life, or none.
LEMMA ClientLives ==
  ASSUME IInv, IInv', NEW c \in Clients,
         \/ \E op \in Ops : Call(c, op)
         \/ ClientEnters(c) \/ ClientStep(c) \/ StopLock(c)
  PROVE  [Abstract!Next]_(Abstract!vars)
<1> DEFINE doing == [d \in Clients |-> Doing(at[d])]
           Same == Phase' = Phase /\ Told' = Told
<1> USE DEF flags
<1>t. /\ TypeOK /\ doing[c] = Doing(at[c])
      /\ StartedMeansRunning /\ ReadyMeansRunning /\ UnstartedStays /\ JoinedStays
  BY DEF IInv
<1>d. \A place : at' = [at EXCEPT ![c] = place] => doing' = [doing EXCEPT ![c] = Doing(place)]
  BY <1>t, DoingStays
<1>e. \A place : at' = [at EXCEPT ![c] = place] /\ Doing(place) = Doing(at[c]) => doing' = doing
  BY <1>d, <1>t
<1>o. /\ Doing("start") = "start" /\ Doing("start_join") = "start" /\ Doing("start_spawn") = "start"
      /\ Doing("stop") = "stop" /\ Doing("stop_lock") = "stop" /\ Doing("stop_cv") = "stop"
      /\ Doing("stop_join") = "stop" /\ Doing("notify_stop") = "notify_stop"
      /\ Doing("ready") = "nothing" /\ Doing("notify_work") = "other" /\ Doing("set_fn") = "other"
      /\ Doing("assign") = "other" /\ Doing("set_write") = "other" /\ Doing("assign_write") = "other"
  BY DEF Doing
<1>s. Same /\ doing' = doing => UNCHANGED Abstract!vars
  BY DEF Abstract!vars
<1>r. Same /\ doing' = [doing EXCEPT ![c] = "nothing"] /\ doing[c] = "other" => Abstract!OtherReturns(c)
  BY DEF Abstract!OtherReturns, Abstract!Returns
<1>u. worker' = worker /\ bStarted_' = bStarted_ /\ bNeedStop_' = bNeedStop_ => Same
  BY DEF Phase, Told
<1>w. WakeWorker => Phase' = Phase /\ (worker' \in Looping \ {"cleaner"} <=> worker \in Looping \ {"cleaner"})
  BY DEF WakeWorker, Phase, Looping, Functions
<1> HIDE DEF doing, Same
<1>1. CASE \E op \in Ops : Call(c, op)
  <2>1. PICK op \in Ops : Call(c, op)
    BY <1>1
  <2>2. Same /\ at[c] = "ready" /\ at' = [at EXCEPT ![c] = op]
    BY <2>1, <1>u DEF Call
  <2>3. Doing(op) \in {"start", "stop", "notify_stop", "other"}
    BY OpsAssumption, <1>o DEF AllOps
  <2>4. Abstract!Calls(c, Doing(op))
    BY <2>2, <1>d, <1>t, <1>o DEF Abstract!Calls, doing, Same
  <2> QED BY <2>3, <2>4 DEF Abstract!Next
<1>2. CASE Start(c)
  <2>1. at[c] = "start" /\ Same
    BY <1>2, <1>u DEF Start, Enters
  <2>2. CASE bStarted_
    <3>1. doing' = [doing EXCEPT ![c] = "nothing"] /\ Phase # "off"
      BY <1>2, <2>2, <1>d, <1>o, <1>t DEF Start, Return, Phase, StartedMeansRunning, Looping, Functions
    <3>2. Abstract!StartReturns(c)
      BY <2>1, <3>1, <1>t, <1>o DEF Abstract!StartReturns, Abstract!Returns, doing, Same
    <3> QED BY <3>2 DEF Abstract!Next
  <2>3. CASE ~bStarted_
    BY <1>2, <2>1, <2>3, <1>e, <1>o, <1>s DEF Start, GoOn
  <2> QED BY <2>2, <2>3
<1>3. CASE Stop(c)
  <2>1. Same /\ doing' = doing
    <3>1. CASE bStarted_
      BY <1>3, <3>1, <1>u, <1>e, <1>o DEF Stop, Enters, GoOn
    <3>2. CASE ~bStarted_
      BY <1>3, <3>2, <1>u, <1>e, <1>o DEF Stop, Enters, GoOn
    <3> QED BY <3>1, <3>2
  <2> QED BY <2>1, <1>s
<1>4. CASE NotifyWork(c)
  <2>1. Same
    BY <1>4, <1>u, <1>w DEF NotifyWork, Same, Told
  <2>2. doing' = [doing EXCEPT ![c] = "nothing"] /\ doing[c] = "other"
    BY <1>4, <1>d, <1>o, <1>t DEF NotifyWork, Enters, Return
  <2> QED BY <2>1, <2>2, <1>r DEF Abstract!Next, doing
<1>5. CASE NotifyStop(c)
  <2>1. doing' = [doing EXCEPT ![c] = "nothing"] /\ doing[c] = "notify_stop"
    BY <1>5, <1>d, <1>o, <1>t DEF NotifyStop, Enters, Return
  <2>2. Phase' = Phase /\ Told' = (worker \in Looping \ {"cleaner"})
    BY <1>5, <1>w DEF NotifyStop, Told
  <2>3. worker \in Looping \ {"cleaner"} <=> Phase \in {"init", "work", "rest", "clear"}
    BY <1>t DEF Looping, Functions, Phase, TypeOK, Alive
  <2>4. Abstract!NotifyStopReturns(c)
    BY <2>1, <2>2, <2>3 DEF Abstract!NotifyStopReturns, Abstract!Returns, Abstract!Listens, Told, doing
  <2> QED BY <2>4 DEF Abstract!Next
<1>6. CASE SetFn(c)
  <2>1. at[c] = "set_fn" /\ Same
    BY <1>6, <1>u DEF SetFn, Enters
  <2>2. CASE bStarted_
    <3>1. doing' = [doing EXCEPT ![c] = "nothing"] /\ doing[c] = "other"
      BY <1>6, <2>1, <2>2, <1>d, <1>o, <1>t DEF SetFn, Return
    <3> QED BY <2>1, <3>1, <1>r DEF Abstract!Next, doing
  <2>3. CASE ~bStarted_
    BY <1>6, <2>1, <2>3, <1>e, <1>o, <1>s DEF SetFn, GoOn
  <2> QED BY <2>2, <2>3
<1>7. CASE Assign(c)
  BY <1>7, <1>u, <1>e, <1>o, <1>s DEF Assign, Enters, GoOn
<1>8. CASE StartJoin(c)
  <2>1. doing[c] = "start" /\ doing' = doing
    BY <1>8, <1>e, <1>o, <1>t DEF StartJoin, GoOn
  <2>2. /\ Phase = IF worker = "none" THEN "off" ELSE "over"
        /\ Phase' = "off" /\ Told = FALSE /\ Told' = FALSE
    BY <1>8 DEF StartJoin, Phase, Told, Looping, Functions
  <2>3. CASE worker = "none"
    BY <2>1, <2>2, <2>3, <1>s DEF Same
  <2>4. CASE worker # "none"
    BY <2>1, <2>2, <2>4 DEF Abstract!StartJoins, Abstract!Next, doing
  <2> QED BY <2>3, <2>4
<1>9. CASE StartSpawn(c)
  <2>1. doing[c] = "start" /\ doing' = [doing EXCEPT ![c] = "nothing"]
    <3>1. at[c] = "start_spawn" /\ at' = [at EXCEPT ![c] = "ready"]
      BY <1>9 DEF StartSpawn, Return
    <3> QED BY <3>1, <1>d, <1>o, <1>t
  <2>2. Phase = "off" /\ Phase' = "new" /\ Told = FALSE /\ Told' = FALSE
    BY <1>9, <1>t DEF StartSpawn, JoinedStays, Phase, Told, Looping, Functions
  <2>3. Abstract!StartReturns(c)
    BY <2>1, <2>2 DEF Abstract!StartReturns, Abstract!Returns, doing
  <2> QED BY <2>3 DEF Abstract!Next
<1>10. CASE StopJoin(c)
  <2>1. doing[c] = "stop" /\ doing' = [doing EXCEPT ![c] = "nothing"]
    BY <1>10, <1>d, <1>o, <1>t DEF StopJoin, Return
  <2>2. Phase \in {"off", "over"} /\ Phase' = "off" /\ Told = FALSE /\ Told' = FALSE
    BY <1>10 DEF StopJoin, Phase, Told, Looping, Functions
  <2>3. Abstract!StopReturns(c)
    BY <2>1, <2>2 DEF Abstract!StopReturns, Abstract!Returns, doing
  <2> QED BY <2>3 DEF Abstract!Next
<1>11. CASE Written(c)
  <2>1. doing[c] = "other" /\ doing' = [doing EXCEPT ![c] = "nothing"]
    BY <1>11, <1>d, <1>o, <1>t DEF Written, Return
  <2> QED BY <1>11, <2>1, <1>u, <1>r DEF Written, Abstract!Next, doing
<1>12. CASE StopLock(c)
  <2>1. doing[c] = "stop" /\ doing' = doing
    <3>1. CASE bReadyStop_
      BY <1>12, <3>1, <1>e, <1>o, <1>t DEF StopLock, GoOn
    <3>2. CASE ~bReadyStop_
      BY <1>12, <3>2, <1>e, <1>o, <1>t DEF StopLock, GoOn
    <3> QED BY <3>1, <3>2
  <2>2. CASE bReadyStop_
    <3>1. worker \in {"waiting", "wakeup"} /\ worker' = "wakeup" /\ ~bStarted_'
      BY <1>12, <2>2, <1>t DEF StopLock, WakeWorker, ReadyMeansRunning, Looping, Locked, Functions
    <3>2. Phase = "rest" /\ Phase' = "rest" /\ Told' = TRUE
      BY <3>1 DEF Phase, Told, Looping, Functions
    <3>3. Abstract!StopTells(c)
      BY <2>1, <3>2 DEF Abstract!StopTells, Abstract!Listens, doing
    <3> QED BY <3>3 DEF Abstract!Next
  <2>3. CASE ~bReadyStop_
    BY <1>12, <2>1, <2>3, <1>u, <1>s DEF StopLock
  <2> QED BY <2>2, <2>3
<1> QED
  BY <1>1, <1>2, <1>3, <1>4, <1>5, <1>6, <1>7, <1>8, <1>9, <1>10, <1>11, <1>12
     DEF ClientEnters, ClientStep

\* Every step of the worker is one of the thread's in its life, or none.
LEMMA WorkerLives ==
  ASSUME IInv, BeginStarted, WorkerStep \/ TimeOut \/ FunctionReturns \/ Callback \/ CallbackRuns
  PROVE  [Abstract!Next]_(Abstract!vars)
<1> DEFINE doing == [d \in Clients |-> Doing(at[d])]
<1> USE DEF flags
<1>t. TypeOK
  BY DEF IInv
<1>u. at' = at => doing' = doing
  OBVIOUS
<1>s. Phase' = Phase /\ Told' = Told /\ doing' = doing => UNCHANGED Abstract!vars
  BY DEF Abstract!vars
<1> HIDE DEF doing
<1>1. CASE WorkBegin
  <2>1. doing' = doing
    BY <1>1, <1>t DEF WorkBegin, doing, Doing, TypeOK
  <2>2. Phase = "new" /\ Phase' = "init" /\ Told = FALSE /\ Told' = FALSE
    BY <1>1 DEF WorkBegin, BeginStarted, Phase, Told, Looping, Functions
  <2> QED BY <2>1, <2>2 DEF Abstract!Next, Abstract!Begin, Abstract!Moves, doing
<1>2. CASE InitReturns
  <2>1. Phase = "init" /\ Phase' = "work" /\ Told' = Told
    BY <1>2 DEF InitReturns, Phase, Told, Looping, Functions
  <2> QED BY <1>2, <1>u, <2>1 DEF InitReturns, Abstract!Next, Abstract!InitReturns, Abstract!Moves, doing
<1>3. CASE InitThrows
  <2>1. Phase = "init" /\ Phase' = "over" /\ Told' = FALSE
    BY <1>3 DEF InitThrows, Phase, Told, Looping, Functions
  <2> QED BY <1>3, <1>u, <2>1 DEF InitThrows, Abstract!Next, Abstract!InitThrows, Abstract!Moves, doing
<1>4. CASE WorkReturns
  <2>1. Phase = "work" /\ Phase' = (IF Told THEN "clear" ELSE "rest") /\ Told' = Told
    BY <1>4 DEF WorkReturns, Phase, Told, Looping, Functions
  <2> QED BY <1>4, <1>u, <2>1 DEF WorkReturns, Abstract!Next, Abstract!WorkReturns, Abstract!Moves, doing
<1>5. CASE Sleep \/ TimeOut
  <2>1. Phase' = Phase /\ Told' = Told
    BY <1>5 DEF Sleep, TimeOut, Phase, Told, Looping, Functions
  <2> QED BY <1>5, <1>u, <1>s, <2>1 DEF Sleep, TimeOut
<1>6. CASE WakeUp
  <2>1. Phase = "rest" /\ Phase' = (IF Told THEN "clear" ELSE "work") /\ Told' = Told
    BY <1>6 DEF WakeUp, Phase, Told, Looping, Functions
  <2> QED BY <1>6, <1>u, <2>1 DEF WakeUp, Abstract!Next, Abstract!RestEnds, Abstract!Moves, doing
<1>7. CASE ClearReturns
  <2>1. Phase = "clear" /\ Phase' = "over" /\ Told' = FALSE
    BY <1>7 DEF ClearReturns, Phase, Told, Looping, Functions
  <2> QED BY <1>7, <1>u, <2>1 DEF ClearReturns, Abstract!Next, Abstract!ClearReturns, Abstract!Moves, doing
<1>8. CASE Cleaner \/ Leave
  <2>1. Phase' = Phase /\ Told' = Told
    BY <1>8 DEF Cleaner, Leave, Phase, Told, Looping, Functions
  <2> QED BY <1>8, <1>u, <1>s, <2>1 DEF Cleaner, Leave
<1>9. CASE Callback
  <2>1. Phase' = Phase /\ Told' = Told
    BY <1>9 DEF Callback, Phase, Told, Looping, Functions
  <2> QED BY <1>9, <1>u, <1>s, <2>1 DEF Callback
<1>10. CASE CallbackRuns
  <2>1. /\ Phase \in {"init", "work", "clear"}
        /\ Phase' = Phase /\ doing' = doing
    <3>1. worker \in Functions /\ worker' = worker /\ at' = at
      BY <1>10, <1>t DEF CallbackRuns, TypeOK
    <3> QED BY <3>1, <1>u DEF Phase, Functions
  <2>2. Told' = Told \/ Told' = TRUE
    <3>1. worker \in Functions /\ worker' = worker /\ bStarted_' = bStarted_
      BY <1>10, <1>t DEF CallbackRuns, TypeOK
    <3>2. bNeedStop_' = bNeedStop_ \/ bNeedStop_' = TRUE
      BY <1>10 DEF CallbackRuns
    <3> QED BY <3>1, <3>2 DEF Told, Looping, Functions
  <2> QED BY <2>1, <2>2, <1>s DEF Abstract!Next, Abstract!TellsItself, doing
<1> QED
  BY <1>1, <1>2, <1>3, <1>4, <1>5, <1>6, <1>7, <1>8, <1>9, <1>10 DEF WorkerStep, FunctionReturns

\* The worker begins as the thread's life does, and every step of it is one of
\* that life or leaves it as it is.
THEOREM Implements == Spec => Refines
<1>1. Init => Abstract!Init
  BY DEF Init, Abstract!Init, Phase, Told, Doing, Looping, Functions
<1>2. Init => BeginStarted
  BY DEF Init, BeginStarted
<1>3. IInv /\ IInv' /\ BeginStarted /\ [Next]_vars => [Abstract!Next]_(Abstract!vars)
  <2> SUFFICES ASSUME IInv, IInv', BeginStarted, [Next]_vars
               PROVE  [Abstract!Next]_(Abstract!vars)
    OBVIOUS
  <2>1. CASE UNCHANGED vars
    BY <2>1 DEF vars, flags, Abstract!vars, Phase, Told
  <2>2. CASE Next
    BY <2>2, ClientLives, WorkerLives DEF Next, Going
  <2> QED BY <2>1, <2>2
<1> QED
  BY <1>1, <1>2, <1>3, Invariance, BeginStartedNext, PTL DEF Spec, Refines, Abstract!Spec
=============================================================================
