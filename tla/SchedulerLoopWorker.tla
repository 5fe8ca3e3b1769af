------------------------ MODULE SchedulerLoopWorker ------------------------
(***************************************************************************)
(* ltz::scheduler::loop_worker (src/include/ltz/scheduler/loop_worker.hpp): *)
(* a state machine that posts fn_work on a pool of one thread, at every    *)
(* interval and on notify().                                               *)
(*                                                                         *)
(* Threads: any number of clients, which call start, stop, notify and in   *)
(* the end the destructor; the pool's thread, which runs fn_work and the   *)
(* timer's handlers; the timer.  process_event holds the machine's mutex,  *)
(* so one event is one step; a call of stop() is an event, a post and a    *)
(* wait, which others interleave with.                                     *)
(*                                                                         *)
(* Boost.Asio is external.  LocalPost chooses between the two orders in    *)
(* which it may run what is posted: FALSE is one first-in first-out queue, *)
(* the order stop() relies on; TRUE keeps what the pool's thread posts in  *)
(* a queue private to that thread until the running handler returns, which *)
(* is what a scheduler with one thread does.                               *)
(***************************************************************************)
EXTENDS Naturals, Sequences

CONSTANTS
  Clients,     \* the threads that call the worker's methods
  PoolThread,  \* the thread of th_pool_
  WorkCalls,   \* the methods fn_work calls: a subset of {"start", "stop", "notify"}
  LocalPost    \* does Asio keep the pool thread's own posts in a private queue?

ASSUME ClientsAssumption == PoolThread \notin Clients
ASSUME WorkCallsAssumption == WorkCalls \subseteq {"start", "stop", "notify"}
ASSUME LocalPostAssumption == LocalPost \in BOOLEAN

VARIABLES
  do_work_at_start,       \* conf_.do_work_at_start, fixed at construction
  state,                  \* of the state machine: "stopped", "idle" or "working"
  stop_after_work_done_,
  work_immediately_,
  work_timer_,            \* "armed" from async_wait until it expires or is cancelled
  queue,                  \* handlers th_pool_ has to run, in order
  local,                  \* handlers the pool's thread keeps until its handler returns
  pool,                   \* where the pool's thread is
  handling,               \* which handler it runs: "none", "work" or "timeout"
  client,                 \* where each client is in stop(), or "ready"
  life,                   \* of the loop_worker object
  restarted,              \* history: the stop() calls that a later start() overtook
  owed                    \* history: a notify() was accepted and no run began since

machine == <<state, stop_after_work_done_, work_immediately_>>
scheduler == <<work_timer_, queue, local>>
history == <<restarted, owed>>
vars == <<do_work_at_start, machine, scheduler, pool, handling, client, life, history>>

-----------------------------------------------------------------------------
(* Handlers, and how they reach the pool. *)

Handler == [kind : {"work", "timeout", "aborted", "promise"},
            for : Clients \cup {PoolThread}]

Work == [kind |-> "work", for |-> PoolThread]
Timeout == [kind |-> "timeout", for |-> PoolThread]
Aborted == [kind |-> "aborted", for |-> PoolThread]
Promise(me) == [kind |-> "promise", for |-> me]

Post(me, handlers) ==
  IF LocalPost /\ me = PoolThread
    THEN local' = local \o handlers /\ UNCHANGED queue
    ELSE queue' = queue \o handlers /\ UNCHANGED local

\* The handler of a wait that is cancelled still runs, with operation_aborted.
\* A wait that has expired cannot be cancelled any more.
Cancelled == IF work_timer_ = "armed" THEN <<Aborted>> ELSE << >>

(***************************************************************************)
(* The transition table.  Entering "stopped" clears the stop flag and      *)
(* entering "working" clears the notification, also when the machine is in *)
(* that state already; a transition without a target enters nothing.       *)
(***************************************************************************)
\* Mutant: on_stop_entry is missing.
EnterStopped_KeepsFlag ==
  /\ state' = "stopped"
  /\ owed' = FALSE
  /\ UNCHANGED <<stop_after_work_done_, work_immediately_>>

EnterStopped ==
  /\ state' = "stopped"
  /\ stop_after_work_done_' = FALSE
  /\ owed' = FALSE
  /\ UNCHANGED work_immediately_

EnterIdle ==
  /\ state' = "idle"
  /\ UNCHANGED <<stop_after_work_done_, work_immediately_>>

EnterWorking ==
  /\ state' = "working"
  /\ work_immediately_' = FALSE
  /\ UNCHANGED stop_after_work_done_

\* expires_after drops a wait in progress, async_wait begins a new one.
set_work_timer(me) == work_timer_' = "armed" /\ Post(me, Cancelled)

cancel_work_timer(me) == work_timer_' = "off" /\ Post(me, Cancelled)

post_work(me) == Post(me, <<Work>>) /\ UNCHANGED work_timer_

\* Mutant: start is accepted in every state.
event_start_Always(me) ==
  /\ IF do_work_at_start
       THEN EnterWorking /\ post_work(me)
       ELSE EnterIdle /\ set_work_timer(me)
  /\ restarted' = restarted \cup {c \in Clients : client[c] # "ready"}
  /\ UNCHANGED owed

\* event::start.  It is ignored unless the machine is stopped, even when a
\* stop is pending.
event_start(me) ==
  \/ /\ state = "stopped"
     /\ IF do_work_at_start
          THEN EnterWorking /\ post_work(me)
          ELSE EnterIdle /\ set_work_timer(me)
     /\ restarted' = restarted \cup {c \in Clients : client[c] # "ready"}
     /\ UNCHANGED owed
  \/ /\ state # "stopped"
     /\ UNCHANGED <<machine, scheduler, history>>

\* Mutant: a stop in "idle" leaves the timer armed.
event_stop_KeepsTimer(me) ==
  /\ \/ state # "working" /\ EnterStopped /\ UNCHANGED scheduler
     \/ /\ state = "working"
        /\ stop_after_work_done_' = TRUE
        /\ UNCHANGED <<state, work_immediately_, owed, scheduler>>
  /\ restarted' = restarted \ {me}

\* Mutant: a stop is ignored while there is work.
event_stop_OnlyIdle(me) ==
  /\ \/ state = "stopped" /\ EnterStopped /\ UNCHANGED scheduler
     \/ state = "idle" /\ EnterStopped /\ cancel_work_timer(me)
     \/ state = "working" /\ UNCHANGED <<machine, scheduler, owed>>
  /\ restarted' = restarted \ {me}

event_stop(me) ==
  /\ \/ state = "stopped" /\ EnterStopped /\ UNCHANGED scheduler
     \/ state = "idle" /\ EnterStopped /\ cancel_work_timer(me)
     \/ /\ state = "working"
        /\ stop_after_work_done_' = TRUE
        /\ UNCHANGED <<state, work_immediately_, owed, scheduler>>
  /\ restarted' = restarted \ {me}

\* event::do_work, from notify() (asked) or from the timer's handler.
event_do_work(me, asked) ==
  /\ \/ state = "stopped" /\ UNCHANGED <<machine, scheduler, owed>>
     \/ /\ state = "idle"
        /\ EnterWorking
        /\ work_timer_' = "off"
        /\ Post(me, Cancelled \o <<Work>>)
        /\ owed' = (owed \/ asked)
     \/ /\ state = "working"
        /\ work_immediately_' = TRUE
        /\ owed' = (owed \/ asked)
        /\ UNCHANGED <<state, stop_after_work_done_, scheduler>>
  /\ UNCHANGED restarted

\* Mutant: the notification is looked at before the stop.
event_work_done_Swapped(me) ==
  /\ \/ work_immediately_ /\ EnterWorking /\ post_work(me) /\ UNCHANGED owed
     \/ ~work_immediately_ /\ stop_after_work_done_ /\ EnterStopped /\ UNCHANGED scheduler
     \/ /\ ~work_immediately_ /\ ~stop_after_work_done_
        /\ EnterIdle /\ set_work_timer(me) /\ UNCHANGED owed
  /\ UNCHANGED restarted

\* Mutant: the notification is not looked at.
event_work_done_Deaf(me) ==
  /\ \/ stop_after_work_done_ /\ EnterStopped /\ UNCHANGED scheduler
     \/ ~stop_after_work_done_ /\ EnterIdle /\ set_work_timer(me) /\ UNCHANGED owed
  /\ UNCHANGED restarted

\* Mutant: no interval begins after the run.
event_work_done_NoTimer(me) ==
  /\ \/ stop_after_work_done_ /\ EnterStopped /\ UNCHANGED scheduler
     \/ /\ ~stop_after_work_done_ /\ work_immediately_
        /\ EnterWorking /\ post_work(me) /\ UNCHANGED owed
     \/ /\ ~stop_after_work_done_ /\ ~work_immediately_
        /\ EnterIdle /\ UNCHANGED <<scheduler, owed>>
  /\ UNCHANGED restarted

\* event::work_done: the guards are tried in this order.
event_work_done(me) ==
  /\ IF state = "working"
       THEN \/ /\ stop_after_work_done_
               /\ EnterStopped
               /\ UNCHANGED scheduler
            \/ /\ ~stop_after_work_done_ /\ work_immediately_
               /\ EnterWorking /\ post_work(me)
               /\ UNCHANGED owed
            \/ /\ ~stop_after_work_done_ /\ ~work_immediately_
               /\ EnterIdle /\ set_work_timer(me)
               /\ UNCHANGED owed
       ELSE UNCHANGED <<machine, scheduler, owed>>
  /\ UNCHANGED restarted

-----------------------------------------------------------------------------
Init ==
  /\ do_work_at_start \in BOOLEAN
  /\ state = "stopped"
  /\ stop_after_work_done_ = FALSE
  /\ work_immediately_ = FALSE
  /\ work_timer_ = "off"
  /\ queue = << >>
  /\ local = << >>
  /\ pool = "free"
  /\ handling = "none"
  /\ client = [c \in Clients |-> "ready"]
  /\ life = "alive"
  /\ restarted = {}
  /\ owed = FALSE

-----------------------------------------------------------------------------
(* The clients. *)

CanCall(c) ==
  /\ life = "alive"
  /\ client[c] = "ready"

Start(c) ==
  /\ CanCall(c)
  /\ event_start(c)
  /\ UNCHANGED <<do_work_at_start, pool, handling, client, life>>

Notify(c) ==
  /\ CanCall(c)
  /\ event_do_work(c, TRUE)
  /\ UNCHANGED <<do_work_at_start, pool, handling, client, life>>

\* stop(): the event, then a promise posted behind the work, then the wait.
Stop(c) ==
  /\ CanCall(c)
  /\ event_stop(c)
  /\ client' = [client EXCEPT ![c] = "post"]
  /\ UNCHANGED <<do_work_at_start, pool, handling, life>>

\* ~loop_worker() begins with stop(); nobody else is in a method then.
Destroy(c) ==
  /\ CanCall(c)
  /\ \A d \in Clients : client[d] = "ready"
  /\ event_stop(c)
  /\ client' = [client EXCEPT ![c] = "post"]
  /\ life' = "closing"
  /\ UNCHANGED <<do_work_at_start, pool, handling>>

\* Mutant: the promise is only posted behind work.
StopPost_OnlyBehindWork(c) ==
  /\ client[c] = "post"
  /\ Post(c, IF state = "working" THEN <<Promise(c)>> ELSE << >>)
  /\ client' = [client EXCEPT ![c] = "wait"]
  /\ UNCHANGED <<do_work_at_start, machine, work_timer_, pool, handling, life, history>>

StopPost(c) ==
  /\ client[c] = "post"
  /\ Post(c, <<Promise(c)>>)
  /\ client' = [client EXCEPT ![c] = "wait"]
  /\ UNCHANGED <<do_work_at_start, machine, work_timer_, pool, handling, life, history>>

\* fut.wait() is over.  In the destructor the members go next, sm_ first.
StopReturn(c) ==
  /\ client[c] = "done"
  /\ client' = [client EXCEPT ![c] = "ready"]
  /\ life' = IF life = "closing" THEN "sm_destroyed" ELSE life
  /\ UNCHANGED <<do_work_at_start, machine, scheduler, pool, handling, history>>

\* ~state_machine_t(): th_pool_.stop(), then th_pool_.join().
StopPool ==
  /\ life = "sm_destroyed"
  /\ life' = "pool_stopped"
  /\ UNCHANGED <<do_work_at_start, machine, scheduler, pool, handling, client, history>>

JoinPool ==
  /\ life = "pool_stopped"
  /\ pool = "free"
  /\ life' = "destroyed"
  /\ UNCHANGED <<do_work_at_start, machine, scheduler, pool, handling, client, history>>

-----------------------------------------------------------------------------
(* The pool's thread and the timer. *)

PoolRuns == life \notin {"pool_stopped", "destroyed"}

Take(kind) ==
  /\ pool = "free"
  /\ PoolRuns
  /\ queue # << >>
  /\ Head(queue).kind = kind
  /\ queue' = Tail(queue)

TakeWork ==
  /\ Take("work")
  /\ pool' = "work"
  /\ handling' = "work"
  /\ owed' = FALSE
  /\ UNCHANGED <<do_work_at_start, machine, work_timer_, local, client, life, restarted>>

TakeTimeout ==
  /\ Take("timeout")
  /\ pool' = "event"
  /\ handling' = "timeout"
  /\ UNCHANGED <<do_work_at_start, machine, work_timer_, local, client, life, history>>

TakeAborted ==
  /\ Take("aborted")
  /\ UNCHANGED <<do_work_at_start, machine, work_timer_, local, pool, handling, client, life, history>>

TakePromise ==
  /\ Take("promise")
  /\ client' = [client EXCEPT ![Head(queue).for] = "done"]
  /\ UNCHANGED <<do_work_at_start, machine, work_timer_, local, pool, handling, life, history>>

FnStart ==
  /\ pool = "work" /\ "start" \in WorkCalls
  /\ event_start(PoolThread)
  /\ UNCHANGED <<do_work_at_start, pool, handling, client, life>>

FnNotify ==
  /\ pool = "work" /\ "notify" \in WorkCalls
  /\ event_do_work(PoolThread, TRUE)
  /\ UNCHANGED <<do_work_at_start, pool, handling, client, life>>

\* stop() called from fn_work: the promise goes behind the handler that waits
\* for it, on the pool's only thread.
FnStop ==
  /\ pool = "work" /\ "stop" \in WorkCalls
  /\ event_stop(PoolThread)
  /\ pool' = "post"
  /\ UNCHANGED <<do_work_at_start, handling, client, life>>

FnStopPost ==
  /\ pool = "post"
  /\ Post(PoolThread, <<Promise(PoolThread)>>)
  /\ pool' = "blocked"
  /\ UNCHANGED <<do_work_at_start, machine, work_timer_, handling, client, life, history>>

FnReturn ==
  /\ pool = "work"
  /\ pool' = "event"
  /\ UNCHANGED <<do_work_at_start, machine, scheduler, handling, client, life, history>>

\* fn_work_done_callback, or the body of the timer's handler.
HandlerEvent ==
  /\ pool = "event"
  /\ IF handling = "work" THEN event_work_done(PoolThread)
                          ELSE event_do_work(PoolThread, FALSE)
  /\ pool' = "return"
  /\ UNCHANGED <<do_work_at_start, handling, client, life>>

HandlerReturn ==
  /\ pool = "return"
  /\ pool' = "free"
  /\ handling' = "none"
  /\ queue' = queue \o local
  /\ local' = << >>
  /\ UNCHANGED <<do_work_at_start, machine, work_timer_, client, life, history>>

TimerExpires ==
  /\ work_timer_ = "armed"
  /\ PoolRuns
  /\ work_timer_' = "off"
  /\ queue' = Append(queue, Timeout)
  /\ UNCHANGED <<do_work_at_start, machine, local, pool, handling, client, life, history>>

\* The object is gone.
Gone ==
  /\ life = "destroyed"
  /\ UNCHANGED vars

-----------------------------------------------------------------------------
PoolStep ==
  \/ TakeWork \/ TakeTimeout \/ TakeAborted \/ TakePromise
  \/ FnStopPost \/ FnReturn \/ HandlerEvent \/ HandlerReturn

StopStep(c) == StopPost(c) \/ StopReturn(c)

Next ==
  \/ \E c \in Clients : Start(c) \/ Notify(c) \/ Stop(c) \/ Destroy(c) \/ StopStep(c)
  \/ StopPool \/ JoinPool
  \/ PoolStep \/ FnStart \/ FnNotify \/ FnStop
  \/ TimerExpires
  \/ Gone

\* The pool's thread, the timer and the threads inside stop() or the
\* destructor go on; fn_work returns, however many calls it makes.  Nobody
\* has to call anything.
Fairness ==
  /\ WF_vars(PoolStep)
  /\ WF_vars(TimerExpires)
  /\ \A c \in Clients : WF_vars(StopStep(c))
  /\ WF_vars(StopPool)
  /\ WF_vars(JoinPool)

Spec == Init /\ [][Next]_vars

FairSpec == Spec /\ Fairness
-----------------------------------------------------------------------------
(* Properties. *)

\* Every variable has its type; the pool's thread has handed over its private
\* queue whenever it is between two handlers.
TypeOK ==
  /\ do_work_at_start \in BOOLEAN
  /\ state \in {"stopped", "idle", "working"}
  /\ stop_after_work_done_ \in BOOLEAN
  /\ work_immediately_ \in BOOLEAN
  /\ work_timer_ \in {"off", "armed"}
  /\ queue \in Seq(Handler)
  /\ local \in Seq(Handler)
  /\ pool \in {"free", "work", "post", "blocked", "event", "return"}
  /\ handling \in {"none", "work", "timeout"}
  /\ client \in [Clients -> {"ready", "post", "wait", "done"}]
  /\ life \in {"alive", "closing", "sm_destroyed", "pool_stopped", "destroyed"}
  /\ restarted \subseteq Clients
  /\ owed \in BOOLEAN
  /\ pool = "free" => local = << >>

Has(q, kind) == \E i \in 1..Len(q) : q[i].kind = kind

AtMostOneWork(q) ==
  \A i, j \in 1..Len(q) : q[i].kind = "work" /\ q[j].kind = "work" => i = j

\* fn_work was taken and its work_done event has not been processed.
InFlight == handling = "work" /\ pool \in {"work", "post", "blocked", "event"}

Pending == Has(queue, "work") \/ Has(local, "work")

\* A timer's handler has been taken and has not come to its event.
TimeoutInHand == handling = "timeout" /\ pool = "event"

\* The machine believes that a run is outstanding exactly when one is: posted
\* or in progress, never both, never two.  Two would run fn_work twice and
\* feed a second work_done to a machine that has moved on; none would leave
\* it in "working" for ever.
OneWorkOutstanding ==
  /\ state = "working" <=> (Pending \/ InFlight)
  /\ ~(Pending /\ InFlight)
  /\ ~(Has(queue, "work") /\ Has(local, "work"))
  /\ AtMostOneWork(queue) /\ AtMostOneWork(local)

\* A machine that waits will be woken: its timer is armed, or has expired and
\* its handler has not come to its event.  And a timer is never left armed
\* by a machine that does not wait for it.
IdleWakes ==
  /\ state = "idle" =>
       \/ work_timer_ = "armed"
       \/ Has(queue, "timeout")
       \/ TimeoutInHand
  /\ work_timer_ = "armed" => state = "idle"

\* A notify() that was accepted is not lost: until a run begins after it, or
\* the machine stops, such a run is posted or the run in progress is bound to
\* post it.  notify() may come at any point, of any thread, fn_work included.
PromptNotify ==
  owed => Pending \/ (InFlight /\ work_immediately_)

\* stop() returns with the machine stopped, unless a start() that came after
\* its event has started it again ("wait until work done").
StopReturnsStopped ==
  \A c \in Clients : client[c] = "done" /\ c \notin restarted => state = "stopped"

\* Even when the promise overtakes the work, stop() leaves a machine that stops
\* at the end of the one run that may be outstanding.
StopTakesHold ==
  \A c \in Clients : client[c] = "done" /\ c \notin restarted =>
    state = "stopped" \/ (state = "working" /\ stop_after_work_done_)

\* No handler is left that hands an event to sm_ once sm_ is destroyed, which
\* happens before the pool is stopped.
NoEventAfterDestroy ==
  life \notin {"alive", "closing"} =>
    /\ pool \in {"free", "return"}
    /\ \A kind \in {"work", "timeout"} : ~Has(queue, kind) /\ ~Has(local, kind)

\* Nobody waits in stop() for nothing: in either order there is a promise for
\* him in the queue, and the pool has not been stopped.
PromiseKept ==
  \A c \in Clients : client[c] = "wait" =>
    PoolRuns /\ \E i \in 1..Len(queue) : queue[i] = Promise(c)

\* Every stop() returns, the destructor's too, whatever the others call,
\* except when fn_work itself called stop() and so blocks the pool's thread.
StopReturns ==
  \A c \in Clients : client[c] # "ready" ~> (client[c] = "ready" \/ pool = "blocked")

\* The destructor terminates: the pool's thread is joined.
DestructorReturns == life = "closing" ~> life = "destroyed"

\* A worker that was started does run: from "idle" it comes to fn_work unless
\* it is stopped first.
IdleRuns == state = "idle" ~> (pool = "work" \/ state = "stopped")

\* Refinement.  A run is due while its handler waits and running from then
\* to its work_done event.
Abstract == INSTANCE PeriodicWorker WITH
  phase <- IF state = "stopped" THEN "stopped"
           ELSE IF state = "idle" THEN "waiting"
           ELSE IF Pending THEN "due" ELSE "running",
  again <- state = "working" /\ work_immediately_,
  halt <- stop_after_work_done_

\* The worker implements the periodic job: every step is one of the job's or
\* does not change it, and what the job must do, the worker does.
Refines == Abstract!Spec
=============================================================================
