--------------------- MODULE SchedulerLoopWorkerProofs ---------------------
(***************************************************************************)
(* Proofs about SchedulerLoopWorker, for every set of clients, every       *)
(* choice of the calls fn_work makes and, unless LocalPost is assumed      *)
(* false, both orders of the pool's handlers.                              *)
(***************************************************************************)
EXTENDS SchedulerLoopWorker, SequenceTheorems, TLAPS

-----------------------------------------------------------------------------
(* Queues. *)

\* A handler that is queued is at the head or in the tail.
LEMMA HasTail ==
  ASSUME NEW q \in Seq(Handler), q # << >>, NEW kind
  PROVE  /\ Head(q) \in Handler
         /\ Tail(q) \in Seq(Handler)
         /\ Has(q, kind) <=> Head(q).kind = kind \/ Has(Tail(q), kind)
<1>1. /\ Head(q) \in Handler
      /\ Tail(q) \in Seq(Handler)
      /\ Len(Tail(q)) = Len(q) - 1
      /\ \A i \in 1..Len(Tail(q)) : Tail(q)[i] = q[i + 1]
  BY HeadTailProperties
<1>2. Len(q) \in Nat /\ Len(q) > 0 /\ Head(q) = q[1]
  BY EmptySeq
<1>3. ASSUME Has(q, kind) PROVE Head(q).kind = kind \/ Has(Tail(q), kind)
  <2>1. PICK i \in 1..Len(q) : q[i].kind = kind
    BY <1>3 DEF Has
  <2>2. CASE i = 1
    BY <2>1, <2>2, <1>2
  <2>3. CASE i # 1
    <3>1. i - 1 \in 1..Len(Tail(q)) /\ Tail(q)[i - 1] = q[i]
      BY <1>1, <1>2, <2>3
    <3> QED BY <3>1, <2>1 DEF Has
  <2> QED BY <2>2, <2>3
<1>4. ASSUME Head(q).kind = kind PROVE Has(q, kind)
  BY <1>2, <1>4 DEF Has
<1>5. ASSUME Has(Tail(q), kind) PROVE Has(q, kind)
  <2>1. PICK i \in 1..Len(Tail(q)) : Tail(q)[i].kind = kind
    BY <1>5 DEF Has
  <2>2. i + 1 \in 1..Len(q) /\ q[i + 1].kind = kind
    BY <2>1, <1>1, <1>2
  <2> QED BY <2>2 DEF Has
<1> QED BY <1>1, <1>3, <1>4, <1>5

\* What is taken from a queue with at most one work leaves at most one, and
\* none if it was the work.
LEMMA WorkTail ==
  ASSUME NEW q \in Seq(Handler), q # << >>, AtMostOneWork(q)
  PROVE  /\ AtMostOneWork(Tail(q))
         /\ Head(q).kind = "work" => ~Has(Tail(q), "work")
<1>1. /\ Len(Tail(q)) = Len(q) - 1
      /\ \A i \in 1..Len(Tail(q)) : Tail(q)[i] = q[i + 1]
  BY HeadTailProperties
<1>2. Len(q) \in Nat /\ Len(q) > 0 /\ Head(q) = q[1]
  BY EmptySeq
<1>3. AtMostOneWork(Tail(q))
  <2> SUFFICES ASSUME NEW i \in 1..Len(Tail(q)), NEW j \in 1..Len(Tail(q)),
                      Tail(q)[i].kind = "work", Tail(q)[j].kind = "work"
               PROVE  i = j
    BY DEF AtMostOneWork
  <2>1. i + 1 \in 1..Len(q) /\ j + 1 \in 1..Len(q)
    BY <1>1, <1>2
  <2>2. q[i + 1].kind = "work" /\ q[j + 1].kind = "work"
    BY <1>1
  <2>3. i + 1 = j + 1
    BY <2>1, <2>2 DEF AtMostOneWork
  <2> QED BY <2>3
<1>4. ASSUME Head(q).kind = "work", Has(Tail(q), "work") PROVE FALSE
  <2>1. PICK i \in 1..Len(Tail(q)) : Tail(q)[i].kind = "work"
    BY <1>4 DEF Has
  <2>2. i + 1 \in 1..Len(q) /\ q[i + 1].kind = "work" /\ 1 \in 1..Len(q) /\ q[1].kind = "work"
    BY <2>1, <1>1, <1>2, <1>4
  <2>3. i + 1 = 1
    BY <2>2 DEF AtMostOneWork
  <2> QED BY <2>3, <1>1, <1>2
<1> QED BY <1>3, <1>4

\* A concatenation has what its parts have, and at most one work if they do
\* and do not both have one.
LEMMA HasConcat ==
  ASSUME NEW q \in Seq(Handler), NEW r \in Seq(Handler)
  PROVE  /\ q \o r \in Seq(Handler)
         /\ \A kind : Has(q \o r, kind) <=> Has(q, kind) \/ Has(r, kind)
         /\ AtMostOneWork(q) /\ AtMostOneWork(r) /\ ~(Has(q, "work") /\ Has(r, "work"))
              => AtMostOneWork(q \o r)
<1> DEFINE s == q \o r
<1>1. /\ s \in Seq(Handler)
      /\ Len(s) = Len(q) + Len(r)
      /\ \A i \in 1..Len(q) + Len(r) : s[i] = IF i <= Len(q) THEN q[i] ELSE r[i - Len(q)]
  BY ConcatProperties
<1>2. Len(q) \in Nat /\ Len(r) \in Nat
  BY LenProperties
<1> HIDE DEF s
<1>3. ASSUME NEW kind PROVE Has(s, kind) <=> Has(q, kind) \/ Has(r, kind)
  <2>1. ASSUME NEW i \in 1..Len(s), s[i].kind = kind PROVE Has(q, kind) \/ Has(r, kind)
    <3>1. CASE i <= Len(q)
      BY <2>1, <3>1, <1>1, <1>2 DEF Has
    <3>2. CASE ~(i <= Len(q))
      <4>1. i - Len(q) \in 1..Len(r) /\ r[i - Len(q)].kind = kind
        BY <2>1, <3>2, <1>1, <1>2
      <4> QED BY <4>1 DEF Has
    <3> QED BY <3>1, <3>2
  <2>2. ASSUME NEW i \in 1..Len(q), q[i].kind = kind PROVE Has(s, kind)
    BY <2>2, <1>1, <1>2 DEF Has
  <2>3. ASSUME NEW i \in 1..Len(r), r[i].kind = kind PROVE Has(s, kind)
    <3>1. i + Len(q) \in 1..Len(s) /\ ~(i + Len(q) <= Len(q)) /\ i + Len(q) - Len(q) = i
      BY <1>1, <1>2
    <3>2. s[i + Len(q)] = r[i + Len(q) - Len(q)]
      BY <3>1, <1>1
    <3>3. s[i + Len(q)] = r[i]
      BY <3>1, <3>2
    <3> QED BY <3>1, <3>3, <2>3 DEF Has
  <2> QED BY <2>1, <2>2, <2>3 DEF Has
<1>4. ASSUME AtMostOneWork(q), AtMostOneWork(r), ~(Has(q, "work") /\ Has(r, "work"))
      PROVE  AtMostOneWork(s)
  <2> SUFFICES ASSUME NEW i \in 1..Len(s), NEW j \in 1..Len(s),
                      s[i].kind = "work", s[j].kind = "work"
               PROVE  i = j
    BY DEF AtMostOneWork
  <2>1. CASE i <= Len(q) /\ j <= Len(q)
    BY <2>1, <1>1, <1>2, <1>4 DEF AtMostOneWork
  <2>2. CASE ~(i <= Len(q)) /\ ~(j <= Len(q))
    <3>1. i - Len(q) \in 1..Len(r) /\ j - Len(q) \in 1..Len(r)
      BY <2>2, <1>1, <1>2
    <3>2. r[i - Len(q)].kind = "work" /\ r[j - Len(q)].kind = "work"
      BY <2>2, <1>1, <1>2
    <3>3. i - Len(q) = j - Len(q)
      BY <3>1, <3>2, <1>4 DEF AtMostOneWork
    <3> QED BY <3>3, <1>1, <1>2
  <2>3. ASSUME NEW m \in 1..Len(s), NEW n \in 1..Len(s), m <= Len(q), ~(n <= Len(q)),
               s[m].kind = "work", s[n].kind = "work"
        PROVE  FALSE
    <3>1. m \in 1..Len(q) /\ q[m].kind = "work"
      BY <2>3, <1>1, <1>2
    <3>2. n - Len(q) \in 1..Len(r) /\ r[n - Len(q)].kind = "work"
      BY <2>3, <1>1, <1>2
    <3> QED BY <3>1, <3>2, <1>4 DEF Has
  <2> QED BY <2>1, <2>2, <2>3
<1> QED BY <1>1, <1>3, <1>4 DEF s

-----------------------------------------------------------------------------
(* Posting. *)

QueuesOK == queue \in Seq(Handler) /\ local \in Seq(Handler)

\* What the state machine posts, and what it is made of.
LEMMA PostedHandlers ==
  /\ << >> \in Seq(Handler) /\ <<Work>> \in Seq(Handler) /\ Cancelled \in Seq(Handler)
  /\ Cancelled \o <<Work>> \in Seq(Handler)
  /\ \A kind : ~Has(<< >>, kind)
  /\ \A kind : Has(<<Work>>, kind) <=> kind = "work"
  /\ ~Has(Cancelled, "work")
  /\ Has(Cancelled \o <<Work>>, "work")
  /\ AtMostOneWork(<<Work>>)
  /\ AtMostOneWork(Cancelled \o <<Work>>)
<1>1. << >> \in Seq(Handler) /\ <<Work>> \in Seq(Handler) /\ <<Aborted>> \in Seq(Handler)
  BY DEF Handler, Work, Aborted
<1>2. Cancelled \in Seq(Handler)
  BY <1>1 DEF Cancelled
<1>3. \A kind : ~Has(<< >>, kind) /\ (Has(<<Work>>, kind) <=> kind = "work")
  BY DEF Has, Work
<1>4. ~Has(<<Aborted>>, "work")
  BY DEF Has, Aborted
<1>5. ~Has(Cancelled, "work")
  BY <1>3, <1>4 DEF Cancelled
<1>6. AtMostOneWork(<<Work>>)
  BY DEF AtMostOneWork
<1>7. AtMostOneWork(Cancelled)
  BY <1>5, <1>2 DEF AtMostOneWork, Has
<1> QED BY <1>1, <1>2, <1>3, <1>5, <1>6, <1>7, HasConcat

\* Posting adds handlers to one of the two queues, to the private one only
\* from the pool's thread.
LEMMA PostAdds ==
  ASSUME QueuesOK, NEW me, NEW hs \in Seq(Handler), Post(me, hs)
  PROVE  /\ QueuesOK'
         /\ \A kind : Has(queue, kind) => Has(queue', kind)
         /\ me # PoolThread => local' = local
<1>1. CASE LocalPost /\ me = PoolThread
  BY <1>1, HasConcat DEF Post, QueuesOK
<1>2. CASE ~(LocalPost /\ me = PoolThread)
  BY <1>2, HasConcat DEF Post, QueuesOK
<1> QED BY <1>1, <1>2

WorkQueued ==
  /\ ~(Has(queue, "work") /\ Has(local, "work"))
  /\ AtMostOneWork(queue) /\ AtMostOneWork(local)

\* A queue without work has at most one.
LEMMA NoWork ==
  ASSUME NEW q \in Seq(Handler), ~Has(q, "work")
  PROVE  AtMostOneWork(q)
BY DEF Has, AtMostOneWork

\* Posting anything but work changes nothing about the work that is pending.
LEMMA PostOther ==
  ASSUME QueuesOK, WorkQueued, NEW me, NEW hs \in Seq(Handler), Post(me, hs),
         ~Has(hs, "work")
  PROVE  WorkQueued' /\ (Pending' <=> Pending)
<1>1. AtMostOneWork(hs)
  BY NoWork
<1>2. CASE LocalPost /\ me = PoolThread
  <2>1. local' = local \o hs /\ queue' = queue
    BY <1>2 DEF Post
  <2>2. /\ Has(local', "work") <=> Has(local, "work") \/ Has(hs, "work")
        /\ AtMostOneWork(local) /\ AtMostOneWork(hs) /\ ~(Has(local, "work") /\ Has(hs, "work"))
             => AtMostOneWork(local')
    BY <2>1, HasConcat DEF QueuesOK
  <2> QED BY <1>1, <2>1, <2>2 DEF WorkQueued, Pending
<1>3. CASE ~(LocalPost /\ me = PoolThread)
  <2>1. queue' = queue \o hs /\ local' = local
    BY <1>3 DEF Post
  <2>2. /\ Has(queue', "work") <=> Has(queue, "work") \/ Has(hs, "work")
        /\ AtMostOneWork(queue) /\ AtMostOneWork(hs) /\ ~(Has(queue, "work") /\ Has(hs, "work"))
             => AtMostOneWork(queue')
    BY <2>1, HasConcat DEF QueuesOK
  <2> QED BY <1>1, <2>1, <2>2 DEF WorkQueued, Pending
<1> QED BY <1>2, <1>3

\* Posting work when none is pending makes one pending.
LEMMA PostWork ==
  ASSUME QueuesOK, ~Pending, NEW me, NEW hs \in Seq(Handler), Post(me, hs),
         Has(hs, "work"), AtMostOneWork(hs)
  PROVE  WorkQueued' /\ Pending'
<1>1. AtMostOneWork(queue) /\ AtMostOneWork(local)
  BY NoWork DEF QueuesOK, Pending
<1>2. CASE LocalPost /\ me = PoolThread
  <2>1. local' = local \o hs /\ queue' = queue
    BY <1>2 DEF Post
  <2>2. /\ Has(local', "work") <=> Has(local, "work") \/ Has(hs, "work")
        /\ AtMostOneWork(local) /\ AtMostOneWork(hs) /\ ~(Has(local, "work") /\ Has(hs, "work"))
             => AtMostOneWork(local')
    BY <2>1, HasConcat DEF QueuesOK
  <2> QED BY <1>1, <2>1, <2>2 DEF WorkQueued, Pending
<1>3. CASE ~(LocalPost /\ me = PoolThread)
  <2>1. queue' = queue \o hs /\ local' = local
    BY <1>3 DEF Post
  <2>2. /\ Has(queue', "work") <=> Has(queue, "work") \/ Has(hs, "work")
        /\ AtMostOneWork(queue) /\ AtMostOneWork(hs) /\ ~(Has(queue, "work") /\ Has(hs, "work"))
             => AtMostOneWork(queue')
    BY <2>1, HasConcat DEF QueuesOK
  <2> QED BY <1>1, <2>1, <2>2 DEF WorkQueued, Pending
<1> QED BY <1>2, <1>3

-----------------------------------------------------------------------------
(* The inductive invariant. *)

\* Where the pool's thread is says what it runs.
PoolOK ==
  /\ pool \in {"work", "post", "blocked"} => handling = "work"
  /\ pool = "free" => handling = "none"
  /\ pool = "event" => handling \in {"work", "timeout"}

IInv == TypeOK /\ PoolOK /\ OneWorkOutstanding /\ IdleWakes /\ PromptNotify

\* The types an event can disturb.
MachineOK ==
  /\ state \in {"stopped", "idle", "working"}
  /\ stop_after_work_done_ \in BOOLEAN
  /\ work_immediately_ \in BOOLEAN
  /\ work_timer_ \in {"off", "armed"}
  /\ QueuesOK
  /\ restarted \subseteq Clients
  /\ owed \in BOOLEAN

\* What every event keeps, whoever sends it, as long as it does not end the
\* run in progress.
LEMMA EventStart ==
  ASSUME IInv, NEW me \in Clients \cup {PoolThread}, event_start(me),
         InFlight' <=> InFlight, TimeoutInHand' <=> TimeoutInHand
  PROVE  /\ MachineOK' /\ OneWorkOutstanding' /\ IdleWakes' /\ PromptNotify'
         /\ me # PoolThread => local' = local
<1> USE DEF IInv, TypeOK, MachineOK, machine, scheduler, history
<1>0. QueuesOK /\ WorkQueued
  BY DEF QueuesOK, WorkQueued, OneWorkOutstanding
<1>1. CASE state # "stopped"
  <2>1. UNCHANGED <<machine, scheduler, history>>
    BY <1>1 DEF event_start
  <2> QED BY <1>0, <2>1 DEF QueuesOK, OneWorkOutstanding, Pending, IdleWakes, PromptNotify
<1>2. CASE state = "stopped" /\ do_work_at_start
  <2>1. /\ EnterWorking /\ post_work(me)
        /\ restarted' \subseteq Clients
        /\ UNCHANGED owed
    BY <1>2 DEF event_start
  <2>2. ~Pending /\ ~InFlight /\ ~owed
    BY <1>2 DEF OneWorkOutstanding, PromptNotify
  <2>3. /\ QueuesOK' /\ WorkQueued' /\ Pending'
        /\ me # PoolThread => local' = local
    BY <1>0, <2>1, <2>2, PostAdds, PostWork, PostedHandlers DEF post_work
  <2> QED BY <1>2, <2>1, <2>2, <2>3
          DEF EnterWorking, post_work, OneWorkOutstanding, WorkQueued, IdleWakes, PromptNotify
<1>3. CASE state = "stopped" /\ ~do_work_at_start
  <2>1. /\ EnterIdle /\ set_work_timer(me)
        /\ restarted' \subseteq Clients
        /\ UNCHANGED owed
    BY <1>3 DEF event_start
  <2>2. ~Pending /\ ~InFlight /\ ~owed
    BY <1>3 DEF OneWorkOutstanding, PromptNotify
  <2>3. /\ QueuesOK' /\ WorkQueued' /\ ~Pending'
        /\ me # PoolThread => local' = local
    BY <1>0, <2>1, <2>2, PostAdds, PostOther, PostedHandlers DEF set_work_timer
  <2> QED BY <2>1, <2>2, <2>3
          DEF EnterIdle, set_work_timer, OneWorkOutstanding, WorkQueued, IdleWakes, PromptNotify
<1> QED BY <1>1, <1>2, <1>3

\* event::stop keeps the four parts: it disarms the timer as it leaves "idle"
\* and leaves an outstanding run alone.
LEMMA EventStop ==
  ASSUME IInv, NEW me \in Clients \cup {PoolThread}, event_stop(me),
         InFlight' <=> InFlight, TimeoutInHand' <=> TimeoutInHand
  PROVE  /\ MachineOK' /\ OneWorkOutstanding' /\ IdleWakes' /\ PromptNotify'
         /\ me # PoolThread => local' = local
<1> USE DEF IInv, TypeOK, MachineOK, machine, scheduler, history
<1>0. QueuesOK /\ WorkQueued
  BY DEF QueuesOK, WorkQueued, OneWorkOutstanding
<1>a. restarted' \subseteq Clients
  BY DEF event_stop
<1>1. CASE state = "stopped"
  <2>1. EnterStopped /\ UNCHANGED scheduler
    BY <1>1 DEF event_stop
  <2> QED BY <1>0, <1>1, <1>a, <2>1
          DEF EnterStopped, QueuesOK, OneWorkOutstanding, Pending, IdleWakes, PromptNotify
<1>2. CASE state = "idle"
  <2>1. EnterStopped /\ cancel_work_timer(me)
    BY <1>2 DEF event_stop
  <2>2. ~Pending /\ ~InFlight
    BY <1>2 DEF OneWorkOutstanding
  <2>3. /\ QueuesOK' /\ WorkQueued' /\ ~Pending'
        /\ me # PoolThread => local' = local
    BY <1>0, <2>1, <2>2, PostAdds, PostOther, PostedHandlers DEF cancel_work_timer
  <2> QED BY <1>a, <2>1, <2>2, <2>3
          DEF EnterStopped, cancel_work_timer, OneWorkOutstanding, WorkQueued, IdleWakes, PromptNotify
<1>3. CASE state = "working"
  <2>1. stop_after_work_done_' = TRUE /\ UNCHANGED <<state, work_immediately_, owed, scheduler>>
    BY <1>3 DEF event_stop
  <2> QED BY <1>0, <1>3, <1>a, <2>1
          DEF QueuesOK, OneWorkOutstanding, Pending, IdleWakes, PromptNotify
<1> QED BY <1>1, <1>2, <1>3

\* event::do_work posts a run only when none is outstanding.
LEMMA EventDoWork ==
  ASSUME IInv, NEW me \in Clients \cup {PoolThread}, NEW asked \in BOOLEAN,
         event_do_work(me, asked), InFlight' <=> InFlight
  PROVE  /\ MachineOK' /\ OneWorkOutstanding' /\ IdleWakes' /\ PromptNotify'
         /\ me # PoolThread => local' = local
<1> USE DEF IInv, TypeOK, MachineOK, machine, scheduler, history
<1>0. QueuesOK /\ WorkQueued
  BY DEF QueuesOK, WorkQueued, OneWorkOutstanding
<1>a. restarted' = restarted
  BY DEF event_do_work
<1>1. CASE state = "stopped"
  <2>1. UNCHANGED <<machine, scheduler, owed>>
    BY <1>1 DEF event_do_work
  <2> QED BY <1>0, <1>1, <1>a, <2>1
          DEF QueuesOK, OneWorkOutstanding, Pending, IdleWakes, PromptNotify
<1>2. CASE state = "idle"
  <2>1. /\ EnterWorking /\ work_timer_' = "off"
        /\ Post(me, Cancelled \o <<Work>>)
        /\ owed' = (owed \/ asked)
    BY <1>2 DEF event_do_work
  <2>2. ~Pending /\ ~InFlight
    BY <1>2 DEF OneWorkOutstanding
  <2>3. /\ QueuesOK' /\ WorkQueued' /\ Pending'
        /\ me # PoolThread => local' = local
    BY <1>0, <2>1, <2>2, PostAdds, PostWork, PostedHandlers
  <2>4. owed' \in BOOLEAN
    BY <2>1
  <2> QED BY <1>a, <2>1, <2>2, <2>3, <2>4
          DEF EnterWorking, OneWorkOutstanding, WorkQueued, IdleWakes, PromptNotify
<1>3. CASE state = "working"
  <2>1. /\ work_immediately_' = TRUE
        /\ owed' = (owed \/ asked)
        /\ UNCHANGED <<state, stop_after_work_done_, scheduler>>
    BY <1>3 DEF event_do_work
  <2>2. owed' \in BOOLEAN
    BY <2>1
  <2> QED BY <1>0, <1>3, <1>a, <2>1, <2>2
          DEF QueuesOK, OneWorkOutstanding, Pending, IdleWakes, PromptNotify
<1> QED BY <1>1, <1>2, <1>3

\* work_done ends the run in progress.
LEMMA EventWorkDone ==
  ASSUME IInv, InFlight, event_work_done(PoolThread), ~InFlight'
  PROVE  MachineOK' /\ OneWorkOutstanding' /\ IdleWakes' /\ PromptNotify'
<1> USE DEF IInv, TypeOK, MachineOK, machine, scheduler, history
<1>0. QueuesOK /\ WorkQueued /\ state = "working" /\ ~Pending /\ work_timer_ = "off"
  BY DEF QueuesOK, WorkQueued, OneWorkOutstanding, IdleWakes
<1>a. restarted' = restarted
  BY DEF event_work_done
<1>1. CASE stop_after_work_done_
  <2>1. EnterStopped /\ UNCHANGED scheduler
    BY <1>0, <1>1 DEF event_work_done
  <2> QED BY <1>0, <1>a, <2>1
          DEF EnterStopped, QueuesOK, OneWorkOutstanding, Pending, IdleWakes, PromptNotify
<1>2. CASE ~stop_after_work_done_ /\ work_immediately_
  <2>1. EnterWorking /\ post_work(PoolThread) /\ owed' = owed
    BY <1>0, <1>2 DEF event_work_done
  <2>2. QueuesOK' /\ WorkQueued' /\ Pending'
    BY <1>0, <2>1, PostAdds, PostWork, PostedHandlers DEF post_work
  <2> QED BY <1>0, <1>a, <2>1, <2>2
          DEF EnterWorking, post_work, OneWorkOutstanding, WorkQueued, IdleWakes, PromptNotify
<1>3. CASE ~stop_after_work_done_ /\ ~work_immediately_
  <2>1. EnterIdle /\ set_work_timer(PoolThread) /\ owed' = owed
    BY <1>0, <1>3 DEF event_work_done
  <2>2. ~owed
    BY <1>0, <1>3 DEF PromptNotify
  <2>3. QueuesOK' /\ WorkQueued' /\ ~Pending'
    BY <1>0, <2>1, PostAdds, PostOther, PostedHandlers DEF set_work_timer
  <2> QED BY <1>0, <1>a, <2>1, <2>2, <2>3
          DEF EnterIdle, set_work_timer, OneWorkOutstanding, WorkQueued, IdleWakes, PromptNotify
<1> QED BY <1>1, <1>2, <1>3

\* The promise of stop().
LEMMA PromisePosted ==
  ASSUME IInv, NEW me \in Clients \cup {PoolThread}, Post(me, <<Promise(me)>>),
         UNCHANGED <<machine, work_timer_, history>>,
         InFlight' <=> InFlight, TimeoutInHand' <=> TimeoutInHand
  PROVE  /\ MachineOK' /\ OneWorkOutstanding' /\ IdleWakes' /\ PromptNotify'
         /\ me # PoolThread => local' = local
<1>1. QueuesOK /\ WorkQueued
  BY DEF IInv, TypeOK, QueuesOK, WorkQueued, OneWorkOutstanding
<1>2. <<Promise(me)>> \in Seq(Handler) /\ ~Has(<<Promise(me)>>, "work")
  BY DEF Promise, Handler, Has
<1>3. /\ QueuesOK' /\ WorkQueued' /\ (Pending' <=> Pending)
      /\ (Has(queue, "timeout") => Has(queue', "timeout"))
      /\ me # PoolThread => local' = local
  BY <1>1, <1>2, PostAdds, PostOther
<1> QED BY <1>3 DEF IInv, TypeOK, MachineOK, machine, history, OneWorkOutstanding,
                    WorkQueued, IdleWakes, PromptNotify

\* The invariant holds at the start.
LEMMA IInvInit == Init => IInv
<1> SUFFICES ASSUME Init PROVE IInv
  OBVIOUS
<1>1. TypeOK /\ PoolOK
  BY EmptySeq DEF Init, TypeOK, PoolOK
<1>2. ~Has(queue, "work") /\ ~Has(local, "work") /\ AtMostOneWork(queue) /\ AtMostOneWork(local)
  BY DEF Init, Has, AtMostOneWork
<1> QED BY <1>1, <1>2
        DEF Init, IInv, OneWorkOutstanding, Pending, InFlight, IdleWakes, PromptNotify

\* Steps that touch neither the machine nor the queues, and do not move the
\* pool's thread, change nothing the invariant speaks of.
LEMMA QuietStep ==
  ASSUME IInv, UNCHANGED <<do_work_at_start, machine, scheduler, pool, handling, owed>>,
         client' \in [Clients -> {"ready", "post", "wait", "done"}],
         life' \in {"alive", "closing", "sm_destroyed", "pool_stopped", "destroyed"},
         restarted' \subseteq Clients
  PROVE  IInv'
BY DEF IInv, TypeOK, PoolOK, machine, scheduler, OneWorkOutstanding, Pending, InFlight,
       IdleWakes, TimeoutInHand, PromptNotify

\* What the pool's thread takes: the rest of the queue.
LEMMA TakeFacts ==
  ASSUME IInv, NEW kind, Take(kind)
  PROVE  /\ QueuesOK /\ queue' \in Seq(Handler) /\ Head(queue) \in Handler
         /\ Head(queue).kind = kind
         /\ handling = "none" /\ local = << >> /\ ~Has(local, "work")
         /\ \A k : Has(queue, k) <=> k = kind \/ Has(queue', k)
         /\ AtMostOneWork(queue')
         /\ kind = "work" => ~Has(queue', "work")
<1>1. /\ queue \in Seq(Handler) /\ queue # << >> /\ queue' = Tail(queue)
      /\ AtMostOneWork(queue) /\ pool = "free" /\ Head(queue).kind = kind
  BY DEF IInv, TypeOK, OneWorkOutstanding, Take
<1>2. handling = "none" /\ local = << >> /\ local \in Seq(Handler)
  BY <1>1 DEF IInv, TypeOK, PoolOK
<1>3. ~Has(local, "work")
  BY <1>2, PostedHandlers
<1>4. \A k : Has(queue, k) <=> Head(queue).kind = k \/ Has(Tail(queue), k)
  BY <1>1, HasTail
<1>5. Head(queue) \in Handler /\ Tail(queue) \in Seq(Handler)
  BY <1>1, HasTail
<1> QED BY <1>1, <1>2, <1>3, <1>4, <1>5, WorkTail DEF QueuesOK

\* Every step keeps the invariant.
LEMMA IInvNext == IInv /\ [Next]_vars => IInv'
<1> SUFFICES ASSUME IInv, [Next]_vars PROVE IInv'
  OBVIOUS
<1>a. ASSUME NEW c \in Clients PROVE c # PoolThread /\ c \in Clients \cup {PoolThread}
  BY ClientsAssumption
<1>b. IInv' <=> /\ MachineOK' /\ PoolOK'
                /\ OneWorkOutstanding' /\ IdleWakes' /\ PromptNotify'
                /\ do_work_at_start' \in BOOLEAN
                /\ pool' \in {"free", "work", "post", "blocked", "event", "return"}
                /\ handling' \in {"none", "work", "timeout"}
                /\ client' \in [Clients -> {"ready", "post", "wait", "done"}]
                /\ life' \in {"alive", "closing", "sm_destroyed", "pool_stopped", "destroyed"}
                /\ (pool' = "free" => local' = << >>)
  BY DEF IInv, TypeOK, MachineOK, QueuesOK
<1>c. /\ PoolOK /\ MachineOK
      /\ OneWorkOutstanding /\ IdleWakes /\ PromptNotify
      /\ do_work_at_start \in BOOLEAN
      /\ pool \in {"free", "work", "post", "blocked", "event", "return"}
      /\ handling \in {"none", "work", "timeout"}
      /\ client \in [Clients -> {"ready", "post", "wait", "done"}]
      /\ life \in {"alive", "closing", "sm_destroyed", "pool_stopped", "destroyed"}
      /\ (pool = "free" => local = << >>)
  BY DEF IInv, TypeOK, MachineOK, QueuesOK
<1>1. ASSUME NEW c \in Clients, Start(c) PROVE IInv'
  <2>1. event_start(c) /\ UNCHANGED <<do_work_at_start, pool, handling, client, life>>
    BY <1>1 DEF Start
  <2>2. (InFlight' <=> InFlight) /\ (TimeoutInHand' <=> TimeoutInHand)
    BY <2>1 DEF InFlight, TimeoutInHand
  <2>3. /\ MachineOK' /\ OneWorkOutstanding' /\ IdleWakes' /\ PromptNotify'
        /\ local' = local
    BY <1>a, <2>1, <2>2, EventStart
  <2> QED BY <1>b, <1>c, <2>1, <2>3 DEF PoolOK
<1>2. ASSUME NEW c \in Clients, Notify(c) PROVE IInv'
  <2>1. event_do_work(c, TRUE) /\ UNCHANGED <<do_work_at_start, pool, handling, client, life>>
    BY <1>2 DEF Notify
  <2>2. InFlight' <=> InFlight
    BY <2>1 DEF InFlight
  <2>3. /\ MachineOK' /\ OneWorkOutstanding' /\ IdleWakes' /\ PromptNotify'
        /\ local' = local
    BY <1>a, <2>1, <2>2, EventDoWork
  <2> QED BY <1>b, <1>c, <2>1, <2>3 DEF PoolOK
<1>3. ASSUME NEW c \in Clients, Stop(c) \/ Destroy(c) PROVE IInv'
  <2>1. /\ event_stop(c) /\ UNCHANGED <<do_work_at_start, pool, handling>>
        /\ client' = [client EXCEPT ![c] = "post"]
        /\ life' \in {life, "closing"}
    BY <1>3 DEF Stop, Destroy
  <2>2. (InFlight' <=> InFlight) /\ (TimeoutInHand' <=> TimeoutInHand)
    BY <2>1 DEF InFlight, TimeoutInHand
  <2>3. /\ MachineOK' /\ OneWorkOutstanding' /\ IdleWakes' /\ PromptNotify'
        /\ local' = local
    BY <1>a, <2>1, <2>2, EventStop
  <2> QED BY <1>b, <1>c, <2>1, <2>3 DEF PoolOK
<1>4. ASSUME NEW c \in Clients, StopPost(c) PROVE IInv'
  <2>1. /\ Post(c, <<Promise(c)>>) /\ client' = [client EXCEPT ![c] = "wait"]
        /\ UNCHANGED <<do_work_at_start, machine, work_timer_, pool, handling, life, history>>
    BY <1>4 DEF StopPost
  <2>2. (InFlight' <=> InFlight) /\ (TimeoutInHand' <=> TimeoutInHand)
    BY <2>1 DEF InFlight, TimeoutInHand
  <2>3. /\ MachineOK' /\ OneWorkOutstanding' /\ IdleWakes' /\ PromptNotify'
        /\ local' = local
    BY <1>a, <2>1, <2>2, PromisePosted
  <2> QED BY <1>b, <1>c, <2>1, <2>3 DEF PoolOK
<1>5. ASSUME NEW c \in Clients, StopReturn(c) PROVE IInv'
  <2>1. /\ UNCHANGED <<do_work_at_start, machine, scheduler, pool, handling, history>>
        /\ client' = [client EXCEPT ![c] = "ready"]
        /\ life' \in {life, "sm_destroyed"}
    BY <1>5 DEF StopReturn
  <2>2. owed' = owed /\ restarted' = restarted
    BY <2>1 DEF history
  <2> QED BY <1>c, <2>1, <2>2, QuietStep DEF MachineOK
<1>6. ASSUME StopPool \/ JoinPool PROVE IInv'
  <2>1. /\ UNCHANGED <<do_work_at_start, machine, scheduler, pool, handling, client, history>>
        /\ life' \in {"pool_stopped", "destroyed"}
    BY <1>6 DEF StopPool, JoinPool
  <2>2. owed' = owed /\ restarted' = restarted
    BY <2>1 DEF history
  <2> QED BY <1>c, <2>1, <2>2, QuietStep DEF MachineOK
<1>7. ASSUME TakeWork PROVE IInv'
  <2>1. /\ Take("work") /\ pool' = "work" /\ handling' = "work" /\ owed' = FALSE
        /\ UNCHANGED <<do_work_at_start, machine, work_timer_, local, client, life, restarted>>
    BY <1>7 DEF TakeWork
  <2>2. /\ QueuesOK /\ queue' \in Seq(Handler) /\ AtMostOneWork(queue')
        /\ ~Has(queue', "work") /\ ~Has(local', "work") /\ Pending
        /\ (Has(queue, "timeout") => Has(queue', "timeout"))
    BY <2>1, TakeFacts DEF Pending
  <2>3. InFlight' /\ ~Pending' /\ ~TimeoutInHand
    BY <2>1, <2>2 DEF InFlight, Pending, TimeoutInHand, Take
  <2>4. MachineOK'
    BY <1>c, <2>1, <2>2 DEF MachineOK, QueuesOK, machine
  <2>5. OneWorkOutstanding' /\ IdleWakes' /\ PromptNotify'
    BY <1>c, <2>1, <2>2, <2>3 DEF OneWorkOutstanding, IdleWakes, PromptNotify, machine
  <2> QED BY <1>b, <1>c, <2>1, <2>4, <2>5 DEF PoolOK
<1>8. ASSUME TakeTimeout PROVE IInv'
  <2>1. /\ Take("timeout") /\ pool' = "event" /\ handling' = "timeout"
        /\ UNCHANGED <<do_work_at_start, machine, work_timer_, local, client, life, history>>
    BY <1>8 DEF TakeTimeout
  <2>2. /\ QueuesOK /\ queue' \in Seq(Handler) /\ AtMostOneWork(queue')
        /\ (Has(queue, "work") <=> Has(queue', "work")) /\ handling = "none"
    BY <2>1, TakeFacts
  <2>3. ~InFlight /\ ~InFlight' /\ (Pending' <=> Pending) /\ TimeoutInHand'
    BY <2>1, <2>2 DEF InFlight, Pending, TimeoutInHand
  <2>4. MachineOK'
    BY <1>c, <2>1, <2>2 DEF MachineOK, QueuesOK, machine, history
  <2>5. OneWorkOutstanding' /\ IdleWakes' /\ PromptNotify'
    BY <1>c, <2>1, <2>2, <2>3 DEF OneWorkOutstanding, IdleWakes, PromptNotify, machine, history
  <2> QED BY <1>b, <1>c, <2>1, <2>4, <2>5 DEF PoolOK
<1>9. ASSUME TakeAborted \/ TakePromise PROVE IInv'
  <2>1. PICK kind \in {"aborted", "promise"} : Take(kind)
    BY <1>9 DEF TakeAborted, TakePromise
  <2>2. UNCHANGED <<do_work_at_start, machine, work_timer_, local, pool, handling, life, history>>
    BY <1>9 DEF TakeAborted, TakePromise
  <2>3. client' \in [Clients -> {"ready", "post", "wait", "done"}]
    BY <1>9, <1>c DEF TakeAborted, TakePromise
  <2>4. /\ QueuesOK /\ queue' \in Seq(Handler) /\ AtMostOneWork(queue')
        /\ \A k : Has(queue, k) <=> k = kind \/ Has(queue', k)
    BY <2>1, TakeFacts
  <2>5. /\ Has(queue, "work") <=> Has(queue', "work")
        /\ Has(queue, "timeout") <=> Has(queue', "timeout")
    BY <2>4
  <2>6. /\ (InFlight' <=> InFlight) /\ (Pending' <=> Pending)
        /\ (TimeoutInHand' <=> TimeoutInHand)
    BY <2>2, <2>5 DEF InFlight, Pending, TimeoutInHand
  <2>7. MachineOK'
    BY <1>c, <2>2, <2>4 DEF MachineOK, QueuesOK, machine, history
  <2>8. OneWorkOutstanding' /\ IdleWakes' /\ PromptNotify'
    BY <1>c, <2>2, <2>4, <2>5, <2>6
       DEF OneWorkOutstanding, IdleWakes, PromptNotify, machine, history
  <2> QED BY <1>b, <1>c, <2>2, <2>3, <2>7, <2>8 DEF PoolOK
<1>10. ASSUME FnStart PROVE IInv'
  <2>1. /\ event_start(PoolThread) /\ pool = "work"
        /\ UNCHANGED <<do_work_at_start, pool, handling, client, life>>
    BY <1>10 DEF FnStart
  <2>2. (InFlight' <=> InFlight) /\ (TimeoutInHand' <=> TimeoutInHand)
    BY <2>1 DEF InFlight, TimeoutInHand
  <2>3. MachineOK' /\ OneWorkOutstanding' /\ IdleWakes' /\ PromptNotify'
    BY <2>1, <2>2, EventStart
  <2> QED BY <1>b, <1>c, <2>1, <2>3 DEF PoolOK
<1>11. ASSUME FnNotify PROVE IInv'
  <2>1. /\ event_do_work(PoolThread, TRUE) /\ pool = "work"
        /\ UNCHANGED <<do_work_at_start, pool, handling, client, life>>
    BY <1>11 DEF FnNotify
  <2>2. InFlight' <=> InFlight
    BY <2>1 DEF InFlight
  <2>3. MachineOK' /\ OneWorkOutstanding' /\ IdleWakes' /\ PromptNotify'
    BY <2>1, <2>2, EventDoWork
  <2> QED BY <1>b, <1>c, <2>1, <2>3 DEF PoolOK
<1>12. ASSUME FnStop PROVE IInv'
  <2>1. /\ event_stop(PoolThread) /\ pool = "work" /\ pool' = "post"
        /\ UNCHANGED <<do_work_at_start, handling, client, life>>
    BY <1>12 DEF FnStop
  <2>2. (InFlight' <=> InFlight) /\ (TimeoutInHand' <=> TimeoutInHand)
    BY <2>1 DEF InFlight, TimeoutInHand
  <2>3. MachineOK' /\ OneWorkOutstanding' /\ IdleWakes' /\ PromptNotify'
    BY <2>1, <2>2, EventStop
  <2> QED BY <1>b, <1>c, <2>1, <2>3 DEF PoolOK
<1>13. ASSUME FnStopPost PROVE IInv'
  <2>1. /\ Post(PoolThread, <<Promise(PoolThread)>>) /\ pool = "post" /\ pool' = "blocked"
        /\ UNCHANGED <<do_work_at_start, machine, work_timer_, handling, client, life, history>>
    BY <1>13 DEF FnStopPost
  <2>2. (InFlight' <=> InFlight) /\ (TimeoutInHand' <=> TimeoutInHand)
    BY <2>1 DEF InFlight, TimeoutInHand
  <2>3. MachineOK' /\ OneWorkOutstanding' /\ IdleWakes' /\ PromptNotify'
    BY <2>1, <2>2, PromisePosted
  <2> QED BY <1>b, <1>c, <2>1, <2>3 DEF PoolOK
<1>14. ASSUME FnReturn PROVE IInv'
  <2>1. /\ pool = "work" /\ pool' = "event"
        /\ UNCHANGED <<do_work_at_start, machine, scheduler, handling, client, life, history>>
    BY <1>14 DEF FnReturn
  <2>2. /\ handling = "work" /\ (InFlight' <=> InFlight) /\ (Pending' <=> Pending)
        /\ (TimeoutInHand' <=> TimeoutInHand)
    BY <1>c, <2>1 DEF PoolOK, InFlight, Pending, TimeoutInHand, scheduler
  <2>3. MachineOK' /\ OneWorkOutstanding' /\ IdleWakes' /\ PromptNotify'
    BY <1>c, <2>1, <2>2 DEF MachineOK, QueuesOK, OneWorkOutstanding, IdleWakes, PromptNotify,
                            machine, scheduler, history
  <2> QED BY <1>b, <1>c, <2>1, <2>2, <2>3 DEF PoolOK
<1>15. ASSUME HandlerEvent PROVE IInv'
  <2>1. /\ pool = "event" /\ pool' = "return"
        /\ UNCHANGED <<do_work_at_start, handling, client, life>>
    BY <1>15 DEF HandlerEvent
  <2>2. ~InFlight'
    BY <2>1 DEF InFlight
  <2>3. CASE handling = "work"
    <3>1. InFlight /\ event_work_done(PoolThread)
      BY <1>15, <2>1, <2>3 DEF InFlight, HandlerEvent
    <3>2. MachineOK' /\ OneWorkOutstanding' /\ IdleWakes' /\ PromptNotify'
      BY <2>2, <3>1, EventWorkDone
    <3> QED BY <1>b, <1>c, <2>1, <3>2 DEF PoolOK
  <2>4. CASE handling # "work"
    <3>1. ~InFlight /\ event_do_work(PoolThread, FALSE)
      BY <1>15, <2>1, <2>4 DEF InFlight, HandlerEvent
    <3>2. MachineOK' /\ OneWorkOutstanding' /\ IdleWakes' /\ PromptNotify'
      BY <2>2, <3>1, EventDoWork
    <3> QED BY <1>b, <1>c, <2>1, <3>2 DEF PoolOK
  <2> QED BY <2>3, <2>4
<1>16. ASSUME HandlerReturn PROVE IInv'
  <2>1. /\ pool = "return" /\ pool' = "free" /\ handling' = "none"
        /\ queue' = queue \o local /\ local' = << >>
        /\ UNCHANGED <<do_work_at_start, machine, work_timer_, client, life, history>>
    BY <1>16 DEF HandlerReturn
  <2>2. /\ queue' \in Seq(Handler) /\ local' \in Seq(Handler)
        /\ ~Has(local', "work") /\ AtMostOneWork(local')
    BY <1>c, <2>1, HasConcat, PostedHandlers, NoWork DEF MachineOK, QueuesOK
  <2>3. \A k : Has(queue', k) <=> Has(queue, k) \/ Has(local, k)
    BY <1>c, <2>1, HasConcat DEF MachineOK, QueuesOK
  <2>4. AtMostOneWork(queue')
    BY <1>c, <2>1, HasConcat DEF MachineOK, QueuesOK, OneWorkOutstanding
  <2>5. (Pending' <=> Pending) /\ (Has(queue, "timeout") => Has(queue', "timeout"))
    BY <2>2, <2>3 DEF Pending
  <2>6. ~InFlight /\ ~InFlight' /\ ~TimeoutInHand
    BY <2>1 DEF InFlight, TimeoutInHand
  <2>7. MachineOK' /\ OneWorkOutstanding' /\ IdleWakes' /\ PromptNotify'
    BY <1>c, <2>1, <2>2, <2>4, <2>5, <2>6
       DEF MachineOK, QueuesOK, OneWorkOutstanding, IdleWakes, PromptNotify, machine, history
  <2> QED BY <1>b, <1>c, <2>1, <2>7 DEF PoolOK
<1>17. ASSUME TimerExpires PROVE IInv'
  <2>1. /\ work_timer_ = "armed" /\ work_timer_' = "off" /\ queue' = Append(queue, Timeout)
        /\ UNCHANGED <<do_work_at_start, machine, local, pool, handling, client, life, history>>
    BY <1>17 DEF TimerExpires
  <2>2. <<Timeout>> \in Seq(Handler) /\ ~Has(<<Timeout>>, "work") /\ Has(<<Timeout>>, "timeout")
    BY DEF Timeout, Handler, Has
  <2>3. queue' = queue \o <<Timeout>>
    BY <1>c, <2>1 DEF MachineOK, QueuesOK
  <2>4. AtMostOneWork(<<Timeout>>)
    BY <2>2, NoWork
  <2>5. /\ queue' \in Seq(Handler) /\ Has(queue', "timeout")
        /\ (Has(queue', "work") <=> Has(queue, "work")) /\ AtMostOneWork(queue')
    BY <1>c, <2>2, <2>3, <2>4, HasConcat DEF MachineOK, QueuesOK, OneWorkOutstanding
  <2>6. (InFlight' <=> InFlight) /\ (Pending' <=> Pending)
    BY <2>1, <2>5 DEF InFlight, Pending
  <2>7. MachineOK' /\ OneWorkOutstanding' /\ IdleWakes' /\ PromptNotify'
    BY <1>c, <2>1, <2>5, <2>6
       DEF MachineOK, QueuesOK, OneWorkOutstanding, IdleWakes, PromptNotify, machine, history
  <2> QED BY <1>b, <1>c, <2>1, <2>7 DEF PoolOK
<1>18. ASSUME UNCHANGED vars PROVE IInv'
  <2>1. /\ UNCHANGED <<do_work_at_start, machine, scheduler, pool, handling, client, life>>
        /\ owed' = owed /\ restarted' = restarted
    BY <1>18 DEF vars, history
  <2> QED BY <1>c, <2>1, QuietStep DEF MachineOK
<1> QED BY <1>1, <1>2, <1>3, <1>4, <1>5, <1>6, <1>7, <1>8, <1>9, <1>10, <1>11, <1>12, <1>13,
           <1>14, <1>15, <1>16, <1>17, <1>18 DEF Next, StopStep, PoolStep, Gone

\* The inductive invariant of the scheduler's worker.
THEOREM Invariance == Spec => []IInv
BY IInvInit, IInvNext, PTL DEF Spec

\* Types, in particular that the private queue is empty between two handlers.
THEOREM TypeCorrect == Spec => []TypeOK
<1>1. IInv => TypeOK
  BY DEF IInv
<1> QED BY <1>1, Invariance, PTL

\* The machine believes that a run is outstanding exactly when one is: posted
\* or in progress, never both, never two.
THEOREM OneWork == Spec => []OneWorkOutstanding
<1>1. IInv => OneWorkOutstanding
  BY DEF IInv
<1> QED BY <1>1, Invariance, PTL

\* A machine that waits has a timer armed or its expiry on the way.
THEOREM WakesUp == Spec => []IdleWakes
<1>1. IInv => IdleWakes
  BY DEF IInv
<1> QED BY <1>1, Invariance, PTL

\* No accepted notify() is lost.
THEOREM NotifyKept == Spec => []PromptNotify
<1>1. IInv => PromptNotify
  BY DEF IInv
<1> QED BY <1>1, Invariance, PTL

-----------------------------------------------------------------------------
(* SchedulerLoopWorker implements the safety part of PeriodicWorker.  What   *)
(* the job must do in the end (Refines) is model-checked only.               *)

\* A stop is pending only while there is work.
FlagOK == stop_after_work_done_ => state = "working"

\* The flag set by a stop in "working" is reset on every way out of it.
LEMMA FlagOKInvariant == Spec => []FlagOK
<1>1. Init => FlagOK
  BY DEF Init, FlagOK
<1>2. FlagOK /\ [Next]_vars => FlagOK'
  <2> SUFFICES ASSUME FlagOK, [Next]_vars PROVE FlagOK'
    OBVIOUS
  <2> USE DEF FlagOK, machine, EnterStopped, EnterIdle, EnterWorking
  <2>1. ASSUME NEW me, event_start(me) PROVE FlagOK'
    BY <2>1 DEF event_start
  <2>2. ASSUME NEW me, event_stop(me) PROVE FlagOK'
    BY <2>2 DEF event_stop
  <2>3. ASSUME NEW me, NEW asked, event_do_work(me, asked) PROVE FlagOK'
    BY <2>3 DEF event_do_work
  <2>4. ASSUME event_work_done(PoolThread) PROVE FlagOK'
    BY <2>4 DEF event_work_done
  <2>5. ASSUME NEW c \in Clients, Start(c) \/ Notify(c) \/ Stop(c) \/ Destroy(c) PROVE FlagOK'
    BY <2>1, <2>2, <2>3, <2>5 DEF Start, Notify, Stop, Destroy
  <2>6. ASSUME FnStart \/ FnNotify \/ FnStop \/ HandlerEvent PROVE FlagOK'
    BY <2>1, <2>2, <2>3, <2>4, <2>6 DEF FnStart, FnNotify, FnStop, HandlerEvent
  <2>7. ASSUME \/ \E c \in Clients : StopStep(c)
               \/ StopPool \/ JoinPool \/ TimerExpires \/ Gone \/ UNCHANGED vars
               \/ TakeWork \/ TakeTimeout \/ TakeAborted \/ TakePromise
               \/ FnStopPost \/ FnReturn \/ HandlerReturn
        PROVE  FlagOK'
    BY <2>7 DEF StopStep, StopPost, StopReturn, StopPool, JoinPool, TimerExpires, Gone, vars,
                TakeWork, TakeTimeout, TakeAborted, TakePromise, FnStopPost, FnReturn, HandlerReturn
  <2> QED BY <2>5, <2>6, <2>7 DEF Next, PoolStep
<1> QED BY <1>1, <1>2, PTL DEF Spec

-----------------------------------------------------------------------------
(* The mapping, with "running" read off the pool's thread. *)

Phase == IF state = "stopped" THEN "stopped"
         ELSE IF state = "idle" THEN "waiting"
         ELSE IF InFlight THEN "running" ELSE "due"

Again == state = "working" /\ work_immediately_

\* One step of the worker, seen as a step of the job.
JobStep ==
  \/ /\ Phase = "stopped" /\ Phase' \in {"waiting", "due"}
     /\ (Again' <=> Again) /\ (stop_after_work_done_' <=> stop_after_work_done_)
  \/ /\ Phase = "waiting" /\ Phase' \in {"stopped", "due"}
     /\ (Again' <=> Again) /\ (stop_after_work_done_' <=> stop_after_work_done_)
  \/ /\ Phase \in {"due", "running"} /\ stop_after_work_done_'
     /\ Phase' = Phase /\ (Again' <=> Again)
  \/ /\ Phase \in {"due", "running"} /\ Again'
     /\ Phase' = Phase /\ (stop_after_work_done_' <=> stop_after_work_done_)
  \/ /\ Phase = "due" /\ Phase' = "running"
     /\ (Again' <=> Again) /\ (stop_after_work_done_' <=> stop_after_work_done_)
  \/ /\ Phase = "running" /\ ~Again' /\ ~stop_after_work_done_'
     /\ Phase' = IF stop_after_work_done_ THEN "stopped"
                 ELSE IF Again THEN "due" ELSE "waiting"

NoJobStep ==
  /\ Phase' = Phase
  /\ Again' <=> Again
  /\ stop_after_work_done_' <=> stop_after_work_done_

\* Every step of the worker is a step of the job or none.
LEMMA WorkerStepIsJobStep ==
  IInv /\ FlagOK /\ [Next]_vars => JobStep \/ NoJobStep
<1> SUFFICES ASSUME IInv, FlagOK, [Next]_vars PROVE JobStep \/ NoJobStep
  OBVIOUS
<1> USE DEF machine
<1>a. /\ state \in {"stopped", "idle", "working"}
      /\ (InFlight => state = "working")
      /\ (stop_after_work_done_ => state = "working")
      /\ stop_after_work_done_ \in BOOLEAN /\ work_immediately_ \in BOOLEAN
      /\ PoolOK
  BY DEF IInv, TypeOK, OneWorkOutstanding, FlagOK
<1>1. ASSUME NEW me, event_start(me), InFlight' <=> InFlight PROVE JobStep \/ NoJobStep
  BY <1>a, <1>1 DEF event_start, EnterIdle, EnterWorking, JobStep, NoJobStep, Phase, Again
<1>2. ASSUME NEW me, event_stop(me), InFlight' <=> InFlight PROVE JobStep \/ NoJobStep
  BY <1>a, <1>2 DEF event_stop, EnterStopped, JobStep, NoJobStep, Phase, Again
<1>3. ASSUME NEW me, NEW asked, event_do_work(me, asked), InFlight' <=> InFlight
      PROVE  JobStep \/ NoJobStep
  BY <1>a, <1>3 DEF event_do_work, EnterWorking, JobStep, NoJobStep, Phase, Again
<1>4. ASSUME event_work_done(PoolThread), InFlight, ~InFlight' PROVE JobStep \/ NoJobStep
  BY <1>a, <1>4 DEF event_work_done, EnterStopped, EnterIdle, EnterWorking, JobStep, Phase, Again
<1>5. ASSUME NEW c \in Clients, Start(c) \/ Notify(c) \/ Stop(c) \/ Destroy(c)
      PROVE  JobStep \/ NoJobStep
  <2>1. InFlight' <=> InFlight
    BY <1>5 DEF Start, Notify, Stop, Destroy, InFlight
  <2> QED BY <1>1, <1>2, <1>3, <1>5, <2>1 DEF Start, Notify, Stop, Destroy
<1>6. ASSUME FnStart \/ FnNotify \/ FnStop PROVE JobStep \/ NoJobStep
  <2>1. InFlight' <=> InFlight
    BY <1>6 DEF FnStart, FnNotify, FnStop, InFlight
  <2> QED BY <1>1, <1>2, <1>3, <1>6, <2>1 DEF FnStart, FnNotify, FnStop
<1>7. ASSUME HandlerEvent PROVE JobStep \/ NoJobStep
  <2>1. ~InFlight'
    BY <1>7 DEF HandlerEvent, InFlight
  <2>2. CASE handling = "work"
    BY <1>4, <1>7, <2>1, <2>2 DEF HandlerEvent, InFlight
  <2>3. CASE handling # "work"
    BY <1>3, <1>7, <2>1, <2>3 DEF HandlerEvent, InFlight
  <2> QED BY <2>2, <2>3
<1>8. ASSUME TakeWork PROVE JobStep \/ NoJobStep
  <2>1. /\ state = "working" /\ ~InFlight /\ InFlight'
        /\ state' = state /\ work_immediately_' = work_immediately_
        /\ stop_after_work_done_' = stop_after_work_done_
    <3>1. Has(queue, "work") /\ handling = "none"
      BY <1>8, TakeFacts DEF TakeWork
    <3>2. state = "working" /\ ~InFlight
      BY <3>1 DEF IInv, OneWorkOutstanding, Pending, InFlight
    <3> QED BY <1>8, <3>2 DEF TakeWork, InFlight
  <2> QED BY <2>1 DEF JobStep, Phase, Again
<1>9. ASSUME \/ \E c \in Clients : StopStep(c)
             \/ StopPool \/ JoinPool \/ TimerExpires \/ Gone \/ UNCHANGED vars
             \/ TakeTimeout \/ TakeAborted \/ TakePromise
             \/ FnStopPost \/ FnReturn \/ HandlerReturn
      PROVE  JobStep \/ NoJobStep
  <2>1. /\ state' = state /\ work_immediately_' = work_immediately_
        /\ stop_after_work_done_' = stop_after_work_done_
    BY <1>9 DEF StopStep, StopPost, StopReturn, StopPool, JoinPool, TimerExpires, Gone, vars,
                TakeTimeout, TakeAborted, TakePromise, FnStopPost, FnReturn, HandlerReturn
  <2>2. InFlight' <=> InFlight
    <3>1. CASE TakeTimeout
      BY <1>a, <3>1 DEF TakeTimeout, Take, InFlight, PoolOK
    <3>2. CASE ~TakeTimeout
      BY <1>9, <1>a, <3>2
         DEF StopStep, StopPost, StopReturn, StopPool, JoinPool, TimerExpires, Gone, vars,
             TakeAborted, TakePromise, FnStopPost, FnReturn, HandlerReturn, InFlight
    <3> QED BY <3>1, <3>2
  <2> QED BY <2>1, <2>2 DEF NoJobStep, Phase, Again
<1> QED BY <1>5, <1>6, <1>7, <1>8, <1>9 DEF Next, PoolStep

\* Under the invariant the two ways to read the phase agree.
LEMMA PhaseAgrees ==
  IInv => Phase = IF state = "stopped" THEN "stopped"
                  ELSE IF state = "idle" THEN "waiting"
                  ELSE IF Pending THEN "due" ELSE "running"
BY DEF IInv, TypeOK, OneWorkOutstanding, Phase

\* The worker starts as the job does, and every step of it is a step of the
\* job or leaves the job as it is.
THEOREM Implements ==
  Spec => Abstract!Init /\ [][Abstract!Next]_(Abstract!vars)
<1>1. Init => Abstract!Init
  BY DEF Init, Abstract!Init
<1>2. IInv /\ IInv' /\ FlagOK /\ [Next]_vars => [Abstract!Next]_(Abstract!vars)
  <2> SUFFICES ASSUME IInv, IInv', FlagOK, [Next]_vars
               PROVE  [Abstract!Next]_(Abstract!vars)
    OBVIOUS
  <2>1. /\ Phase = IF state = "stopped" THEN "stopped"
                   ELSE IF state = "idle" THEN "waiting"
                   ELSE IF Pending THEN "due" ELSE "running"
        /\ Phase' = IF state' = "stopped" THEN "stopped"
                    ELSE IF state' = "idle" THEN "waiting"
                    ELSE IF Pending' THEN "due" ELSE "running"
    BY PhaseAgrees DEF IInv, TypeOK, OneWorkOutstanding, Phase
  <2>2. CASE JobStep
    BY <2>1, <2>2
       DEF JobStep, Again, Abstract!Next, Abstract!Start, Abstract!StopNow,
           Abstract!StopLater, Abstract!RunAgain, Abstract!Interval, Abstract!Begin,
           Abstract!Finish, Abstract!Busy, Abstract!vars, IInv, TypeOK
  <2>3. CASE NoJobStep
    BY <2>1, <2>3 DEF NoJobStep, Again, Abstract!vars, IInv, TypeOK
  <2> QED BY <2>2, <2>3, WorkerStepIsJobStep
<1> QED BY <1>1, <1>2, Invariance, FlagOKInvariant, PTL DEF Spec
=============================================================================
