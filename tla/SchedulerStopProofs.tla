------------------------ MODULE SchedulerStopProofs ------------------------
(***************************************************************************)
(* Proofs about stop() of SchedulerLoopWorker: what holds when it returns, *)
(* and what the destructor, which begins with it, leaves behind.           *)
(***************************************************************************)
EXTENDS SchedulerLoopWorkerProofs

-----------------------------------------------------------------------------
(* Promises in queues. *)

\* A queue with handlers of the state machine added has no new promise.
LEMMA NoNewPromise ==
  ASSUME NEW q \in Seq(Handler), NEW hs \in Seq({Work, Aborted})
  PROVE  /\ hs \in Seq(Handler) /\ q \o hs \in Seq(Handler)
         /\ Len(q) \in Nat /\ Len(q \o hs) \in Nat /\ Len(q) <= Len(q \o hs)
         /\ \A i \in 1..Len(q) : (q \o hs)[i] = q[i]
         /\ \A i \in 1..Len(q \o hs) :
              (q \o hs)[i].kind = "promise" => i \in 1..Len(q) /\ (q \o hs)[i] = q[i]
         /\ ~Has(hs, "work") => \A i \in 1..Len(q \o hs) :
              (q \o hs)[i].kind = "work" => i \in 1..Len(q) /\ (q \o hs)[i] = q[i]
<1> DEFINE s == q \o hs
<1>1. Work \in Handler /\ Aborted \in Handler
  BY DEF Handler, Work, Aborted
<1>2. hs \in Seq(Handler)
  BY <1>1, SeqMonotonic
<1>3. /\ s \in Seq(Handler)
      /\ Len(s) = Len(q) + Len(hs)
      /\ \A i \in 1..Len(q) + Len(hs) : s[i] = IF i <= Len(q) THEN q[i] ELSE hs[i - Len(q)]
  BY <1>2, ConcatProperties
<1>4. Len(q) \in Nat /\ Len(hs) \in Nat
  BY <1>2, LenProperties
<1> HIDE DEF s
<1>5. \A i \in 1..Len(q) : i \in 1..Len(s) /\ s[i] = q[i]
  BY <1>3, <1>4
<1>6. ASSUME NEW i \in 1..Len(s), ~(i \in 1..Len(q))
      PROVE  i - Len(q) \in 1..Len(hs) /\ s[i] = hs[i - Len(q)] /\ s[i] \in {Work, Aborted}
  <2>1. i - Len(q) \in 1..Len(hs) /\ ~(i <= Len(q))
    BY <1>6, <1>3, <1>4
  <2>2. s[i] = hs[i - Len(q)]
    BY <2>1, <1>3
  <2>3. hs[i - Len(q)] \in {Work, Aborted}
    BY <2>1, ElementOfSeq
  <2> QED BY <2>1, <2>2, <2>3
<1>7. ASSUME NEW i \in 1..Len(s), s[i].kind = "promise"
      PROVE  i \in 1..Len(q) /\ s[i] = q[i]
  BY <1>5, <1>6, <1>7 DEF Work, Aborted
<1>8. ASSUME ~Has(hs, "work"), NEW i \in 1..Len(s), s[i].kind = "work"
      PROVE  i \in 1..Len(q) /\ s[i] = q[i]
  <2>1. CASE ~(i \in 1..Len(q))
    BY <1>6, <1>8, <2>1 DEF Has
  <2> QED BY <2>1, <1>5
<1>9. Len(q) <= Len(s)
  BY <1>3, <1>4
<1>10. Len(s) \in Nat
  BY <1>3, <1>4
<1> QED BY <1>2, <1>3, <1>4, <1>5, <1>7, <1>8, <1>9, <1>10 DEF s

\* A queue with one handler added.
LEMMA OneMore ==
  ASSUME NEW q \in Seq(Handler), NEW h \in Handler
  PROVE  /\ Len(q \o <<h>>) = Len(q) + 1 /\ Len(q) \in Nat
         /\ (q \o <<h>>)[Len(q) + 1] = h
         /\ \A i \in 1..Len(q) : (q \o <<h>>)[i] = q[i]
<1>1. /\ Len(q \o <<h>>) = Len(q) + 1
      /\ \A i \in 1..Len(q) + 1 : (q \o <<h>>)[i] = IF i <= Len(q) THEN q[i] ELSE <<h>>[i - Len(q)]
  BY ConcatProperties, <<h>> \in Seq(Handler), Len(<<h>>) = 1
<1>2. Len(q) \in Nat
  BY LenProperties
<1>3. Len(q) + 1 \in 1..Len(q) + 1 /\ ~(Len(q) + 1 <= Len(q)) /\ Len(q) + 1 - Len(q) = 1
  BY <1>2
<1>4. (q \o <<h>>)[Len(q) + 1] = <<h>>[1]
  BY <1>1, <1>3
<1>5. \A i \in 1..Len(q) : i \in 1..Len(q) + 1 /\ i <= Len(q)
  BY <1>2
<1> QED BY <1>1, <1>2, <1>4, <1>5

-----------------------------------------------------------------------------
(* What an event does, as far as stop() is concerned. *)

\* Nothing but the end of a run, at most, is ahead of the machine.
Held == state = "stopped" \/ (state = "working" /\ stop_after_work_done_)

\* An event of thread me posts hs.  It overtakes the stops in progress if it
\* makes the machine go on, and it posts work only where no stop is pending.
Effect(me, hs) ==
  /\ hs \in Seq({Work, Aborted})
  /\ Post(me, hs)
  /\ restarted' \subseteq Clients
  /\ \A c \in Clients : c \notin restarted' => c \notin restarted \/ c = me
  /\ state = "stopped" =>
       state' = "stopped" \/ \A c \in Clients : client[c] # "ready" => c \in restarted'
  /\ Held => Held' \/ \A c \in Clients : client[c] # "ready" => c \in restarted'
  /\ Has(hs, "work") =>
       ~Held \/ \A c \in Clients : client[c] # "ready" => c \in restarted'

\* The sequences that the state machine posts, as values of Effect.
LEMMA EffectPosts ==
  /\ << >> \in Seq({Work, Aborted}) /\ <<Work>> \in Seq({Work, Aborted})
  /\ Cancelled \in Seq({Work, Aborted}) /\ Cancelled \o <<Work>> \in Seq({Work, Aborted})
  /\ ~Has(<< >>, "work") /\ ~Has(Cancelled, "work")
<1>1. << >> \in Seq({Work, Aborted}) /\ <<Work>> \in Seq({Work, Aborted}) /\ <<Aborted>> \in Seq({Work, Aborted})
  OBVIOUS
<1>2. Cancelled \in Seq({Work, Aborted})
  BY <1>1 DEF Cancelled
<1>3. Cancelled \o <<Work>> \in Seq({Work, Aborted})
  BY <1>1, <1>2, ConcatProperties
<1> QED BY <1>1, <1>2, <1>3, PostedHandlers

\* An event that posts nothing posts the empty sequence.
LEMMA PostNothing ==
  ASSUME IInv, NEW me, UNCHANGED <<queue, local>>
  PROVE  Post(me, << >>)
<1>1. queue \o << >> = queue /\ local \o << >> = local
  BY ConcatEmptySeq DEF IInv, TypeOK
<1> QED BY <1>1 DEF Post

\* event::start has the effect: when it does something, it counts as a start
\* after every stop() that has not returned.
LEMMA StartEffect ==
  ASSUME IInv, NEW me \in Clients \cup {PoolThread}, event_start(me)
  PROVE  \E hs : Effect(me, hs)
<1>1. restarted \subseteq Clients
  BY DEF IInv, TypeOK
<1>2. CASE state # "stopped"
  <2>1. UNCHANGED <<machine, scheduler, history>>
    BY <1>2 DEF event_start
  <2>2. Effect(me, << >>)
    BY <1>1, <2>1, PostNothing, EffectPosts DEF Effect, Held, machine, scheduler, history
  <2> QED BY <2>2
<1>3. CASE state = "stopped"
  <2>1. restarted' = restarted \cup {c \in Clients : client[c] # "ready"}
    BY <1>3 DEF event_start
  <2>2. PICK hs \in {<<Work>>, Cancelled} : Post(me, hs)
    BY <1>3 DEF event_start, post_work, set_work_timer
  <2>3. Effect(me, hs)
    BY <1>1, <2>1, <2>2, EffectPosts DEF Effect, Held
  <2> QED BY <2>3
<1> QED BY <1>2, <1>3

\* event::stop has the effect, and from it on the machine is held.
LEMMA StopEffect ==
  ASSUME IInv, NEW me \in Clients \cup {PoolThread}, event_stop(me)
  PROVE  Held' /\ \E hs : Effect(me, hs)
<1>1. restarted \subseteq Clients /\ restarted' = restarted \ {me}
  BY DEF IInv, TypeOK, event_stop
<1>2. Held'
  BY DEF event_stop, Held, EnterStopped
<1>3. PICK hs \in {<< >>, Cancelled} : Post(me, hs)
  BY PostNothing DEF event_stop, scheduler, cancel_work_timer
<1>4. state = "stopped" => state' = "stopped"
  BY DEF event_stop, EnterStopped
<1>5. Effect(me, hs)
  BY <1>1, <1>2, <1>3, <1>4, EffectPosts DEF Effect
<1> QED BY <1>2, <1>5

\* event::do_work has the effect: it posts work only in "idle", which no held
\* machine is in.
LEMMA DoWorkEffect ==
  ASSUME IInv, NEW me \in Clients \cup {PoolThread}, NEW asked \in BOOLEAN,
         event_do_work(me, asked)
  PROVE  \E hs : Effect(me, hs)
<1>1. restarted \subseteq Clients /\ restarted' = restarted
  BY DEF IInv, TypeOK, event_do_work
<1>2. CASE state = "idle"
  <2>1. Post(me, Cancelled \o <<Work>>) /\ ~Held
    BY <1>2 DEF event_do_work, Held
  <2>2. Effect(me, Cancelled \o <<Work>>)
    BY <1>1, <1>2, <2>1, EffectPosts DEF Effect
  <2> QED BY <2>2
<1>3. CASE state # "idle"
  <2>1. UNCHANGED <<state, stop_after_work_done_, scheduler>>
    BY <1>3 DEF event_do_work, machine
  <2>2. Effect(me, << >>)
    BY <1>1, <2>1, PostNothing, EffectPosts DEF Effect, Held, scheduler
  <2> QED BY <2>2
<1> QED BY <1>2, <1>3

\* event::work_done has the effect: a held machine stops.
LEMMA WorkDoneEffect ==
  ASSUME IInv, event_work_done(PoolThread), state = "working"
  PROVE  \E hs : Effect(PoolThread, hs)
<1>1. restarted \subseteq Clients /\ restarted' = restarted
  BY DEF IInv, TypeOK, event_work_done
<1>2. CASE stop_after_work_done_
  <2>1. EnterStopped /\ UNCHANGED scheduler
    BY <1>2 DEF event_work_done
  <2>2. Effect(PoolThread, << >>)
    BY <1>1, <2>1, PostNothing, EffectPosts DEF Effect, Held, scheduler, EnterStopped
  <2> QED BY <2>2
<1>3. CASE ~stop_after_work_done_
  <2>1. PICK hs \in {<<Work>>, Cancelled} : Post(PoolThread, hs)
    BY <1>3 DEF event_work_done, post_work, set_work_timer
  <2>2. ~Held /\ state # "stopped"
    BY <1>3 DEF Held
  <2>3. Effect(PoolThread, hs)
    BY <1>1, <2>1, <2>2, EffectPosts DEF Effect
  <2> QED BY <2>3
<1> QED BY <1>2, <1>3

-----------------------------------------------------------------------------
(* The invariant of stop(). *)

\* A promise is queued once, for a client that waits for it.
PromiseOK ==
  \A c \in Clients :
    /\ \A i \in 1..Len(queue) : queue[i] = Promise(c) => client[c] = "wait"
    /\ \A i, j \in 1..Len(queue) : queue[i] = Promise(c) /\ queue[j] = Promise(c) => i = j
    /\ \A i \in 1..Len(local) : local[i] # Promise(c)

HoldOK == \A c \in Clients : client[c] # "ready" /\ c \notin restarted => Held

\* With one first-in first-out queue, no work is behind a promise that counts.
OrderOK ==
  /\ local = << >>
  /\ \A c \in Clients : c \notin restarted =>
       \A i, j \in 1..Len(queue) : queue[i] = Promise(c) /\ queue[j].kind = "work" => j < i
  /\ StopReturnsStopped

SInv == PromiseOK /\ HoldOK /\ (~LocalPost => OrderOK)

\* No stop() has been called at the start.
LEMMA SInvInit == Init => SInv
BY DEF Init, SInv, PromiseOK, HoldOK, OrderOK, StopReturnsStopped

\* An event keeps the invariant, also when it is the one that stop() begins with.
LEMMA EventKeeps ==
  ASSUME IInv, SInv, NEW me, NEW hs, Effect(me, hs),
         me \in Clients => client[me] = "ready",
         \A c \in Clients : client'[c] = client[c] \/ (c = me /\ client'[c] = "post" /\ Held')
  PROVE  SInv'
<1>1. /\ hs \in Seq({Work, Aborted}) /\ Post(me, hs)
      /\ queue \in Seq(Handler) /\ local \in Seq(Handler)
  BY DEF Effect, IInv, TypeOK
<1>2. \A c \in Clients : Promise(c).kind = "promise" /\ Promise(c).kind # "work"
  BY DEF Promise
<1>3. ASSUME NEW q \in Seq(Handler), NEW c \in Clients, NEW i \in 1..Len(q \o hs),
             (q \o hs)[i] = Promise(c)
      PROVE  i \in 1..Len(q) /\ q[i] = Promise(c)
  <2>1. \A k \in 1..Len(q \o hs) :
          (q \o hs)[k].kind = "promise" => k \in 1..Len(q) /\ (q \o hs)[k] = q[k]
    BY <1>1, NoNewPromise
  <2> QED BY <1>2, <1>3, <2>1
<1>4. ASSUME NEW c \in Clients, client[c] = "wait" PROVE client'[c] = "wait"
  BY <1>4
<1>5. PromiseOK'
  <2>1. CASE queue' = queue \o hs /\ local' = local
    <3> SUFFICES ASSUME NEW c \in Clients
                 PROVE  /\ \A i \in 1..Len(queue') : queue'[i] = Promise(c) => client'[c] = "wait"
                        /\ \A i, j \in 1..Len(queue') :
                             queue'[i] = Promise(c) /\ queue'[j] = Promise(c) => i = j
                        /\ \A i \in 1..Len(local') : local'[i] # Promise(c)
      BY DEF PromiseOK, Promise
    <3>1. \A i \in 1..Len(queue') : queue'[i] = Promise(c) => i \in 1..Len(queue) /\ queue[i] = Promise(c)
      BY <1>1, <1>3, <2>1
    <3> QED BY <1>4, <2>1, <3>1 DEF SInv, PromiseOK
  <2>2. CASE queue' = queue /\ local' = local \o hs
    <3> SUFFICES ASSUME NEW c \in Clients
                 PROVE  /\ \A i \in 1..Len(queue') : queue'[i] = Promise(c) => client'[c] = "wait"
                        /\ \A i, j \in 1..Len(queue') :
                             queue'[i] = Promise(c) /\ queue'[j] = Promise(c) => i = j
                        /\ \A i \in 1..Len(local') : local'[i] # Promise(c)
      BY DEF PromiseOK, Promise
    <3>1. \A i \in 1..Len(local') : local'[i] = Promise(c) => i \in 1..Len(local) /\ local[i] = Promise(c)
      BY <1>1, <1>3, <2>2
    <3> QED BY <1>4, <2>2, <3>1 DEF SInv, PromiseOK
  <2> QED BY <1>1, <2>1, <2>2 DEF Post
<1>6. HoldOK'
  <2> SUFFICES ASSUME NEW c \in Clients, client'[c] # "ready", c \notin restarted'
               PROVE  Held'
    BY DEF HoldOK
  <2>1. CASE client'[c] # client[c]
    BY <2>1
  <2>2. CASE client'[c] = client[c]
    <3>1. c # me /\ c \notin restarted
      BY <2>2 DEF Effect
    <3>2. Held
      BY <2>2, <3>1 DEF SInv, HoldOK
    <3> QED BY <2>2, <3>2 DEF Effect
  <2> QED BY <2>1, <2>2
<1>7. ASSUME ~LocalPost PROVE OrderOK'
  <2>1. queue' = queue \o hs /\ local' = local /\ OrderOK
    BY <1>1, <1>7 DEF Post, SInv
  <2>2. ASSUME NEW c \in Clients, c \notin restarted',
               NEW i \in 1..Len(queue'), NEW j \in 1..Len(queue'),
               queue'[i] = Promise(c), queue'[j].kind = "work"
        PROVE  j < i
    <3>1. i \in 1..Len(queue) /\ queue[i] = Promise(c)
      BY <1>1, <1>3, <2>1, <2>2
    <3>2. client[c] = "wait"
      BY <3>1 DEF SInv, PromiseOK
    <3>3. c # me /\ c \notin restarted
      BY <2>2, <3>2 DEF Effect
    <3>4. Held
      BY <3>2, <3>3 DEF SInv, HoldOK
    <3>5. ~Has(hs, "work")
      BY <2>2, <3>2, <3>4 DEF Effect
    <3>6. j \in 1..Len(queue) /\ queue[j].kind = "work"
      BY <1>1, <2>1, <2>2, <3>5, NoNewPromise
    <3> QED BY <2>1, <3>1, <3>3, <3>6 DEF OrderOK
  <2>3. ASSUME NEW c \in Clients, client'[c] = "done", c \notin restarted'
        PROVE  state' = "stopped"
    <3>1. client[c] = "done" /\ c # me /\ c \notin restarted
      BY <2>3 DEF Effect
    <3>2. state = "stopped"
      BY <2>1, <3>1 DEF OrderOK, StopReturnsStopped
    <3> QED BY <2>3, <3>1, <3>2 DEF Effect
  <2> QED BY <2>1, <2>2, <2>3 DEF OrderOK, StopReturnsStopped
<1> QED BY <1>5, <1>6, <1>7 DEF SInv

\* A step that leaves the machine and the queues alone, and gets no client
\* out of "wait", into "done" or from "ready" into stop().
LEMMA QuietKeeps ==
  ASSUME SInv, UNCHANGED <<state, stop_after_work_done_, queue, local, restarted>>,
         \A c \in Clients : client'[c] = client[c] \/ (client[c] = "done" /\ client'[c] = "ready")
  PROVE  SInv'
BY DEF SInv, PromiseOK, HoldOK, Held, OrderOK, StopReturnsStopped, Promise

\* What the pool's thread takes from the queue.
LEMMA TakeKeeps ==
  ASSUME IInv, SInv, NEW kind, Take(kind),
         UNCHANGED <<state, stop_after_work_done_, local, restarted>>,
         \A c \in Clients : \/ client'[c] = client[c]
                            \/ Head(queue) = Promise(c) /\ client'[c] = "done"
  PROVE  SInv'
<1>1. queue \in Seq(Handler) /\ queue # << >> /\ queue' = Tail(queue) /\ pool = "free"
  BY DEF Take, IInv, TypeOK
<1>2. /\ Len(queue) \in Nat /\ Len(queue) > 0 /\ Head(queue) = queue[1]
      /\ Len(queue') = Len(queue) - 1
      /\ \A i \in 1..Len(queue') : queue'[i] = queue[i + 1]
  BY <1>1, EmptySeq, HeadTailProperties
<1>3. \A i \in 1..Len(queue') : i + 1 \in 1..Len(queue) /\ i + 1 # 1
  BY <1>2
<1>4. 1 \in 1..Len(queue)
  BY <1>2
<1>5. ASSUME NEW c \in Clients, NEW i \in 1..Len(queue'), queue'[i] = Promise(c)
      PROVE  client[c] = "wait" /\ Head(queue) # Promise(c) /\ client'[c] = "wait"
  <2>1. queue[i + 1] = Promise(c) /\ i + 1 \in 1..Len(queue) /\ i + 1 # 1
    BY <1>2, <1>3, <1>5
  <2>2. client[c] = "wait" /\ Head(queue) # Promise(c)
    BY <1>2, <1>4, <2>1 DEF SInv, PromiseOK
  <2> QED BY <2>2
<1>6. PromiseOK'
  <2> SUFFICES ASSUME NEW c \in Clients
               PROVE  /\ \A i \in 1..Len(queue') : queue'[i] = Promise(c) => client'[c] = "wait"
                      /\ \A i, j \in 1..Len(queue') :
                           queue'[i] = Promise(c) /\ queue'[j] = Promise(c) => i = j
                      /\ \A i \in 1..Len(local') : local'[i] # Promise(c)
    BY DEF PromiseOK, Promise
  <2>1. ASSUME NEW i \in 1..Len(queue'), NEW j \in 1..Len(queue'),
               queue'[i] = Promise(c), queue'[j] = Promise(c)
        PROVE  i = j
    <3>1. i + 1 = j + 1
      BY <1>2, <1>3, <2>1 DEF SInv, PromiseOK
    <3> QED BY <3>1
  <2> QED BY <1>5, <2>1 DEF SInv, PromiseOK
<1>7. HoldOK'
  <2> SUFFICES ASSUME NEW c \in Clients, client'[c] # "ready", c \notin restarted
               PROVE  Held
    BY DEF HoldOK, Held
  <2>1. client[c] # "ready"
    BY <1>2, <1>4 DEF SInv, PromiseOK
  <2> QED BY <2>1 DEF SInv, HoldOK
<1>8. ASSUME ~LocalPost PROVE OrderOK'
  <2>1. OrderOK
    BY <1>8 DEF SInv
  <2>2. ASSUME NEW c \in Clients, c \notin restarted,
               NEW i \in 1..Len(queue'), NEW j \in 1..Len(queue'),
               queue'[i] = Promise(c), queue'[j].kind = "work"
        PROVE  j < i
    <3>1. j + 1 < i + 1
      BY <1>2, <1>3, <2>1, <2>2 DEF OrderOK
    <3> QED BY <3>1
  <2>3. ASSUME NEW c \in Clients, client'[c] = "done", c \notin restarted
        PROVE  state = "stopped"
    <3>1. CASE client[c] = "done"
      BY <2>1, <2>3, <3>1 DEF OrderOK, StopReturnsStopped
    <3>2. CASE client[c] # "done"
      <4>1. queue[1] = Promise(c)
        BY <1>2, <2>3, <3>2
      <4>2. \A j \in 1..Len(queue) : queue[j].kind # "work"
        BY <1>2, <1>4, <2>1, <2>3, <4>1 DEF OrderOK
      <4>3. ~Has(queue, "work") /\ ~Has(local, "work") /\ ~InFlight
        BY <1>1, <2>1, <4>2, PostedHandlers DEF Has, OrderOK, InFlight, IInv, PoolOK
      <4>4. state # "working"
        BY <4>3 DEF IInv, OneWorkOutstanding, Pending
      <4>5. client[c] # "ready"
        BY <1>4, <4>1 DEF SInv, PromiseOK
      <4> QED BY <2>3, <4>4, <4>5 DEF SInv, HoldOK, Held
    <3> QED BY <3>1, <3>2
  <2> QED BY <2>1, <2>2, <2>3 DEF OrderOK, StopReturnsStopped, Promise
<1> QED BY <1>6, <1>7, <1>8 DEF SInv

\* Handlers that are neither a client's promise nor, in first-in first-out
\* order, work can be added to either queue.
LEMMA AddKeeps ==
  ASSUME IInv, SInv, NEW hs \in Seq(Handler),
         \A c \in Clients : \A i \in 1..Len(hs) : hs[i] # Promise(c),
         ~LocalPost => ~Has(hs, "work"),
         \/ queue' = queue \o hs /\ local' \in {local, << >>}
         \/ LocalPost /\ queue' = queue /\ local' = local \o hs,
         UNCHANGED <<state, stop_after_work_done_, client, restarted>>
  PROVE  SInv'
<1>1. queue \in Seq(Handler) /\ local \in Seq(Handler)
  BY DEF IInv, TypeOK
<1>2. ASSUME NEW q \in Seq(Handler), NEW i \in 1..Len(q \o hs)
      PROVE  \/ i \in 1..Len(q) /\ (q \o hs)[i] = q[i]
             \/ i - Len(q) \in 1..Len(hs) /\ (q \o hs)[i] = hs[i - Len(q)]
  <2>1. /\ Len(q \o hs) = Len(q) + Len(hs)
        /\ \A k \in 1..Len(q) + Len(hs) : (q \o hs)[k] = IF k <= Len(q) THEN q[k] ELSE hs[k - Len(q)]
    BY ConcatProperties
  <2>2. Len(q) \in Nat /\ Len(hs) \in Nat
    BY LenProperties
  <2> QED BY <2>1, <2>2
<1>3. ASSUME NEW q \in Seq(Handler), NEW c \in Clients, NEW i \in 1..Len(q \o hs),
             (q \o hs)[i] = Promise(c)
      PROVE  i \in 1..Len(q) /\ q[i] = Promise(c)
  BY <1>2, <1>3
<1>4. PromiseOK'
  <2> SUFFICES ASSUME NEW c \in Clients
               PROVE  /\ \A i \in 1..Len(queue') : queue'[i] = Promise(c) => client[c] = "wait"
                      /\ \A i, j \in 1..Len(queue') :
                           queue'[i] = Promise(c) /\ queue'[j] = Promise(c) => i = j
                      /\ \A i \in 1..Len(local') : local'[i] # Promise(c)
    BY DEF PromiseOK, Promise
  <2>1. CASE queue' = queue \o hs /\ local' \in {local, << >>}
    <3>1. \A i \in 1..Len(queue') : queue'[i] = Promise(c) => i \in 1..Len(queue) /\ queue[i] = Promise(c)
      BY <1>1, <1>3, <2>1
    <3> QED BY <2>1, <3>1 DEF SInv, PromiseOK
  <2>2. CASE queue' = queue /\ local' = local \o hs
    <3>1. \A i \in 1..Len(local') : local'[i] = Promise(c) => i \in 1..Len(local) /\ local[i] = Promise(c)
      BY <1>1, <1>3, <2>2
    <3> QED BY <2>2, <3>1 DEF SInv, PromiseOK
  <2> QED BY <2>1, <2>2
<1>5. HoldOK'
  BY DEF SInv, HoldOK, Held
<1>6. ASSUME ~LocalPost PROVE OrderOK'
  <2>1. OrderOK /\ queue' = queue \o hs /\ local' = << >>
    BY <1>6 DEF SInv, OrderOK
  <2>2. ASSUME NEW c \in Clients, c \notin restarted,
               NEW i \in 1..Len(queue'), NEW j \in 1..Len(queue'),
               queue'[i] = Promise(c), queue'[j].kind = "work"
        PROVE  j < i
    <3>1. i \in 1..Len(queue) /\ queue[i] = Promise(c)
      BY <1>1, <1>3, <2>1, <2>2
    <3>2. j \in 1..Len(queue) /\ queue[j].kind = "work"
      <4>1. ~(j - Len(queue) \in 1..Len(hs) /\ queue'[j] = hs[j - Len(queue)])
        BY <1>6, <2>2 DEF Has
      <4> QED BY <1>1, <1>2, <2>1, <2>2, <4>1
    <3> QED BY <2>1, <2>2, <3>1, <3>2 DEF OrderOK
  <2> QED BY <2>1, <2>2 DEF OrderOK, StopReturnsStopped, Promise
<1> QED BY <1>4, <1>5, <1>6 DEF SInv

\* The promise of a client goes to the end of the queue.
LEMMA StopPostKeeps ==
  ASSUME IInv, SInv, NEW c \in Clients, StopPost(c)
  PROVE  SInv'
<1>1. /\ client[c] = "post" /\ client' = [client EXCEPT ![c] = "wait"]
      /\ queue' = queue \o <<Promise(c)>> /\ local' = local
      /\ state' = state /\ stop_after_work_done_' = stop_after_work_done_
      /\ restarted' = restarted
  BY ClientsAssumption DEF StopPost, Post, machine, history
<1>2. queue \in Seq(Handler) /\ Promise(c) \in Handler /\ client \in [Clients -> {"ready", "post", "wait", "done"}]
  BY DEF IInv, TypeOK, Promise, Handler
<1>3. /\ Len(queue') = Len(queue) + 1 /\ Len(queue) \in Nat
      /\ queue'[Len(queue) + 1] = Promise(c)
      /\ \A i \in 1..Len(queue) : queue'[i] = queue[i]
  BY <1>1, <1>2, OneMore
<1>4. \A i \in 1..Len(queue') : i \in 1..Len(queue) \/ i = Len(queue) + 1
  BY <1>3
<1>5. \A i \in 1..Len(queue) : queue[i] # Promise(c) /\ i # Len(queue) + 1 /\ i < Len(queue) + 1
  BY <1>1, <1>3 DEF SInv, PromiseOK
<1>6. \A d \in Clients : /\ d # c => Promise(d) # Promise(c) /\ client'[d] = client[d]
                        /\ d = c => client'[d] = "wait"
  BY <1>1, <1>2 DEF Promise
<1>7. PromiseOK'
  <2> SUFFICES ASSUME NEW d \in Clients
               PROVE  /\ \A i \in 1..Len(queue') : queue'[i] = Promise(d) => client'[d] = "wait"
                      /\ \A i, j \in 1..Len(queue') :
                           queue'[i] = Promise(d) /\ queue'[j] = Promise(d) => i = j
                      /\ \A i \in 1..Len(local') : local'[i] # Promise(d)
    BY DEF PromiseOK, Promise
  <2>1. CASE d = c
    BY <1>1, <1>3, <1>4, <1>5, <1>6, <2>1 DEF SInv, PromiseOK
  <2>2. CASE d # c
    <3>1. \A i \in 1..Len(queue') : queue'[i] = Promise(d) => i \in 1..Len(queue) /\ queue[i] = Promise(d)
      <4>1. queue'[Len(queue) + 1] # Promise(d)
        BY <1>3, <2>2 DEF Promise
      <4>2. ASSUME NEW i \in 1..Len(queue'), queue'[i] = Promise(d)
            PROVE  i \in 1..Len(queue) /\ queue[i] = Promise(d)
        BY <1>3, <1>4, <4>1, <4>2
      <4> QED BY <4>2
    <3> QED BY <1>1, <1>6, <2>2, <3>1 DEF SInv, PromiseOK
  <2> QED BY <2>1, <2>2
<1>8. HoldOK'
  BY <1>1, <1>6 DEF SInv, HoldOK, Held
<1>9. ASSUME ~LocalPost PROVE OrderOK'
  <2>1. OrderOK
    BY <1>9 DEF SInv
  <2>2. ASSUME NEW d \in Clients, d \notin restarted,
               NEW i \in 1..Len(queue'), NEW j \in 1..Len(queue'),
               queue'[i] = Promise(d), queue'[j].kind = "work"
        PROVE  j < i
    <3>1. j \in 1..Len(queue) /\ queue[j].kind = "work"
      BY <1>3, <1>4, <2>2 DEF Promise
    <3>2. CASE i = Len(queue) + 1
      BY <1>5, <3>1, <3>2
    <3>3. CASE i \in 1..Len(queue)
      BY <1>3, <2>1, <2>2, <3>1, <3>3 DEF OrderOK
    <3> QED BY <1>4, <3>2, <3>3
  <2>3. StopReturnsStopped'
    BY <1>1, <1>6, <2>1 DEF OrderOK, StopReturnsStopped
  <2> QED BY <1>1, <2>1, <2>2, <2>3 DEF OrderOK, Promise
<1> QED BY <1>7, <1>8, <1>9 DEF SInv

\* Every step keeps the invariant of stop().
LEMMA SInvNext == IInv /\ SInv /\ [Next]_vars => SInv'
<1> SUFFICES ASSUME IInv, SInv, [Next]_vars PROVE SInv'
  OBVIOUS
<1> USE DEF machine, scheduler, history
<1>a. /\ client \in [Clients -> {"ready", "post", "wait", "done"}]
      /\ queue \in Seq(Handler) /\ local \in Seq(Handler)
      /\ PoolThread \notin Clients
  BY ClientsAssumption DEF IInv, TypeOK
<1>1. ASSUME NEW c \in Clients, Start(c) \/ Notify(c) PROVE SInv'
  <2>1. client[c] = "ready" /\ client' = client
    BY <1>1 DEF Start, Notify, CanCall
  <2>2. PICK hs : Effect(c, hs)
    BY <1>1, StartEffect, DoWorkEffect DEF Start, Notify
  <2> QED BY <2>1, <2>2, EventKeeps
<1>2. ASSUME NEW c \in Clients, Stop(c) \/ Destroy(c) PROVE SInv'
  <2>1. client[c] = "ready" /\ client' = [client EXCEPT ![c] = "post"] /\ event_stop(c)
    BY <1>2 DEF Stop, Destroy, CanCall
  <2>2. PICK hs : Held' /\ Effect(c, hs)
    BY <2>1, StopEffect
  <2>3. \A d \in Clients : client'[d] = client[d] \/ (d = c /\ client'[d] = "post" /\ Held')
    BY <1>a, <2>1, <2>2
  <2> QED BY <2>1, <2>2, <2>3, EventKeeps
<1>3. ASSUME NEW c \in Clients, StopPost(c) PROVE SInv'
  BY <1>3, StopPostKeeps
<1>4. ASSUME NEW c \in Clients, StopReturn(c) PROVE SInv'
  <2>1. /\ UNCHANGED <<state, stop_after_work_done_, queue, local, restarted>>
        /\ client[c] = "done" /\ client' = [client EXCEPT ![c] = "ready"]
    BY <1>4 DEF StopReturn
  <2>2. \A d \in Clients : client'[d] = client[d] \/ (client[d] = "done" /\ client'[d] = "ready")
    BY <1>a, <2>1
  <2> QED BY <2>1, <2>2, QuietKeeps
<1>5. ASSUME StopPool \/ JoinPool \/ FnReturn \/ UNCHANGED vars PROVE SInv'
  <2>1. UNCHANGED <<state, stop_after_work_done_, queue, local, restarted, client>>
    BY <1>5 DEF StopPool, JoinPool, FnReturn, vars
  <2> QED BY <2>1, QuietKeeps
<1>6. ASSUME TakeWork \/ TakeTimeout \/ TakeAborted PROVE SInv'
  <2>1. PICK kind : Take(kind)
    BY <1>6 DEF TakeWork, TakeTimeout, TakeAborted
  <2>2. UNCHANGED <<state, stop_after_work_done_, local, restarted, client>>
    BY <1>6 DEF TakeWork, TakeTimeout, TakeAborted
  <2> QED BY <2>1, <2>2, TakeKeeps
<1>7. ASSUME TakePromise PROVE SInv'
  <2>1. /\ Take("promise") /\ client' = [client EXCEPT ![Head(queue).for] = "done"]
        /\ UNCHANGED <<state, stop_after_work_done_, local, restarted>>
    BY <1>7 DEF TakePromise
  <2>2. Head(queue) \in Handler /\ Head(queue).kind = "promise"
    BY <2>1, TakeFacts
  <2>3. Head(queue) = Promise(Head(queue).for)
    BY <2>2 DEF Handler, Promise
  <2>4. \A c \in Clients : \/ client'[c] = client[c]
                           \/ Head(queue) = Promise(c) /\ client'[c] = "done"
    BY <1>a, <2>1, <2>3
  <2> QED BY <2>1, <2>4, TakeKeeps
<1>8. ASSUME FnStart \/ FnNotify PROVE SInv'
  <2>1. client' = client
    BY <1>8 DEF FnStart, FnNotify
  <2>2. PICK hs : Effect(PoolThread, hs)
    BY <1>8, StartEffect, DoWorkEffect DEF FnStart, FnNotify
  <2> QED BY <1>a, <2>1, <2>2, EventKeeps
<1>9. ASSUME FnStop PROVE SInv'
  <2>1. client' = client
    BY <1>9 DEF FnStop
  <2>2. PICK hs : Effect(PoolThread, hs)
    BY <1>9, StopEffect DEF FnStop
  <2> QED BY <1>a, <2>1, <2>2, EventKeeps
<1>10. ASSUME HandlerEvent PROVE SInv'
  <2>1. client' = client /\ pool = "event"
    BY <1>10 DEF HandlerEvent
  <2>2. CASE handling = "work"
    <3>1. state = "working" /\ event_work_done(PoolThread)
      BY <1>10, <2>1, <2>2 DEF HandlerEvent, IInv, OneWorkOutstanding, InFlight
    <3>2. PICK hs : Effect(PoolThread, hs)
      BY <3>1, WorkDoneEffect
    <3> QED BY <1>a, <2>1, <3>2, EventKeeps
  <2>3. CASE handling # "work"
    <3>1. PICK hs : Effect(PoolThread, hs)
      BY <1>10, <2>3, DoWorkEffect DEF HandlerEvent
    <3> QED BY <1>a, <2>1, <3>1, EventKeeps
  <2> QED BY <2>2, <2>3
<1>11. ASSUME FnStopPost PROVE SInv'
  <2> DEFINE hs == <<Promise(PoolThread)>>
  <2>1. /\ Post(PoolThread, hs)
        /\ UNCHANGED <<state, stop_after_work_done_, client, restarted>>
    BY <1>11 DEF FnStopPost
  <2>2. hs \in Seq(Handler) /\ ~Has(hs, "work")
    BY DEF Promise, Handler, Has
  <2>3. \A c \in Clients : \A i \in 1..Len(hs) : hs[i] # Promise(c)
    BY <1>a DEF Promise
  <2>4. \/ queue' = queue \o hs /\ local' = local
        \/ LocalPost /\ queue' = queue /\ local' = local \o hs
    BY <2>1 DEF Post
  <2> HIDE DEF hs
  <2> QED BY <2>1, <2>2, <2>3, <2>4, AddKeeps
<1>12. ASSUME HandlerReturn PROVE SInv'
  <2>1. /\ queue' = queue \o local /\ local' = << >>
        /\ UNCHANGED <<state, stop_after_work_done_, client, restarted>>
    BY <1>12 DEF HandlerReturn
  <2>2. \A c \in Clients : \A i \in 1..Len(local) : local[i] # Promise(c)
    BY DEF SInv, PromiseOK
  <2>3. ~LocalPost => ~Has(local, "work")
    BY PostedHandlers DEF SInv, OrderOK
  <2> QED BY <1>a, <2>1, <2>2, <2>3, AddKeeps
<1>13. ASSUME TimerExpires PROVE SInv'
  <2> DEFINE hs == <<Timeout>>
  <2>1. /\ queue' = queue \o hs /\ local' = local
        /\ UNCHANGED <<state, stop_after_work_done_, client, restarted>>
    BY <1>13, <1>a DEF TimerExpires
  <2>2. hs \in Seq(Handler) /\ ~Has(hs, "work")
    BY DEF Timeout, Handler, Has
  <2>3. \A c \in Clients : \A i \in 1..Len(hs) : hs[i] # Promise(c)
    BY DEF Promise, Timeout
  <2> HIDE DEF hs
  <2> QED BY <2>1, <2>2, <2>3, AddKeeps
<1> QED BY <1>1, <1>2, <1>3, <1>4, <1>5, <1>6, <1>7, <1>8, <1>9, <1>10, <1>11, <1>12, <1>13
        DEF Next, StopStep, PoolStep, Gone

\* The inductive invariant of stop().
LEMMA StopInvariance == Spec => []SInv
BY SInvInit, SInvNext, Invariance, PTL DEF Spec

\* When stop() returns, in whatever order the pool runs its handlers, the
\* machine is stopped or stops at the end of the run outstanding, unless a
\* start() came after the stop.
THEOREM StopHolds == Spec => []StopTakesHold
<1>1. SInv => StopTakesHold
  BY DEF SInv, HoldOK, Held, StopTakesHold
<1> QED BY <1>1, StopInvariance, PTL

\* With one first-in first-out queue the machine is stopped when stop() returns.
THEOREM StopWaits ==
  ASSUME ~LocalPost
  PROVE  Spec => []StopReturnsStopped
<1>1. SInv => StopReturnsStopped
  BY DEF SInv, OrderOK
<1> QED BY <1>1, StopInvariance, PTL
-----------------------------------------------------------------------------
(* What is left for the pool when the destructor goes on. *)

\* The pool's thread has nothing in hand, and nothing will hand the machine an
\* event of its own accord.
Quiet == pool = "free" /\ state = "stopped" /\ ~Has(queue, "timeout")

\* No expired wait is behind a promise that counts.
TimeoutOrder ==
  \A c \in Clients : c \notin restarted =>
    \A i, j \in 1..Len(queue) : queue[i] = Promise(c) /\ queue[j].kind = "timeout" => j < i

DoneQuiet == \A c \in Clients : client[c] = "done" /\ c \notin restarted => Quiet

\* Nobody can overtake the stop() of the destructor.
ClosingOK == life = "closing" => \A c \in Clients : client[c] # "ready" => c \notin restarted

GoneQuiet == life \notin {"alive", "closing"} => Quiet

DInv == TimeoutOrder /\ DoneQuiet /\ ClosingOK /\ GoneQuiet

LEMMA DInvInit == Init => DInv
BY DEF Init, DInv, TimeoutOrder, DoneQuiet, ClosingOK, GoneQuiet

\* What is added to the queue, other than by the timer, puts no expired wait
\* behind a promise.
LEMMA AddTimeoutOrder ==
  ASSUME IInv, SInv, DInv, NEW hs \in Seq(Handler), ~Has(hs, "timeout"),
         queue' = queue \o hs,
         \A c \in Clients : client[c] = "wait" /\ c \notin restarted' => c \notin restarted
  PROVE  TimeoutOrder' /\ (~Has(queue, "timeout") => ~Has(queue', "timeout"))
<1>1. /\ Len(queue') = Len(queue) + Len(hs) /\ Len(queue) \in Nat /\ Len(hs) \in Nat
      /\ \A k \in 1..Len(queue) + Len(hs) :
           queue'[k] = IF k <= Len(queue) THEN queue[k] ELSE hs[k - Len(queue)]
  BY ConcatProperties, LenProperties DEF IInv, TypeOK
<1>2. ASSUME NEW j \in 1..Len(queue'), queue'[j].kind = "timeout"
      PROVE  j \in 1..Len(queue) /\ queue[j].kind = "timeout"
  <2>1. CASE j <= Len(queue)
    BY <1>1, <1>2, <2>1
  <2>2. CASE ~(j <= Len(queue))
    <3>1. j - Len(queue) \in 1..Len(hs) /\ queue'[j] = hs[j - Len(queue)]
      BY <1>1, <2>2
    <3> QED BY <1>2, <3>1 DEF Has
  <2> QED BY <2>1, <2>2
<1>3. ASSUME NEW c \in Clients, c \notin restarted',
             NEW i \in 1..Len(queue'), NEW j \in 1..Len(queue'),
             queue'[i] = Promise(c), queue'[j].kind = "timeout"
      PROVE  j < i
  <2>1. j \in 1..Len(queue) /\ queue[j].kind = "timeout"
    BY <1>2, <1>3
  <2>2. CASE i <= Len(queue)
    <3>1. i \in 1..Len(queue) /\ queue[i] = Promise(c)
      BY <1>1, <1>3, <2>2
    <3>2. c \notin restarted
      BY <1>3, <3>1 DEF SInv, PromiseOK
    <3> QED BY <2>1, <3>1, <3>2 DEF DInv, TimeoutOrder
  <2>3. CASE ~(i <= Len(queue))
    BY <1>1, <2>1, <2>3
  <2> QED BY <2>2, <2>3
<1>4. TimeoutOrder'
  BY <1>3 DEF TimeoutOrder, Promise
<1> QED BY <1>2, <1>4 DEF Has

\* An event posts no expired wait.
LEMMA NoTimeoutPosted ==
  ASSUME NEW hs \in Seq({Work, Aborted})
  PROVE  hs \in Seq(Handler) /\ ~Has(hs, "timeout")
<1>0. {Work, Aborted} \subseteq Handler
  BY DEF Handler, Work, Aborted
<1>1. hs \in Seq(Handler)
  BY <1>0, SeqMonotonic
<1>2. \A i \in 1..Len(hs) : hs[i] \in {Work, Aborted}
  BY ElementOfSeq
<1> QED BY <1>1, <1>2 DEF Has, Work, Aborted

\* With one queue, an event of a client that is not in stop(), or of the pool's
\* thread, leaves the promises that count behind all expired waits.
LEMMA EventTimeoutOrder ==
  ASSUME ~LocalPost, IInv, SInv, DInv, NEW me, NEW hs, Effect(me, hs),
         me \in Clients => client[me] = "ready"
  PROVE  /\ TimeoutOrder'
         /\ ~Has(queue, "timeout") => ~Has(queue', "timeout")
         /\ \A c \in Clients : client[c] # "ready" /\ c \notin restarted' => c \notin restarted
         /\ state = "stopped" =>
              state' = "stopped" \/ \A c \in Clients : client[c] # "ready" => c \in restarted'
<1>1. hs \in Seq(Handler) /\ ~Has(hs, "timeout")
  BY NoTimeoutPosted DEF Effect
<1>2. queue' = queue \o hs
  BY DEF Effect, Post
<1>3. \A c \in Clients : client[c] # "ready" /\ c \notin restarted' => c \notin restarted
  BY DEF Effect
<1>4. TimeoutOrder' /\ (~Has(queue, "timeout") => ~Has(queue', "timeout"))
  BY <1>1, <1>2, <1>3, AddTimeoutOrder
<1> QED BY <1>3, <1>4 DEF Effect

\* While the pool's thread is in a handler nobody relies on it being quiet.
LEMMA BusyKeeps ==
  ASSUME DInv, pool # "free", UNCHANGED <<client, life, restarted>>
  PROVE  DoneQuiet' /\ ClosingOK' /\ GoneQuiet'
BY DEF DInv, DoneQuiet, ClosingOK, GoneQuiet, Quiet

\* What the pool's thread takes from the queue.
LEMMA TakeDInv ==
  ASSUME ~LocalPost, IInv, SInv, SInv', DInv, NEW kind, Take(kind),
         kind \in {"work", "timeout"} \/ pool' = "free",
         UNCHANGED <<state, life, restarted>>,
         \A c \in Clients : \/ client'[c] = client[c]
                            \/ Head(queue) = Promise(c) /\ client'[c] = "done"
  PROVE  DInv'
<1>1. queue \in Seq(Handler) /\ queue # << >> /\ queue' = Tail(queue)
  BY DEF Take, IInv, TypeOK
<1>2. /\ Len(queue) \in Nat /\ Len(queue) > 0 /\ Head(queue) = queue[1]
      /\ Len(queue') = Len(queue) - 1
      /\ \A i \in 1..Len(queue') : queue'[i] = queue[i + 1]
  BY <1>1, EmptySeq, HeadTailProperties
<1>3. \A i \in 1..Len(queue') : i + 1 \in 1..Len(queue) /\ i + 1 # 1 /\ ~(i + 1 < 1)
  BY <1>2
<1>4. 1 \in 1..Len(queue)
  BY <1>2
<1>5. TimeoutOrder'
  <2>1. ASSUME NEW c \in Clients, c \notin restarted,
               NEW i \in 1..Len(queue'), NEW j \in 1..Len(queue'),
               queue'[i] = Promise(c), queue'[j].kind = "timeout"
        PROVE  j < i
    <3>1. j + 1 < i + 1
      BY <1>2, <1>3, <2>1 DEF DInv, TimeoutOrder
    <3> QED BY <3>1
  <2> QED BY <2>1 DEF TimeoutOrder, Promise
<1>6. /\ Has(queue, kind)
      /\ Has(queue', "timeout") => Has(queue, "timeout")
      /\ kind = "work" => state = "working"
  <2>1. \A k : Has(queue, k) <=> k = kind \/ Has(queue', k)
    BY TakeFacts
  <2> QED BY <2>1 DEF IInv, OneWorkOutstanding, Pending
<1>7. Quiet => Quiet'
  BY <1>6 DEF Quiet
<1>8. ClosingOK'
  <2> SUFFICES ASSUME life = "closing", NEW c \in Clients, client'[c] # "ready"
               PROVE  c \notin restarted
    BY DEF ClosingOK
  <2>1. client[c] # "ready"
    BY <1>2, <1>4 DEF SInv, PromiseOK
  <2> QED BY <2>1 DEF DInv, ClosingOK
<1>9. DoneQuiet'
  <2> SUFFICES ASSUME NEW c \in Clients, client'[c] = "done", c \notin restarted
               PROVE  Quiet'
    BY DEF DoneQuiet, Quiet
  <2>1. CASE client[c] = "done"
    BY <1>7, <2>1 DEF DInv, DoneQuiet
  <2>2. CASE client[c] # "done"
    <3>1. queue[1] = Promise(c) /\ kind = "promise"
      BY <1>2, <2>2, TakeFacts DEF Promise
    <3>2. state' = "stopped"
      BY <2>2 DEF SInv, OrderOK, StopReturnsStopped
    <3>3. \A j \in 1..Len(queue) : queue[j].kind = "timeout" => j < 1
      BY <1>4, <3>1 DEF DInv, TimeoutOrder
    <3>4. ~Has(queue', "timeout")
      BY <1>2, <1>3, <3>3 DEF Has
    <3> QED BY <3>1, <3>2, <3>4 DEF Quiet
  <2> QED BY <2>1, <2>2
<1>10. GoneQuiet'
  BY <1>7 DEF DInv, GoneQuiet
<1> QED BY <1>5, <1>8, <1>9, <1>10 DEF DInv

\* Every step keeps the invariant of the destructor.
LEMMA DInvNext ==
  ASSUME ~LocalPost, IInv, SInv, SInv', DInv, [Next]_vars
  PROVE  DInv'
<1> USE DEF machine, scheduler, history
<1>a. /\ client \in [Clients -> {"ready", "post", "wait", "done"}]
      /\ queue \in Seq(Handler) /\ local = << >> /\ restarted \subseteq Clients
      /\ PoolThread \notin Clients
  BY ClientsAssumption DEF IInv, TypeOK, SInv, OrderOK
<1>1. ASSUME NEW c \in Clients, Start(c) \/ Notify(c) PROVE DInv'
  <2>1. client[c] = "ready" /\ UNCHANGED <<client, life, pool>> /\ life = "alive"
    BY <1>1 DEF Start, Notify, CanCall
  <2>2. PICK hs : Effect(c, hs)
    BY <1>1, StartEffect, DoWorkEffect DEF Start, Notify
  <2>3. /\ TimeoutOrder' /\ (~Has(queue, "timeout") => ~Has(queue', "timeout"))
        /\ \A d \in Clients : client[d] # "ready" /\ d \notin restarted' => d \notin restarted
        /\ state = "stopped" =>
             state' = "stopped" \/ \A d \in Clients : client[d] # "ready" => d \in restarted'
    BY <2>1, <2>2, EventTimeoutOrder
  <2>4. DoneQuiet'
    BY <2>1, <2>3 DEF DInv, DoneQuiet, Quiet
  <2> QED BY <2>1, <2>3, <2>4 DEF DInv, ClosingOK, GoneQuiet
<1>2. ASSUME NEW c \in Clients, Stop(c) \/ Destroy(c) PROVE DInv'
  <2>1. /\ client[c] = "ready" /\ client' = [client EXCEPT ![c] = "post"] /\ event_stop(c)
        /\ pool' = pool /\ life = "alive" /\ life' \in {"alive", "closing"}
        /\ life' = "closing" => \A d \in Clients : client[d] = "ready"
    BY <1>2 DEF Stop, Destroy, CanCall
  <2>2. PICK hs : Effect(c, hs)
    BY <2>1, StopEffect
  <2>3. /\ TimeoutOrder' /\ (~Has(queue, "timeout") => ~Has(queue', "timeout"))
        /\ \A d \in Clients : client[d] # "ready" /\ d \notin restarted' => d \notin restarted
    BY <2>1, <2>2, EventTimeoutOrder
  <2>4. restarted' = restarted \ {c} /\ (state = "stopped" => state' = "stopped")
    BY <2>1 DEF event_stop, EnterStopped
  <2>5. \A d \in Clients : client'[d] = IF d = c THEN "post" ELSE client[d]
    BY <1>a, <2>1
  <2>6. DoneQuiet'
    BY <2>1, <2>3, <2>4, <2>5 DEF DInv, DoneQuiet, Quiet
  <2>7. ClosingOK'
    BY <2>1, <2>4, <2>5 DEF ClosingOK
  <2> QED BY <2>1, <2>3, <2>6, <2>7 DEF DInv, GoneQuiet
<1>3. ASSUME NEW c \in Clients, StopPost(c) PROVE DInv'
  <2> DEFINE hs == <<Promise(c)>>
  <2>1. /\ client[c] = "post" /\ client' = [client EXCEPT ![c] = "wait"]
        /\ queue' = queue \o hs /\ UNCHANGED <<state, pool, life, restarted>>
    BY <1>3 DEF StopPost, Post
  <2>2. hs \in Seq(Handler) /\ ~Has(hs, "timeout")
    BY DEF Promise, Handler, Has
  <2> HIDE DEF hs
  <2>3. TimeoutOrder' /\ (~Has(queue, "timeout") => ~Has(queue', "timeout"))
    BY <2>1, <2>2, AddTimeoutOrder
  <2>4. \A d \in Clients : client'[d] = IF d = c THEN "wait" ELSE client[d]
    BY <1>a, <2>1
  <2> QED BY <2>1, <2>3, <2>4 DEF DInv, DoneQuiet, ClosingOK, GoneQuiet, Quiet
<1>4. ASSUME NEW c \in Clients, StopReturn(c) PROVE DInv'
  <2>1. /\ client[c] = "done" /\ UNCHANGED <<state, queue, pool, restarted>>
        /\ life' = IF life = "closing" THEN "sm_destroyed" ELSE life
        /\ \A d \in Clients : client'[d] = IF d = c THEN "ready" ELSE client[d]
    BY <1>4, <1>a DEF StopReturn
  <2>2. Quiet' <=> Quiet
    BY <2>1 DEF Quiet
  <2>3. GoneQuiet'
    BY <2>1, <2>2 DEF DInv, DoneQuiet, ClosingOK, GoneQuiet
  <2>4. TimeoutOrder' /\ DoneQuiet' /\ ClosingOK'
    BY <2>1, <2>2 DEF DInv, TimeoutOrder, DoneQuiet, ClosingOK, Promise
  <2> QED BY <2>3, <2>4 DEF DInv
<1>5. ASSUME StopPool \/ JoinPool \/ UNCHANGED vars PROVE DInv'
  <2>1. UNCHANGED <<state, queue, pool, restarted, client>>
    BY <1>5 DEF StopPool, JoinPool, vars
  <2>2. /\ life' = life \/ (life \notin {"alive", "closing"} /\ life' \notin {"alive", "closing"})
        /\ Quiet' <=> Quiet
    BY <1>5, <2>1 DEF StopPool, JoinPool, vars, Quiet
  <2> QED BY <2>1, <2>2 DEF DInv, TimeoutOrder, DoneQuiet, ClosingOK, GoneQuiet, Promise
<1>6. ASSUME TakeWork \/ TakeTimeout \/ TakeAborted PROVE DInv'
  <2>1. PICK kind : Take(kind) /\ (kind \in {"work", "timeout"} \/ pool' = "free")
    BY <1>6 DEF TakeWork, TakeTimeout, TakeAborted, Take
  <2>2. UNCHANGED <<state, life, restarted, client>>
    BY <1>6 DEF TakeWork, TakeTimeout, TakeAborted
  <2> QED BY <2>1, <2>2, TakeDInv
<1>7. ASSUME TakePromise PROVE DInv'
  <2>1. /\ Take("promise") /\ client' = [client EXCEPT ![Head(queue).for] = "done"]
        /\ UNCHANGED <<state, life, restarted>> /\ pool' = "free"
    BY <1>7 DEF TakePromise, Take
  <2>2. Head(queue) \in Handler /\ Head(queue).kind = "promise"
    BY <2>1, TakeFacts
  <2>3. Head(queue) = Promise(Head(queue).for)
    BY <2>2 DEF Handler, Promise
  <2>4. \A c \in Clients : \/ client'[c] = client[c]
                           \/ Head(queue) = Promise(c) /\ client'[c] = "done"
    BY <1>a, <2>1, <2>3
  <2> QED BY <2>1, <2>4, TakeDInv
<1>8. ASSUME FnStart \/ FnNotify \/ FnStop \/ HandlerEvent PROVE DInv'
  <2>1. pool # "free" /\ UNCHANGED <<client, life>>
    BY <1>8 DEF FnStart, FnNotify, FnStop, HandlerEvent
  <2>2. restarted' = restarted /\ \E hs : Effect(PoolThread, hs)
    <3>1. CASE FnStart
      <4>1. state = "working"
        BY <3>1 DEF FnStart, IInv, PoolOK, OneWorkOutstanding, InFlight
      <4> QED BY <3>1, <4>1, StartEffect DEF FnStart, event_start
    <3>2. CASE FnNotify
      BY <3>2, DoWorkEffect DEF FnNotify, event_do_work
    <3>3. CASE FnStop
      <4>1. restarted' = restarted \ {PoolThread}
        BY <3>3 DEF FnStop, event_stop
      <4> QED BY <1>a, <3>3, <4>1, StopEffect DEF FnStop
    <3>4. CASE HandlerEvent /\ handling = "work"
      <4>1. state = "working" /\ event_work_done(PoolThread)
        BY <3>4 DEF HandlerEvent, IInv, OneWorkOutstanding, InFlight
      <4> QED BY <4>1, WorkDoneEffect DEF event_work_done
    <3>5. CASE HandlerEvent /\ handling # "work"
      BY <3>5, DoWorkEffect DEF HandlerEvent, event_do_work
    <3> QED BY <1>8, <3>1, <3>2, <3>3, <3>4, <3>5
  <2>3. TimeoutOrder'
    BY <1>a, <2>2, EventTimeoutOrder
  <2> QED BY <2>1, <2>2, <2>3, BusyKeeps DEF DInv
<1>9. ASSUME FnStopPost \/ FnReturn \/ HandlerReturn PROVE DInv'
  <2>1. pool # "free" /\ UNCHANGED <<client, life, restarted>>
    BY <1>9 DEF FnStopPost, FnReturn, HandlerReturn
  <2>2. queue \o << >> = queue
    BY <1>a, ConcatEmptySeq
  <2>3. PICK hs \in {<< >>, <<Promise(PoolThread)>>} : queue' = queue \o hs
    BY <1>9, <1>a, <2>2 DEF FnStopPost, FnReturn, HandlerReturn, Post
  <2>4. hs \in Seq(Handler) /\ ~Has(hs, "timeout")
    <3>1. CASE hs = << >>
      BY <3>1, PostedHandlers
    <3>2. CASE hs = <<Promise(PoolThread)>>
      BY <3>2 DEF Promise, Handler, Has
    <3> QED BY <3>1, <3>2
  <2>5. TimeoutOrder'
    BY <2>1, <2>3, <2>4, AddTimeoutOrder
  <2> QED BY <2>1, <2>5, BusyKeeps DEF DInv
<1>10. ASSUME TimerExpires PROVE DInv'
  <2>1. /\ state = "idle" /\ UNCHANGED <<state, client, life, restarted, pool>>
        /\ queue' = queue \o <<Timeout>>
    BY <1>10, <1>a DEF TimerExpires, IInv, IdleWakes
  <2>2. Timeout \in Handler /\ \A c \in Clients : Timeout # Promise(c)
    BY DEF Timeout, Handler, Promise
  <2>3. /\ Len(queue') = Len(queue) + 1 /\ Len(queue) \in Nat
        /\ queue'[Len(queue) + 1] = Timeout
        /\ \A i \in 1..Len(queue) : queue'[i] = queue[i]
    BY <1>a, <2>1, <2>2, OneMore
  <2>4. ASSUME NEW c \in Clients, NEW i \in 1..Len(queue'), queue'[i] = Promise(c)
        PROVE  c \in restarted
    <3>1. i \in 1..Len(queue) /\ queue[i] = Promise(c)
      BY <2>2, <2>3, <2>4
    <3> QED BY <2>1, <3>1 DEF SInv, PromiseOK, HoldOK, Held
  <2>5. TimeoutOrder'
    BY <2>1, <2>4 DEF TimeoutOrder, Promise
  <2> QED BY <2>1, <2>5 DEF DInv, DoneQuiet, ClosingOK, GoneQuiet, Quiet
<1> QED BY <1>1, <1>2, <1>3, <1>4, <1>5, <1>6, <1>7, <1>8, <1>9, <1>10
        DEF Next, StopStep, PoolStep, Gone

\* With one first-in first-out queue, nothing that could hand sm_ an event is
\* left when the destructor has come past stop(), whatever fn_work calls.
THEOREM DestroysInOrder ==
  ASSUME ~LocalPost
  PROVE  Spec => []NoEventAfterDestroy
<1>1. IInv /\ SInv /\ SInv' /\ DInv /\ [Next]_vars => DInv'
  BY DInvNext
<1>2. IInv /\ SInv /\ DInv => NoEventAfterDestroy
  <2> SUFFICES ASSUME IInv, SInv, DInv, life \notin {"alive", "closing"}
               PROVE  /\ pool \in {"free", "return"}
                      /\ \A kind \in {"work", "timeout"} : ~Has(queue, kind) /\ ~Has(local, kind)
    BY DEF NoEventAfterDestroy
  <2>1. Quiet /\ local = << >>
    BY DEF DInv, GoneQuiet, SInv, OrderOK
  <2>2. ~Has(queue, "work")
    BY <2>1 DEF Quiet, IInv, OneWorkOutstanding, Pending
  <2> QED BY <2>1, <2>2, PostedHandlers DEF Quiet
<1> QED BY <1>1, <1>2, DInvInit, Invariance, StopInvariance, PTL DEF Spec

-----------------------------------------------------------------------------
(* What stop() waits for.                                                   *)

\* The destructor is in its stop(), and nobody else is in a method; and nobody
\* is when it goes on to the members.
Alone ==
  /\ life = "closing" =>
       /\ \E c \in Clients : client[c] # "ready"
       /\ \A c, d \in Clients : client[c] # "ready" /\ client[d] # "ready" => c = d
  /\ life \notin {"alive", "closing"} => \A c \in Clients : client[c] = "ready"

\* A promise in the queue stays in its place, moves up by one, or is kept.
MovesUp ==
  \A c \in Clients : \A i \in 1..Len(queue) : queue[i] = Promise(c) =>
    \/ i \in 1..Len(queue') /\ queue'[i] = Promise(c)
    \/ i > 1 /\ i - 1 \in 1..Len(queue') /\ queue'[i - 1] = Promise(c)
    \/ i = 1 /\ client'[c] = "done"

QueueGrows == \A i \in 1..Len(queue) : i \in 1..Len(queue') /\ queue'[i] = queue[i]

\* Handlers are added behind those that wait.
LEMMA AddGrows ==
  ASSUME queue \in Seq(Handler), NEW hs \in Seq(Handler),
         queue' = queue \/ queue' = queue \o hs
  PROVE  QueueGrows
<1>1. /\ Len(queue \o hs) = Len(queue) + Len(hs) /\ Len(queue) \in Nat /\ Len(hs) \in Nat
      /\ \A i \in 1..Len(queue) + Len(hs) :
           (queue \o hs)[i] = IF i <= Len(queue) THEN queue[i] ELSE hs[i - Len(queue)]
  BY ConcatProperties, LenProperties
<1>2. \A i \in 1..Len(queue) : i \in 1..Len(queue) + Len(hs) /\ i <= Len(queue)
  BY <1>1
<1> QED BY <1>1, <1>2 DEF QueueGrows

LEMMA EventGrows ==
  ASSUME IInv, NEW me, NEW hs, Effect(me, hs)
  PROVE  QueueGrows
<1>1. Work \in Handler /\ Aborted \in Handler
  BY DEF Handler, Work, Aborted
<1>2. hs \in Seq(Handler) /\ Post(me, hs)
  BY <1>1, SeqMonotonic DEF Effect
<1>3. queue' = queue \/ queue' = queue \o hs
  BY <1>2 DEF Post
<1> QED BY <1>2, <1>3, AddGrows DEF IInv, TypeOK

\* What the pool's thread takes, it takes from the front.
LEMMA TakeMovesUp ==
  ASSUME IInv, NEW kind, Take(kind),
         \A c \in Clients : Head(queue) = Promise(c) => client'[c] = "done"
  PROVE  MovesUp
<1>1. queue \in Seq(Handler) /\ queue # << >> /\ queue' = Tail(queue)
  BY DEF Take, IInv, TypeOK
<1>2. /\ Len(queue) \in Nat /\ Len(queue) > 0 /\ Head(queue) = queue[1]
      /\ Len(queue') = Len(queue) - 1
      /\ \A i \in 1..Len(queue') : queue'[i] = queue[i + 1]
  BY <1>1, EmptySeq, HeadTailProperties
<1>3. SUFFICES ASSUME NEW c \in Clients, NEW i \in 1..Len(queue), queue[i] = Promise(c), i # 1
               PROVE  i > 1 /\ i - 1 \in 1..Len(queue') /\ queue'[i - 1] = Promise(c)
  BY <1>2 DEF MovesUp
<1>4. i > 1 /\ i - 1 \in 1..Len(queue') /\ i - 1 + 1 = i
  BY <1>2, <1>3
<1> QED BY <1>2, <1>3, <1>4

\* No step takes a promise out of the queue but the one that keeps it, and
\* none gets in before it.
LEMMA QueueStep ==
  ASSUME IInv, [Next]_vars
  PROVE  MovesUp
<1> USE DEF machine, scheduler, history
<1>a. /\ client \in [Clients -> {"ready", "post", "wait", "done"}]
      /\ queue \in Seq(Handler) /\ local \in Seq(Handler)
      /\ PoolThread \notin Clients
  BY ClientsAssumption DEF IInv, TypeOK
<1>g. QueueGrows => MovesUp
  BY DEF QueueGrows, MovesUp
<1>1. ASSUME NEW c \in Clients, Start(c) \/ Notify(c) \/ Stop(c) \/ Destroy(c) PROVE MovesUp
  <2>1. PICK hs : Effect(c, hs)
    BY <1>1, StartEffect, StopEffect, DoWorkEffect DEF Start, Notify, Stop, Destroy
  <2> QED BY <2>1, EventGrows, <1>g
<1>2. ASSUME NEW c \in Clients, StopPost(c) PROVE MovesUp
  <2>1. queue' = queue \/ queue' = queue \o <<Promise(c)>>
    BY <1>2 DEF StopPost, Post
  <2>2. <<Promise(c)>> \in Seq(Handler)
    BY DEF Promise, Handler
  <2> QED BY <2>1, <2>2, <1>a, AddGrows, <1>g
<1>3. ASSUME \/ \E c \in Clients : StopReturn(c)
             \/ StopPool \/ JoinPool \/ FnReturn \/ UNCHANGED vars
      PROVE  MovesUp
  <2>1. queue' = queue
    BY <1>3 DEF StopReturn, StopPool, JoinPool, FnReturn, vars
  <2> QED BY <2>1, <1>g DEF QueueGrows
<1>4. ASSUME TakeWork \/ TakeTimeout \/ TakeAborted PROVE MovesUp
  <2>1. PICK kind : Take(kind) /\ kind # "promise"
    BY <1>4 DEF TakeWork, TakeTimeout, TakeAborted
  <2>2. \A c \in Clients : Head(queue) # Promise(c)
    BY <2>1 DEF Take, Promise
  <2> QED BY <2>1, <2>2, TakeMovesUp
<1>5. ASSUME TakePromise PROVE MovesUp
  <2>1. Take("promise") /\ client' = [client EXCEPT ![Head(queue).for] = "done"]
    BY <1>5 DEF TakePromise
  <2>2. \A c \in Clients : Head(queue) = Promise(c) => client'[c] = "done"
    BY <2>1, <1>a DEF Promise
  <2> QED BY <2>1, <2>2, TakeMovesUp
<1>6. ASSUME FnStart \/ FnNotify \/ FnStop PROVE MovesUp
  <2>1. PICK hs : Effect(PoolThread, hs)
    BY <1>6, StartEffect, StopEffect, DoWorkEffect DEF FnStart, FnNotify, FnStop
  <2> QED BY <2>1, EventGrows, <1>g
<1>7. ASSUME HandlerEvent PROVE MovesUp
  <2>1. PICK hs : Effect(PoolThread, hs)
    <3>1. CASE handling = "work"
      <4>1. state = "working" /\ event_work_done(PoolThread)
        BY <1>7, <3>1 DEF HandlerEvent, IInv, OneWorkOutstanding, InFlight
      <4> QED BY <4>1, WorkDoneEffect
    <3>2. CASE handling # "work"
      BY <1>7, <3>2, DoWorkEffect DEF HandlerEvent
    <3> QED BY <3>1, <3>2
  <2> QED BY <2>1, EventGrows, <1>g
<1>8. ASSUME FnStopPost PROVE MovesUp
  <2>1. queue' = queue \/ queue' = queue \o <<Promise(PoolThread)>>
    BY <1>8 DEF FnStopPost, Post
  <2>2. <<Promise(PoolThread)>> \in Seq(Handler)
    BY DEF Promise, Handler
  <2> QED BY <2>1, <2>2, <1>a, AddGrows, <1>g
<1>9. ASSUME HandlerReturn PROVE MovesUp
  <2>1. queue' = queue \o local
    BY <1>9 DEF HandlerReturn
  <2> QED BY <2>1, <1>a, AddGrows, <1>g
<1>10. ASSUME TimerExpires PROVE MovesUp
  <2>1. queue' = queue \o <<Timeout>> /\ <<Timeout>> \in Seq(Handler)
    BY <1>10, <1>a DEF TimerExpires, Timeout, Handler
  <2> QED BY <2>1, <1>a, AddGrows, <1>g
<1> QED BY <1>1, <1>2, <1>3, <1>4, <1>5, <1>6, <1>7, <1>8, <1>9, <1>10
        DEF Next, StopStep, PoolStep, Gone

\* The promise of a stop() is neither lost nor overtaken: what is in the queue
\* when it is posted is all that runs before it.
THEOREM PromisesMoveUp == Spec => [][MovesUp]_vars
<1>1. IInv /\ [Next]_vars => [MovesUp]_vars
  BY QueueStep
<1> QED BY <1>1, Invariance, PTL DEF Spec

\* What a step does to the clients and the object's life.
LEMMA ClientSteps ==
  ASSUME IInv, SInv, [Next]_vars
  PROVE  \/ \E c \in Clients : Stop(c) \/ Destroy(c) \/ StopPost(c) \/ StopReturn(c)
         \/ life' = life /\ \A c \in Clients : client'[c] = client[c] \/ (client[c] = "wait" /\ client'[c] = "done")
         \/ client' = client /\ life \notin {"alive", "closing"} /\ life' \notin {"alive", "closing"}
<1>1. CASE TakePromise
  <2>1. /\ Take("promise") /\ client' = [client EXCEPT ![Head(queue).for] = "done"] /\ life' = life
    BY <1>1 DEF TakePromise
  <2>2. Head(queue) \in Handler /\ Head(queue).kind = "promise"
    BY <2>1, TakeFacts
  <2>3. Head(queue) = Promise(Head(queue).for)
    BY <2>2 DEF Handler, Promise
  <2>4. 1 \in 1..Len(queue) /\ Head(queue) = queue[1]
    BY <2>1, EmptySeq, LenProperties DEF Take, IInv, TypeOK
  <2>5. \A c \in Clients : client'[c] = client[c] \/ (client[c] = "wait" /\ client'[c] = "done")
    BY <2>1, <2>3, <2>4 DEF SInv, PromiseOK, IInv, TypeOK
  <2> QED BY <2>1, <2>5
<1>2. CASE StopPool \/ JoinPool
  BY <1>2 DEF StopPool, JoinPool
<1>3. CASE \/ \E c \in Clients : Start(c) \/ Notify(c)
           \/ FnStart \/ FnNotify \/ FnStop \/ TimerExpires \/ Gone \/ UNCHANGED vars
           \/ TakeWork \/ TakeTimeout \/ TakeAborted \/ FnStopPost \/ FnReturn
           \/ HandlerEvent \/ HandlerReturn
  BY <1>3 DEF Start, Notify, FnStart, FnNotify, FnStop, TimerExpires, Gone, vars, TakeWork,
              TakeTimeout, TakeAborted, FnStopPost, FnReturn, HandlerEvent, HandlerReturn
<1> QED BY <1>1, <1>2, <1>3 DEF Next, StopStep, PoolStep

LEMMA AloneNext ==
  ASSUME IInv, SInv, Alone, [Next]_vars
  PROVE  Alone'
<1>a. client \in [Clients -> {"ready", "post", "wait", "done"}]
  BY DEF IInv, TypeOK
<1>1. ASSUME NEW c \in Clients, Stop(c) \/ Destroy(c) PROVE Alone'
  BY <1>1, <1>a DEF Stop, Destroy, CanCall, Alone
<1>2. ASSUME NEW c \in Clients, StopPost(c) PROVE Alone'
  BY <1>2, <1>a DEF StopPost, Alone
<1>3. ASSUME NEW c \in Clients, StopReturn(c) PROVE Alone'
  BY <1>3, <1>a DEF StopReturn, Alone
<1>4. CASE life' = life /\ \A c \in Clients : client'[c] = client[c] \/ (client[c] = "wait" /\ client'[c] = "done")
  BY <1>4 DEF Alone
<1>5. CASE client' = client /\ life \notin {"alive", "closing"} /\ life' \notin {"alive", "closing"}
  BY <1>5 DEF Alone
<1> QED BY <1>1, <1>2, <1>3, <1>4, <1>5, ClientSteps

LEMMA PromiseKeptNext ==
  ASSUME IInv, SInv, Alone', PromiseKept, [Next]_vars
  PROVE  PromiseKept'
<1> SUFFICES ASSUME NEW c \in Clients, client'[c] = "wait"
             PROVE  PoolRuns' /\ \E i \in 1..Len(queue') : queue'[i] = Promise(c)
  BY DEF PromiseKept, Promise
<1>1. PoolRuns'
  BY DEF Alone, PoolRuns
<1>2. CASE client[c] = "wait"
  <2>1. PICK i \in 1..Len(queue) : queue[i] = Promise(c)
    BY <1>2 DEF PromiseKept
  <2> QED BY <1>1, <2>1, QueueStep DEF MovesUp
<1>3. CASE client[c] # "wait"
  <2>1. StopPost(c)
    <3>1. CASE \E d \in Clients : Stop(d) \/ Destroy(d) \/ StopReturn(d)
      BY <1>3, <3>1 DEF Stop, Destroy, StopReturn, IInv, TypeOK
    <3>2. CASE \E d \in Clients : StopPost(d)
      BY <1>3, <3>2 DEF StopPost, IInv, TypeOK
    <3> QED BY <1>3, <3>1, <3>2, ClientSteps
  <2>2. queue' = queue \o <<Promise(c)>> /\ queue \in Seq(Handler) /\ Promise(c) \in Handler
    BY <2>1, ClientsAssumption DEF StopPost, Post, IInv, TypeOK, Promise, Handler
  <2>3. Len(queue) + 1 \in 1..Len(queue') /\ queue'[Len(queue) + 1] = Promise(c)
    BY <2>2, OneMore
  <2> QED BY <1>1, <2>3
<1> QED BY <1>2, <1>3

LEMMA AloneInvariance == Spec => []Alone
<1>1. Init => Alone
  BY DEF Init, Alone
<1>2. IInv /\ SInv /\ Alone /\ [Next]_vars => Alone'
  BY AloneNext
<1> QED BY <1>1, <1>2, Invariance, StopInvariance, PTL DEF Spec

\* Nobody waits in stop() for nothing: the promise is in the queue, and the
\* pool has not been stopped.
THEOREM PromisesAreKept == Spec => []PromiseKept
<1>1. Init => PromiseKept
  BY DEF Init, PromiseKept
<1>2. IInv /\ SInv /\ Alone' /\ PromiseKept /\ [Next]_vars => PromiseKept'
  BY PromiseKeptNext
<1> QED BY <1>1, <1>2, Invariance, StopInvariance, AloneInvariance, PTL DEF Spec

\* The pool's thread can go on: a guard of PoolStep.
PoolCanGoOn ==
  \/ pool \in {"work", "post", "event", "return"}
  \/ pool = "free" /\ PoolRuns /\ queue # << >>

\* A client in stop() can go on, or the pool's thread can for it.
StopCanGoOn(c) == client[c] \in {"post", "done"} \/ PoolCanGoOn

\* So can the destructor, when it is not in stop() any more.
DestructorCanGoOn ==
  \/ life = "sm_destroyed"
  \/ life = "pool_stopped" /\ (pool = "free" \/ PoolCanGoOn)

\* fn_work called stop() and waits for the promise that only its own thread
\* could keep.
SelfStop == pool = "blocked" /\ "stop" \in WorkCalls

\* Every stop(), and the destructor, can go on.
CallsGoOn ==
  /\ \A c \in Clients : client[c] # "ready" => StopCanGoOn(c)
  /\ life \notin {"alive", "destroyed"} =>
       DestructorCanGoOn \/ \E c \in Clients : client[c] # "ready" /\ StopCanGoOn(c)

\* fn_work is in stop() only if it may call it.
OwnStop == pool \in {"post", "blocked"} => "stop" \in WorkCalls

LEMMA OwnStopInvariance == Spec => []OwnStop
<1>1. Init => OwnStop
  BY DEF Init, OwnStop
<1>2. OwnStop /\ [Next]_vars => OwnStop'
  BY DEF OwnStop, Next, PoolStep, StopStep, Start, Notify, Stop, Destroy, StopPost, StopReturn,
         StopPool, JoinPool, TakeWork, TakeTimeout, TakeAborted, TakePromise, FnStart, FnNotify,
         FnStop, FnStopPost, FnReturn, HandlerEvent, HandlerReturn, TimerExpires, Gone, vars
<1> QED BY <1>1, <1>2, PTL DEF Spec

\* Only fn_work can hang its pool, with a stop() of its own.  Otherwise every
\* stop() and the destructor can go on, or the pool's thread for them, on its
\* way to the promise.
THEOREM OnlySelfStopHangs == Spec => [](SelfStop \/ CallsGoOn)
<1>1. IInv /\ Alone /\ PromiseKept /\ OwnStop => SelfStop \/ CallsGoOn
  <2> SUFFICES ASSUME IInv, Alone, PromiseKept, OwnStop, ~SelfStop PROVE CallsGoOn
    OBVIOUS
  <2>1. pool \in {"free", "work", "post", "event", "return"}
    BY DEF IInv, TypeOK, OwnStop, SelfStop
  <2>2. ASSUME NEW c \in Clients, client[c] # "ready" PROVE StopCanGoOn(c)
    <3>1. CASE client[c] = "wait" /\ pool = "free"
      <4>1. PoolRuns /\ \E i \in 1..Len(queue) : queue[i] = Promise(c)
        BY <3>1 DEF PromiseKept
      <4>2. queue # << >>
        BY <4>1, EmptySeq
      <4> QED BY <3>1, <4>1, <4>2 DEF StopCanGoOn, PoolCanGoOn
    <3>2. CASE ~(client[c] = "wait" /\ pool = "free")
      BY <2>1, <2>2, <3>2 DEF IInv, TypeOK, StopCanGoOn, PoolCanGoOn
    <3> QED BY <3>1, <3>2
  <2>3. CASE life = "closing"
    BY <2>2, <2>3 DEF Alone, CallsGoOn
  <2>4. CASE life # "closing"
    BY <2>1, <2>2, <2>4 DEF IInv, TypeOK, CallsGoOn, DestructorCanGoOn, PoolCanGoOn
  <2> QED BY <2>3, <2>4
<1> QED BY <1>1, Invariance, AloneInvariance, PromisesAreKept, OwnStopInvariance, PTL
=============================================================================
