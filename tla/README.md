# ltzlib in TLA+

ltzlib is a header-only C++ library: two periodic workers, a registry of
functions that is filled while the program starts, a layered object graph, a
generator of dynamic-library managers, and helpers for strings, tuples and
macros. This directory models the parts in which state changes in more than one
step, checks them with TLC and proves their main properties with TLAPS.

Paths below are relative to `src/include/ltz` unless they start with `src/`.

## The system

| Component | State it keeps | Operations | What makes it hard |
|---|---|---|---|
| `scheduler/loop_worker.hpp` | an sml state machine (`stopped`, `idle`, `working`), two flags, a timer, a pool of one thread | `start`, `stop`, `notify`, `is_stopped`, destructor; events `start`, `stop`, `do_work`, `work_done` | clients, the pool's thread and the timer feed one machine; `stop()` waits for a handler; members are destroyed in an order |
| `thread/loop_worker.hpp` | `bStarted_`, `bNeedStop_`, `bReadyStop_`, a thread, two mutexes, two condition variables, three functions | `start`, `stop`, `notify_work`, `notify_stop`, `is_started`, `set_*_fn`, `operator=`, destructor; `work()` on the thread | flags written with and without a mutex, two mutexes in both orders, signals that need a listener, a thread that may end by itself |
| `scope/cleaner.hpp` | one function | runs it at the end of the scope | runs on every return, before the locks declared earlier are released |
| `proc_init/register.hpp` | a tree of nodes keyed by path segments, each with a pointer that may be null; `err` | `put`, `get`, `get_tree_node`, `for_each`, `for_each_at` | look-up by prefix; functions called back in the middle of a traversal |
| `proc_init/functions.hpp` | one registry per name; global objects that register themselves | `run`, `run_all`, `get_node`, the macros | order of static initialisation across translation units; registration from inside a run |
| `proc_init/ptr_to_void.hpp` | a map from names to cells | `get_ppv` | find or create |
| `layers/layer/*` | a node's sets of uppers (weak) and lowers (shared) | `make_shared`, `make_lower`, `add`, `make`, `get_set`, `for_each`, `prune_expired` | an upper that is gone; owners that disappear during a traversal |
| `layers/chain/single_chain.hpp` | a chain of nodes, each with its lower and its upper | `make_shared`, `make_lower`, `get_upper`, `get_lower`, `get` | a neighbour that is missing |
| `dl_mgr/*` | a library's handle and the functions loaded from it | constructor, destructor, copy, assignment | a load that fails half way; two owners of one handle; an address used again for another library |
| `string/string.hpp` | none between calls; positions and results in their loops | `split`, `split_if`, `join`, `replace`, `trim` | empty pieces at the ends, delimiters that overlap themselves |
| `tuple/*`, `preprocessor/*` | none | compile time only | nothing at run time |

Interactions: `thread::loop_worker` uses `scope::cleaner` twice, and its cleaners
are steps of its module. `proc_init` uses `string` to split paths. All others
stand alone and meet only in the programs that use them. `boost-ext/sml` and
Boost.Asio are outside the repository (the sml submodule is empty here); they are
modelled from how `scheduler/loop_worker.hpp` uses them and are marked external.

What makes each component correct:

* scheduler worker: one run at a time, no lost notification, no idle machine
  without a wake-up, `stop()` takes hold, returns, and returns only when the work
  is done; the destructor terminates and leaves nobody using a destroyed machine.
* thread worker: the flags tell the truth, the signals come, every `stop()`
  returns, a notified stop ends the thread, the setters do not race with the thread
  that calls what they write, no assignment to a joinable thread.
* registry: an entry, once put, is what its path finds, and is never replaced;
  a handler gets the node of its own path; `run_all` runs each node once.
* layers: what is reachable downwards lives, and nothing else does; a traversal
  stays valid and passes nobody over, whatever its function does; a chain's walks up
  and down agree.
* library manager: no handle stays open that nobody has, and the functions of a
  manager can be called for all its life, whatever fails half way and whoever else
  uses the library, as long as nobody copies managers.
* strings: splitting and joining undo each other wherever they can, and `replace`
  agrees with both.

`PROJECT.json` lists the hazards at their lines, with the properties that watch
each one.

## The modules and the code

| Module | Models | How |
|---|---|---|
| `PeriodicWorker` | what a user of the scheduler worker may rely on | abstract: a job that is stopped, waiting, due or running |
| `SchedulerLoopWorker` | `scheduler/loop_worker.hpp`, all of it | implements `PeriodicWorker` |
| `ThreadLife` | what the users of the thread worker may rely on | abstract: the life of one thread at a time, and the calls that begin and end it |
| `ThreadLoopWorker` | `thread/loop_worker.hpp`, all of it, and `scope/cleaner.hpp` at its two uses | implements `ThreadLife` |
| `FnRegistry` | `proc_init/register.hpp`, `proc_init/functions.hpp` | |
| `LayerNodes` | `layers/layer/node.hpp` and its sets | |
| `SingleChain` | `layers/chain/single_chain.hpp` | |
| `DlMgr` | the class that `dl_mgr/detail/build_mgr.hpp` generates | |
| `Strings` | `string/string.hpp` but for `toStr` | |
| `MC...` | constants of the instances TLC checks | |
| `...Proofs` | the theorems, see below | |

Names of state and operations are the source's; `PROJECT.json` maps every
definition to its lines. Definitions that say "Mutant" above them are not part
of a model: each is a plausible mistake in the definition below it, and shows
that a property would notice.

### SchedulerLoopWorker

* `process_event` holds the machine's mutex, so an event with its guards, actions
  and entry actions is one step: `event_start`, `event_stop`, `event_do_work`,
  `event_work_done`, one disjunct per row of the transition table. `Start`,
  `Notify`, `Stop` are the clients' calls, `HandlerEvent` the events that the pool's
  thread sends after `fn_work` or from the timer's handler.
* `stop()` is three steps, `Stop` (the event), `StopPost` (the promise) and
  `StopReturn` (the end of the wait); everything may happen in between.
* `queue` holds the handlers the pool has to run: posted work, expired waits,
  cancelled waits (which still run, and return at once) and promises. `pool` and
  `handling` are the pool thread's place in the handler it runs. `fn_work` may call
  `start`, `notify` and `stop` on its own worker (`FnStart`, `FnNotify`, `FnStop`).
* `LocalPost` selects the order in which Asio runs handlers: FALSE is one queue,
  TRUE has a private queue of the pool's thread (`local`), handed over when the
  running handler returns.
* `Destroy`, `StopPool`, `JoinPool` are the destructor: `stop()`, then `sm_`, then
  `~state_machine_t()`.
* `restarted` and `owed` are history variables; the code has nothing like them.

### ThreadLoopWorker

* `mtxThis_` has a variable. `mtxWorkThread_` has none: the worker holds it in the
  places of `Locked`, and the clients' only use of it is one step (`StopLock`).
* A method is the steps between which others can be noticed: `Start`, `StartJoin`,
  `StartSpawn`; `Stop`, `StopLock`, `StopJoin`; and so on. The wait for
  `bReadyStop_` is the place `"stop_cv"`.
* `work()` is `WorkBegin`, `InitReturns` or `InitThrows`, `WorkReturns`, `Sleep`, then
  `TimeOut`, a notification or a spurious wake-up, `WakeUp`, `ClearReturns`,
  `Cleaner`, `Leave`. `fnInit_`, `fnWork_` and `fnClear_` (the places `Functions`) may call
  their own worker: `Callback` is the call, which waits for `mtxThis_`, and
  `CallbackRuns` what it does; in between `calling` is set.
* The sleep is one notification, not a queue of them: `notify_one` reaches a thread
  only while it waits.
* For `ThreadLife` all of this is one `phase` of the thread, one order (`told`: either
  flag, once the thread has taken note of them) and what each client is `doing`. A
  thread in its cleaner or behind it is `over`. There are no mutexes and no signals in
  `ThreadLife`, so that `Refines` says what they achieve together: `fnWork_` is not called
  once the thread was told to end and its rest is over, the thread ends only if told in
  its own life (or if `fnInit_` throws), nobody makes a thread while there is one, and
  `stop()` returns when there is none. It says nothing of who must go on; that is what
  `OnlyKnownHangs`, `JoinsEnd` and the liveness properties are for.
* Four hangs are possible in the code, and each is a state from which nothing moves any
  more: the thread left by itself between `stop()`'s look at `bStarted_` and its wait
  (`LostSignal`); one of the three functions calls its worker while `stop()`, which holds
  `mtxThis_`, waits for `mtxWorkThread_` (`LockOrder`) or already joins, which only
  `fnClear_` can meet (`JoinOrder`); one of the functions calls `stop()` (`SelfStop`). A call of
  `is_started()` is enough for the second and the third.
* `Going` are all steps but new calls, `CanGo` their guards.

### FnRegistry

* `tree` maps the places that exist (sequences of names, the root is `<< >>`) to
  pointers; `order` is the order in which places were made, which is the order of
  the children of each.
* `ConstructNode` and `ConstructHandler` are the constructors that the macros define,
  the units taking turns in any way. `get_tree_node` is the descent that ends at
  the path or where it goes on no more.
* `run_all` and `for_each_at` are `RunAll` and `ForEachAt`, then one `WalkOn` for
  each place; `FunctionPuts` lets the function called there put nodes before the
  iteration goes on. The iterator is `cursor`: what comes after it is looked up in
  the tree as it is now, since a list keeps its iterators when it grows.
* `Run` and `RunReturns` are `run`: whatever prefix of the path the descent found, the
  node there gets the whole path as its arguments. `RunMacro` is `LTZ_PI_FN_RUN` and
  `LTZ_PI_FN_GET_NODE`, which get the node and, in the first, call only its `lpif_main`;
  they leave `err` as `get` and the function left it.
* `visited`, `due`, `accepted` and `handled` are history variables.

### LayerNodes

* A node is an address: its class is `type`, its sets are `upper` and `lower`, one
  set for each class taken together (`Set` picks one). `held` are the nodes the
  program has a `shared_ptr` to. `Owned` is what a reference count above zero means:
  held, a lower of somebody, or locked by a `for_each`.
* When a pointer goes (`LetGo`) and there is no other owner, the node is expired at
  once and its destruction begins; `Destruct` lets its lowers go one after the
  other, in any order, and each may be destroyed inside it (`dying` is that stack).
  The program goes on when all of that is done (`Runs`).
* An address is free again when no weak pointer refers to it either (`Free`):
  `make_shared` puts the object into the control block. Sets are in the order of these
  addresses (`owner_less`), so a new node may come before or behind an iterator.
* `for_each` is a stack of `walks`: `ForEach`, then `ForEachErases` or `ForEachCalls`
  and `FuncReturns` for each element, then `ForEachReturns`. Between a call and its
  return the function may do all that the program may, another `for_each` included.
* The caller is assumed to hold the node it calls `for_each` on until that returns.
* `maker` and the walks' `due` are history.

### SingleChain

* Classes are the numbers 1 (the top) to `Depth`. `make_shared` makes a node of any class,
  with no upper or with one that the program holds; `make_lower` makes one and links it
  both ways. `get_upper` and `get_lower` are
  recursive functions as the templates are recursive; `GetUpper` and `GetLower` keep
  what they find.
* `make_lower` replaces the lower that was there, which dies with what is below it
  unless the program holds it. The way down of one that lives on goes on to work, and
  its way up leads to its maker.
* `get_lower` does not ask whether there is a next node and `get_upper` does. Where
  the source would dereference a null pointer, `broken` is set and nothing more
  happens.

### DlMgr

* A manager is constructed base by base: `Construct` opens the library, one `GetSym`
  looks up each function in the order of `LTZ_DL_MGR_SEQ`, and `GetSymThrows` is the
  destruction of the bases when one is missing. Other managers, of other threads, do
  their steps in between.
* `Copy` and `Assign` are the compiler's: they copy the handle as any other member.
  `Destroy` closes it, whoever else has it.
* The dynamic linker is `count` and `lib`: the same library opened again gets the same
  handle, and the handle of a library that was unloaded may be given to another. What
  C leaves undefined (closing or asking a handle that is not open) has each of its
  outcomes, but for the end of the program.
* `exposed` and `overwritten` are history: managers that are copies, were copied, or met
  such a one at the address of their handle, and handles that were lost under an
  assignment. The properties are about the others.
* The last kind of `exposed` manager was never copied, and the code fails it all the same:
  a manager is copied and destroyed, which unloads its library; another manager opens its
  own, and the linker uses the address again; the copy is destroyed and closes it.
  Nothing in the class prevents that, so no property claims it. In a program without
  copies there is no such manager (`WithoutCopiesAllLoaded`).
* As the header is written, the bases call `_ltz_dl_mgr_base::get_sym`, which is
  protected and not theirs to call. A compiler that minds will refuse; the model is
  of the call as it is meant.

### Strings

* A program has one text and one list and applies the functions to them in any order;
  `split` makes the list of the text, `join` the text of the list. Each turn of a loop
  is a step: `SplitPiece`, `JoinPiece`, `ReplaceFound`; what comes behind the loop is
  `SplitRest`, `JoinEnds`, `ReplaceRest`; the early returns are `SplitNothing` and
  `ReplaceNothing`. `find` is external (`Found`, `NotFound`).
* The predicate of `split_if` keeps everything, as in `split`, or what is not empty, as
  in `path_type` of `proc_init/register.hpp`. The source asks it about the last piece
  only, and so does the model.
* `agree` is history: it says that text and list have come from each other.
* This is what lets `FnRegistry` begin with lists. Its macros join a path with one
  separator (`LPIFN`), which the registry splits again: `SplitUndoesJoin`.
  `path_type` splits otherwise than `put` and `get` do, and comes to the same steps:
  `SameSteps`.

## What is checked

| Run | Question | Answer |
|---|---|---|
| `sched_fifo` | is the worker right if its pool runs handlers in the order they were posted? | yes: `stop()` returns stopped, the destructor is safe and ends, an idle worker runs, and the worker implements `PeriodicWorker` (liveness included) |
| `sched_asio` | what survives the order a one-thread Asio has, with `fn_work` calling everything? | one run at a time, no lost notification, every idle machine has a wake-up, a stop takes hold, whoever waits in `stop()` has a promise in the queue, `stop()` returns |
| `sched_overtaken` | does `stop()` return stopped in that order? | no: the promise overtakes work posted from the pool's thread (finding) |
| `thread_all` | what holds with everything allowed, also with functions that call their own worker? | the worker implements `ThreadLife` (so no joinable thread is assigned to), the flags are true, the setters are free of races (`operator=` is not: it does not ask whether a thread runs), an order to stop ends the thread if its sleep ends, whoever joins it meets one that neither works nor sleeps again, there are only four kinds of hang, also when no new call comes in, and `stop()` returns or ends in one of them even if no sleep ever ends |
| `thread_hang` | does `stop()` return when `notify_stop()` is used too? | no (finding) |
| `thread_forgotten` | does `notify_stop()` on a started worker end its thread? | no, if it comes before the thread's first line (finding) |
| `registry` | units that handle what they define, paths above and below each other, duplicates, functions that put during traversals | handlers get their own nodes, nothing is replaced or lost, traversals are complete and in preorder |
| `registry_order` | does `get_node` make a node that is not there, as its comment says, so that a handler may be in another unit than its node? | no: it throws before `main` if that unit comes first (finding) |
| `layers` | nodes made, linked, pruned and let go in any order, also inside of two nested `for_each` | lowers live as long as an owner, nothing leaks, traversals stay valid and meet everybody who stays, a node knows its maker as long as that lives |
| `chain` | a chain made from the top or from the middle, replaced, walked and let go | what is found below finds the way back, and what nobody can come to is gone |
| `dl` | managers constructed, failing half way, copied, assigned and destroyed in any order | nothing stays open for nobody but what was assigned over, and a manager can call its functions unless it is a copy, was copied, or met one at the address of its handle |
| `strings` | short texts and lists split, joined, replaced and trimmed in any order | `join` undoes `split` always, `split` undoes `join` where the list is without the delimiter, both ways to split a path give the same steps, `replace` is splitting and joining |

The type invariants are proved (`TypeCorrect`, for each module) instead of checked by a run.

One disagreement has no run, because `thread_all` with one thing changed shows it:
`notify_stop()` (`thread/loop_worker.hpp:75`) notifies without the worker's mutex, so
that it can fall between the worker's check and its sleep and wake nobody. The thread
then goes on until the sleep is over. `NeedStopEnds` has the premise that
sleeps end (`SleepsEnd`); without it the property fails. `StopReturnsOrHangs`
has no such premise: `stop()` gives its order with the worker's mutex.

`HandlersGetTheirNode` is checked in `registry`, where each unit handles what it defines,
as in the usage at the top of `functions.hpp`. For other units it fails as
`InitCompletes` does in `registry_order`: if the place above has a node, the handler is
given that one instead of an exception.

`NoEventAfterDestroy` is checked in FIFO order only. Under the private queue the
destructor's `stop()` can be overtaken as any other, and then work is left when
`sm_` is destroyed: it is the same disagreement as `StopReturnsStopped`, so it
has no run of its own.

### Bounds

* Two clients in both workers. Two are enough for any pair of calls to meet, with
  the worker's own thread (and the timer) as third and fourth; a third client adds
  only another holder of the same mutex or another promise. The theorems hold for
  every number.
* `MaxWalks` and `MaxCount`, below, are the only counters bounded by hand. The scheduler's queue is finite by
  itself: a client that has stopped waits for its promise, and a machine that is
  working posts nothing.
* `do_work_at_start` takes both values. `interval_time` and `sleep_time_ms` are not
  numbers: a timer may expire at any time and a sleep may end at any time. Whether a
  sleep must end by itself is said in the properties that need it (`SleepsEnd`).
* `thread_all` has every method and every kind of call that the functions can make on
  their worker; `thread_hang` and `thread_forgotten` have the fewest that show what they
  are about.
* The registry: two names, paths of up to three segments with empty segments at the
  beginning, in the middle and alone (the root), three nodes, two units of two and
  four objects that define one path twice, depths -1, 0 and 1. There is a path above,
  below and beside another, and a path whose places on the way have no node.
  Steps follow one another until the tree has a node at each of the six paths.
* `layers`: three classes, of which the last knows uppers of both others, and four
  addresses, two of them for the top class, so that there is a set of two elements, a
  node with two owners and a chain of destructions. `MaxWalks` is 2: a `for_each` can
  be disturbed by another over the same set. A third inside would do nothing to the
  first that the second cannot.
* `chain`: four classes, so that there is a walk with a node between its next and its
  last, and two addresses for each but the last, so that every lower can be replaced
  while the old one lives on, and so that a node made in the middle can stand beside one
  of a whole chain.
* `dl`: three managers and two handles, so that one handle has two managers while
  another library comes and goes at the second, or one is copied, closed and used
  again beside the copy; three libraries, of which the last lacks the second of two
  functions. `MaxCount` is 3: no handle needs to be open more often than there are
  managers, and what was lost under an assignment can only add to it. Managers and
  handles are symmetric.
* `strings`: all texts of up to four of three characters, one of them a blank; lists of
  up to three members that are empty, one character, or the longer delimiter itself;
  delimiters that are empty, of one and two characters, and two that overlap
  themselves (`aa`, `aba`). Four characters have every piece of a split empty and not
  empty at both ends and in the middle, and two occurrences that overlap. A list of three can be
  joined to a longer text. `replace` is called while the text is one of those, or it
  would grow for ever.
* `CHECK_DEADLOCK FALSE` is set where the program may really stand still:
  `sched_asio`, where `fn_work` calls `stop()` and waits for a handler behind itself,
  and `thread_all` and `thread_hang`, which are about the hangs.

### Fairness

Nobody has to call anything: the clients' calls have no fairness. In the scheduler
worker the pool's thread, the timer and the threads inside `stop()` or the
destructor go on (weak fairness): they are threads of the operating system, and an
armed timer expires. `FnReturn` is among the pool's steps, so `fn_work` returns.
In the thread worker the worker's and the clients' own steps are weakly fair. The
steps that take a mutex are strongly fair: nobody who waits for a mutex that is free
again and again is passed over for ever, which no implementation promises in so
many words but without which no program with a mutex gets anywhere; `mtxWorkThread_`
is free during each sleep. `fnInit_`, `fnWork_` and `fnClear_` return (strongly, since each
may call its worker any number of times first), unless such a call is one that never
does. No sleep has to end by itself: `NeedStopEnds` and `NotifyStopEnds` have that as
their premise, and `StopReturns` and `StopReturnsOrHangs` do without.

## What is proved

TLAPS checks the theorems for every value of the constants: every set of clients, every
choice of methods and both orders of posting; every set of paths, units and objects;
every set of nodes and classes; every number of managers and libraries; texts, lists
and delimiters of any length. The assumptions on constants are those named in the
modules: the threads are different, the methods are among those there are, addresses
are numbers.

* **SchedulerLoopWorkerProofs.** `IInv` is `TypeOK`, `OneWorkOutstanding`, `IdleWakes`,
  `PromptNotify` and `PoolOK` (the pool thread's place says which handler it runs).
  The three properties are inductive only together: `work_done` arms a timer, so
  `IdleWakes` needs that no run is outstanding; a timeout's handler can post work, so
  `OneWorkOutstanding` needs to know when there is one; `PromptNotify` needs the run in
  progress to be the one that `working` means. Each event is one lemma
  (`EventStart`, ...), used for the clients, `fn_work` and the handlers alike; lemmas on
  queues (`HasConcat`, `WorkTail`, ...) say what posting and taking do. `Implements`, at
  the end: initial states map to initial states and each step to a step of
  `PeriodicWorker` or to a stutter. It needs `IInv` before and after the step (`Pending`
  tells "due" from "running") and that a stop request is pending only while the
  machine is working (`FlagOK`).
* **SchedulerStopProofs.** `StopHolds`, `StopWaits` and `DestroysInOrder`; the first two
  from `SInv`: a promise is queued once, for a client that waits (`PromiseOK`); whoever is in `stop()` and was not
  overtaken by a start has a machine that is stopped or stops next (`HoldOK`); and with
  one queue no work is behind a promise that counts (`OrderOK`). The last part uses
  `~LocalPost` and the first two do not, which locates the finding `sched_overtaken`.
  `DestroysInOrder` adds, for one queue as well, that no expired wait is behind a
  promise that counts (`TimeoutOrder`: a held machine has no timer armed), so that the
  pool's thread is idle when the promise is kept (`DoneQuiet`), and that nobody can
  overtake the destructor's `stop()` (`ClosingOK`: `fn_work` runs only while the machine
  is working, and its `start` is ignored then).
  The last part is the safety half of `StopReturns` and `DestructorReturns`, in both
  orders of posting. `PromisesAreKept`: who waits has a promise in a queue of a pool that
  was not stopped (the destructor stops it only when nobody is in a method: `Alone`).
  `PromisesMoveUp`: each step leaves a promise in its place, moves it up by one, or keeps
  it. `OnlySelfStopHangs`: unless `fn_work` is in its own `stop()`, whoever is in `stop()` or
  the destructor can go on, or the pool's thread can. Together: a promise is as many
  handlers away as there are before it, that number never grows, and nothing but
  `fn_work` itself keeps the pool from the next one. What is left to TLC is that steps
  which can be taken are.
* **ThreadLoopWorkerProofs.** `IInv` adds to the properties that a client which saw
  `bStarted_` clear finds it clear until it is done (`UnstartedStays`), that there is
  no thread between join and assignment (`JoinedStays`), and that the thread has `mtxThis_`
  only in a call of one of its functions (`WorkerHolds`). `SignalNotLost` has the assumption `OnlyStopEnds`: nobody
  calls `notify_stop` and `fnInit_` does not fail; without it `thread_hang` is the
  counterexample. `HangsStay` says the other half of `OnlyKnownHangs`: whoever is
  caught in one of the four hangs stays there, whatever the others call. It needs
  only that `mtxThis_` is held by the one inside. `NobodyElseHangs` is its first half: some
  step is possible without a new call (`CanGo`), or all is at rest, or it is one of the
  four. Under `OnlyStopEnds`, and when none of `fnInit_`, `fnWork_` and `fnClear_` calls its
  worker, there is none of them (`StopAloneNeverHangs`).
  `NoSetFnRace` is about the two setters only; `operator=` writes the same functions
  without a look at `bStarted_`, and does race with a thread that runs.
  `JoinsAreShort` and `JoinsComeNearer` are about `join`, which has no time limit: `WaitInv`
  says that a thread somebody joins is past its last sleep, because `stop()` clears
  `bStarted_` and notifies in one piece with the worker's mutex, which the worker gives
  back only while it waits; `start()` comes to a join only when the thread is over. From
  there each step of the thread brings it nearer to its end, and nobody starts it again.
  `Implements` is `Refines` for every value of the constants: each action is the action of
  `ThreadLife` that it is named for or a stutter. It needs that `bReadyStop_` is
  the signal of a thread which listens, so that `stop()` tells none that has not begun
  (`ReadyMeansRunning`), that there is no thread between join and assignment
  (`JoinedStays`), and `BeginStarted`: a thread before its first line has `bStarted_` set, so
  that it begins untold. `NeverTerminates` (a thread is never assigned to a joinable
  `thWork_`) is also a part of it.
* **FnRegistryProofs.** `IInv`: what was put without an error is in its place below
  places that exist, and every node in the tree was put. From it `PutStays` and
  `FirstWins`. `HandlersRight` and `InitRight` assume `Documented`: a unit defines a
  node before it handles it, as template 2.2 at the top of `functions.hpp` does. The
  invariant is then that every node object constructed so far has a node at its path,
  its own or an earlier one's; without the assumption a handler whose unit comes
  before its node's is the counterexample. `Steps`, which passes
  over the empty segments as the loop in `put_impl` does, is a recursive function;
  `UpToStep` and `StepsType` say what is to be known of it.
  `TypeCorrect`, `WalksInPreorder` and `WalksComplete` are about the tree's order and the
  traversals. A place is ahead of the cursor (`Ahead`) if it is below it, or below a
  later sibling of it or of a place above it. `WalkOK` says that what was visited is not
  ahead, and what is due is visited or ahead. Descending or going on to a sibling goes
  to a place that is ahead with nothing in between (`IsNext`: `DownIsNext`, `OnIsNext`),
  and nothing is ahead when there is no such place (`EndIsEnd`). A place that the function
  puts in the middle of a traversal is new and last among its siblings, so that it
  takes nothing from what is due and was not visited (`PutKeepsWalk`). The provers have
  no induction over the length of a place; the lemmas compare places at the first
  step where they part (`FirstSteps`, `StepTowards`), which exists by `WFMin`.
* **LayerNodesProofs.** All properties of `LayerNodes`, for any number of nodes and
  classes and any depth of nested `for_each`. `IInv` adds to them that a lower is alive
  and of a fitting class (`LowersFit`), that the living have an owner (`AliveByOwner`),
  that all walks but the innermost are inside their function, on a node that is held
  or locked by an earlier walk (`Nested`), and that what a walk still has to meet is at
  its iterator or behind it (`DueAhead`). The parts lean on each other: a locked upper
  stays alive because locking is owning, its element stays in the set because only
  what is expired is erased (`UppersStep`), and the walk's node stays because it is
  held or locked. `NothingLeaks` alone uses `RankAssumption`: the topmost class in a set
  of nodes has an owner outside the set; the least rank exists by well-foundedness
  (`WFMin`), without induction.
* **DlMgrProofs.** `IInv` is `TypeOK`, `NothingStaysOpen`, `Together` and `Accounts`, which
  are inductive only together. `NothingStaysOpen` bounds how often a handle is open by its
  holders from above, `Accounts` from below where no holder is exposed, and a close needs
  both: that it closes the last is known only from the count, and that nobody is left
  then only from the holders. The history `exposed` is of managers and the counts are of
  handles; `Together` says that the holders of a handle are exposed all or none.
  `HolderMore` and `HolderLess` say how a step changes the number of holders.
  `FunctionsStayLoaded` follows, and from it, for programs that neither copy nor assign
  managers, `WithoutCopiesAllLoaded`, in which there is no exception.
* **SingleChainProofs.** `TypeCorrect`, `AndBack` and `NothingLeaks`, for a chain of any
  depth. `IInv` adds to the types that the weak pointer of a lower leads to the node that
  owns it (`Linked`) and that the living have an owner (`AliveByOwner`). `get_lower` and
  `get_upper` are recursive functions, of which a prover knows nothing until it is
  shown that there is a function with their equation. `WalkEnds` shows that for any walk
  that comes nearer to its end with each step, by `Induction`, which is stated for a set
  of numbers and not for an operator and follows from `WFMin`; `GetLowerStep` and
  `GetUpperStep` are then the equations. `WalkDown`, `WalkUp` and `BackUp` use them: what a
  walk finds has the class that was asked for and is alive, and the way back from it
  passes the nodes of the way down.
* **StringsProofs.** `SplitLosesNothing` and `JoinLosesNothing`, with no induction over
  data: the loop's own steps are the induction. `Slices` says that a sequence of
  positions cuts a text into the members of a list with delimiters in between, and
  `IInv` that what a loop has done so far is such a cut (`SplitSoFar`, `JoinSoFar`), that
  a text and a list which `agree` have one, and that splitting a text with a cut into
  members without the delimiter follows that cut (`BackSoFar`). The last needs the
  lemma `NoEarly`: where the delimiter does not overlap itself, no occurrence begins
  inside a member that does not contain it. `SplitAgain` and `ReplaceJoinsPieces` need
  an invariant of their own, `AgainInv`, since a text can be cut in more than one way: the
  cuts that a split makes are at the first occurrences (`SplitAt`), so that a second
  split, and a replace, follow them (`AgainSoFar`, `ReplaceSoFar`, `NextMember`). `Followed`,
  in which the last property is stated, exists as the walks of the chain do
  (`FollowedStep`). With that invariant there is also an answer to what `split` returns:
  the text cut at the first occurrences (`SplitCutsAtFirst`), which is one list and no
  other (`SplitIsUnique`, by `Induction`), and no member of it contains the delimiter
  (`PiecesAreClean`).

Only model-checked: everything that must eventually happen (`StopReturns`,
`DestructorReturns`, `IdleRuns`, `NeedStopEnds`, `StopReturnsOrHangs`, the fairness part of
`Refines`),
because the provers have no rule for liveness under fairness, and of `OnlyKnownHangs`
the part that is about ENABLED: that `CanGo`, the guards of `Going`, says when a step of
`Going` is possible. The rest of it, `GoesOn`, is `NobodyElseHangs`. Every other property of
a passing run has a theorem.
`HandlersGetTheirNode` is proved under `Documented`, and `StopReturnsStopped` and
`NoEventAfterDestroy` for one queue: the usage and the order in which their runs check
them too. Two properties that a run finds violated are proved for the usage that does not
violate them: `InitCompletes` under `Documented` (`InitRight`), and under `OnlyStopEnds` that
the signal comes for which `stop()` waits in `thread_hang` in vain (`SignalNotLost`).

## What is not modelled

* `toStr` of `string/string.hpp`: it formats numbers and lists of them.
* `ptr_to_void.hpp`: find or create in a map, one step.
* `tuple/*`, `preprocessor/*`: nothing of them runs.
* In the modelled parts: exceptions other than the ones named, a failing allocation or
  thread creation, errors of the timer other than a cancelled wait, methods called
  during a destructor, `operator=` called on a thread worker by one of its own functions,
  names with a dot in the registry, writing
  to a node's sets or to a chain's links past the class's methods, moving or copying workers
  while they run beyond `operator=`.

## Plan

Done: every component that changes state in more than one step is modelled and
checked, every safety property of a run has a theorem but for the part of
`OnlyKnownHangs` that speaks of ENABLED, and both workers implement an abstract
specification of what their users may rely on. Of their liveness, what can be said
of states and steps is proved: that a step towards the end of each `stop()` is
possible, and that no step leads away from it.

Open, for whoever goes on: what `trim` returns, stated as `split`'s result is; callbacks
that throw; and a program that uses two components at once, of which the repository has
none.
