# FlexRIC and the slice scheduler, in TLA+

This directory is a verification development for the programs of this
repository: the near-real-time RIC, its iApp, the xApp library and the E2 agent
(`src/flexric`), and the UE scheduling policies that the project adds to the
srsRAN gNB (`src/srsRAN_Project/lib/scheduler/policy`). It holds TLA+ modules
translated from the C and C++ sources, TLC configurations that check them on
small instances, and theorems checked by TLAPS for every instance.
`PROJECT.json` lists the components, the runs, the source lines behind every
definition, the faults each property detects, the hazards, the findings and the
theorems.

## 1. The system

```
 xApp process                       near-RT RIC process                 E2 node
 +----------------------+  E42      +----------------------------+  E2   +--------------+
 | main (UI) thread     |  SCTP     | iApp thread                |  SCTP | agent thread |
 |   report/rm/control  |---------->|   map_ric_id (rwlock)      |       |  ind_event   |
 |   sync_ui (cond var) |           |     | calls                |       |  pipe, queue |
 |   SIGINT handler     |           |   near_ric: req ids,       |------>|      ^       |
 | event loop thread    |<----------|   pending (mutex, timerfd) |       |      |       |
 |   act_proc, pending  |           | event loop thread --task-->|<------| RAN threads  |
 | dispatcher thread    |           | worker threads (task pool) |       +--------------+
 |   tsn_queue          |           |   addresses, registries    |
 +----------------------+           +----------------------------+
 gNB scheduler (one thread per cell): slice scheduler <-> policy (round robin | AI)
```

| Component | State | Operations | Interacts by |
|---|---|---|---|
| Task manager (`util/alg_ds/ds/task_man`) | a ring, mutex, condition variable and `done` flag per worker; an atomic index | `async_task_manager`, `worker_thread` (steal a batch, or sleep), `free_task_manager` | shared memory; the RIC event loop submits one task per E2 message |
| xApp, synchronous calls (`e42_xapp.c`, `sync_ui.c`, `act_proc.c`, `pending_event_xapp.c`) | registry of procedures, pending events with timers, `flag_sync`, `msg_ack` | `report_sm`, `rm_report_sm`, `control_sm`; answers; timers | UI thread and event loop through a condition variable; E42 messages |
| xApp, dispatcher and end (`msg_dispatcher_xapp.c`, `tsn_queue.c`, `e42_xapp_api.c`) | a queue with its stop token, `stop_token` | push, wait and pop, callback, `try_stop_xapp_api`, `sig_handler` | event loop -> dispatcher -> callback; main thread and its signal handler |
| iApp (`ric/iApp`) | `map_ric_id` (RIC request id <-> xApp request), xApp addresses and ids, registry of nodes | E42 setup and requests, answers to xApps, loss of an xApp | called by the iApp thread and, for answers, by workers; calls the RIC |
| near-RT RIC (`near_ric.c`, `msg_handler_ric.c`, `map_e2_node_sockaddr.c`) | request id, pending events with timers, node addresses, `conn_e2_nodes` | setup, forward, answer, timer, loss of a node | event loop, workers and iApp thread share `pend_mtx`, `conn_e2_nodes_mtx` and the map locks |
| E2 agent (`agent`, `lib/ind_event.c`) | subscriptions with their timers, pending set-up, pipe and queue of aperiodic indications | setup, subscription, deletion, indications, stop | E2 messages; RAN threads through a pipe; epoll |
| Slice scheduler and policies (gNB) | allocation counters and marks (RR), contexts with averages and `wait_slots` (AI) | rank, grant, save grants, add and remove UE | calls within one thread per cell |
| Containers (`assoc_reg`, `bimap`, `seq_ring`, `reg_e2_nodes`) | trees, maps, rings | insert, extract, find | used by everything above |

What is hard in it, and what correctness means for each part:

* *Task manager.* Workers steal with `trylock` while submitters fall from one
  queue to the next, signals come after the unlock, and shutdown races with
  sleep. Every accepted task must be executed exactly once, no worker may sleep
  on work that nobody will announce, and `free_task_manager` must return.
* *xApp calls.* The answer may be handled before the caller sleeps, before the
  request is recorded, or after the caller's deadline. Registry, pending events,
  handles and the subscriptions at the RIC are four records of the same thing.
* *Dispatcher and end of an xApp.* Indications arrive while reports are removed
  and the queue is stopped and freed by another thread, or by a signal handler on
  top of it. Callbacks must run once and in order, none must be lost by an orderly
  stop, nothing may be used after its release, and the stop must end.
* *RIC and iApp, requests.* A request crosses three threads and two maps under two
  locks; answers are handled by parallel workers, in any order. xApps and nodes
  vanish in between, timers expire. No answer may reach the wrong call, each
  pending event must have exactly one answer to come, every call must be answered.
* *RIC and iApp, who is connected.* Parallel tasks fill three tables that the
  event loop clears, under three locks; set-up requests are repeated. The tables
  must agree, ids must be unique, and every xApp must hear of every node.
* *E2 agent.* An indication is queued and announced in two steps by threads the
  loop does not wait for; descriptors are edge triggered, closed and used again;
  the RIC may stop and start while subscriptions live on.
* *Policies.* A UE that could be served must get its turn although counters wrap,
  UEs come and go and grants are cancelled after they were counted.

The full list, each at its line, is under `hazards` in `PROJECT.json`.

## 2. Modules

| Module | Models | Composition |
|---|---|---|
| `TaskPool` | abstract promise of the task manager | implemented by `TaskManager` |
| `TaskManager` | `task_manager.c`, and the order in which `near_ric.c` stops it | `Pool == INSTANCE TaskPool` is the refinement |
| `XAppSync` | UI thread and event loop of an xApp in its calls, against a RIC that answers | |
| `XAppDispatch` | event loop, dispatcher and main thread of an xApp from indication to callback, and its end | starts where the calls of `XAppSync` have returned; indications come as `E2Agent` sends them |
| `RequestService` | abstract promise of RIC and iApp to the xApps, and of an xApp to them | implemented by `RicIApp` |
| `RicIApp` | iApp thread, RIC event loop, workers, nodes and xApps in a request | takes each xApp as `XAppSync` leaves it (one call at a time, stops at an unexpected answer) and each worker as `TaskPool` promises (every task runs once, in any order); `Service == INSTANCE RequestService` is the refinement |
| `RicNodes` | set-up of nodes and xApps, loss of a node, the updates sent by workers and event loop | workers as in `TaskPool`; composes E2 nodes, event loop, workers, iApp and xApps |
| `E2Agent` | the agent's event loop, its timers, pipe and queue, and the RAN threads | the RIC outside as `RicIApp` and `RicNodes` have it |
| `SlicePolicy` | one downlink slot of a slice, under `scheduler_time_rr` or `scheduler_time_ai` | |
| `TaskManagerProofs`, `XAppSyncProofs`, `XAppDispatchProofs`, `RicIAppProofs`, `RicIAppServiceProofs`, `RicNodesProofs`, `E2AgentProofs`, `SlicePolicyProofs` | theorems (section 6) | each extends its module; `RicIAppServiceProofs` extends `RicIAppProofs` |
| `MC*` | bounds of the runs | |

An assertion that fails in the code sets `abort` (in `RicNodes` also the state of
the xApp whose assertion it was) to a name of it and nothing happens any more:
`assert` ends the process, and the properties say which of them may fail and why.

### TaskManager

`queue`, `mtx`, `done` are the fields of `not_q_t`; `index` is `man->index`.
`wpc`, `spc`, `fpc` say where each worker, submitter and the closer are;
`wi`, `si`, `fi`, `ticket`, `batch` are their locals. A critical section is two
steps, taking the mutex and body-with-unlock, so that a `trylock` of another
thread may fail in between; `pthread_cond_signal` is a step of its own because
the code signals after the unlock. `Async`, `TryPushBusy`, `PushLock`, `Push`,
`Signal` are `async_task_manager` and `push_not_q`; `ProbeBusy`, `ProbeLock`,
`TryPop*`, `Pop*`, `RunTask` are `worker_thread`; `FreeStart`, `Done*`, `Join*`
are `free_task_manager`. A spurious wake-up is an action. The ring is a
sequence. `near_ric.c` stops the event loop, the only thread that submits, before
it frees the pool, hence the guards of `Async` and `FreeStart`.

`TaskPool` has four actions: submit, execute once, close, drop what was not
executed when the manager is freed. The refinement maps the tickets drawn to
the submitted tasks, and `ran` and `lost` to executed and dropped.

### XAppSync

One UI thread (the C examples call the API from `main`), the event loop and a
RIC that answers each request once, or within `MaxDelay` seconds. `procs` is the
registry, `pending` with `left` the timers in seconds (5 s for a subscription,
10 s for delete and control), `flag`/`msg_ack` the hand-over, `uleft` the
caller's 6 s. The three steps of a request (add the pending event, send; for a
delete the reverse), clear-the-flag-and-wait, and the two halves of the answer
handler (stop the timer, signal) are separate actions. `Tick` lets a second pass
only while both threads sleep and no timer is due, so a thread is never slow by
a second, and the timing findings do not depend on slow threads. Messages in
flight form a set: two equal messages cannot be under way, since the id of a
request is unique. `prompt` is history: every answer so far found its caller
asleep and came within `PromptDelay` seconds; `NoAbort` and `CallsReturn` are
claimed under it, the other properties without.

### XAppDispatch

`procs` is `act_proc`, `queue`, `holder`, `qstop`, `qstopped`, `qfreed` the
fields and the mutex of `tsnq_t`. `FindProc`, `CopyNode` and `Push` are
`e2ap_handle_indication_xapp` of the event loop: it copies the active procedure under the
lock, reads its node id after the lock, and pushes. `Disp*` are
`worker_thread` of `msg_dispatcher_xapp.c` with `wait_and_pop_tsnq`; testing the
condition and falling asleep are two steps with the mutex held, so that a token
set without the mutex (`SetToken`, `tsn_queue.c:58`) may fall between them.
`RmReport` and `RmReportReturns` are the removal of a report; `TryStop`, `ReadSize`,
`LoopStopped`, `FreeSync`, `SetToken`, `SignalStop`, `FreeQueue`, `Join` are
`try_stop_xapp_api` and what it frees, in its order. The main thread has two
frames: `Interrupt` starts `sig_handler` on top of whatever `main` was doing, and
the frame below does not go on until the handler ends, which it never does.
`orderly`, `late`, `calm` are history: no report was left when the size of the
queue was read last, an indication found its report after the delete answer, and
no SIGINT has come amid an API call.

### RicIApp

`map` is `map_ric_id` with `wlock` its write lock (the iApp holds it from the
forwarding of a request to its entry in the map: `IRequest` .. `IAdd`),
`pending` is `ric->pending`, `nextId` is `ric->req_id`, `sock` and `reg` are the
node addresses of the RIC and the iApp's copy of the nodes. A task is one
answer or indication handled by a worker in up to four steps: `TStop` (timer),
`TFind` (read lock), `TSend`, `TRemove` (write lock). `LExpired`/`LTimer` are an
expired timer; `LShutdown`/`LForget` the notification of a lost node (the update it
sends to the xApps is in `RicNodes`: here an xApp may ask for any node). The loss
of an xApp reaches the iApp only when a message to it fails (`SendFailed`,
`IGone`). `Matches` keeps the comparison of `eq_xapp_ric_gen_id` as it is
written, `m0->xapp_id` against itself. `XAppsMayDie`, `NodesMayLeave` and
`LateAnswers` switch the faults of the environment.

`RequestService` is what an xApp sees of all this: it asks, a node starts or stops
to serve a subscription, one answer is sent, the call returns. A subscription is
answered only when some node serves it (or one has left), a deletion only when
none does any more; a served subscription stops only by a deletion of its own xApp, by
the loss of the xApp or of the node. `map_ric_id`, pending events, RIC ids and
tasks do not occur in it. The refinement reads `serving` off the tables of the nodes
(`Serving`) and `answers` off what is under way to a live xApp (`Returning`).

### RicNodes

`e2` is the E2 socket, `tasks` the set-up requests in the hands of workers, each
with the step it is at: `TaskAddress` (`e2ap_reg_sock_addr_ric`), `TaskAdd`
(`add_e2_node_iapp`), `TaskPush` .. `TaskUnlock` (the section of
`conn_e2_nodes_mtx`, in which every xApp counted is told in turn) and `TaskSend`.
`LoopShutdown`, `LoopErase`, `LoopForget` are `notification_handle_ric` for a lost
association, run by the event loop itself: three tables, three locks. Then the loop
tells the xApps of the loss (`rm_e2_node_iapp` notifies the iApp as after a set-up,
`e42_iapp.c:332`): `LoopCount`, `LoopCopy`, a `LoopTell` for each xApp counted and
`LoopTold` are steps of their own and hold no mutex, since `conn_e2_nodes_mtx` was
released at `not_handler_ric.c:53`; workers, iApp and xApps act between any two.
Worker and loop send the update by the same operator, `SendUpdate`.
`addrs` keeps an entry for each request handled because the bimap has equal keys.
`IAppSetup`, `IAppRegister`, `IAppAnswer` answer an xApp: the registry is copied,
then the id is entered, then the answer sent. `XAppAsks` is the request and its
repetition by the one-second timer, `XAppSetup`/`XAppUpdate` the two messages an
xApp reads. Every fault of the environment (a repeated request, a node that leaves
unanswered, an xApp that ends) costs one of `MaxFaults`; associations are bounded
by `MaxStarts`. `kept` is history: every node has asked once and left only after
its answer. `behind` records the xApps whose answer was sent after an update, by a
worker or by the loop. `missed` holds the pairs of an xApp and a node lost by one of
two races, until the xApp is sent another update: its answer was prepared before the
node was pushed and registered after, or the loop sent it a copy made before the node
was registered (`late`: the nodes registered since the loop made its copy).

### E2Agent

`table` is `ind_event` (a bimap whose left key is the descriptor of the timer, 0
for aperiodic subscriptions), `pending` the timers of unanswered set-up requests,
`queue` and `bytes` the aperiodic queue and the pipe, `ready` the ready list of
epoll, with edges: a descriptor enters the list when something arrives and leaves
it when the loop is woken for it. A turn of the loop takes one event, and from the
socket one message. `OnSubscription` and `RegisterSubscription` are the two halves
of the subscription handler (the RAN function is called in between),
`DeleteRequest`, `FreeSubsAperiodic` and `ExtractSubscription` of the delete
handler. `LookUp`, `PushIndication`, `WritePipe` are the three steps of a RAN
thread; `TakeQueue`, `SendAperiodic`, `ReadPipe` empty the queue and read four
bytes an indication. `NewFd` is the lowest free descriptor, as the kernel has it,
so a number is used again. The RIC outside subscribes, deletes, stops and starts
again with its first request id. `kept` is history of the environment: it answers
a set-up within three seconds, stops only when its messages have been read, and
the RAN does not report across the removal of a subscription.

### SlicePolicy

`policy` is the alternative of the configuration, chosen initially; `allocCount`
and `last` are the counters of round robin, modulo `CountMod` for the unsigned
type; `wait` is `wait_slots` of the AI policy, saturating where its bonus does.
A slot is one step, as in the single-threaded scheduler: some of the UEs can be
allocated, the highest priorities are granted, each grant is sent, empty (no
code rate fits) or cancelled (no resource blocks left), and the policy saves
what it is told. The code reports cancelled grants too, whose `ue_index` and
codeword were never written: the model has both outcomes, the failed bounds
check of a build with assertions (`halted`), or a grant charged to UE 0. The
score of the network and the rates are an arbitrary member of `Scores`. `missed`
is history: the slots in a row that a UE which could be served lost to others.

## 3. Runs

| Run | Question | Instance |
|---|---|---|
| `pool` | no task lost or run twice, no lost wake-up, `free_task_manager` returns; `TaskPool` and its liveness are implemented | 1 submitter, 2 workers, 3 tasks, batches of 2, fair |
| `xapp_any` | the four records agree whatever the delays are; with prompt answers no assertion fails and every call returns | 1 UI thread, 3 requests, answers after 0 to 10 s, fair |
| `xapp_early` | *violation*: an answer handled before the flag is cleared is forgotten | 2 requests, answers within 4 s |
| `dispatch` | callbacks once and in order, no use after release but the one known, the stop ends | 2 reports, 2 indications, SIGINT at any step, fair |
| `iapp_prompt` | while nobody vanishes: no assertion fails, held subscriptions are served, every call is answered; `RequestService` is implemented | 2 xApps with 2 requests each, 1 node, fair |
| `iapp_any` | xApps and nodes vanish, timers expire: pending events are accounted for, failures have a cause | 2 xApps with a request each, 1 node, 1 indication |
| `iapp_shared` | *violation*: two xApps with the same RAN function; a delete finds the other's subscription | as `iapp_prompt`, 1 indication |
| `nodes` | the tables agree, ids are unique, every xApp hears of every node, nobody waits for ever | 2 nodes, 1 xApp, 2 associations, 1 fault |
| `agent_any` | assertions fail only for known reasons, held subscriptions are registered, pipe and queue match, indications keep their order | 2 request ids, a periodic and an aperiodic function, 2 indications each |
| `agent_life` | requests are answered, set-up is asked for again after a loss, indications leave the queue | 1 request id, 1 restart of the RIC, stop of the agent, fair |
| `slice_turns` | round robin passes a UE over at most `2(N-1)` times in a row | 3 UEs, 3-bit counters, 2 grants a slot |
| `slice_wait` | *violation*: the AI policy never counts the wait of a UE it passes over | as above |

Why the bounds are enough for what they ask.

* *pool.* One submitter and two workers give every pair of threads that can meet
  at a mutex, and each worker both roles of a steal; three tasks with batches of
  two make a batch of several tasks, a queue with a rest and a task that arrives
  meanwhile. (The theorems are for every size.)
* *xapp_any.* Three requests let a call of each kind follow one that failed or
  timed out; ten seconds are the longest timer, longer than the caller's six.
  (Theorems for every number of requests and every delay.)
* *dispatch.* Two reports let one be removed while the other lives; two
  indications let one be queued while one is called. (Theorems for every number.)
* *iapp_\**. Two xApps use the same request ids on purpose (each numbers its own);
  the bound on RIC ids is never reached before every request was issued, so it
  blocks nobody. In `iapp_any` a request for each xApp, the deletions the iApp adds
  and one indication make the overtakings: more of them only repeat it. (Theorems
  for every number of xApps, nodes and requests, but for `CallsAnswered`.)
* *nodes.* Two associations: of two nodes at once, or of one node after another.
  One fault, because each of the races needs one: a repetition, an early
  departure or the end of an xApp; the race of the loop's older copy needs none (one
  node leaves, the other is set up before the copy is sent). The properties were also
  found to hold with two xApps, one node and one association, with one node, two
  associations and two faults, and with one node, three associations and one fault. (Theorems for every number, but
  for the half of `NobodyWaits` that is about ENABLED.)
* *agent_any, agent_life.* Two request ids, of which both may be aperiodic, give
  two RAN threads and the equal keys in the bimap; two indications each give an
  order to keep. The restart needs one id only, used in both lives. (Theorems for
  every number, but for the liveness properties.)
* *slice_turns.* Three UEs let two overtake the third at different times; counters
  of eight values wrap around several times within a run, where the code's 32 bits
  would need 2^32 slots. (A theorem for every number of UEs below the number of
  counter values. TLC refutes the formula for three UEs with two or three values, so
  the hypothesis is needed.)

Symmetry. `iapp_any` permutes the xApps: their ids are only compared between xApps
that use the same RAN function, and in this run each has its own. `nodes` permutes
the nodes: no two are ever compared but for equality. Neither run has a liveness
property, and neither module chooses an xApp or a node with CHOOSE in a way that
prefers one (`FoundId` chooses a position).

Deadlock checking is off because every system here may stop: callers need not
call again, the bounds on tasks and ids end, and a failed assertion ends the
program. That things do not stop too early is the purpose of the liveness
properties and of `NobodyWaits`, which says it without fairness: when loop,
workers, iApp and xApps can do no more, everybody has been answered.

Each property is paired in `PROJECT.json` with a plausible fault of one
definition (a missing signal, a lock not taken, a key compared incompletely, a
signed instead of an unsigned difference) that makes TLC report it violated.
The faulty definitions stand in front of the ones they alter, are marked "fault"
and are used nowhere else.

## 4. Fairness

Every thread that can take a step keeps taking steps: the OS schedules the
threads, and a mutex is held for a few steps only.

* `TaskManager`: weak fairness for each thread; a blocking `pthread_mutex_lock` is
  strongly fair, since the mutex is free again and again. Nothing is assumed of
  `trylock` or of spurious wake-ups.
* `XAppSync`: the threads run, requests are answered in the end and time passes.
  How often the application calls is its own business.
* `XAppDispatch`: strong fairness for event loop, dispatcher and each frame of the
  main thread, for the mutex of the queue they take in turn; a callback returns and
  the RIC answers a delete. `StopEnds` needs that the RIC sends no more at some
  point, which the bound `MaxInd` gives: an application that is stopped while
  reports stay active polls as long as the queue is never found empty.
* `RicIApp`: threads run, nodes and xApps handle what they receive, and every task
  gets a worker, which is what `TaskPool` and the run `pool` establish. Requests,
  losses and timeouts are not owed.
* `E2Agent`: the loop and a RAN thread within a call run; the timer of the set-up
  request is periodic; the network acknowledges; the RIC comes back and answers.

## 5. What the runs found

* `sync_ui.c:71`: the flag is cleared after the request was sent. An answer that
  the event loop handles first is forgotten; the caller times out after 6 s on
  what the code calls an unforeseen path (`xapp_early`).
* `xapp_ric_id.c:29`: the xApp id is compared with itself, so a delete may hit
  another xApp's subscription (`iapp_shared`).
* `scheduler_time_ai.cpp:454`: waiting is counted only for UEs that are granted,
  where a comment and commented-out code mean the opposite (`slice_wait`).

The models contain more behaviour that a reader of the code may not expect. It has
no run of its own; the properties `FailuresForeseen`, `NoAbort` and the histories
named with each module say exactly when it happens.

* xApp calls: the answer to a delete may arrive before `msg_handler_xapp.c:566`
  has recorded it, and answers to a delete or control between the caller's 6 s and
  their 10 s timer find the caller gone.
* End of an xApp: a late indication may read a node id that `rm_report` has freed
  (`msg_handler_xapp.c:277`); a callback may still run after `rm_report` returned;
  a stop with active reports loses the indications behind its test of the queue;
  `sig_handler` amid `try_stop_xapp_api` frees twice or waits for a mutex of its own
  thread.
* Requests: an expired timer makes the event loop consume a descriptor that was
  never set, and an assertion stops the RIC (`near_ric.c:453`); a node that leaves
  while a request for it is being forwarded (`map_e2_node_sockaddr.c:154`); a
  response overtaken by the deletions for a lost xApp (`msg_handler_iapp.c:97`).
* Who is connected: a repeated set-up request of a node, or the loss of one that
  was not answered yet, stops the RIC (`node_exists`, `no_address`,
  `addresses_differ`, `node_not_found`); an update that overtakes the answer to an
  xApp's set-up, sent by a worker or by the loop, stops the xApp; an xApp entered in
  the map while a node is set up may hear of that node in neither answer nor update
  (`e42_iapp.c:206`); and on the loss of a node the loop copies and sends the registry
  without `conn_e2_nodes_mtx`, so its copy may arrive after that of a worker which
  has set up another node meanwhile, and take that node from the xApp
  (`e42_iapp.c:333`). The last two are mended by the next update to the xApp;
  `NodesAnnounced` excuses exactly these pairs (`missed`).
* E2 agent: four bytes are read for an indication whatever its digits, so request
  ids of five digits shift the pipe (`e2_agent.c:332`); a report for a subscription
  that is being deleted ends in an assertion (`e2_agent.c:646`), as does the removal
  of one of several aperiodic subscriptions, whose left keys are equal
  (`msg_handler_agent.c:245`), and a second loss of the association before the
  set-up is answered (`not_handler_agent.c:19`); the subscriptions of a lost
  association stay (`not_handler_agent.c:15`); with one message read for an edge
  (`asio_agent.c:89`) a request and the notice of a loss may stay unread.
* Policies: a cancelled grant is reported to the policy with fields that were never
  written (`intra_slice_scheduler.cpp:544`).

## 6. What is proved

All theorems are about `Spec` without fairness, for every value of the constants
that the named assumptions admit (bounds are natural numbers, names of threads are
distinct). Types are proved first, since the provers know of a variable only what
an invariant says.

`TaskManagerProofs`, any number of workers, submitters, tasks and any batch size:

* `TypeCorrect == Spec => []TypeOK`. The invariant is `TypeInv`, `TypeOK` with
  `LocalInv`: a submitter still in its trylock loop has a queue left to try and
  holds a ticket below `man->index`, and a worker runs tasks exactly while its
  batch is not empty.
* `NoWakeupIsLost == Spec => []NoLostWakeup`: inductive together with `TypeInv`; one
  case per action. `Push` and `DoneSet` create the obligation and move their thread
  to its signal, `Signal` discharges it, and `PopWait` can sleep only on an empty,
  unfinished queue it has locked.
* `NoTaskLostOrDuplicated == Spec => []ExactlyOnce`. `ExactlyOnce` counts the
  places of a task and is not inductive: that a batch copied out of a ring is new
  to the batches depends on no other queue or thread having those tasks. `OnceInv`
  says it by sets: `Held`, `Queued`, `Batched`, `ran` and `lost` are pairwise
  disjoint, together they are the tickets drawn, and no task has two positions.
  `Closing` adds how far `free_task_manager` is.
* `PoolImplemented == Spec => ImplementsPool`, the refinement: under `OnceInv` the
  tasks the pool owes are those held, queued or batched; `Async` submits, `RunTask`
  executes, `FreeStart` closes, `JoinLast` drops, every other step is a stutter.
* `NoDeadlock == Spec => [](NobodyMoves => AllIsDone)`: if every thread sleeps, is at its
  end, or waits for a mutex or a join, then no mutex is held, the calls of
  `async_task_manager` have returned, what they accepted has been executed or was freed,
  and `free_task_manager` has returned if it was called. It is what `FreeReturns` has
  to do with order, without fairness. `MutexHeld` (a mutex is held only between lock
  and unlock of one function, and no thread takes a second one there) excludes a
  circle of threads, `Stopping` (which flags are raised, and that a worker leaves only
  by its flag) a join that never ends, `NoLostWakeup` a worker asleep on a task.

`E2AgentProofs`, any RAN functions, request ids, indications and lives of the RIC:

* `PipeAgrees == Spec => []PipeMatchesQueue` and `PipeAssertionsHold`, for request ids
  of four digits: the loop never finds the queue empty when the pipe wakes it and never
  reads a single byte. The invariant counts the RAN threads between push and write.
* `TypeCorrect`, `HeldAreRegistered == Spec => []HeldIsRegistered` and, with request
  ids of four digits, `OnlyForeseenFailures == Spec => []FailuresForeseen`. The
  inductive invariant is `AgentInv`. `Timers`: no descriptor number is in use twice, so
  what `epoll` reports belongs to what was registered under it. `SetupTurns`: answers to
  set-up requests and losses of the association take turns in the socket. `Requested`: a
  request under way belongs to an earlier life of the RIC or is the one thing that
  stands for its id. From it follow `Granted` (a grant on its way finds its
  subscription in the table) and `Reported` (the RAN reports for nothing that was taken
  out). `LooksForOwn` and `SetupInTime` hold while the environment keeps its manners,
  and exclude the assertions that `FailuresForeseen` says come from nothing else.
* `IndicationsInOrder == Spec => []SentInOrder`, for request ids of any length.
  `Ordered` follows the indications of a subscription from the RAN thread that numbers
  them through the queue and the hands of the loop to the socket: the numbers grow
  towards the thread, within each of these places and from one to the next.
* `NothingLeftBehind == Spec => [](Running /\ NobodyMoves => Settled)`, for request ids of
  four digits: when the loop waits, no RAN thread is in a call and no acknowledgement is
  to come, the loop is in `epoll_wait`, queue and pipe are empty and, while the
  environment keeps its manners, every message has been read, every request has been
  answered and a set-up that is to be asked for has its timer. `epoll` is edge triggered
  and the loop takes one event and one message a turn, so this is no matter of course:
  `PipeTold` and `SocketTold` say that the loop has been told of what is left (a message
  behind the one it reads is announced again by the acknowledgement of its answer),
  `Underway` that what the RIC waits for is a message or in the hands of the loop.

`XAppSyncProofs`, any number of requests, any delays, one thread in the API
(`UIs = {Caller}`; with two threads the flag and the condition variable of
`sync_ui.c` serve the wrong one, hazard `sync_ui.c:90`):

* `TypeCorrect`, `PendingHasProcedure == Spec => []PendingIsRegistered`,
  `RecordsAgree == Spec => []SubscriptionsAgree`, `AssertionsHold == Spec =>
  []RegistryAssertsHold`. None is inductive. `CallInv` follows the one answer of a
  call: `Carried` says where it may be (not sent, with the RIC, in the socket,
  handled), `HandedOver` when flag and `msg_ack` hold it, `Timed` that a timer runs
  only for the current call, `Recorded` what registry, handles and the RIC's
  subscriptions differ in while the call is at each step.
* `PromptAnswersSuffice == PromptDelay < 5, Spec => []NoAbort`, by `InTime`: clocks of
  caller and timer against the age of the answer.

`XAppDispatchProofs`, any number of reports and indications:

* `TypeCorrect`, `OnlyForeseenFailures == Spec => []FailuresForeseen`,
  `CallbacksAreExact == Spec => []CallbacksExact`. The invariant says what each
  frame of the main thread and each other thread may be doing while the xApp is
  freed: with `calm` at most one frame stops the xApp, the event loop has ended
  before the queue is freed, the dispatcher has let go of the mutex, and what was
  pushed is called, in hand or queued unless the queue is freed.
* `NobodyIsStuck == Spec => [](Alive /\ calm /\ NobodyMoves => AtRest)`, the part of
  `StopEnds` and `IndicationsCalled` that is not about fairness: a live xApp in which
  nobody can move is one whose application may call the API. `Asked`: whoever waits in
  `rm_report` has its answer with the RIC, in the socket or handled. `Tokens`: the
  tokens are set by a frame that goes on to free the xApp. `Wakeups`: the dispatcher
  sleeps on an empty queue, and if the token is set, a frame is about to signal it,
  although `tsn_queue.c:58` sets the token without the mutex.

`RicNodesProofs`, any number of nodes, xApps, associations and faults:

* `TypeCorrect`, `AgreeingTables == Spec => []TablesAgree`, `OwnIds == Spec =>
  []IdsAreOwn`, `OnlyForeseenFailures == Spec => []FailuresForeseen`. The inductive
  invariant `NodesInv` has, besides types, `Filling` (a task that has entered its
  node in the registry is the only one that could), `InOrder` (the loss of an
  association is handled before the requests of the next), `IdsGiven` and
  `InOnePlace` (ids are given out in turn, and an xApp that asked once is in one
  place only), `AnswerFirst` (an xApp that is not behind reads its answer first) and
  `Manners` (while nodes keep their manners each is in exactly the tables that its
  task has filled, until its loss is handled). One step lemma per part, one case per
  action, one step per part of `Manners` that the action can disturb. None of the
  parts is implied by the properties: `TablesAgree` alone does not exclude a second
  task for a node that is about to be entered twice.
* `NodesAreAnnounced == Spec => []NodesAnnounced`. A second invariant, `Announcing`, rests
  on the first. `Holding`: one task at most is between copying and telling, and it holds
  the mutex. `Listed`: what it sends names every node that has been pushed, because
  nobody else can push one meanwhile. `Announced`: a node that has been pushed is known
  to the xApp once it has read its messages, or the task has yet to tell it, or the xApp
  has not been connected and everything it will read names the node. The last case is
  one reason for `missed`: an answer prepared before the push and registered after it.
  The other is the event loop, which `Holding` does not bind: `CopyWhole` says that
  its copy names every registered node but those in `late`, so each update it sends
  names the node or is excused for it (`AnnouncedRound`).
* `NobodyIsForgotten == Spec => [](Idle => AllAnswered)` (`Idle` includes that the loop has
  told the xApps of every loss), the part of `NobodyWaits` that is
  not about ENABLED. `Awaiting` says where the request or the answer of whoever waits is,
  and that the mutex is held only by a task that goes on.

`RicIAppProofs`, any number of xApps, nodes and requests, with every fault of the
environment unless a hypothesis excludes it:

* `TypeCorrect == Spec => []TypeOK`. Those of the next item assume `OwnRanFunc`: no two xApps use
  the same RAN function. The code does not guarantee it; without it they are false,
  since `eq_xapp_ric_gen_id` leaves the xApp out (`iapp_shared`).
* `AnswersAreExpected == Spec => []AnswerExpected` (a live xApp is only ever sent the
  answer to the call it is in; the refinement implies it), `OnlyForeseenFailures == Spec =>
  []FailuresForeseen`, `HeldIsServedAlways` (with `~NodesMayLeave`) and
  `NoAssertionFails == Spec => []NoAbort` (nobody vanishes, no timer expires).
* `PendingIsAccounted == Spec => []PendingAccounted`, which does not need `OwnRanFunc`.
  `OneAnswer` gives one direction; `Awaited` (while every node is connected, a pending
  event is being sent, waits at its node or has its answer in a task) the other. No two
  places hold the same request, so places and requests are counted alike, by a
  bijection (`SlotsCounted`).
* The invariant `Routing` follows a request through the four threads. `OneAnswer`: a
  pending event has at most one answer to come, whether waiting to be forwarded, at
  the node, or in a task. `Issued`: RIC ids are given out once. `Keys` and `Kinds`:
  what an xApp and its own id name, and of what kind it is. `OneCarrier`: the call of
  a live xApp is in one place at most. `Held`: what a live xApp holds has its entry in
  `map_ric_id` until the deletion is on its way back. `Lost`: only an xApp that
  vanished leaves an answer without an owner. `Placed`, `Fresh`, `Served`: the node of
  an entry serves it. `OneCarrier` and `Held` need each other: `rm_map_ric_id` removes
  by the xApp's key and not by the id of the answer, which hits the right entry only
  because no other call of that xApp is under way; and that no other is follows from
  the entry being the one it holds. `Directed`, `Located` and `Quiet` are there for the
  refinement: what concerns an entry goes to its node; a node serves only entries of its
  own; and none serves a subscription before it has its request or after it has
  answered its deletion. One lemma per part, one step per action.

`RicIAppServiceProofs`, under `OwnRanFunc`, with every fault of the environment:

* `NoCallIsLost == Spec => []NoCallLost`: while the nodes are connected, a call of a live xApp
  that has not returned is in a message, a thread or a task (`CallsCarried`; `OneCarrier`
  says that it is in one place at most). It is the part of `CallsAnswered` that is not
  about fairness, and it also holds when xApps vanish and timers expire, which the run
  `iapp_prompt` leaves out.
* `ServiceImplemented == Spec => ImplementsService`. An addition to a node's table is
  `Start`, a removal `Stop`; `TSend` is `Answer`, the receipt `Return`; everything else is a
  stutter, the deletions for an xApp that vanished included. The step that needs the
  invariant is `TSend`: what it sends is the answer to the call under way, nothing else is
  on its way to that xApp, and the call has had its effect at the node (`EffectFirst`),
  of which the thread that sends it knows nothing.

`SlicePolicyProofs`, any finite set of UEs:

* `TypeCorrect`, `EveryoneGetsATurn == Cardinality(UEs) < CountMod, Spec =>
  []RoundRobin`. `Behind(u)` are the UEs whose priority is lower than that of `u`. A
  slot that `u` loses goes to a UE with a higher priority, which then falls behind;
  nobody comes back in front but by the wrap-around of its difference. `Losses` counts: fewer
  slots than UEs behind, or, after one wrap-around of `u`, those and as many again.
  `Served` (somebody was served in the last slot, or nobody ever) and the hypothesis
  make a second wrap-around impossible before `u` has its turn.

What stays with TLC: liveness (`ImplementsFairPool`, `FreeReturns`, `CallsReturn`,
`CallsAnswered`, `IndicationsCalled`, `StopEnds`, `RequestsAnswered`, `SetupAsked`,
`IndicationsLeave`) and the first half of `NobodyWaits` (`~ENABLED (...) => Idle`: the
guards that `Idle` lists are all there are) are out of the prover's reach. What of them
is not about fairness is proved for five of the modules: `NoDeadlock`, `NobodyIsStuck`,
`NoCallIsLost`, `NobodyIsForgotten` and `NothingLeftBehind` say that nothing stops too
early. No run has these as properties of its own, since its liveness properties say more
of the same instance.
Every other property that a passing run checks is the statement of a theorem.

## 7. What is not modelled

* *E2 agent:* control requests (they keep no state), the build with `PROXY_AGENT`,
  handlers that only assert 0, the capacity of the pipe.
* *xApp:* several threads in the API at once (the examples call it from one), the
  negative answers (they assert 0), the database.
* *RIC and iApp:* the end of the RIC after its pool is freed (`near_ric.c:517`), the
  plugin, the subscribers inside the RIC, the 16-bit wrap of request ids; an update
  read by an xApp is one step, although the registry is emptied and refilled in
  pieces.
* *Containers:* the 32-bit indices of the ring; trees and maps are sets, functions
  and sequences, except where equal keys matter (`E2Agent`, `RicNodes`).
* *Policies:* uplink, the QoS policy, the choice of the UE group, rates, the network
  and the logs (an arbitrary score).
* Codecs and service models (generated ASN.1 and encoders, pure functions of a
  message), language bindings, the transport wrappers (their effect is kept: a
  failed send only prints), the example xApps and the emulated agents (they fix how
  the API is called), the rest of the srsRAN gNB (vendored), the dashboard (a web
  page over log files), the training of the network and the CI scripts.

Measured in lines, nearly all of the repository is of this last kind: generated
ASN.1 code, the SQLite sources and the vendored gNB. `PROJECT.json` names every
component and why.

## 8. What could come next

1. `SlicePolicy`: uplink, the rotation of the UE group
   (`intra_slice_scheduler.cpp:85`), the QoS policy.
2. An abstract subscription (requested, active, indications in order, deleted) that
   agent, RIC, iApp and xApp together implement.
3. The end of the RIC (`near_ric.c:517`) on top of `TaskManager`.
4. The ring and the trees as algorithms against sequences and functions, with 32-bit
   indices that wrap around.
