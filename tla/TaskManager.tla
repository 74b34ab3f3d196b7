---------------------------- MODULE TaskManager ----------------------------
(***************************************************************************)
(* The work-stealing task manager of the near-RT RIC                       *)
(* (flexric/src/util/alg_ds/ds/task_man/task_manager.c).                   *)
(*                                                                         *)
(* man->q_arr holds one queue, mutex, condition variable and "done" flag   *)
(* per worker thread.  A thread that submits a task draws a ticket from    *)
(* man->index, tries to push into LenThr queues with pthread_mutex_trylock *)
(* and falls back to a blocking push.  A worker first tries to steal a     *)
(* batch from any queue, also with trylock, and only then blocks on the    *)
(* condition variable of its own queue.  free_task_manager raises "done"   *)
(* on every queue and joins the workers.                                   *)
(*                                                                         *)
(* A critical section is two steps: the one that takes the mutex, and the  *)
(* one that does the body and unlocks it, so that a trylock by another     *)
(* thread can meet a held mutex.  pthread_cond_signal follows the unlock   *)
(* as a step of its own, as in the code.                                   *)
(***************************************************************************)
EXTENDS Integers, Sequences, FiniteSets

CONSTANTS
  LenThr,      \* man->len_thr: number of workers and of queues
  Submitters,  \* threads that call async_task_manager (near_ric.c has one)
  Closer,      \* the thread that calls free_task_manager
  NoThread,    \* the owner of an unlocked mutex
  MaxBatch,    \* capacity of ret_try_t.t (4096 in the code)
  MaxTasks     \* bound on the tasks submitted

ASSUME LenThrAssumption   == LenThr \in Nat \ {0}
ASSUME MaxBatchAssumption == MaxBatch \in Nat \ {0}
ASSUME MaxTasksAssumption == MaxTasks \in Nat
ASSUME ThreadsAssumption  ==
  /\ Submitters \cap (0..LenThr-1) = {}
  /\ Closer \notin Submitters \cup (0..LenThr-1)
  /\ NoThread \notin Submitters \cup (0..LenThr-1) \cup {Closer}

VARIABLES
  queue,   \* queue[k]: the ring r of not_q_t k, oldest task first
  mtx,     \* mtx[k]: the thread that holds the mutex of queue k
  done,    \* done[k]: not_q_t.done
  index,   \* man->index; the ticket a task draws is also its identity here
  wpc,     \* wpc[w]: where worker_thread w is
  wi,      \* wi[w]: the loop variable i of worker_thread w
  batch,   \* batch[w]: the tasks of ret that w has not executed yet
  spc,     \* spc[s]: where submitter s is
  ticket,  \* ticket[s]: the local index of async_task_manager
  si,      \* si[s]: the loop variable i of async_task_manager
  fpc,     \* where the closer is
  fi,      \* the loop variable i of free_task_manager
  ran,     \* the tasks whose func has been called
  lost     \* the tasks freed with their queue, never executed

vars == <<queue, mtx, done, index, wpc, wi, batch, spc, ticket, si, fpc, fi, ran, lost>>

Workers == 0..LenThr-1
Tasks   == 0..MaxTasks-1
Threads == Workers \cup Submitters \cup {Closer}

NumIt(w)   == 3 * (LenThr + w)                      \* num_it of worker_thread
ProbeQ(w)  == wi[w] % LenThr                        \* the queue a worker probes
SubQ(s)    == (si[s] + ticket[s]) % LenThr   \* the queue a submitter tries

\* Types of the state.  The loop variable of a worker stays below num_it, so that it
\* probes every queue and then blocks on its own.
TypeOK ==
  /\ queue \in [Workers -> Seq(Tasks)]
  /\ mtx \in [Workers -> Threads \cup {NoThread}]
  /\ done \in [Workers -> BOOLEAN]
  /\ index \in 0..MaxTasks
  /\ wpc \in [Workers -> {"probe", "try", "lock", "pop", "wait", "run", "exited"}]
  /\ wi \in [Workers -> Nat]
  /\ \A w \in Workers : wi[w] \in w..(NumIt(w)-1)
  /\ batch \in [Workers -> Seq(Tasks)]
  /\ spc \in [Submitters -> {"idle", "try", "lock", "push", "signal"}]
  /\ ticket \in [Submitters -> Nat]
  /\ si \in [Submitters -> 0..LenThr]
  /\ fpc \in {"open", "lock", "set", "signal", "join", "freed"}
  /\ fi \in Workers
  /\ ran \subseteq Tasks
  /\ lost \subseteq Tasks

Init ==
  /\ queue = [k \in Workers |-> <<>>]
  /\ mtx = [k \in Workers |-> NoThread]
  /\ done = [k \in Workers |-> FALSE]
  /\ index = 0
  /\ wpc = [w \in Workers |-> "probe"]
  /\ wi = [w \in Workers |-> w]
  /\ batch = [w \in Workers |-> <<>>]
  /\ spc = [s \in Submitters |-> "idle"]
  /\ ticket = [s \in Submitters |-> 0]
  /\ si = [s \in Submitters |-> 0]
  /\ fpc = "open" /\ fi = 0
  /\ ran = {} /\ lost = {}

----------------------------------------------------------------------------
(* async_task_manager, called by submitter s *)

submitterVars == <<index, spc, ticket, si>>
workerVars == <<wpc, wi, batch, ran>>
closerVars == <<done, fpc, fi, lost>>

AsyncAnyTime(s) ==     \* fault: submissions go on while the manager is freed
  /\ spc[s] = "idle"
  /\ index < MaxTasks
  /\ spc' = [spc EXCEPT ![s] = "try"]
  /\ ticket' = [ticket EXCEPT ![s] = index]
  /\ si' = [si EXCEPT ![s] = 0]
  /\ index' = index + 1
  /\ UNCHANGED <<queue, mtx, workerVars, closerVars>>

\* uint64_t const index = man->index++ (atomic); the for loop starts at i = 0.
\* near_ric.c stops its submitting thread before it frees the manager.
Async(s) ==
  /\ spc[s] = "idle"
  /\ fpc = "open"
  /\ index < MaxTasks
  /\ spc' = [spc EXCEPT ![s] = "try"]
  /\ ticket' = [ticket EXCEPT ![s] = index]
  /\ si' = [si EXCEPT ![s] = 0]
  /\ index' = index + 1
  /\ UNCHANGED <<queue, mtx, workerVars, closerVars>>

\* pthread_mutex_trylock of try_push_not_q fails: next queue, or the blocking push
TryPushBusy(s) ==
  /\ spc[s] = "try"
  /\ mtx[SubQ(s)] # NoThread
  /\ si' = [si EXCEPT ![s] = @ + 1]
  /\ spc' = [spc EXCEPT ![s] = IF si[s] + 1 < LenThr THEN "try" ELSE "lock"]
  /\ UNCHANGED <<queue, mtx, index, ticket, workerVars, closerVars>>

\* trylock succeeds, or the blocking lock of push_not_q is granted
PushLock(s) ==
  /\ spc[s] \in {"try", "lock"}
  /\ mtx[SubQ(s)] = NoThread
  /\ mtx' = [mtx EXCEPT ![SubQ(s)] = s]
  /\ spc' = [spc EXCEPT ![s] = "push"]
  /\ UNCHANGED <<queue, index, ticket, si, workerVars, closerVars>>

\* seq_ring_push_back and unlock, in try_push_not_q and push_not_q alike
PushNoSignal(s) ==     \* fault: returns without pthread_cond_signal
  /\ spc[s] = "push"
  /\ queue' = [queue EXCEPT ![SubQ(s)] = Append(@, ticket[s])]
  /\ mtx' = [mtx EXCEPT ![SubQ(s)] = NoThread]
  /\ spc' = [spc EXCEPT ![s] = "idle"]
  /\ UNCHANGED <<index, ticket, si, workerVars, closerVars>>

Push(s) ==
  /\ spc[s] = "push"
  /\ queue' = [queue EXCEPT ![SubQ(s)] = Append(@, ticket[s])]
  /\ mtx' = [mtx EXCEPT ![SubQ(s)] = NoThread]
  /\ spc' = [spc EXCEPT ![s] = "signal"]
  /\ UNCHANGED <<index, ticket, si, workerVars, closerVars>>

\* pthread_cond_signal: only worker k ever waits on the condition variable of queue k
SignalCv(k) == wpc' = IF wpc[k] = "wait" THEN [wpc EXCEPT ![k] = "lock"] ELSE wpc

SignalFirstTried(s) ==   \* fault: signals the queue of the ticket, not the one pushed to
  /\ spc[s] = "signal"
  /\ SignalCv(ticket[s] % LenThr)
  /\ spc' = [spc EXCEPT ![s] = "idle"]
  /\ UNCHANGED <<queue, mtx, index, ticket, si, wi, batch, ran, closerVars>>

Signal(s) ==
  /\ spc[s] = "signal"
  /\ SignalCv(SubQ(s))
  /\ spc' = [spc EXCEPT ![s] = "idle"]
  /\ UNCHANGED <<queue, mtx, index, ticket, si, wi, batch, ran, closerVars>>

----------------------------------------------------------------------------
(* worker_thread w *)

\* ++i of the stealing loop; when the loop ends, pop_not_q on the own queue
NextProbeTooFar(w) ==   \* fault: i <= num_it
  /\ wi' = [wi EXCEPT ![w] = IF @ + 1 <= NumIt(w) THEN @ + 1 ELSE @]
  /\ wpc' = [wpc EXCEPT ![w] = IF wi[w] + 1 <= NumIt(w) THEN "probe" ELSE "lock"]

NextProbe(w) ==
  /\ wi' = [wi EXCEPT ![w] = IF @ + 1 < NumIt(w) THEN @ + 1 ELSE @]
  /\ wpc' = [wpc EXCEPT ![w] = IF wi[w] + 1 < NumIt(w) THEN "probe" ELSE "lock"]

ProbeBusy(w) ==
  /\ wpc[w] = "probe"
  /\ mtx[ProbeQ(w)] # NoThread
  /\ NextProbe(w)
  /\ UNCHANGED <<queue, mtx, batch, ran, submitterVars, closerVars>>

ProbeLock(w) ==
  /\ wpc[w] = "probe"
  /\ mtx[ProbeQ(w)] = NoThread
  /\ mtx' = [mtx EXCEPT ![ProbeQ(w)] = w]
  /\ wpc' = [wpc EXCEPT ![w] = "try"]
  /\ UNCHANGED <<queue, wi, batch, ran, submitterVars, closerVars>>

\* the oldest min(size, 4096) tasks are copied to ret and erased from the ring
BatchLen(k) == IF Len(queue[k]) < MaxBatch THEN Len(queue[k]) ELSE MaxBatch

TakeKeepingLast(w, k) ==   \* fault: the range erased from the ring is one short
  /\ batch' = [batch EXCEPT ![w] = SubSeq(queue[k], 1, BatchLen(k))]
  /\ queue' = [queue EXCEPT ![k] = SubSeq(@, BatchLen(k), Len(@))]
  /\ wpc' = [wpc EXCEPT ![w] = "run"]

Take(w, k) ==
  /\ batch' = [batch EXCEPT ![w] = SubSeq(queue[k], 1, BatchLen(k))]
  /\ queue' = [queue EXCEPT ![k] = SubSeq(@, BatchLen(k) + 1, Len(@))]
  /\ wpc' = [wpc EXCEPT ![w] = "run"]

Unlock(k) == mtx' = [mtx EXCEPT ![k] = NoThread]

\* the body of try_pop_not_q under the mutex
TryPopEmpty(w) ==
  /\ wpc[w] = "try"
  /\ queue[ProbeQ(w)] = <<>>
  /\ Unlock(ProbeQ(w))
  /\ NextProbe(w)
  /\ UNCHANGED <<queue, batch, ran, submitterVars, closerVars>>

TryPop(w) ==
  /\ wpc[w] = "try"
  /\ queue[ProbeQ(w)] # <<>>
  /\ Take(w, ProbeQ(w))
  /\ Unlock(ProbeQ(w))
  /\ UNCHANGED <<wi, ran, submitterVars, closerVars>>

\* pop_not_q: first entry, and the re-acquisition inside pthread_cond_wait
PopLock(w) ==
  /\ wpc[w] = "lock"
  /\ mtx[w] = NoThread
  /\ mtx' = [mtx EXCEPT ![w] = w]
  /\ wpc' = [wpc EXCEPT ![w] = "pop"]
  /\ UNCHANGED <<queue, wi, batch, ran, submitterVars, closerVars>>

\* while(size == 0 && done == 0) pthread_cond_wait: unlocks and blocks atomically
PopWait(w) ==
  /\ wpc[w] = "pop"
  /\ queue[w] = <<>> /\ ~done[w]
  /\ Unlock(w)
  /\ wpc' = [wpc EXCEPT ![w] = "wait"]
  /\ UNCHANGED <<queue, wi, batch, ran, submitterVars, closerVars>>

PopExit(w) ==
  /\ wpc[w] = "pop"
  /\ done[w]
  /\ Unlock(w)
  /\ wpc' = [wpc EXCEPT ![w] = "exited"]
  /\ UNCHANGED <<queue, wi, batch, ran, submitterVars, closerVars>>

PopTake(w) ==
  /\ wpc[w] = "pop"
  /\ queue[w] # <<>> /\ ~done[w]
  /\ Take(w, w)
  /\ Unlock(w)
  /\ UNCHANGED <<wi, ran, submitterVars, closerVars>>

\* pthread_cond_wait may also return with no signal
SpuriousWake(w) ==
  /\ wpc[w] = "wait"
  /\ wpc' = [wpc EXCEPT ![w] = "lock"]
  /\ UNCHANGED <<queue, mtx, wi, batch, ran, submitterVars, closerVars>>

\* ret.t[i].func(ret.t[i].args), outside any mutex; after the last task the
\* stealing loop starts again at i = idx
RunTask(w) ==
  /\ wpc[w] = "run"
  /\ ran' = ran \cup {Head(batch[w])}
  /\ batch' = [batch EXCEPT ![w] = Tail(@)]
  /\ IF Len(batch[w]) = 1
       THEN /\ wpc' = [wpc EXCEPT ![w] = "probe"]
            /\ wi' = [wi EXCEPT ![w] = w]
       ELSE UNCHANGED <<wpc, wi>>
  /\ UNCHANGED <<queue, mtx, submitterVars, closerVars>>

----------------------------------------------------------------------------
(* free_task_manager, called by the closer *)

\* free_near_ric waits for server_stopped, so no submission is under way
FreeStart ==
  /\ fpc = "open"
  /\ \A s \in Submitters : spc[s] = "idle"
  /\ fpc' = "lock"
  /\ UNCHANGED <<queue, mtx, workerVars, submitterVars, done, fi, lost>>

DoneLock ==
  /\ fpc = "lock"
  /\ mtx[fi] = NoThread
  /\ mtx' = [mtx EXCEPT ![fi] = Closer]
  /\ fpc' = "set"
  /\ UNCHANGED <<queue, workerVars, submitterVars, done, fi, lost>>

DoneSet ==
  /\ fpc = "set"
  /\ done' = [done EXCEPT ![fi] = TRUE]
  /\ Unlock(fi)
  /\ fpc' = "signal"
  /\ UNCHANGED <<queue, workerVars, submitterVars, fi, lost>>

DoneNoSignal ==   \* fault: the flag is raised, its sleeper is not signalled
  /\ fpc = "signal"
  /\ IF fi + 1 < LenThr THEN fi' = fi + 1 /\ fpc' = "lock"
                        ELSE fi' = 0 /\ fpc' = "join"
  /\ UNCHANGED <<queue, mtx, wpc, wi, batch, ran, submitterVars, done, lost>>

DoneSignal ==
  /\ fpc = "signal"
  /\ SignalCv(fi)
  /\ IF fi + 1 < LenThr THEN fi' = fi + 1 /\ fpc' = "lock"
                        ELSE fi' = 0 /\ fpc' = "join"
  /\ UNCHANGED <<queue, mtx, wi, batch, ran, submitterVars, done, lost>>

Join ==
  /\ fpc = "join"
  /\ wpc[fi] = "exited"
  /\ fi + 1 < LenThr
  /\ fi' = fi + 1
  /\ UNCHANGED <<queue, mtx, workerVars, submitterVars, done, fpc, lost>>

\* the last join, then free_not_q on every queue: with clean == NULL, which is
\* what near_ric.c passes, what is still queued is dropped
JoinLast ==
  /\ fpc = "join"
  /\ wpc[fi] = "exited"
  /\ fi + 1 = LenThr
  /\ fpc' = "freed"
  /\ lost' = UNION {{queue[k][i] : i \in 1..Len(queue[k])} : k \in Workers}
  /\ queue' = [k \in Workers |-> <<>>]
  /\ UNCHANGED <<mtx, workerVars, submitterVars, done, fi>>

----------------------------------------------------------------------------
SubmitterStep(s) == Async(s) \/ TryPushBusy(s) \/ PushLock(s) \/ Push(s) \/ Signal(s)

WorkerStep(w) ==
  \/ ProbeBusy(w) \/ ProbeLock(w) \/ TryPopEmpty(w) \/ TryPop(w)
  \/ PopLock(w) \/ PopWait(w) \/ PopExit(w) \/ PopTake(w) \/ RunTask(w)

CloserStep == FreeStart \/ DoneLock \/ DoneSet \/ DoneSignal \/ Join \/ JoinLast

Next ==
  \/ \E s \in Submitters : SubmitterStep(s)
  \/ \E w \in Workers : WorkerStep(w) \/ SpuriousWake(w)
  \/ CloserStep

Spec == Init /\ [][Next]_vars

----------------------------------------------------------------------------
(* Fairness: a thread that can take its next step takes it, every task      *)
(* function returns, and a thread that waits for a mutex the others keep    *)
(* releasing gets it in the end.  Submitting a task and freeing the manager *)
(* are the caller's choice; a spurious wake-up is never owed.               *)

Fairness ==
  /\ \A s \in Submitters :
       /\ WF_vars(TryPushBusy(s) \/ PushLock(s) \/ Push(s) \/ Signal(s))
       /\ SF_vars(PushLock(s))
  /\ \A w \in Workers : WF_vars(WorkerStep(w)) /\ SF_vars(PopLock(w))
  /\ WF_vars(DoneLock \/ DoneSet \/ DoneSignal \/ Join \/ JoinLast)
  /\ SF_vars(DoneLock)

FairSpec == Spec /\ Fairness

----------------------------------------------------------------------------
(* Properties *)

\* Every place a task can be in.  "sub": a submitter holds it on its stack.
Places(t) ==
  {<<"sub", s, 0>> : s \in {r \in Submitters :
                              spc[r] \in {"try", "lock", "push"} /\ ticket[r] = t}}
  \cup (UNION {{<<"queue", k, i>> : i \in {j \in 1..Len(queue[k]) : queue[k][j] = t}} : k \in Workers})
  \cup (UNION {{<<"batch", w, i>> : i \in {j \in 1..Len(batch[w]) : batch[w][j] = t}} : w \in Workers})
  \cup {<<"ran", 0, 0>> : x \in ran \cap {t}}
  \cup {<<"lost", 0, 0>> : x \in lost \cap {t}}

\* However submitters, stealing workers and free_task_manager interleave, a task
\* that async_task_manager accepted is in exactly one place: never duplicated by a
\* batch copied out of a ring, never forgotten between two queues.
ExactlyOnce ==
  \A t \in Tasks : IF t < index THEN \E p \in Places(t) : Places(t) = {p}
                                ELSE Places(t) = {}

\* pthread_cond_signal comes after the unlock, and wakes only the worker that owns
\* the queue: a worker asleep on a non-empty or finished queue is always about to
\* be signalled, so no task waits behind a wake-up that was lost.
NoLostWakeup ==
  \A w \in Workers :
    wpc[w] = "wait" /\ (queue[w] # <<>> \/ done[w]) =>
      \/ \E s \in Submitters : spc[s] = "signal" /\ SubQ(s) = w
      \/ fpc = "signal" /\ fi = w

\* The task manager implements the abstract pool.
Pool == INSTANCE TaskPool WITH
          accepted <- index,
          pending  <- (0..index-1) \ (ran \cup lost),
          finished <- ran,
          dropped  <- lost,
          open     <- fpc = "open"

\* Each step of the threads of task_manager.c is a step of the pool or invisible to
\* its caller: in particular a task is executed at most once, and is given up only
\* by free_task_manager.
ImplementsPool == Pool!Spec

\* Under fair scheduling every accepted task is executed unless the manager is
\* freed first, although a worker may sleep while another queue holds tasks.
ImplementsFairPool == Pool!FairSpec

\* free_task_manager returns: raising "done" on each queue reaches every worker,
\* whether it sleeps, steals or runs a batch, and all of them can be joined.
FreeReturns == fpc = "lock" ~> fpc = "freed"

=============================================================================
