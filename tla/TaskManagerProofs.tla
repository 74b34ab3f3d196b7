------------------------- MODULE TaskManagerProofs -------------------------
(***************************************************************************)
(* Theorems about TaskManager for every number of workers, submitters and  *)
(* tasks and every batch size: types, no wake-up is lost, no task is lost  *)
(* or duplicated, the abstract pool is implemented, nobody waits for ever. *)
(***************************************************************************)
EXTENDS TaskManager, SequenceTheorems, TLAPS

----------------------------------------------------------------------------
(* Typing *)

\* The facts about local state that TypeOK needs to be inductive: a submitter
\* still in its trylock loop has a queue left to try, holds a ticket it drew, and
\* a worker is running exactly while its batch is not exhausted.
LocalInv ==
  /\ \A s \in Submitters :
       /\ spc[s] = "try" => si[s] < LenThr
       /\ spc[s] \in {"try", "lock", "push"} => ticket[s] < index
  /\ \A w \in Workers : wpc[w] = "run" <=> batch[w] # <<>>

TypeInv == TypeOK /\ LocalInv

\* i % len_thr, the index of the queue a thread tries, is a valid queue.
LEMMA ModInWorkers == ASSUME NEW a \in Nat PROVE a % LenThr \in Workers
BY LenThrAssumption DEF Workers

\* The queues that a worker probes and that a submitter tries exist.
LEMMA QueueIndices ==
  ASSUME TypeOK
  PROVE  /\ \A s \in Submitters : SubQ(s) \in Workers
         /\ \A w \in Workers : ProbeQ(w) \in Workers
<1>1. ASSUME NEW s \in Submitters PROVE SubQ(s) \in Workers
  <2>1. si[s] \in Nat /\ ticket[s] \in Nat
    BY LenThrAssumption DEF TypeOK
  <2>2. si[s] + ticket[s] \in Nat
    BY <2>1
  <2>3. QED BY <2>2, ModInWorkers DEF SubQ
<1>2. ASSUME NEW w \in Workers PROVE ProbeQ(w) \in Workers
  BY ModInWorkers DEF TypeOK, ProbeQ
<1>3. QED BY <1>1, <1>2

\* Take splits a queue into the batch and the rest of the queue.
LEMMA TakeSplits ==
  ASSUME NEW S, NEW q \in Seq(S), q # <<>>, NEW n \in Nat,
         n = IF Len(q) < MaxBatch THEN Len(q) ELSE MaxBatch
  PROVE  LET b == SubSeq(q, 1, n)
             r == SubSeq(q, n + 1, Len(q))
         IN  /\ b \in Seq(S) /\ r \in Seq(S)
             /\ Len(b) = n /\ Len(r) = Len(q) - n /\ n \in 1..Len(q) /\ b # <<>>
             /\ \A i \in 1..Len(b) : b[i] = q[i]
             /\ \A i \in 1..Len(r) : r[i] = q[n + i]
<1>1. Len(q) \in Nat /\ Len(q) > 0
  BY EmptySeq
<1>2. n \in 1..Len(q)
  BY <1>1, MaxBatchAssumption
<1>3. \A i \in 1..Len(q) : q[i] \in S
  OBVIOUS
<1> DEFINE b == SubSeq(q, 1, n)
           r == SubSeq(q, n + 1, Len(q))
<1>4. b \in Seq(S) /\ Len(b) = n /\ \A i \in 1..n : b[i] = q[i]
  BY <1>1, <1>2, <1>3, SubSeqProperties
<1>5. r \in Seq(S) /\ Len(r) = Len(q) - n /\ \A i \in 1..Len(q)-n : r[i] = q[n + i]
  <2>1. n + 1 \in Int /\ Len(q) \in Int /\ \A i \in n+1..Len(q) : q[i] \in S
    BY <1>1, <1>2, <1>3
  <2>2. /\ r \in Seq(S)
        /\ Len(r) = IF n + 1 <= Len(q) THEN Len(q) - (n + 1) + 1 ELSE 0
        /\ \A i \in 1..Len(q)-(n+1)+1 : r[i] = q[n + 1 + i - 1]
    BY <2>1, SubSeqProperties, SMTT(30)
  <2>3. QED BY <1>1, <1>2, <2>2, SMTT(30)
<1>6. b # <<>>
  BY <1>2, <1>4
<1> HIDE DEF b, r
<1>7. QED
  BY <1>2, <1>4, <1>5, <1>6 DEF b, r

\* init_task_manager establishes the types.
LEMMA TypeInvInit == Init => TypeInv
BY LenThrAssumption, MaxTasksAssumption, EmptySeq
   DEF Init, TypeInv, TypeOK, LocalInv, Workers, Tasks, Threads, NumIt


\* Arithmetic about worker indices and their loop bound.
LEMMA WorkerIndices ==
  /\ LenThr \in Nat \ {0} /\ MaxTasks \in Nat
  /\ \A w \in Workers : w \in Nat /\ w < LenThr /\ NumIt(w) \in Nat /\ w < NumIt(w)
  /\ \A n \in Nat : n < LenThr => n \in Workers
BY LenThrAssumption, MaxTasksAssumption DEF Workers, NumIt

\* ++i keeps the loop variable within the stealing loop of worker_thread.
LEMMA NextProbeType ==
  ASSUME TypeOK, NEW w \in Workers, NextProbe(w)
  PROVE  /\ (wi \in [Workers -> Nat])'
         /\ (\A v \in Workers : wi[v] \in v..(NumIt(v)-1))'
         /\ wpc' \in [Workers -> {"probe", "try", "lock", "pop", "wait", "run", "exited"}]
         /\ wpc'[w] \in {"probe", "lock"}
         /\ \A v \in Workers : v # w => wpc'[v] = wpc[v]
<1>1. wi[w] \in Nat /\ w <= wi[w] /\ wi[w] < NumIt(w)
  BY WorkerIndices DEF TypeOK
<1> DEFINE j == IF wi[w] + 1 < NumIt(w) THEN wi[w] + 1 ELSE wi[w]
<1>2. j \in Nat /\ j \in w..(NumIt(w)-1)
  BY <1>1, WorkerIndices
<1>3. wi' = [wi EXCEPT ![w] = j]
  BY DEF NextProbe, TypeOK
<1> HIDE DEF j
<1>7. ASSUME NEW v \in Workers PROVE wi'[v] \in v..(NumIt(v)-1)
  BY <1>2, <1>3 DEF TypeOK
<1>4. (\A v \in Workers : wi[v] \in v..(NumIt(v)-1))'
  BY <1>7 DEF NumIt
<1>5. (wi \in [Workers -> Nat])'
  BY <1>2, <1>3 DEF TypeOK
<1>6. QED
  BY <1>4, <1>5 DEF NextProbe, TypeOK

\* Taking a batch of a non-empty queue leaves two sequences of tasks.
LEMMA TakeType ==
  ASSUME TypeInv, NEW w \in Workers, NEW k \in Workers, queue[k] # <<>>, Take(w, k)
  PROVE  /\ (queue \in [Workers -> Seq(Tasks)])'
         /\ (batch \in [Workers -> Seq(Tasks)])'
         /\ (wpc \in [Workers -> {"probe", "try", "lock", "pop", "wait", "run", "exited"}])'
         /\ (\A v \in Workers : wpc[v] = "run" <=> batch[v] # <<>>)'
<1>1. queue[k] \in Seq(Tasks)
  BY DEF TypeInv, TypeOK
<1>2. BatchLen(k) \in Nat
  BY <1>1, MaxBatchAssumption DEF BatchLen
<1>3. /\ SubSeq(queue[k], 1, BatchLen(k)) \in Seq(Tasks)
      /\ SubSeq(queue[k], BatchLen(k) + 1, Len(queue[k])) \in Seq(Tasks)
      /\ SubSeq(queue[k], 1, BatchLen(k)) # <<>>
  BY <1>1, <1>2, TakeSplits DEF BatchLen
<1>4. QED
  BY <1>3 DEF Take, TypeInv, TypeOK, LocalInv

\* async_task_manager draws a ticket below the bound, so a task is of its type.
LEMMA AsyncTypes == ASSUME TypeInv, NEW s \in Submitters, Async(s) PROVE TypeInv'
<1> USE WorkerIndices DEF TypeInv, TypeOK, LocalInv, workerVars, closerVars
<1>1. (index \in 0..MaxTasks /\ ticket \in [Submitters -> Nat] /\ si \in [Submitters -> 0..LenThr])'
  BY SMTT(30) DEF Async
<1>2. (\A r \in Submitters : spc[r] = "try" => si[r] < LenThr)'
  BY DEF Async
<1>3. (\A r \in Submitters : spc[r] \in {"try", "lock", "push"} => ticket[r] < index)'
  <2>1. index \in Nat /\ index' = index + 1 /\ ticket'[s] = index
    BY DEF Async
  <2>2. ASSUME NEW r \in Submitters, r # s, spc'[r] \in {"try", "lock", "push"}
        PROVE  ticket'[r] < index'
    <3>1. ticket'[r] = ticket[r] /\ spc'[r] = spc[r] /\ ticket[r] \in Nat
      BY <2>2 DEF Async
    <3>2. QED BY <2>1, <2>2, <3>1
  <2>3. ticket'[s] < index'
    BY <2>1
  <2>4. QED BY <2>2, <2>3
<1>4. QED BY <1>1, <1>2, <1>3 DEF Async

\* A push appends one task to an existing queue, under the blocking lock or trylock.
LEMMA PushTypes == ASSUME TypeInv, NEW s \in Submitters, Push(s) PROVE TypeInv'
<1>0. SubQ(s) \in Workers
  BY QueueIndices DEF TypeInv
<1> USE DEF TypeInv, TypeOK, LocalInv, workerVars, closerVars
<1>1. ticket[s] \in Tasks
  <2>1. ticket[s] \in Nat /\ ticket[s] < index /\ index \in Nat /\ index <= MaxTasks
    BY WorkerIndices DEF Push
  <2>2. QED BY <2>1, WorkerIndices DEF Tasks
<1>2. QED BY <1>0, <1>1 DEF Push

\* A failed trylock moves a worker to a queue that exists.
LEMMA ProbeBusyTypes == ASSUME TypeInv, NEW w \in Workers, ProbeBusy(w) PROVE TypeInv'
<1>1. wpc[w] = "probe" /\ NextProbe(w)
  BY DEF ProbeBusy
<1>2. QED
  BY <1>1, NextProbeType DEF ProbeBusy, TypeInv, TypeOK, LocalInv, submitterVars, closerVars

\* So does an empty queue, after the unlock.
LEMMA TryPopEmptyTypes == ASSUME TypeInv, NEW w \in Workers, TryPopEmpty(w) PROVE TypeInv'
<1>1. wpc[w] = "try" /\ NextProbe(w)
  BY DEF TryPopEmpty
<1>2. QED
  BY <1>1, NextProbeType, QueueIndices DEF TryPopEmpty, Unlock, TypeInv, TypeOK, LocalInv, submitterVars, closerVars

\* A steal leaves a batch and a queue of tasks.
LEMMA TryPopTypes == ASSUME TypeInv, NEW w \in Workers, TryPop(w) PROVE TypeInv'
<1>1. ProbeQ(w) \in Workers /\ queue[ProbeQ(w)] # <<>> /\ Take(w, ProbeQ(w))
  BY QueueIndices DEF TryPop, TypeInv
<1>2. QED
  BY <1>1, TakeType DEF TryPop, Unlock, TypeInv, TypeOK, LocalInv, submitterVars, closerVars

\* So does the pop from a worker's own queue.
LEMMA PopTakeTypes == ASSUME TypeInv, NEW w \in Workers, PopTake(w) PROVE TypeInv'
<1>1. queue[w] # <<>> /\ Take(w, w)
  BY DEF PopTake
<1>2. QED
  BY <1>1, TakeType DEF PopTake, Unlock, TypeInv, TypeOK, LocalInv, submitterVars, closerVars

\* Executing a task shortens the batch, and the end of the batch restarts the loop.
LEMMA RunTaskTypes == ASSUME TypeInv, NEW w \in Workers, RunTask(w) PROVE TypeInv'
<1> USE DEF TypeInv, TypeOK, LocalInv, submitterVars, closerVars
<1>1. batch[w] \in Seq(Tasks) /\ batch[w] # <<>>
  BY DEF RunTask
<1>2. /\ Head(batch[w]) \in Tasks
      /\ Tail(batch[w]) \in Seq(Tasks)
      /\ Tail(batch[w]) = <<>> <=> Len(batch[w]) = 1
  <2>1. Tail(batch[w]) \in Seq(Tasks) /\ Len(Tail(batch[w])) = Len(batch[w]) - 1
    BY <1>1, HeadTailProperties
  <2>2. Tail(batch[w]) = <<>> <=> Len(Tail(batch[w])) = 0
    BY <2>1, EmptySeq
  <2>3. QED BY <1>1, <2>1, <2>2, HeadTailProperties, LenProperties
<1>3. (wi \in [Workers -> Nat] /\ \A v \in Workers : wi[v] \in v..(NumIt(v)-1))'
  <2>1. CASE wi' = wi
    BY <2>1 DEF NumIt
  <2>2. CASE wi' = [wi EXCEPT ![w] = w]
    <3>1. \A v \in Workers : wi'[v] \in v..(NumIt(v)-1)
      <4>1. w \in w..(NumIt(w)-1)
        <5>1. w \in Nat /\ NumIt(w) \in Nat /\ w < NumIt(w)
          BY WorkerIndices
        <5>2. QED BY <5>1
      <4>2. QED BY <2>2, <4>1
    <3>2. QED BY <2>2, <3>1, WorkerIndices DEF NumIt
  <2>3. QED BY <2>1, <2>2 DEF RunTask
<1>4. QED BY <1>2, <1>3 DEF RunTask

\* done_not_q visits the queues one after the other and stops at the last.
LEMMA DoneSignalTypes == ASSUME TypeInv, DoneSignal PROVE TypeInv'
<1>1. (fi \in Workers)'
  BY WorkerIndices DEF DoneSignal, TypeInv, TypeOK
<1>2. QED
  BY <1>1 DEF DoneSignal, SignalCv, TypeInv, TypeOK, LocalInv, submitterVars

\* The loop over pthread_join stays within the workers.
LEMMA JoinTypes == ASSUME TypeInv, Join PROVE TypeInv'
<1>1. (fi \in Workers)'
  BY WorkerIndices DEF Join, TypeInv, TypeOK
<1>2. QED
  BY <1>1 DEF Join, TypeInv, TypeOK, LocalInv, submitterVars, workerVars

\* Every step of submitters, workers and the closer keeps the types.
LEMMA TypeInvStep == TypeInv /\ [Next]_vars => TypeInv'
<1> SUFFICES ASSUME TypeInv, [Next]_vars PROVE TypeInv'
  OBVIOUS
<1>0. /\ LenThr \in Nat \ {0} /\ MaxTasks \in Nat
      /\ \A s \in Submitters : SubQ(s) \in Workers
      /\ \A w \in Workers : ProbeQ(w) \in Workers
  BY LenThrAssumption, MaxTasksAssumption, QueueIndices DEF TypeInv
<1>1. ASSUME NEW s \in Submitters, Async(s) PROVE TypeInv'
  BY <1>1, AsyncTypes
<1>2. ASSUME NEW s \in Submitters, TryPushBusy(s) PROVE TypeInv'
  BY <1>0, <1>2 DEF TryPushBusy,
     TypeInv, TypeOK, LocalInv, submitterVars, workerVars, closerVars
<1>3. ASSUME NEW s \in Submitters, PushLock(s) PROVE TypeInv'
  BY <1>0, <1>3 DEF PushLock, Threads,
     TypeInv, TypeOK, LocalInv, submitterVars, workerVars, closerVars
<1>4. ASSUME NEW s \in Submitters, Push(s) PROVE TypeInv'
  BY <1>4, PushTypes
<1>5. ASSUME NEW s \in Submitters, Signal(s) PROVE TypeInv'
  BY <1>0, <1>5 DEF Signal, SignalCv,
     TypeInv, TypeOK, LocalInv, submitterVars, workerVars, closerVars
<1>6. ASSUME NEW w \in Workers, ProbeBusy(w) PROVE TypeInv'
  BY <1>6, ProbeBusyTypes
<1>7. ASSUME NEW w \in Workers, ProbeLock(w) PROVE TypeInv'
  BY <1>0, <1>7 DEF ProbeLock, Threads,
     TypeInv, TypeOK, LocalInv, submitterVars, workerVars, closerVars
<1>8. ASSUME NEW w \in Workers, TryPopEmpty(w) PROVE TypeInv'
  BY <1>8, TryPopEmptyTypes
<1>9. ASSUME NEW w \in Workers, TryPop(w) PROVE TypeInv'
  BY <1>9, TryPopTypes
<1>10. ASSUME NEW w \in Workers, PopLock(w) PROVE TypeInv'
  BY <1>0, <1>10 DEF PopLock, Threads,
     TypeInv, TypeOK, LocalInv, submitterVars, workerVars, closerVars
<1>11. ASSUME NEW w \in Workers, PopWait(w) PROVE TypeInv'
  BY <1>0, <1>11 DEF PopWait, Unlock,
     TypeInv, TypeOK, LocalInv, submitterVars, workerVars, closerVars
<1>12. ASSUME NEW w \in Workers, PopExit(w) PROVE TypeInv'
  BY <1>0, <1>12 DEF PopExit, Unlock,
     TypeInv, TypeOK, LocalInv, submitterVars, workerVars, closerVars
<1>13. ASSUME NEW w \in Workers, PopTake(w) PROVE TypeInv'
  BY <1>13, PopTakeTypes
<1>14. ASSUME NEW w \in Workers, RunTask(w) PROVE TypeInv'
  BY <1>14, RunTaskTypes
<1>15. ASSUME NEW w \in Workers, SpuriousWake(w) PROVE TypeInv'
  BY <1>0, <1>15 DEF SpuriousWake,
     TypeInv, TypeOK, LocalInv, submitterVars, workerVars, closerVars
<1>16. CASE FreeStart
  BY <1>0, <1>16 DEF FreeStart,
     TypeInv, TypeOK, LocalInv, submitterVars, workerVars, closerVars
<1>17. CASE DoneLock
  BY <1>0, <1>17 DEF DoneLock, Threads,
     TypeInv, TypeOK, LocalInv, submitterVars, workerVars, closerVars
<1>18. CASE DoneSet
  BY <1>0, <1>18 DEF DoneSet, Unlock,
     TypeInv, TypeOK, LocalInv, submitterVars, workerVars, closerVars
<1>19. CASE DoneSignal
  BY <1>19, DoneSignalTypes
<1>20. CASE Join
  BY <1>20, JoinTypes
<1>21. CASE JoinLast
  BY <1>0, <1>21 DEF JoinLast,
     TypeInv, TypeOK, LocalInv, submitterVars, workerVars, closerVars
<1>22. CASE UNCHANGED vars
  BY <1>22 DEF vars, TypeInv, TypeOK, LocalInv, ProbeQ, NumIt
<1>23. QED
  BY <1>1, <1>2, <1>3, <1>4, <1>5, <1>6, <1>7, <1>8, <1>9, <1>10, <1>11, <1>12, <1>13, <1>14, <1>15, <1>16, <1>17, <1>18, <1>19, <1>20, <1>21, <1>22 DEF Next, SubmitterStep, WorkerStep, CloserStep


\* TaskManager keeps the types of its variables.
THEOREM TypeCorrect == Spec => []TypeOK
<1>1. Spec => []TypeInv
  BY TypeInvInit, TypeInvStep, PTL DEF Spec
<1>2. TypeInv => TypeOK
  BY DEF TypeInv
<1>3. QED
  BY <1>1, <1>2, PTL

----------------------------------------------------------------------------
(* No wake-up is lost *)

\* Some thread is between the unlock of queue k and its pthread_cond_signal.
SignalDue(k) ==
  \/ \E s \in Submitters : spc[s] = "signal" /\ SubQ(s) = k
  \/ fpc = "signal" /\ fi = k

\* No step loses a wake-up: whoever makes a queue non-empty or finished signals it.
LEMMA NoLostWakeupStep == TypeInv /\ NoLostWakeup /\ [Next]_vars => NoLostWakeup'
<1> SUFFICES ASSUME TypeInv, NoLostWakeup, [Next]_vars,
                    NEW k \in Workers, (wpc[k] = "wait")', (queue[k] # <<>> \/ done[k])'
             PROVE  SignalDue(k)'
  BY DEF NoLostWakeup, SignalDue
<1> USE DEF TypeInv, TypeOK, NoLostWakeup, SignalDue, submitterVars, workerVars, closerVars
<1>0. /\ \A s \in Submitters : SubQ(s) \in Workers
      /\ \A w \in Workers : ProbeQ(w) \in Workers
  BY QueueIndices
<1>1. ASSUME NEW s \in Submitters, Async(s) PROVE SignalDue(k)'
  BY <1>0, <1>1 DEF Async, SubQ
<1>2. ASSUME NEW s \in Submitters, TryPushBusy(s) PROVE SignalDue(k)'
  BY <1>0, <1>2 DEF TryPushBusy, SubQ
<1>3. ASSUME NEW s \in Submitters, PushLock(s) PROVE SignalDue(k)'
  BY <1>0, <1>3 DEF PushLock, SubQ
<1>4. ASSUME NEW s \in Submitters, Push(s) PROVE SignalDue(k)'
  BY <1>0, <1>4 DEF Push, SubQ
<1>5. ASSUME NEW s \in Submitters, Signal(s) PROVE SignalDue(k)'
  BY <1>0, <1>5 DEF Signal, SubQ, SignalCv
<1>6. ASSUME NEW w \in Workers, ProbeBusy(w) PROVE SignalDue(k)'
  BY <1>0, <1>6 DEF ProbeBusy, NextProbe, SubQ
<1>7. ASSUME NEW w \in Workers, ProbeLock(w) PROVE SignalDue(k)'
  BY <1>0, <1>7 DEF ProbeLock, SubQ
<1>8. ASSUME NEW w \in Workers, TryPopEmpty(w) PROVE SignalDue(k)'
  BY <1>0, <1>8 DEF TryPopEmpty, NextProbe, SubQ
<1>9. ASSUME NEW w \in Workers, TryPop(w) PROVE SignalDue(k)'
  BY <1>0, <1>9 DEF TryPop, Take, SubQ
<1>10. ASSUME NEW w \in Workers, PopLock(w) PROVE SignalDue(k)'
  BY <1>0, <1>10 DEF PopLock, SubQ
<1>11. ASSUME NEW w \in Workers, PopWait(w) PROVE SignalDue(k)'
  BY <1>0, <1>11 DEF PopWait, SubQ
<1>12. ASSUME NEW w \in Workers, PopExit(w) PROVE SignalDue(k)'
  BY <1>0, <1>12 DEF PopExit, SubQ
<1>13. ASSUME NEW w \in Workers, PopTake(w) PROVE SignalDue(k)'
  BY <1>0, <1>13 DEF PopTake, Take, SubQ
<1>14. ASSUME NEW w \in Workers, RunTask(w) PROVE SignalDue(k)'
  BY <1>0, <1>14 DEF RunTask, SubQ
<1>15. ASSUME NEW w \in Workers, SpuriousWake(w) PROVE SignalDue(k)'
  BY <1>0, <1>15 DEF SpuriousWake, SubQ
<1>16. CASE FreeStart
  BY <1>0, <1>16 DEF FreeStart, SubQ
<1>17. CASE DoneLock
  BY <1>0, <1>17 DEF DoneLock, SubQ
<1>18. CASE DoneSet
  BY <1>0, <1>18 DEF DoneSet, SubQ
<1>19. CASE DoneSignal
  BY <1>0, <1>19 DEF DoneSignal, SignalCv, SubQ
<1>20. CASE Join
  BY <1>0, <1>20 DEF Join, SubQ
<1>21. CASE JoinLast
  BY <1>0, <1>21 DEF JoinLast, SubQ
<1>22. CASE UNCHANGED vars
  BY <1>22 DEF vars, SubQ
<1>23. QED
  BY <1>1, <1>2, <1>3, <1>4, <1>5, <1>6, <1>7, <1>8, <1>9, <1>10, <1>11, <1>12, <1>13, <1>14, <1>15, <1>16, <1>17, <1>18, <1>19, <1>20, <1>21, <1>22 DEF Next, SubmitterStep, WorkerStep, CloserStep

\* A worker sleeps on a queue with work, or on a finished queue, only while the
\* thread that put it there is about to signal: push_not_q, try_push_not_q and
\* done_not_q lose no wake-up although they signal after the unlock.
THEOREM NoWakeupIsLost == Spec => []NoLostWakeup
<1>1. Init => NoLostWakeup
  BY DEF Init, NoLostWakeup
<1>2. Spec => []TypeInv
  BY TypeInvInit, TypeInvStep, PTL DEF Spec
<1>3. QED
  BY <1>1, <1>2, NoLostWakeupStep, PTL DEF Spec

----------------------------------------------------------------------------
(* Where the tasks are *)

Holds(s) == spc[s] \in {"try", "lock", "push"}

Held    == {ticket[s] : s \in {r \in Submitters : Holds(r)}}
Queued  == {t \in Tasks : \E k \in Workers : \E i \in 1..Len(queue[k]) : queue[k][i] = t}
Batched == {t \in Tasks : \E w \in Workers : \E i \in 1..Len(batch[w]) : batch[w][i] = t}

\* No two threads, queues or positions have the same task.
HeldOnce ==
  \A s, r \in Submitters : Holds(s) /\ Holds(r) /\ ticket[s] = ticket[r] => s = r
QueuedOnce ==
  \A k, l \in Workers : \A i \in 1..Len(queue[k]) : \A j \in 1..Len(queue[l]) :
    queue[k][i] = queue[l][j] => k = l /\ i = j
BatchedOnce ==
  \A v, w \in Workers : \A i \in 1..Len(batch[v]) : \A j \in 1..Len(batch[w]) :
    batch[v][i] = batch[w][j] => v = w /\ i = j

\* The five kinds of places have no task in common ...
Apart ==
  /\ Held \cap Queued = {} /\ Held \cap Batched = {} /\ Queued \cap Batched = {}
  /\ (Held \cup Queued \cup Batched) \cap (ran \cup lost) = {}
  /\ ran \cap lost = {}

\* ... and together they have the tasks submitted.
Known == 0..(index - 1) = Held \cup Queued \cup Batched \cup ran \cup lost

\* What free_task_manager has reached.
Closing ==
  /\ fpc # "open" => \A s \in Submitters : spc[s] = "idle"
  /\ fpc # "freed" => lost = {}
  /\ fpc = "join" => \A w \in Workers : w < fi => wpc[w] = "exited"
  /\ fpc = "freed" => \A w \in Workers : wpc[w] = "exited"

PlacesInv == HeldOnce /\ QueuedOnce /\ BatchedOnce /\ Apart /\ Known

OnceInv == TypeInv /\ PlacesInv /\ Closing

----------------------------------------------------------------------------
(* The steps *)

\* Nothing has been submitted to a new manager.
LEMMA OnceInvInit == Init => OnceInv
<1> SUFFICES ASSUME Init PROVE PlacesInv /\ Closing
  BY TypeInvInit DEF OnceInv
<1>1. Held = {} /\ Queued = {} /\ Batched = {} /\ ran = {} /\ lost = {}
  BY DEF Init, Held, Holds, Queued, Batched
<1>2. HeldOnce /\ QueuedOnce /\ BatchedOnce
  BY DEF Init, HeldOnce, Holds, QueuedOnce, BatchedOnce
<1>3. 0..(index - 1) = {}
  BY DEF Init
<1>4. Closing
  BY DEF Init, Closing
<1>5. QED
  BY <1>1, <1>2, <1>3, <1>4 DEF PlacesInv, Apart, Known

\* A step that moves no task keeps every task where it is.
LEMMA QuietStep ==
  ASSUME PlacesInv, UNCHANGED <<queue, batch, ran, lost, index, ticket>>,
         \A s \in Submitters : Holds(s)' <=> Holds(s)
  PROVE  PlacesInv'
<1>1. Held' = Held
  BY DEF Held
<1>2. Queued' = Queued /\ Batched' = Batched
  BY DEF Queued, Batched
<1>3. HeldOnce'
  BY DEF PlacesInv, HeldOnce
<1>4. QueuedOnce' /\ BatchedOnce'
  BY DEF PlacesInv, QueuedOnce, BatchedOnce
<1>5. QED
  BY <1>1, <1>2, <1>3, <1>4 DEF PlacesInv, Apart, Known

\* async_task_manager: the new task is with its submitter.
LEMMA AsyncPlaces ==
  ASSUME OnceInv, NEW s \in Submitters, Async(s)
  PROVE  PlacesInv'
<1>1. index \in Nat /\ index' = index + 1 /\ ticket'[s] = index /\ ~Holds(s) /\ Holds(s)'
  BY DEF OnceInv, TypeInv, TypeOK, Async, Holds
<1>2. \A r \in Submitters : r # s => ticket'[r] = ticket[r] /\ (Holds(r)' <=> Holds(r))
  BY DEF OnceInv, TypeInv, TypeOK, Async, Holds
<1>3. Held' = Held \cup {index}
  BY <1>1, <1>2 DEF Held
<1>4. /\ Queued' = Queued /\ Batched' = Batched /\ ran' = ran /\ lost' = lost
      /\ QueuedOnce' /\ BatchedOnce'
  BY DEF Async, workerVars, closerVars, Queued, Batched, OnceInv, PlacesInv, QueuedOnce, BatchedOnce
<1>5. index \notin Held \cup Queued \cup Batched \cup ran \cup lost
  BY <1>1 DEF OnceInv, PlacesInv, Known
<1>6. HeldOnce'
  <2>1. \A r \in Submitters : Holds(r) => ticket[r] \in Held
    BY DEF Held
  <2>2. \A r \in Submitters : Holds(r) => ticket[r] # index
    BY <1>5, <2>1
  <2>3. HeldOnce
    BY DEF OnceInv, PlacesInv
  <2>4. QED BY <1>1, <1>2, <2>2, <2>3 DEF HeldOnce
<1>7. Apart'
  BY <1>3, <1>4, <1>5 DEF OnceInv, PlacesInv, Apart
<1>8. Known'
  <2>1. 0..index = 0..(index - 1) \cup {index}
    BY <1>1
  <2>2. index' - 1 = index
    BY <1>1
  <2>3. QED BY <1>3, <1>4, <2>1, <2>2 DEF OnceInv, PlacesInv, Known
<1>9. QED BY <1>4, <1>6, <1>7, <1>8 DEF PlacesInv

\* A push moves the task of the submitter to the end of a queue.
LEMMA PushPlaces ==
  ASSUME OnceInv, NEW s \in Submitters, Push(s)
  PROVE  PlacesInv'
<1> DEFINE t == ticket[s]
           k == SubQ(s)
           n == Len(queue[k])
<1>1. k \in Workers /\ queue \in [Workers -> Seq(Tasks)] /\ queue[k] \in Seq(Tasks) /\ n \in Nat
  BY QueueIndices DEF OnceInv, TypeInv, TypeOK
<1>2. t \in Tasks
  <2>1. t \in Nat /\ t < index /\ index \in Nat /\ index <= MaxTasks
    BY WorkerIndices DEF OnceInv, TypeInv, TypeOK, LocalInv, Push
  <2>2. QED BY <2>1, WorkerIndices DEF Tasks
<1>3. Holds(s) /\ ~Holds(s)'
  BY DEF OnceInv, TypeInv, TypeOK, Push, Holds
<1>4. \A r \in Submitters : ticket'[r] = ticket[r] /\ (r # s => (Holds(r)' <=> Holds(r)))
  BY DEF OnceInv, TypeInv, TypeOK, Push, Holds
<1>5. queue' = [queue EXCEPT ![k] = Append(queue[k], t)]
  BY DEF Push
<1>6. /\ \A l \in Workers : l # k => queue'[l] = queue[l]
      /\ Len(queue'[k]) = n + 1 /\ queue'[k][n + 1] = t
      /\ \A i \in 1..n : queue'[k][i] = queue[k][i]
  <2>1. queue'[k] = Append(queue[k], t)
    BY <1>1, <1>5
  <2>2. QED BY <1>1, <1>2, <1>5, <2>1, AppendProperties
<1> HIDE DEF t, k, n
<1>7. HeldOnce /\ QueuedOnce /\ BatchedOnce /\ Apart /\ Known
  BY DEF OnceInv, PlacesInv
<1>8. t \in Held
  BY <1>3 DEF Held, t
<1>9. Held' = Held \ {t}
  BY <1>3, <1>4, <1>7 DEF Held, HeldOnce, t
<1>10. Queued' = Queued \cup {t}
  <2>1. ASSUME NEW x \in Queued' PROVE x \in Queued \cup {t}
    <3>1. PICK l \in Workers : \E i \in 1..Len(queue'[l]) : queue'[l][i] = x
      BY <2>1 DEF Queued
    <3>2. PICK i \in 1..Len(queue'[l]) : queue'[l][i] = x
      BY <3>1
    <3>3. CASE l = k /\ i = n + 1
      BY <1>6, <3>2, <3>3
    <3>4. CASE ~(l = k /\ i = n + 1)
      <4>1. i \in 1..Len(queue[l]) /\ queue[l][i] = x
        BY <1>1, <1>6, <3>2, <3>4 DEF n
      <4>2. QED BY <2>1, <4>1 DEF Queued
    <3>5. QED BY <3>3, <3>4
  <2>2. ASSUME NEW x \in Queued PROVE x \in Queued'
    <3>1. PICK l \in Workers : \E i \in 1..Len(queue[l]) : queue[l][i] = x
      BY <2>2 DEF Queued
    <3>2. PICK i \in 1..Len(queue[l]) : queue[l][i] = x
      BY <3>1
    <3>3. i \in 1..Len(queue'[l]) /\ queue'[l][i] = x
      BY <1>1, <1>6, <3>2 DEF n
    <3>4. QED BY <2>2, <3>3 DEF Queued
  <2>3. t \in Queued'
    <3>1. n + 1 \in 1..Len(queue'[k])
      BY <1>1, <1>6
    <3>2. QED BY <1>1, <1>2, <1>6, <3>1 DEF Queued
  <2>4. QED BY <2>1, <2>2, <2>3
<1>11. t \notin Queued
  BY <1>7, <1>8 DEF Apart
<1>12. QueuedOnce'
  <2> SUFFICES ASSUME NEW l \in Workers, NEW m \in Workers,
                      NEW i \in 1..Len(queue'[l]), NEW j \in 1..Len(queue'[m]),
                      queue'[l][i] = queue'[m][j]
               PROVE  l = m /\ i = j
    BY DEF QueuedOnce
  <2>1. ASSUME NEW h \in Workers, NEW a \in 1..Len(queue'[h]), ~(h = k /\ a = n + 1)
        PROVE  /\ a \in 1..Len(queue[h]) /\ queue'[h][a] = queue[h][a]
               /\ queue'[h][a] \in Queued
    <3>1. a \in 1..Len(queue[h]) /\ queue'[h][a] = queue[h][a]
      <4>1. CASE h # k
        BY <1>6, <4>1
      <4>2. CASE h = k
        <5>1. a \in 1..(n + 1) /\ a # n + 1
          BY <1>6, <2>1, <4>2
        <5>2. a \in 1..n
          BY <1>1, <5>1
        <5>3. QED BY <1>6, <4>2, <5>2 DEF n
      <4>3. QED BY <4>1, <4>2
    <3>2. queue[h] \in Seq(Tasks)
      BY <1>1
    <3>3. queue[h][a] \in Tasks
      BY <3>1, <3>2
    <3>4. QED BY <3>1, <3>3 DEF Queued
  <2>2. CASE l = k /\ i = n + 1
    BY <1>6, <1>11, <2>1, <2>2
  <2>3. CASE m = k /\ j = n + 1
    BY <1>6, <1>11, <2>1, <2>3
  <2>4. CASE ~(l = k /\ i = n + 1) /\ ~(m = k /\ j = n + 1)
    BY <1>7, <2>1, <2>4 DEF QueuedOnce
  <2>5. QED BY <2>2, <2>3, <2>4
<1>13. HeldOnce' 
  BY <1>3, <1>4, <1>7 DEF HeldOnce
<1>14. BatchedOnce' /\ Batched' = Batched /\ ran' = ran /\ lost' = lost /\ index' = index
  BY <1>7 DEF BatchedOnce, Batched, Push, workerVars, closerVars
<1>15. Apart'
  BY <1>7, <1>8, <1>9, <1>10, <1>14 DEF Apart
<1>16. Known'
  BY <1>7, <1>8, <1>9, <1>10, <1>14 DEF Known
<1>17. QED BY <1>12, <1>13, <1>14, <1>15, <1>16 DEF PlacesInv

\* A batch copied out of a ring takes the tasks from the ring, in the same order.
LEMMA TakePlaces ==
  ASSUME OnceInv, NEW w \in Workers, NEW k \in Workers,
         queue[k] # <<>>, batch[w] = <<>>, Take(w, k),
         UNCHANGED <<spc, ticket, index, ran, lost>>
  PROVE  PlacesInv'
<1> DEFINE n == BatchLen(k)
           d(l) == IF l = k THEN n ELSE 0
<1>1. /\ queue \in [Workers -> Seq(Tasks)] /\ batch \in [Workers -> Seq(Tasks)]
      /\ \A l \in Workers : Len(queue[l]) \in Nat /\ Len(batch[l]) \in Nat
  BY DEF OnceInv, TypeInv, TypeOK
<1>2. n \in Nat /\ n = IF Len(queue[k]) < MaxBatch THEN Len(queue[k]) ELSE MaxBatch
  BY <1>1, MaxBatchAssumption DEF BatchLen
<1>3. /\ queue' = [queue EXCEPT ![k] = SubSeq(queue[k], n + 1, Len(queue[k]))]
      /\ batch' = [batch EXCEPT ![w] = SubSeq(queue[k], 1, n)]
  BY DEF Take
<1> HIDE DEF n
<1>4. /\ n \in 1..Len(queue[k])
      /\ Len(queue'[k]) = Len(queue[k]) - n
      /\ \A i \in 1..Len(queue'[k]) : queue'[k][i] = queue[k][n + i]
      /\ Len(batch'[w]) = n
      /\ \A i \in 1..n : batch'[w][i] = queue[k][i]
  <2>1. queue[k] \in Seq(Tasks)
    BY <1>1
  <2>2. /\ queue'[k] = SubSeq(queue[k], n + 1, Len(queue[k]))
        /\ batch'[w] = SubSeq(queue[k], 1, n)
    BY <1>1, <1>3
  <2> DEFINE b == SubSeq(queue[k], 1, n)
             r == SubSeq(queue[k], n + 1, Len(queue[k]))
  <2>3. /\ Len(b) = n /\ Len(r) = Len(queue[k]) - n /\ n \in 1..Len(queue[k])
        /\ \A i \in 1..Len(b) : b[i] = queue[k][i]
        /\ \A i \in 1..Len(r) : r[i] = queue[k][n + i]
    BY <1>2, <2>1, TakeSplits, SMTT(30)
  <2> HIDE DEF b, r
  <2>4. queue'[k] = r /\ batch'[w] = b
    BY <2>2 DEF b, r
  <2>5. QED BY <2>3, <2>4
<1>5. \A l \in Workers : (l # k => queue'[l] = queue[l]) /\ (l # w => batch'[l] = batch[l])
  BY <1>1, <1>3
<1>6. ASSUME NEW l \in Workers, NEW i \in 1..Len(queue'[l])
      PROVE  /\ i + d(l) \in 1..Len(queue[l])
             /\ queue'[l][i] = queue[l][i + d(l)]
             /\ queue'[l][i] \in Tasks
  <2>1. CASE l = k
    <3>1. Len(queue[k]) \in Nat /\ n \in 1..Len(queue[k]) /\ i \in 1..(Len(queue[k]) - n)
      BY <1>1, <1>4, <2>1
    <3>2. n + i \in 1..Len(queue[k]) /\ i + n = n + i
      BY <3>1
    <3>3. queue[k][n + i] \in Tasks
      BY <1>1, <3>2
    <3>4. QED BY <1>4, <2>1, <3>2, <3>3
  <2>2. CASE l # k
    <3>1. i \in 1..Len(queue[l]) /\ i + 0 = i
      BY <1>5, <2>2
    <3>2. QED BY <1>1, <1>5, <2>2, <3>1
  <2>3. QED BY <2>1, <2>2
<1>7. HeldOnce /\ QueuedOnce /\ BatchedOnce /\ Apart /\ Known
  BY DEF OnceInv, PlacesInv
<1>8. Held' = Held /\ HeldOnce'
  BY <1>7 DEF Held, Holds, HeldOnce
<1>9. QueuedOnce'
  <2> SUFFICES ASSUME NEW l \in Workers, NEW m \in Workers,
                      NEW i \in 1..Len(queue'[l]), NEW j \in 1..Len(queue'[m]),
                      queue'[l][i] = queue'[m][j]
               PROVE  l = m /\ i = j
    BY DEF QueuedOnce
  <2>1. queue[l][i + d(l)] = queue[m][j + d(m)]
    BY <1>6
  <2>2. l = m /\ i + d(l) = j + d(m)
    BY <1>6, <1>7, <2>1, SMTT(30) DEF QueuedOnce
  <2>3. QED BY <1>2, <2>2
<1>10. ASSUME NEW i \in 1..n
       PROVE  i \in 1..Len(queue[k]) /\ batch'[w][i] = queue[k][i] /\ batch'[w][i] \in Queued
  <2>1. i \in 1..Len(queue[k])
    BY <1>1, <1>4
  <2>2. batch'[w][i] = queue[k][i] /\ queue[k][i] \in Tasks
    BY <1>1, <1>4, <2>1
  <2>3. QED BY <2>1, <2>2 DEF Queued
<1>11. ASSUME NEW v \in Workers, v # w, NEW i \in 1..Len(batch'[v])
       PROVE  i \in 1..Len(batch[v]) /\ batch'[v][i] = batch[v][i] /\ batch'[v][i] \in Batched
  <2>1. i \in 1..Len(batch[v]) /\ batch'[v][i] = batch[v][i]
    BY <1>5, <1>11
  <2>2. batch[v][i] \in Tasks
    BY <1>1, <2>1
  <2>3. QED BY <2>1, <2>2 DEF Batched
<1>12. Queued \cap Batched = {}
  BY <1>7 DEF Apart
<1>13. BatchedOnce'
  <2> SUFFICES ASSUME NEW u \in Workers, NEW v \in Workers,
                      NEW i \in 1..Len(batch'[u]), NEW j \in 1..Len(batch'[v]),
                      batch'[u][i] = batch'[v][j]
               PROVE  u = v /\ i = j
    BY DEF BatchedOnce
  <2>1. CASE u = w /\ v = w
    BY <1>4, <1>7, <1>10, <2>1 DEF QueuedOnce
  <2>2. CASE u # w /\ v # w
    BY <1>7, <1>11, <2>2 DEF BatchedOnce
  <2>3. CASE u = w /\ v # w
    <3>1. batch'[u][i] \in Queued
      BY <1>4, <1>10, <2>3
    <3>2. batch'[v][j] \in Batched
      BY <1>11, <2>3
    <3>3. QED BY <1>12, <3>1, <3>2
  <2>4. CASE u # w /\ v = w
    <3>1. batch'[v][j] \in Queued
      BY <1>4, <1>10, <2>4
    <3>2. batch'[u][i] \in Batched
      BY <1>11, <2>4
    <3>3. QED BY <1>12, <3>1, <3>2
  <2>5. QED BY <2>1, <2>2, <2>3, <2>4
<1>14. Queued' \subseteq Queued
  <2> SUFFICES ASSUME NEW x \in Queued' PROVE x \in Queued
    OBVIOUS
  <2>1. PICK l \in Workers : \E i \in 1..Len(queue'[l]) : queue'[l][i] = x
    BY DEF Queued
  <2>2. PICK i \in 1..Len(queue'[l]) : queue'[l][i] = x
    BY <2>1
  <2>3. QED BY <1>6, <2>2 DEF Queued
<1>15. Batched' \subseteq Batched \cup Queued
  <2> SUFFICES ASSUME NEW x \in Batched' PROVE x \in Batched \cup Queued
    OBVIOUS
  <2>1. PICK v \in Workers : \E i \in 1..Len(batch'[v]) : batch'[v][i] = x
    BY DEF Batched
  <2>2. PICK i \in 1..Len(batch'[v]) : batch'[v][i] = x
    BY <2>1
  <2>3. QED BY <1>4, <1>10, <1>11, <2>2
<1>16. Batched \subseteq Batched'
  <2> SUFFICES ASSUME NEW x \in Batched PROVE x \in Batched'
    OBVIOUS
  <2>1. PICK v \in Workers : \E i \in 1..Len(batch[v]) : batch[v][i] = x
    BY DEF Batched
  <2>2. v # w
    BY <2>1, EmptySeq
  <2>3. x \in Tasks
    BY DEF Batched
  <2>4. QED BY <1>5, <2>1, <2>2, <2>3 DEF Batched
<1>17. Queued \subseteq Queued' \cup Batched'
  <2> SUFFICES ASSUME NEW x \in Queued PROVE x \in Queued' \cup Batched'
    OBVIOUS
  <2>1. PICK l \in Workers : \E i \in 1..Len(queue[l]) : queue[l][i] = x
    BY DEF Queued
  <2>2. PICK i \in 1..Len(queue[l]) : queue[l][i] = x
    BY <2>1
  <2>3. x \in Tasks
    BY DEF Queued
  <2>4. CASE l # k
    BY <1>5, <2>1, <2>3, <2>4 DEF Queued
  <2>5. CASE l = k /\ i <= n
    <3>1. i \in 1..Len(batch'[w]) /\ batch'[w][i] = x
      BY <1>1, <1>4, <2>2, <2>5
    <3>2. QED BY <2>3, <3>1 DEF Batched
  <2>6. CASE l = k /\ ~(i <= n)
    <3>1. i - n \in 1..Len(queue'[k]) /\ queue'[k][i - n] = x
      <4>1. Len(queue[k]) \in Nat /\ i \in 1..Len(queue[k])
        BY <1>1, <2>2, <2>6
      <4>2. i - n \in 1..Len(queue'[k]) /\ n + (i - n) = i
        BY <1>2, <1>4, <2>6, <4>1
      <4>3. queue'[k][i - n] = queue[k][n + (i - n)]
        BY <1>4, <4>2
      <4>4. QED BY <2>2, <2>6, <4>2, <4>3
    <3>2. QED BY <2>3, <3>1 DEF Queued
  <2>7. QED BY <2>4, <2>5, <2>6
<1>18. Queued' \cap Batched' = {}
  <2> SUFFICES ASSUME NEW x \in Queued', x \in Batched' PROVE FALSE
    OBVIOUS
  <2>1. PICK l \in Workers : \E i \in 1..Len(queue'[l]) : queue'[l][i] = x
    BY DEF Queued
  <2>2. PICK i \in 1..Len(queue'[l]) : queue'[l][i] = x
    BY <2>1
  <2>3. PICK v \in Workers : \E j \in 1..Len(batch'[v]) : batch'[v][j] = x
    BY DEF Batched
  <2>4. PICK j \in 1..Len(batch'[v]) : batch'[v][j] = x
    BY <2>3
  <2>5. CASE v # w
    BY <1>11, <1>12, <1>14, <2>4, <2>5
  <2>6. CASE v = w
    <3>1. j \in 1..n /\ j \in 1..Len(queue[k]) /\ queue[k][j] = x
      BY <1>4, <1>10, <2>4, <2>6
    <3>2. l = k /\ i + d(l) = j
      BY <1>6, <1>7, <2>2, <3>1 DEF QueuedOnce
    <3>3. QED BY <1>2, <3>1, <3>2
  <2>7. QED BY <2>5, <2>6
<1>19. Queued' \cup Batched' = Queued \cup Batched
  BY <1>14, <1>15, <1>16, <1>17
<1>20. Apart'
  BY <1>7, <1>8, <1>14, <1>15, <1>18, <1>19 DEF Apart
<1>21. Known'
  BY <1>7, <1>8, <1>19 DEF Known
<1>22. QED BY <1>8, <1>9, <1>13, <1>20, <1>21 DEF PlacesInv

\* Executing a task moves the first of the batch to the tasks that ran.
LEMMA RunTaskPlaces ==
  ASSUME OnceInv, NEW w \in Workers, RunTask(w)
  PROVE  PlacesInv'
<1> DEFINE h == Head(batch[w])
           d(v) == IF v = w THEN 1 ELSE 0
<1>1. /\ batch \in [Workers -> Seq(Tasks)] /\ batch[w] \in Seq(Tasks) /\ batch[w] # <<>>
      /\ \A v \in Workers : Len(batch[v]) \in Nat
  BY DEF OnceInv, TypeInv, TypeOK, LocalInv, RunTask
<1>2. /\ batch' = [batch EXCEPT ![w] = Tail(batch[w])] /\ ran' = ran \cup {h}
      /\ UNCHANGED <<queue, spc, ticket, index, lost>>
  BY DEF RunTask, submitterVars, closerVars
<1>3. /\ h = batch[w][1] /\ h \in Tasks /\ Len(batch[w]) >= 1
      /\ batch'[w] = Tail(batch[w]) /\ Len(batch'[w]) = Len(batch[w]) - 1
      /\ \A i \in 1..(Len(batch[w]) - 1) : batch'[w][i] = batch[w][i + 1]
  <2>1. batch'[w] = Tail(batch[w])
    BY <1>1, <1>2
  <2>2. /\ Tail(batch[w]) \in Seq(Tasks) /\ Len(Tail(batch[w])) = Len(batch[w]) - 1
        /\ Head(batch[w]) \in Tasks /\ Head(batch[w]) = batch[w][1]
        /\ \A i \in 1..(Len(batch[w]) - 1) : Tail(batch[w])[i] = batch[w][i + 1]
    BY <1>1, HeadTailProperties
  <2>3. Len(batch[w]) >= 1
    BY <1>1, EmptySeq
  <2>4. QED BY <2>1, <2>2, <2>3
<1> HIDE DEF h
<1>4. \A v \in Workers : v # w => batch'[v] = batch[v]
  BY <1>1, <1>2
<1>5. ASSUME NEW v \in Workers, NEW i \in 1..Len(batch'[v])
      PROVE  /\ i + d(v) \in 1..Len(batch[v])
             /\ batch'[v][i] = batch[v][i + d(v)]
             /\ batch'[v][i] \in Tasks
  <2>1. CASE v = w
    <3>1. i + 1 \in 1..Len(batch[w]) /\ batch'[w][i] = batch[w][i + 1]
      BY <1>1, <1>3, <2>1
    <3>2. batch[w][i + 1] \in Tasks
      BY <1>1, <3>1
    <3>3. QED BY <2>1, <3>1, <3>2
  <2>2. CASE v # w
    <3>1. i \in 1..Len(batch[v]) /\ i + 0 = i
      BY <1>4, <2>2
    <3>2. QED BY <1>1, <1>4, <2>2, <3>1
  <2>3. QED BY <2>1, <2>2
<1>6. HeldOnce /\ QueuedOnce /\ BatchedOnce /\ Apart /\ Known
  BY DEF OnceInv, PlacesInv
<1>7. Held' = Held /\ HeldOnce' /\ Queued' = Queued /\ QueuedOnce'
  BY <1>2, <1>6 DEF Held, Holds, HeldOnce, Queued, QueuedOnce
<1>8. BatchedOnce'
  <2> SUFFICES ASSUME NEW u \in Workers, NEW v \in Workers,
                      NEW i \in 1..Len(batch'[u]), NEW j \in 1..Len(batch'[v]),
                      batch'[u][i] = batch'[v][j]
               PROVE  u = v /\ i = j
    BY DEF BatchedOnce
  <2>1. batch[u][i + d(u)] = batch[v][j + d(v)]
    BY <1>5
  <2>2. u = v /\ i + d(u) = j + d(v)
    BY <1>5, <1>6, <2>1 DEF BatchedOnce
  <2>3. QED BY <2>2
<1>9. h \in Batched
  <2>1. 1 \in 1..Len(batch[w])
    BY <1>1, <1>3
  <2>2. QED BY <1>3, <2>1 DEF Batched
<1>10. Batched' = Batched \ {h}
  <2>1. ASSUME NEW x \in Batched' PROVE x \in Batched /\ x # h
    <3>1. PICK v \in Workers : \E i \in 1..Len(batch'[v]) : batch'[v][i] = x
      BY <2>1 DEF Batched
    <3>2. PICK i \in 1..Len(batch'[v]) : batch'[v][i] = x
      BY <3>1
    <3>3. x \in Batched
      BY <1>5, <3>2 DEF Batched
    <3>4. x # h
      <4>1. SUFFICES ASSUME x = h PROVE FALSE
        OBVIOUS
      <4>2. 1 \in 1..Len(batch[w]) /\ batch[w][1] = batch[v][i + d(v)]
        BY <1>1, <1>3, <1>5, <3>2, <4>1
      <4>3. v = w /\ i + d(v) = 1
        BY <1>5, <1>6, <4>2 DEF BatchedOnce
      <4>4. QED BY <4>3
    <3>5. QED BY <3>3, <3>4
  <2>2. ASSUME NEW x \in Batched, x # h PROVE x \in Batched'
    <3>1. PICK v \in Workers : \E i \in 1..Len(batch[v]) : batch[v][i] = x
      BY <2>2 DEF Batched
    <3>2. PICK i \in 1..Len(batch[v]) : batch[v][i] = x
      BY <3>1
    <3>3. x \in Tasks
      BY <2>2 DEF Batched
    <3>4. CASE v # w
      BY <1>4, <3>1, <3>3, <3>4 DEF Batched
    <3>5. CASE v = w
      <4>1. i - 1 \in 1..Len(batch'[w]) /\ i - 1 \in 1..(Len(batch[w]) - 1) /\ (i - 1) + 1 = i
        <5>1. i # 1
          BY <1>3, <2>2, <3>2, <3>5
        <5>2. QED BY <1>1, <1>3, <3>5, <5>1
      <4>2. batch'[w][i - 1] = batch[w][(i - 1) + 1]
        BY <1>3, <4>1
      <4>3. batch'[w][i - 1] = x
        BY <3>2, <3>5, <4>1, <4>2
      <4>4. QED BY <3>3, <4>1, <4>3 DEF Batched
    <3>6. QED BY <3>4, <3>5
  <2>3. QED BY <2>1, <2>2
<1>11. Apart'
  BY <1>2, <1>6, <1>7, <1>9, <1>10 DEF Apart
<1>12. Known'
  BY <1>2, <1>6, <1>7, <1>9, <1>10 DEF Known
<1>13. QED BY <1>7, <1>8, <1>11, <1>12 DEF PlacesInv

\* Once every worker has been joined, tasks are left in the queues only ...
LEMMA JoinedIdle ==
  ASSUME OnceInv, JoinLast
  PROVE  /\ Held = {} /\ Batched = {} /\ lost = {}
         /\ \A w \in Workers : wpc[w] = "exited"
<1>1. Held = {} /\ lost = {}
  BY DEF OnceInv, Closing, JoinLast, Held, Holds
<1>2. \A w \in Workers : wpc[w] = "exited"
  <2>1. \A w \in Workers : w < fi => wpc[w] = "exited"
    BY DEF OnceInv, Closing, JoinLast
  <2>2. \A w \in Workers : w < fi \/ w = fi
    <3>1. fi \in Workers /\ fi + 1 = LenThr
      BY DEF OnceInv, TypeInv, TypeOK, JoinLast
    <3>2. QED BY <3>1, WorkerIndices
  <2>3. QED BY <2>1, <2>2 DEF JoinLast
<1>3. \A w \in Workers : batch[w] = <<>>
  BY <1>2 DEF OnceInv, TypeInv, LocalInv
<1>4. Batched = {}
  BY <1>3, EmptySeq DEF Batched
<1>5. QED BY <1>1, <1>2, <1>4

\* ... and free_not_q drops those.
LEMMA JoinLastPlaces ==
  ASSUME OnceInv, JoinLast
  PROVE  PlacesInv' /\ lost' = Queued
<1>1. lost' = Queued
  <2>1. \A l \in Workers : queue[l] \in Seq(Tasks)
    BY DEF OnceInv, TypeInv, TypeOK
  <2>2. \A l \in Workers : \A i \in 1..Len(queue[l]) : queue[l][i] \in Tasks
    BY <2>1
  <2>3. lost' = UNION {{queue[l][i] : i \in 1..Len(queue[l])} : l \in Workers}
    BY DEF JoinLast
  <2>4. QED BY <2>2, <2>3 DEF Queued
<1>2. queue' = [l \in Workers |-> <<>>] /\ UNCHANGED <<batch, spc, ticket, index, ran>>
  BY DEF JoinLast, workerVars, submitterVars
<1>3. Queued' = {} /\ QueuedOnce'
  BY <1>2, EmptySeq DEF Queued, QueuedOnce
<1>4. Held' = Held /\ HeldOnce' /\ Batched' = Batched /\ BatchedOnce'
  BY <1>2 DEF OnceInv, PlacesInv, Held, Holds, HeldOnce, Batched, BatchedOnce
<1>5. Held = {} /\ Batched = {} /\ lost = {}
  BY JoinedIdle
<1>6. Apart'
  BY <1>1, <1>2, <1>3, <1>4, <1>5 DEF OnceInv, PlacesInv, Apart
<1>7. Known'
  BY <1>1, <1>2, <1>3, <1>4, <1>5 DEF OnceInv, PlacesInv, Known
<1>8. QED BY <1>1, <1>3, <1>4, <1>6, <1>7 DEF PlacesInv

\* A worker never leaves "exited", and free_task_manager goes on in the order of
\* its loops.
LEMMA ClosingStep == OnceInv /\ [Next]_vars => Closing'
<1> SUFFICES ASSUME OnceInv, [Next]_vars PROVE Closing'
  OBVIOUS
<1>0. /\ Closing /\ wpc \in [Workers -> {"probe", "try", "lock", "pop", "wait", "run", "exited"}]
      /\ spc \in [Submitters -> {"idle", "try", "lock", "push", "signal"}]
      /\ fi \in Workers
  BY DEF OnceInv, TypeInv, TypeOK
<1>1. ASSUME NEW s \in Submitters, SubmitterStep(s) PROVE Closing'
  <2>1. CASE Async(s)
    BY <1>0, <2>1 DEF Async, Closing, workerVars, closerVars
  <2>2. CASE TryPushBusy(s) \/ PushLock(s) \/ Push(s)
    BY <1>0, <2>2 DEF TryPushBusy, PushLock, Push, Closing, workerVars, closerVars
  <2>3. CASE Signal(s)
    BY <1>0, <2>3 DEF Signal, SignalCv, Closing, closerVars
  <2>4. QED BY <1>1, <2>1, <2>2, <2>3 DEF SubmitterStep
<1>2. ASSUME NEW w \in Workers, WorkerStep(w) \/ SpuriousWake(w) PROVE Closing'
  <2>1. UNCHANGED <<spc, fpc, fi, lost>>
    BY <1>2 DEF WorkerStep, SpuriousWake, ProbeBusy, ProbeLock, TryPopEmpty, TryPop, PopLock,
                PopWait, PopExit, PopTake, RunTask, submitterVars, closerVars
  <2>2. wpc[w] # "exited" /\ \A v \in Workers : v # w => wpc'[v] = wpc[v]
    BY <1>0, <1>2 DEF WorkerStep, SpuriousWake, ProbeBusy, ProbeLock, TryPopEmpty, TryPop,
                      PopLock, PopWait, PopExit, PopTake, RunTask, NextProbe, Take
  <2>3. QED BY <1>0, <2>1, <2>2 DEF Closing
<1>3. CASE FreeStart
  BY <1>0, <1>3 DEF FreeStart, Closing, workerVars, submitterVars
<1>4. CASE DoneLock \/ DoneSet
  BY <1>0, <1>4 DEF DoneLock, DoneSet, Closing, workerVars, submitterVars
<1>5. CASE DoneSignal
  <2>1. /\ spc' = spc /\ lost' = lost /\ fpc = "signal"
        /\ fpc' = "lock" \/ (fpc' = "join" /\ fi' = 0)
    BY <1>5 DEF DoneSignal, submitterVars
  <2>2. QED BY <1>0, <2>1, WorkerIndices DEF Closing
<1>6. CASE Join
  <2>1. /\ UNCHANGED <<spc, lost, wpc, fpc>> /\ fpc = "join" /\ fi' = fi + 1
        /\ wpc[fi] = "exited"
    BY <1>6 DEF Join, submitterVars, workerVars
  <2>2. \A w \in Workers : w < fi + 1 => w < fi \/ w = fi
    BY <1>0, WorkerIndices
  <2>3. QED BY <1>0, <2>1, <2>2 DEF Closing
<1>7. CASE JoinLast
  BY <1>0, <1>7, JoinedIdle DEF JoinLast, Closing, submitterVars, workerVars
<1>8. CASE UNCHANGED vars
  BY <1>0, <1>8 DEF vars, Closing
<1>9. QED
  BY <1>1, <1>2, <1>3, <1>4, <1>5, <1>6, <1>7, <1>8 DEF Next, CloserStep

\* The steps that move no task: locking, probing, waiting, signalling and closing.
QuietSubmitter(s) == TryPushBusy(s) \/ PushLock(s) \/ Signal(s)
QuietWorker(w) ==
  \/ ProbeBusy(w) \/ ProbeLock(w) \/ TryPopEmpty(w)
  \/ PopLock(w) \/ PopWait(w) \/ PopExit(w) \/ SpuriousWake(w)
QuietCloser == FreeStart \/ DoneLock \/ DoneSet \/ DoneSignal \/ Join

Unmoved == UNCHANGED <<queue, batch, ran, lost, index, ticket>>

\* Those steps indeed leave the tasks alone.
LEMMA QuietMovesNothing ==
  ASSUME OnceInv
  PROVE  /\ \A s \in Submitters : QuietSubmitter(s) =>
                Unmoved /\ \A r \in Submitters : Holds(r)' <=> Holds(r)
         /\ \A w \in Workers : QuietWorker(w) => Unmoved /\ spc' = spc
         /\ QuietCloser \/ UNCHANGED vars => Unmoved /\ spc' = spc
<1>1. ASSUME NEW s \in Submitters, QuietSubmitter(s)
      PROVE  Unmoved /\ \A r \in Submitters : Holds(r)' <=> Holds(r)
  <2>1. spc \in [Submitters -> {"idle", "try", "lock", "push", "signal"}]
    BY DEF OnceInv, TypeInv, TypeOK
  <2>2. QED BY <1>1, <2>1 DEF QuietSubmitter, TryPushBusy, PushLock, Signal, Holds, Unmoved,
                              workerVars, closerVars
<1>2. ASSUME NEW w \in Workers, QuietWorker(w) PROVE Unmoved /\ spc' = spc
  BY <1>2 DEF QuietWorker, ProbeBusy, ProbeLock, TryPopEmpty, PopLock, PopWait, PopExit,
              SpuriousWake, NextProbe, Unmoved, submitterVars, closerVars
<1>3. ASSUME QuietCloser \/ UNCHANGED vars PROVE Unmoved /\ spc' = spc
  BY <1>3 DEF QuietCloser, FreeStart, DoneLock, DoneSet, DoneSignal, Join, vars, Unmoved,
              workerVars, submitterVars
<1>4. QED BY <1>1, <1>2, <1>3

\* Every step keeps every task in one place.
LEMMA OnceInvStep == OnceInv /\ [Next]_vars => OnceInv'
<1> SUFFICES ASSUME OnceInv, [Next]_vars PROVE PlacesInv'
  BY ClosingStep, TypeInvStep DEF OnceInv
<1>1. ASSUME NEW s \in Submitters, Async(s) PROVE PlacesInv'
  BY <1>1, AsyncPlaces
<1>2. ASSUME NEW s \in Submitters, Push(s) PROVE PlacesInv'
  BY <1>2, PushPlaces
<1>3. ASSUME NEW s \in Submitters, QuietSubmitter(s) PROVE PlacesInv'
  BY <1>3, QuietMovesNothing, QuietStep DEF OnceInv, Unmoved
<1>4. ASSUME NEW w \in Workers, TryPop(w) PROVE PlacesInv'
  <2>1. /\ ProbeQ(w) \in Workers /\ queue[ProbeQ(w)] # <<>> /\ Take(w, ProbeQ(w))
        /\ UNCHANGED <<spc, ticket, index, ran, lost>>
    BY <1>4, QueueIndices DEF OnceInv, TypeInv, TryPop, submitterVars, closerVars
  <2>2. batch[w] = <<>>
    BY <1>4 DEF OnceInv, TypeInv, LocalInv, TryPop
  <2>3. QED BY <2>1, <2>2, TakePlaces
<1>5. ASSUME NEW w \in Workers, PopTake(w) PROVE PlacesInv'
  <2>1. queue[w] # <<>> /\ Take(w, w) /\ UNCHANGED <<spc, ticket, index, ran, lost>>
    BY <1>5 DEF PopTake, submitterVars, closerVars
  <2>2. batch[w] = <<>>
    BY <1>5 DEF OnceInv, TypeInv, LocalInv, PopTake
  <2>3. QED BY <2>1, <2>2, TakePlaces
<1>6. ASSUME NEW w \in Workers, RunTask(w) PROVE PlacesInv'
  BY <1>6, RunTaskPlaces
<1>7. ASSUME NEW w \in Workers, QuietWorker(w) PROVE PlacesInv'
  BY <1>7, QuietMovesNothing, QuietStep DEF OnceInv, Unmoved, Holds
<1>8. CASE JoinLast
  BY <1>8, JoinLastPlaces
<1>9. CASE QuietCloser \/ UNCHANGED vars
  BY <1>9, QuietMovesNothing, QuietStep DEF OnceInv, Unmoved, Holds
<1>10. QED
  BY <1>1, <1>2, <1>3, <1>4, <1>5, <1>6, <1>7, <1>8, <1>9
     DEF Next, SubmitterStep, WorkerStep, CloserStep, QuietSubmitter, QuietWorker, QuietCloser

----------------------------------------------------------------------------
(* No task is lost or duplicated *)

\* The invariant counts the places of each task.
LEMMA OnceInvExactly == OnceInv => ExactlyOnce
<1> SUFFICES ASSUME OnceInv, NEW t \in Tasks
             PROVE  IF t < index THEN \E p \in Places(t) : Places(t) = {p} ELSE Places(t) = {}
  BY DEF ExactlyOnce
<1> DEFINE H == {<<"sub", s, 0>> : s \in {r \in Submitters :
                                            spc[r] \in {"try", "lock", "push"} /\ ticket[r] = t}}
           Q == UNION {{<<"queue", k, i>> : i \in {j \in 1..Len(queue[k]) : queue[k][j] = t}} : k \in Workers}
           B == UNION {{<<"batch", w, i>> : i \in {j \in 1..Len(batch[w]) : batch[w][j] = t}} : w \in Workers}
           R == {<<"ran", 0, 0>> : x \in ran \cap {t}}
           L == {<<"lost", 0, 0>> : x \in lost \cap {t}}
<1>1. Places(t) = H \cup Q \cup B \cup R \cup L
  BY DEF Places
<1>2. /\ t < index <=> t \in Held \cup Queued \cup Batched \cup ran \cup lost
      /\ HeldOnce /\ QueuedOnce /\ BatchedOnce /\ Apart
  <2>1. t \in Nat /\ index \in Nat
    BY WorkerIndices DEF Tasks, OnceInv, TypeInv, TypeOK
  <2>2. t < index <=> t \in 0..(index - 1)
    BY <2>1
  <2>3. QED BY <2>2 DEF OnceInv, PlacesInv, Known
<1>3. (H # {} <=> t \in Held) /\ \A p, q \in H : p = q
  BY <1>2 DEF Held, Holds, HeldOnce
<1>4. (Q # {} <=> t \in Queued) /\ \A p, q \in Q : p = q
  <2>1. t \in Queued => Q # {}
    <3> HAVE t \in Queued
    <3>1. PICK k \in Workers : \E i \in 1..Len(queue[k]) : queue[k][i] = t
      BY DEF Queued
    <3>2. PICK i \in 1..Len(queue[k]) : queue[k][i] = t
      BY <3>1
    <3>3. <<"queue", k, i>> \in Q
      BY <3>2
    <3>4. QED BY <3>3
  <2>2. Q # {} => t \in Queued
    BY DEF Queued
  <2>3. ASSUME NEW p \in Q, NEW q \in Q PROVE p = q
    <3>1. PICK k \in Workers : \E i \in 1..Len(queue[k]) : queue[k][i] = t /\ p = <<"queue", k, i>>
      BY <2>3
    <3>2. PICK l \in Workers : \E j \in 1..Len(queue[l]) : queue[l][j] = t /\ q = <<"queue", l, j>>
      BY <2>3
    <3>3. QED BY <1>2, <3>1, <3>2 DEF QueuedOnce
  <2>4. QED BY <2>1, <2>2, <2>3
<1>5. (B # {} <=> t \in Batched) /\ \A p, q \in B : p = q
  <2>1. t \in Batched => B # {}
    <3> HAVE t \in Batched
    <3>1. PICK w \in Workers : \E i \in 1..Len(batch[w]) : batch[w][i] = t
      BY DEF Batched
    <3>2. PICK i \in 1..Len(batch[w]) : batch[w][i] = t
      BY <3>1
    <3>3. <<"batch", w, i>> \in B
      BY <3>2
    <3>4. QED BY <3>3
  <2>2. B # {} => t \in Batched
    BY DEF Batched
  <2>3. ASSUME NEW p \in B, NEW q \in B PROVE p = q
    <3>1. PICK v \in Workers : \E i \in 1..Len(batch[v]) : batch[v][i] = t /\ p = <<"batch", v, i>>
      BY <2>3
    <3>2. PICK w \in Workers : \E j \in 1..Len(batch[w]) : batch[w][j] = t /\ q = <<"batch", w, j>>
      BY <2>3
    <3>3. QED BY <1>2, <3>1, <3>2 DEF BatchedOnce
  <2>4. QED BY <2>1, <2>2, <2>3
<1>6. (R # {} <=> t \in ran) /\ \A p, q \in R : p = q
  OBVIOUS
<1>7. (L # {} <=> t \in lost) /\ \A p, q \in L : p = q
  OBVIOUS
<1> HIDE DEF H, Q, B, R, L
<1>8. t \notin Held \cup Queued \cup Batched \cup ran \cup lost => Places(t) = {}
  BY <1>1, <1>3, <1>4, <1>5, <1>6, <1>7
<1>9. t \in Held \cup Queued \cup Batched \cup ran \cup lost => \E p \in Places(t) : Places(t) = {p}
  <2>1. CASE t \in Held
    BY <1>1, <1>2, <1>3, <1>4, <1>5, <1>6, <1>7, <2>1 DEF Apart
  <2>2. CASE t \in Queued
    BY <1>1, <1>2, <1>3, <1>4, <1>5, <1>6, <1>7, <2>2 DEF Apart
  <2>3. CASE t \in Batched
    BY <1>1, <1>2, <1>3, <1>4, <1>5, <1>6, <1>7, <2>3 DEF Apart
  <2>4. CASE t \in ran
    BY <1>1, <1>2, <1>3, <1>4, <1>5, <1>6, <1>7, <2>4 DEF Apart
  <2>5. CASE t \in lost
    BY <1>1, <1>2, <1>3, <1>4, <1>5, <1>6, <1>7, <2>5 DEF Apart
  <2>6. QED BY <2>1, <2>2, <2>3, <2>4, <2>5
<1>10. QED BY <1>2, <1>8, <1>9

\* A task accepted by async_task_manager is in exactly one place, however submitters,
\* stealing workers and free_task_manager interleave: never duplicated by a batch
\* copied out of a ring, never forgotten between two queues.
THEOREM NoTaskLostOrDuplicated == Spec => []ExactlyOnce
<1>1. Spec => []OnceInv
  BY OnceInvInit, OnceInvStep, PTL DEF Spec
<1>2. QED
  BY <1>1, OnceInvExactly, PTL

----------------------------------------------------------------------------
(* The abstract pool *)

\* The tasks the pool owes are those held, queued or batched.
LEMMA PendingIs ==
  ASSUME OnceInv
  PROVE  (0..(index - 1)) \ (ran \cup lost) = Held \cup Queued \cup Batched
BY DEF OnceInv, PlacesInv, Known, Apart

\* Every step of the threads is a step of the pool or invisible to its caller:
\* async_task_manager submits, RunTask executes, free_task_manager closes and, once
\* all workers are joined, drops.
LEMMA PoolStep == OnceInv /\ [Next]_vars => [Pool!Next]_(Pool!vars)
<1> SUFFICES ASSUME OnceInv, [Next]_vars PROVE Pool!Next \/ UNCHANGED Pool!vars
  BY DEF Pool!vars
<1> DEFINE pend == (0..(index - 1)) \ (ran \cup lost)
<1>1. ASSUME NEW s \in Submitters, Async(s) PROVE Pool!Submit
  <2>1. /\ index \in Nat /\ index < MaxTasks /\ index' = index + 1
        /\ fpc = "open" /\ UNCHANGED <<ran, lost, fpc>>
    BY <1>1 DEF Async, workerVars, closerVars, OnceInv, TypeInv, TypeOK
  <2>2. 0..(index' - 1) = (0..(index - 1)) \cup {index}
    BY <2>1
  <2>3. index \notin ran \cup lost
    <3>1. index \notin 0..(index - 1)
      BY <2>1
    <3>2. QED BY <3>1 DEF OnceInv, PlacesInv, Known
  <2>4. pend' = pend \cup {index}
    BY <2>1, <2>2, <2>3
  <2>5. QED BY <2>1, <2>4 DEF Pool!Submit
<1>2. ASSUME NEW w \in Workers, RunTask(w) PROVE Pool!Next
  <2>1. /\ ran' = ran \cup {Head(batch[w])}
        /\ UNCHANGED <<index, lost, fpc>>
    BY <1>2 DEF RunTask, submitterVars, closerVars
  <2>2. Head(batch[w]) \in Batched
    <3>1. batch[w] \in Seq(Tasks) /\ batch[w] # <<>>
      BY <1>2 DEF OnceInv, TypeInv, TypeOK, LocalInv, RunTask
    <3>2. Head(batch[w]) = batch[w][1] /\ Head(batch[w]) \in Tasks /\ 1 \in 1..Len(batch[w])
      BY <3>1, HeadTailProperties, EmptySeq
    <3>3. QED BY <3>2 DEF Batched
  <2>3. Head(batch[w]) \in pend
    BY <2>2, PendingIs
  <2>4. pend' = pend \ {Head(batch[w])}
    BY <2>1
  <2>5. Pool!Execute(Head(batch[w]))
    BY <2>1, <2>3, <2>4 DEF Pool!Execute
  <2>6. QED BY <2>3, <2>5 DEF Pool!Next
<1>3. CASE FreeStart
  BY <1>3 DEF FreeStart, workerVars, submitterVars, Pool!Next, Pool!Close
<1>4. CASE JoinLast
  <2>1. fpc # "open" /\ fpc' # "open" /\ UNCHANGED <<index, ran>>
    BY <1>4 DEF JoinLast, workerVars, submitterVars
  <2>2. lost' = Queued /\ Held = {} /\ Batched = {} /\ lost = {}
    BY <1>4, JoinedIdle, JoinLastPlaces
  <2>3. pend = Queued
    BY <2>2, PendingIs
  <2>4. pend' = {} /\ lost' = lost \cup pend
    BY <2>1, <2>2, <2>3
  <2>5. QED BY <2>1, <2>4 DEF Pool!Next, Pool!Drop
<1>5. ASSUME UNCHANGED <<index, ran, lost>>, (fpc = "open") <=> (fpc' = "open")
      PROVE  UNCHANGED Pool!vars
  BY <1>5 DEF Pool!vars
<1>6. ASSUME NEW s \in Submitters, QuietSubmitter(s) \/ Push(s)
      PROVE  UNCHANGED <<index, ran, lost>> /\ fpc' = fpc
  BY <1>6 DEF QuietSubmitter, TryPushBusy, PushLock, Signal, Push, workerVars, closerVars
<1>7. ASSUME NEW w \in Workers, QuietWorker(w) \/ TryPop(w) \/ PopTake(w)
      PROVE  UNCHANGED <<index, ran, lost>> /\ fpc' = fpc
  BY <1>7 DEF QuietWorker, ProbeBusy, ProbeLock, TryPopEmpty, PopLock, PopWait, PopExit,
              SpuriousWake, TryPop, PopTake, submitterVars, closerVars
<1>8. CASE DoneLock \/ DoneSet \/ DoneSignal \/ Join \/ UNCHANGED vars
  <2>1. UNCHANGED <<index, ran, lost>> /\ ((fpc = "open") <=> (fpc' = "open"))
    BY <1>8 DEF DoneLock, DoneSet, DoneSignal, Join, vars, workerVars, submitterVars
  <2>2. QED BY <1>5, <2>1
<1>9. QED
  BY <1>1, <1>2, <1>3, <1>4, <1>5, <1>6, <1>7, <1>8
     DEF Next, SubmitterStep, WorkerStep, CloserStep, QuietSubmitter, QuietWorker, Pool!Next

\* The threads of task_manager.c implement the abstract pool: a task is executed at
\* most once, only after it was accepted, and is given up only by free_task_manager.
THEOREM PoolImplemented == Spec => ImplementsPool
<1>1. Init => Pool!Init
  BY DEF Init, Pool!Init
<1>2. Spec => []OnceInv
  BY OnceInvInit, OnceInvStep, PTL DEF Spec
<1>3. QED
  BY <1>1, <1>2, PoolStep, PTL DEF Spec, ImplementsPool, Pool!Spec

----------------------------------------------------------------------------
(* No deadlock *)

\* Thread t is between lock and unlock of the mutex of queue k.
Inside(t, k) ==
  \/ t \in Workers /\ wpc[t] = "try" /\ ProbeQ(t) = k
  \/ t \in Workers /\ wpc[t] = "pop" /\ t = k
  \/ t \in Submitters /\ spc[t] = "push" /\ SubQ(t) = k
  \/ t = Closer /\ fpc = "set" /\ fi = k

\* Whoever has a mutex is about to release it.
MutexHeld == \A k \in Workers : mtx[k] # NoThread => Inside(mtx[k], k)

\* free_task_manager has raised the flag of queue k.
Told(k) ==
  \/ fpc \in {"lock", "set"} /\ k < fi
  \/ fpc = "signal" /\ k <= fi
  \/ fpc \in {"join", "freed"}

\* The flags raised so far; only they let a worker go, and no queue survives.
Stopping ==
  /\ \A k \in Workers : done[k] <=> Told(k)
  /\ \A w \in Workers : wpc[w] = "exited" => done[w]
  /\ fpc = "open" => fi = 0
  /\ fpc = "freed" => \A k \in Workers : queue[k] = <<>>

\* No thread can take a step of its own: it sleeps, is at its end, waits for a mutex that
\* another holds or for a worker to join.  What the caller may still ask for (submit, free)
\* and spurious wake-ups are left out.
NobodyMoves ==
  /\ \A w \in Workers : wpc[w] \in {"wait", "exited"} \/ (wpc[w] = "lock" /\ mtx[w] # NoThread)
  /\ \A s \in Submitters : spc[s] = "idle" \/ (spc[s] = "lock" /\ mtx[SubQ(s)] # NoThread)
  /\ \/ fpc \in {"open", "freed"}
     \/ fpc = "lock" /\ mtx[fi] # NoThread
     \/ fpc = "join" /\ wpc[fi] # "exited"

\* Then all is done: nobody has a mutex, the calls of async_task_manager have returned, the
\* tasks they accepted have been executed or were freed with their queue, and
\* free_task_manager has returned if it was called.
AllIsDone ==
  /\ \A k \in Workers : mtx[k] = NoThread
  /\ \A s \in Submitters : spc[s] = "idle"
  /\ \/ fpc = "open" /\ 0..(index - 1) = ran /\ \A w \in Workers : wpc[w] = "wait"
     \/ fpc = "freed" /\ 0..(index - 1) = ran \cup lost /\ \A w \in Workers : wpc[w] = "exited"

\* Every lock is followed by an unlock in the same function.
LEMMA MutexHeldStep == TypeInv /\ MutexHeld /\ [Next]_vars => MutexHeld'
<1> SUFFICES ASSUME TypeInv, MutexHeld, [Next]_vars, NEW k \in Workers, mtx'[k] # NoThread
             PROVE  Inside(mtx[k], k)'
  BY DEF MutexHeld
<1> USE ThreadsAssumption DEF TypeInv, TypeOK, MutexHeld, Inside, submitterVars, workerVars, closerVars
<1>0. /\ \A s \in Submitters : SubQ(s) \in Workers /\ s \notin Workers /\ s # Closer /\ s # NoThread
      /\ \A w \in Workers : ProbeQ(w) \in Workers /\ w # Closer /\ w # NoThread
  BY QueueIndices DEF Workers
<1>1. ASSUME NEW s \in Submitters, Async(s) PROVE Inside(mtx[k], k)'
  BY <1>0, <1>1 DEF Async, SubQ, ProbeQ
<1>2. ASSUME NEW s \in Submitters, TryPushBusy(s) PROVE Inside(mtx[k], k)'
  BY <1>0, <1>2 DEF TryPushBusy, SubQ, ProbeQ
<1>3. ASSUME NEW s \in Submitters, PushLock(s) PROVE Inside(mtx[k], k)'
  BY <1>0, <1>3 DEF PushLock, SubQ, ProbeQ
<1>4. ASSUME NEW s \in Submitters, Push(s) PROVE Inside(mtx[k], k)'
  BY <1>0, <1>4 DEF Push, SubQ, ProbeQ
<1>5. ASSUME NEW s \in Submitters, Signal(s) PROVE Inside(mtx[k], k)'
  BY <1>0, <1>5 DEF Signal, SubQ, SignalCv, ProbeQ
<1>6. ASSUME NEW w \in Workers, ProbeBusy(w) PROVE Inside(mtx[k], k)'
  BY <1>0, <1>6 DEF ProbeBusy, NextProbe, SubQ, ProbeQ
<1>7. ASSUME NEW w \in Workers, ProbeLock(w) PROVE Inside(mtx[k], k)'
  BY <1>0, <1>7 DEF ProbeLock, SubQ, ProbeQ
<1>8. ASSUME NEW w \in Workers, TryPopEmpty(w) PROVE Inside(mtx[k], k)'
  BY <1>0, <1>8 DEF TryPopEmpty, NextProbe, Unlock, SubQ, ProbeQ
<1>9. ASSUME NEW w \in Workers, TryPop(w) PROVE Inside(mtx[k], k)'
  BY <1>0, <1>9 DEF TryPop, Take, Unlock, SubQ, ProbeQ
<1>10. ASSUME NEW w \in Workers, PopLock(w) PROVE Inside(mtx[k], k)'
  BY <1>0, <1>10 DEF PopLock, SubQ, ProbeQ
<1>11. ASSUME NEW w \in Workers, PopWait(w) \/ PopExit(w) PROVE Inside(mtx[k], k)'
  <2>1. CASE PopWait(w)
    BY <1>0, <2>1 DEF PopWait, Unlock, SubQ, ProbeQ
  <2>2. CASE PopExit(w)
    BY <1>0, <2>2 DEF PopExit, Unlock, SubQ, ProbeQ
  <2> QED
    BY <1>11, <2>1, <2>2
<1>12. ASSUME NEW w \in Workers, PopTake(w) PROVE Inside(mtx[k], k)'
  BY <1>0, <1>12 DEF PopTake, Take, Unlock, SubQ, ProbeQ
<1>13. ASSUME NEW w \in Workers, RunTask(w) PROVE Inside(mtx[k], k)'
  BY <1>0, <1>13 DEF RunTask, SubQ, ProbeQ
<1>14. ASSUME NEW w \in Workers, SpuriousWake(w) PROVE Inside(mtx[k], k)'
  BY <1>0, <1>14 DEF SpuriousWake, SubQ, ProbeQ
<1>15. CASE FreeStart \/ Join \/ JoinLast
  BY <1>0, <1>15 DEF FreeStart, Join, JoinLast, SubQ, ProbeQ
<1>16. CASE DoneLock
  BY <1>0, <1>16 DEF DoneLock, SubQ, ProbeQ
<1>17. CASE DoneSet
  BY <1>0, <1>17 DEF DoneSet, Unlock, SubQ, ProbeQ
<1>18. CASE DoneSignal
  BY <1>0, <1>18 DEF DoneSignal, SignalCv, SubQ, ProbeQ
<1>19. CASE UNCHANGED vars
  BY <1>19 DEF vars, SubQ, ProbeQ
<1> QED
  BY <1>1, <1>2, <1>3, <1>4, <1>5, <1>6, <1>7, <1>8, <1>9, <1>10, <1>11, <1>12, <1>13, <1>14, <1>15, <1>16,
     <1>17, <1>18, <1>19 DEF Next, SubmitterStep, WorkerStep, CloserStep

\* free_task_manager raises the flags one after the other and empties the queues last.
LEMMA StoppingStep == OnceInv /\ Stopping /\ [Next]_vars => Stopping'
<1> SUFFICES ASSUME OnceInv, Stopping, [Next]_vars PROVE Stopping'
  OBVIOUS
<1>0. /\ TypeOK /\ Closing /\ LenThr \in Nat \ {0}
      /\ \A k \in Workers : k \in Nat /\ k < LenThr
      /\ \A s \in Submitters : SubQ(s) \in Workers
  BY LenThrAssumption, QueueIndices DEF OnceInv, TypeInv, Workers
<1> USE DEF TypeOK
<1>1. ASSUME NEW s \in Submitters, SubmitterStep(s) PROVE Stopping'
  <2>1. UNCHANGED <<done, fpc, fi>> /\ \A w \in Workers : wpc'[w] = "exited" => wpc[w] = "exited"
    BY <1>0, <1>1 DEF SubmitterStep, Async, TryPushBusy, PushLock, Push, Signal, SignalCv,
                      workerVars, closerVars
  <2>2. queue' = queue \/ fpc # "freed"
    BY <1>0, <1>1 DEF SubmitterStep, Async, TryPushBusy, PushLock, Push, Signal, Closing
  <2> QED
    BY <2>1, <2>2 DEF Stopping, Told
<1>2. ASSUME NEW w \in Workers, WorkerStep(w) \/ SpuriousWake(w) PROVE Stopping'
  <2>1. UNCHANGED <<done, fpc, fi>>
    BY <1>2 DEF WorkerStep, SpuriousWake, ProbeBusy, ProbeLock, TryPopEmpty, TryPop, PopLock,
                PopWait, PopExit, PopTake, RunTask, closerVars
  <2>2. fpc # "freed"
    BY <1>0, <1>2 DEF Closing, WorkerStep, SpuriousWake, ProbeBusy, ProbeLock, TryPopEmpty, TryPop,
                      PopLock, PopWait, PopExit, PopTake, RunTask
  <2>3. \A v \in Workers : wpc'[v] = "exited" => wpc[v] = "exited" \/ done[v]
    BY <1>0, <1>2 DEF WorkerStep, SpuriousWake, ProbeBusy, ProbeLock, TryPopEmpty, TryPop, PopLock,
                      PopWait, PopExit, PopTake, RunTask, NextProbe, Take
  <2> QED
    BY <2>1, <2>2, <2>3 DEF Stopping, Told
<1>3. CASE FreeStart
  BY <1>0, <1>3 DEF FreeStart, Stopping, Told, workerVars
<1>4. CASE DoneLock
  BY <1>0, <1>4 DEF DoneLock, Stopping, Told, workerVars
<1>5. CASE DoneSet
  <2>1. /\ fpc = "set" /\ fpc' = "signal" /\ UNCHANGED <<wpc, fi>>
        /\ done' = [done EXCEPT ![fi] = TRUE]
    BY <1>5 DEF DoneSet, workerVars
  <2> QED
    BY <1>0, <2>1 DEF Stopping, Told
<1>6. CASE DoneSignal
  <2>1. /\ fpc = "signal" /\ done' = done
        /\ IF fi + 1 < LenThr THEN fi' = fi + 1 /\ fpc' = "lock" ELSE fpc' = "join"
        /\ \A w \in Workers : wpc'[w] = "exited" => wpc[w] = "exited"
    BY <1>0, <1>6 DEF DoneSignal, SignalCv
  <2> QED
    BY <1>0, <2>1 DEF Stopping, Told
<1>7. CASE Join \/ JoinLast
  <2>1. /\ fpc = "join" /\ fpc' \in {"join", "freed"} /\ UNCHANGED <<done, wpc>>
        /\ fpc' = "freed" => \A k \in Workers : queue'[k] = <<>>
    BY <1>7 DEF Join, JoinLast, workerVars
  <2> QED
    BY <2>1 DEF Stopping, Told
<1>8. CASE UNCHANGED vars
  BY <1>8 DEF vars, Stopping, Told
<1> QED
  BY <1>1, <1>2, <1>3, <1>4, <1>5, <1>6, <1>7, <1>8 DEF Next, CloserStep

\* Submitters, stealing workers and free_task_manager never wait for each other in a circle,
\* and nobody sleeps on work: whenever no thread can go on, all there was to do is done.
THEOREM NoDeadlock == Spec => [](NobodyMoves => AllIsDone)
<1>1. Init => MutexHeld /\ Stopping /\ NoLostWakeup
  BY DEF Init, MutexHeld, Stopping, Told, NoLostWakeup
<1>2. Spec => [](OnceInv /\ MutexHeld /\ Stopping /\ NoLostWakeup)
  <2>1. OnceInv => TypeInv
    BY DEF OnceInv
  <2> QED
    BY <1>1, <2>1, OnceInvInit, OnceInvStep, MutexHeldStep, StoppingStep, NoLostWakeupStep, PTL DEF Spec
<1>3. OnceInv /\ MutexHeld /\ Stopping /\ NoLostWakeup => (NobodyMoves => AllIsDone)
  <2> SUFFICES ASSUME OnceInv, MutexHeld, Stopping, NoLostWakeup, NobodyMoves PROVE AllIsDone
    OBVIOUS
  <2>0. TypeOK /\ LocalInv /\ Closing /\ Known /\ fi \in Workers
        /\ \A s \in Submitters : SubQ(s) \in Workers
    BY QueueIndices DEF OnceInv, TypeInv, TypeOK, PlacesInv
  <2>1. \A k \in Workers : mtx[k] = NoThread
    BY <2>0 DEF MutexHeld, Inside, NobodyMoves
  <2>2. \A s \in Submitters : spc[s] = "idle"
    BY <2>0, <2>1 DEF NobodyMoves
  <2>3. \A w \in Workers : wpc[w] \in {"wait", "exited"}
    BY <2>1 DEF NobodyMoves
  <2>4. \A w \in Workers : wpc[w] = "wait" /\ fpc # "signal" => queue[w] = <<>> /\ ~done[w]
    BY <2>2, <2>3 DEF NoLostWakeup
  <2>5. fpc = "open" \/ fpc = "freed"
    <3>1. CASE fpc = "join"
      <4>1. done[fi] /\ wpc[fi] = "wait"
        BY <2>0, <2>3, <3>1 DEF Stopping, Told, NobodyMoves
      <4> QED
        BY <2>0, <2>4, <3>1, <4>1
    <3> QED
      BY <2>0, <2>1, <3>1 DEF NobodyMoves
  <2>6. (fpc = "open" => \A w \in Workers : wpc[w] = "wait") /\ (fpc = "freed" => \A w \in Workers : wpc[w] = "exited")
    BY <2>3, <2>4 DEF Stopping, Told, Closing
  <2>7. Held = {} /\ Batched = {}
    <3>1. \A w \in Workers : batch[w] = <<>>
      BY <2>0, <2>3 DEF LocalInv
    <3> QED
      BY <2>2, <3>1 DEF Held, Holds, Batched
  <2>8. Queued = {}
    <3>1. \A k \in Workers : queue[k] = <<>>
      BY <2>4, <2>5, <2>6 DEF Stopping
    <3> QED
      BY <3>1 DEF Queued
  <2>9. 0..(index - 1) = ran \cup lost
    BY <2>0, <2>7, <2>8 DEF Known
  <2>10. fpc = "open" => lost = {}
    BY <2>0 DEF Closing
  <2> QED
    BY <2>1, <2>2, <2>5, <2>6, <2>9, <2>10 DEF AllIsDone
<1> QED
  BY <1>2, <1>3, PTL

============================================================================
