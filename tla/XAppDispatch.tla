---------------------------- MODULE XAppDispatch ----------------------------
(***************************************************************************)
(* From an indication to the callback of the application, and the end of   *)
(* an xApp (flexric/src/xApp).  Three threads: the event loop looks up the *)
(* active procedure of an indication and pushes the indication to a        *)
(* thread-safe queue; the dispatcher pops the queue and runs the callback; *)
(* the main thread removes its reports and stops the xApp with             *)
(* try_stop_xapp_api.  SIGINT makes the main thread leave what it is doing *)
(* for sig_handler, which stops the xApp too: the handler is a second      *)
(* frame of the main thread, and the first one does not go on until it     *)
(* ends, which it never does.                                              *)
(*                                                                         *)
(* The model starts when the reports of the application have returned.     *)
(* Only the mutex of the queue is told apart from the step it guards: the  *)
(* other critical sections are single steps.  After a failed assertion, or *)
(* a use of freed memory that the machine detects, no step is possible.    *)
(***************************************************************************)
EXTENDS Integers, Sequences

CONSTANTS
  Reports,   \* the handles that the reports returned
  MaxInd     \* bound on the indications that the RIC sends

ASSUME MaxIndAssumption == MaxInd \in Nat

VARIABLES
  active,    \* the subscriptions that exist at the RIC
  sent,      \* number of indications sent, each one named by its turn
  net,       \* messages from the RIC to the xApp, in order
  procs,     \* act_proc: the registered reports
  deleted,   \* reports whose delete answer the event loop has handled
  lpc,       \* where the event loop is
  lmsg,      \* the indication the event loop is handling
  lstop,     \* xapp->stop_token
  queue,     \* msg_disp.q.r
  holder,    \* who holds msg_disp.q.mtx
  qstop,     \* q.stop_token
  qstopped,  \* q.stopped
  qfreed,    \* the queue, its mutex and its condition variable are destroyed
  dpc,       \* where the dispatcher is
  hand,      \* the indication the dispatcher popped
  pc,        \* pc[f]: where frame f of the main thread is
  cur,       \* the report being removed
  pushed,    \* history: the indications pushed
  called,    \* history: the indications whose callback has run
  orderly,   \* history: no report was left when the size of the queue was read last
  late,      \* history: an indication found its report after the delete answer
  calm,      \* history: no SIGINT so far came amid an API call
  abort      \* the failure that stopped the program

ric   == <<active, sent, net>>
loop  == <<lpc, lmsg, lstop>>
mutex == <<holder, qstop, qstopped, qfreed>>
disp  == <<dpc, hand>>
hist  == <<pushed, called, orderly, late, calm>>
vars  == <<ric, procs, deleted, loop, queue, mutex, disp, pc, cur, hist, abort>>

Frames   == {"main", "handler"}
Messages == {"ind", "del"} \X Reports \X (0..MaxInd)

\* Types; no more is queued or called back than the RIC sent.
TypeOK ==
  /\ active \subseteq Reports /\ sent \in 0..MaxInd /\ net \in Seq(Messages)
  /\ procs \subseteq Reports /\ deleted \subseteq Reports
  /\ lpc \in {"epoll", "copy", "push", "ended"} /\ lmsg \in Messages \cup {<<>>}
  /\ lstop \in BOOLEAN /\ qstop \in BOOLEAN /\ qstopped \in BOOLEAN
  /\ qfreed \in BOOLEAN /\ holder \in Frames \cup {"nobody", "disp"}
  /\ queue \in Seq(1..MaxInd) /\ Len(queue) + Len(called) <= sent /\ hand \in 0..MaxInd
  /\ dpc \in {"pop", "check", "block", "asleep", "take", "call", "null", "last",
             "ended"}
  /\ pc \in [Frames -> {"off", "idle", "wait", "poll", "size", "loop",
                        "sync", "token", "signal", "queue", "join", "stuck",
                        "ended"}]
  /\ cur \in Reports \cup {0}
  /\ pushed \in Seq(1..MaxInd) /\ called \in Seq(1..MaxInd)
  /\ orderly \in BOOLEAN /\ late \in BOOLEAN /\ calm \in BOOLEAN
  /\ abort \in {"none", "node_id_freed", "queue_freed", "mutex_busy", "freed_twice"}

Init ==
  /\ active = Reports /\ sent = 0 /\ net = <<>>
  /\ procs = Reports /\ deleted = {}
  /\ lpc = "epoll" /\ lmsg = <<>> /\ lstop = FALSE
  /\ queue = <<>> /\ holder = "nobody"
  /\ qstop = FALSE /\ qstopped = FALSE /\ qfreed = FALSE
  /\ dpc = "pop" /\ hand = 0
  /\ pc = [f \in Frames |-> IF f = "main" THEN "idle" ELSE "off"] /\ cur = 0
  /\ pushed = <<>> /\ called = <<>>
  /\ orderly = FALSE /\ late = FALSE /\ calm = TRUE
  /\ abort = "none"

Fail(what) ==
  /\ abort' = what
  /\ UNCHANGED <<ric, procs, deleted, loop, queue, mutex, disp, pc, cur, hist>>

\* Nothing happens once the program has ended.
Alive == abort = "none" /\ \A f \in Frames : pc[f] # "ended"

Free == holder = "nobody"      \* the mutex of the queue can be taken

----------------------------------------------------------------------------
(* The RIC *)

\* An indication of a report: also after the delete answer, since an E2 node sends
\* what it had queued when it answers (see E2Agent).
Indicate(r) ==
  /\ sent < MaxInd
  /\ sent' = sent + 1
  /\ net' = Append(net, <<"ind", r, sent + 1>>)
  /\ UNCHANGED <<active, procs, deleted, loop, queue, mutex, disp, pc, cur, hist, abort>>

\* The answer to the delete request that rm_report_sm_sync_xapp sent
AnswerDelete ==
  /\ pc["main"] = "wait" /\ cur \in active
  /\ active' = active \ {cur}
  /\ net' = Append(net, <<"del", cur, 0>>)
  /\ UNCHANGED <<sent, procs, deleted, loop, queue, mutex, disp, pc, cur, hist, abort>>

----------------------------------------------------------------------------
(* The event loop *)

\* The delete answer signals the main thread.
HandleDelete ==
  /\ lpc = "epoll" /\ ~lstop
  /\ net # <<>> /\ Head(net)[1] = "del"
  /\ net' = Tail(net)
  /\ deleted' = deleted \cup {Head(net)[2]}
  /\ UNCHANGED <<active, sent, procs, loop, queue, mutex, disp, pc, cur, hist, abort>>

\* find_act_proc copies the entry, and not what its node id points to; an indication
\* without an active procedure is dropped.
FindProc ==
  /\ lpc = "epoll" /\ ~lstop
  /\ net # <<>> /\ Head(net)[1] = "ind"
  /\ LET r == Head(net)[2] IN
     /\ net' = Tail(net)
     /\ lmsg' = IF r \in procs THEN Head(net) ELSE <<>>
     /\ lpc'  = IF r \in procs THEN "copy" ELSE "epoll"
     /\ late' = (late \/ r \in procs \cap deleted)
  /\ UNCHANGED <<active, sent, procs, deleted, lstop, queue, mutex, disp, pc, cur,
                 pushed, called, orderly, calm, abort>>

\* cp_global_e2_node_id of the copied entry: its node id is freed when the main
\* thread has removed the report in between, and what is read then may fail or not.
CopyNode ==
  /\ lpc = "copy"
  /\ \/ /\ lpc' = "push"
        /\ UNCHANGED <<ric, procs, deleted, lmsg, lstop, queue, mutex, disp, pc, cur,
                       hist, abort>>
     \/ /\ lmsg[2] \notin procs
        /\ Fail("node_id_freed")

\* push_tsnq
PushSilently ==     \* fault: no signal
  /\ lpc = "push" /\ Free
  /\ queue' = Append(queue, lmsg[3])
  /\ pushed' = Append(pushed, lmsg[3])
  /\ lpc' = "epoll" /\ lmsg' = <<>>
  /\ UNCHANGED <<ric, procs, deleted, lstop, mutex, disp, pc, cur, called, orderly,
                 late, calm, abort>>

Push ==
  /\ lpc = "push" /\ Free
  /\ IF qfreed
       THEN Fail("queue_freed")
       ELSE /\ queue' = Append(queue, lmsg[3])
            /\ pushed' = Append(pushed, lmsg[3])
            /\ dpc' = IF dpc = "asleep" THEN "pop" ELSE dpc
            /\ lpc' = "epoll" /\ lmsg' = <<>>
            /\ UNCHANGED <<ric, procs, deleted, lstop, mutex, hand, pc, cur, called,
                           orderly, late, calm, abort>>

\* epoll_wait times out, so that the loop reads stop_token
LoopEnds ==
  /\ lpc = "epoll" /\ lstop
  /\ lpc' = "ended"
  /\ UNCHANGED <<ric, procs, deleted, lmsg, lstop, queue, mutex, disp, pc, cur, hist,
                 abort>>

----------------------------------------------------------------------------
(* The dispatcher: worker_thread and wait_and_pop_tsnq *)

\* The dispatcher goes from one point of its code to the next.
DispGoes(from, to) == dpc = from /\ dpc' = to

DispLock ==
  /\ Free
  /\ DispGoes("pop", "check")
  /\ holder' = "disp"
  /\ UNCHANGED <<ric, procs, deleted, loop, queue, qstop, qstopped, qfreed, hand, pc,
                 cur, hist, abort>>

\* the condition of the loop around pthread_cond_wait
DispCheck ==
  /\ DispGoes("check", IF queue = <<>> /\ ~qstop THEN "block" ELSE "take")
  /\ UNCHANGED <<ric, procs, deleted, loop, queue, mutex, hand, pc, cur, hist, abort>>

\* pthread_cond_wait releases the mutex as it falls asleep.
DispBlock ==
  /\ DispGoes("block", "asleep")
  /\ holder' = "nobody"
  /\ UNCHANGED <<ric, procs, deleted, loop, queue, qstop, qstopped, qfreed, hand, pc,
                 cur, hist, abort>>

\* a spurious wake-up
DispWakes ==
  /\ DispGoes("asleep", "pop")
  /\ UNCHANGED <<ric, procs, deleted, loop, queue, mutex, hand, pc, cur, hist, abort>>

\* The token is read again: it may have been set since the loop ended.
DispTakeKeeps ==     \* fault: the element is not erased
  /\ dpc = "take"
  /\ holder' = "nobody"
  /\ IF qstop
       THEN dpc' = "null" /\ UNCHANGED hand
       ELSE dpc' = "call" /\ hand' = Head(queue)
  /\ UNCHANGED <<ric, procs, deleted, loop, queue, qstop, qstopped, qfreed, pc, cur, hist,
                 abort>>

DispTake ==
  /\ dpc = "take"
  /\ holder' = "nobody"
  /\ IF qstop
       THEN dpc' = "null" /\ UNCHANGED <<hand, queue>>
       ELSE dpc' = "call" /\ hand' = Head(queue) /\ queue' = Tail(queue)
  /\ UNCHANGED <<ric, procs, deleted, loop, qstop, qstopped, qfreed, pc, cur, hist, abort>>

\* sm_cb, and the release of the indication
DispCall ==
  /\ DispGoes("call", "pop")
  /\ called' = Append(called, hand)
  /\ hand' = 0
  /\ UNCHANGED <<ric, procs, deleted, loop, queue, mutex, pc, cur, pushed, orderly,
                 late, calm, abort>>

\* wait_and_pop_tsnq sets stopped after it released the mutex.
DispStops ==
  /\ DispGoes("null", "last")
  /\ qstopped' = TRUE
  /\ UNCHANGED <<ric, procs, deleted, loop, queue, holder, qstop, qfreed, hand, pc, cur,
                 hist, abort>>

\* worker_thread sets it once more, which the join waits for.
DispEnds ==
  /\ DispGoes("last", "ended")
  /\ UNCHANGED <<ric, procs, deleted, loop, queue, mutex, hand, pc, cur, hist, abort>>

----------------------------------------------------------------------------
(* The main thread, in its own frame or in the signal handler *)

\* The first frame of the main thread does not go on while the handler runs.
Runs(f) == f = "handler" \/ pc["handler"] = "off"

FrameGoes(f, from, to) == Runs(f) /\ pc[f] = from /\ pc' = [pc EXCEPT ![f] = to]

\* rm_report_sm_sync_xapp sends the delete request and waits for the answer.
RmReport(r) ==
  /\ FrameGoes("main", "idle", "wait")
  /\ r \in procs
  /\ cur' = r
  /\ UNCHANGED <<ric, procs, deleted, loop, queue, mutex, disp, hist, abort>>

\* the answer arrived: rm_act_proc
RmReportReturns ==
  /\ FrameGoes("main", "wait", "idle")
  /\ cur \in deleted
  /\ procs' = procs \ {cur}
  /\ UNCHANGED <<ric, deleted, loop, queue, mutex, disp, cur, hist, abort>>

\* SIGINT: it comes to the main thread, wherever that is.
Interrupt ==
  /\ pc["handler"] = "off"
  /\ pc' = [pc EXCEPT !["handler"] = "poll"]
  /\ calm' = (calm /\ pc["main"] \in {"idle", "poll"})
  /\ UNCHANGED <<ric, procs, deleted, loop, queue, mutex, disp, cur, pushed, called,
                 orderly, late, abort>>

\* try_stop_xapp_api: size_tsnq takes the mutex.  An xApp that the interrupted frame
\* has begun to free is freed for the second time, which may be detected or not: what
\* is not detected ends the program all the same.
Stopping == pc["main"] \in {"loop", "sync", "token", "signal", "queue", "join"}

TryStop(f) ==
  /\ Runs(f) /\ pc[f] \in IF f = "main" THEN {"idle", "poll"} ELSE {"poll"}
  /\ IF f = "handler" /\ Stopping
       THEN \/ Fail("freed_twice")
            \/ /\ pc' = [pc EXCEPT ![f] = "ended"]
               /\ UNCHANGED <<ric, procs, deleted, loop, queue, mutex, disp, cur, hist,
                              abort>>
       ELSE /\ Free
            /\ holder' = f
            /\ pc' = [pc EXCEPT ![f] = "size"]
            /\ UNCHANGED <<ric, procs, deleted, loop, queue, qstop, qstopped, qfreed,
                           disp, cur, hist, abort>>

\* try_stop_xapp_api goes on to free_e42_xapp if the queue was empty; otherwise the
\* caller sleeps and tries again.
ReadSizeAnyway(f) ==     \* fault: the size does not matter
  /\ FrameGoes(f, "size", "loop")
  /\ holder' = "nobody"
  /\ orderly' = (procs = {})
  /\ lstop' = TRUE
  /\ UNCHANGED <<ric, procs, deleted, lpc, lmsg, queue, qstop, qstopped, qfreed, disp,
                 cur, pushed, called, late, calm, abort>>

ReadSize(f) ==
  /\ FrameGoes(f, "size", IF queue = <<>> THEN "loop" ELSE "poll")
  /\ holder' = "nobody"
  /\ orderly' = (procs = {})
  /\ lstop' = (queue = <<>>)
  /\ UNCHANGED <<ric, procs, deleted, lpc, lmsg, queue, qstop, qstopped, qfreed, disp,
                 cur, pushed, called, late, calm, abort>>

\* free_e42_xapp polls until the event loop has stopped.
LoopStoppedUnseen(f) ==     \* fault: it does not wait for the event loop
  /\ FrameGoes(f, "loop", "sync")
  /\ UNCHANGED <<ric, procs, deleted, loop, queue, mutex, disp, cur, hist, abort>>

LoopStopped(f) ==
  /\ FrameGoes(f, "loop", "sync")
  /\ lpc = "ended"
  /\ UNCHANGED <<ric, procs, deleted, loop, queue, mutex, disp, cur, hist, abort>>

\* free_sync_ui destroys the condition variable, which may wait for the frame that
\* sleeps on it.
FreeSync(f) ==
  /\ \/ FrameGoes(f, "sync", "token")
     \/ FrameGoes(f, "sync", "stuck") /\ f = "handler" /\ pc["main"] = "wait"
  /\ UNCHANGED <<ric, procs, deleted, loop, queue, mutex, disp, cur, hist, abort>>

\* free_tsnq: the token is set without the mutex
SetToken(f) ==
  /\ FrameGoes(f, "token", "signal")
  /\ qstop' = TRUE
  /\ UNCHANGED <<ric, procs, deleted, loop, queue, holder, qstopped, qfreed, disp, cur,
                 hist, abort>>

\* and signalled with it
SignalStopUnlocked(f) ==     \* fault: the signal does not wait for the mutex
  /\ FrameGoes(f, "signal", "queue")
  /\ dpc' = IF dpc = "asleep" THEN "pop" ELSE dpc
  /\ UNCHANGED <<ric, procs, deleted, loop, queue, mutex, hand, cur, hist, abort>>

SignalStop(f) ==
  /\ FrameGoes(f, "signal", "queue") /\ Free
  /\ dpc' = IF dpc = "asleep" THEN "pop" ELSE dpc
  /\ UNCHANGED <<ric, procs, deleted, loop, queue, mutex, hand, cur, hist, abort>>

\* It polls until the dispatcher has stopped, and destroys the queue.
FreeQueue(f) ==
  /\ Runs(f) /\ pc[f] = "queue" /\ qstopped
  /\ IF Free
       THEN /\ pc' = [pc EXCEPT ![f] = "join"]
            /\ queue' = <<>> /\ qfreed' = TRUE
            /\ UNCHANGED <<ric, procs, deleted, loop, holder, qstop, qstopped, disp, cur,
                           hist, abort>>
       ELSE Fail("mutex_busy")

\* free_msg_dispatcher joins the dispatcher, try_stop_xapp_api the event loop: then
\* main returns, or sig_handler exits.
Join(f) ==
  /\ FrameGoes(f, "join", "ended")
  /\ dpc = "ended"
  /\ UNCHANGED <<ric, procs, deleted, loop, queue, mutex, disp, cur, hist, abort>>

----------------------------------------------------------------------------
Ric  == AnswerDelete \/ \E r \in Reports : Indicate(r)
Loop == HandleDelete \/ FindProc \/ CopyNode \/ Push \/ LoopEnds
Disp == \/ DispLock \/ DispCheck \/ DispBlock \/ DispTake \/ DispCall \/ DispStops
        \/ DispEnds

\* what a frame does once it has called try_stop_xapp_api, until it returns true
Stop(f) ==
  \/ pc[f] # "idle" /\ TryStop(f)
  \/ ReadSize(f) \/ LoopStopped(f) \/ FreeSync(f) \/ SetToken(f) \/ SignalStop(f)
  \/ FreeQueue(f) \/ Join(f)

Main ==
  \/ \E r \in Reports : RmReport(r)
  \/ RmReportReturns
  \/ pc["main"] = "idle" /\ TryStop("main")
  \/ \E f \in Frames : Stop(f)

Next == Alive /\ (Ric \/ Loop \/ Disp \/ DispWakes \/ Main \/ Interrupt)

Spec == Init /\ [][Next]_vars

\* The threads run, and get the mutex of the queue in turn; a callback returns,
\* epoll_wait times out and the RIC answers.  The application may keep its reports for
\* ever, and nobody needs to press a key.
Fairness ==
  /\ SF_vars(Alive /\ Loop) /\ SF_vars(Alive /\ Disp)
  /\ \A f \in Frames : SF_vars(Alive /\ Stop(f))
  /\ WF_vars(Alive /\ AnswerDelete) /\ WF_vars(Alive /\ RmReportReturns)

FairSpec == Spec /\ Fairness

----------------------------------------------------------------------------
(* Properties *)

\* What can stop the program (CopyNode, TryStop, Push, FreeQueue): a node id is used
\* after its release only for an indication that overtook nothing and came after the
\* delete answer; the xApp is freed twice only by a SIGINT amid an API call; and no
\* thread meets a queue, or a mutex, that free_e42_xapp destroyed under it.
FailuresForeseen ==
  /\ abort = "node_id_freed" => late
  /\ abort = "freed_twice" => ~calm
  /\ abort \notin {"queue_freed", "mutex_busy"}

\* The callbacks run once for each indication pushed, in order (push_tsnq,
\* wait_and_pop_tsnq).  The indications left at the end are lost, but none is if the
\* application had removed its reports before try_stop_xapp_api found the queue empty:
\* this is what the test of the size is for, and it can only be relied upon then.
CallbacksExact ==
  ~qfreed \/ (orderly /\ ~late) =>
    pushed = called \o (IF hand = 0 THEN <<>> ELSE <<hand>>) \o queue

\* The callback of an indication in the queue runs, unless the xApp is stopped: no
\* signal of push_tsnq is lost.
IndicationsCalled ==
  \A k \in 1..MaxInd :
    (\E j \in DOMAIN queue : queue[j] = k)
      ~> (\E j \in DOMAIN called : called[j] = k) \/ qstop \/ ~Alive \/ ~calm

\* A caller that repeats try_stop_xapp_api, as the examples and sig_handler do, sees it
\* end once the RIC sends no more; a SIGINT amid an API call may leave it waiting for
\* the mutex of the queue, or for the condition variable, that its own thread holds.
StopEnds ==
  \A f \in Frames : pc[f] = "poll" ~> ~Alive \/ ~calm
=============================================================================
