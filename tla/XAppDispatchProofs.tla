------------------------- MODULE XAppDispatchProofs -------------------------
(***************************************************************************)
(* The end of an xApp, for every set of reports and any number of          *)
(* indications: what can fail is foreseen, the callbacks are exact, and    *)
(* no more is called back than the RIC sent.                               *)
(*                                                                         *)
(* The inductive invariant says who holds the mutex of the queue, which    *)
(* of the two frames of the main thread can be where, how far the threads  *)
(* are when free_e42_xapp destroys what they share, and that indications   *)
(* are numbered in the order in which they travel.                         *)
(* Wakeups, Tokens and Asked add why whoever waits is woken.               *)
(***************************************************************************)
EXTENDS XAppDispatch, SequenceTheorems, TLAPS

Inds == {"ind"} \X Reports \X (1..MaxInd)
Dels == {"del"} \X Reports \X (0..MaxInd)

Busy == lpc \in {"copy", "push"}

\* Types; indications are numbered from 1.
States ==
  /\ active \subseteq Reports /\ sent \in 0..MaxInd
  /\ procs \subseteq Reports /\ deleted \subseteq Reports
  /\ lpc \in {"epoll", "copy", "push", "ended"}
  /\ lstop \in BOOLEAN /\ qstop \in BOOLEAN /\ qstopped \in BOOLEAN
  /\ qfreed \in BOOLEAN /\ holder \in Frames \cup {"nobody", "disp"}
  /\ dpc \in {"pop", "check", "block", "asleep", "take", "call", "null", "last",
             "ended"}
  /\ pc \in [Frames -> {"off", "idle", "wait", "poll", "size", "loop",
                        "sync", "token", "signal", "queue", "join", "stuck",
                        "ended"}]
  /\ cur \in Reports \cup {0}
  /\ orderly \in BOOLEAN /\ late \in BOOLEAN /\ calm \in BOOLEAN

Failures == abort \in {"none", "node_id_freed", "queue_freed", "mutex_busy", "freed_twice"}

Travel ==
  /\ net \in Seq(Inds \cup Dels)
  /\ lmsg \in Inds \cup {<<>>} /\ (Busy => lmsg \in Inds)
  /\ queue \in Seq(1..MaxInd) /\ hand \in 0..MaxInd
  /\ pushed \in Seq(1..MaxInd) /\ called \in Seq(1..MaxInd)
  /\ hand # 0 <=> dpc = "call"

\* The mutex of the queue, and what a thread that holds it knows.
Mutex ==
  /\ holder = "disp" <=> dpc \in {"check", "block", "take"}
  /\ \A f \in Frames : holder = f <=> pc[f] = "size"
  /\ dpc = "take" => queue # <<>> \/ qstop
  /\ qstopped => dpc \in {"last", "ended"}

\* free_e42_xapp, after try_stop_xapp_api found the queue empty
Freeing(f) == pc[f] \in {"loop", "sync", "token", "signal", "queue", "join", "stuck"}

\* The handler gets past its first step only if the frame below it is in none.
TwoFrames ==
  /\ pc["main"] \notin {"off", "stuck"}
  /\ pc["handler"] \notin {"idle", "wait"}
  /\ pc["handler"] # "off" /\ calm => pc["main"] \in {"idle", "poll"}
  /\ pc["handler"] = "size" \/ Freeing("handler") =>
       pc["main"] # "size" /\ ~Freeing("main")

\* A report is removed after its delete answer, which the event loop handles between two
\* indications.
Removal ==
  /\ Reports \subseteq procs \cup deleted
  /\ Busy /\ lmsg[2] \in deleted => late

\* The event loop has ended when what it uses is destroyed, and so has the dispatcher.
Ended ==
  /\ \A f \in Frames : pc[f] \in {"sync", "token", "signal", "queue", "join", "stuck"} =>
       lpc = "ended"
  /\ qfreed => lpc = "ended" /\ qstopped /\ queue = <<>>
  /\ qfreed => \E f \in Frames : pc[f] \in {"join", "ended"}
  /\ \A f \in Frames : Freeing(f) => lstop

\* What an orderly stop has found stays.
Orderly ==
  \A f \in Frames : Freeing(f) /\ orderly /\ ~late => procs = {} /\ queue = <<>>

Way == called \o (IF hand = 0 THEN <<>> ELSE <<hand>>) \o queue

\* The number of the last indication that has left the socket
LastPushed == IF pushed = <<>> THEN 0 ELSE pushed[Len(pushed)]
LastRead   == IF Busy THEN lmsg[3] ELSE LastPushed

Numbers ==
  /\ Len(pushed) <= LastPushed
  /\ Busy => LastPushed < lmsg[3]
  /\ LastRead <= sent
  /\ \A i \in DOMAIN net : net[i][1] = "ind" => LastRead < net[i][3] /\ net[i][3] <= sent
  /\ \A i, j \in DOMAIN net :
       i < j /\ net[i][1] = "ind" /\ net[j][1] = "ind" => net[i][3] < net[j][3]

\* Nothing is called back that was not pushed.
Counted == Len(queue) + Len(called) + (IF hand = 0 THEN 0 ELSE 1) <= Len(pushed)
-----------------------------------------------------------------------------
(* Steps *)

\* The last element of a sequence
LEMMA LastElement ==
  ASSUME NEW S, NEW q \in Seq(S), q # <<>>
  PROVE  q[Len(q)] \in S
<1>1. Len(q) \in 1..Len(q)
  OBVIOUS
<1> QED
  BY <1>1

\* Moving the head of a sequence in front, and appending to the last part of three
LEMMA TakeHead ==
  ASSUME NEW S, NEW q \in Seq(S), q # <<>>, NEW c \in Seq(S)
  PROVE  /\ Head(q) \in S /\ Tail(q) \in Seq(S) /\ Len(Tail(q)) = Len(q) - 1
         /\ (c \o <<>>) \o q = (c \o <<Head(q)>>) \o Tail(q)
<1>1. Head(q) \in S /\ Tail(q) \in Seq(S) /\ Len(Tail(q)) = Len(q) - 1
  BY HeadTailProperties
<1>2. c \o <<>> = c
  BY ConcatEmptySeq
<1>3. q = <<Head(q)>> \o Tail(q)
  BY HeadTailProperties
<1>4. <<Head(q)>> \in Seq(S)
  BY <1>1
<1>5. (c \o <<Head(q)>>) \o Tail(q) = c \o (<<Head(q)>> \o Tail(q))
  BY <1>1, <1>4, ConcatAssociative
<1> QED
  BY <1>1, <1>2, <1>3, <1>5

LEMMA AppendToLast ==
  ASSUME NEW S, NEW c \in Seq(S), NEW h \in Seq(S), NEW q \in Seq(S), NEW e \in S
  PROVE  (c \o h) \o Append(q, e) = Append((c \o h) \o q, e)
<1>0. <<e>> \in Seq(S)
  OBVIOUS
<1>1. c \o h \in Seq(S) /\ (c \o h) \o q \in Seq(S)
  BY ConcatProperties
<1>2. Append(q, e) = q \o <<e>> /\ Append((c \o h) \o q, e) = ((c \o h) \o q) \o <<e>>
  BY <1>1, AppendIsConcat
<1>3. ((c \o h) \o q) \o <<e>> = (c \o h) \o (q \o <<e>>)
  BY <1>0, <1>1, ConcatAssociative, SMTT(30)
<1> QED
  BY <1>2, <1>3

\* What is pushed comes last on the way to the callbacks.
LEMMA WayGrows ==
  ASSUME NEW S, called \in Seq(S), queue \in Seq(S), hand = 0 \/ hand \in S, NEW e \in S
  PROVE  (called \o (IF hand = 0 THEN <<>> ELSE <<hand>>)) \o Append(queue, e) = Append(Way, e)
<1> DEFINE h == IF hand = 0 THEN <<>> ELSE <<hand>>
<1>1. <<>> \in Seq(S) /\ (hand \in S => <<hand>> \in Seq(S))
  OBVIOUS
<1>2. h \in Seq(S)
  BY <1>1
<1> HIDE DEF h
<1>3. (called \o h) \o Append(queue, e) = Append((called \o h) \o queue, e)
  BY <1>2, AppendToLast, SMTT(30)
<1> QED
  BY <1>3 DEF h, Way

\* The message at the head of the network, if it is an indication or an answer
LEMMA NetHead ==
  ASSUME Travel, net # <<>>
  PROVE  /\ Head(net) = net[1] /\ 1 \in DOMAIN net
         /\ Head(net)[1] = "ind" => Head(net) \in Inds
         /\ Head(net)[1] = "del" => Head(net)[2] \in Reports
         /\ Tail(net) \in Seq(Inds \cup Dels)
         /\ \A i \in DOMAIN Tail(net) : i + 1 \in DOMAIN net /\ Tail(net)[i] = net[i + 1]
<1>1. net \in Seq(Inds \cup Dels)
  BY DEF Travel
<1>2. Head(net) = net[1] /\ 1 \in DOMAIN net /\ Head(net) \in Inds \cup Dels
  BY <1>1
<1>3. /\ Head(net)[1] = "ind" => Head(net) \in Inds
      /\ Head(net)[1] = "del" => Head(net)[2] \in Reports
  BY <1>2 DEF Inds, Dels
<1>4. /\ Tail(net) \in Seq(Inds \cup Dels)
      /\ \A i \in DOMAIN Tail(net) : i + 1 \in DOMAIN net /\ Tail(net)[i] = net[i + 1]
  BY <1>1
<1> QED
  BY <1>2, <1>3, <1>4


\* Every step keeps the types.
LEMMA StatesStep ==
  ASSUME States, Travel, Alive, [Next]_vars
  PROVE  States'
<1> USE DEF States, Frames, ric, loop, mutex, disp, hist
<1>1. CASE UNCHANGED vars
  BY <1>1 DEF vars
<1>2. ASSUME NEW r \in Reports, Indicate(r) PROVE States'
  BY <1>2, MaxIndAssumption DEF Indicate
<1>3. CASE AnswerDelete
  BY <1>3 DEF AnswerDelete
<1>4. CASE HandleDelete
  BY <1>4, NetHead DEF HandleDelete, Travel
<1>5. CASE FindProc
  BY <1>5 DEF FindProc, Travel
<1>6. CASE CopyNode
  BY <1>6 DEF CopyNode, Fail
<1>7. CASE Push
  BY <1>7 DEF Push, Fail
<1>8. CASE LoopEnds
  BY <1>8 DEF LoopEnds
<1>9. CASE DispLock
  BY <1>9 DEF DispLock, DispGoes
<1>10. CASE DispCheck
  BY <1>10 DEF DispCheck, DispGoes
<1>11. CASE DispBlock
  BY <1>11 DEF DispBlock, DispGoes
<1>12. CASE DispTake
  BY <1>12 DEF DispTake
<1>13. CASE DispCall
  BY <1>13 DEF DispCall, DispGoes
<1>14. CASE DispStops
  BY <1>14 DEF DispStops, DispGoes
<1>15. CASE DispEnds
  BY <1>15 DEF DispEnds, DispGoes
<1>16. CASE DispWakes
  BY <1>16 DEF DispWakes, DispGoes
<1>17. ASSUME NEW r \in Reports, RmReport(r) PROVE States'
  BY <1>17 DEF RmReport, FrameGoes, Runs
<1>18. CASE RmReportReturns
  BY <1>18 DEF RmReportReturns, FrameGoes, Runs
<1>19. ASSUME NEW f \in Frames, TryStop(f) PROVE States'
  BY <1>19 DEF TryStop, Runs, Fail
<1>20. ASSUME NEW f \in Frames, ReadSize(f) PROVE States'
  BY <1>20 DEF ReadSize, FrameGoes, Runs
<1>21. ASSUME NEW f \in Frames, LoopStopped(f) PROVE States'
  BY <1>21 DEF LoopStopped, FrameGoes, Runs
<1>22. ASSUME NEW f \in Frames, FreeSync(f) PROVE States'
  BY <1>22 DEF FreeSync, FrameGoes, Runs
<1>23. ASSUME NEW f \in Frames, SetToken(f) PROVE States'
  BY <1>23 DEF SetToken, FrameGoes, Runs
<1>24. ASSUME NEW f \in Frames, SignalStop(f) PROVE States'
  BY <1>24 DEF SignalStop, FrameGoes, Runs
<1>25. ASSUME NEW f \in Frames, FreeQueue(f) PROVE States'
  <2>1. CASE ~Free
    BY <1>25, <2>1 DEF FreeQueue, Fail
  <2>2. CASE Free
    <3>1. /\ pc' = [pc EXCEPT ![f] = "join"] /\ qfreed' = TRUE
          /\ UNCHANGED <<active, sent, procs, deleted, lpc, lstop, qstop, qstopped, holder,
                        dpc, cur, orderly, late, calm>>
      BY <1>25, <2>2 DEF FreeQueue
    <3> QED
      BY <3>1
  <2> QED
    BY <2>1, <2>2
<1>26. ASSUME NEW f \in Frames, Join(f) PROVE States'
  BY <1>26 DEF Join, FrameGoes, Runs
<1>27. CASE Interrupt
  BY <1>27 DEF Interrupt
<1> QED
  BY <1>1, <1>2, <1>3, <1>4, <1>5, <1>6, <1>7, <1>8, <1>9, <1>10, <1>11, <1>12, <1>13,
     <1>14, <1>15, <1>16, <1>17, <1>18, <1>19, <1>20, <1>21, <1>22, <1>23, <1>24, <1>25,
     <1>26, <1>27
  DEF Next, Ric, Loop, Disp, Main, Stop, Frames

\* Every step keeps Mutex.
LEMMA MutexStep ==
  ASSUME States, Travel, Mutex, TwoFrames, Alive, [Next]_vars
  PROVE  Mutex'
<1> USE DEF States, Mutex, TwoFrames, Frames, Freeing, Alive, Free, ric, loop, mutex, disp, hist
<1>1. CASE UNCHANGED vars
  BY <1>1 DEF vars
<1>2. CASE Push
  BY <1>2 DEF Push, Fail
<1>3. CASE DispLock
  BY <1>3 DEF DispLock, DispGoes
<1>4. CASE DispCheck
  BY <1>4 DEF DispCheck, DispGoes
<1>5. CASE DispBlock
  BY <1>5 DEF DispBlock, DispGoes
<1>6. CASE DispTake
  BY <1>6 DEF DispTake
<1>7. CASE DispCall
  BY <1>7 DEF DispCall, DispGoes
<1>8. CASE DispStops
  BY <1>8 DEF DispStops, DispGoes
<1>9. CASE DispEnds
  BY <1>9 DEF DispEnds, DispGoes
<1>10. CASE DispWakes
  BY <1>10 DEF DispWakes, DispGoes
<1>11. ASSUME NEW r \in Reports, RmReport(r) PROVE Mutex'
  BY <1>11 DEF RmReport, FrameGoes, Runs
<1>12. CASE RmReportReturns
  BY <1>12 DEF RmReportReturns, FrameGoes, Runs
<1>13. ASSUME NEW f \in Frames, TryStop(f) PROVE Mutex'
  BY <1>13 DEF TryStop, Runs, Fail
<1>14. ASSUME NEW f \in Frames, ReadSize(f) PROVE Mutex'
  BY <1>14 DEF ReadSize, FrameGoes, Runs
<1>15. ASSUME NEW f \in Frames, LoopStopped(f) PROVE Mutex'
  BY <1>15 DEF LoopStopped, FrameGoes, Runs
<1>16. ASSUME NEW f \in Frames, FreeSync(f) PROVE Mutex'
  BY <1>16 DEF FreeSync, FrameGoes, Runs
<1>17. ASSUME NEW f \in Frames, SetToken(f) PROVE Mutex'
  BY <1>17 DEF SetToken, FrameGoes, Runs
<1>18. ASSUME NEW f \in Frames, SignalStop(f) PROVE Mutex'
  BY <1>18 DEF SignalStop, FrameGoes, Runs
<1>19. ASSUME NEW f \in Frames, FreeQueue(f) PROVE Mutex'
  BY <1>19 DEF FreeQueue, Runs, Fail
<1>20. ASSUME NEW f \in Frames, Join(f) PROVE Mutex'
  BY <1>20 DEF Join, FrameGoes, Runs
<1>21. CASE Interrupt
  BY <1>21 DEF Interrupt
<1>22. CASE \/ AnswerDelete \/ HandleDelete \/ FindProc \/ CopyNode \/ LoopEnds
            \/ \E r \in Reports : Indicate(r)
  <2>1. UNCHANGED <<holder, dpc, pc, queue, qstop, qstopped>>
    BY <1>22 DEF Indicate, AnswerDelete, HandleDelete, FindProc, CopyNode, Fail, LoopEnds
  <2> QED
    BY <2>1
<1> QED
  BY <1>1, <1>2, <1>3, <1>4, <1>5, <1>6, <1>7, <1>8, <1>9, <1>10, <1>11, <1>12, <1>13,
     <1>14, <1>15, <1>16, <1>17, <1>18, <1>19, <1>20, <1>21, <1>22
  DEF Next, Ric, Loop, Disp, Main, Stop, Frames

\* Every step keeps TwoFrames.
LEMMA TwoFramesStep ==
  ASSUME States, Mutex, TwoFrames, Alive, [Next]_vars
  PROVE  TwoFrames'
<1> USE DEF States, Mutex, TwoFrames, Frames, Freeing, Stopping, Alive, Free, ric, loop, mutex,
            disp, hist
<1>1. CASE UNCHANGED vars
  BY <1>1 DEF vars
<1>2. ASSUME NEW r \in Reports, RmReport(r) PROVE TwoFrames'
  BY <1>2 DEF RmReport, FrameGoes, Runs
<1>3. CASE RmReportReturns
  BY <1>3 DEF RmReportReturns, FrameGoes, Runs
<1>4. ASSUME NEW f \in Frames, TryStop(f) PROVE TwoFrames'
  BY <1>4 DEF TryStop, Runs, Fail
<1>5. ASSUME NEW f \in Frames, ReadSize(f) PROVE TwoFrames'
  BY <1>5 DEF ReadSize, FrameGoes, Runs
<1>6. ASSUME NEW f \in Frames, LoopStopped(f) PROVE TwoFrames'
  BY <1>6 DEF LoopStopped, FrameGoes, Runs
<1>7. ASSUME NEW f \in Frames, FreeSync(f) PROVE TwoFrames'
  BY <1>7 DEF FreeSync, FrameGoes, Runs
<1>8. ASSUME NEW f \in Frames, SetToken(f) PROVE TwoFrames'
  BY <1>8 DEF SetToken, FrameGoes, Runs
<1>9. ASSUME NEW f \in Frames, SignalStop(f) PROVE TwoFrames'
  BY <1>9 DEF SignalStop, FrameGoes, Runs
<1>10. ASSUME NEW f \in Frames, FreeQueue(f) PROVE TwoFrames'
  BY <1>10 DEF FreeQueue, Runs, Fail
<1>11. ASSUME NEW f \in Frames, Join(f) PROVE TwoFrames'
  BY <1>11 DEF Join, FrameGoes, Runs
<1>12. CASE Interrupt
  BY <1>12 DEF Interrupt
<1>13. CASE \/ AnswerDelete \/ HandleDelete \/ FindProc \/ CopyNode \/ Push \/ LoopEnds \/
               DispLock \/ DispCheck \/ DispBlock \/ DispTake \/ DispCall \/
               DispStops \/ DispEnds \/ DispWakes
            \/ \E r \in Reports : Indicate(r)
  <2>1. UNCHANGED <<pc, calm>>
    BY <1>13 DEF Indicate, AnswerDelete, HandleDelete, FindProc, CopyNode, Fail, Push,
      LoopEnds, DispLock, DispGoes, DispCheck, DispBlock, DispTake, DispCall, DispStops,
      DispEnds, DispWakes
  <2> QED
    BY <2>1
<1> QED
  BY <1>1, <1>2, <1>3, <1>4, <1>5, <1>6, <1>7, <1>8, <1>9, <1>10, <1>11, <1>12, <1>13
  DEF Next, Ric, Loop, Disp, Main, Stop, Frames

\* Every step keeps Removal.
LEMMA RemovalStep ==
  ASSUME States, Travel, Removal, Alive, [Next]_vars
  PROVE  Removal'
<1> USE DEF States, Removal, Busy, ric, loop, mutex, disp, hist
<1>1. CASE UNCHANGED vars
  BY <1>1 DEF vars
<1>2. CASE HandleDelete
  BY <1>2 DEF HandleDelete
<1>3. CASE FindProc
  BY <1>3 DEF FindProc
<1>4. CASE CopyNode
  BY <1>4 DEF CopyNode, Fail
<1>5. CASE Push
  BY <1>5 DEF Push, Fail
<1>6. CASE LoopEnds
  BY <1>6 DEF LoopEnds
<1>7. CASE RmReportReturns
  BY <1>7 DEF RmReportReturns, FrameGoes, Runs
<1>8. CASE \/ AnswerDelete \/ DispLock \/ DispCheck \/ DispBlock \/ DispTake \/
              DispCall \/ DispStops \/ DispEnds \/ DispWakes \/ Interrupt
           \/ \E r \in Reports : Indicate(r) \/ RmReport(r)
           \/ \E f \in Frames : TryStop(f) \/ ReadSize(f) \/ LoopStopped(f) \/
                 FreeSync(f) \/ SetToken(f) \/ SignalStop(f) \/ FreeQueue(f) \/
                 Join(f)
  <2>1. UNCHANGED <<procs, deleted, lpc, lmsg, late>>
    BY <1>8 DEF Indicate, AnswerDelete, DispLock, DispGoes, DispCheck, DispBlock, DispTake,
      DispCall, DispStops, DispEnds, DispWakes, RmReport, FrameGoes, TryStop, Fail,
      ReadSize, LoopStopped, FreeSync, SetToken, SignalStop, FreeQueue, Join, Interrupt
  <2> QED
    BY <2>1
<1> QED
  BY <1>1, <1>2, <1>3, <1>4, <1>5, <1>6, <1>7, <1>8
  DEF Next, Ric, Loop, Disp, Main, Stop, Frames

\* Every step keeps Ended.
LEMMA EndedStep ==
  ASSUME States, Mutex, TwoFrames, Ended, Alive, [Next]_vars
  PROVE  Ended'
<1> USE DEF States, Mutex, TwoFrames, Ended, Frames, Freeing, Alive, Stopping, Free, ric, loop,
            mutex, disp, hist
<1>1. CASE UNCHANGED vars
  BY <1>1 DEF vars
<1>2. CASE FindProc
  BY <1>2 DEF FindProc
<1>3. CASE CopyNode
  BY <1>3 DEF CopyNode, Fail
<1>4. CASE Push
  BY <1>4 DEF Push, Fail
<1>5. CASE LoopEnds
  BY <1>5 DEF LoopEnds
<1>6. CASE DispTake
  BY <1>6 DEF DispTake
<1>7. CASE DispStops
  BY <1>7 DEF DispStops, DispGoes
<1>8. ASSUME NEW r \in Reports, RmReport(r) PROVE Ended'
  BY <1>8 DEF RmReport, FrameGoes, Runs
<1>9. CASE RmReportReturns
  BY <1>9 DEF RmReportReturns, FrameGoes, Runs
<1>10. ASSUME NEW f \in Frames, TryStop(f) PROVE Ended'
  BY <1>10 DEF TryStop, Runs, Fail
<1>11. ASSUME NEW f \in Frames, ReadSize(f) PROVE Ended'
  BY <1>11 DEF ReadSize, FrameGoes, Runs
<1>12. ASSUME NEW f \in Frames, LoopStopped(f) PROVE Ended'
  BY <1>12 DEF LoopStopped, FrameGoes, Runs
<1>13. ASSUME NEW f \in Frames, FreeSync(f) PROVE Ended'
  BY <1>13 DEF FreeSync, FrameGoes, Runs
<1>14. ASSUME NEW f \in Frames, SetToken(f) PROVE Ended'
  BY <1>14 DEF SetToken, FrameGoes, Runs
<1>15. ASSUME NEW f \in Frames, SignalStop(f) PROVE Ended'
  BY <1>15 DEF SignalStop, FrameGoes, Runs
<1>16. ASSUME NEW f \in Frames, FreeQueue(f) PROVE Ended'
  <2>1. CASE ~Free
    BY <1>16, <2>1 DEF FreeQueue, Fail
  <2>2. CASE Free
    <3>1. /\ pc' = [pc EXCEPT ![f] = "join"] /\ qfreed' = TRUE /\ queue' = <<>>
          /\ pc[f] = "queue" /\ qstopped
          /\ UNCHANGED <<lpc, lstop, qstopped>>
      BY <1>16, <2>2 DEF FreeQueue
    <3> QED
      BY <3>1
  <2> QED
    BY <2>1, <2>2
<1>17. ASSUME NEW f \in Frames, Join(f) PROVE Ended'
  BY <1>17 DEF Join, FrameGoes, Runs
<1>18. CASE Interrupt
  BY <1>18 DEF Interrupt
<1>19. CASE \/ AnswerDelete \/ HandleDelete \/ DispLock \/ DispCheck \/ DispBlock \/
               DispCall \/ DispEnds \/ DispWakes
            \/ \E r \in Reports : Indicate(r)
  <2>1. UNCHANGED <<pc, lpc, qfreed, qstopped, queue, lstop>>
    BY <1>19 DEF Indicate, AnswerDelete, HandleDelete, DispLock, DispGoes, DispCheck,
      DispBlock, DispCall, DispEnds, DispWakes
  <2> QED
    BY <2>1
<1> QED
  BY <1>1, <1>2, <1>3, <1>4, <1>5, <1>6, <1>7, <1>8, <1>9, <1>10, <1>11, <1>12, <1>13,
     <1>14, <1>15, <1>16, <1>17, <1>18, <1>19
  DEF Next, Ric, Loop, Disp, Main, Stop, Frames

\* Every step keeps Orderly.
LEMMA OrderlyStep ==
  ASSUME States, Travel, Mutex, TwoFrames, Removal, Ended, Orderly, Alive, [Next]_vars
  PROVE  Orderly'
<1> USE DEF States, Orderly, Ended, Removal, TwoFrames, Busy, Frames, Freeing, Alive, Stopping,
            Free, ric, loop, mutex, disp, hist
<1>1. CASE UNCHANGED vars
  BY <1>1 DEF vars
<1>2. ASSUME NEW r \in Reports, Indicate(r) PROVE Orderly'
  BY <1>2 DEF Indicate
<1>3. CASE AnswerDelete
  BY <1>3 DEF AnswerDelete
<1>4. CASE HandleDelete
  BY <1>4 DEF HandleDelete
<1>5. CASE FindProc
  BY <1>5 DEF FindProc
<1>6. CASE CopyNode
  BY <1>6 DEF CopyNode, Fail
<1>7. CASE Push
  BY <1>7 DEF Push, Fail, Travel, Inds
<1>8. CASE LoopEnds
  BY <1>8 DEF LoopEnds
<1>9. CASE DispLock
  BY <1>9 DEF DispLock, DispGoes
<1>10. CASE DispCheck
  BY <1>10 DEF DispCheck, DispGoes
<1>11. CASE DispBlock
  BY <1>11 DEF DispBlock, DispGoes
<1>12. CASE DispTake
  BY <1>12 DEF DispTake, Mutex
<1>13. CASE DispCall
  BY <1>13 DEF DispCall, DispGoes
<1>14. CASE DispStops
  BY <1>14 DEF DispStops, DispGoes
<1>15. CASE DispEnds
  BY <1>15 DEF DispEnds, DispGoes
<1>16. CASE DispWakes
  BY <1>16 DEF DispWakes, DispGoes
<1>17. ASSUME NEW r \in Reports, RmReport(r) PROVE Orderly'
  BY <1>17 DEF RmReport, FrameGoes, Runs
<1>18. CASE RmReportReturns
  BY <1>18 DEF RmReportReturns, FrameGoes, Runs
<1>19. ASSUME NEW f \in Frames, TryStop(f) PROVE Orderly'
  BY <1>19 DEF TryStop, Runs, Fail
<1>20. ASSUME NEW f \in Frames, ReadSize(f) PROVE Orderly'
  BY <1>20 DEF ReadSize, FrameGoes, Runs
<1>21. ASSUME NEW f \in Frames, LoopStopped(f) PROVE Orderly'
  BY <1>21 DEF LoopStopped, FrameGoes, Runs
<1>22. ASSUME NEW f \in Frames, FreeSync(f) PROVE Orderly'
  BY <1>22 DEF FreeSync, FrameGoes, Runs
<1>23. ASSUME NEW f \in Frames, SetToken(f) PROVE Orderly'
  BY <1>23 DEF SetToken, FrameGoes, Runs
<1>24. ASSUME NEW f \in Frames, SignalStop(f) PROVE Orderly'
  BY <1>24 DEF SignalStop, FrameGoes, Runs
<1>25. ASSUME NEW f \in Frames, FreeQueue(f) PROVE Orderly'
  BY <1>25 DEF FreeQueue, Runs, Fail
<1>26. ASSUME NEW f \in Frames, Join(f) PROVE Orderly'
  BY <1>26 DEF Join, FrameGoes, Runs
<1>27. CASE Interrupt
  BY <1>27 DEF Interrupt
<1> QED
  BY <1>1, <1>2, <1>3, <1>4, <1>5, <1>6, <1>7, <1>8, <1>9, <1>10, <1>11, <1>12, <1>13,
     <1>14, <1>15, <1>16, <1>17, <1>18, <1>19, <1>20, <1>21, <1>22, <1>23, <1>24, <1>25,
     <1>26, <1>27
  DEF Next, Ric, Loop, Disp, Main, Stop, Frames

\* Every step keeps Travel.
LEMMA TravelStep ==
  ASSUME States, Travel, Mutex, Alive, [Next]_vars
  PROVE  Travel'
<1> USE DEF Travel, States, Busy, ric, loop, mutex, disp, hist
<1>1. CASE UNCHANGED vars
  BY <1>1 DEF vars
<1>2. ASSUME NEW r \in Reports, Indicate(r) PROVE Travel'
  BY <1>2, MaxIndAssumption DEF Indicate, Inds
<1>3. CASE AnswerDelete
  BY <1>3, MaxIndAssumption DEF AnswerDelete, Dels
<1>4. CASE HandleDelete
  BY <1>4, NetHead DEF HandleDelete
<1>5. CASE FindProc
  BY <1>5, NetHead DEF FindProc
<1>6. CASE CopyNode
  BY <1>6 DEF CopyNode, Fail
<1>7. CASE Push
  <2>1. CASE qfreed
    BY <1>7, <2>1 DEF Push, Fail
  <2>2. CASE ~qfreed
    <3>1. /\ queue' = Append(queue, lmsg[3]) /\ pushed' = Append(pushed, lmsg[3])
          /\ dpc' = (IF dpc = "asleep" THEN "pop" ELSE dpc)
          /\ lpc' = "epoll" /\ lmsg' = <<>> /\ lpc = "push"
          /\ UNCHANGED <<net, hand, called>>
      BY <1>7, <2>2 DEF Push
    <3>2. lmsg[3] \in 1..MaxInd
      BY <3>1 DEF Inds
    <3>3. queue' \in Seq(1..MaxInd) /\ pushed' \in Seq(1..MaxInd)
      BY <3>1, <3>2
    <3> QED
      BY <3>1, <3>3
  <2> QED
    BY <2>1, <2>2
<1>8. CASE LoopEnds
  BY <1>8 DEF LoopEnds
<1>9. CASE DispLock
  BY <1>9 DEF DispLock, DispGoes
<1>10. CASE DispCheck
  BY <1>10 DEF DispCheck, DispGoes
<1>11. CASE DispBlock
  BY <1>11 DEF DispBlock, DispGoes
<1>12. CASE DispTake
  <2>1. CASE qstop
    BY <1>12, <2>1 DEF DispTake
  <2>2. CASE ~qstop
    <3>1. /\ dpc' = "call" /\ hand' = Head(queue) /\ queue' = Tail(queue) /\ dpc = "take"
          /\ UNCHANGED <<net, lpc, lmsg, pushed, called>>
      BY <1>12, <2>2 DEF DispTake
    <3>2. queue # <<>>
      BY <2>2, <3>1 DEF Mutex
    <3>3. Head(queue) \in 1..MaxInd /\ Tail(queue) \in Seq(1..MaxInd)
          /\ Len(Tail(queue)) = Len(queue) - 1
      BY <3>2, TakeHead
    <3> QED
      BY <3>1, <3>3, MaxIndAssumption
  <2> QED
    BY <2>1, <2>2
<1>13. CASE DispCall
  <2>1. /\ called' = Append(called, hand) /\ hand' = 0 /\ dpc = "call" /\ dpc' = "pop"
        /\ UNCHANGED <<net, lpc, lmsg, queue, pushed>>
    BY <1>13 DEF DispCall, DispGoes
  <2>2. hand \in 1..MaxInd
    BY <2>1
  <2>3. Append(called, hand) \in Seq(1..MaxInd)
    BY <2>2
  <2> QED
    BY <2>1, <2>3, MaxIndAssumption
<1>14. CASE DispStops
  BY <1>14 DEF DispStops, DispGoes
<1>15. CASE DispEnds
  BY <1>15 DEF DispEnds, DispGoes
<1>16. CASE DispWakes
  BY <1>16 DEF DispWakes, DispGoes
<1>17. ASSUME NEW f \in Frames, SignalStop(f) PROVE Travel'
  BY <1>17 DEF SignalStop, FrameGoes, Runs
<1>18. ASSUME NEW f \in Frames, FreeQueue(f) PROVE Travel'
  <2>1. CASE ~Free
    BY <1>18, <2>1 DEF FreeQueue, Fail
  <2>2. CASE Free
    <3>1. /\ queue' = <<>>
          /\ UNCHANGED <<net, lmsg, lpc, hand, dpc, pushed, called>>
      BY <1>18, <2>2 DEF FreeQueue
    <3>2. <<>> \in Seq(1..MaxInd) /\ Len(<<>>) = 0
      OBVIOUS
    <3> QED
      BY <3>1, <3>2
  <2> QED
    BY <2>1, <2>2
<1>19. CASE \/ RmReportReturns \/ Interrupt
            \/ \E r \in Reports : RmReport(r)
            \/ \E f \in Frames : TryStop(f) \/ ReadSize(f) \/ LoopStopped(f) \/
                  FreeSync(f) \/ SetToken(f) \/ Join(f)
  <2>1. UNCHANGED <<net, lpc, lmsg, queue, hand, dpc, pushed, called>>
    BY <1>19 DEF RmReport, FrameGoes, RmReportReturns, TryStop, Fail, ReadSize, LoopStopped,
      FreeSync, SetToken, Join, Interrupt
  <2> QED
    BY <2>1
<1> QED
  BY <1>1, <1>2, <1>3, <1>4, <1>5, <1>6, <1>7, <1>8, <1>9, <1>10, <1>11, <1>12, <1>13,
     <1>14, <1>15, <1>16, <1>17, <1>18, <1>19
  DEF Next, Ric, Loop, Disp, Main, Stop, Frames

\* Every step keeps Numbers.
LEMMA NumbersStep ==
  ASSUME States, Travel, Numbers, Alive, [Next]_vars
  PROVE  Numbers'
<1> USE DEF Numbers, LastRead, LastPushed, Busy, States, ric, loop, mutex, disp, hist
<1>1. CASE UNCHANGED vars
  BY <1>1 DEF vars
<1>2. ASSUME NEW r \in Reports, Indicate(r) PROVE Numbers'
  <2>1. /\ sent \in Nat /\ sent' = sent + 1 /\ net' = Append(net, <<"ind", r, sent + 1>>)
        /\ UNCHANGED <<lpc, lmsg, pushed>>
    BY <1>2 DEF Indicate
  <2>2. /\ net \in Seq(Inds \cup Dels)
        /\ LastPushed' = LastPushed /\ LastRead' = LastRead /\ Busy' = Busy
    BY <2>1 DEF Travel
  <2>7. pushed \in Seq(1..MaxInd)
    BY DEF Travel
  <2>5. LastPushed \in Nat
    <3>1. pushed # <<>> => pushed[Len(pushed)] \in 1..MaxInd
      BY <2>7, LastElement, Zenon
    <3> QED
      BY <3>1
  <2>6. LastRead \in Nat
    BY <2>5 DEF Travel, Inds
  <2>3. \A i \in DOMAIN net' : \/ i \in DOMAIN net /\ net'[i] = net[i]
                               \/ i = Len(net) + 1 /\ net'[i] = <<"ind", r, sent + 1>>
    BY <2>1, <2>2
  <2>4. \A i \in DOMAIN net : i \in 1..Len(net) /\ (net[i][1] = "ind" => net[i][3] \in Nat)
    BY <2>2 DEF Inds, Dels
  <2>8. /\ Len(pushed) <= LastPushed /\ LastRead <= sent
        /\ Busy => LastPushed < lmsg[3]
        /\ \A i \in DOMAIN net : net[i][1] = "ind" => LastRead < net[i][3] /\ net[i][3] <= sent
        /\ \A i, j \in DOMAIN net :
             i < j /\ net[i][1] = "ind" /\ net[j][1] = "ind" => net[i][3] < net[j][3]
    OBVIOUS
  <2>9. DOMAIN net = 1..Len(net) /\ Len(net) \in Nat /\ <<"ind", r, sent + 1>>[3] = sent + 1
    BY <2>2
  <2> HIDE DEF LastRead, LastPushed, Busy, Numbers
  <2>10. \A i \in DOMAIN net' : net'[i][1] = "ind" => LastRead < net'[i][3] /\
           net'[i][3] <= sent + 1
    BY <2>1, <2>3, <2>4, <2>6, <2>8, <2>9
  <2>11. \A i, j \in DOMAIN net' :
          i < j /\ net'[i][1] = "ind" /\ net'[j][1] = "ind" => net'[i][3] < net'[j][3]
    BY <2>1, <2>3, <2>4, <2>8, <2>9
  <2>12. Len(pushed) <= LastPushed /\ LastRead <= sent + 1 /\ (Busy => LastPushed < lmsg[3])
    BY <2>1, <2>6, <2>8
  <2> QED
    BY <2>1, <2>2, <2>10, <2>11, <2>12 DEF Numbers
<1>3. CASE AnswerDelete
  <2>1. /\ net' = Append(net, <<"del", cur, 0>>) /\ UNCHANGED <<sent, lpc, lmsg, pushed>>
    BY <1>3 DEF AnswerDelete
  <2>2. /\ net \in Seq(Inds \cup Dels)
        /\ LastPushed' = LastPushed /\ LastRead' = LastRead /\ Busy' = Busy
    BY <2>1 DEF Travel
  <2>3. \A i \in DOMAIN net' : \/ i \in DOMAIN net /\ net'[i] = net[i]
                               \/ net'[i] = <<"del", cur, 0>>
    BY <2>1, <2>2
  <2>4. <<"del", cur, 0>>[1] # "ind"
    OBVIOUS
  <2> HIDE DEF LastRead, LastPushed, Busy
  <2> QED
    BY <2>1, <2>2, <2>3, <2>4
<1>4. CASE HandleDelete
  BY <1>4, NetHead DEF HandleDelete
<1>5. CASE FindProc
  BY <1>5, NetHead DEF FindProc, Inds
<1>6. CASE CopyNode
  BY <1>6 DEF CopyNode, Fail
<1>7. CASE Push
  <2>1. CASE qfreed
    BY <1>7, <2>1 DEF Push, Fail
  <2>2. CASE ~qfreed
    <3> DEFINE m == lmsg[3]
    <3>1. /\ pushed' = Append(pushed, m)
          /\ lpc' = "epoll" /\ lpc = "push" /\ UNCHANGED <<net, sent>>
      BY <1>7, <2>2 DEF Push
    <3>2. m \in 1..MaxInd /\ pushed \in Seq(1..MaxInd)
      BY <3>1 DEF Inds, Travel
    <3>5. /\ Len(pushed') = Len(pushed) + 1 /\ Len(pushed) \in Nat
          /\ pushed'[Len(pushed')] = m /\ pushed' # <<>>
      BY <3>1, <3>2
    <3>6. LastPushed' = m
      BY <3>5
    <3>7. LastPushed \in Nat
      <4>1. pushed # <<>> => pushed[Len(pushed)] \in 1..MaxInd
        BY <3>2, LastElement, Zenon
      <4> QED
        BY <4>1
    <3>3. LastRead' = m /\ LastRead = m /\ LastPushed < m /\ m \in Nat
      BY <3>1, <3>2, <3>6
    <3>4. ~Busy' /\ Len(pushed') <= LastPushed'
      BY <3>1, <3>3, <3>5, <3>6, <3>7
    <3> HIDE DEF LastRead, LastPushed, Busy, m
    <3> QED
      BY <3>1, <3>3, <3>4, <3>6
  <2> QED
    BY <2>1, <2>2
<1>8. CASE LoopEnds
  BY <1>8 DEF LoopEnds
<1>9. CASE \/ DispLock \/ DispCheck \/ DispBlock \/ DispTake \/ DispCall \/ DispStops \/
              DispEnds \/ DispWakes \/ RmReportReturns \/ Interrupt
           \/ \E r \in Reports : RmReport(r)
           \/ \E f \in Frames : TryStop(f) \/ ReadSize(f) \/ LoopStopped(f) \/
                 FreeSync(f) \/ SetToken(f) \/ SignalStop(f) \/ FreeQueue(f) \/
                 Join(f)
  <2>1. UNCHANGED <<net, sent, lpc, lmsg, pushed>>
    BY <1>9 DEF DispLock, DispGoes, DispCheck, DispBlock, DispTake, DispCall, DispStops,
      DispEnds, DispWakes, RmReport, FrameGoes, RmReportReturns, TryStop, Fail, ReadSize,
      LoopStopped, FreeSync, SetToken, SignalStop, FreeQueue, Join, Interrupt
  <2> QED
    BY <2>1
<1> QED
  BY <1>1, <1>2, <1>3, <1>4, <1>5, <1>6, <1>7, <1>8, <1>9
  DEF Next, Ric, Loop, Disp, Main, Stop, Frames

\* Every step keeps Counted.
LEMMA CountedStep ==
  ASSUME States, Travel, Mutex, Counted, Alive, [Next]_vars
  PROVE  Counted'
<1> USE DEF Counted, Travel, States, ric, loop, mutex, disp, hist
<1>1. CASE UNCHANGED vars
  BY <1>1 DEF vars
<1>2. CASE Push
  BY <1>2 DEF Push, Fail, Inds, Busy
<1>3. CASE DispTake
  BY <1>3 DEF DispTake, Mutex
<1>4. CASE DispCall
  BY <1>4 DEF DispCall, DispGoes
<1>5. ASSUME NEW f \in Frames, FreeQueue(f) PROVE Counted'
  <2>1. CASE ~Free
    BY <1>5, <2>1 DEF FreeQueue, Fail
  <2>2. CASE Free
    <3>1. /\ queue' = <<>>
          /\ UNCHANGED <<net, lmsg, lpc, hand, dpc, pushed, called>>
      BY <1>5, <2>2 DEF FreeQueue
    <3>2. <<>> \in Seq(1..MaxInd) /\ Len(<<>>) = 0
      OBVIOUS
    <3> QED
      BY <3>1, <3>2
  <2> QED
    BY <2>1, <2>2
<1>6. CASE \/ AnswerDelete \/ HandleDelete \/ FindProc \/ CopyNode \/ LoopEnds \/
              DispLock \/ DispCheck \/ DispBlock \/ DispStops \/ DispEnds \/
              DispWakes \/ RmReportReturns \/ Interrupt
           \/ \E r \in Reports : Indicate(r) \/ RmReport(r)
           \/ \E f \in Frames : TryStop(f) \/ ReadSize(f) \/ LoopStopped(f) \/
                 FreeSync(f) \/ SetToken(f) \/ SignalStop(f) \/ Join(f)
  <2>1. UNCHANGED <<queue, called, hand, pushed>>
    BY <1>6 DEF Indicate, AnswerDelete, HandleDelete, FindProc, CopyNode, Fail, LoopEnds,
      DispLock, DispGoes, DispCheck, DispBlock, DispStops, DispEnds, DispWakes, RmReport,
      FrameGoes, RmReportReturns, TryStop, ReadSize, LoopStopped, FreeSync, SetToken,
      SignalStop, Join, Interrupt
  <2> QED
    BY <2>1
<1> QED
  BY <1>1, <1>2, <1>3, <1>4, <1>5, <1>6
  DEF Next, Ric, Loop, Disp, Main, Stop, Frames

\* Every step keeps CallbacksExact.
LEMMA ExactStep ==
  ASSUME States, Travel, Mutex, TwoFrames, Ended, Orderly, CallbacksExact, Alive, [Next]_vars
  PROVE  CallbacksExact'
<1> USE DEF CallbacksExact, Travel, States, ric, loop, mutex, disp, hist
<1>1. CASE UNCHANGED vars
  BY <1>1 DEF vars
<1>2. CASE FindProc
  BY <1>2 DEF FindProc
<1>3. CASE Push
  <2>1. CASE qfreed
    BY <1>3, <2>1 DEF Push, Fail
  <2>2. CASE ~qfreed
    <3>1. /\ queue' = Append(queue, lmsg[3]) /\ pushed' = Append(pushed, lmsg[3]) /\
               lpc = "push"
          /\ UNCHANGED <<hand, called, qfreed, orderly, late>>
      BY <1>3, <2>2 DEF Push
    <3>2. lmsg[3] \in 1..MaxInd
      BY <3>1 DEF Inds, Busy
    <3>3. called \in Seq(1..MaxInd) /\ queue \in Seq(1..MaxInd) /\ hand \in 0..MaxInd
      OBVIOUS
    <3>4. hand = 0 \/ hand \in 1..MaxInd
      BY <3>3, MaxIndAssumption
    <3>5. (called \o (IF hand = 0 THEN <<>> ELSE <<hand>>)) \o Append(queue, lmsg[3])
            = Append((called \o (IF hand = 0 THEN <<>> ELSE <<hand>>)) \o queue, lmsg[3])
      BY <3>2, <3>3, <3>4, WayGrows DEF Way
    <3> QED
      BY <2>2, <3>1, <3>5
  <2> QED
    BY <2>1, <2>2
<1>4. CASE DispTake
  <2>1. CASE qstop
    BY <1>4, <2>1 DEF DispTake
  <2>2. CASE ~qstop
    <3>1. /\ hand' = Head(queue) /\ queue' = Tail(queue) /\ hand = 0 /\ dpc = "take"
          /\ UNCHANGED <<pushed, called, qfreed, orderly, late>>
      BY <1>4, <2>2 DEF DispTake
    <3>2. queue # <<>>
      BY <2>2, <3>1 DEF Mutex
    <3>3. /\ Head(queue) # 0
          /\ (called \o <<>>) \o queue = (called \o <<Head(queue)>>) \o Tail(queue)
      <4>1. called \in Seq(1..MaxInd) /\ queue \in Seq(1..MaxInd)
        OBVIOUS
      <4>2. /\ Head(queue) \in 1..MaxInd
            /\ (called \o <<>>) \o queue = (called \o <<Head(queue)>>) \o Tail(queue)
        BY <3>2, <4>1, TakeHead, Zenon
      <4>3. Head(queue) # 0
        BY <4>2, MaxIndAssumption
      <4> QED
        BY <4>2, <4>3, Zenon
    <3> QED
      BY <3>1, <3>3
  <2> QED
    BY <2>1, <2>2
<1>5. CASE DispCall
  BY <1>5 DEF DispCall, DispGoes
<1>6. ASSUME NEW f \in Frames, ReadSize(f) PROVE CallbacksExact'
  BY <1>6 DEF ReadSize, FrameGoes, Runs, Ended, TwoFrames, Freeing, Alive, Frames
<1>7. ASSUME NEW f \in Frames, FreeQueue(f) PROVE CallbacksExact'
  BY <1>7 DEF FreeQueue, Runs, Fail, Free, Orderly, Freeing
<1>8. CASE \/ AnswerDelete \/ HandleDelete \/ CopyNode \/ LoopEnds \/ DispLock \/
              DispCheck \/ DispBlock \/ DispStops \/ DispEnds \/ DispWakes \/
              RmReportReturns \/ Interrupt
           \/ \E r \in Reports : Indicate(r) \/ RmReport(r)
           \/ \E f \in Frames : TryStop(f) \/ LoopStopped(f) \/ FreeSync(f) \/
                 SetToken(f) \/ SignalStop(f) \/ Join(f)
  <2>1. UNCHANGED <<qfreed, orderly, late, pushed, called, hand, queue>>
    BY <1>8 DEF Indicate, AnswerDelete, HandleDelete, CopyNode, Fail, LoopEnds, DispLock,
      DispGoes, DispCheck, DispBlock, DispStops, DispEnds, DispWakes, RmReport, FrameGoes,
      RmReportReturns, TryStop, LoopStopped, FreeSync, SetToken, SignalStop, Join, Interrupt
  <2> QED
    BY <2>1
<1> QED
  BY <1>1, <1>2, <1>3, <1>4, <1>5, <1>6, <1>7, <1>8
  DEF Next, Ric, Loop, Disp, Main, Stop, Frames

\* Every step keeps FailuresForeseen.
LEMMA FailuresStep ==
  ASSUME States, Travel, Mutex, TwoFrames, Removal, Ended, Alive, [Next]_vars
  PROVE  FailuresForeseen'
<1> USE DEF FailuresForeseen, States, Alive, ric, loop, mutex, disp, hist
<1>1. CASE UNCHANGED vars
  BY <1>1 DEF vars
<1>2. ASSUME NEW r \in Reports, Indicate(r) PROVE FailuresForeseen'
  BY <1>2 DEF Indicate
<1>3. CASE AnswerDelete
  BY <1>3 DEF AnswerDelete
<1>4. CASE HandleDelete
  BY <1>4 DEF HandleDelete
<1>5. CASE FindProc
  BY <1>5 DEF FindProc
<1>6. CASE CopyNode
  BY <1>6 DEF CopyNode, Fail, Travel, Inds, Removal, Busy
<1>7. CASE Push
  BY <1>7 DEF Push, Fail, Ended
<1>8. CASE LoopEnds
  BY <1>8 DEF LoopEnds
<1>9. CASE DispLock
  BY <1>9 DEF DispLock, DispGoes
<1>10. CASE DispCheck
  BY <1>10 DEF DispCheck, DispGoes
<1>11. CASE DispBlock
  BY <1>11 DEF DispBlock, DispGoes
<1>12. CASE DispTake
  BY <1>12 DEF DispTake
<1>13. CASE DispCall
  BY <1>13 DEF DispCall, DispGoes
<1>14. CASE DispStops
  BY <1>14 DEF DispStops, DispGoes
<1>15. CASE DispEnds
  BY <1>15 DEF DispEnds, DispGoes
<1>16. CASE DispWakes
  BY <1>16 DEF DispWakes, DispGoes
<1>17. ASSUME NEW r \in Reports, RmReport(r) PROVE FailuresForeseen'
  BY <1>17 DEF RmReport, FrameGoes, Runs
<1>18. CASE RmReportReturns
  BY <1>18 DEF RmReportReturns, FrameGoes, Runs
<1>19. ASSUME NEW f \in Frames, TryStop(f) PROVE FailuresForeseen'
  BY <1>19 DEF TryStop, Runs, Fail, Stopping, TwoFrames, Frames
<1>20. ASSUME NEW f \in Frames, ReadSize(f) PROVE FailuresForeseen'
  BY <1>20 DEF ReadSize, FrameGoes, Runs
<1>21. ASSUME NEW f \in Frames, LoopStopped(f) PROVE FailuresForeseen'
  BY <1>21 DEF LoopStopped, FrameGoes, Runs
<1>22. ASSUME NEW f \in Frames, FreeSync(f) PROVE FailuresForeseen'
  BY <1>22 DEF FreeSync, FrameGoes, Runs
<1>23. ASSUME NEW f \in Frames, SetToken(f) PROVE FailuresForeseen'
  BY <1>23 DEF SetToken, FrameGoes, Runs
<1>24. ASSUME NEW f \in Frames, SignalStop(f) PROVE FailuresForeseen'
  BY <1>24 DEF SignalStop, FrameGoes, Runs
<1>25. ASSUME NEW f \in Frames, FreeQueue(f) PROVE FailuresForeseen'
  BY <1>25 DEF FreeQueue, Runs, Fail, Free, Mutex, TwoFrames, Freeing, Frames
<1>26. ASSUME NEW f \in Frames, Join(f) PROVE FailuresForeseen'
  BY <1>26 DEF Join, FrameGoes, Runs
<1>27. CASE Interrupt
  BY <1>27 DEF Interrupt
<1> QED
  BY <1>1, <1>2, <1>3, <1>4, <1>5, <1>6, <1>7, <1>8, <1>9, <1>10, <1>11, <1>12, <1>13,
     <1>14, <1>15, <1>16, <1>17, <1>18, <1>19, <1>20, <1>21, <1>22, <1>23, <1>24, <1>25,
     <1>26, <1>27
  DEF Next, Ric, Loop, Disp, Main, Stop, Frames

\* Every step keeps Failures.
LEMMA KnownFailuresStep ==
  ASSUME Failures, Alive, [Next]_vars
  PROVE  Failures'
<1> USE DEF Failures, ric, loop, mutex, disp, hist
<1>1. CASE UNCHANGED vars
  BY <1>1 DEF vars
<1>2. CASE CopyNode
  BY <1>2 DEF CopyNode, Fail
<1>3. CASE Push
  BY <1>3 DEF Push, Fail
<1>4. ASSUME NEW f \in Frames, TryStop(f) PROVE Failures'
  BY <1>4 DEF TryStop, Runs, Fail
<1>5. ASSUME NEW f \in Frames, FreeQueue(f) PROVE Failures'
  BY <1>5 DEF FreeQueue, Runs, Fail
<1>6. CASE \/ AnswerDelete \/ HandleDelete \/ FindProc \/ LoopEnds \/ DispLock \/
              DispCheck \/ DispBlock \/ DispTake \/ DispCall \/ DispStops \/
              DispEnds \/ DispWakes \/ RmReportReturns \/ Interrupt
           \/ \E r \in Reports : Indicate(r) \/ RmReport(r)
           \/ \E f \in Frames : ReadSize(f) \/ LoopStopped(f) \/ FreeSync(f) \/
                 SetToken(f) \/ SignalStop(f) \/ Join(f)
  <2>1. UNCHANGED <<abort>>
    BY <1>6 DEF Indicate, AnswerDelete, HandleDelete, FindProc, LoopEnds, DispLock,
      DispGoes, DispCheck, DispBlock, DispTake, DispCall, DispStops, DispEnds, DispWakes,
      RmReport, FrameGoes, RmReportReturns, ReadSize, LoopStopped, FreeSync, SetToken,
      SignalStop, Join, Interrupt
  <2> QED
    BY <2>1
<1> QED
  BY <1>1, <1>2, <1>3, <1>4, <1>5, <1>6
  DEF Next, Ric, Loop, Disp, Main, Stop, Frames

-----------------------------------------------------------------------------
(* The theorems *)

DispInv ==
  /\ States /\ Failures /\ Travel /\ Mutex /\ TwoFrames /\ Removal /\ Ended /\ Orderly
  /\ Numbers /\ Counted /\ CallbacksExact /\ FailuresForeseen

\* The invariant holds initially ...
LEMMA DispInvInit == Init => DispInv
<1> SUFFICES ASSUME Init PROVE DispInv
  OBVIOUS
<1> USE MaxIndAssumption DEF Init, Frames
<1>1. States
  <2>1. /\ active = Reports /\ sent = 0 /\ procs = Reports /\ deleted = {} /\ lpc = "epoll"
        /\ lstop = FALSE /\ qstop = FALSE /\ qstopped = FALSE /\ qfreed = FALSE
        /\ holder = "nobody" /\ dpc = "pop" /\ cur = 0
        /\ orderly = FALSE /\ late = FALSE /\ calm = TRUE
        /\ pc = [f \in Frames |-> IF f = "main" THEN "idle" ELSE "off"]
    BY Zenon
  <2> HIDE DEF Init
  <2>2. /\ active \subseteq Reports /\ procs \subseteq Reports /\ deleted \subseteq Reports
        /\ sent \in 0..MaxInd /\ cur \in Reports \cup {0}
    BY <2>1
  <2>3. pc \in [Frames -> {"off", "idle"}]
    BY <2>1
  <2> QED
    BY <2>1, <2>2, <2>3 DEF States
<1>6. Failures
  BY DEF Failures
<1>2. Travel
  BY DEF Travel, Busy
<1>3. Mutex /\ TwoFrames /\ Removal /\ Ended /\ Orderly
  BY DEF Mutex, TwoFrames, Removal, Ended, Orderly, Freeing, Busy
<1>4. Numbers /\ Counted
  BY DEF Numbers, Counted, LastRead, LastPushed, Busy
<1>5. CallbacksExact /\ FailuresForeseen
  BY DEF CallbacksExact, FailuresForeseen
<1> QED
  BY <1>1, <1>2, <1>3, <1>4, <1>5, <1>6 DEF DispInv

\* ... and every step keeps it.
LEMMA DispInvStep == DispInv /\ [Next]_vars => DispInv'
<1> SUFFICES ASSUME DispInv, [Next]_vars PROVE DispInv'
  OBVIOUS
<1>1. CASE UNCHANGED vars
  <2> USE <1>1 DEF vars, ric, loop, mutex, disp, hist
  <2>1. States'
    BY DEF DispInv, States
  <2>2. Failures' /\ Travel'
    BY DEF DispInv, Failures, Travel, Busy
  <2>3. Mutex' /\ TwoFrames'
    BY DEF DispInv, Mutex, TwoFrames, Freeing
  <2>4. Removal' /\ Ended' /\ Orderly'
    BY DEF DispInv, Removal, Ended, Orderly, Freeing, Busy
  <2>5. Numbers' /\ Counted'
    BY DEF DispInv, Numbers, Counted, LastRead, LastPushed, Busy
  <2>6. CallbacksExact' /\ FailuresForeseen'
    BY DEF DispInv, CallbacksExact, FailuresForeseen
  <2> QED
    BY <2>1, <2>2, <2>3, <2>4, <2>5, <2>6 DEF DispInv
<1>2. CASE Alive
  BY <1>2, StatesStep, KnownFailuresStep, TravelStep, MutexStep, TwoFramesStep, RemovalStep,
     EndedStep, OrderlyStep, NumbersStep, CountedStep, ExactStep, FailuresStep
  DEF DispInv
<1> QED
  BY <1>1, <1>2 DEF Next

LEMMA DispInvariant == Spec => []DispInv
  BY DispInvInit, DispInvStep, PTL DEF Spec

\* For every set of reports and any number of indications, the state has its types, and
\* no more is queued or called back than the RIC sent (push_tsnq, wait_and_pop_tsnq).
THEOREM TypeCorrect == Spec => []TypeOK
<1>1. DispInv => TypeOK
  <2> SUFFICES ASSUME DispInv PROVE TypeOK
    OBVIOUS
  <2> USE DEF DispInv
  <2>1. net \in Seq(Messages) /\ lmsg \in Messages \cup {<<>>}
    <3>1. Inds \cup Dels \subseteq Messages
      BY MaxIndAssumption DEF Inds, Dels, Messages
    <3>2. net \in Seq(Inds \cup Dels) /\ lmsg \in Inds \cup {<<>>}
      BY DEF Travel
    <3> QED
      BY <3>1, <3>2
  <2>2. Len(queue) + Len(called) <= sent
    <3>1. /\ pushed \in Seq(1..MaxInd) /\ queue \in Seq(1..MaxInd) /\ called \in Seq(1..MaxInd)
          /\ sent \in Nat
      BY MaxIndAssumption DEF Travel, States
    <3>2. pushed # <<>> => pushed[Len(pushed)] \in 1..MaxInd
      BY <3>1, LastElement, Zenon
    <3>3. LastPushed \in Nat
      BY <3>2 DEF LastPushed
    <3>4. Busy => lmsg[3] \in Nat
      BY DEF Travel, Inds
    <3>5. LastPushed <= LastRead /\ LastRead \in Nat
      BY <3>3, <3>4 DEF Numbers, LastRead
    <3>6. Len(pushed) <= sent
      BY <3>1, <3>3, <3>5 DEF Numbers
    <3> QED
      BY <3>1, <3>6 DEF Counted
  <2>3. States /\ Failures /\ Travel
    OBVIOUS
  <2> QED
    BY <2>1, <2>2, <2>3, Zenon DEF States, Failures, Travel, TypeOK
<1> QED
  BY <1>1, DispInvariant, PTL

\* For every set of reports and any number of indications, no thread uses the queue or
\* its mutex after free_e42_xapp destroyed them; the node id of a report is used after
\* its release only by an indication that came after the delete answer
\* (msg_handler_xapp.c:277), and the xApp freed twice only by a SIGINT amid a call.
THEOREM OnlyForeseenFailures == Spec => []FailuresForeseen
<1>1. DispInv => FailuresForeseen
  BY DEF DispInv
<1> QED
  BY <1>1, DispInvariant, PTL

\* For every set of reports and any number of indications, the callbacks run once for
\* each indication pushed and in order, and an orderly stop (e42_xapp_api.c:89) loses
\* none.
THEOREM CallbacksAreExact == Spec => []CallbacksExact
<1>1. DispInv => CallbacksExact
  BY DEF DispInv
<1> QED
  BY <1>1, DispInvariant, PTL

-----------------------------------------------------------------------------
(* Nobody is stuck *)

\* The dispatcher sleeps on an empty queue only, and not on the stop token unless the frame
\* that set it has yet to signal.
Wakeups ==
  /\ dpc \in {"block", "asleep"} => queue = <<>> /\ (qstop => \E f \in Frames : pc[f] = "signal")
  /\ dpc \in {"null", "last", "ended"} => qstop
  /\ dpc \in {"last", "ended"} => qstopped

\* The tokens are set by a frame that goes on to free the xApp.
Tokens ==
  /\ \A f \in Frames : pc[f] \in {"signal", "queue", "join"} => qstop
  /\ qstop => \E f \in Frames : pc[f] \in {"signal", "queue", "join", "ended"}
  /\ lstop => \E f \in Frames : Freeing(f) \/ pc[f] = "ended"
  /\ lpc = "ended" => lstop
  /\ pc["handler"] = "stuck" => pc["main"] = "wait"

\* The delete request of rm_report is with the RIC, or its answer is in the socket or has
\* been handled.
Answering == cur \in active \/ cur \in deleted \/ \E i \in DOMAIN net : net[i] = <<"del", cur, 0>>
Asked ==
  /\ pc["main"] = "wait" => Answering
  /\ \A r \in procs : r \in active \/ (pc["main"] = "wait" /\ r = cur)

\* No thread can take a step, nor has the RIC an answer to give: the event loop has nothing
\* to read, the dispatcher sleeps, and the main thread waits for what nobody does, or is with
\* the application.  Indications to come, a SIGINT and spurious wake-ups are left out.
FrameWaits(f) ==
  \/ pc[f] \in {"off", "idle", "stuck"}
  \/ pc[f] = "wait" /\ cur \notin active \cup deleted
  \/ pc[f] \in {"poll", "signal"} /\ ~Free
  \/ pc[f] = "loop" /\ lpc # "ended"
  \/ pc[f] = "queue" /\ ~qstopped
  \/ pc[f] = "join" /\ dpc # "ended"
NobodyMoves ==
  /\ lpc = "ended" \/ (lpc = "epoll" /\ ~lstop /\ net = <<>>) \/ (lpc = "push" /\ ~Free)
  /\ dpc \in {"asleep", "ended"} \/ (dpc = "pop" /\ ~Free)
  /\ \A f \in Frames : Runs(f) => FrameWaits(f)

\* The application is at work, everything that the RIC sent has been handled, every
\* indication pushed has been called back, and nothing has been stopped.
AtRest ==
  /\ pc["main"] = "idle" /\ pc["handler"] = "off"
  /\ lpc = "epoll" /\ net = <<>> /\ Free /\ dpc = "asleep"
  /\ pushed = called

\* Every step keeps Wakeups.
LEMMA WakeupsStep ==
  ASSUME States, Mutex, Wakeups, Alive, [Next]_vars
  PROVE  Wakeups'
<1> USE DEF States, Mutex, Wakeups, Frames, Free, ric, loop, mutex, disp, hist
<1>1. CASE UNCHANGED vars
  BY <1>1 DEF vars
<1>2. CASE Push
  BY <1>2 DEF Push, Fail
<1>3. CASE DispCheck
  BY <1>3 DEF DispCheck, DispGoes
<1>4. CASE DispTake
  BY <1>4 DEF DispTake
<1>5. CASE DispLock \/ DispBlock \/ DispCall \/ DispStops \/ DispEnds \/ DispWakes
  BY <1>5 DEF DispLock, DispBlock, DispCall, DispStops, DispEnds, DispWakes, DispGoes
<1>6. ASSUME NEW f \in Frames, SetToken(f) PROVE Wakeups'
  BY <1>6 DEF SetToken, FrameGoes
<1>7. ASSUME NEW f \in Frames, SignalStop(f) PROVE Wakeups'
  BY <1>7 DEF SignalStop, FrameGoes
<1>8. ASSUME NEW f \in Frames, FreeQueue(f) PROVE Wakeups'
  BY <1>8 DEF FreeQueue, Fail
<1>9. ASSUME NEW f \in Frames, TryStop(f) PROVE Wakeups'
  BY <1>9 DEF TryStop, Fail
<1>10. ASSUME NEW f \in Frames, ReadSize(f) \/ LoopStopped(f) \/ FreeSync(f) \/ Join(f) PROVE Wakeups'
  BY <1>10 DEF ReadSize, LoopStopped, FreeSync, Join, FrameGoes
<1>11. ASSUME NEW r \in Reports, RmReport(r) PROVE Wakeups'
  BY <1>11 DEF RmReport, FrameGoes
<1>12. CASE RmReportReturns
  BY <1>12 DEF RmReportReturns, FrameGoes
<1>13. CASE Interrupt
  BY <1>13 DEF Interrupt
<1>14. CASE \/ AnswerDelete \/ HandleDelete \/ FindProc \/ CopyNode \/ LoopEnds
            \/ \E r \in Reports : Indicate(r)
  BY <1>14 DEF Indicate, AnswerDelete, HandleDelete, FindProc, CopyNode, Fail, LoopEnds
<1> QED
  BY <1>1, <1>2, <1>3, <1>4, <1>5, <1>6, <1>7, <1>8, <1>9, <1>10, <1>11, <1>12, <1>13, <1>14
  DEF Next, Ric, Loop, Disp, Main, Stop, Frames

\* Every step keeps Tokens.
LEMMA TokensStep ==
  ASSUME States, Mutex, TwoFrames, Tokens, Alive, [Next]_vars
  PROVE  Tokens'
<1> USE DEF States, Mutex, TwoFrames, Tokens, Frames, Freeing, Stopping, Alive, Free, ric, loop,
            mutex, disp, hist
<1>1. CASE UNCHANGED vars
  BY <1>1 DEF vars
<1>2. ASSUME NEW r \in Reports, RmReport(r) PROVE Tokens'
  BY <1>2 DEF RmReport, FrameGoes, Runs
<1>3. CASE RmReportReturns
  BY <1>3 DEF RmReportReturns, FrameGoes, Runs
<1>4. ASSUME NEW f \in Frames, TryStop(f) PROVE Tokens'
  BY <1>4 DEF TryStop, Runs, Fail
<1>5. ASSUME NEW f \in Frames, ReadSize(f) PROVE Tokens'
  BY <1>5 DEF ReadSize, FrameGoes, Runs
<1>6. ASSUME NEW f \in Frames, LoopStopped(f) PROVE Tokens'
  BY <1>6 DEF LoopStopped, FrameGoes, Runs
<1>7. ASSUME NEW f \in Frames, FreeSync(f) PROVE Tokens'
  BY <1>7 DEF FreeSync, FrameGoes, Runs
<1>8. ASSUME NEW f \in Frames, SetToken(f) PROVE Tokens'
  BY <1>8 DEF SetToken, FrameGoes, Runs
<1>9. ASSUME NEW f \in Frames, SignalStop(f) PROVE Tokens'
  BY <1>9 DEF SignalStop, FrameGoes, Runs
<1>10. ASSUME NEW f \in Frames, FreeQueue(f) PROVE Tokens'
  BY <1>10 DEF FreeQueue, Runs, Fail
<1>11. ASSUME NEW f \in Frames, Join(f) PROVE Tokens'
  BY <1>11 DEF Join, FrameGoes, Runs
<1>12. CASE Interrupt
  BY <1>12 DEF Interrupt
<1>13. CASE \/ AnswerDelete \/ HandleDelete \/ FindProc \/ CopyNode \/ Push \/ LoopEnds \/
               DispLock \/ DispCheck \/ DispBlock \/ DispTake \/ DispCall \/
               DispStops \/ DispEnds \/ DispWakes
            \/ \E r \in Reports : Indicate(r)
  <2>1. UNCHANGED <<pc, qstop, lstop>> /\ (lpc' = "ended" => lpc = "ended" \/ lstop)
    BY <1>13 DEF Indicate, AnswerDelete, HandleDelete, FindProc, CopyNode, Fail, Push,
      LoopEnds, DispLock, DispGoes, DispCheck, DispBlock, DispTake, DispCall, DispStops,
      DispEnds, DispWakes
  <2> QED
    BY <2>1
<1> QED
  BY <1>1, <1>2, <1>3, <1>4, <1>5, <1>6, <1>7, <1>8, <1>9, <1>10, <1>11, <1>12, <1>13
  DEF Next, Ric, Loop, Disp, Main, Stop, Frames

\* What is in the socket stays there until it is read.
LEMMA NetKept ==
  ASSUME Travel, NEW m, \E i \in DOMAIN net : net[i] = m,
         net' = net \/ (\E e \in Inds \cup Dels : net' = Append(net, e))
           \/ (net # <<>> /\ Head(net) # m /\ net' = Tail(net))
  PROVE  \E i \in DOMAIN net' : net'[i] = m
<1>1. PICK i \in DOMAIN net : net[i] = m
  OBVIOUS
<1>2. net \in Seq(Inds \cup Dels) /\ i \in 1..Len(net)
  BY DEF Travel
<1>3. CASE net' = net
  BY <1>1, <1>3
<1>4. ASSUME NEW e \in Inds \cup Dels, net' = Append(net, e) PROVE \E j \in DOMAIN net' : net'[j] = m
  <2>1. i \in DOMAIN net' /\ net'[i] = net[i]
    BY <1>2, <1>4
  <2> QED
    BY <1>1, <2>1
<1>5. CASE net # <<>> /\ Head(net) # m /\ net' = Tail(net)
  <2>1. i # 1
    BY <1>1, <1>2, <1>5
  <2>2. i - 1 \in DOMAIN net' /\ net'[i - 1] = net[i]
    BY <1>2, <1>5, <2>1
  <2> QED
    BY <1>1, <2>2
<1> QED
  BY <1>3, <1>4, <1>5

\* Every step keeps Asked.
LEMMA AskedStep ==
  ASSUME States, Travel, TwoFrames, Asked, Alive, [Next]_vars
  PROVE  Asked'
<1> USE DEF States, TwoFrames, Frames, ric, loop, mutex, disp, hist
<1>0. cur \in Reports => <<"del", cur, 0>> \in Dels
  BY MaxIndAssumption DEF Dels
<1>1. ASSUME UNCHANGED <<active, procs, cur, pc>>, deleted \subseteq deleted',
             \A m : (\E i \in DOMAIN net : net[i] = m) =>
               (\E i \in DOMAIN net' : net'[i] = m) \/ (m[1] = "del" /\ m[2] \in deleted')
      PROVE  Asked'
  <2>1. (\E i \in DOMAIN net : net[i] = <<"del", cur, 0>>) =>
          (\E i \in DOMAIN net' : net'[i] = <<"del", cur, 0>>) \/ cur \in deleted'
    BY <1>1
  <2>2. Answering => Answering'
    BY <1>1, <2>1 DEF Answering
  <2> QED
    BY <1>1, <2>2 DEF Asked
<1>2. ASSUME UNCHANGED <<active, procs, cur, deleted, net>>, pc'["main"] = "wait" <=> pc["main"] = "wait"
      PROVE  Asked'
  BY <1>2 DEF Asked, Answering
<1>3. CASE UNCHANGED vars
  BY <1>2, <1>3 DEF vars
<1>4. ASSUME NEW r \in Reports, Indicate(r) PROVE Asked'
  <2>1. <<"ind", r, sent + 1>> \in Inds
    BY <1>4, MaxIndAssumption DEF Indicate, Inds
  <2> QED
    BY <1>1, <1>4, <2>1, NetKept DEF Indicate
<1>5. CASE AnswerDelete
  <2>1. /\ pc["main"] = "wait" /\ cur \in active /\ net' = Append(net, <<"del", cur, 0>>)
        /\ active' = active \ {cur} /\ UNCHANGED <<procs, cur, pc, deleted>>
    BY <1>5 DEF AnswerDelete
  <2>2. net \in Seq(Inds \cup Dels)
    BY DEF Travel
  <2>3. Len(net) + 1 \in DOMAIN net' /\ net'[Len(net) + 1] = <<"del", cur, 0>>
    BY <1>0, <2>1, <2>2
  <2> QED
    BY <2>1, <2>3 DEF Asked, Answering
<1>6. CASE HandleDelete
  <2>1. \A m : (\E i \in DOMAIN net : net[i] = m) =>
               (\E i \in DOMAIN net' : net'[i] = m) \/ (m[1] = "del" /\ m[2] \in deleted')
    <3> SUFFICES ASSUME NEW m, \E i \in DOMAIN net : net[i] = m
                 PROVE  (\E i \in DOMAIN net' : net'[i] = m) \/ (m[1] = "del" /\ m[2] \in deleted')
      OBVIOUS
    <3>1. CASE Head(net) = m
      BY <1>6, <3>1 DEF HandleDelete
    <3>2. CASE Head(net) # m
      BY <1>6, <3>2, NetKept DEF HandleDelete
    <3> QED
      BY <3>1, <3>2
  <2> QED
    BY <1>1, <1>6, <2>1 DEF HandleDelete
<1>7. CASE FindProc
  <2>1. /\ net # <<>> /\ Head(net)[1] = "ind" /\ net' = Tail(net)
        /\ UNCHANGED <<active, procs, cur, pc, deleted>>
    BY <1>7 DEF FindProc
  <2>2. Head(net) # <<"del", cur, 0>>
    BY <2>1
  <2>3. (\E i \in DOMAIN net : net[i] = <<"del", cur, 0>>) => \E i \in DOMAIN net' : net'[i] = <<"del", cur, 0>>
    BY <2>1, <2>2, NetKept
  <2> QED
    BY <2>1, <2>3 DEF Asked, Answering
<1>8. ASSUME NEW r \in Reports, RmReport(r) PROVE Asked'
  <2>1. /\ pc["main"] = "idle" /\ r \in procs /\ cur' = r /\ UNCHANGED <<active, procs, deleted, net>>
        /\ pc'["main"] = "wait"
    BY <1>8 DEF RmReport, FrameGoes
  <2> QED
    BY <2>1 DEF Asked, Answering
<1>9. CASE RmReportReturns
  <2>1. procs' = procs \ {cur} /\ UNCHANGED <<active, cur>> /\ pc'["main"] = "idle"
    BY <1>9 DEF RmReportReturns, FrameGoes
  <2> QED
    BY <2>1 DEF Asked
<1>10. ASSUME NEW f \in Frames, TryStop(f) PROVE Asked'
  <2>1. pc'["main"] = "wait" <=> pc["main"] = "wait"
    BY <1>10 DEF TryStop, Fail
  <2> QED
    BY <1>2, <1>10, <2>1 DEF TryStop, Fail
<1>11. ASSUME NEW f \in Frames, ReadSize(f) \/ LoopStopped(f) \/ FreeSync(f) \/ SetToken(f) \/ SignalStop(f) \/ Join(f)
       PROVE  Asked'
  <2>1. UNCHANGED <<active, procs, cur, deleted, net>> /\ (pc'["main"] = "wait" <=> pc["main"] = "wait")
    BY <1>11 DEF ReadSize, LoopStopped, FreeSync, SetToken, SignalStop, Join, FrameGoes
  <2> QED
    BY <1>2, <2>1
<1>12. ASSUME NEW f \in Frames, FreeQueue(f) PROVE Asked'
  <2>1. pc'["main"] = "wait" <=> pc["main"] = "wait"
    BY <1>12 DEF FreeQueue, Fail
  <2> QED
    BY <1>2, <1>12, <2>1 DEF FreeQueue, Fail
<1>13. CASE Interrupt
  BY <1>2, <1>13 DEF Interrupt
<1>14. CASE CopyNode \/ Push \/ LoopEnds \/ DispLock \/ DispCheck \/ DispBlock \/ DispTake \/ DispCall \/
            DispStops \/ DispEnds \/ DispWakes
  <2>1. UNCHANGED <<active, procs, cur, deleted, net, pc>>
    BY <1>14 DEF CopyNode, Fail, Push, LoopEnds, DispLock, DispGoes, DispCheck, DispBlock, DispTake,
                 DispCall, DispStops, DispEnds, DispWakes
  <2> QED
    BY <1>2, <2>1
<1> QED
  BY <1>3, <1>4, <1>5, <1>6, <1>7, <1>8, <1>9, <1>10, <1>11, <1>12, <1>13, <1>14
  DEF Next, Ric, Loop, Disp, Main, Stop, Frames

\* For every set of reports and any number of indications: event loop, dispatcher and main
\* thread never wait for each other in a circle, in rm_report, while the xApp runs, or in
\* try_stop_xapp_api and what it frees.  Unless a SIGINT came amid an API call, they come
\* to rest only with everything handled, and never amid a call or a stop.
THEOREM NobodyIsStuck == Spec => [](Alive /\ calm /\ NobodyMoves => AtRest)
<1>1. Init => Wakeups /\ Tokens /\ Asked
  <2> SUFFICES ASSUME Init PROVE Wakeups /\ Tokens /\ Asked
    OBVIOUS
  <2>1. Wakeups /\ Tokens
    BY DEF Init, Wakeups, Tokens, Freeing, Frames
  <2>2. Asked
    BY DEF Init, Asked, Frames
  <2> QED
    BY <2>1, <2>2
<1>2. DispInv /\ Wakeups /\ Tokens /\ Asked /\ [Next]_vars => Wakeups' /\ Tokens' /\ Asked'
  <2> SUFFICES ASSUME DispInv, Wakeups, Tokens, Asked, [Next]_vars PROVE Wakeups' /\ Tokens' /\ Asked'
    OBVIOUS
  <2>1. CASE UNCHANGED vars
    BY <2>1 DEF vars, ric, loop, mutex, disp, hist, Wakeups, Tokens, Asked, Answering, Freeing
  <2>2. CASE Alive
    BY <2>2, WakeupsStep, TokensStep, AskedStep DEF DispInv
  <2> QED
    BY <2>1, <2>2 DEF Next
<1>3. DispInv /\ Wakeups /\ Tokens /\ Asked => (Alive /\ calm /\ NobodyMoves => AtRest)
  <2> SUFFICES ASSUME DispInv, Wakeups, Tokens, Asked, Alive, calm, NobodyMoves PROVE AtRest
    OBVIOUS
  <2>0. States /\ Mutex /\ TwoFrames /\ Ended /\ CallbacksExact /\ Travel
    BY DEF DispInv
  <2>1. pc["handler"] = "off" \/ pc["main"] \in {"idle", "poll"}
    BY <2>0 DEF TwoFrames
  <2>2. Free
    <3>1. holder # "disp"
      BY <2>0 DEF Mutex, NobodyMoves
    <3>2. \A f \in Frames : holder # f
      BY <2>0, <2>1 DEF Mutex, NobodyMoves, FrameWaits, Runs, Frames
    <3> QED
      BY <2>0, <3>1, <3>2 DEF States, Free
  <2>3. dpc \in {"asleep", "ended"} /\ (lpc = "ended" \/ (lpc = "epoll" /\ ~lstop /\ net = <<>>))
    BY <2>2 DEF NobodyMoves
  <2>4. \A f \in Frames : Runs(f) => pc[f] \in {"off", "idle", "stuck"} \/ (pc[f] = "wait" /\ cur \notin active \cup deleted)
    <3> SUFFICES ASSUME NEW f \in Frames, Runs(f), pc[f] \in {"loop", "queue", "join"}, FrameWaits(f) PROVE FALSE
      BY <2>2 DEF NobodyMoves, FrameWaits
    <3>1. CASE pc[f] = "loop"
      BY <2>0, <2>3, <3>1 DEF FrameWaits, Ended, Freeing
    <3>2. CASE pc[f] \in {"queue", "join"}
      <4>1. qstop
        BY <3>2 DEF Tokens
      <4>2. ~\E g \in Frames : pc[g] = "signal"
        BY <2>0, <2>1, <3>2 DEF Runs, Frames
      <4>3. dpc = "ended" /\ qstopped
        BY <2>3, <4>1, <4>2 DEF Wakeups
      <4> QED
        BY <3>2, <4>3 DEF FrameWaits
    <3> QED
      BY <3>1, <3>2
  <2>5. net = <<>> \/ lstop
    BY <2>3 DEF Tokens
  <2>6. pc["handler"] = "off"
    <3>1. Runs("handler") /\ "handler" \in Frames
      BY DEF Runs, Frames
    <3> QED
      BY <2>0, <2>1, <2>4, <3>1 DEF TwoFrames, Tokens
  <2>7. pc["main"] \in {"idle", "wait"}
    BY <2>0, <2>4, <2>6 DEF Runs, Frames, TwoFrames
  <2>8. ~lstop /\ ~qstop /\ ~qfreed
    BY <2>0, <2>6, <2>7 DEF Tokens, Freeing, Frames, Ended
  <2>9. lpc = "epoll" /\ net = <<>> /\ dpc = "asleep"
    BY <2>3, <2>8 DEF Tokens, Wakeups
  <2>10. pc["main"] = "idle"
    <3> SUFFICES ASSUME pc["main"] = "wait" PROVE FALSE
      BY <2>7
    <3>1. cur \notin active \cup deleted
      BY <2>4, <2>6 DEF Runs, Frames
    <3> QED
      BY <2>9, <3>1 DEF Asked, Answering
  <2>11. pushed = called
    <3>1. queue = <<>> /\ hand = 0
      BY <2>0, <2>9 DEF Wakeups, Travel
    <3>2. pushed = (called \o <<>>) \o <<>>
      BY <2>0, <2>8, <3>1 DEF CallbacksExact
    <3>3. called \in Seq(1..MaxInd)
      BY <2>0 DEF Travel
    <3> QED
      BY <3>2, <3>3, ConcatEmptySeq, Zenon
  <2> QED
    BY <2>2, <2>6, <2>9, <2>10, <2>11 DEF AtRest
<1> QED
  BY <1>1, <1>2, <1>3, DispInvariant, PTL DEF Spec

=============================================================================
