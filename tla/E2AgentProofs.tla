---------------------------- MODULE E2AgentProofs ----------------------------
(***************************************************************************)
(* The safety of the E2 agent for any number of subscriptions, RAN         *)
(* functions, calls, lives of the RIC and message histories.               *)
(*                                                                         *)
(* The queue and the pipe agree as long as every request id has four       *)
(* digits.  PipeInv adds to PipeMatchesQueue the two facts the loop relies *)
(* on: it holds taken indications exactly while it sends and reads, and    *)
(* once it has been woken by the pipe nobody else takes bytes from it.     *)
(*                                                                         *)
(* What the RIC and the agent know of each other is AgentInv.  Timers: no  *)
(* descriptor number is in use twice, and what has expired is open.        *)
(* SetupTurns: in the socket, answers to set-up requests and losses of the *)
(* association take turns, starting with an answer if a timer runs.        *)
(* Requested: a request under way either belongs to an earlier life of the *)
(* RIC or is the one thing that stands for its id.  So a grant finds its   *)
(* subscription in the table (Granted), the RAN reports for nothing that   *)
(* has been taken out (Reported), and while the environment keeps its      *)
(* manners a report finds its subscription (LooksForOwn) and the set-up    *)
(* procedure has one timer until it is answered (SetupInTime).             *)
(*                                                                         *)
(* Ordered follows the indications of a subscription from the thread that  *)
(* numbers them through the queue and the hands of the loop to the socket. *)
(*                                                                         *)
(* QuietInv says why nothing is left behind although every descriptor is   *)
(* edge triggered: of what is in the pipe or the socket the loop has been  *)
(* told, or is about to be (PipeTold, SocketTold), and what the RIC waits  *)
(* for is in a message under way or in the hands of the loop (Underway).   *)
(***************************************************************************)
EXTENDS E2Agent, FiniteSetTheorems, SequenceTheorems, WellFoundedInduction, TLAPS

\* Every request id has four digits.
FourDigits == \A i \in Ids : Digits[i] = 4

\* A sequence of whatever.
IsSeq(q) == \E S : q \in Seq(S)

\* The types of what the pipe is about.
PipeTypes ==
  /\ bytes \in Nat /\ IsSeq(queue) /\ IsSeq(popped)
  /\ th \in [Ids -> {"idle", "look", "push", "write"}]

\* The loop has indications in its hands exactly while it sends them and reads the pipe.
HoldsWhileSending == (popped # <<>>) <=> at \in {"send", "read"}

\* The loop is woken by bytes, which nobody else reads.
WokenByBytes == at = "event" /\ ev = PIPE => bytes > 0

\* The queue and the pipe.
PipeInv ==
  /\ PipeTypes
  /\ HoldsWhileSending
  /\ WokenByBytes
  /\ PipeMatchesQueue
  /\ abort \notin {"queue empty", "one byte"}

-----------------------------------------------------------------------------
(* Sequences of whatever *)

\* Appending to a sequence gives one that is longer by one.
LEMMA AppendIsSeq ==
  ASSUME NEW q, NEW x, IsSeq(q)
  PROVE  IsSeq(Append(q, x)) /\ Len(Append(q, x)) = Len(q) + 1 /\ Len(q) \in Nat
<1>1. PICK S : q \in Seq(S)
  BY DEF IsSeq
<1>2. q \in Seq(S \cup {x}) /\ x \in S \cup {x}
  BY <1>1
<1>3. Append(q, x) \in Seq(S \cup {x})
  BY <1>2
<1>4. Len(Append(q, x)) = Len(q) + 1 /\ Len(q) \in Nat
  BY <1>2
<1> QED
  BY <1>3, <1>4 DEF IsSeq

\* The tail of a sequence that is not empty is shorter by one.
LEMMA TailIsSeq ==
  ASSUME NEW q, IsSeq(q), q # <<>>
  PROVE  IsSeq(Tail(q)) /\ Len(Tail(q)) = Len(q) - 1 /\ Len(q) \in Nat /\ Len(q) > 0
<1>1. PICK S : q \in Seq(S)
  BY DEF IsSeq
<1>2. Tail(q) \in Seq(S) /\ Len(Tail(q)) = Len(q) - 1 /\ Len(q) \in Nat /\ Len(q) > 0
  BY <1>1
<1> QED
  BY <1>2 DEF IsSeq

\* A sequence has a length, which is zero when it is empty only.
LEMMA LengthOfSeq ==
  ASSUME NEW q, IsSeq(q)
  PROVE  Len(q) \in Nat /\ (Len(q) = 0 <=> q = <<>>)
<1>1. PICK S : q \in Seq(S)
  BY DEF IsSeq
<1> QED
  BY <1>1

\* The empty sequence is one.
LEMMA EmptyIsSeq == IsSeq(<<>>) /\ Len(<<>>) = 0
<1>1. <<>> \in Seq({}) /\ Len(<<>>) = 0
  OBVIOUS
<1> QED
  BY <1>1 DEF IsSeq

\* A thread that has pushed is one more writer.
LEMMA WriterAdded ==
  ASSUME NEW t \in [Ids -> {"idle", "look", "push", "write"}], NEW i \in Ids, t[i] # "write"
  PROVE  Cardinality({j \in Ids : [t EXCEPT ![i] = "write"][j] = "write"})
           = Cardinality({j \in Ids : t[j] = "write"}) + 1
<1> DEFINE W == {j \in Ids : t[j] = "write"}
<1>1. IsFiniteSet(W)
  <2>1. IsFiniteSet(Ids)
    BY FS_Interval, BoundsAssumption DEF Ids
  <2> QED
    BY <2>1, FS_Subset
<1>2. {j \in Ids : [t EXCEPT ![i] = "write"][j] = "write"} = W \cup {i}
  OBVIOUS
<1>3. i \notin W
  OBVIOUS
<1> QED
  BY <1>1, <1>2, <1>3, FS_AddElement

\* A thread that has written is one writer less; the number of writers is natural.
LEMMA WriterRemoved ==
  ASSUME NEW t \in [Ids -> {"idle", "look", "push", "write"}], NEW i \in Ids, t[i] = "write"
  PROVE  /\ Cardinality({j \in Ids : [t EXCEPT ![i] = "idle"][j] = "write"})
              = Cardinality({j \in Ids : t[j] = "write"}) - 1
         /\ Cardinality({j \in Ids : t[j] = "write"}) \in Nat
<1> DEFINE W == {j \in Ids : t[j] = "write"}
<1>1. IsFiniteSet(W)
  <2>1. IsFiniteSet(Ids)
    BY FS_Interval, BoundsAssumption DEF Ids
  <2> QED
    BY <2>1, FS_Subset
<1>2. {j \in Ids : [t EXCEPT ![i] = "idle"][j] = "write"} = W \ {i}
  OBVIOUS
<1>3. i \in W
  OBVIOUS
<1> QED
  BY <1>1, <1>2, <1>3, FS_RemoveElement, FS_CardinalityType

\* The number of writers is natural.
LEMMA WritersCounted ==
  Cardinality(Writers) \in Nat
<1>1. IsFiniteSet(Ids)
  BY FS_Interval, BoundsAssumption DEF Ids
<1>2. IsFiniteSet(Writers)
  BY <1>1, FS_Subset DEF Writers
<1> QED
  BY <1>2, FS_CardinalityType

\* A thread that neither starts nor stops to be between push and write changes no count.
LEMMA WritersSame ==
  ASSUME NEW i \in Ids, NEW a, a # "write", th[i] # "write",
         th \in [Ids -> {"idle", "look", "push", "write"}],
         th' = [th EXCEPT ![i] = a]
  PROVE  Writers' = Writers
  BY DEF Writers

-----------------------------------------------------------------------------
(* The invariant *)

\* The agent starts with queue and pipe empty.
LEMMA PipeInvInit == Init => PipeInv
<1> SUFFICES ASSUME Init PROVE PipeInv
  OBVIOUS
<1>1. Writers = {}
  BY DEF Init, Writers
<1>2. PipeTypes
  BY EmptyIsSeq DEF Init, PipeTypes
<1>3. HoldsWhileSending /\ WokenByBytes /\ abort \notin {"queue empty", "one byte"}
  BY DEF Init, HoldsWhileSending, WokenByBytes
<1>4. PipeMatchesQueue
  BY <1>1, EmptyIsSeq, FS_EmptySet DEF Init, PipeMatchesQueue
<1> QED
  BY <1>2, <1>3, <1>4 DEF PipeInv

\* Steps that touch neither queue nor pipe and leave the loop where it may be.
LEMMA PipeUntouched ==
  ASSUME PipeInv, UNCHANGED <<bytes, queue, popped, th>>,
         abort' \notin {"queue empty", "one byte"},
         at' \in {"send", "read"} <=> at \in {"send", "read"},
         at' = "event" /\ ev' = PIPE => bytes > 0,
         at = "freed" => at' = "freed"
  PROVE  PipeInv'
<1>1. Writers' = Writers
  BY DEF Writers
<1>2. PipeTypes' /\ HoldsWhileSending' /\ WokenByBytes'
  BY DEF PipeInv, PipeTypes, HoldsWhileSending, WokenByBytes, IsSeq
<1>3. PipeMatchesQueue'
  BY <1>1 DEF PipeInv, PipeMatchesQueue
<1> QED
  BY <1>2, <1>3 DEF PipeInv

\* The queue is not empty when the loop is woken by the pipe, and is taken as a whole.
LEMMA TakeQueueKeeps ==
  ASSUME PipeInv, TakeQueue
  PROVE  PipeInv'
<1>1. at # "freed" /\ bytes > 0 /\ popped = <<>>
  BY DEF PipeInv, TakeQueue, WokenByBytes, HoldsWhileSending
<1>2. bytes + 4 * Cardinality(Writers) = 4 * (Len(queue) + Len(popped)) /\ Len(popped) = 0
  BY <1>1, EmptyIsSeq DEF PipeInv, PipeMatchesQueue
<1>3. queue # <<>> /\ Len(queue) \in Nat
  <2>1. Len(queue) \in Nat /\ (Len(queue) = 0 <=> queue = <<>>) /\ bytes \in Nat
    BY LengthOfSeq DEF PipeInv, PipeTypes
  <2>2. Len(queue) # 0
    BY <1>1, <1>2, <2>1, WritersCounted
  <2> QED
    BY <2>1, <2>2
<1>4. popped' = queue /\ queue' = <<>> /\ at' = "send" /\ UNCHANGED <<abort, bytes, th>>
  BY <1>3 DEF TakeQueue, ranVars
<1>5. Writers' = Writers
  BY <1>4 DEF Writers
<1>6. PipeTypes'
  BY <1>4, EmptyIsSeq DEF PipeInv, PipeTypes, IsSeq
<1>7. HoldsWhileSending' /\ WokenByBytes'
  BY <1>3, <1>4 DEF HoldsWhileSending, WokenByBytes
<1>8. PipeMatchesQueue'
  BY <1>2, <1>3, <1>4, <1>5, EmptyIsSeq DEF PipeMatchesQueue
<1> QED
  BY <1>4, <1>6, <1>7, <1>8 DEF PipeInv

\* One indication is dealt with, and four bytes are there to be read for it.
LEMMA ReadPipeKeeps ==
  ASSUME PipeInv, ReadPipe
  PROVE  PipeInv'
<1>1. at = "read" /\ bytes > 0 /\ popped # <<>> /\ bytes \in Nat
  BY DEF PipeInv, PipeTypes, ReadPipe, HoldsWhileSending
<1>2. bytes + 4 * Cardinality(Writers) = 4 * (Len(queue) + Len(popped))
  BY <1>1 DEF PipeInv, PipeMatchesQueue
<1>3. /\ IsSeq(Tail(popped)) /\ Len(Tail(popped)) = Len(popped) - 1
      /\ Len(popped) \in Nat /\ Len(queue) \in Nat
  BY <1>1, TailIsSeq, LengthOfSeq DEF PipeInv, PipeTypes
<1>4. bytes >= 4
  BY <1>1, <1>2, <1>3, WritersCounted
<1>5. bytes' = bytes - 4 /\ abort' = "none"
  <2>1. /\ bytes' = IF bytes > 4 THEN bytes - 4 ELSE 0
        /\ abort' = IF bytes = 1 THEN "one byte" ELSE "none"
    BY DEF ReadPipe
  <2>2. bytes # 1 /\ (~(bytes > 4) => bytes - 4 = 0)
    BY <1>1, <1>4
  <2> QED
    BY <2>1, <2>2
<1>6. /\ popped' = Tail(popped) /\ UNCHANGED <<queue, th>>
      /\ at' = IF Tail(popped) = <<>> THEN "wait" ELSE "send"
  BY DEF ReadPipe, ranVars
<1>7. Writers' = Writers
  BY <1>6 DEF Writers
<1>8. PipeTypes'
  <2>1. bytes' \in Nat
    BY <1>1, <1>4, <1>5
  <2>2. IsSeq(queue') /\ IsSeq(popped') /\ th' \in [Ids -> {"idle", "look", "push", "write"}]
    BY <1>3, <1>6 DEF PipeInv, PipeTypes
  <2> QED
    BY <2>1, <2>2 DEF PipeTypes
<1>9. HoldsWhileSending' /\ WokenByBytes'
  BY <1>6 DEF HoldsWhileSending, WokenByBytes
<1>10. PipeMatchesQueue'
  BY <1>1, <1>2, <1>3, <1>5, <1>6, <1>7, WritersCounted, SMTT(30) DEF PipeMatchesQueue
<1> QED
  BY <1>5, <1>8, <1>9, <1>10 DEF PipeInv

\* One indication more in the queue, one thread more that has to write.
LEMMA PushIndicationKeeps ==
  ASSUME PipeInv, NEW i \in Ids, PushIndication(i)
  PROVE  PipeInv'
<1> DEFINE x == [i |-> i, f |-> found[i].f, n |-> calls[i]]
<1>1. /\ th[i] = "push" /\ th' = [th EXCEPT ![i] = "write"] /\ queue' = Append(queue, x)
      /\ UNCHANGED <<bytes, popped, at, ev, abort>>
  BY DEF PushIndication, loopVars
<1>2. th \in [Ids -> {"idle", "look", "push", "write"}] /\ IsSeq(queue) /\ IsSeq(popped)
  BY DEF PipeInv, PipeTypes
<1>3. Cardinality(Writers') = Cardinality(Writers) + 1
  BY <1>1, <1>2, WriterAdded DEF Writers
<1>4. IsSeq(queue') /\ Len(queue') = Len(queue) + 1 /\ Len(queue) \in Nat /\ Len(popped) \in Nat
  BY <1>1, <1>2, AppendIsSeq, LengthOfSeq
<1>5. PipeTypes' /\ HoldsWhileSending' /\ WokenByBytes'
  BY <1>1, <1>2, <1>4 DEF PipeInv, PipeTypes, HoldsWhileSending, WokenByBytes
<1>6. PipeMatchesQueue'
  <2>1. bytes \in Nat /\ Cardinality(Writers) \in Nat
    BY WritersCounted DEF PipeInv, PipeTypes
  <2>2. at # "freed" => bytes + 4 * Cardinality(Writers) = 4 * (Len(queue) + Len(popped))
    BY DEF PipeInv, PipeMatchesQueue
  <2>3. at # "freed" => bytes + 4 * (Cardinality(Writers) + 1)
                          = 4 * ((Len(queue) + 1) + Len(popped))
    BY <1>4, <2>1, <2>2
  <2>4. /\ at' = at /\ bytes' = bytes /\ Len(popped') = Len(popped)
        /\ Cardinality(Writers') = Cardinality(Writers) + 1
        /\ Len(queue') = Len(queue) + 1
    BY <1>1, <1>3, <1>4
  <2> QED
    BY <2>3, <2>4 DEF PipeMatchesQueue
<1> QED
  BY <1>1, <1>5, <1>6 DEF PipeInv

\* One thread less that has to write, four bytes more.
LEMMA WritePipeKeeps ==
  ASSUME PipeInv, FourDigits, NEW i \in Ids, WritePipe(i)
  PROVE  PipeInv'
<1>1. /\ th[i] = "write" /\ th' = [th EXCEPT ![i] = "idle"] /\ bytes' = bytes + 4
      /\ UNCHANGED <<queue, popped, at, ev, abort>>
  BY DEF WritePipe, loopVars, FourDigits
<1>2. /\ th \in [Ids -> {"idle", "look", "push", "write"}] /\ IsSeq(queue) /\ IsSeq(popped)
      /\ bytes \in Nat
  BY DEF PipeInv, PipeTypes
<1>3. Cardinality(Writers') = Cardinality(Writers) - 1 /\ Cardinality(Writers) \in Nat
  BY <1>1, <1>2, WriterRemoved DEF Writers
<1>4. Len(queue) \in Nat /\ Len(popped) \in Nat
  BY <1>2, LengthOfSeq
<1>5. PipeTypes' /\ HoldsWhileSending' /\ WokenByBytes'
  <2>1. bytes' \in Nat /\ (bytes > 0 => bytes' > 0)
    BY <1>1, <1>2
  <2>2. IsSeq(queue') /\ IsSeq(popped') /\ th' \in [Ids -> {"idle", "look", "push", "write"}]
    BY <1>1, <1>2
  <2>3. HoldsWhileSending'
    BY <1>1 DEF PipeInv, HoldsWhileSending
  <2>4. WokenByBytes'
    BY <1>1, <2>1 DEF PipeInv, WokenByBytes
  <2> QED
    BY <2>1, <2>2, <2>3, <2>4 DEF PipeTypes
<1>6. PipeMatchesQueue'
  <2>1. at # "freed" => bytes + 4 * Cardinality(Writers) = 4 * (Len(queue) + Len(popped))
    BY DEF PipeInv, PipeMatchesQueue
  <2> QED
    BY <1>1, <1>2, <1>3, <1>4, <2>1 DEF PipeMatchesQueue
<1> QED
  BY <1>1, <1>5, <1>6 DEF PipeInv

\* A thread starts a call or looks its subscription up: no count changes.
LEMMA CallKeeps ==
  ASSUME PipeInv, NEW i \in Ids, EventHappens(i) \/ LookUp(i)
  PROVE  PipeInv'
<1>1. /\ UNCHANGED <<bytes, queue, popped, at, ev>>
      /\ abort' \notin {"queue empty", "one byte"}
  BY DEF PipeInv, EventHappens, LookUp, loopVars
<1>2. th' = th \/ (th[i] # "write" /\ \E a \in {"look", "push"} : th' = [th EXCEPT ![i] = a])
  BY DEF EventHappens, LookUp
<1>3. th \in [Ids -> {"idle", "look", "push", "write"}]
  BY DEF PipeInv, PipeTypes
<1>4. Writers' = Writers /\ th' \in [Ids -> {"idle", "look", "push", "write"}]
  <2>1. CASE th' = th
    BY <1>3, <2>1 DEF Writers
  <2>2. CASE th[i] # "write" /\ \E a \in {"look", "push"} : th' = [th EXCEPT ![i] = a]
    <3>1. PICK a \in {"look", "push"} : th' = [th EXCEPT ![i] = a]
      BY <2>2
    <3> QED
      BY <1>3, <2>2, <3>1, WritersSame
  <2> QED
    BY <1>2, <2>1, <2>2
<1>5. PipeTypes' /\ HoldsWhileSending' /\ WokenByBytes'
  BY <1>1, <1>4 DEF PipeInv, PipeTypes, HoldsWhileSending, WokenByBytes
<1>6. PipeMatchesQueue'
  BY <1>1, <1>4 DEF PipeInv, PipeMatchesQueue
<1> QED
  BY <1>1, <1>5, <1>6 DEF PipeInv

\* When the agent has been freed there is nothing to match.
LEMMA FreeAgentKeeps ==
  ASSUME PipeInv, FreeAgent
  PROVE  PipeInv'
<1>1. PipeTypes' /\ HoldsWhileSending' /\ WokenByBytes'
  BY EmptyIsSeq DEF PipeInv, PipeTypes, HoldsWhileSending, WokenByBytes, FreeAgent, ranVars
<1> QED
  BY <1>1 DEF PipeInv, PipeMatchesQueue, FreeAgent

\* Every other step of the loop.
LEMMA LoopKeeps ==
  ASSUME PipeInv, Loop
  PROVE  PipeInv'
<1>1. CASE EpollWait
  <2>1. at' = "event" /\ ev' = PIPE => bytes > 0
    <3>1. ASSUME at' = "event", ev' = PIPE PROVE Readable(PIPE)
      BY <1>1, <3>1 DEF EpollWait
    <3>2. Readable(PIPE) => bytes > 0
      BY DEF Readable, NET, PIPE, FirstTimer
    <3> QED
      BY <3>1, <3>2
  <2> QED
    BY <1>1, <2>1, PipeUntouched DEF EpollWait, PipeInv, ranVars
<1>2. CASE SetupResponse
  BY <1>2, PipeUntouched DEF SetupResponse, Received, PipeInv, ranVars
<1>3. CASE ConnectionShutdown
  BY <1>3, PipeUntouched DEF ConnectionShutdown, Received, PipeInv, ranVars
<1>4. CASE OnSubscription
  BY <1>4, PipeUntouched DEF OnSubscription, Received, PipeInv, ranVars
<1>5. CASE RegisterSubscription
  BY <1>5, PipeUntouched DEF RegisterSubscription, PipeInv, ranVars
<1>6. CASE DeleteRequest
  BY <1>6, PipeUntouched DEF DeleteRequest, Received, PipeInv, ranVars
<1>7. CASE FreeSubsAperiodic
  BY <1>7, PipeUntouched DEF FreeSubsAperiodic, PipeInv, ranVars
<1>8. CASE ExtractSubscription
  BY <1>8, PipeUntouched DEF ExtractSubscription, PipeInv, ranVars
<1>9. CASE TakeQueue
  BY <1>9, TakeQueueKeeps
<1>10. CASE SendAperiodic
  BY <1>10, PipeUntouched DEF SendAperiodic, PipeInv, ranVars
<1>11. CASE ReadPipe
  BY <1>11, ReadPipeKeeps
<1>12. CASE ResendSetup
  BY <1>12, PipeUntouched DEF ResendSetup, PipeInv, ranVars
<1>13. CASE LoopEnds
  BY <1>13, PipeUntouched DEF LoopEnds, PipeInv, ranVars
<1>14. CASE \E e \in ToSet(table) : PeriodicIndication(e)
  BY <1>14, PipeUntouched DEF PeriodicIndication, PipeInv, ranVars
<1> QED
  BY <1>1, <1>2, <1>3, <1>4, <1>5, <1>6, <1>7, <1>8, <1>9, <1>10, <1>11, <1>12, <1>13, <1>14
  DEF Loop

\* Steps of the RIC, of the network and of the timers.
LEMMA OutsideKeeps ==
  ASSUME PipeInv,
         \/ RicStart \/ RicStop \/ RicAnswersSetup \/ SctpAck
         \/ \E f \in Funcs : RicSubscribes(f)
         \/ \E i \in Ids : RicDeletes(i)
         \/ \E fd \in TimerFds : TimerExpires(fd)
         \/ StopAgent
  PROVE  PipeInv'
<1>1. UNCHANGED <<bytes, queue, popped, th, at, ev, abort>>
  BY DEF RicStart, RicStop, RicAnswersSetup, SctpAck, RicSubscribes, RicDeletes, TimerExpires,
         StopAgent, loopVars, ranVars
<1>2. at = "event" /\ ev = PIPE => bytes > 0
  BY DEF PipeInv, WokenByBytes
<1> QED
  BY <1>1, <1>2, PipeUntouched DEF PipeInv

\* Every step keeps the invariant.
LEMMA PipeInvStep ==
  ASSUME PipeInv, FourDigits, [Next]_vars
  PROVE  PipeInv'
<1>1. CASE Loop
  BY <1>1, LoopKeeps
<1>2. CASE \E i \in Ids : EventHappens(i) \/ Ran(i)
  BY <1>2, CallKeeps, PushIndicationKeeps, WritePipeKeeps DEF Ran
<1>3. CASE FreeAgent
  BY <1>3, FreeAgentKeeps
<1>4. CASE UNCHANGED vars
  <2>1. at = "event" /\ ev = PIPE => bytes > 0
    BY DEF PipeInv, WokenByBytes
  <2> QED
    BY <1>4, <2>1, PipeUntouched DEF PipeInv, vars, loopVars, ranVars
<1> QED
  BY <1>1, <1>2, <1>3, <1>4, OutsideKeeps DEF Next

\* With request ids of four digits the pipe always holds four bytes for each indication
\* that has been announced and not read for (e2_async_event_agent, aind_event and
\* consume_fd_async of e2_agent.c), however many subscriptions and calls there are.
THEOREM PipeAgrees == FourDigits => (Spec => []PipeMatchesQueue)
<1> SUFFICES ASSUME FourDigits PROVE Spec => []PipeMatchesQueue
  OBVIOUS
<1>1. Init => PipeInv
  BY PipeInvInit
<1>2. PipeInv /\ [Next]_vars => PipeInv'
  BY PipeInvStep
<1>3. PipeInv => PipeMatchesQueue
  BY DEF PipeInv
<1> QED
  BY <1>1, <1>2, <1>3, PTL DEF Spec

\* So neither assertion about the pipe fails: the loop never finds the queue empty
\* (e2_agent.c:277) and never reads a single byte (e2_agent.c:421 and 434).
THEOREM PipeAssertionsHold ==
  FourDigits => (Spec => [](abort \notin {"queue empty", "one byte"}))
<1> SUFFICES ASSUME FourDigits
             PROVE  Spec => [](abort \notin {"queue empty", "one byte"})
  OBVIOUS
<1>1. Init => PipeInv
  BY PipeInvInit
<1>2. PipeInv /\ [Next]_vars => PipeInv'
  BY PipeInvStep
<1>3. PipeInv => abort \notin {"queue empty", "one byte"}
  BY DEF PipeInv
<1> QED
  BY <1>1, <1>2, <1>3, PTL DEF Spec
-----------------------------------------------------------------------------
(* Descriptors *)

\* A set of naturals that has a member has a least one.
LEMMA Least ==
  ASSUME NEW S, S \subseteq Nat, S # {}
  PROVE  \E m \in S : \A k \in S : m <= k
<1> DEFINE R == {ss \in Nat \X Nat : ss[1] < ss[2]}
<1>1. IsWellFoundedOn(R, Nat)
  BY NatLessThanWellFounded DEF OpToRel
<1>2. PICK m \in S : \A k \in S : ~ (<<k, m>> \in R)
  <2> HIDE DEF R
  <2> QED
    BY <1>1, WFMin
<1>3. ASSUME NEW k \in S PROVE m <= k
  <2>1. ~ (k < m)
    BY <1>2
  <2> QED
    BY <2>1
<1> QED
  BY <1>3

\* The values of a function on the positions of a sequence are finitely many.
LEMMA ValuesFinite ==
  ASSUME NEW n \in Nat, NEW R, NEW g \in [1..n -> R], NEW A,
         \A a \in A : \E k \in 1..n : a = g[k]
  PROVE  IsFiniteSet(A)
<1> DEFINE B == {g[k] : k \in 1..n}
<1>1. IsFiniteSet(1..n)
  BY FS_Interval
<1>2. g \in Surjection(1..n, B)
  BY DEF Surjection
<1>3. A \subseteq B
  OBVIOUS
<1> HIDE DEF B
<1> QED
  BY <1>1, <1>2, <1>3, FS_Surjection, FS_Subset

\* So are its members.
LEMMA MembersFinite ==
  ASSUME NEW S, NEW q \in Seq(S)
  PROVE  IsFiniteSet(ToSet(q))
<1>1. q \in [1..Len(q) -> S] /\ DOMAIN q = 1..Len(q)
  BY LenProperties
<1>2. \A a \in ToSet(q) : \E k \in 1..Len(q) : a = q[k]
  BY <1>1 DEF ToSet
<1>3. Len(q) \in Nat
  OBVIOUS
<1> HIDE DEF ToSet
<1> QED
  BY <1>1, <1>2, <1>3, ValuesFinite

\* The descriptors of the timers are finitely many naturals.
LEMMA TimersFinite ==
  ASSUME table \in Seq([i : Ids, f : Funcs, fd : Nat]), pending \in Seq(Nat)
  PROVE  IsFiniteSet(TimerFds) /\ TimerFds \subseteq Nat
<1> DEFINE fds == [k \in 1..Len(table) |-> table[k].fd]
<1>1. fds \in Seq(Nat) /\ Len(fds) = Len(table)
  <2>1. \A k \in 1..Len(table) : table[k] \in [i : Ids, f : Funcs, fd : Nat]
    BY ElementOfSeq
  <2>2. fds \in [1..Len(table) -> Nat] /\ Len(table) \in Nat
    BY <2>1
  <2> HIDE DEF fds
  <2>3. Seq(Nat) = UNION {[1..n -> Nat] : n \in Nat}
    BY SeqDef
  <2>4. fds \in Seq(Nat)
    BY <2>2, <2>3
  <2> QED
    BY <2>2, <2>4, LenProperties
<1>2. IsFiniteSet(ToSet(pending)) /\ IsFiniteSet(ToSet(fds))
  BY <1>1, MembersFinite
<1>3. ToSet(pending) \subseteq Nat /\ ToSet(fds) \subseteq Nat
  <2>1. (\A k \in 1..Len(pending) : pending[k] \in Nat) /\ \A k \in 1..Len(table) : fds[k] \in Nat
    BY <1>1, ElementOfSeq
  <2> QED
    BY <1>1, <2>1, LenProperties DEF ToSet
<1>4. {e.fd : e \in ToSet(table)} \subseteq ToSet(fds)
  <2>1. ASSUME NEW e \in ToSet(table) PROVE e.fd \in ToSet(fds)
    <3>1. PICK k \in 1..Len(table) : e = table[k]
      BY LenProperties DEF ToSet
    <3>2. k \in DOMAIN fds /\ fds[k] = e.fd
      BY <3>1
    <3> HIDE DEF fds
    <3> QED
      BY <3>2 DEF ToSet
  <2> HIDE DEF fds
  <2> QED
    BY <2>1
<1> HIDE DEF fds
<1>5. TimerFds \subseteq ToSet(pending) \cup ToSet(fds)
  BY <1>4 DEF TimerFds
<1> QED
  BY <1>2, <1>3, <1>5, FS_Union, FS_Subset

\* timerfd_create returns a number above 2 that no timer has.
LEMMA NewFdIsNew ==
  ASSUME table \in Seq([i : Ids, f : Funcs, fd : Nat]), pending \in Seq(Nat)
  PROVE  NewFd \in Nat /\ NewFd >= FirstTimer /\ NewFd \notin TimerFds
<1> DEFINE c == Cardinality(TimerFds)
           I == FirstTimer..(FirstTimer + c)
           Free == {n \in I : n \notin TimerFds}
<1>1. IsFiniteSet(TimerFds) /\ TimerFds \subseteq Nat /\ c \in Nat
  BY TimersFinite, FS_CardinalityType
<1>2. Free # {}
  <2>1. SUFFICES ASSUME I \subseteq TimerFds PROVE FALSE
    OBVIOUS
  <2>2. IsFiniteSet(I) /\ Cardinality(I) = c + 1
    <3>1. 3 \in Int /\ 3 + c \in Int /\ ~(3 > 3 + c) /\ (3 + c) - 3 + 1 = c + 1
      BY <1>1
    <3> HIDE DEF c
    <3> QED
      BY <3>1, FS_Interval DEF FirstTimer
  <2>3. Cardinality(I) <= c
    BY <1>1, <2>1, FS_Subset
  <2> QED
    BY <1>1, <2>2, <2>3
<1>3. PICK n \in Free : \A k \in Free : n <= k
  <2>1. Free \subseteq Nat
    BY <1>1 DEF FirstTimer
  <2> HIDE DEF Free
  <2> QED
    BY <1>2, <2>1, Least
<1>4. /\ n \in I /\ n \notin TimerFds
      /\ \A m \in FirstTimer..n-1 : m \in TimerFds
  BY <1>1, <1>3 DEF FirstTimer
<1>5. NewFd \in I /\ NewFd \notin TimerFds
  BY <1>4 DEF NewFd
<1> QED
  BY <1>1, <1>5 DEF FirstTimer
-----------------------------------------------------------------------------
(* Sequences *)

\* A sequence without its element at k.
LEMMA Removed ==
  ASSUME NEW S, NEW q \in Seq(S), NEW k \in 1..Len(q)
  PROVE  /\ RemoveAt(q, k) \in Seq(S)
         /\ Len(RemoveAt(q, k)) = Len(q) - 1
         /\ \A j \in 1..Len(q)-1 : RemoveAt(q, k)[j] = IF j < k THEN q[j] ELSE q[j + 1]
<1> DEFINE a == SubSeq(q, 1, k - 1)
           b == SubSeq(q, k + 1, Len(q))
<1>0. Len(q) \in Nat /\ k \in Nat /\ k >= 1 /\ k <= Len(q)
  OBVIOUS
<1>1. /\ a \in Seq(S) /\ Len(a) = k - 1
      /\ \A i \in 1..k-1 : a[i] = q[i]
  <2>1. \A i \in 1..k-1 : q[i] \in S
    BY <1>0, ElementOfSeq
  <2> QED
    BY <1>0, <2>1, SubSeqProperties
<1>2. /\ b \in Seq(S) /\ Len(b) = Len(q) - k
      /\ \A i \in 1..Len(q)-k : b[i] = q[k + i]
  <2>1. \A i \in k+1..Len(q) : q[i] \in S
    BY <1>0, ElementOfSeq
  <2> QED
    BY <1>0, <2>1, SubSeqProperties
<1> HIDE DEF a, b
<1>3. RemoveAt(q, k) = a \o b
  BY DEF RemoveAt, a, b
<1>4. /\ a \o b \in Seq(S) /\ Len(a \o b) = Len(q) - 1
      /\ \A i \in 1..Len(q)-1 : (a \o b)[i] = IF i <= k - 1 THEN a[i] ELSE b[i - (k - 1)]
  <2>1. Len(a) + Len(b) = Len(q) - 1
    BY <1>0, <1>1, <1>2
  <2>2. /\ a \o b \in Seq(S) /\ Len(a \o b) = Len(a) + Len(b)
        /\ \A i \in 1..Len(a)+Len(b) : (a \o b)[i] = IF i <= Len(a) THEN a[i] ELSE b[i - Len(a)]
    BY <1>1, <1>2, ConcatProperties
  <2> QED
    BY <1>1, <2>1, <2>2
<1>5. ASSUME NEW j \in 1..Len(q)-1
      PROVE  (a \o b)[j] = IF j < k THEN q[j] ELSE q[j + 1]
  <2>1. CASE j < k
    <3>1. j <= k - 1 /\ j \in 1..k-1
      BY <1>0, <2>1
    <3> QED
      BY <1>1, <1>4, <2>1, <3>1
  <2>2. CASE ~(j < k)
    <3>1. ~(j <= k - 1) /\ j - (k - 1) \in 1..Len(q)-k /\ k + (j - (k - 1)) = j + 1
      BY <1>0, <2>2
    <3>2. (a \o b)[j] = b[j - (k - 1)]
      BY <1>4, <3>1
    <3> QED
      BY <1>2, <2>2, <3>1, <3>2
  <2> QED
    BY <2>1, <2>2
<1> QED
  BY <1>3, <1>4, <1>5

\* A descriptor that is closed leaves a list of descriptors.
LEMMA ClosedIsList ==
  ASSUME NEW l \in Seq(Nat), NEW fd
  PROVE  Closed(l, fd) \in Seq(Nat)
<1>1. CASE fd \in ToSet(l)
  <2>1. (CHOOSE k \in 1..Len(l) : l[k] = fd) \in 1..Len(l)
    BY <1>1 DEF ToSet
  <2> QED
    BY <1>1, <2>1, Removed DEF Closed
<1>2. CASE fd \notin ToSet(l)
  BY <1>2 DEF Closed
<1> QED
  BY <1>1, <1>2

\* A descriptor that wakes the loop enters a list of descriptors.
LEMMA WakeIsList ==
  ASSUME NEW l \in Seq(Nat), NEW fd \in Nat
  PROVE  Wake(l, fd) \in Seq(Nat)
  BY DEF Wake

\* Head and tail of a list.
LEMMA HeadTail ==
  ASSUME NEW S, NEW q \in Seq(S), q # <<>>
  PROVE  /\ Len(q) \in Nat /\ Len(q) >= 1
         /\ Head(q) = q[1] /\ Head(q) \in S
         /\ Tail(q) \in Seq(S) /\ Len(Tail(q)) = Len(q) - 1
         /\ \A k \in 1..Len(q)-1 : Tail(q)[k] = q[k + 1]
<1>1. Len(q) \in Nat /\ Len(q) >= 1
  BY EmptySeq
<1>2. Head(q) = q[1]
  OBVIOUS
<1>3. Head(q) \in S /\ Tail(q) \in Seq(S) /\ Len(Tail(q)) = Len(q) - 1
  BY HeadTailProperties
<1>4. \A k \in 1..Len(Tail(q)) : Tail(q)[k] = q[k + 1]
  BY HeadTailProperties
<1> QED
  BY <1>1, <1>2, <1>3, <1>4
-----------------------------------------------------------------------------
(* Types *)

Messages == [type : {"setup", "shutdown", "sub", "del"}, id : GenIds \cup {NoId}]
Entries  == [i : Ids, f : Funcs, fd : Nat]
Calls    == {"idle", "look", "push", "write"}

\* The loop handles a request of the RIC.
Busy == at \in {"subscribe", "unsubscribe", "extract"}

\* The positions of the messages of some types.
At(types) == {k \in 1..Len(inbox) : inbox[k].type \in types}

\* Beyond TypeOK: requests have proper ids, a thread in a call has produced an
\* indication and, once it has looked it up, found a subscription; the loop that is
\* woken for the socket finds a message, and a stopped agent has no reports.
Proper ==
  /\ \A k \in At({"sub", "del"}) : inbox[k].id \in GenIds
  /\ Busy => req \in GenIds
  /\ \A i \in Ids : th[i] # "idle" => calls[i] > 0
  /\ \A i \in Ids : th[i] = "push" => found[i] \in GenIds /\ found[i].i = i
  /\ at = "event" /\ ev = NET => inbox # <<>>
  /\ stop => \A i \in Ids : th[i] = "idle"
  /\ at \in {"stopped", "freed"} => stop

Types == TypeOK /\ Proper /\ HoldsWhileSending

\* What is known of the messages when one is sent.
LEMMA InboxGrows ==
  ASSUME inbox \in Seq(Messages), NEW m \in Messages, inbox' = Append(inbox, m)
  PROVE  /\ inbox' \in Seq(Messages) /\ Len(inbox) \in Nat /\ Len(inbox') = Len(inbox) + 1
         /\ \A k \in 1..Len(inbox) : inbox'[k] = inbox[k]
         /\ inbox'[Len(inbox) + 1] = m
         /\ \A T : At(T)' = At(T) \cup (IF m.type \in T THEN {Len(inbox) + 1} ELSE {})
<1>1. /\ inbox' \in Seq(Messages) /\ Len(inbox) \in Nat /\ Len(inbox') = Len(inbox) + 1
      /\ \A k \in 1..Len(inbox) : inbox'[k] = inbox[k]
      /\ inbox'[Len(inbox) + 1] = m
  BY AppendProperties, LenProperties
<1>2. 1..Len(inbox') = 1..Len(inbox) \cup {Len(inbox) + 1}
  BY <1>1
<1>3. ASSUME NEW T
      PROVE  At(T)' = At(T) \cup (IF m.type \in T THEN {Len(inbox) + 1} ELSE {})
  BY <1>1, <1>2 DEF At
<1> QED
  BY <1>1, <1>3

\* And when one is read.
LEMMA InboxShrinks ==
  ASSUME inbox \in Seq(Messages), inbox # <<>>, inbox' = Tail(inbox)
  PROVE  /\ inbox' \in Seq(Messages) /\ Len(inbox) \in Nat /\ Len(inbox) >= 1
         /\ Len(inbox') = Len(inbox) - 1
         /\ Head(inbox) = inbox[1] /\ Head(inbox) \in Messages
         /\ \A k \in 1..Len(inbox') : inbox'[k] = inbox[k + 1]
         /\ \A T, k : k \in At(T)' <=> k \in 1..Len(inbox') /\ k + 1 \in At(T)
<1>1. /\ inbox' \in Seq(Messages) /\ Len(inbox) \in Nat /\ Len(inbox) >= 1
      /\ Len(inbox') = Len(inbox) - 1
      /\ Head(inbox) = inbox[1] /\ Head(inbox) \in Messages
      /\ \A k \in 1..Len(inbox)-1 : inbox'[k] = inbox[k + 1]
  BY HeadTail
<1>2. ASSUME NEW T, NEW k
      PROVE  k \in At(T)' <=> k \in 1..Len(inbox') /\ k + 1 \in At(T)
  <2>1. k \in 1..Len(inbox') => k + 1 \in 1..Len(inbox)
    BY <1>1
  <2> QED
    BY <1>1, <2>1 DEF At
<1> QED
  BY <1>1, <1>2

\* The agent starts as it should.
LEMMA TypesInit == Init => Types
<1> SUFFICES ASSUME Init PROVE Types
  OBVIOUS
<1>1. TypeOK
  <2>1. /\ up \in BOOLEAN /\ unacked \in BOOLEAN /\ kept \in BOOLEAN /\ stop \in BOOLEAN
    BY DEF Init
  <2>5. /\ setup \in {"none", "asked", "answered", "again"}
        /\ next \in 1..MaxId+1 /\ lives \in 0..MaxRestarts
        /\ bytes \in Nat /\ expired \subseteq Nat
        /\ ev \in Nat /\ req \in GenIds \cup {NoId} /\ wanted \subseteq GenIds
    BY BoundsAssumption DEF Init
  <2>2. /\ subs \in [Ids -> [f : Funcs, st : {"asked", "held", "ending", "new"}] \cup {NoSub}]
        /\ th \in [Ids -> {"idle", "look", "push", "write"}]
        /\ calls \in [Ids -> 0..MaxCalls] /\ found \in [Ids -> GenIds \cup {NoId}]
    BY BoundsAssumption DEF Init
  <2>3. /\ inbox \in Seq(Messages) /\ table \in Seq([i : Ids, f : Funcs, fd : Nat])
        /\ pending \in Seq(Nat) /\ queue \in Seq(Items) /\ popped \in Seq(Items)
        /\ sent \in Seq(Items) /\ ready \in Seq(Nat)
    BY DEF Init, FirstTimer
  <2>4. at = "wait" /\ abort = "none"
    BY DEF Init
  <2> QED
    BY <2>1, <2>2, <2>3, <2>4, <2>5 DEF TypeOK, Messages
<1>2. Proper
  BY DEF Init, Proper, At, Busy
<1>3. HoldsWhileSending
  BY DEF Init, HoldsWhileSending
<1> QED
  BY <1>1, <1>2, <1>3 DEF Types
-----------------------------------------------------------------------------
(* Who writes what *)

\* Steps in which the loop reads a message.
Reads == SetupResponse \/ ConnectionShutdown \/ OnSubscription \/ DeleteRequest

\* Steps that concern the indications of the RAN.
Handles == TakeQueue \/ SendAperiodic \/ ReadPipe

\* The variables of the RIC.
LEMMA RicWriters ==
  ASSUME Next
  PROVE  /\ UNCHANGED up \/ RicStart \/ RicStop
         /\ UNCHANGED lives \/ RicStop
         /\ UNCHANGED setup \/ RicStop \/ RicAnswersSetup \/ ResendSetup
         /\ UNCHANGED next \/ RicStop \/ \E f \in Funcs : RicSubscribes(f)
         /\ \/ UNCHANGED subs \/ RicStop
            \/ \E f \in Funcs : RicSubscribes(f)
            \/ \E i \in Ids : RicDeletes(i)
            \/ RegisterSubscription \/ DeleteRequest \/ ExtractSubscription
         /\ \/ UNCHANGED kept \/ RicStop \/ FreeSubsAperiodic
            \/ \E fd \in TimerFds : TimerExpires(fd)
            \/ \E i \in Ids : LookUp(i)
<1>1. CASE RicStart \/ RicStop \/ RicAnswersSetup \/ SctpAck
  BY <1>1 DEF RicStart, RicAnswersSetup, SctpAck, ricVars
<1>2. CASE \E f \in Funcs : RicSubscribes(f)
  BY <1>2 DEF RicSubscribes
<1>3. CASE \E i \in Ids : RicDeletes(i) \/ EventHappens(i) \/ Ran(i)
  BY <1>3 DEF RicDeletes, EventHappens, Ran, LookUp, PushIndication, WritePipe, ricVars
<1>4. CASE \E fd \in TimerFds : TimerExpires(fd)
  BY <1>4 DEF TimerExpires
<1>5. CASE StopAgent \/ FreeAgent
  BY <1>5 DEF StopAgent, FreeAgent, ricVars
<1>6. CASE Loop
  BY <1>6 DEF Loop, EpollWait, SetupResponse, ConnectionShutdown, OnSubscription,
     RegisterSubscription, DeleteRequest, FreeSubsAperiodic, ExtractSubscription, TakeQueue,
     SendAperiodic, ReadPipe, ResendSetup, LoopEnds, PeriodicIndication, ricVars
<1> QED
  BY <1>1, <1>2, <1>3, <1>4, <1>5, <1>6 DEF Next

\* The messages, the tables and the timers of the agent.
LEMMA TableWriters ==
  ASSUME Next
  PROVE  /\ \/ UNCHANGED inbox \/ RicStop \/ RicAnswersSetup \/ Reads
            \/ \E f \in Funcs : RicSubscribes(f)
            \/ \E i \in Ids : RicDeletes(i)
         /\ UNCHANGED table \/ RegisterSubscription \/ ExtractSubscription \/ FreeAgent
         /\ UNCHANGED pending \/ SetupResponse \/ ConnectionShutdown \/ FreeAgent
         /\ \/ UNCHANGED expired \/ SetupResponse \/ ExtractSubscription \/ ResendSetup
            \/ \E e \in ToSet(table) : PeriodicIndication(e)
            \/ \E fd \in TimerFds : TimerExpires(fd)
<1>1. CASE RicStart \/ RicStop \/ RicAnswersSetup \/ SctpAck
  BY <1>1 DEF RicStart, RicAnswersSetup, RicStop, SctpAck
<1>2. CASE \E f \in Funcs : RicSubscribes(f)
  BY <1>2 DEF RicSubscribes
<1>3. CASE \E i \in Ids : RicDeletes(i) \/ EventHappens(i) \/ Ran(i)
  BY <1>3 DEF RicDeletes, EventHappens, Ran, LookUp, PushIndication, WritePipe
<1>4. CASE \E fd \in TimerFds : TimerExpires(fd)
  BY <1>4 DEF TimerExpires
<1>5. CASE StopAgent \/ FreeAgent
  BY <1>5 DEF StopAgent, FreeAgent
<1>6. CASE Loop
  BY <1>6 DEF Reads, Loop, EpollWait, SetupResponse, ConnectionShutdown, OnSubscription,
     RegisterSubscription, DeleteRequest, FreeSubsAperiodic, ExtractSubscription, TakeQueue,
     SendAperiodic, ReadPipe, ResendSetup, LoopEnds, PeriodicIndication
<1> QED
  BY <1>1, <1>2, <1>3, <1>4, <1>5, <1>6 DEF Next

\* The state of the event loop.
LEMMA LoopWriters ==
  ASSUME Next
  PROVE  /\ UNCHANGED at \/ Loop \/ FreeAgent
         /\ UNCHANGED ev \/ EpollWait
         /\ UNCHANGED req \/ OnSubscription \/ DeleteRequest
         /\ UNCHANGED stop \/ StopAgent
<1>1. CASE RicStart \/ RicStop \/ RicAnswersSetup \/ SctpAck
  BY <1>1 DEF RicStart, RicAnswersSetup, RicStop, SctpAck, loopVars
<1>2. CASE \E f \in Funcs : RicSubscribes(f)
  BY <1>2 DEF RicSubscribes, loopVars
<1>3. CASE \E i \in Ids : RicDeletes(i) \/ EventHappens(i) \/ Ran(i)
  BY <1>3 DEF RicDeletes, EventHappens, Ran, LookUp, PushIndication, WritePipe, loopVars
<1>4. CASE \E fd \in TimerFds : TimerExpires(fd)
  BY <1>4 DEF TimerExpires, loopVars
<1>5. CASE StopAgent \/ FreeAgent
  BY <1>5 DEF StopAgent, FreeAgent
<1>6. CASE Loop
  BY <1>6 DEF Loop, EpollWait, SetupResponse, ConnectionShutdown, OnSubscription,
     RegisterSubscription, DeleteRequest, FreeSubsAperiodic, ExtractSubscription, TakeQueue,
     SendAperiodic, ReadPipe, ResendSetup, LoopEnds, PeriodicIndication
<1> QED
  BY <1>1, <1>2, <1>3, <1>4, <1>5, <1>6 DEF Next

\* The RAN and its indications.
LEMMA RanWriters ==
  ASSUME Next
  PROVE  /\ UNCHANGED wanted \/ OnSubscription \/ FreeSubsAperiodic \/ StopAgent
         /\ UNCHANGED th \/ \E i \in Ids : EventHappens(i) \/ Ran(i)
         /\ UNCHANGED calls \/ \E i \in Ids : EventHappens(i)
         /\ UNCHANGED found \/ \E i \in Ids : LookUp(i)
         /\ UNCHANGED queue \/ TakeQueue \/ FreeAgent \/ \E i \in Ids : PushIndication(i)
         /\ UNCHANGED popped \/ TakeQueue \/ ReadPipe
         /\ UNCHANGED sent \/ SendAperiodic
         /\ UNCHANGED bytes \/ ReadPipe \/ \E i \in Ids : WritePipe(i)
<1>1. CASE RicStart \/ RicStop \/ RicAnswersSetup \/ SctpAck
  BY <1>1 DEF RicStart, RicAnswersSetup, RicStop, SctpAck, loopVars, ranVars
<1>2. CASE \E f \in Funcs : RicSubscribes(f)
  BY <1>2 DEF RicSubscribes, loopVars, ranVars
<1>3. CASE \E i \in Ids : RicDeletes(i) \/ EventHappens(i) \/ Ran(i)
  BY <1>3 DEF RicDeletes, EventHappens, Ran, LookUp, PushIndication, WritePipe, loopVars, ranVars
<1>4. CASE \E fd \in TimerFds : TimerExpires(fd)
  BY <1>4 DEF TimerExpires, loopVars, ranVars
<1>5. CASE StopAgent \/ FreeAgent
  BY <1>5 DEF StopAgent, FreeAgent, ranVars
<1>6. CASE Loop
  BY <1>6 DEF Loop, EpollWait, SetupResponse, ConnectionShutdown, OnSubscription,
     RegisterSubscription, DeleteRequest, FreeSubsAperiodic, ExtractSubscription, TakeQueue,
     SendAperiodic, ReadPipe, ResendSetup, LoopEnds, PeriodicIndication, ranVars
<1> QED
  BY <1>1, <1>2, <1>3, <1>4, <1>5, <1>6 DEF Next

\* Assertions, and nothing happens after one has failed.
LEMMA AbortWriters ==
  ASSUME Next
  PROVE  /\ Running
         /\ \/ UNCHANGED abort \/ SetupResponse \/ ExtractSubscription \/ TakeQueue
            \/ ReadPipe \/ ResendSetup \/ \E i \in Ids : LookUp(i)
<1>1. CASE RicStart \/ RicStop \/ RicAnswersSetup \/ SctpAck
  BY <1>1 DEF RicStart, RicAnswersSetup, RicStop, SctpAck
<1>2. CASE \E f \in Funcs : RicSubscribes(f)
  BY <1>2 DEF RicSubscribes
<1>3. CASE \E i \in Ids : RicDeletes(i) \/ EventHappens(i) \/ Ran(i)
  BY <1>3 DEF RicDeletes, EventHappens, Ran, LookUp, PushIndication, WritePipe
<1>4. CASE \E fd \in TimerFds : TimerExpires(fd)
  BY <1>4 DEF TimerExpires
<1>5. CASE StopAgent \/ FreeAgent
  BY <1>5 DEF StopAgent, FreeAgent
<1>6. CASE Loop
  BY <1>6 DEF Received, Loop, EpollWait, SetupResponse, ConnectionShutdown, OnSubscription,
     RegisterSubscription, DeleteRequest, FreeSubsAperiodic, ExtractSubscription, TakeQueue,
     SendAperiodic, ReadPipe, ResendSetup, LoopEnds, PeriodicIndication
<1> QED
  BY <1>1, <1>2, <1>3, <1>4, <1>5, <1>6 DEF Next

\* What the RIC has under the id of a request.
Known(id, st) == subs[id.i] = [f |-> id.f, st |-> st]

-----------------------------------------------------------------------------
(* Every step keeps the types *)

Subs == [f : Funcs, st : {"asked", "held", "ending", "new"}] \cup {NoSub}

\* The answer to a request changes what the RIC has under its id, if anything.
LEMMA Answered ==
  ASSUME up \in BOOLEAN, subs \in [Ids -> Subs], NEW id \in GenIds,
         NEW st \in {"asked", "ending"}, NEW s \in {"held", "new"}, AnswerSent(id, st, s)
  PROVE  /\ subs' \in [Ids -> Subs]
         /\ \A i \in Ids : i # id.i => subs'[i] = subs[i]
         /\ \/ subs'[id.i] = subs[id.i]
            \/ Known(id, st) /\ subs'[id.i] = [f |-> id.f, st |-> s]
         /\ up /\ Known(id, st) => subs'[id.i] = [f |-> id.f, st |-> s]
<1>1. id.i \in Ids /\ id.f \in Funcs
  BY DEF GenIds
<1>2. [f |-> id.f, st |-> s] \in Subs
  BY <1>1 DEF Subs
<1>3. CASE up /\ subs[id.i] = [f |-> id.f, st |-> st]
  <2>1. subs' = [subs EXCEPT ![id.i] = [f |-> id.f, st |-> s]]
    BY <1>3 DEF AnswerSent
  <2> QED
    BY <1>1, <1>2, <1>3, <2>1 DEF Known
<1>4. CASE ~(up /\ subs[id.i] = [f |-> id.f, st |-> st])
  <2>1. subs' = subs
    BY <1>4 DEF AnswerSent
  <2> QED
    BY <1>4, <2>1 DEF Known
<1> QED
  BY <1>3, <1>4

\* A message read is one that was sent, and is taken from the front.
LEMMA MessageRead ==
  ASSUME Types, NEW type, Received(type)
  PROVE  /\ inbox # <<>> /\ Running /\ at = "event" /\ ev = NET
         /\ Head(inbox) \in Messages /\ Head(inbox) = inbox[1] /\ inbox[1].type = type
         /\ inbox' = Tail(inbox) /\ inbox' \in Seq(Messages)
         /\ type \in {"sub", "del"} => Head(inbox).id \in GenIds
<1>1. inbox \in Seq(Messages) /\ inbox # <<>>
  BY DEF Types, TypeOK, Proper, Received, Messages
<1>2. /\ Head(inbox) \in Messages /\ Head(inbox) = inbox[1] /\ Tail(inbox) \in Seq(Messages)
      /\ Len(inbox) \in Nat /\ Len(inbox) >= 1
  BY <1>1, HeadTail
<1>3. inbox' = Tail(inbox) /\ Head(inbox).type = type /\ Running /\ at = "event" /\ ev = NET
  BY DEF Received
<1>4. type \in {"sub", "del"} => inbox[1].id \in GenIds
  BY <1>2, <1>3 DEF Types, Proper, At
<1> QED
  BY <1>1, <1>2, <1>3, <1>4

\* The state of the RIC.
LEMMA RicTypesStep ==
  ASSUME Types, Next
  PROVE  /\ up' \in BOOLEAN /\ setup' \in {"none", "asked", "answered", "again"}
         /\ lives' \in 0..MaxRestarts /\ next' \in 1..MaxId+1
<1>1. up \in BOOLEAN /\ setup \in {"none", "asked", "answered", "again"}
      /\ lives \in 0..MaxRestarts /\ next \in 1..MaxId+1
  BY DEF Types, TypeOK
<1>2. up' \in BOOLEAN
  BY <1>1, RicWriters DEF RicStart, RicStop
<1>3. lives' \in 0..MaxRestarts
  <2>1. CASE lives' = lives
    BY <1>1, <2>1
  <2>2. CASE RicStop
    BY <1>1, <2>2, BoundsAssumption DEF RicStop
  <2> QED
    BY <2>1, <2>2, RicWriters
<1>4. setup' \in {"none", "asked", "answered", "again"}
  BY <1>1, RicWriters DEF RicStop, RicAnswersSetup, ResendSetup, SetupRequestSent
<1>5. next' \in 1..MaxId+1
  <2>1. CASE next' = next
    BY <1>1, <2>1
  <2>2. CASE RicStop
    BY <2>2, BoundsAssumption DEF RicStop
  <2>3. CASE \E f \in Funcs : RicSubscribes(f)
    BY <1>1, <2>3, BoundsAssumption DEF RicSubscribes
  <2> QED
    BY <2>1, <2>2, <2>3, RicWriters
<1> QED
  BY <1>2, <1>3, <1>4, <1>5

\* What the RIC knows of its subscriptions.
LEMMA SubsTypesStep ==
  ASSUME Types, Next
  PROVE  subs' \in [Ids -> Subs]
<1>1. up \in BOOLEAN /\ subs \in [Ids -> Subs] /\ next \in 1..MaxId+1
  BY DEF Types, TypeOK, Subs
<1>2. CASE RicStop
  BY <1>2 DEF RicStop, Subs
<1>3. ASSUME NEW f \in Funcs, RicSubscribes(f) PROVE subs' \in [Ids -> Subs]
  <2>1. next \in Ids /\ [f |-> f, st |-> "asked"] \in Subs
    BY <1>1, <1>3, BoundsAssumption DEF RicSubscribes, Ids, Subs
  <2>2. subs' = [subs EXCEPT ![next] = [f |-> f, st |-> "asked"]]
    BY <1>3 DEF RicSubscribes
  <2> QED
    BY <1>1, <2>1, <2>2
<1>4. ASSUME NEW i \in Ids, RicDeletes(i) PROVE subs' \in [Ids -> Subs]
  <2>1. subs[i].st = "held" /\ subs' = [subs EXCEPT ![i] = [f |-> subs[i].f, st |-> "ending"]]
    BY <1>1, <1>4 DEF RicDeletes
  <2>2. [f |-> subs[i].f, st |-> "ending"] \in Subs
    BY <1>1, <2>1 DEF Subs, NoSub
  <2> QED
    BY <1>1, <2>1, <2>2
<1>5. CASE RegisterSubscription
  <2>1. req \in GenIds
    BY <1>5 DEF RegisterSubscription, Types, Proper, Busy
  <2> QED
    BY <1>1, <1>5, <2>1, Answered DEF RegisterSubscription
<1>6. CASE DeleteRequest
  <2>1. Head(inbox).id \in GenIds
    BY <1>6, MessageRead DEF DeleteRequest
  <2> QED
    BY <1>1, <1>6, <2>1, Answered DEF DeleteRequest
<1>7. CASE ExtractSubscription
  <2>1. req \in GenIds
    BY <1>7 DEF ExtractSubscription, Types, Proper, Busy
  <2> QED
    BY <1>1, <1>7, <2>1, Answered DEF ExtractSubscription
<1> QED
  BY <1>1, <1>2, <1>3, <1>4, <1>5, <1>6, <1>7, RicWriters

\* A subscription is asked for under the next request id, ...
LEMMA SubscriptionSent ==
  ASSUME Types, NEW f \in Funcs, RicSubscribes(f)
  PROVE  /\ next \in Ids /\ [i |-> next, f |-> f] \in GenIds
         /\ [type |-> "sub", id |-> [i |-> next, f |-> f]] \in Messages
         /\ inbox' = Append(inbox, [type |-> "sub", id |-> [i |-> next, f |-> f]])
<1>1. next \in Ids
  <2>1. next <= MaxId /\ next \in 1..MaxId+1
    BY DEF RicSubscribes, Types, TypeOK
  <2> QED
    BY <2>1, BoundsAssumption DEF Ids
<1>2. [i |-> next, f |-> f] \in GenIds
  BY <1>1 DEF GenIds
<1>3. [type |-> "sub", id |-> [i |-> next, f |-> f]] \in Messages
  <2> HIDE DEF GenIds
  <2> QED
    BY <1>2 DEF Messages
<1> QED
  BY <1>1, <1>2, <1>3 DEF RicSubscribes, ToAgent

\* ... and one that is held is deleted.
LEMMA DeletionSent ==
  ASSUME Types, NEW i \in Ids, RicDeletes(i)
  PROVE  /\ subs[i].st = "held" /\ [i |-> i, f |-> subs[i].f] \in GenIds
         /\ subs' = [subs EXCEPT ![i] = [f |-> subs[i].f, st |-> "ending"]]
         /\ [type |-> "del", id |-> [i |-> i, f |-> subs[i].f]] \in Messages
         /\ inbox' = Append(inbox, [type |-> "del", id |-> [i |-> i, f |-> subs[i].f]])
<1>1. subs[i].st = "held" /\ subs[i] \in Subs /\ subs \in [Ids -> Subs]
  BY DEF RicDeletes, Types, TypeOK, Subs
<1>2. [i |-> i, f |-> subs[i].f] \in GenIds
  BY <1>1 DEF GenIds, Subs, NoSub
<1>3. [type |-> "del", id |-> [i |-> i, f |-> subs[i].f]] \in Messages
  BY <1>2 DEF Messages
<1>4. subs' = [subs EXCEPT ![i] = [f |-> subs[i].f, st |-> "ending"]]
  BY <1>1 DEF RicDeletes
<1> QED
  BY <1>1, <1>2, <1>3, <1>4 DEF RicDeletes, ToAgent

\* The messages on their way to the agent.
LEMMA InboxTypesStep ==
  ASSUME Types, Next
  PROVE  /\ inbox' \in Seq(Messages)
         /\ \A k \in At({"sub", "del"})' : inbox'[k].id \in GenIds
<1>1. inbox \in Seq(Messages) /\ \A k \in At({"sub", "del"}) : inbox[k].id \in GenIds
  BY DEF Types, TypeOK, Messages, Proper
<1>2. ASSUME NEW m \in Messages, inbox' = Append(inbox, m),
             m.type \in {"sub", "del"} => m.id \in GenIds
      PROVE  inbox' \in Seq(Messages) /\ \A k \in At({"sub", "del"})' : inbox'[k].id \in GenIds
  <2>1. /\ inbox' \in Seq(Messages)
        /\ \A k \in 1..Len(inbox) : inbox'[k] = inbox[k]
        /\ inbox'[Len(inbox) + 1] = m
        /\ At({"sub", "del"})' = At({"sub", "del"}) \cup
             (IF m.type \in {"sub", "del"} THEN {Len(inbox) + 1} ELSE {})
    BY <1>1, <1>2, InboxGrows
  <2> QED
    BY <1>1, <1>2, <2>1 DEF At
<1>3. CASE RicStop
  <2>1. [type |-> "shutdown", id |-> NoId] \in Messages
    BY DEF Messages
  <2> QED
    BY <1>2, <1>3, <2>1 DEF RicStop, ToAgent
<1>4. CASE RicAnswersSetup
  <2>1. [type |-> "setup", id |-> NoId] \in Messages
    BY DEF Messages
  <2> QED
    BY <1>2, <1>4, <2>1 DEF RicAnswersSetup, ToAgent
<1>5. CASE Reads
  <2>1. PICK type : Received(type)
    BY <1>5 DEF Reads, SetupResponse, ConnectionShutdown, OnSubscription, DeleteRequest
  <2>2. inbox # <<>> /\ inbox' = Tail(inbox)
    BY <2>1, MessageRead
  <2>3. /\ inbox' \in Seq(Messages)
        /\ \A k \in 1..Len(inbox') : inbox'[k] = inbox[k + 1]
        /\ \A k : k \in At({"sub", "del"})' <=> k \in 1..Len(inbox') /\ k + 1 \in At({"sub", "del"})
    BY <1>1, <2>2, InboxShrinks
  <2> QED
    BY <1>1, <2>3
<1>6. ASSUME NEW f \in Funcs, RicSubscribes(f)
      PROVE  inbox' \in Seq(Messages) /\ \A k \in At({"sub", "del"})' : inbox'[k].id \in GenIds
  <2> HIDE DEF GenIds
  <2> QED
    BY <1>2, <1>6, SubscriptionSent
<1>7. ASSUME NEW i \in Ids, RicDeletes(i)
      PROVE  inbox' \in Seq(Messages) /\ \A k \in At({"sub", "del"})' : inbox'[k].id \in GenIds
  BY <1>2, <1>7, DeletionSent
<1>8. CASE UNCHANGED inbox
  BY <1>1, <1>8 DEF At
<1> QED
  BY <1>3, <1>4, <1>5, <1>6, <1>7, <1>8, TableWriters
\* The tables, the timers and the ready list.
LEMMA TableTypesStep ==
  ASSUME Types, Next
  PROVE  /\ table' \in Seq(Entries) /\ pending' \in Seq(Nat) /\ expired' \subseteq Nat
         /\ ready' \in Seq(Nat)
<1>1. /\ table \in Seq(Entries) /\ pending \in Seq(Nat) /\ expired \subseteq Nat
      /\ ready \in Seq(Nat)
  BY DEF Types, TypeOK, Entries
<1>2. NewFd \in Nat /\ TimerFds \subseteq Nat
  BY <1>1, NewFdIsNew, TimersFinite DEF Entries
<1>3. table' \in Seq(Entries)
  <2>1. CASE RegisterSubscription
    <3>1. req \in GenIds
      BY <2>1 DEF RegisterSubscription, Types, Proper, Busy
    <3> DEFINE e == [i |-> req.i, f |-> req.f, fd |-> IF req.f \in Aperiodic THEN 0 ELSE NewFd]
    <3>2. e \in Entries
      BY <1>2, <3>1 DEF Entries, GenIds
    <3>3. table' = Append(table, e)
      BY <2>1 DEF RegisterSubscription
    <3> HIDE DEF e
    <3> QED
      BY <1>1, <3>2, <3>3
  <2>2. CASE ExtractSubscription
    <3>1. table' = table \/ \E k \in 1..Len(table) : table' = RemoveAt(table, k)
      BY <2>2 DEF ExtractSubscription, TopMost
    <3> QED
      BY <1>1, <3>1, Removed
  <2>3. CASE FreeAgent
    BY <2>3 DEF FreeAgent
  <2> QED
    BY <1>1, <2>1, <2>2, <2>3, TableWriters
<1>4. pending' \in Seq(Nat)
  <2>1. CASE SetupResponse
    <3>1. pending' = pending \/ (pending # <<>> /\ pending' = Tail(pending))
      BY <2>1 DEF SetupResponse
    <3> QED
      BY <1>1, <3>1, HeadTail
  <2>2. CASE ConnectionShutdown
    BY <1>1, <1>2, <2>2 DEF ConnectionShutdown
  <2>3. CASE FreeAgent
    BY <2>3 DEF FreeAgent
  <2> QED
    BY <1>1, <2>1, <2>2, <2>3, TableWriters
<1>5. expired' \subseteq Nat
  <2>1. CASE SetupResponse \/ ExtractSubscription \/ ResendSetup
    BY <1>1, <2>1 DEF SetupResponse, ExtractSubscription, ResendSetup
  <2>2. CASE \E e \in ToSet(table) : PeriodicIndication(e)
    BY <1>1, <2>2 DEF PeriodicIndication
  <2>3. CASE \E fd \in TimerFds : TimerExpires(fd)
    BY <1>1, <1>2, <2>3 DEF TimerExpires
  <2> QED
    BY <1>1, <2>1, <2>2, <2>3, TableWriters
<1>6. ready' \in Seq(Nat)
  <2>1. CASE SetupResponse \/ ExtractSubscription
    BY <1>1, <2>1, ClosedIsList DEF SetupResponse, ExtractSubscription
  <2>2. CASE EpollWait
    BY <1>1, <2>2, HeadTail DEF EpollWait
  <2>3. CASE RicStop \/ RicAnswersSetup \/ (\E f \in Funcs : RicSubscribes(f))
             \/ \E i \in Ids : RicDeletes(i)
    BY <1>1, <2>3, WakeIsList DEF RicStop, RicAnswersSetup, RicSubscribes, RicDeletes, ToAgent, NET
  <2>4. CASE SctpAck \/ \E i \in Ids : WritePipe(i)
    <3>1. ready' = Wake(ready, NET) \/ ready' = Wake(ready, PIPE)
      BY <2>4 DEF SctpAck, WritePipe
    <3> QED
      BY <1>1, <3>1, WakeIsList DEF NET, PIPE
  <2>5. CASE \E fd \in TimerFds : TimerExpires(fd)
    BY <1>1, <1>2, <2>5, WakeIsList DEF TimerExpires
  <2>6. CASE RicStart \/ StopAgent \/ FreeAgent
             \/ \E i \in Ids : EventHappens(i) \/ LookUp(i) \/ PushIndication(i)
    BY <1>1, <2>6 DEF RicStart, StopAgent, FreeAgent, EventHappens, LookUp, PushIndication
  <2>7. CASE Loop /\ ~SetupResponse /\ ~ExtractSubscription /\ ~EpollWait
    BY <1>1, <2>7 DEF Loop, ConnectionShutdown, OnSubscription,
       RegisterSubscription, DeleteRequest, FreeSubsAperiodic, TakeQueue,
       SendAperiodic, ReadPipe, ResendSetup, LoopEnds, PeriodicIndication
  <2> QED
    BY <2>1, <2>2, <2>3, <2>4, <2>5, <2>6, <2>7 DEF Next, Ran
<1> QED
  BY <1>3, <1>4, <1>5, <1>6

\* The indications.
LEMMA QueueTypesStep ==
  ASSUME Types, Next
  PROVE  queue' \in Seq(Items) /\ popped' \in Seq(Items) /\ sent' \in Seq(Items)
<1>1. queue \in Seq(Items) /\ popped \in Seq(Items) /\ sent \in Seq(Items)
  BY DEF Types, TypeOK
<1>2. ASSUME NEW i \in Ids, PushIndication(i) PROVE queue' \in Seq(Items)
  <2>1. th[i] = "push" /\ found[i] \in GenIds /\ calls[i] \in 0..MaxCalls /\ calls[i] > 0
    BY <1>2 DEF PushIndication, Types, TypeOK, Proper
  <2> DEFINE x == [i |-> i, f |-> found[i].f, n |-> calls[i]]
  <2>2. x \in Items
    BY <2>1, BoundsAssumption DEF Items, GenIds
  <2>3. queue' = Append(queue, x)
    BY <1>2 DEF PushIndication
  <2> HIDE DEF x
  <2> QED
    BY <1>1, <2>2, <2>3
<1>3. ASSUME TakeQueue PROVE queue' \in Seq(Items) /\ popped' \in Seq(Items)
  <2>1. queue' \in {queue, <<>>} /\ popped' \in {queue, popped}
    BY <1>3 DEF TakeQueue
  <2>2. <<>> \in Seq(Items)
    BY EmptySeq
  <2> QED
    BY <1>1, <2>1, <2>2
<1>4. ASSUME ReadPipe PROVE popped' \in Seq(Items)
  <2>1. popped # <<>> /\ popped' = Tail(popped)
    BY <1>4 DEF ReadPipe, Types, HoldsWhileSending
  <2> QED
    BY <1>1, <2>1, HeadTail
<1>5. ASSUME SendAperiodic PROVE sent' \in Seq(Items)
  <2>1. popped # <<>>
    BY <1>5 DEF SendAperiodic, Types, HoldsWhileSending
  <2>2. Head(popped) \in Items
    BY <1>1, <2>1, HeadTail
  <2>3. sent' = Append(sent, Head(popped)) \/ sent' = sent
    BY <1>5 DEF SendAperiodic
  <2> QED
    BY <1>1, <2>2, <2>3
<1>6. ASSUME FreeAgent PROVE queue' \in Seq(Items)
  BY <1>6 DEF FreeAgent
<1>7. queue' \in Seq(Items)
  BY <1>1, <1>2, <1>3, <1>6, RanWriters
<1>8. popped' \in Seq(Items)
  BY <1>1, <1>3, <1>4, RanWriters
<1>9. sent' \in Seq(Items)
  BY <1>1, <1>5, RanWriters
<1> QED
  BY <1>7, <1>8, <1>9
\* The event loop.
LEMMA LoopTypesStep ==
  ASSUME Types, Next
  PROVE  /\ at' \in {"wait", "event", "subscribe", "unsubscribe", "extract", "send", "read",
                     "stopped", "freed"}
         /\ ev' \in Nat /\ req' \in GenIds \cup {NoId} /\ stop' \in BOOLEAN
         /\ Busy' => req' \in GenIds
         /\ at' = "event" /\ ev' = NET => inbox' # <<>>
         /\ at' \in {"stopped", "freed"} => stop'
<1>1. /\ at \in {"wait", "event", "subscribe", "unsubscribe", "extract", "send", "read",
                 "stopped", "freed"}
      /\ ev \in Nat /\ req \in GenIds \cup {NoId} /\ stop \in BOOLEAN
      /\ Busy => req \in GenIds
      /\ at = "event" /\ ev = NET => inbox # <<>>
      /\ at \in {"stopped", "freed"} => stop
  BY DEF Types, TypeOK, Proper
<1>2. /\ at' \in {"wait", "event", "subscribe", "unsubscribe", "extract", "send", "read",
                  "stopped", "freed"}
      /\ Busy' => Busy \/ OnSubscription \/ DeleteRequest
      /\ at' = "event" => EpollWait \/ (at = "event" /\ ~Reads)
      /\ at' \in {"stopped", "freed"} => at \in {"stopped", "freed"} \/ LoopEnds
  <2>1. CASE at' = at
    <3>1. at = "event" => ~Reads
      BY <2>1 DEF Reads, Received, SetupResponse, ConnectionShutdown, OnSubscription, DeleteRequest
    <3> QED
      BY <1>1, <2>1, <3>1 DEF Busy
  <2>2. CASE FreeAgent
    BY <2>2 DEF FreeAgent, Busy
  <2>3. CASE Loop
    BY <1>1, <2>3 DEF Busy, Reads, Received, Loop, EpollWait, SetupResponse, ConnectionShutdown,
     OnSubscription, RegisterSubscription, DeleteRequest, FreeSubsAperiodic,
     ExtractSubscription, TakeQueue, SendAperiodic, ReadPipe, ResendSetup, LoopEnds,
     PeriodicIndication
  <2> QED
    BY <2>1, <2>2, <2>3, LoopWriters
<1>3. ev' \in Nat
  <2>1. CASE EpollWait
    <3>1. Head(ready) \in Nat
      BY <2>1, HeadTail DEF EpollWait, Types, TypeOK
    <3> QED
      BY <1>1, <2>1, <3>1 DEF EpollWait
  <2> QED
    BY <1>1, <2>1, LoopWriters
<1>4. /\ req' \in GenIds \cup {NoId}
      /\ OnSubscription \/ (DeleteRequest /\ Busy') => req' \in GenIds
  <2>1. CASE OnSubscription
    BY <2>1, MessageRead DEF OnSubscription
  <2>2. CASE DeleteRequest
    <3>1. Head(inbox).id \in GenIds
      BY <2>2, MessageRead DEF DeleteRequest
    <3>2. req' = Head(inbox).id \/ (req' = req /\ at' = "wait")
      BY <2>2 DEF DeleteRequest
    <3> QED
      BY <1>1, <2>2, <3>1, <3>2 DEF Busy, OnSubscription, DeleteRequest, Received
  <2> QED
    BY <1>1, <2>1, <2>2, LoopWriters
<1>5. Busy' => req' \in GenIds
  BY <1>1, <1>2, <1>4, LoopWriters
<1>6. stop' \in BOOLEAN /\ (stop => stop')
  BY <1>1, LoopWriters DEF StopAgent
<1>7. at' \in {"stopped", "freed"} => stop'
  BY <1>1, <1>2, <1>6 DEF LoopEnds
<1>8. at' = "event" /\ ev' = NET => inbox' # <<>>
  <2>1. ASSUME EpollWait, at' = "event", ev' = NET PROVE inbox # <<>> /\ inbox' = inbox
    <3>1. Readable(NET)
      BY <1>1, <2>1 DEF EpollWait, Types, TypeOK
    <3>2. NET # PIPE /\ ~(NET >= FirstTimer)
      BY DEF NET, PIPE, FirstTimer
    <3> QED
      BY <2>1, <3>1, <3>2 DEF Readable, EpollWait
  <2>2. ASSUME ~Reads, inbox # <<>> PROVE inbox' # <<>>
    <3>1. inbox \in Seq(Messages)
      BY DEF Types, TypeOK, Messages
    <3>2. inbox' = inbox \/ \E m : inbox' = Append(inbox, m)
      BY <2>2, TableWriters DEF RicStop, RicAnswersSetup, RicSubscribes, RicDeletes, ToAgent
    <3> QED
      BY <2>2, <3>1, <3>2
  <2>3. ev' = ev \/ EpollWait
    BY LoopWriters
  <2> QED
    BY <1>1, <1>2, <2>1, <2>2, <2>3
<1> QED
  BY <1>2, <1>3, <1>4, <1>5, <1>6, <1>7, <1>8

\* The threads of the RAN.
LEMMA RanTypesStep ==
  ASSUME Types, Next
  PROVE  /\ wanted' \subseteq GenIds /\ th' \in [Ids -> Calls]
         /\ calls' \in [Ids -> 0..MaxCalls] /\ found' \in [Ids -> GenIds \cup {NoId}]
         /\ \A i \in Ids : th'[i] # "idle" => calls'[i] > 0
         /\ \A i \in Ids : th'[i] = "push" => found'[i] \in GenIds /\ found'[i].i = i
         /\ stop' => \A i \in Ids : th'[i] = "idle"
<1>1. /\ wanted \subseteq GenIds /\ th \in [Ids -> Calls] /\ stop \in BOOLEAN
      /\ calls \in [Ids -> 0..MaxCalls] /\ found \in [Ids -> GenIds \cup {NoId}]
      /\ \A i \in Ids : th[i] # "idle" => calls[i] > 0
      /\ \A i \in Ids : th[i] = "push" => found[i] \in GenIds /\ found[i].i = i
      /\ stop => \A i \in Ids : th[i] = "idle"
  BY DEF Types, TypeOK, Proper, Calls
<1>2. wanted' \subseteq GenIds
  <2>1. CASE OnSubscription
    <3>1. Head(inbox).id \in GenIds
      BY <2>1, MessageRead DEF OnSubscription
    <3> QED
      BY <1>1, <2>1, <3>1 DEF OnSubscription
  <2> QED
    BY <1>1, <2>1, RanWriters DEF FreeSubsAperiodic, StopAgent
<1>3. ASSUME NEW i \in Ids, EventHappens(i)
      PROVE  /\ th' = [th EXCEPT ![i] = "look"] /\ calls' = [calls EXCEPT ![i] = calls[i] + 1]
             /\ calls' \in [Ids -> 0..MaxCalls] /\ UNCHANGED <<found, stop>> /\ ~stop
  BY <1>1, <1>3, BoundsAssumption DEF EventHappens, loopVars
<1>4. ASSUME NEW i \in Ids, LookUp(i)
      PROVE  /\ UNCHANGED <<calls, stop>> /\ th[i] = "look"
             /\ \/ UNCHANGED <<th, found>>
                \/ /\ th' = [th EXCEPT ![i] = "push"]
                   /\ \E s \in GenIds : s.i = i /\ found' = [found EXCEPT ![i] = s]
  <2>1. UNCHANGED <<calls, stop>> /\ th[i] = "look"
    BY <1>4 DEF LookUp, loopVars
  <2>2. Keys(table) \subseteq GenIds
    <3>1. table \in Seq(Entries)
      BY DEF Types, TypeOK, Entries
    <3>2. ToSet(table) \subseteq Entries
      BY <3>1, ElementOfSeq DEF ToSet
    <3> QED
      BY <3>2 DEF Keys, GenIds, Entries
  <2>3. CASE \E s \in Keys(table) : s.i = i
    <3>1. /\ found' \in {[found EXCEPT ![i] = s] : s \in {k \in Keys(table) : k.i = i}}
          /\ th' = [th EXCEPT ![i] = "push"]
      BY <1>4, <2>3 DEF LookUp
    <3> HIDE DEF GenIds
    <3> QED
      BY <2>1, <2>2, <3>1
  <2>4. CASE ~ \E s \in Keys(table) : s.i = i
    BY <1>4, <2>1, <2>4 DEF LookUp
  <2> QED
    BY <2>3, <2>4
<1>5. ASSUME NEW i \in Ids, PushIndication(i) \/ WritePipe(i)
      PROVE  /\ UNCHANGED <<calls, found, stop>> /\ th[i] # "idle"
             /\ th' = [th EXCEPT ![i] = "write"] \/ th' = [th EXCEPT ![i] = "idle"]
  BY <1>5 DEF PushIndication, WritePipe, loopVars
<1>6. CASE \E i \in Ids : EventHappens(i)
  BY <1>1, <1>2, <1>3, <1>6 DEF Calls
<1>7. CASE \E i \in Ids : LookUp(i)
  <2> PICK i \in Ids : LookUp(i)
    BY <1>7
  <2>1. CASE UNCHANGED <<th, found>>
    BY <1>1, <1>2, <1>4, <2>1
  <2>2. CASE /\ th' = [th EXCEPT ![i] = "push"]
             /\ \E s \in GenIds : s.i = i /\ found' = [found EXCEPT ![i] = s]
    <3> PICK s \in GenIds : s.i = i /\ found' = [found EXCEPT ![i] = s]
      BY <2>2
    <3> HIDE DEF GenIds
    <3>1. th' \in [Ids -> Calls] /\ found' \in [Ids -> GenIds \cup {NoId}] /\ calls' = calls
      BY <1>1, <1>4, <2>2 DEF Calls
    <3>2. \A j \in Ids : /\ th'[j] = IF j = i THEN "push" ELSE th[j]
                         /\ found'[j] = IF j = i THEN s ELSE found[j]
      BY <1>1, <2>2
    <3>3. ~stop /\ stop' = stop
      BY <1>1, <1>4
    <3> QED
      BY <1>1, <1>2, <1>4, <3>1, <3>2, <3>3
  <2> QED
    BY <1>4, <2>1, <2>2
<1>8. CASE \E i \in Ids : PushIndication(i) \/ WritePipe(i)
  BY <1>1, <1>2, <1>5, <1>8 DEF Calls
<1>9. CASE UNCHANGED <<th, calls, found>>
  <2>1. stop' => \A i \in Ids : th[i] = "idle"
    BY <1>1, LoopWriters DEF StopAgent
  <2> QED
    BY <1>1, <1>2, <1>9, <2>1
<1> QED
  BY <1>6, <1>7, <1>8, <1>9, RanWriters DEF Ran

\* Assertions and bytes.
LEMMA RestTypesStep ==
  ASSUME Types, Next
  PROVE  /\ bytes' \in Nat /\ unacked' \in BOOLEAN /\ kept' \in BOOLEAN
         /\ abort' \in {"none", "no pending request", "not one pending request",
                        "unknown event", "queue empty", "one byte", "keys differ",
                        "not found", "freed node"}
<1>1. bytes \in Nat /\ up \in BOOLEAN /\ unacked \in BOOLEAN /\ kept \in BOOLEAN
  BY DEF Types, TypeOK
<1>2. abort' \in {"none", "no pending request", "not one pending request",
                  "unknown event", "queue empty", "one byte", "keys differ",
                  "not found", "freed node"}
  <2>1. CASE UNCHANGED abort
    BY <2>1, AbortWriters DEF Running
  <2>2. CASE SetupResponse \/ ExtractSubscription \/ TakeQueue \/ ReadPipe \/ ResendSetup
    BY <2>2, AbortWriters DEF Running, SetupResponse, ExtractSubscription, TakeQueue, ReadPipe,
       ResendSetup
  <2>3. CASE \E i \in Ids : LookUp(i)
    BY <2>3 DEF LookUp
  <2> QED
    BY <2>1, <2>2, <2>3, AbortWriters
<1>3. bytes' \in Nat
  <2>1. ASSUME ReadPipe PROVE bytes' \in Nat
    <3>1. bytes' = IF bytes > 4 THEN bytes - 4 ELSE 0
      BY <2>1 DEF ReadPipe
    <3> QED
      BY <1>1, <3>1
  <2>2. ASSUME NEW i \in Ids, WritePipe(i) PROVE bytes' \in Nat
    <3>1. Digits[i] \in Nat
      BY DigitsAssumption DEF Ids
    <3> QED
      BY <1>1, <2>2, <3>1 DEF WritePipe
  <2> QED
    BY <1>1, <2>1, <2>2, RanWriters
<1>4. kept' \in BOOLEAN
  <2>1. CASE \E i \in Ids : LookUp(i)
    BY <1>1, <2>1 DEF LookUp
  <2>2. CASE RicStop \/ FreeSubsAperiodic \/ \E fd \in TimerFds : TimerExpires(fd)
    BY <1>1, <2>2 DEF RicStop, FreeSubsAperiodic, TimerExpires
  <2> QED
    BY <1>1, <2>1, <2>2, RicWriters
<1>5. unacked' \in BOOLEAN
  <2>1. CASE RicStart \/ RicStop \/ RicAnswersSetup \/ SctpAck \/ StopAgent \/ FreeAgent
    BY <1>1, <2>1 DEF RicStart, RicStop, RicAnswersSetup, SctpAck, StopAgent, FreeAgent
  <2>2. CASE \E f \in Funcs : RicSubscribes(f)
    BY <1>1, <2>2 DEF RicSubscribes
  <2>3. CASE \E i \in Ids : RicDeletes(i) \/ EventHappens(i) \/ Ran(i)
    BY <1>1, <2>3 DEF RicDeletes, EventHappens, Ran, LookUp, PushIndication, WritePipe
  <2>4. CASE \E fd \in TimerFds : TimerExpires(fd)
    BY <1>1, <2>4 DEF TimerExpires
  <2>5. CASE Loop
    BY <1>1, <2>5 DEF Loop, EpollWait, SetupResponse, ConnectionShutdown, OnSubscription,
       RegisterSubscription, DeleteRequest, FreeSubsAperiodic, ExtractSubscription, TakeQueue,
       SendAperiodic, ReadPipe, ResendSetup, LoopEnds, PeriodicIndication, AnswerSent,
       SetupRequestSent
  <2> QED
    BY <2>1, <2>2, <2>3, <2>4, <2>5 DEF Next
<1> QED
  BY <1>2, <1>3, <1>4, <1>5
\* The loop holds indications exactly while it sends them and reads the pipe.
LEMMA HoldsStep ==
  ASSUME Types, Next
  PROVE  HoldsWhileSending'
<1>1. (popped # <<>>) <=> at \in {"send", "read"}
  BY DEF Types, HoldsWhileSending
<1>2. CASE TakeQueue
  BY <1>1, <1>2 DEF TakeQueue, HoldsWhileSending
<1>3. CASE ReadPipe
  BY <1>1, <1>3 DEF ReadPipe, HoldsWhileSending
<1>4. CASE UNCHANGED popped /\ at' = at
  BY <1>1, <1>4 DEF HoldsWhileSending
<1>5. CASE UNCHANGED popped /\ FreeAgent
  BY <1>1, <1>5 DEF FreeAgent, HoldsWhileSending
<1>6. CASE UNCHANGED popped /\ Loop /\ ~TakeQueue /\ ~ReadPipe
  <2>1. at' \in {"send", "read"} <=> at \in {"send", "read"}
    BY <1>6 DEF Received, Loop, EpollWait, SetupResponse, ConnectionShutdown,
     OnSubscription, RegisterSubscription, DeleteRequest, FreeSubsAperiodic,
     ExtractSubscription, SendAperiodic, ResendSetup, LoopEnds, PeriodicIndication
  <2> QED
    BY <1>1, <1>6, <2>1 DEF HoldsWhileSending
<1> QED
  BY <1>2, <1>3, <1>4, <1>5, <1>6, RanWriters, LoopWriters

\* Every step keeps the types.
LEMMA TypesStep ==
  ASSUME Types, [Next]_vars
  PROVE  Types'
<1>1. CASE Next
  <2>1. TypeOK'
    BY <1>1, RicTypesStep, SubsTypesStep, InboxTypesStep, TableTypesStep, QueueTypesStep,
       LoopTypesStep, RanTypesStep, RestTypesStep
    DEF TypeOK, Subs, Messages, Entries, Calls
  <2>2. Proper'
    BY <1>1, InboxTypesStep, LoopTypesStep, RanTypesStep DEF Proper
  <2> QED
    BY <1>1, <2>1, <2>2, HoldsStep DEF Types
<1>2. CASE UNCHANGED vars
  <2>1. TypeOK'
    <3>1. TypeOK /\ UNCHANGED <<ricVars, inbox, table, pending, queue, bytes, ready, expired,
                                unacked, loopVars, ranVars, sent, abort>>
      BY <1>2 DEF Types, vars
    <3>2. /\ UNCHANGED <<up, setup, subs, next, lives, kept, at, ev, req, popped, stop>>
          /\ UNCHANGED <<wanted, th, calls, found>>
      BY <3>1 DEF ricVars, loopVars, ranVars
    <3>3. /\ up' \in BOOLEAN /\ setup' \in {"none", "asked", "answered", "again"}
          /\ lives' \in 0..MaxRestarts /\ next' \in 1..MaxId+1 /\ subs' \in [Ids -> Subs]
      BY <3>1, <3>2 DEF TypeOK, Subs
    <3>4. /\ inbox' \in Seq(Messages) /\ table' \in Seq(Entries) /\ pending' \in Seq(Nat)
          /\ expired' \subseteq Nat /\ ready' \in Seq(Nat)
          /\ queue' \in Seq(Items) /\ popped' \in Seq(Items) /\ sent' \in Seq(Items)
      BY <3>1, <3>2 DEF TypeOK, Messages, Entries
    <3>5. /\ at' \in {"wait", "event", "subscribe", "unsubscribe", "extract", "send", "read",
                     "stopped", "freed"}
          /\ ev' \in Nat /\ req' \in GenIds \cup {NoId} /\ stop' \in BOOLEAN
      BY <3>1, <3>2 DEF TypeOK
    <3>6. /\ wanted' \subseteq GenIds /\ th' \in [Ids -> Calls]
          /\ calls' \in [Ids -> 0..MaxCalls] /\ found' \in [Ids -> GenIds \cup {NoId}]
      BY <3>1, <3>2 DEF TypeOK, Calls
    <3>7. /\ bytes' \in Nat /\ unacked' \in BOOLEAN /\ kept' \in BOOLEAN
          /\ abort' \in {"none", "no pending request", "not one pending request",
                         "unknown event", "queue empty", "one byte", "keys differ",
                         "not found", "freed node"}
      BY <3>1, <3>2 DEF TypeOK
    <3> QED
      BY <3>3, <3>4, <3>5, <3>6, <3>7 DEF TypeOK, Subs, Messages, Entries, Calls
  <2>2. Proper'
    BY <1>2 DEF Types, Proper, Busy, At, vars, ricVars, loopVars, ranVars
  <2>3. HoldsWhileSending'
    BY <1>2 DEF Types, HoldsWhileSending, vars, loopVars
  <2> QED
    BY <2>1, <2>2, <2>3 DEF Types
<1> QED
  BY <1>1, <1>2

\* Messages, tables, queues and threads of the agent have their types, whatever the RIC
\* and the RAN do (e2_agent.c).
THEOREM TypeCorrect == Spec => []TypeOK
<1>1. Init => Types
  BY TypesInit
<1>2. Types /\ [Next]_vars => Types'
  BY TypesStep
<1>3. Types => TypeOK
  BY DEF Types
<1> QED
  BY <1>1, <1>2, <1>3, PTL DEF Spec
-----------------------------------------------------------------------------
(* Timers *)

\* Nothing is freed while the loop runs.
Alive == at # "freed"

\* Every open timer has its number.
Numbered ==
  /\ \A k \in 1..Len(table) : table[k].fd = 0 \/ table[k].fd >= FirstTimer
  /\ \A k, l \in 1..Len(table) : table[k].fd = table[l].fd /\ table[k].fd # 0 => k = l
  /\ \A k \in 1..Len(pending) : pending[k] >= FirstTimer
  /\ \A k, l \in 1..Len(pending) : pending[k] = pending[l] => k = l
  /\ \A k \in 1..Len(table), l \in 1..Len(pending) : table[k].fd # pending[l]

\* A timer that has expired is open, and so is the one whose event the loop handles.
Timers ==
  Alive =>
    /\ Numbered
    /\ expired \subseteq TimerFds
    /\ at = "event" /\ ev \notin {NET, PIPE} => ev \in expired

\* The descriptors of the timers are those of the two lists.
LEMMA TimerFdsOf ==
  ASSUME NEW t \in Seq(Entries), NEW p \in Seq(Nat)
  PROVE  \A fd : fd \in {d \in ToSet(p) \cup {e.fd : e \in ToSet(t)} : d >= FirstTimer} <=>
           /\ fd \in Nat /\ fd >= FirstTimer
           /\ \/ \E k \in 1..Len(p) : p[k] = fd
              \/ \E k \in 1..Len(t) : t[k].fd = fd
<1>1. DOMAIN p = 1..Len(p) /\ DOMAIN t = 1..Len(t)
  BY LenProperties
<1>2. (\A k \in 1..Len(p) : p[k] \in Nat) /\ \A k \in 1..Len(t) : t[k].fd \in Nat
  <2>1. \A k \in 1..Len(t) : t[k] \in Entries
    BY ElementOfSeq
  <2> QED
    BY <2>1, ElementOfSeq DEF Entries
<1> QED
  BY <1>1, <1>2 DEF ToSet

\* So they are in every state of the agent and in the next.
LEMMA TimerFdsAre ==
  ASSUME Types
  PROVE  \A fd : fd \in TimerFds <=>
           /\ fd \in Nat /\ fd >= FirstTimer
           /\ \/ \E k \in 1..Len(pending) : pending[k] = fd
              \/ \E k \in 1..Len(table) : table[k].fd = fd
<1>1. table \in Seq(Entries) /\ pending \in Seq(Nat)
  BY DEF Types, TypeOK, Entries
<1> QED
  BY <1>1, TimerFdsOf DEF TimerFds

\* The last free steps leave the loop ended.
LEMMA AliveBefore ==
  ASSUME Types, Next, Alive'
  PROVE  Alive /\ ~FreeAgent
<1>1. ~FreeAgent
  BY DEF FreeAgent, Alive
<1>2. ASSUME at = "freed", Loop PROVE FALSE
  BY <1>2 DEF Received, Loop, EpollWait, SetupResponse, ConnectionShutdown,
     OnSubscription, RegisterSubscription, DeleteRequest, FreeSubsAperiodic, TakeQueue,
     ExtractSubscription, SendAperiodic, ReadPipe, ResendSetup, LoopEnds, PeriodicIndication,
     NET, PIPE
<1> QED
  BY <1>1, <1>2, LoopWriters DEF Alive

\* The loop is woken by an expired timer, and nobody else takes the expiration.
LEMMA WokenByExpired ==
  ASSUME Types, Timers, Next, Alive'
  PROVE  at' = "event" /\ ev' \notin {NET, PIPE} => ev' \in expired'
<1> SUFFICES ASSUME at' = "event", ev' \notin {NET, PIPE} PROVE ev' \in expired'
  OBVIOUS
<1>1. Alive
  BY AliveBefore
<1>2. CASE EpollWait
  <2>1. at # "event"
    BY <1>2 DEF EpollWait
  <2>2. Readable(ev') /\ expired' = expired
    BY <1>2, <2>1 DEF EpollWait
  <2> QED
    BY <2>2 DEF Readable
<1>3. CASE ~EpollWait
  <2>1. at = "event" /\ ev' = ev
    <3>1. CASE Loop
      BY <1>3, <3>1, LoopWriters DEF Received, Loop, SetupResponse, ConnectionShutdown,
       OnSubscription, RegisterSubscription, DeleteRequest, FreeSubsAperiodic, TakeQueue,
       ExtractSubscription, SendAperiodic, ReadPipe, ResendSetup, LoopEnds, PeriodicIndication
    <3> QED
      BY <1>3, <3>1, LoopWriters, AliveBefore
  <2>2. ev \in expired
    BY <1>1, <2>1 DEF Timers
  <2>3. CASE SetupResponse \/ ExtractSubscription \/ ResendSetup
             \/ \E e \in ToSet(table) : PeriodicIndication(e)
    BY <2>1, <2>3 DEF SetupResponse, ExtractSubscription, ResendSetup, PeriodicIndication
  <2>4. CASE \E fd \in TimerFds : TimerExpires(fd)
    BY <2>1, <2>2, <2>4 DEF TimerExpires
  <2> QED
    BY <2>1, <2>2, <2>3, <2>4, TableWriters
<1> QED
  BY <1>2, <1>3

\* A timer is opened for a subscription or a lost association, or one is closed.
LEMMA NumberedStep ==
  ASSUME Types, Numbered, Next
  PROVE  Numbered'
<1>1. table \in Seq(Entries) /\ pending \in Seq(Nat)
  BY DEF Types, TypeOK, Entries
<1>2. /\ Len(table) \in Nat /\ Len(pending) \in Nat
      /\ \A k \in 1..Len(table) : table[k].fd \in Nat
      /\ \A k \in 1..Len(pending) : pending[k] \in Nat
  <2>1. \A k \in 1..Len(table) : table[k] \in Entries
    BY <1>1, ElementOfSeq
  <2>2. \A k \in 1..Len(pending) : pending[k] \in Nat
    BY <1>1, ElementOfSeq
  <2> QED
    BY <1>1, <2>1, <2>2, LenProperties DEF Entries
<1>3. NewFd \in Nat /\ NewFd >= FirstTimer /\ NewFd \notin TimerFds
  BY <1>1, NewFdIsNew DEF Entries
<1>4. /\ \A k \in 1..Len(table) : table[k].fd # NewFd
      /\ \A k \in 1..Len(pending) : pending[k] # NewFd
  BY <1>2, <1>3, TimerFdsAre
<1>5. CASE RegisterSubscription
  <2>1. PICK e : table' = Append(table, e) /\ e.fd \in {0, NewFd}
    BY <1>5 DEF RegisterSubscription
  <2>2. /\ Len(table') = Len(table) + 1 /\ table'[Len(table) + 1] = e
        /\ \A k \in 1..Len(table) : table'[k] = table[k]
    BY <1>1, <2>1
  <2>3. pending' = pending
    BY <1>5 DEF RegisterSubscription
  <2>4. \A k \in 1..Len(table') : k \in 1..Len(table) \/ k = Len(table) + 1
    BY <1>2, <2>2
  <2>5. \A k \in 1..Len(pending) : pending[k] # 0
    BY <1>2 DEF Numbered, FirstTimer
  <2>6. \A k \in 1..Len(table') : table'[k].fd = 0 \/ table'[k].fd >= FirstTimer
    BY <1>3, <2>1, <2>2, <2>4 DEF Numbered
  <2>7. ASSUME NEW k \in 1..Len(table'), NEW l \in 1..Len(table'),
               table'[k].fd = table'[l].fd, table'[k].fd # 0
        PROVE  k = l
    <3>1. CASE k \in 1..Len(table) /\ l \in 1..Len(table)
      BY <2>2, <2>7, <3>1 DEF Numbered
    <3>2. CASE k \in 1..Len(table) /\ l = Len(table) + 1
      BY <1>4, <2>1, <2>2, <2>7, <3>2
    <3>3. CASE k = Len(table) + 1 /\ l \in 1..Len(table)
      BY <1>4, <2>1, <2>2, <2>7, <3>3
    <3> QED
      BY <2>4, <3>1, <3>2, <3>3
  <2>8. \A k \in 1..Len(table'), l \in 1..Len(pending) : table'[k].fd # pending[l]
    BY <1>4, <2>1, <2>2, <2>4, <2>5 DEF Numbered
  <2> QED
    BY <2>3, <2>6, <2>7, <2>8 DEF Numbered
<1>6. CASE ConnectionShutdown
  <2>1. pending' = Append(pending, NewFd) /\ table' = table
    BY <1>6 DEF ConnectionShutdown
  <2>2. /\ Len(pending') = Len(pending) + 1 /\ pending'[Len(pending) + 1] = NewFd
        /\ \A k \in 1..Len(pending) : pending'[k] = pending[k]
    BY <1>1, <1>3, <2>1
  <2>3. \A k \in 1..Len(pending') : k \in 1..Len(pending) \/ k = Len(pending) + 1
    BY <1>2, <2>2
  <2> QED
    BY <1>2, <1>3, <1>4, <2>1, <2>2, <2>3 DEF Numbered
<1>7. CASE ExtractSubscription
  <2>1. CASE table' = table
    BY <1>7, <2>1 DEF ExtractSubscription, Numbered
  <2>2. CASE \E k \in 1..Len(table) : table' = RemoveAt(table, k)
    <3>1. PICK k \in 1..Len(table) : table' = RemoveAt(table, k)
      BY <2>2
    <3>2. /\ Len(table') = Len(table) - 1
          /\ \A j \in 1..Len(table)-1 : table'[j] = IF j < k THEN table[j] ELSE table[j + 1]
      BY <1>1, <3>1, Removed
    <3> DEFINE old(j) == IF j < k THEN j ELSE j + 1
    <3>3. /\ \A j \in 1..Len(table') : old(j) \in 1..Len(table) /\ table'[j] = table[old(j)]
          /\ \A j, l \in 1..Len(table') : old(j) = old(l) => j = l
      BY <1>2, <3>2
    <3>4. pending' = pending
      BY <1>7 DEF ExtractSubscription
    <3> HIDE DEF old
    <3>5. ASSUME NEW j \in 1..Len(table')
          PROVE  /\ table'[j].fd = 0 \/ table'[j].fd >= FirstTimer
                 /\ \A l \in 1..Len(pending) : table'[j].fd # pending[l]
      <4>1. old(j) \in 1..Len(table) /\ table'[j] = table[old(j)]
        BY <3>3
      <4>2. table[old(j)].fd = 0 \/ table[old(j)].fd >= FirstTimer
        BY <4>1 DEF Numbered
      <4>3. \A l \in 1..Len(pending) : table[old(j)].fd # pending[l]
        BY <4>1 DEF Numbered
      <4> QED
        BY <4>1, <4>2, <4>3
    <3>6. ASSUME NEW j \in 1..Len(table'), NEW l \in 1..Len(table'),
                 table'[j].fd = table'[l].fd, table'[j].fd # 0
          PROVE  j = l
      <4>1. table[old(j)].fd = table[old(l)].fd /\ table[old(j)].fd # 0
        BY <3>3, <3>6
      <4>2. old(j) = old(l)
        BY <3>3, <4>1 DEF Numbered
      <4> QED
        BY <3>3, <4>2
    <3> QED
      BY <3>4, <3>5, <3>6 DEF Numbered
  <2> QED
    BY <1>7, <2>1, <2>2 DEF ExtractSubscription, TopMost
<1>8. CASE SetupResponse
  <2>0. table' = table
    BY <1>8 DEF SetupResponse
  <2>1. CASE pending = <<>>
    <3>1. pending' = pending
      BY <1>8, <2>1 DEF SetupResponse
    <3> QED
      BY <2>0, <3>1 DEF Numbered
  <2>2. CASE pending # <<>>
    <3>0. pending' = Tail(pending)
      BY <1>8, <2>2 DEF SetupResponse
    <3>1. /\ Len(pending') = Len(pending) - 1 /\ table' = table
          /\ \A k \in 1..Len(pending)-1 : pending'[k] = pending[k + 1]
      BY <1>1, <2>0, <2>2, <3>0, HeadTail
    <3>2. \A k \in 1..Len(pending') : k + 1 \in 1..Len(pending) /\ pending'[k] = pending[k + 1]
      BY <1>2, <3>1
    <3>3. /\ \A k \in 1..Len(table) : table[k].fd = 0 \/ table[k].fd >= FirstTimer
          /\ \A k, l \in 1..Len(table) : table[k].fd = table[l].fd /\ table[k].fd # 0 => k = l
      BY DEF Numbered
    <3>4. \A k \in 1..Len(pending') : pending'[k] >= FirstTimer
      BY <3>2 DEF Numbered
    <3>5. ASSUME NEW k \in 1..Len(pending'), NEW l \in 1..Len(pending'), pending'[k] = pending'[l]
          PROVE  k = l
      <4>1. k + 1 = l + 1
        BY <3>2, <3>5 DEF Numbered
      <4> QED
        BY <4>1
    <3>6. \A k \in 1..Len(table), l \in 1..Len(pending') : table[k].fd # pending'[l]
      BY <3>2 DEF Numbered
    <3> QED
      BY <3>1, <3>3, <3>4, <3>5, <3>6 DEF Numbered
  <2> QED
    BY <2>1, <2>2
<1>9. CASE FreeAgent
  BY <1>9 DEF FreeAgent, Numbered
<1>10. CASE UNCHANGED <<table, pending>>
  BY <1>10 DEF Numbered
<1> QED
  BY <1>5, <1>6, <1>7, <1>8, <1>9, <1>10, TableWriters

\* A timer that is closed takes its expiration with it.
LEMMA ExpiredStep ==
  ASSUME Types, Numbered, expired \subseteq TimerFds, Next, ~FreeAgent
  PROVE  expired' \subseteq TimerFds'
<1>1. table \in Seq(Entries) /\ pending \in Seq(Nat)
  BY DEF Types, TypeOK, Entries
<1>2. Len(table) \in Nat /\ Len(pending) \in Nat
  BY <1>1, LenProperties
<1>4. \A fd : fd \in TimerFds' <=>
        /\ fd \in Nat /\ fd >= FirstTimer
        /\ \/ \E k \in 1..Len(pending') : pending'[k] = fd
           \/ \E k \in 1..Len(table') : table'[k].fd = fd
  <2>1. table' \in Seq(Entries) /\ pending' \in Seq(Nat)
    BY TableTypesStep
  <2> QED
    BY <2>1, TimerFdsOf DEF TimerFds
<1>5. CASE RegisterSubscription
  <2>1. PICK e : table' = Append(table, e)
    BY <1>5 DEF RegisterSubscription
  <2>2. \A k \in 1..Len(table) : k \in 1..Len(table') /\ table'[k] = table[k]
    BY <1>1, <1>2, <2>1
  <2>3. pending' = pending /\ expired' = expired
    BY <1>5 DEF RegisterSubscription
  <2> QED
    BY <1>4, <2>2, <2>3, TimerFdsAre
<1>6. CASE ConnectionShutdown
  <2>1. pending' = Append(pending, NewFd) /\ table' = table /\ expired' = expired
    BY <1>6 DEF ConnectionShutdown
  <2>2. \A k \in 1..Len(pending) : k \in 1..Len(pending') /\ pending'[k] = pending[k]
    BY <1>1, <1>2, <2>1
  <2> QED
    BY <1>4, <2>1, <2>2, TimerFdsAre
<1>7. CASE ExtractSubscription
  <2>1. CASE table' = table /\ expired' = expired
    <3>1. TimerFds' = TimerFds
      BY <1>7, <2>1 DEF ExtractSubscription, TimerFds
    <3> QED
      BY <2>1, <3>1
  <2>2. CASE \E k \in 1..Len(table) : /\ table' = RemoveAt(table, k)
                                      /\ expired' = expired \ {table[k].fd}
    <3>1. PICK k \in 1..Len(table) : /\ table' = RemoveAt(table, k)
                                     /\ expired' = expired \ {table[k].fd}
      BY <2>2
    <3>2. /\ Len(table') = Len(table) - 1
          /\ \A j \in 1..Len(table)-1 : table'[j] = IF j < k THEN table[j] ELSE table[j + 1]
      BY <1>1, <3>1, Removed
    <3>3. \A j \in 1..Len(table) : j # k =>
            \E l \in 1..Len(table') : table'[l] = table[j]
      <4>1. ASSUME NEW j \in 1..Len(table), j < k
            PROVE  j \in 1..Len(table)-1 /\ table'[j] = table[j]
        BY <1>2, <3>2, <4>1
      <4>2. ASSUME NEW j \in 1..Len(table), j > k
            PROVE  j - 1 \in 1..Len(table)-1 /\ table'[j - 1] = table[j]
        <5>1. j - 1 \in 1..Len(table)-1 /\ ~(j - 1 < k) /\ (j - 1) + 1 = j
          BY <1>2, <4>2
        <5> QED
          BY <3>2, <5>1
      <4> QED
        BY <3>2, <4>1, <4>2
    <3>4. pending' = pending
      BY <1>7 DEF ExtractSubscription
    <3> QED
      BY <1>4, <3>1, <3>3, <3>4, TimerFdsAre
  <2> QED
    BY <1>7, <2>1, <2>2 DEF ExtractSubscription, TopMost
<1>8. CASE SetupResponse
  <2>1. CASE pending = <<>>
    <3>1. UNCHANGED <<table, pending, expired>>
      BY <1>8, <2>1 DEF SetupResponse
    <3> QED
      BY <3>1 DEF TimerFds
  <2>2. CASE pending # <<>>
    <3>0. pending' = Tail(pending) /\ expired' = expired \ {Head(pending)} /\ table' = table
      BY <1>8, <2>2 DEF SetupResponse
    <3>1. /\ Len(pending') = Len(pending) - 1
          /\ \A k \in 1..Len(pending)-1 : pending'[k] = pending[k + 1]
          /\ expired' = expired \ {pending[1]}
      BY <1>1, <2>2, <3>0, HeadTail
    <3>2. \A j \in 1..Len(pending) : j # 1 =>
            \E l \in 1..Len(pending') : pending'[l] = pending[j]
      <4>1. ASSUME NEW j \in 1..Len(pending), j # 1
            PROVE  j - 1 \in 1..Len(pending)-1 /\ pending'[j - 1] = pending[j]
        <5>1. j - 1 \in 1..Len(pending)-1 /\ (j - 1) + 1 = j
          BY <1>2, <4>1
        <5> QED
          BY <3>1, <5>1
      <4> QED
        BY <3>1, <4>1
    <3> QED
      <4>1. ASSUME NEW fd \in expired' PROVE fd \in TimerFds'
        <5>1. fd \in TimerFds /\ fd # pending[1]
          BY <3>1
        <5>2. CASE \E k \in 1..Len(table) : table[k].fd = fd
          BY <1>4, <3>0, <5>1, <5>2, TimerFdsAre
        <5>3. CASE \E k \in 1..Len(pending) : pending[k] = fd
          BY <1>4, <3>2, <5>1, <5>3, TimerFdsAre
        <5> QED
          BY <5>1, <5>2, <5>3, TimerFdsAre
      <4> QED
        BY <4>1
  <2> QED
    BY <2>1, <2>2
<1>9. CASE UNCHANGED <<table, pending>>
  <2>1. TimerFds' = TimerFds
    BY <1>9 DEF TimerFds
  <2>2. CASE SetupResponse \/ ExtractSubscription \/ ResendSetup
             \/ \E e \in ToSet(table) : PeriodicIndication(e)
    BY <2>1, <2>2 DEF SetupResponse, ExtractSubscription, ResendSetup, PeriodicIndication
  <2>3. CASE \E fd \in TimerFds : TimerExpires(fd)
    BY <2>1, <2>3 DEF TimerExpires
  <2> QED
    BY <2>1, <2>2, <2>3, TableWriters
<1> QED
  BY <1>5, <1>6, <1>7, <1>8, <1>9, TableWriters

\* The agent starts with one timer.
LEMMA TimersInit == Init => Timers
<1> SUFFICES ASSUME Init PROVE Timers
  OBVIOUS
<1>1. table = <<>> /\ pending = <<FirstTimer>> /\ expired = {} /\ at = "wait"
  BY DEF Init
<1>2. Len(pending) = 1 /\ pending[1] = 3 /\ Len(table) = 0
  BY <1>1 DEF FirstTimer
<1>3. Numbered
  BY <1>2 DEF Numbered, FirstTimer
<1> QED
  BY <1>1, <1>3 DEF Timers

\* Timers stay what they are.
LEMMA TimersStep ==
  ASSUME Types, Timers, Next
  PROVE  Timers'
<1> SUFFICES ASSUME Alive' PROVE /\ Numbered' /\ expired' \subseteq TimerFds'
                                 /\ at' = "event" /\ ev' \notin {NET, PIPE} => ev' \in expired'
  BY DEF Timers
<1>1. Alive /\ ~FreeAgent
  BY AliveBefore
<1> QED
  BY <1>1, NumberedStep, ExpiredStep, WokenByExpired DEF Timers
-----------------------------------------------------------------------------
(* The lives of the RIC *)

\* Is the RIC lost behind position k?
LossAfter(k) == \E m \in At({"shutdown"}) : m > k

\* Answers to set-up requests and losses of the association take turns, starting with
\* an answer if a timer runs.
SetupTurns ==
  /\ ~up => setup = "none"
  /\ \A k, l \in At({"setup"}) : k < l => \E m \in At({"shutdown"}) : k < m /\ m < l
  /\ Alive /\ pending = <<>> =>
       \A l \in At({"setup"}) : \E m \in At({"shutdown"}) : m < l
  /\ setup \in {"none", "asked"} =>
       /\ \A k \in At({"setup"}) : LossAfter(k)
       /\ Alive /\ pending = <<>> => At({"shutdown"}) # {}
  /\ setup = "answered" => \A k \in At({"shutdown"}) : \E m \in At({"setup"}) : m > k

\* Positions are positive numbers.
LEMMA Positions ==
  ASSUME NEW T, NEW k \in At(T)
  PROVE  k \in Nat /\ k > 0 /\ k \in 1..Len(inbox) /\ inbox[k].type \in T
  BY DEF At

\* When a message is read the others move one position to the front.
LEMMA MessagesMove ==
  ASSUME Types, inbox # <<>>, inbox' = Tail(inbox)
  PROVE  /\ \A T : \A k \in At(T)' : /\ k \in Nat /\ k > 0
                                     /\ k + 1 \in At(T) /\ inbox'[k] = inbox[k + 1]
         /\ \A T : \A k \in At(T) : /\ k \in Nat /\ k > 0
                                    /\ k > 1 => k - 1 \in At(T)'
         /\ \A T : 1 \in At(T) <=> inbox[1].type \in T
         /\ \A k \in Nat : LossAfter(k + 1) => LossAfter(k)'
<1>1. /\ Len(inbox) \in Nat /\ Len(inbox) >= 1 /\ Len(inbox') = Len(inbox) - 1
      /\ \A k \in 1..Len(inbox') : inbox'[k] = inbox[k + 1]
      /\ \A T, k : k \in At(T)' <=> k \in 1..Len(inbox') /\ k + 1 \in At(T)
  BY InboxShrinks DEF Types, TypeOK, Messages
<1>2. ASSUME NEW T, NEW k \in At(T)'
      PROVE  k \in Nat /\ k > 0 /\ k + 1 \in At(T) /\ inbox'[k] = inbox[k + 1]
  <2>1. k \in 1..Len(inbox') /\ k + 1 \in At(T)
    BY <1>1
  <2> QED
    BY <1>1, <2>1
<1>3. ASSUME NEW T, NEW k \in At(T)
      PROVE  k \in Nat /\ k > 0 /\ (k > 1 => k - 1 \in At(T)')
  <2>1. k \in 1..Len(inbox)
    BY Positions
  <2>2. k > 1 => k - 1 \in 1..Len(inbox') /\ (k - 1) + 1 = k
    BY <1>1, <2>1
  <2> QED
    BY <1>1, <2>1, <2>2
<1>4. ASSUME NEW T PROVE 1 \in At(T) <=> inbox[1].type \in T
  BY <1>1 DEF At
<1>5. ASSUME NEW k \in Nat, LossAfter(k + 1) PROVE LossAfter(k)'
  <2>1. PICK m \in At({"shutdown"}) : m > k + 1
    BY <1>5 DEF LossAfter
  <2>2. m \in Nat /\ m > 1 /\ m - 1 > k
    BY <1>3, <2>1
  <2>3. m - 1 \in At({"shutdown"})'
    BY <1>3, <2>2
  <2> QED
    BY <2>2, <2>3 DEF LossAfter
<1> QED
  BY <1>2, <1>3, <1>4, <1>5

\* When a message is sent it is behind the others.
LEMMA MessageAdded ==
  ASSUME Types, NEW m \in Messages, inbox' = Append(inbox, m)
  PROVE  LET n == Len(inbox) + 1 IN
         /\ n \in Nat /\ n > 0 /\ inbox'[n] = m
         /\ \A T : \A k \in At(T) : /\ k \in Nat /\ k > 0 /\ k < n
                                    /\ k \in At(T)' /\ inbox'[k] = inbox[k]
         /\ \A T : \A k \in At(T)' : k \in At(T) \/ (k = n /\ m.type \in T)
         /\ \A T : m.type \in T => n \in At(T)'
         /\ \A k \in Nat : LossAfter(k) => LossAfter(k)'
<1>1. /\ Len(inbox) \in Nat
      /\ \A k \in 1..Len(inbox) : inbox'[k] = inbox[k]
      /\ inbox'[Len(inbox) + 1] = m
      /\ \A T : At(T)' = At(T) \cup (IF m.type \in T THEN {Len(inbox) + 1} ELSE {})
  BY InboxGrows DEF Types, TypeOK, Messages
<1>2. \A T : \A k \in At(T) : k \in Nat /\ k > 0 /\ k < Len(inbox) + 1 /\ k \in 1..Len(inbox)
  BY <1>1, Positions
<1> QED
  BY <1>1, <1>2 DEF LossAfter

\* A message that is read starts a turn or ends one, or has no part in it.
LEMMA SetupTurnsReads ==
  ASSUME Types, SetupTurns, Reads
  PROVE  /\ SetupTurns'
         /\ SetupResponse => pending # <<>>
<1>1. PICK type : Received(type)
  BY DEF Reads, SetupResponse, ConnectionShutdown, OnSubscription, DeleteRequest
<1>2. inbox # <<>> /\ inbox' = Tail(inbox) /\ inbox[1].type = type /\ Alive
  BY <1>1, MessageRead DEF Alive
<1>3. /\ \A T : \A k \in At(T)' : k \in Nat /\ k > 0 /\ k + 1 \in At(T)
      /\ \A T : \A k \in At(T) : k \in Nat /\ k > 0 /\ (k > 1 => k - 1 \in At(T)')
      /\ \A T : 1 \in At(T) <=> type \in T
      /\ \A k \in Nat : LossAfter(k + 1) => LossAfter(k)'
  BY <1>2, MessagesMove
<1>4. UNCHANGED <<up, setup>>
  BY DEF Reads, SetupResponse, ConnectionShutdown, OnSubscription, DeleteRequest, ricVars
<1>5. /\ SetupResponse => type = "setup"
      /\ ConnectionShutdown => type = "shutdown"
      /\ OnSubscription \/ DeleteRequest => type \in {"sub", "del"}
  BY <1>2, MessageRead DEF SetupResponse, ConnectionShutdown, OnSubscription, DeleteRequest
<1>6. SetupResponse => pending # <<>>
  <2>1. SUFFICES ASSUME type = "setup", pending = <<>> PROVE FALSE
    BY <1>5
  <2>2. \E m \in At({"shutdown"}) : m < 1
    BY <1>2, <1>3, <2>1 DEF SetupTurns
  <2> QED
    BY <1>3, <2>2
<1>7. \A k, l \in At({"setup"})' : k < l => \E m \in At({"shutdown"})' : k < m /\ m < l
  <2>1. SUFFICES ASSUME NEW k \in At({"setup"})', NEW l \in At({"setup"})', k < l
                 PROVE  \E m \in At({"shutdown"})' : k < m /\ m < l
    OBVIOUS
  <2>2. k \in Nat /\ l \in Nat /\ k > 0 /\ k + 1 \in At({"setup"}) /\ l + 1 \in At({"setup"})
    BY <1>3
  <2>3. PICK m \in At({"shutdown"}) : k + 1 < m /\ m < l + 1
    BY <2>1, <2>2 DEF SetupTurns
  <2>4. m - 1 \in At({"shutdown"})' /\ k < m - 1 /\ m - 1 < l
    BY <1>3, <2>2, <2>3
  <2> QED
    BY <2>4
<1>8. ASSUME Alive', pending' = <<>>
      PROVE  /\ \A l \in At({"setup"})' : \E m \in At({"shutdown"})' : m < l
             /\ setup \in {"none", "asked"} => At({"shutdown"})' # {}
  <2>1. CASE SetupResponse
    <3>1. 1 \in At({"setup"})
      BY <1>3, <1>5, <2>1
    <3>2. ASSUME NEW l \in At({"setup"})' PROVE \E m \in At({"shutdown"})' : m < l
      <4>1. l \in Nat /\ l > 0 /\ l + 1 \in At({"setup"})
        BY <1>3
      <4>2. PICK m \in At({"shutdown"}) : 1 < m /\ m < l + 1
        BY <3>1, <4>1 DEF SetupTurns
      <4>3. m - 1 \in At({"shutdown"})' /\ m - 1 < l
        BY <1>3, <4>1, <4>2
      <4> QED
        BY <4>3
    <3>3. setup \in {"none", "asked"} => At({"shutdown"})' # {}
      <4>1. SUFFICES ASSUME setup \in {"none", "asked"} PROVE At({"shutdown"})' # {}
        OBVIOUS
      <4>2. PICK m \in At({"shutdown"}) : m > 1
        BY <3>1, <4>1 DEF SetupTurns, LossAfter
      <4> QED
        BY <1>3, <4>2
    <3> QED
      BY <3>2, <3>3
  <2>2. CASE ConnectionShutdown
    <3>1. pending' # <<>>
      <4>1. pending \in Seq(Nat)
        BY DEF Types, TypeOK
      <4> QED
        BY <2>2, <4>1 DEF ConnectionShutdown
    <3> QED
      BY <1>8, <3>1
  <2>3. CASE OnSubscription \/ DeleteRequest
    <3>1. pending = <<>> /\ type \notin {"setup", "shutdown"}
      BY <1>5, <1>8, <2>3 DEF OnSubscription, DeleteRequest
    <3>2. ASSUME NEW m \in At({"shutdown"}) PROVE m > 1 /\ m - 1 \in At({"shutdown"})'
      <4>1. m # 1
        BY <1>3, <3>1
      <4> QED
        BY <1>3, <4>1
    <3>3. ASSUME NEW l \in At({"setup"})' PROVE \E m \in At({"shutdown"})' : m < l
      <4>1. l \in Nat /\ l + 1 \in At({"setup"})
        BY <1>3
      <4>2. PICK m \in At({"shutdown"}) : m < l + 1
        BY <1>2, <3>1, <4>1 DEF SetupTurns
      <4>3. m \in Nat /\ m - 1 < l /\ m - 1 \in At({"shutdown"})'
        BY <1>3, <3>2, <4>1, <4>2
      <4> QED
        BY <4>3
    <3>4. setup \in {"none", "asked"} => At({"shutdown"})' # {}
      BY <1>2, <3>1, <3>2 DEF SetupTurns
    <3> QED
      BY <3>3, <3>4
  <2> QED
    BY <2>1, <2>2, <2>3 DEF Reads
<1>9. setup \in {"none", "asked"} => \A k \in At({"setup"})' : LossAfter(k)'
  BY <1>3 DEF SetupTurns
<1>10. setup = "answered" => \A k \in At({"shutdown"})' : \E m \in At({"setup"})' : m > k
  <2>1. SUFFICES ASSUME setup = "answered", NEW k \in At({"shutdown"})'
                 PROVE  \E m \in At({"setup"})' : m > k
    OBVIOUS
  <2>2. k \in Nat /\ k > 0 /\ k + 1 \in At({"shutdown"})
    BY <1>3
  <2>3. PICK m \in At({"setup"}) : m > k + 1
    BY <2>1, <2>2 DEF SetupTurns
  <2>4. m - 1 \in At({"setup"})' /\ m - 1 > k
    BY <1>3, <2>2, <2>3
  <2> QED
    BY <2>4
<1> QED
  BY <1>4, <1>6, <1>7, <1>8, <1>9, <1>10 DEF SetupTurns

\* The RIC answers when it has been asked for the first time in its life.
LEMMA SetupTurnsAnswer ==
  ASSUME Types, SetupTurns, RicAnswersSetup
  PROVE  SetupTurns'
<1> DEFINE n == Len(inbox) + 1
<1>1. [type |-> "setup", id |-> NoId] \in Messages /\ inbox' = Append(inbox, [type |-> "setup", id |-> NoId])
  BY DEF RicAnswersSetup, ToAgent, Messages
<1>2. /\ n \in Nat /\ n > 0
      /\ \A T : \A k \in At(T) : k \in Nat /\ k > 0 /\ k < n /\ k \in At(T)'
      /\ \A T : \A k \in At(T)' : k \in At(T) \/ (k = n /\ "setup" \in T)
      /\ n \in At({"setup"})'
  BY <1>1, MessageAdded
<1> HIDE DEF n
<1>3. /\ UNCHANGED <<up, pending, at>> /\ up /\ setup = "asked" /\ setup' = "answered"
  BY DEF RicAnswersSetup, loopVars
<1>4. \A k, l \in At({"setup"})' : k < l => \E m \in At({"shutdown"})' : k < m /\ m < l
  <2>1. SUFFICES ASSUME NEW k \in At({"setup"})', NEW l \in At({"setup"})', k < l
                 PROVE  \E m \in At({"shutdown"})' : k < m /\ m < l
    OBVIOUS
  <2>2. CASE k \in At({"setup"}) /\ l \in At({"setup"})
    BY <1>2, <2>1, <2>2 DEF SetupTurns
  <2>3. CASE k \in At({"setup"}) /\ l = n
    <3>1. PICK m \in At({"shutdown"}) : m > k
      BY <1>3, <2>3 DEF SetupTurns, LossAfter
    <3> QED
      BY <1>2, <2>3, <3>1
  <2>4. k # n
    BY <1>2, <2>1
  <2> QED
    BY <1>2, <2>2, <2>3, <2>4
<1>5. ASSUME Alive', pending' = <<>>, NEW l \in At({"setup"})'
      PROVE  \E m \in At({"shutdown"})' : m < l
  <2>1. Alive /\ pending = <<>>
    BY <1>3, <1>5 DEF Alive
  <2>2. CASE l \in At({"setup"})
    BY <1>2, <2>1, <2>2 DEF SetupTurns
  <2>3. CASE l = n
    <3>1. PICK m \in At({"shutdown"}) : TRUE
      BY <1>3, <2>1 DEF SetupTurns
    <3> QED
      BY <1>2, <2>3, <3>1
  <2> QED
    BY <1>2, <2>2, <2>3
<1>6. \A k \in At({"shutdown"})' : \E m \in At({"setup"})' : m > k
  <2>1. \A k \in At({"shutdown"})' : k < n
    BY <1>2
  <2>2. \A k \in At({"shutdown"})' : k \in Nat
    BY <1>2
  <2> QED
    BY <1>2, <2>1, <2>2
<1> QED
  BY <1>3, <1>4, <1>5, <1>6 DEF SetupTurns

\* When the RIC stops the association is lost behind all its messages.
LEMMA SetupTurnsStop ==
  ASSUME Types, SetupTurns, RicStop
  PROVE  SetupTurns'
<1> DEFINE n == Len(inbox) + 1
<1>1. /\ [type |-> "shutdown", id |-> NoId] \in Messages
      /\ inbox' = Append(inbox, [type |-> "shutdown", id |-> NoId])
  BY DEF RicStop, ToAgent, Messages
<1>2. /\ n \in Nat /\ n > 0
      /\ \A T : \A k \in At(T) : k \in Nat /\ k > 0 /\ k < n /\ k \in At(T)'
      /\ \A T : \A k \in At(T)' : k \in At(T) \/ (k = n /\ "shutdown" \in T)
      /\ n \in At({"shutdown"})'
  BY <1>1, MessageAdded
<1> HIDE DEF n
<1>3. /\ UNCHANGED <<pending, at>> /\ ~up' /\ setup' = "none"
  BY DEF RicStop, loopVars
<1>4. \A k \in At({"setup"})' : k \in At({"setup"}) /\ k \in Nat
  BY <1>2
<1>5. \A k, l \in At({"setup"})' : k < l => \E m \in At({"shutdown"})' : k < m /\ m < l
  BY <1>2, <1>4 DEF SetupTurns
<1>6. \A k \in At({"setup"})' : LossAfter(k)'
  BY <1>2, <1>4 DEF LossAfter
<1>7. Alive' /\ pending' = <<>> => \A l \in At({"setup"})' : \E m \in At({"shutdown"})' : m < l
  BY <1>2, <1>3, <1>4 DEF SetupTurns, Alive
<1> QED
  BY <1>2, <1>3, <1>5, <1>6, <1>7 DEF SetupTurns

\* Requests about subscriptions have no part in it.
LEMMA SetupTurnsRequest ==
  ASSUME Types, SetupTurns, NEW m \in Messages, m.type \notin {"setup", "shutdown"},
         inbox' = Append(inbox, m), UNCHANGED <<up, setup, pending, at>>
  PROVE  SetupTurns'
<1>1. /\ \A k \in At({"setup"})' : k \in At({"setup"})
      /\ \A k \in At({"shutdown"})' : k \in At({"shutdown"})
      /\ \A k \in At({"setup"}) : k \in At({"setup"})'
      /\ \A k \in At({"shutdown"}) : k \in At({"shutdown"})'
  BY MessageAdded
<1>2. At({"setup"})' = At({"setup"}) /\ At({"shutdown"})' = At({"shutdown"})
  BY <1>1
<1> QED
  BY <1>2 DEF SetupTurns, Alive, LossAfter

\* Set-up requests and their answers stay in step with the losses of the association.
LEMMA SetupTurnsStep ==
  ASSUME Types, SetupTurns, Next
  PROVE  SetupTurns'
<1>1. CASE Reads
  BY <1>1, SetupTurnsReads
<1>2. CASE RicAnswersSetup
  BY <1>2, SetupTurnsAnswer
<1>3. CASE RicStop
  BY <1>3, SetupTurnsStop
<1>4. CASE (\E f \in Funcs : RicSubscribes(f)) \/ \E i \in Ids : RicDeletes(i)
  <2>1. UNCHANGED <<up, setup, pending, at>>
    BY <1>4 DEF RicSubscribes, RicDeletes, loopVars
  <2>2. PICK m \in Messages : inbox' = Append(inbox, m) /\ m.type \notin {"setup", "shutdown"}
    <3>1. CASE \E f \in Funcs : RicSubscribes(f)
      BY <3>1, SubscriptionSent
    <3>2. CASE \E i \in Ids : RicDeletes(i)
      BY <3>2, DeletionSent
    <3> QED
      BY <1>4, <3>1, <3>2
  <2> QED
    BY <2>1, <2>2, SetupTurnsRequest
<1>5. CASE UNCHANGED inbox /\ ResendSetup
  <2>1. UNCHANGED <<up, pending, inbox>>
    BY <1>5 DEF ResendSetup
  <2>2. \/ UNCHANGED setup
        \/ up /\ setup = "none" /\ setup' = "asked"
        \/ up /\ setup' = "again"
    BY <1>5 DEF ResendSetup, SetupRequestSent
  <2>3. At({"setup"})' = At({"setup"}) /\ At({"shutdown"})' = At({"shutdown"})
    BY <2>1 DEF At
  <2>4. Alive' => Alive
    BY AliveBefore
  <2> QED
    BY <2>1, <2>2, <2>3, <2>4 DEF SetupTurns, LossAfter
<1>6. CASE UNCHANGED <<inbox, setup, up, pending>>
  <2>1. At({"setup"})' = At({"setup"}) /\ At({"shutdown"})' = At({"shutdown"})
    BY <1>6 DEF At
  <2>2. Alive' => Alive
    BY AliveBefore
  <2> QED
    BY <1>6, <2>1, <2>2 DEF SetupTurns, LossAfter
<1>7. CASE RicStart
  <2>1. up' /\ UNCHANGED <<inbox, setup, pending, at>>
    BY <1>7 DEF RicStart, loopVars
  <2>2. At({"setup"})' = At({"setup"}) /\ At({"shutdown"})' = At({"shutdown"})
    BY <2>1 DEF At
  <2> QED
    BY <2>1, <2>2 DEF SetupTurns, LossAfter, Alive
<1>8. CASE FreeAgent
  <2>1. UNCHANGED <<inbox, setup, up>> /\ ~Alive'
    BY <1>8 DEF FreeAgent, ricVars, Alive
  <2>2. At({"setup"})' = At({"setup"}) /\ At({"shutdown"})' = At({"shutdown"})
    BY <2>1 DEF At
  <2> QED
    BY <2>1, <2>2 DEF SetupTurns, LossAfter
<1> QED
  BY <1>1, <1>2, <1>3, <1>4, <1>5, <1>6, <1>7, <1>8, TableWriters, RicWriters DEF Reads

\* It starts with a timer and a request, or with no RIC.
LEMMA SetupTurnsInit == Init => SetupTurns
<1> SUFFICES ASSUME Init PROVE SetupTurns
  OBVIOUS
<1>1. inbox = <<>> /\ pending = <<FirstTimer>> /\ setup = IF up THEN "asked" ELSE "none"
  BY DEF Init
<1>2. At({"setup"}) = {} /\ At({"shutdown"}) = {} /\ pending # <<>>
  BY <1>1 DEF At
<1> QED
  BY <1>1, <1>2 DEF SetupTurns, LossAfter
-----------------------------------------------------------------------------
(* The requests of the RIC *)

\* A request under way that the RIC has not forgotten is the one thing that stands for
\* its id; the RIC has subscriptions only when nothing of an earlier life is under way.
Requested ==
  /\ \A i \in Ids : subs[i].st # "new" =>
       setup \in {"answered", "again"} /\ At({"setup", "shutdown"}) = {} /\ i < next
  /\ \A k \in At({"sub"}) : LossAfter(k) \/ Known(inbox[k].id, "asked")
  /\ \A k \in At({"del"}) : LossAfter(k) \/ Known(inbox[k].id, "ending")
  /\ \A k, l \in At({"sub", "del"}) :
       k < l /\ inbox[k].id.i = inbox[l].id.i => LossAfter(l)
  /\ Busy => \A k \in At({"sub", "del"}) : inbox[k].id.i = req.i => LossAfter(k)
  /\ Busy /\ subs[req.i].st # "new" =>
       Known(req, IF at = "subscribe" THEN "asked" ELSE "ending")
  /\ Busy /\ setup = "answered" /\ At({"setup"}) = {} => subs[req.i].st # "new"

\* The positions of some types are those of each of them.
LEMMA Both ==
  /\ \A k : k \in At({"sub", "del"}) <=> k \in At({"sub"}) \/ k \in At({"del"})
  /\ \A k : k \in At({"setup", "shutdown"}) <=> k \in At({"setup"}) \/ k \in At({"shutdown"})
  BY DEF At

\* And so in the next state.
LEMMA BothNext ==
  /\ \A k : k \in At({"sub", "del"})' <=> k \in At({"sub"})' \/ k \in At({"del"})'
  /\ \A k : k \in At({"setup", "shutdown"})' <=> k \in At({"setup"})' \/ k \in At({"shutdown"})'
  BY DEF At

\* The RIC has nothing yet.
LEMMA RequestedInit == Init => Requested
<1> SUFFICES ASSUME Init PROVE Requested
  OBVIOUS
<1>1. /\ inbox = <<>> /\ at = "wait" /\ \A i \in Ids : subs[i].st = "new"
  BY DEF Init, NoSub
<1>2. \A T : At(T) = {}
  BY <1>1 DEF At
<1> QED
  BY <1>1, <1>2 DEF Requested, Busy

\* Steps that leave requests and subscriptions alone.
LEMMA RequestedUntouched ==
  ASSUME Types, Requested, UNCHANGED <<inbox, subs, next>>,
         setup \in {"answered", "again"} => setup' \in {"answered", "again"},
         Busy' => /\ Busy /\ req' = req /\ setup' = setup
                  /\ at' = "subscribe" <=> at = "subscribe"
  PROVE  Requested'
<1>1. \A T : At(T)' = At(T)
  BY DEF At
<1>2. \A k : LossAfter(k)' <=> LossAfter(k)
  BY <1>1 DEF LossAfter
<1>3. \A i \in Ids : subs'[i].st # "new" =>
        setup' \in {"answered", "again"} /\ At({"setup", "shutdown"})' = {} /\ i < next'
  BY <1>1 DEF Requested
<1>4. /\ \A k \in At({"sub"})' : LossAfter(k)' \/ Known(inbox[k].id, "asked")'
      /\ \A k \in At({"del"})' : LossAfter(k)' \/ Known(inbox[k].id, "ending")'
  BY <1>1, <1>2 DEF Requested, Known
<1>5. \A k, l \in At({"sub", "del"})' :
        k < l /\ inbox'[k].id.i = inbox'[l].id.i => LossAfter(l)'
  BY <1>1, <1>2 DEF Requested
<1>6. Busy' =>
        /\ \A k \in At({"sub", "del"})' : inbox'[k].id.i = req'.i => LossAfter(k)'
        /\ subs'[req'.i].st # "new" =>
             Known(req, IF at = "subscribe" THEN "asked" ELSE "ending")'
        /\ setup' = "answered" /\ At({"setup"})' = {} => subs'[req'.i].st # "new"
  BY <1>1, <1>2 DEF Requested, Known
<1> QED
  BY <1>3, <1>4, <1>5, <1>6 DEF Requested

\* When the RIC stops it forgets everything.
LEMMA RequestedStop ==
  ASSUME Types, Requested, RicStop
  PROVE  Requested'
<1> DEFINE n == Len(inbox) + 1
<1>1. /\ [type |-> "shutdown", id |-> NoId] \in Messages
      /\ inbox' = Append(inbox, [type |-> "shutdown", id |-> NoId])
  BY DEF RicStop, ToAgent, Messages
<1>2. /\ \A T : \A k \in At(T) : k \in Nat /\ k > 0 /\ k < n /\ k \in At(T)'
      /\ \A T : \A k \in At(T)' : k \in At(T) \/ (k = n /\ "shutdown" \in T)
      /\ n \in At({"shutdown"})'
  BY <1>1, MessageAdded
<1> HIDE DEF n
<1>3. setup' = "none" /\ \A i \in Ids : subs'[i].st = "new"
  BY DEF RicStop, NoSub
<1>4. \A k \in At({"sub", "del"})' : LossAfter(k)'
  BY <1>2 DEF LossAfter
<1>5. Busy' => req' \in GenIds
  BY DEF RicStop, loopVars, Busy, Types, Proper
<1> QED
  BY <1>3, <1>4, <1>5, BothNext DEF Requested, GenIds

\* When it answers the set-up request it has no subscriptions yet.
LEMMA RequestedAnswer ==
  ASSUME Types, Requested, RicAnswersSetup
  PROVE  Requested'
<1> DEFINE n == Len(inbox) + 1
<1>1. /\ [type |-> "setup", id |-> NoId] \in Messages
      /\ inbox' = Append(inbox, [type |-> "setup", id |-> NoId])
  BY DEF RicAnswersSetup, ToAgent, Messages
<1>2. /\ \A T : \A k \in At(T) : k \in Nat /\ k > 0 /\ k < n /\ k \in At(T)' /\ inbox'[k] = inbox[k]
      /\ \A T : \A k \in At(T)' : k \in At(T) \/ (k = n /\ "setup" \in T)
      /\ n \in At({"setup"})'
      /\ \A k \in Nat : LossAfter(k) => LossAfter(k)'
  BY <1>1, MessageAdded
<1> HIDE DEF n
<1>3. setup = "asked" /\ UNCHANGED <<subs, at, req>>
  BY DEF RicAnswersSetup, loopVars
<1>4. \A i \in Ids : subs'[i].st = "new"
  BY <1>3 DEF Requested
<1>5. /\ \A k \in At({"sub"})' : k \in At({"sub"}) /\ k \in Nat /\ inbox'[k] = inbox[k]
      /\ \A k \in At({"del"})' : k \in At({"del"}) /\ k \in Nat /\ inbox'[k] = inbox[k]
      /\ \A k \in At({"sub", "del"})' : k \in At({"sub", "del"}) /\ k \in Nat /\ inbox'[k] = inbox[k]
  BY <1>2
<1>6. Busy' => Busy /\ req \in GenIds
  BY <1>3 DEF Busy, Types, Proper
<1> QED
  BY <1>2, <1>3, <1>4, <1>5, <1>6 DEF Requested, Known, GenIds

\* A new subscription has an id that nothing under way has.
LEMMA RequestedSubscribes ==
  ASSUME Types, SetupTurns, Requested, NEW f \in Funcs, RicSubscribes(f)
  PROVE  Requested'
<1> DEFINE n == Len(inbox) + 1
           x == [i |-> next, f |-> f]
           m == [type |-> "sub", id |-> x]
<1>1. next \in Ids /\ m \in Messages /\ inbox' = Append(inbox, m)
  BY SubscriptionSent
<1>2. /\ inbox'[n] = m
      /\ \A T : \A k \in At(T) : k \in Nat /\ k > 0 /\ k < n /\ k \in At(T)' /\ inbox'[k] = inbox[k]
      /\ \A T : \A k \in At(T)' : k \in At(T) \/ (k = n /\ "sub" \in T)
      /\ \A k \in Nat : LossAfter(k) => LossAfter(k)'
  BY <1>1, MessageAdded
<1> HIDE DEF n
<1>3. /\ setup = "answered" /\ UNCHANGED <<setup, at, req>> /\ next' = next + 1
      /\ subs' = [subs EXCEPT ![next] = [f |-> f, st |-> "asked"]]
      /\ subs \in [Ids -> Subs]
  BY DEF RicSubscribes, loopVars, Types, TypeOK, Subs
<1>4. At({"setup"}) = {}
  <2>1. inbox \in Seq(Messages)
    BY DEF Types, TypeOK, Messages
  <2> QED
    BY <2>1, LenProperties DEF RicSubscribes, At, ToSet
<1>5. At({"shutdown"}) = {}
  BY <1>3, <1>4 DEF SetupTurns
<1>6. /\ At({"setup"})' = {} /\ At({"shutdown"})' = {} /\ At({"setup", "shutdown"})' = {}
      /\ \A k : ~LossAfter(k)
  BY <1>2, <1>4, <1>5, BothNext DEF LossAfter
<1>7. next \in Nat /\ \A i \in Ids : subs[i].st # "new" => i < next
  <2>1. next \in Nat
    BY <1>1, BoundsAssumption DEF Ids
  <2> QED
    BY <2>1 DEF Requested
<1>8. /\ \A i \in Ids : i # next => subs'[i] = subs[i]
      /\ subs'[next] = [f |-> f, st |-> "asked"]
  BY <1>1, <1>3
<1>9. \A k \in At({"sub", "del"}) :
        /\ inbox[k].id.i \in Ids /\ inbox[k].id.i # next
        /\ k \in At({"sub"}) => Known(inbox[k].id, "asked")
        /\ k \in At({"del"}) => Known(inbox[k].id, "ending")
  <2>1. SUFFICES ASSUME NEW k \in At({"sub", "del"})
                 PROVE  /\ inbox[k].id.i \in Ids /\ inbox[k].id.i # next
                        /\ k \in At({"sub"}) => Known(inbox[k].id, "asked")
                        /\ k \in At({"del"}) => Known(inbox[k].id, "ending")
    OBVIOUS
  <2>2. inbox[k].id \in GenIds
    BY DEF Types, Proper
  <2>3. /\ k \in At({"sub"}) => Known(inbox[k].id, "asked")
        /\ k \in At({"del"}) => Known(inbox[k].id, "ending")
    BY <1>6 DEF Requested
  <2>4. subs[inbox[k].id.i].st # "new"
    BY <2>3, Both DEF Known
  <2> QED
    BY <1>7, <2>2, <2>3, <2>4 DEF GenIds
<1>10. \A i \in Ids : subs'[i].st # "new" =>
         setup' \in {"answered", "again"} /\ At({"setup", "shutdown"})' = {} /\ i < next'
  <2>1. \A i \in Ids : i \in Nat
    BY BoundsAssumption DEF Ids
  <2> QED
    BY <1>3, <1>6, <1>7, <1>8, <2>1
<1>11. /\ \A k \in At({"sub"})' : Known(inbox[k].id, "asked")'
       /\ \A k \in At({"del"})' : Known(inbox[k].id, "ending")'
  <2>1. ASSUME NEW k \in At({"sub"})' PROVE Known(inbox[k].id, "asked")'
    <3>1. CASE k \in At({"sub"})
      <4>1. k \in At({"sub", "del"}) /\ inbox'[k] = inbox[k]
        BY <1>2, <3>1, Both
      <4> QED
        BY <1>8, <1>9, <3>1, <4>1 DEF Known
    <3>2. CASE k = n
      BY <1>2, <1>8, <3>2 DEF Known
    <3> QED
      BY <1>2, <3>1, <3>2
  <2>2. ASSUME NEW k \in At({"del"})' PROVE Known(inbox[k].id, "ending")'
    <3>1. k \in At({"del"})
      BY <1>2
    <3>2. k \in At({"sub", "del"}) /\ inbox'[k] = inbox[k]
      BY <1>2, <3>1, Both
    <3> QED
      BY <1>8, <1>9, <3>1, <3>2 DEF Known
  <2> QED
    BY <2>1, <2>2
<1>12. \A k, l \in At({"sub", "del"})' : k < l => inbox'[k].id.i # inbox'[l].id.i
  <2>1. SUFFICES ASSUME NEW k \in At({"sub", "del"})', NEW l \in At({"sub", "del"})', k < l
                 PROVE  inbox'[k].id.i # inbox'[l].id.i
    OBVIOUS
  <2>2. CASE k \in At({"sub", "del"}) /\ l \in At({"sub", "del"})
    BY <1>2, <1>6, <2>1, <2>2 DEF Requested
  <2>3. CASE k \in At({"sub", "del"}) /\ l = n
    BY <1>2, <1>9, <2>3
  <2>4. n \in Nat
    BY <1>1, MessageAdded DEF n
  <2> QED
    BY <1>2, <2>1, <2>2, <2>3, <2>4
<1>13. ASSUME Busy'
       PROVE  /\ \A k \in At({"sub", "del"})' : inbox'[k].id.i # req'.i
              /\ Known(req, IF at = "subscribe" THEN "asked" ELSE "ending")'
              /\ subs'[req'.i].st # "new"
  <2>1. Busy /\ req \in GenIds /\ at' = at /\ req' = req
    BY <1>3, <1>13 DEF Busy, Types, Proper
  <2>2. subs[req.i].st # "new" /\ req.i # next /\ req.i \in Ids
    BY <1>3, <1>4, <1>7, <2>1 DEF Requested, GenIds
  <2>3. Known(req, IF at = "subscribe" THEN "asked" ELSE "ending")
    BY <2>1, <2>2 DEF Requested
  <2>4. \A k \in At({"sub", "del"})' : inbox'[k].id.i # req.i
    <3>1. \A k \in At({"sub", "del"}) : inbox[k].id.i # req.i
      BY <1>6, <2>1 DEF Requested
    <3> QED
      BY <1>2, <2>2, <3>1
  <2> QED
    BY <1>8, <2>1, <2>2, <2>3, <2>4 DEF Known
<1> QED
  BY <1>10, <1>11, <1>12, <1>13 DEF Requested

\* Only what is held is deleted, so no other request about it is under way.
LEMMA RequestedDeletes ==
  ASSUME Types, SetupTurns, Requested, NEW i \in Ids, RicDeletes(i)
  PROVE  Requested'
<1> DEFINE n == Len(inbox) + 1
           x == [i |-> i, f |-> subs[i].f]
           m == [type |-> "del", id |-> x]
<1>1. /\ m \in Messages /\ inbox' = Append(inbox, m) /\ subs[i].st = "held"
      /\ subs' = [subs EXCEPT ![i] = [f |-> subs[i].f, st |-> "ending"]]
      /\ subs \in [Ids -> Subs]
  BY DeletionSent DEF Types, TypeOK, Subs
<1>2. /\ inbox'[n] = m /\ n \in Nat
      /\ \A T : \A k \in At(T) : k \in Nat /\ k > 0 /\ k < n /\ k \in At(T)' /\ inbox'[k] = inbox[k]
      /\ \A T : \A k \in At(T)' : k \in At(T) \/ (k = n /\ "del" \in T)
  BY <1>1, MessageAdded
<1> HIDE DEF n
<1>3. UNCHANGED <<setup, at, req, next>>
  BY DEF RicDeletes, loopVars
<1>4. /\ setup \in {"answered", "again"} /\ At({"setup", "shutdown"}) = {}
      /\ \A k : ~LossAfter(k)
  <2>1. setup \in {"answered", "again"} /\ At({"setup", "shutdown"}) = {}
    BY <1>1 DEF Requested
  <2> QED
    BY <2>1, Both DEF LossAfter
<1>5. At({"setup", "shutdown"})' = {} /\ (At({"setup"})' = {} => At({"setup"}) = {})
  BY <1>2, <1>4
<1>6. /\ \A j \in Ids : j # i => subs'[j] = subs[j]
      /\ subs'[i] = [f |-> subs[i].f, st |-> "ending"]
  BY <1>1
<1>7. \A k \in At({"sub", "del"}) :
        /\ inbox[k].id.i \in Ids /\ inbox[k].id.i # i
        /\ k \in At({"sub"}) => Known(inbox[k].id, "asked")
        /\ k \in At({"del"}) => Known(inbox[k].id, "ending")
  <2>1. SUFFICES ASSUME NEW k \in At({"sub", "del"})
                 PROVE  /\ inbox[k].id.i \in Ids /\ inbox[k].id.i # i
                        /\ k \in At({"sub"}) => Known(inbox[k].id, "asked")
                        /\ k \in At({"del"}) => Known(inbox[k].id, "ending")
    OBVIOUS
  <2>2. inbox[k].id \in GenIds
    BY DEF Types, Proper
  <2>3. /\ k \in At({"sub"}) => Known(inbox[k].id, "asked")
        /\ k \in At({"del"}) => Known(inbox[k].id, "ending")
    BY <1>4 DEF Requested
  <2>4. subs[inbox[k].id.i].st # "held"
    BY <2>3, Both DEF Known
  <2> QED
    BY <1>1, <2>2, <2>3, <2>4 DEF GenIds
<1>8. \A j \in Ids : subs'[j].st # "new" =>
        setup' \in {"answered", "again"} /\ At({"setup", "shutdown"})' = {} /\ j < next'
  BY <1>1, <1>3, <1>4, <1>5, <1>6 DEF Requested
<1>9. /\ \A k \in At({"sub"})' : Known(inbox[k].id, "asked")'
      /\ \A k \in At({"del"})' : Known(inbox[k].id, "ending")'
  <2>1. ASSUME NEW k \in At({"sub"})' PROVE Known(inbox[k].id, "asked")'
    <3>1. k \in At({"sub"})
      BY <1>2
    <3>2. k \in At({"sub", "del"}) /\ inbox'[k] = inbox[k]
      BY <1>2, <3>1, Both
    <3> QED
      BY <1>6, <1>7, <3>1, <3>2 DEF Known
  <2>2. ASSUME NEW k \in At({"del"})' PROVE Known(inbox[k].id, "ending")'
    <3>1. CASE k \in At({"del"})
      <4>1. k \in At({"sub", "del"}) /\ inbox'[k] = inbox[k]
        BY <1>2, <3>1, Both
      <4> QED
        BY <1>6, <1>7, <3>1, <4>1 DEF Known
    <3>2. CASE k = n
      BY <1>2, <1>6, <3>2 DEF Known
    <3> QED
      BY <1>2, <3>1, <3>2
  <2> QED
    BY <2>1, <2>2
<1>10. \A k, l \in At({"sub", "del"})' : k < l => inbox'[k].id.i # inbox'[l].id.i
  <2>1. SUFFICES ASSUME NEW k \in At({"sub", "del"})', NEW l \in At({"sub", "del"})', k < l
                 PROVE  inbox'[k].id.i # inbox'[l].id.i
    OBVIOUS
  <2>2. CASE k \in At({"sub", "del"}) /\ l \in At({"sub", "del"})
    BY <1>2, <1>4, <2>1, <2>2 DEF Requested
  <2>3. CASE k \in At({"sub", "del"}) /\ l = n
    <3>1. inbox'[l].id.i = i /\ inbox'[k] = inbox[k]
      BY <1>2, <2>3
    <3> QED
      BY <1>7, <2>3, <3>1
  <2> QED
    BY <1>2, <2>1, <2>2, <2>3
<1>11. ASSUME Busy'
       PROVE  /\ \A k \in At({"sub", "del"})' : inbox'[k].id.i # req'.i
              /\ subs'[req'.i].st # "new" =>
                   Known(req, IF at = "subscribe" THEN "asked" ELSE "ending")'
              /\ setup' = "answered" /\ At({"setup"})' = {} => subs'[req'.i].st # "new"
  <2>1. Busy /\ req \in GenIds /\ at' = at /\ req' = req /\ req.i \in Ids
    BY <1>3, <1>11 DEF Busy, Types, Proper, GenIds
  <2>2. req.i # i
    BY <1>1, <2>1 DEF Requested, Known
  <2>3. \A k \in At({"sub", "del"})' : inbox'[k].id.i # req.i
    <3>1. \A k \in At({"sub", "del"}) : inbox[k].id.i # req.i
      BY <1>4, <2>1 DEF Requested
    <3> QED
      BY <1>2, <2>2, <3>1
  <2>4. /\ subs[req.i].st # "new" => Known(req, IF at = "subscribe" THEN "asked" ELSE "ending")
        /\ setup = "answered" /\ At({"setup"}) = {} => subs[req.i].st # "new"
    BY <2>1 DEF Requested
  <2> QED
    BY <1>3, <1>5, <1>6, <2>1, <2>2, <2>3, <2>4 DEF Known
<1> QED
  BY <1>8, <1>9, <1>10, <1>11 DEF Requested

\* Reading a message keeps the others in order.
LEMMA RequestsMove ==
  ASSUME Types, Requested, inbox # <<>>, inbox' = Tail(inbox), UNCHANGED <<setup, next>>,
         \A i \in Ids : \/ subs'[i] = subs[i]
                        \/ subs'[i].st = "new" /\ inbox[1].type = "del" /\ inbox[1].id.i = i
  PROVE  /\ \A i \in Ids : subs'[i].st # "new" =>
              setup' \in {"answered", "again"} /\ At({"setup", "shutdown"})' = {} /\ i < next'
         /\ \A k \in At({"sub"})' : LossAfter(k)' \/ Known(inbox[k].id, "asked")'
         /\ \A k \in At({"del"})' : LossAfter(k)' \/ Known(inbox[k].id, "ending")'
         /\ \A k, l \in At({"sub", "del"})' :
              k < l /\ inbox'[k].id.i = inbox'[l].id.i => LossAfter(l)'
<1>1. /\ \A T : \A k \in At(T)' : k \in Nat /\ k > 0 /\ k + 1 \in At(T) /\ inbox'[k] = inbox[k + 1]
      /\ \A T : 1 \in At(T) <=> inbox[1].type \in T
      /\ \A k \in Nat : LossAfter(k + 1) => LossAfter(k)'
  BY MessagesMove
<1>2. \A i \in Ids : subs'[i].st # "new" =>
        setup' \in {"answered", "again"} /\ At({"setup", "shutdown"})' = {} /\ i < next'
  <2>1. SUFFICES ASSUME NEW i \in Ids, subs'[i].st # "new"
                 PROVE  setup' \in {"answered", "again"} /\ At({"setup", "shutdown"})' = {} /\ i < next'
    OBVIOUS
  <2>2. subs[i].st # "new"
    BY <2>1
  <2>3. setup \in {"answered", "again"} /\ At({"setup", "shutdown"}) = {} /\ i < next
    BY <2>2 DEF Requested
  <2> QED
    BY <1>1, <2>3
<1>3. ASSUME NEW k \in At({"sub", "del"})'
      PROVE  \/ LossAfter(k)'
             \/ inbox'[k].id.i \in Ids /\ subs'[inbox'[k].id.i] = subs[inbox'[k].id.i]
  <2>0. k \in Nat /\ k > 0
    BY <1>1
  <2>9. 1 < k + 1
    BY <2>0
  <2>1. k \in Nat /\ 1 < k + 1 /\ k + 1 \in At({"sub", "del"}) /\ inbox'[k] = inbox[k + 1]
    BY <1>1, <2>9
  <2>2. inbox'[k].id.i \in Ids
    BY <2>1 DEF Types, Proper, GenIds
  <2>3. CASE inbox[1].type = "del" /\ inbox[1].id.i = inbox'[k].id.i
    <3>1. 1 \in At({"sub", "del"}) /\ 1 < k + 1
      BY <1>1, <2>1, <2>3
    <3>2. LossAfter(k + 1)
      BY <2>1, <2>3, <3>1 DEF Requested
    <3> QED
      BY <1>1, <2>1, <3>2
  <2> QED
    BY <2>2, <2>3
<1>4. \A k \in At({"sub"})' : LossAfter(k)' \/ Known(inbox[k].id, "asked")'
  <2>1. SUFFICES ASSUME NEW k \in At({"sub"})', ~LossAfter(k)'
                 PROVE  Known(inbox[k].id, "asked")'
    OBVIOUS
  <2>2. subs'[inbox'[k].id.i] = subs[inbox'[k].id.i]
    BY <1>3, <2>1, BothNext
  <2>3. k \in Nat /\ k + 1 \in At({"sub"}) /\ inbox'[k] = inbox[k + 1] /\ ~LossAfter(k + 1)
    BY <1>1, <2>1
  <2>4. Known(inbox[k + 1].id, "asked")
    BY <2>3 DEF Requested
  <2> QED
    BY <2>2, <2>3, <2>4 DEF Known
<1>5. \A k \in At({"del"})' : LossAfter(k)' \/ Known(inbox[k].id, "ending")'
  <2>1. SUFFICES ASSUME NEW k \in At({"del"})', ~LossAfter(k)'
                 PROVE  Known(inbox[k].id, "ending")'
    OBVIOUS
  <2>2. subs'[inbox'[k].id.i] = subs[inbox'[k].id.i]
    BY <1>3, <2>1, BothNext
  <2>3. k \in Nat /\ k + 1 \in At({"del"}) /\ inbox'[k] = inbox[k + 1] /\ ~LossAfter(k + 1)
    BY <1>1, <2>1
  <2>4. Known(inbox[k + 1].id, "ending")
    BY <2>3 DEF Requested
  <2> QED
    BY <2>2, <2>3, <2>4 DEF Known
<1>6. \A k, l \in At({"sub", "del"})' :
        k < l /\ inbox'[k].id.i = inbox'[l].id.i => LossAfter(l)'
  <2>1. SUFFICES ASSUME NEW k \in At({"sub", "del"})', NEW l \in At({"sub", "del"})',
                        k < l, inbox'[k].id.i = inbox'[l].id.i
                 PROVE  LossAfter(l)'
    OBVIOUS
  <2>2. /\ k \in Nat /\ k + 1 \in At({"sub", "del"}) /\ inbox'[k] = inbox[k + 1]
        /\ l \in Nat /\ l + 1 \in At({"sub", "del"}) /\ inbox'[l] = inbox[l + 1]
    BY <1>1
  <2>3. k + 1 < l + 1
    BY <2>1, <2>2
  <2>4. LossAfter(l + 1)
    BY <2>1, <2>2, <2>3 DEF Requested
  <2> QED
    BY <1>1, <2>2, <2>4
<1> QED
  BY <1>2, <1>4, <1>5, <1>6

\* The request that the loop takes in hand was the only one for its id.
LEMMA RequestTaken ==
  ASSUME Types, SetupTurns, Requested, inbox # <<>>, inbox' = Tail(inbox), NEW st,
         \/ inbox[1].type = "sub" /\ st = "asked"
         \/ inbox[1].type = "del" /\ st = "ending",
         req' = inbox[1].id, UNCHANGED <<subs, setup>>
  PROVE  /\ \A k \in At({"sub", "del"})' : inbox'[k].id.i = req'.i => LossAfter(k)'
         /\ subs'[req'.i].st # "new" => Known(req, st)'
         /\ setup' = "answered" /\ At({"setup"})' = {} => subs'[req'.i].st # "new"
<1>1. /\ \A T : \A k \in At(T)' : k \in Nat /\ k > 0 /\ k + 1 \in At(T) /\ inbox'[k] = inbox[k + 1]
      /\ \A T : \A k \in At(T) : k \in Nat /\ k > 0 /\ (k > 1 => k - 1 \in At(T)')
      /\ \A T : 1 \in At(T) <=> inbox[1].type \in T
      /\ \A k \in Nat : LossAfter(k + 1) => LossAfter(k)'
  BY MessagesMove
<1>2. 1 \in At({"sub", "del"}) /\ 1 \notin At({"setup"}) /\ req' \in GenIds /\ req'.i \in Ids
  <2>1. 1 \in At({"sub", "del"}) /\ 1 \notin At({"setup"})
    BY <1>1
  <2> QED
    BY <2>1 DEF Types, Proper, GenIds
<1>3. LossAfter(1) \/ Known(inbox[1].id, st)
  BY <1>1 DEF Requested
<1>4. ASSUME NEW k \in At({"sub", "del"})', inbox'[k].id.i = req'.i
      PROVE  LossAfter(k)'
  <2>0. k \in Nat /\ k > 0
    BY <1>1
  <2>9. 1 < k + 1
    BY <2>0
  <2>1. k \in Nat /\ 1 < k + 1 /\ k + 1 \in At({"sub", "del"}) /\ inbox'[k] = inbox[k + 1]
    BY <1>1, <2>9
  <2>2. LossAfter(k + 1)
    BY <1>2, <1>4, <2>1 DEF Requested
  <2> QED
    BY <1>1, <2>1, <2>2
<1>5. ASSUME subs[req'.i].st # "new" \/ (setup = "answered" /\ At({"setup"})' = {})
      PROVE  Known(inbox[1].id, st)
  <2>1. At({"shutdown"}) = {}
    <3>1. CASE subs[req'.i].st # "new"
      BY <1>2, <3>1, Both DEF Requested
    <3>2. CASE setup = "answered" /\ At({"setup"})' = {}
      <4>1. At({"setup"}) = {}
        <5>1. SUFFICES ASSUME NEW k \in At({"setup"}) PROVE FALSE
          OBVIOUS
        <5>2. k \in Nat /\ k > 1
          BY <1>1, <1>2
        <5> QED
          BY <1>1, <3>2, <5>2
      <4> QED
        BY <3>2, <4>1 DEF SetupTurns
    <3> QED
      BY <1>5, <3>1, <3>2
  <2> QED
    BY <1>3, <2>1 DEF LossAfter
<1>6. Known(inbox[1].id, st) => Known(req, st)' /\ subs'[req'.i].st # "new"
  BY DEF Known
<1> QED
  BY <1>4, <1>5, <1>6

\* The loop reads a message.
LEMMA RequestedReads ==
  ASSUME Types, SetupTurns, Requested, Reads
  PROVE  Requested'
<1>1. UNCHANGED <<setup, next>>
  BY DEF Reads, SetupResponse, ConnectionShutdown, OnSubscription, DeleteRequest, ricVars
<1>2. CASE SetupResponse \/ ConnectionShutdown
  <2>1. inbox # <<>> /\ inbox' = Tail(inbox)
    BY <1>2, MessageRead DEF SetupResponse, ConnectionShutdown
  <2>2. UNCHANGED subs /\ at' = "wait"
    BY <1>2 DEF SetupResponse, ConnectionShutdown, ricVars
  <2> QED
    BY <1>1, <2>1, <2>2, RequestsMove DEF Requested, Busy
<1>3. CASE OnSubscription
  <2>1. inbox # <<>> /\ inbox' = Tail(inbox) /\ inbox[1].type = "sub" /\ Head(inbox) = inbox[1]
    BY <1>3, MessageRead DEF OnSubscription
  <2>2. UNCHANGED subs /\ at' = "subscribe" /\ req' = inbox[1].id
    BY <1>3, <2>1 DEF OnSubscription, ricVars
  <2>3. /\ \A k \in At({"sub", "del"})' : inbox'[k].id.i = req'.i => LossAfter(k)'
        /\ subs'[req'.i].st # "new" => Known(req, "asked")'
        /\ setup' = "answered" /\ At({"setup"})' = {} => subs'[req'.i].st # "new"
    BY <1>1, <2>1, <2>2, RequestTaken
  <2> QED
    BY <1>1, <2>1, <2>2, <2>3, RequestsMove DEF Requested
<1>4. CASE DeleteRequest
  <2>1. /\ inbox # <<>> /\ inbox' = Tail(inbox) /\ inbox[1].type = "del" /\ Head(inbox) = inbox[1]
        /\ inbox[1].id \in GenIds
    BY <1>4, MessageRead DEF DeleteRequest
  <2>2. CASE inbox[1].id \in Keys(table)
    <3>1. UNCHANGED subs /\ at' \in {"unsubscribe", "extract"} /\ req' = inbox[1].id
      BY <1>4, <2>1, <2>2 DEF DeleteRequest
    <3>2. /\ \A k \in At({"sub", "del"})' : inbox'[k].id.i = req'.i => LossAfter(k)'
          /\ subs'[req'.i].st # "new" => Known(req, "ending")'
          /\ setup' = "answered" /\ At({"setup"})' = {} => subs'[req'.i].st # "new"
      BY <1>1, <2>1, <3>1, RequestTaken
    <3> QED
      BY <1>1, <2>1, <3>1, <3>2, RequestsMove DEF Requested
  <2>3. CASE inbox[1].id \notin Keys(table)
    <3>1. at' = "wait" /\ AnswerSent(inbox[1].id, "ending", "new")
      BY <1>4, <2>1, <2>3 DEF DeleteRequest
    <3>2. up \in BOOLEAN /\ subs \in [Ids -> Subs]
      BY DEF Types, TypeOK, Subs
    <3>3. /\ \A i \in Ids : i # inbox[1].id.i => subs'[i] = subs[i]
          /\ \/ subs'[inbox[1].id.i] = subs[inbox[1].id.i]
             \/ Known(inbox[1].id, "ending") /\ subs'[inbox[1].id.i].st = "new"
      <4>1. ASSUME NEW id \in GenIds, id = inbox[1].id
            PROVE  /\ \A i \in Ids : i # id.i => subs'[i] = subs[i]
                   /\ subs'[id.i] = subs[id.i] \/ (Known(id, "ending") /\ subs'[id.i].st = "new")
        <5>1. AnswerSent(id, "ending", "new")
          BY <3>1, <4>1
        <5>2. /\ \A i \in Ids : i # id.i => subs'[i] = subs[i]
              /\ \/ subs'[id.i] = subs[id.i]
                 \/ Known(id, "ending") /\ subs'[id.i] = [f |-> id.f, st |-> "new"]
          BY <3>2, <5>1, Answered
        <5> QED
          BY <5>2
      <4> QED
        BY <2>1, <4>1
    <3>4. \A i \in Ids : \/ subs'[i] = subs[i]
                         \/ subs'[i].st = "new" /\ inbox[1].type = "del" /\ inbox[1].id.i = i
      BY <2>1, <3>3
    <3> QED
      BY <1>1, <2>1, <3>1, <3>4, RequestsMove DEF Requested, Busy
  <2> QED
    BY <2>2, <2>3
<1> QED
  BY <1>2, <1>3, <1>4 DEF Reads

\* The loop has dealt with a request.
LEMMA RequestedDone ==
  ASSUME Types, Requested, Busy, ~Busy', UNCHANGED <<setup, next, inbox>>,
         \A i \in Ids : subs'[i] = subs[i] \/ (i = req.i /\ subs[i].st # "new")
  PROVE  Requested'
<1>1. /\ \A T : At(T)' = At(T)
      /\ \A k : LossAfter(k)' <=> LossAfter(k)
  BY DEF At, LossAfter
<1>2. \A i \in Ids : subs'[i].st # "new" =>
        setup' \in {"answered", "again"} /\ At({"setup", "shutdown"})' = {} /\ i < next'
  BY <1>1 DEF Requested
<1>3. ASSUME NEW k \in At({"sub", "del"}), ~LossAfter(k)
      PROVE  subs'[inbox[k].id.i] = subs[inbox[k].id.i]
  <2>1. inbox[k].id.i \in Ids /\ inbox[k].id.i # req.i
    BY <1>3 DEF Types, Proper, GenIds, Requested
  <2> QED
    BY <2>1
<1>4. /\ \A k \in At({"sub"})' : LossAfter(k)' \/ Known(inbox[k].id, "asked")'
      /\ \A k \in At({"del"})' : LossAfter(k)' \/ Known(inbox[k].id, "ending")'
  BY <1>1, <1>3, Both DEF Requested, Known
<1>5. \A k, l \in At({"sub", "del"})' :
        k < l /\ inbox'[k].id.i = inbox'[l].id.i => LossAfter(l)'
  BY <1>1 DEF Requested
<1> QED
  BY <1>2, <1>4, <1>5 DEF Requested

\* A subscription is registered or taken out, and the RIC is told.
LEMMA RequestedAnswered ==
  ASSUME Types, Requested, RegisterSubscription \/ ExtractSubscription
  PROVE  Requested'
<1>1. /\ Busy /\ req \in GenIds /\ up \in BOOLEAN /\ subs \in [Ids -> Subs]
  BY DEF RegisterSubscription, ExtractSubscription, Types, Proper, TypeOK, Subs, Busy
<1>2. UNCHANGED <<setup, next, inbox, req>>
  BY DEF RegisterSubscription, ExtractSubscription
<1>3. ASSUME NEW st \in {"asked", "ending"}, NEW s \in {"held", "new"}, AnswerSent(req, st, s)
      PROVE  \A i \in Ids : subs'[i] = subs[i] \/ (i = req.i /\ subs[i].st # "new")
  <2>1. /\ \A i \in Ids : i # req.i => subs'[i] = subs[i]
        /\ subs'[req.i] = subs[req.i] \/ Known(req, st)
    BY <1>1, <1>3, Answered
  <2> QED
    BY <2>1 DEF Known
<1>4. CASE at' = "wait"
  <2>1. \E st \in {"asked", "ending"}, s \in {"held", "new"} : AnswerSent(req, st, s)
    BY <1>4 DEF RegisterSubscription, ExtractSubscription
  <2> QED
    BY <1>1, <1>2, <1>3, <1>4, <2>1, RequestedDone DEF Busy
<1>5. CASE at' = at /\ subs' = subs
  BY <1>1, <1>2, <1>5, RequestedUntouched DEF Busy
<1> QED
  BY <1>4, <1>5 DEF RegisterSubscription, ExtractSubscription

\* Every step keeps the requests in order.
LEMMA RequestedStep ==
  ASSUME Types, SetupTurns, Requested, Next
  PROVE  Requested'
<1>1. CASE Reads
  BY <1>1, RequestedReads
<1>2. CASE RicStop
  BY <1>2, RequestedStop
<1>3. CASE RicAnswersSetup
  BY <1>3, RequestedAnswer
<1>4. CASE \E f \in Funcs : RicSubscribes(f)
  BY <1>4, RequestedSubscribes
<1>5. CASE \E i \in Ids : RicDeletes(i)
  BY <1>5, RequestedDeletes
<1>6. CASE RegisterSubscription \/ ExtractSubscription
  BY <1>6, RequestedAnswered
<1>7. CASE ResendSetup
  <2>1. /\ UNCHANGED <<inbox, subs, next>> /\ at' = "wait"
        /\ setup \in {"answered", "again"} => setup' \in {"answered", "again"}
    BY <1>7 DEF ResendSetup, SetupRequestSent
  <2> QED
    BY <2>1, RequestedUntouched DEF Busy
<1>8. CASE UNCHANGED <<inbox, subs, next, setup>> /\ ~Reads /\ ~ExtractSubscription /\ ~RegisterSubscription
  <2>1. Busy' => Busy /\ req' = req /\ (at' = "subscribe" <=> at = "subscribe")
    <3>1. CASE at' = at
      BY <1>8, <3>1, LoopWriters DEF Busy, Reads
    <3>2. CASE FreeAgent
      BY <3>2 DEF FreeAgent, Busy
    <3>3. CASE Loop
      BY <1>8, <3>3 DEF Reads, Loop, EpollWait, FreeSubsAperiodic, TakeQueue, SendAperiodic,
         ReadPipe, ResendSetup, LoopEnds, PeriodicIndication, Busy
    <3> QED
      BY <3>1, <3>2, <3>3, LoopWriters
  <2> QED
    BY <1>8, <2>1, RequestedUntouched
<1> QED
  BY <1>1, <1>2, <1>3, <1>4, <1>5, <1>6, <1>7, <1>8, RicWriters, TableWriters DEF Reads
-----------------------------------------------------------------------------
(* The table *)

\* What the RIC was granted is in the table.
Granted ==
  Alive => \A i \in Ids : subs[i].st = "held" => [i |-> i, f |-> subs[i].f] \in Keys(table)

\* What the RAN reports for is in the table, or on its way into it.
Reported ==
  Alive =>
    /\ \A s \in wanted : s.f \in Aperiodic
    /\ wanted \subseteq Keys(table) \cup (IF at = "subscribe" THEN {req} ELSE {})
    /\ at = "extract" => req \notin wanted

\* The subscriptions in a table are those at its positions.
LEMMA KeysOf ==
  ASSUME NEW t \in Seq(Entries)
  PROVE  \A s : s \in Keys(t) <=> \E k \in 1..Len(t) : s = [i |-> t[k].i, f |-> t[k].f]
<1>1. DOMAIN t = 1..Len(t)
  BY LenProperties
<1> QED
  BY <1>1 DEF Keys, ToSet

\* A subscription that is registered is in the table, as are the others.
LEMMA KeysGrow ==
  ASSUME Types, RegisterSubscription
  PROVE  req \in GenIds /\ Keys(table') = Keys(table) \cup {req}
<1>1. req \in GenIds /\ table \in Seq(Entries) /\ Next
  BY DEF Types, TypeOK, Entries, Proper, Busy, RegisterSubscription, Next, Loop
<1>2. PICK e : table' = Append(table, e) /\ e.i = req.i /\ e.f = req.f
  BY DEF RegisterSubscription
<1>3. table' \in Seq(Entries)
  BY <1>1, TableTypesStep
<1>4. /\ Len(table) \in Nat /\ Len(table') = Len(table) + 1 /\ table'[Len(table) + 1] = e
      /\ \A k \in 1..Len(table) : table'[k] = table[k]
  BY <1>1, <1>2
<1>5. /\ \A k \in 1..Len(table') : k \in 1..Len(table) \/ k = Len(table) + 1
      /\ \A k \in 1..Len(table) : k \in 1..Len(table')
      /\ Len(table) + 1 \in 1..Len(table')
  BY <1>4
<1>6. req = [i |-> e.i, f |-> e.f]
  BY <1>1, <1>2 DEF GenIds
<1>7. \A s : s \in Keys(table') <=> \E k \in 1..Len(table') : s = [i |-> table'[k].i, f |-> table'[k].f]
  BY <1>3, KeysOf
<1>8. \A s : s \in Keys(table) <=> \E k \in 1..Len(table) : s = [i |-> table[k].i, f |-> table[k].f]
  BY <1>1, KeysOf
<1> DEFINE key(t, k) == [i |-> t[k].i, f |-> t[k].f]
<1>9. (\A k \in 1..Len(table) : key(table', k) = key(table, k)) /\ key(table', Len(table) + 1) = req
  BY <1>4, <1>6
<1>10. /\ \A s : s \in Keys(table') <=> \E k \in 1..Len(table') : s = key(table', k)
       /\ \A s : s \in Keys(table) <=> \E k \in 1..Len(table) : s = key(table, k)
  BY <1>7, <1>8
<1> HIDE DEF key
<1>11. ASSUME NEW s \in Keys(table') PROVE s \in Keys(table) \cup {req}
  <2>1. PICK k \in 1..Len(table') : s = key(table', k)
    BY <1>10
  <2> QED
    BY <1>5, <1>9, <1>10, <2>1
<1>12. ASSUME NEW s \in Keys(table) \cup {req} PROVE s \in Keys(table')
  BY <1>5, <1>9, <1>10
<1> QED
  BY <1>1, <1>11, <1>12

\* Only the subscription that the loop removes is taken out.
LEMMA KeysShrink ==
  ASSUME Types, ExtractSubscription
  PROVE  req \in GenIds /\ \A s \in Keys(table) : s = req \/ s \in Keys(table')
<1>1. req \in GenIds /\ table \in Seq(Entries) /\ Next
  BY DEF Types, TypeOK, Entries, Proper, Busy, ExtractSubscription, Next, Loop
<1>2. CASE table' = table
  BY <1>1, <1>2
<1>3. CASE \E k \in 1..Len(table) : /\ table' = RemoveAt(table, k)
                                    /\ table[k].i = req.i /\ table[k].f = req.f
  <2>1. PICK k \in 1..Len(table) : /\ table' = RemoveAt(table, k)
                                   /\ table[k].i = req.i /\ table[k].f = req.f
    BY <1>3
  <2>2. /\ table' \in Seq(Entries) /\ Len(table') = Len(table) - 1
        /\ \A j \in 1..Len(table)-1 : table'[j] = IF j < k THEN table[j] ELSE table[j + 1]
        /\ Len(table) \in Nat
    <3>1. Len(table) \in Nat
      BY <1>1, LenProperties
    <3> QED
      BY <1>1, <2>1, <3>1, Removed
  <2>3. \A j \in 1..Len(table) : j # k => \E l \in 1..Len(table') : table'[l] = table[j]
    <3>1. ASSUME NEW j \in 1..Len(table), j < k
          PROVE  j \in 1..Len(table)-1 /\ table'[j] = table[j]
      BY <2>2, <3>1
    <3>2. ASSUME NEW j \in 1..Len(table), j > k
          PROVE  j - 1 \in 1..Len(table)-1 /\ table'[j - 1] = table[j]
      <4>1. j - 1 \in 1..Len(table)-1 /\ ~(j - 1 < k) /\ (j - 1) + 1 = j
        BY <2>2, <3>2
      <4> QED
        BY <2>2, <4>1
    <3> SUFFICES ASSUME NEW j \in 1..Len(table), j # k
                 PROVE  \E l \in 1..Len(table') : table'[l] = table[j]
      OBVIOUS
    <3>3. CASE j < k
      BY <2>2, <3>1, <3>3
    <3>4. CASE j > k
      BY <2>2, <3>2, <3>4
    <3> QED
      BY <3>3, <3>4
  <2>4. [i |-> table[k].i, f |-> table[k].f] = req
    BY <1>1, <2>1 DEF GenIds
  <2>5. ASSUME NEW s \in Keys(table), s # req PROVE s \in Keys(table')
    <3>1. PICK j \in 1..Len(table) : s = [i |-> table[j].i, f |-> table[j].f]
      BY <1>1, KeysOf
    <3>2. j # k
      BY <2>4, <2>5, <3>1
    <3>3. PICK l \in 1..Len(table') : table'[l] = table[j]
      BY <2>3, <3>2
    <3> QED
      BY <2>2, <3>1, <3>3, KeysOf
  <2> QED
    BY <1>1, <2>5
<1> QED
  BY <1>2, <1>3 DEF ExtractSubscription, TopMost

\* What is held was held before, unless the loop has just registered it.
LEMMA HeldBefore ==
  ASSUME Types, Next, NEW i \in Ids, subs'[i].st = "held"
  PROVE  \/ subs'[i] = subs[i]
         \/ RegisterSubscription /\ i = req.i /\ subs'[i].f = req.f
<1>0. up \in BOOLEAN /\ subs \in [Ids -> Subs]
  BY DEF Types, TypeOK, Subs
<1>1. CASE UNCHANGED subs
  BY <1>1
<1>2. CASE RicStop
  BY <1>2 DEF RicStop, NoSub
<1>3. ASSUME NEW f \in Funcs, RicSubscribes(f) PROVE subs'[i] = subs[i]
  <2>1. next \in Ids /\ subs' = [subs EXCEPT ![next] = [f |-> f, st |-> "asked"]]
    BY <1>3, SubscriptionSent DEF RicSubscribes
  <2> QED
    BY <1>0, <2>1
<1>4. ASSUME NEW j \in Ids, RicDeletes(j) PROVE subs'[i] = subs[i]
  <2>1. subs' = [subs EXCEPT ![j] = [f |-> subs[j].f, st |-> "ending"]]
    BY <1>4, DeletionSent
  <2> QED
    BY <1>0, <2>1
<1>5. CASE RegisterSubscription
  <2>1. req \in GenIds /\ AnswerSent(req, "asked", "held")
    BY <1>5, KeysGrow DEF RegisterSubscription
  <2>2. /\ \A j \in Ids : j # req.i => subs'[j] = subs[j]
        /\ \/ subs'[req.i] = subs[req.i]
           \/ subs'[req.i] = [f |-> req.f, st |-> "held"]
    BY <1>0, <2>1, Answered
  <2> QED
    BY <1>5, <2>2
<1>6. ASSUME NEW id \in GenIds, AnswerSent(id, "ending", "new") PROVE subs'[i] = subs[i]
  <2>1. /\ \A j \in Ids : j # id.i => subs'[j] = subs[j]
        /\ \/ subs'[id.i] = subs[id.i]
           \/ subs'[id.i] = [f |-> id.f, st |-> "new"]
    BY <1>0, <1>6, Answered
  <2> QED
    BY <2>1
<1>7. CASE DeleteRequest
  <2>1. Head(inbox).id \in GenIds
    BY <1>7, MessageRead DEF DeleteRequest
  <2>2. subs' = subs \/ AnswerSent(Head(inbox).id, "ending", "new")
    BY <1>7 DEF DeleteRequest
  <2> QED
    BY <1>6, <2>1, <2>2
<1>8. CASE ExtractSubscription
  <2>1. req \in GenIds /\ (subs' = subs \/ AnswerSent(req, "ending", "new"))
    BY <1>8, KeysShrink DEF ExtractSubscription
  <2> QED
    BY <1>6, <2>1
<1> QED
  BY <1>1, <1>2, <1>3, <1>4, <1>5, <1>7, <1>8, RicWriters

\* What is granted stays registered until the RIC wants it removed.
LEMMA GrantedStep ==
  ASSUME Types, Requested, Granted, Next
  PROVE  Granted'
<1> SUFFICES ASSUME Alive', NEW i \in Ids, subs'[i].st = "held"
             PROVE  [i |-> i, f |-> subs'[i].f] \in Keys(table')
  BY DEF Granted, Keys
<1>1. Alive /\ ~FreeAgent
  BY AliveBefore
<1>2. CASE RegisterSubscription /\ i = req.i /\ subs'[i].f = req.f
  <2>1. req = [i |-> i, f |-> subs'[i].f]
    BY <1>2, KeysGrow DEF GenIds
  <2> QED
    BY <1>2, <2>1, KeysGrow
<1>3. CASE subs'[i] = subs[i]
  <2>1. [i |-> i, f |-> subs[i].f] \in Keys(table)
    BY <1>1, <1>3 DEF Granted
  <2>2. CASE RegisterSubscription
    BY <1>3, <2>1, <2>2, KeysGrow
  <2>3. CASE ExtractSubscription
    <3>1. at = "extract" /\ req \in GenIds
      BY <2>3, KeysShrink DEF ExtractSubscription
    <3>2. req # [i |-> i, f |-> subs[i].f]
      <4>1. SUFFICES ASSUME req = [i |-> i, f |-> subs[i].f] PROVE FALSE
        OBVIOUS
      <4>2. req.i = i /\ subs[req.i].st = "held"
        BY <1>3, <4>1
      <4>3. Known(req, "ending")
        BY <3>1, <4>2 DEF Requested, Busy
      <4> QED
        BY <4>2, <4>3 DEF Known
    <3> QED
      BY <1>3, <2>1, <2>3, <3>2, KeysShrink
  <2>4. CASE table' = table
    BY <1>3, <2>1, <2>4
  <2> QED
    BY <1>1, <2>2, <2>3, <2>4, TableWriters
<1> QED
  BY <1>2, <1>3, HeldBefore

\* The RAN reports for nothing that the loop has taken out.
LEMMA ReportedStep ==
  ASSUME Types, Reported, Next
  PROVE  Reported'
<1> SUFFICES ASSUME Alive'
             PROVE  /\ \A s \in wanted' : s.f \in Aperiodic
                    /\ wanted' \subseteq Keys(table') \cup (IF at' = "subscribe" THEN {req'} ELSE {})
                    /\ at' = "extract" => req' \notin wanted'
  BY DEF Reported, Keys
<1>1. /\ ~FreeAgent
      /\ \A s \in wanted : s.f \in Aperiodic
      /\ wanted \subseteq Keys(table) \cup (IF at = "subscribe" THEN {req} ELSE {})
      /\ at = "extract" => req \notin wanted
  BY AliveBefore DEF Reported
<1>2. CASE OnSubscription
  BY <1>1, <1>2 DEF OnSubscription, Received
<1>3. CASE FreeSubsAperiodic
  BY <1>1, <1>3 DEF FreeSubsAperiodic
<1>4. CASE StopAgent
  BY <1>4 DEF StopAgent
<1>5. CASE RegisterSubscription
  <2>1. wanted' = wanted /\ at' = "wait" /\ at = "subscribe"
    BY <1>5 DEF RegisterSubscription, ranVars
  <2> QED
    BY <1>1, <1>5, <2>1, KeysGrow
<1>6. CASE ExtractSubscription
  <2>1. wanted' = wanted /\ at' \in {"wait", "extract"} /\ at = "extract" /\ req' = req
    BY <1>6 DEF ExtractSubscription, ranVars
  <2> QED
    BY <1>1, <1>6, <2>1, KeysShrink
<1>7. CASE DeleteRequest
  <2>1. UNCHANGED <<wanted, table>> /\ at = "event"
    BY <1>7 DEF DeleteRequest, ranVars, Received
  <2>2. at' # "subscribe" /\ (at' = "extract" => req'.f \notin Aperiodic)
    BY <1>7 DEF DeleteRequest
  <2> QED
    BY <1>1, <2>1, <2>2
<1>8. CASE /\ UNCHANGED <<wanted, table, req>>
           /\ ~OnSubscription /\ ~FreeSubsAperiodic /\ ~RegisterSubscription
           /\ ~ExtractSubscription /\ ~DeleteRequest
  <2>1. at' \in {"subscribe", "extract"} \/ at = "subscribe" => at' = at
    <3>1. CASE Loop
      BY <1>8, <3>1 DEF Loop, EpollWait, SetupResponse, ConnectionShutdown, Received, TakeQueue,
         SendAperiodic, ReadPipe, ResendSetup, LoopEnds, PeriodicIndication
    <3> QED
      BY <1>1, <3>1, LoopWriters
  <2> QED
    BY <1>1, <1>8, <2>1
<1> QED
  BY <1>1, <1>2, <1>3, <1>4, <1>5, <1>6, <1>7, <1>8, RanWriters, TableWriters, LoopWriters
-----------------------------------------------------------------------------
(* While the environment keeps its manners *)

\* A thread that looks for its subscription has one.
LooksForOwn ==
  kept /\ Alive => \A i \in Ids : th[i] = "look" => \E s \in wanted : s.i = i

\* The set-up procedure has one timer until it is answered, and the answer is in time.
SetupInTime ==
  kept /\ Alive =>
    /\ setup # "again"
    /\ setup = "none" =>
         \/ Len(inbox) = 1 /\ inbox[1].type = "shutdown" /\ pending = <<>>
         \/ inbox = <<>> /\ Len(pending) = 1
    /\ setup = "asked" => inbox = <<>> /\ Len(pending) = 1
    /\ setup = "answered" =>
         \/ Len(inbox) = 1 /\ inbox[1].type = "setup" /\ Len(pending) = 1
         \/ At({"setup", "shutdown"}) = {} /\ pending = <<>>
    /\ setup # "none" => \A k \in 1..Len(pending) : pending[k] \notin expired

\* Manners that were lost do not come back.
LEMMA KeptBefore ==
  ASSUME Types, Next, kept'
  PROVE  kept
<1>1. kept \in BOOLEAN
  BY DEF Types, TypeOK
<1>2. CASE \E i \in Ids : LookUp(i)
  BY <1>1, <1>2 DEF LookUp
<1> QED
  BY <1>1, <1>2, RicWriters DEF RicStop, FreeSubsAperiodic, TimerExpires

\* Reports keep clear of the removal of subscriptions.
LEMMA LooksForOwnStep ==
  ASSUME Types, LooksForOwn, Next
  PROVE  LooksForOwn'
<1> SUFFICES ASSUME kept', Alive', NEW i \in Ids, th'[i] = "look"
             PROVE  \E s \in wanted' : s.i = i
  BY DEF LooksForOwn
<1>1. kept /\ Alive /\ th \in [Ids -> Calls]
  BY KeptBefore, AliveBefore DEF Types, TypeOK, Calls
<1>2. CASE \E j \in Ids : EventHappens(j)
  <2> PICK j \in Ids : EventHappens(j)
    BY <1>2
  <2>1. wanted' = wanted /\ th' = [th EXCEPT ![j] = "look"] /\ \E s \in wanted : s.i = j
    BY DEF EventHappens
  <2> QED
    BY <1>1, <2>1 DEF LooksForOwn
<1>3. CASE \E j \in Ids : Ran(j)
  <2> PICK j \in Ids : Ran(j)
    BY <1>3
  <2>1. wanted' = wanted
    BY DEF Ran, LookUp, PushIndication, WritePipe
  <2>2. th' = th \/ th' = [th EXCEPT ![j] = "push"] \/ th' = [th EXCEPT ![j] = "write"]
        \/ th' = [th EXCEPT ![j] = "idle"]
    BY DEF Ran, LookUp, PushIndication, WritePipe
  <2> QED
    BY <1>1, <2>1, <2>2 DEF LooksForOwn
<1>4. CASE UNCHANGED th
  <2>1. th[i] = "look" /\ \E s \in wanted : s.i = i
    BY <1>1, <1>4 DEF LooksForOwn
  <2>2. CASE OnSubscription
    BY <2>1, <2>2 DEF OnSubscription
  <2>3. CASE FreeSubsAperiodic
    <3>1. th[req.i] = "idle" /\ wanted' = wanted \ {req}
      BY <1>1, <2>3 DEF FreeSubsAperiodic
    <3> QED
      BY <2>1, <3>1
  <2>4. CASE StopAgent
    BY <2>1, <2>4 DEF StopAgent
  <2>5. CASE UNCHANGED wanted
    BY <2>1, <2>5
  <2> QED
    BY <2>2, <2>3, <2>4, <2>5, RanWriters
<1> QED
  BY <1>2, <1>3, <1>4, RanWriters

\* Messages sent and read keep the set-up procedure in time.
LEMMA SetupInTimeMessages ==
  ASSUME Types, SetupTurns, Requested, SetupInTime, Next, kept', Alive',
         RicStop \/ RicAnswersSetup \/ Reads \/ (\E f \in Funcs : RicSubscribes(f))
           \/ \E i \in Ids : RicDeletes(i)
  PROVE  SetupInTime'
<1>1. /\ kept /\ Alive /\ inbox \in Seq(Messages) /\ pending \in Seq(Nat)
      /\ setup \in {"none", "asked", "answered", "again"}
  BY KeptBefore, AliveBefore DEF Types, TypeOK, Messages
<1>2. /\ setup # "again"
      /\ setup = "none" =>
           \/ Len(inbox) = 1 /\ inbox[1].type = "shutdown" /\ pending = <<>>
           \/ inbox = <<>> /\ Len(pending) = 1
      /\ setup = "asked" => inbox = <<>> /\ Len(pending) = 1
      /\ setup = "answered" =>
           \/ Len(inbox) = 1 /\ inbox[1].type = "setup" /\ Len(pending) = 1
           \/ At({"setup", "shutdown"}) = {} /\ pending = <<>>
      /\ setup # "none" => \A k \in 1..Len(pending) : pending[k] \notin expired
  BY <1>1 DEF SetupInTime
<1>3. At({"setup", "shutdown"}) = {} =>
        ~(Len(inbox) >= 1 /\ inbox[1].type \in {"setup", "shutdown"})
  BY <1>1 DEF At
<1>4. CASE RicStop
  <2>1. /\ setup = "answered" /\ inbox = <<>> /\ setup' = "none" /\ UNCHANGED pending
        /\ inbox' = Append(inbox, [type |-> "shutdown", id |-> NoId])
    BY <1>1, <1>4 DEF RicStop, ToAgent
  <2>2. pending = <<>>
    BY <1>2, <2>1
  <2>3. Len(inbox') = 1 /\ inbox'[1].type = "shutdown"
    BY <2>1
  <2> QED
    BY <2>1, <2>2, <2>3 DEF SetupInTime
<1>5. CASE RicAnswersSetup
  <2>1. /\ setup = "asked" /\ setup' = "answered" /\ UNCHANGED <<pending, expired>>
        /\ inbox' = Append(inbox, [type |-> "setup", id |-> NoId])
    BY <1>5 DEF RicAnswersSetup, ToAgent
  <2>2. inbox = <<>> /\ Len(pending) = 1 /\ \A k \in 1..Len(pending) : pending[k] \notin expired
    BY <1>2, <2>1
  <2>3. Len(inbox') = 1 /\ inbox'[1].type = "setup"
    BY <2>1, <2>2
  <2> QED
    BY <2>1, <2>2, <2>3 DEF SetupInTime
<1>6. CASE SetupResponse
  <2>1. inbox # <<>> /\ inbox[1].type = "setup" /\ inbox' = Tail(inbox) /\ UNCHANGED setup
    BY <1>6, MessageRead DEF SetupResponse, ricVars
  <2>2. Len(inbox) \in Nat /\ Len(inbox) >= 1
    BY <1>1, <2>1
  <2>3. setup = "answered" /\ Len(inbox) = 1 /\ Len(pending) = 1
    BY <1>1, <1>2, <1>3, <2>1, <2>2
  <2>4. inbox' = <<>> /\ pending' = <<>>
    <3>0. pending # <<>>
      BY <2>3
    <3>1. pending' = Tail(pending)
      BY <1>6, <3>0 DEF SetupResponse
    <3>2. /\ Tail(inbox) \in Seq(Messages) /\ Len(Tail(inbox)) = 0
          /\ Tail(pending) \in Seq(Nat) /\ Len(Tail(pending)) = 0
      BY <1>1, <2>1, <2>3, <3>0, HeadTail
    <3> QED
      BY <2>1, <3>1, <3>2
  <2>5. At({"setup", "shutdown"})' = {}
    BY <2>4 DEF At
  <2> QED
    BY <2>1, <2>3, <2>4, <2>5 DEF SetupInTime
<1>7. CASE ConnectionShutdown
  <2>1. /\ inbox # <<>> /\ inbox[1].type = "shutdown" /\ inbox' = Tail(inbox) /\ UNCHANGED setup
        /\ pending' = Append(pending, NewFd)
    BY <1>7, MessageRead DEF ConnectionShutdown, ricVars
  <2>2. Len(inbox) \in Nat /\ Len(inbox) >= 1
    BY <1>1, <2>1
  <2>3. setup = "none" /\ Len(inbox) = 1 /\ pending = <<>>
    BY <1>1, <1>2, <1>3, <2>1, <2>2
  <2>4. inbox' = <<>> /\ Len(pending') = 1
    <3>1. Tail(inbox) \in Seq(Messages) /\ Len(Tail(inbox)) = 0
      BY <1>1, <2>1, <2>3, HeadTail
    <3> QED
      BY <2>1, <2>3, <3>1
  <2> QED
    BY <2>1, <2>3, <2>4 DEF SetupInTime
<1>8. CASE OnSubscription \/ DeleteRequest
  <2>1. PICK type \in {"sub", "del"} : Received(type)
    BY <1>8 DEF OnSubscription, DeleteRequest
  <2>2. inbox # <<>> /\ inbox[1].type \in {"sub", "del"} /\ inbox' = Tail(inbox)
    BY <2>1, MessageRead
  <2>3. UNCHANGED <<setup, pending, expired>>
    BY <1>8 DEF OnSubscription, DeleteRequest, ricVars
  <2>4. setup = "answered" /\ At({"setup", "shutdown"}) = {} /\ pending = <<>>
    BY <1>1, <1>2, <2>2
  <2>5. At({"setup", "shutdown"})' = {}
    BY <2>2, <2>4, MessagesMove
  <2> QED
    BY <2>3, <2>4, <2>5 DEF SetupInTime
<1>9. CASE (\E f \in Funcs : RicSubscribes(f)) \/ \E i \in Ids : RicDeletes(i)
  <2>1. UNCHANGED <<setup, pending, expired>>
    BY <1>9 DEF RicSubscribes, RicDeletes
  <2>2. PICK m \in Messages : inbox' = Append(inbox, m) /\ m.type \notin {"setup", "shutdown"}
    <3>1. CASE \E f \in Funcs : RicSubscribes(f)
      BY <3>1, SubscriptionSent
    <3>2. CASE \E i \in Ids : RicDeletes(i)
      BY <3>2, DeletionSent
    <3> QED
      BY <1>9, <3>1, <3>2
  <2>3. setup = "answered" /\ At({"setup", "shutdown"}) = {} /\ pending = <<>>
    <3>1. CASE \E f \in Funcs : RicSubscribes(f)
      <4>1. setup = "answered" /\ ~ \E x \in ToSet(inbox) : x.type = "setup"
        BY <3>1 DEF RicSubscribes
      <4>2. ~(Len(inbox) = 1 /\ inbox[1].type = "setup")
        BY <1>1, <4>1, LenProperties DEF ToSet
      <4> QED
        BY <1>2, <4>1, <4>2
    <3>2. CASE \E i \in Ids : RicDeletes(i)
      <4>1. setup \in {"answered", "again"} /\ At({"setup", "shutdown"}) = {}
        BY <3>2, DeletionSent DEF Requested
      <4> QED
        BY <1>1, <1>2, <1>3, <4>1
    <3> QED
      BY <1>9, <3>1, <3>2
  <2>4. At({"setup", "shutdown"})' = {}
    BY <2>2, <2>3, MessageAdded
  <2> QED
    BY <2>1, <2>3, <2>4 DEF SetupInTime
<1> QED
  BY <1>4, <1>5, <1>6, <1>7, <1>8, <1>9 DEF Reads

\* An event that is neither of the socket nor of the pipe, nor of a subscription, is of
\* a timer of the set-up request.
LEMMA ResendIsPending ==
  ASSUME Types, Timers, ResendSetup
  PROVE  /\ ev \in expired
         /\ \E k \in 1..Len(pending) : pending[k] = ev
<1>1. /\ at = "event" /\ ev \notin {NET, PIPE} /\ table \in Seq(Entries)
      /\ ~ \E e \in ToSet(table) : e.fd = ev
  BY DEF ResendSetup, Types, TypeOK, Entries
<1>2. ev \in expired /\ ev \in TimerFds
  BY <1>1 DEF Timers, Alive
<1>3. ~ \E k \in 1..Len(table) : table[k].fd = ev
  BY <1>1, LenProperties DEF ToSet
<1> QED
  BY <1>2, <1>3, TimerFdsAre

\* The request for the set-up is sent again only to a RIC that has not heard it.
LEMMA SetupInTimeResend ==
  ASSUME Types, Timers, SetupInTime, ResendSetup, kept, Alive
  PROVE  SetupInTime'
<1>1. /\ setup \in {"none", "asked", "answered", "again"} /\ pending \in Seq(Nat)
      /\ UNCHANGED <<inbox, pending>>
  BY DEF Types, TypeOK, ResendSetup
<1>2. PICK k \in 1..Len(pending) : pending[k] = ev /\ ev \in expired
  BY ResendIsPending
<1>3. setup = "none" /\ inbox = <<>> /\ Len(pending) = 1
  <2>1. pending # <<>>
    BY <1>1, <1>2
  <2> QED
    BY <1>1, <1>2, <2>1 DEF SetupInTime
<1>4. pending = <<ev>> /\ k = 1
  BY <1>1, <1>2, <1>3
<1>5. expired' = expired \ {ev} /\ setup' \in {"none", "asked"}
  BY <1>3, <1>4 DEF ResendSetup, SetupRequestSent
<1>6. \A l \in 1..Len(pending') : pending'[l] \notin expired'
  BY <1>1, <1>4, <1>5
<1> QED
  BY <1>1, <1>3, <1>5, <1>6 DEF SetupInTime

\* The set-up procedure stays in time.
LEMMA SetupInTimeStep ==
  ASSUME Types, Timers, SetupTurns, Requested, SetupInTime, Next
  PROVE  SetupInTime'
<1> SUFFICES ASSUME kept', Alive' PROVE SetupInTime'
  BY DEF SetupInTime
<1>1. kept /\ Alive /\ ~FreeAgent
  BY KeptBefore, AliveBefore
<1>2. CASE RicStop \/ RicAnswersSetup \/ Reads \/ (\E f \in Funcs : RicSubscribes(f))
           \/ \E i \in Ids : RicDeletes(i)
  BY <1>2, SetupInTimeMessages
<1>3. CASE ResendSetup
  BY <1>1, <1>3, SetupInTimeResend
<1>4. CASE UNCHANGED <<inbox, setup, pending>>
  <2>1. At({"setup", "shutdown"})' = At({"setup", "shutdown"})
    BY <1>4 DEF At
  <2>2. setup # "none" => \A k \in 1..Len(pending) : pending[k] \notin expired'
    <3>1. setup # "none" => \A k \in 1..Len(pending) : pending[k] \notin expired
      BY <1>1 DEF SetupInTime
    <3>2. CASE \E fd \in TimerFds : TimerExpires(fd)
      <4> PICK fd \in TimerFds : TimerExpires(fd)
        BY <3>2
      <4>1. expired' = expired \cup {fd} /\ (fd \in ToSet(pending) => setup = "none" \/ ~up)
        BY <1>1 DEF TimerExpires
      <4>2. fd \in ToSet(pending) => setup = "none"
        BY <4>1 DEF SetupTurns
      <4>3. \A k \in 1..Len(pending) : pending[k] \in ToSet(pending)
        BY LenProperties DEF ToSet, Types, TypeOK
      <4> QED
        BY <3>1, <4>1, <4>2, <4>3
    <3>3. CASE UNCHANGED expired \/ SetupResponse \/ ExtractSubscription \/ ResendSetup
               \/ \E e \in ToSet(table) : PeriodicIndication(e)
      <4>1. expired' \subseteq expired
        BY <3>3 DEF SetupResponse, ExtractSubscription, ResendSetup, PeriodicIndication
      <4> QED
        BY <3>1, <4>1
    <3> QED
      BY <3>2, <3>3, TableWriters
  <2> QED
    BY <1>1, <1>4, <2>1, <2>2 DEF SetupInTime
<1> QED
  BY <1>1, <1>2, <1>3, <1>4, TableWriters, RicWriters DEF Reads

\* At first there is the timer of the first request.
LEMMA SetupInTimeInit == Init => SetupInTime
<1> SUFFICES ASSUME Init PROVE SetupInTime
  OBVIOUS
<1>1. /\ inbox = <<>> /\ pending = <<FirstTimer>> /\ expired = {}
      /\ setup \in {"none", "asked"}
  BY DEF Init
<1>2. Len(pending) = 1
  BY <1>1
<1> QED
  BY <1>1, <1>2 DEF SetupInTime
-----------------------------------------------------------------------------
(* The agent and the RIC *)

AgentInv ==
  /\ Types
  /\ Timers
  /\ SetupTurns
  /\ Requested
  /\ Granted
  /\ Reported
  /\ LooksForOwn
  /\ SetupInTime

\* At first nothing is asked for and nothing is registered.
LEMMA AgentInvInit == Init => AgentInv
<1> SUFFICES ASSUME Init PROVE AgentInv
  OBVIOUS
<1>1. Granted
  BY DEF Init, Granted, NoSub
<1>2. Reported
  BY DEF Init, Reported
<1>3. LooksForOwn
  BY DEF Init, LooksForOwn
<1> QED
  BY <1>1, <1>2, <1>3, TypesInit, TimersInit, SetupTurnsInit, RequestedInit, SetupInTimeInit
  DEF AgentInv

\* Steps of others change nothing.
LEMMA AgentInvStutters ==
  ASSUME AgentInv, UNCHANGED vars
  PROVE  AgentInv'
<1>1. /\ UNCHANGED <<up, setup, subs, next, kept, inbox, table, pending, expired>>
      /\ UNCHANGED <<at, ev, req, wanted, th>>
  BY DEF vars, ricVars, loopVars, ranVars
<1>2. Types'
  BY TypesStep DEF AgentInv
<1>3. Timers'
  BY <1>1 DEF AgentInv, Timers, Numbered, Alive, TimerFds
<1>4. /\ \A T : At(T)' = At(T)
      /\ \A k : LossAfter(k)' <=> LossAfter(k)
  BY <1>1 DEF At, LossAfter
<1>5. SetupTurns'
  BY <1>1, <1>4 DEF AgentInv, SetupTurns, Alive
<1>6. Requested'
  BY <1>1, RequestedUntouched DEF AgentInv, Busy
<1>7. Granted' /\ Reported' /\ LooksForOwn'
  BY <1>1 DEF AgentInv, Granted, Reported, LooksForOwn, Alive, Keys
<1>8. SetupInTime'
  BY <1>1, <1>4 DEF AgentInv, SetupInTime, Alive
<1> QED
  BY <1>2, <1>3, <1>5, <1>6, <1>7, <1>8 DEF AgentInv

\* Every step keeps the invariant.
LEMMA AgentInvStep ==
  ASSUME AgentInv, [Next]_vars
  PROVE  AgentInv'
<1>1. CASE UNCHANGED vars
  BY <1>1, AgentInvStutters
<1>2. CASE Next
  BY <1>2, TypesStep, TimersStep, SetupTurnsStep, RequestedStep, GrantedStep, ReportedStep,
     LooksForOwnStep, SetupInTimeStep DEF AgentInv
<1> QED
  BY <1>1, <1>2

\* What the RIC was granted is registered, under a timer of its own.
LEMMA HeldByInvariant ==
  ASSUME AgentInv
  PROVE  HeldIsRegistered
<1> SUFFICES ASSUME Alive, NEW i \in Ids, subs[i].st = "held"
             PROVE  /\ [i |-> i, f |-> subs[i].f] \in Keys(table)
                    /\ \A k, l \in 1..Len(table) : table[k].fd = table[l].fd /\ table[k].fd # 0 => k = l
                    /\ \A e \in ToSet(table) : e.fd \notin ToSet(pending)
  BY DEF HeldIsRegistered, Alive
<1>1. [i |-> i, f |-> subs[i].f] \in Keys(table)
  BY DEF AgentInv, Granted
<1>2. Numbered
  BY DEF AgentInv, Timers
<1>3. ASSUME NEW e \in ToSet(table), e.fd \in ToSet(pending) PROVE FALSE
  <2>1. table \in Seq(Entries) /\ pending \in Seq(Nat)
    BY DEF AgentInv, Types, TypeOK, Entries
  <2>2. (\E k \in 1..Len(table) : table[k] = e) /\ \E l \in 1..Len(pending) : pending[l] = e.fd
    BY <1>3, <2>1, LenProperties DEF ToSet
  <2> QED
    BY <1>2, <2>2 DEF Numbered
<1> QED
  BY <1>1, <1>2, <1>3 DEF Numbered

\* What the RIC was granted and holds is registered at the agent, under a timer of its
\* own if it is periodic (add_ind_event, rm_ind_event and the numbers timerfd_create
\* gives), for every number of subscriptions and lives of the RIC.
THEOREM HeldAreRegistered == Spec => []HeldIsRegistered
<1>1. Init => AgentInv
  BY AgentInvInit
<1>2. AgentInv /\ [Next]_vars => AgentInv'
  BY AgentInvStep
<1>3. AgentInv => HeldIsRegistered
  BY HeldByInvariant
<1> QED
  BY <1>1, <1>2, <1>3, PTL DEF Spec

-----------------------------------------------------------------------------
(* Assertions *)

\* Two things are two.
LEMMA TwoMembers ==
  ASSUME NEW a, NEW b, a # b
  PROVE  Cardinality({a, b}) = 2
<1>1. IsFiniteSet({a}) /\ Cardinality({a}) = 1
  BY FS_Singleton
<1>2. b \notin {a} /\ {a} \cup {b} = {a, b}
  OBVIOUS
<1>3. Cardinality({a} \cup {b}) = Cardinality({a}) + 1
  BY <1>1, <1>2, FS_AddElement
<1> QED
  BY <1>1, <1>2, <1>3

\* A removal fails only when another aperiodic subscription has the same left key.
LEMMA ExtractFails ==
  ASSUME AgentInv, ExtractSubscription, abort' # "none"
  PROVE  abort' = "keys differ" /\ Cardinality({e \in ToSet(table') : e.fd = 0}) > 1
<1>1. /\ table \in Seq(Entries) /\ Numbered /\ Running /\ at = "extract"
  BY DEF AgentInv, Types, TypeOK, Entries, Timers, Alive, ExtractSubscription
<1>2. PICK k \in 1..Len(table), l \in 1..Len(table) :
        /\ table[k].i = req.i /\ table[k].f = req.f /\ table[l].fd = table[k].fd
        /\ [i |-> table[l].i, f |-> table[l].f] # req
        /\ abort' = "keys differ" /\ table' = table
  BY <1>1 DEF ExtractSubscription, TopMost, Running
<1>3. req \in GenIds
  BY <1>1 DEF AgentInv, Types, Proper, Busy
<1>4. table[k] # table[l]
  BY <1>2, <1>3 DEF GenIds
<1>5. table[k].fd = 0 /\ table[l].fd = 0
  BY <1>1, <1>2, <1>4 DEF Numbered
<1> DEFINE S == {e \in ToSet(table) : e.fd = 0}
<1>6. table[k] \in S /\ table[l] \in S
  BY <1>1, <1>5, LenProperties DEF ToSet
<1>7. IsFiniteSet(S)
  <2>1. IsFiniteSet(ToSet(table))
    BY <1>1, MembersFinite
  <2> QED
    BY <2>1, FS_Subset
<1>8. Cardinality(S) > 1
  <2>1. {table[k], table[l]} \subseteq S /\ Cardinality({table[k], table[l]}) = 2
    BY <1>4, <1>6, TwoMembers
  <2> HIDE DEF S
  <2> QED
    BY <1>7, <2>1, FS_Subset, FS_CardinalityType
<1> QED
  BY <1>2, <1>8

\* An event of no subscription is of the timer of the set-up request; others may be open
\* when the RIC stopped again before the answer.
LEMMA ResendFails ==
  ASSUME AgentInv, ResendSetup, abort' # "none"
  PROVE  abort' = "not one pending request" /\ Len(pending') > 1 /\ ~kept'
<1>1. /\ pending \in Seq(Nat) /\ setup \in {"none", "asked", "answered", "again"}
      /\ UNCHANGED <<pending, kept>> /\ Running /\ Alive
  BY DEF AgentInv, Types, TypeOK, ResendSetup, Alive
<1>2. PICK k \in 1..Len(pending) : pending[k] = ev
  BY ResendIsPending DEF AgentInv
<1>3. pending # <<ev>>
  BY <1>1 DEF ResendSetup, Running
<1>4. Len(pending) > 1 /\ Len(pending) # 1
  <2>1. Len(pending) \in Nat /\ Len(pending) >= 1
    BY <1>1, <1>2
  <2>2. Len(pending) = 1 => pending = <<ev>>
    BY <1>1, <1>2
  <2> QED
    BY <1>3, <2>1, <2>2
<1>5. abort' = "not one pending request"
  BY <1>3, <1>4 DEF ResendSetup
<1>6. ~kept
  <2>1. pending # <<>>
    BY <1>4
  <2> QED
    BY <1>1, <1>4, <2>1 DEF AgentInv, SetupInTime
<1> QED
  BY <1>1, <1>4, <1>5, <1>6

\* A thread finds nothing, or something that is being freed, for the reasons known.
LEMMA LookUpFails ==
  ASSUME AgentInv, NEW i \in Ids, LookUp(i), abort' # "none"
  PROVE  \/ abort' = "freed node" /\ at' = "extract" /\ ~kept'
         \/ abort' = "not found" /\ th'[i] = "look" /\ subs'[i].st # "held" /\ ~kept'
<1>1. Alive /\ UNCHANGED <<at, subs, table>> /\ th[i] = "look"
  BY DEF LookUp, loopVars, AgentInv, Types, Proper, Alive
<1>2. CASE \E s \in Keys(table) : s.i = i
  BY <1>1, <1>2 DEF LookUp
<1>3. CASE ~ \E s \in Keys(table) : s.i = i
  <2>1. /\ abort' = "not found" /\ UNCHANGED <<th, kept>>
        /\ ~(at = "subscribe" /\ req.i = i)
    BY <1>3 DEF LookUp
  <2>2. subs[i].st # "held"
    BY <1>1, <1>3 DEF AgentInv, Granted
  <2>3. ~kept
    <3>1. SUFFICES ASSUME kept PROVE FALSE
      OBVIOUS
    <3>2. PICK s \in wanted : s.i = i
      BY <1>1, <3>1 DEF AgentInv, LooksForOwn
    <3>3. s \in Keys(table) \/ (at = "subscribe" /\ s = req)
      BY <1>1 DEF AgentInv, Reported
    <3> QED
      BY <1>3, <2>1, <3>2, <3>3
  <2> QED
    BY <1>1, <2>1, <2>2, <2>3
<1> QED
  BY <1>2, <1>3

\* No other assertion fails.
LEMMA FailuresStep ==
  ASSUME FourDigits, AgentInv, PipeInv, FailuresForeseen, [Next]_vars
  PROVE  FailuresForeseen'
<1>1. CASE UNCHANGED vars
  BY <1>1 DEF FailuresForeseen, vars, ricVars, loopVars, ranVars
<1>2. CASE Next /\ abort' = "none"
  BY <1>2 DEF FailuresForeseen
<1>3. CASE Next /\ abort' # "none"
  <2>1. abort' \notin {"queue empty", "one byte"}
    BY <1>3, PipeInvStep DEF PipeInv
  <2>2. CASE ExtractSubscription
    BY <1>3, <2>2, ExtractFails DEF FailuresForeseen
  <2>3. CASE ResendSetup
    BY <1>3, <2>3, ResendFails DEF FailuresForeseen
  <2>4. CASE \E i \in Ids : LookUp(i)
    BY <1>3, <2>4, LookUpFails DEF FailuresForeseen
  <2>5. CASE SetupResponse
    <3>1. pending # <<>>
      BY <2>5, SetupTurnsReads DEF AgentInv, Reads
    <3> QED
      BY <1>3, <2>5, <3>1 DEF SetupResponse, Received, Running
  <2>6. CASE TakeQueue \/ ReadPipe
    BY <1>3, <2>1, <2>6 DEF TakeQueue, ReadPipe, Running
  <2>7. CASE UNCHANGED abort
    BY <1>3, <2>7, AbortWriters DEF Running
  <2> QED
    BY <1>3, <2>2, <2>3, <2>4, <2>5, <2>6, <2>7, AbortWriters
<1> QED
  BY <1>1, <1>2, <1>3

\* However many subscriptions, reports and lives of the RIC there are, an assertion of the
\* agent fails only for a report about a subscription the RIC does not hold, a removal
\* beside another aperiodic subscription, or a second loss before the set-up is answered
\* (e2_agent.c, stop_pending_event); the request ids have four digits.
THEOREM OnlyForeseenFailures == FourDigits => (Spec => []FailuresForeseen)
<1> SUFFICES ASSUME FourDigits PROVE Spec => []FailuresForeseen
  OBVIOUS
<1>1. Init => AgentInv /\ PipeInv /\ FailuresForeseen
  <2>1. Init => FailuresForeseen
    BY DEF Init, FailuresForeseen
  <2> QED
    BY <2>1, AgentInvInit, PipeInvInit
<1>2. AgentInv /\ PipeInv /\ FailuresForeseen /\ [Next]_vars
        => AgentInv' /\ PipeInv' /\ FailuresForeseen'
  BY AgentInvStep, PipeInvStep, FailuresStep
<1> QED
  BY <1>1, <1>2, PTL DEF Spec
-----------------------------------------------------------------------------
(* The order of the indications *)

\* Indications leave in the order of their numbers: those sent, those in the hands of
\* the loop (the first of which has been dealt with once the pipe is read), those in
\* the queue, and the one its thread is about to push.
Before(x, y) == x.i = y.i => x.n < y.n
InHand == {k \in 1..Len(popped) : at = "read" => k > 1}
Counted(x) == /\ x.n <= calls[x.i]
              /\ th[x.i] \in {"look", "push"} => x.n < calls[x.i]
Ordered ==
  /\ \A k, l \in 1..Len(sent) : k < l => Before(sent[k], sent[l])
  /\ \A k, l \in 1..Len(popped) : k < l => Before(popped[k], popped[l])
  /\ \A k, l \in 1..Len(queue) : k < l => Before(queue[k], queue[l])
  /\ \A k \in 1..Len(sent), l \in InHand : Before(sent[k], popped[l])
  /\ \A k \in 1..Len(sent), l \in 1..Len(queue) : Before(sent[k], queue[l])
  /\ \A k \in 1..Len(popped), l \in 1..Len(queue) : Before(popped[k], queue[l])
  /\ \A k \in 1..Len(sent) : Counted(sent[k])
  /\ \A k \in 1..Len(popped) : Counted(popped[k])
  /\ \A k \in 1..Len(queue) : Counted(queue[k])

\* There are none at first.
LEMMA OrderedInit == Init => Ordered
<1> SUFFICES ASSUME Init PROVE Ordered
  OBVIOUS
<1>1. Len(sent) = 0 /\ Len(popped) = 0 /\ Len(queue) = 0
  BY DEF Init
<1> QED
  BY <1>1 DEF Ordered, InHand

\* The indications are in sequences and have proper numbers.
LEMMA IndicationTypes ==
  ASSUME Types
  PROVE  /\ sent \in Seq(Items) /\ popped \in Seq(Items) /\ queue \in Seq(Items)
         /\ Len(sent) \in Nat /\ Len(popped) \in Nat /\ Len(queue) \in Nat
         /\ \A k \in 1..Len(sent) : sent[k].i \in Ids /\ sent[k].n \in Nat
         /\ \A k \in 1..Len(popped) : popped[k].i \in Ids /\ popped[k].n \in Nat
         /\ \A k \in 1..Len(queue) : queue[k].i \in Ids /\ queue[k].n \in Nat
         /\ th \in [Ids -> Calls] /\ calls \in [Ids -> Nat]
<1>1. sent \in Seq(Items) /\ popped \in Seq(Items) /\ queue \in Seq(Items)
  BY DEF Types, TypeOK
<1>2. Len(sent) \in Nat /\ Len(popped) \in Nat /\ Len(queue) \in Nat
  BY <1>1, LenProperties
<1>3. \A x \in Items : x.i \in Ids /\ x.n \in Nat
  BY BoundsAssumption DEF Items
<1>4. /\ \A k \in 1..Len(sent) : sent[k] \in Items
      /\ \A k \in 1..Len(popped) : popped[k] \in Items
      /\ \A k \in 1..Len(queue) : queue[k] \in Items
  BY <1>1, ElementOfSeq
<1>5. th \in [Ids -> Calls] /\ calls \in [Ids -> Nat]
  <2>1. th \in [Ids -> Calls] /\ calls \in [Ids -> 0..MaxCalls]
    BY DEF Types, TypeOK, Calls
  <2>2. 0..MaxCalls \subseteq Nat
    BY BoundsAssumption
  <2> QED
    BY <2>1, <2>2
<1> QED
  BY <1>1, <1>2, <1>3, <1>4, <1>5

\* A thread starts a call, looks its subscription up or has written.
LEMMA OrderedCall ==
  ASSUME Types, Ordered, NEW i \in Ids, EventHappens(i) \/ LookUp(i) \/ WritePipe(i)
  PROVE  Ordered'
<1>1. UNCHANGED <<sent, popped, queue, at>>
  BY DEF EventHappens, LookUp, WritePipe, loopVars
<1>2. \/ calls' = [calls EXCEPT ![i] = calls[i] + 1] /\ th' = [th EXCEPT ![i] = "look"]
      \/ calls' = calls /\ th' = [th EXCEPT ![i] = "push"] /\ th[i] = "look"
      \/ calls' = calls /\ th' = [th EXCEPT ![i] = "idle"]
      \/ calls' = calls /\ th' = th
  BY DEF EventHappens, LookUp, WritePipe
<1>3. th \in [Ids -> Calls] /\ calls \in [Ids -> Nat]
  BY IndicationTypes
<1>4. ASSUME NEW j \in Ids, NEW n \in Nat, n <= calls[j],
             th[j] \in {"look", "push"} => n < calls[j]
      PROVE  n <= calls'[j] /\ (th'[j] \in {"look", "push"} => n < calls'[j])
  <2>1. CASE j # i
    BY <1>2, <1>3, <1>4, <2>1
  <2>2. CASE j = i /\ calls' = [calls EXCEPT ![i] = calls[i] + 1] /\ th' = [th EXCEPT ![i] = "look"]
    <3>1. calls[j] \in Nat /\ calls'[j] = calls[j] + 1
      BY <1>3, <2>2
    <3> QED
      BY <1>4, <3>1
  <2>3. CASE j = i /\ calls' = calls /\ th' = [th EXCEPT ![i] = "push"] /\ th[i] = "look"
    BY <1>3, <1>4, <2>3
  <2>4. CASE j = i /\ calls' = calls /\ th' = [th EXCEPT ![i] = "idle"]
    BY <1>3, <1>4, <2>4
  <2>5. CASE calls' = calls /\ th' = th
    BY <1>4, <2>5
  <2> QED
    BY <1>2, <2>1, <2>2, <2>3, <2>4, <2>5
<1>5. /\ \A k \in 1..Len(sent) : Counted(sent[k])'
      /\ \A k \in 1..Len(popped) : Counted(popped[k])'
      /\ \A k \in 1..Len(queue) : Counted(queue[k])'
  BY <1>1, <1>4, IndicationTypes DEF Ordered, Counted
<1>6. InHand' = InHand
  BY <1>1 DEF InHand
<1> QED
  BY <1>1, <1>5, <1>6 DEF Ordered

\* A thread pushes the newest indication of its subscription.
LEMMA OrderedPush ==
  ASSUME Types, Ordered, NEW i \in Ids, PushIndication(i)
  PROVE  Ordered'
<1> DEFINE x == [i |-> i, f |-> found[i].f, n |-> calls[i]]
<1>1. /\ UNCHANGED <<sent, popped, at, calls>> /\ th[i] = "push"
      /\ th' = [th EXCEPT ![i] = "write"] /\ queue' = Append(queue, x)
  BY DEF PushIndication, loopVars
<1>2. x.i = i /\ x.n = calls[i]
  OBVIOUS
<1> HIDE DEF x
<1>3. /\ queue \in Seq(Items) /\ Len(queue) \in Nat
      /\ th \in [Ids -> Calls] /\ calls \in [Ids -> Nat]
  BY IndicationTypes
<1>4. /\ Len(queue') = Len(queue) + 1 /\ queue'[Len(queue) + 1] = x
      /\ \A k \in 1..Len(queue) : queue'[k] = queue[k]
  BY <1>1, <1>3
<1>5. \A k \in 1..Len(queue') : k \in 1..Len(queue) \/ k = Len(queue) + 1
  BY <1>3, <1>4
<1>6. \A y : Counted(y) => Before(y, x)
  BY <1>1, <1>2 DEF Counted, Before
<1>7. \A j \in Ids : th'[j] \in {"look", "push"} => th[j] \in {"look", "push"}
  BY <1>1, <1>3
<1>8. /\ \A k \in 1..Len(sent) : Counted(sent[k])'
      /\ \A k \in 1..Len(popped) : Counted(popped[k])'
      /\ \A k \in 1..Len(queue') : Counted(queue[k])'
  <2>1. /\ \A k \in 1..Len(sent) : Counted(sent[k])'
        /\ \A k \in 1..Len(popped) : Counted(popped[k])'
    BY <1>1, <1>7, IndicationTypes DEF Ordered, Counted
  <2>2. \A k \in 1..Len(queue) : Counted(queue[k])'
    BY <1>1, <1>4, <1>7, IndicationTypes DEF Ordered, Counted
  <2>3. ASSUME NEW k \in 1..Len(queue'), k = Len(queue) + 1 PROVE Counted(queue[k])'
    <3>1. calls[i] \in Nat /\ th'[i] = "write" /\ queue'[k] = x
      BY <1>1, <1>3, <1>4, <2>3
    <3>2. x.n <= calls'[x.i] /\ th'[x.i] \notin {"look", "push"}
      BY <1>1, <1>2, <3>1
    <3> QED
      BY <3>1, <3>2 DEF Counted
  <2> QED
    BY <1>5, <2>1, <2>2, <2>3
<1>9. \A k, l \in 1..Len(queue') : k < l => Before(queue'[k], queue'[l])
  <2>1. SUFFICES ASSUME NEW k \in 1..Len(queue'), NEW l \in 1..Len(queue'), k < l
                 PROVE  Before(queue'[k], queue'[l])
    OBVIOUS
  <2>2. k \in 1..Len(queue)
    BY <1>3, <1>4, <2>1
  <2>3. CASE l \in 1..Len(queue)
    BY <1>4, <2>1, <2>2, <2>3 DEF Ordered
  <2>4. CASE l = Len(queue) + 1
    BY <1>4, <1>6, <2>2, <2>4 DEF Ordered
  <2> QED
    BY <1>5, <2>3, <2>4
<1>10. /\ \A k \in 1..Len(sent), l \in 1..Len(queue') : Before(sent[k], queue'[l])
       /\ \A k \in 1..Len(popped), l \in 1..Len(queue') : Before(popped[k], queue'[l])
  BY <1>4, <1>5, <1>6 DEF Ordered
<1>11. InHand' = InHand
  BY <1>1 DEF InHand
<1> QED
  BY <1>1, <1>8, <1>9, <1>10, <1>11 DEF Ordered

\* The loop takes the queue in hand.
LEMMA OrderedTake ==
  ASSUME Types, Ordered, TakeQueue
  PROVE  Ordered'
<1>1. UNCHANGED <<sent, th, calls>>
  BY DEF TakeQueue, ranVars
<1>2. CASE UNCHANGED <<popped, queue, at>>
  <2>1. InHand' = InHand
    BY <1>2 DEF InHand
  <2> QED
    BY <1>1, <1>2, <2>1 DEF Ordered, Counted
<1>3. CASE popped' = queue /\ queue' = <<>>
  <2>1. 1..Len(queue') = {} /\ InHand' \subseteq 1..Len(queue)
    BY <1>3 DEF InHand
  <2>2. /\ \A k, l \in 1..Len(popped') : k < l => Before(popped'[k], popped'[l])
        /\ \A k \in 1..Len(sent'), l \in InHand' : Before(sent'[k], popped'[l])
    BY <1>1, <1>3, <2>1 DEF Ordered
  <2>3. /\ \A k \in 1..Len(sent') : Counted(sent[k])'
        /\ \A k \in 1..Len(popped') : Counted(popped[k])'
    BY <1>1, <1>3 DEF Ordered, Counted
  <2>4. \A k, l \in 1..Len(sent') : k < l => Before(sent'[k], sent'[l])
    BY <1>1 DEF Ordered
  <2> QED
    BY <2>1, <2>2, <2>3, <2>4 DEF Ordered
<1> QED
  BY <1>2, <1>3 DEF TakeQueue

\* The first indication in hand is sent, or is not.
LEMMA OrderedSend ==
  ASSUME Types, Ordered, SendAperiodic
  PROVE  Ordered'
<1>1. /\ UNCHANGED <<popped, queue, th, calls>> /\ at = "send" /\ at' = "read"
  BY DEF SendAperiodic, ranVars
<1>2. /\ sent \in Seq(Items) /\ Len(sent) \in Nat /\ popped \in Seq(Items)
      /\ popped # <<>> /\ Len(popped) \in Nat
  BY <1>1, IndicationTypes DEF Types, HoldsWhileSending
<1>3. /\ Len(popped) >= 1 /\ Head(popped) = popped[1] /\ Head(popped) \in Items
      /\ 1 \in InHand /\ \A k \in InHand' : k \in InHand /\ k \in 1..Len(popped) /\ 1 < k
  <2>1. Len(popped) >= 1 /\ Head(popped) = popped[1] /\ Head(popped) \in Items
    BY <1>2, HeadTail
  <2> QED
    BY <1>1, <1>2, <2>1 DEF InHand
<1>4. CASE sent' = sent
  BY <1>1, <1>3, <1>4 DEF Ordered, Counted
<1>5. CASE sent' = Append(sent, Head(popped))
  <2>1. /\ Len(sent') = Len(sent) + 1 /\ sent'[Len(sent) + 1] = popped[1]
        /\ \A k \in 1..Len(sent) : sent'[k] = sent[k]
    BY <1>2, <1>3, <1>5
  <2>2. \A k \in 1..Len(sent') : k \in 1..Len(sent) \/ k = Len(sent) + 1
    BY <1>2, <2>1
  <2>3. \A k, l \in 1..Len(sent') : k < l => Before(sent'[k], sent'[l])
    <3>1. SUFFICES ASSUME NEW k \in 1..Len(sent'), NEW l \in 1..Len(sent'), k < l
                   PROVE  Before(sent'[k], sent'[l])
      OBVIOUS
    <3>2. k \in 1..Len(sent)
      BY <1>2, <2>1, <3>1
    <3>3. CASE l \in 1..Len(sent)
      BY <2>1, <3>1, <3>2, <3>3 DEF Ordered
    <3>4. CASE l = Len(sent) + 1
      BY <1>3, <2>1, <3>2, <3>4 DEF Ordered
    <3> QED
      BY <2>2, <3>3, <3>4
  <2>4. 1 \in 1..Len(popped)
    BY <1>2, <1>3
  <2>5. /\ \A k \in 1..Len(sent'), l \in InHand' : Before(sent'[k], popped[l])
        /\ \A k \in 1..Len(sent'), l \in 1..Len(queue) : Before(sent'[k], queue[l])
    BY <1>3, <2>1, <2>2, <2>4 DEF Ordered
  <2>6. \A k \in 1..Len(sent') : Counted(sent[k])'
    BY <1>1, <2>1, <2>2, <2>4 DEF Ordered, Counted
  <2> QED
    BY <1>1, <2>3, <2>5, <2>6 DEF Ordered, Counted
<1> QED
  BY <1>4, <1>5 DEF SendAperiodic

\* The pipe has been read for it.
LEMMA OrderedRead ==
  ASSUME Types, Ordered, ReadPipe
  PROVE  Ordered'
<1>1. /\ UNCHANGED <<sent, queue, th, calls>> /\ at = "read" /\ popped' = Tail(popped)
  BY DEF ReadPipe, ranVars
<1>2. popped \in Seq(Items) /\ popped # <<>> /\ Len(popped) \in Nat
  BY <1>1, IndicationTypes DEF Types, HoldsWhileSending
<1>3. /\ Len(popped') = Len(popped) - 1
      /\ \A k \in 1..Len(popped)-1 : popped'[k] = popped[k + 1]
  BY <1>1, <1>2, HeadTail
<1>4. \A k \in 1..Len(popped') : /\ k \in Nat /\ k + 1 \in 1..Len(popped) /\ k + 1 > 1
                                /\ popped'[k] = popped[k + 1]
  BY <1>2, <1>3
<1>5. \A k \in 1..Len(popped') : k + 1 \in InHand
  BY <1>4 DEF InHand
<1>6. \A k, l \in 1..Len(popped') : k < l => Before(popped'[k], popped'[l])
  <2>1. SUFFICES ASSUME NEW k \in 1..Len(popped'), NEW l \in 1..Len(popped'), k < l
                 PROVE  Before(popped'[k], popped'[l])
    OBVIOUS
  <2>2. k + 1 < l + 1 /\ k + 1 \in 1..Len(popped) /\ l + 1 \in 1..Len(popped)
    BY <1>4, <2>1
  <2> QED
    BY <1>4, <2>2 DEF Ordered
<1>7. /\ \A k \in 1..Len(sent), l \in 1..Len(popped') : Before(sent[k], popped'[l])
      /\ \A k \in 1..Len(popped'), l \in 1..Len(queue) : Before(popped'[k], queue[l])
  BY <1>4, <1>5 DEF Ordered
<1>8. \A k \in 1..Len(popped') : Counted(popped[k])'
  BY <1>1, <1>4 DEF Ordered, Counted
<1>9. InHand' \subseteq 1..Len(popped')
  BY DEF InHand
<1> QED
  BY <1>1, <1>6, <1>7, <1>8, <1>9 DEF Ordered, Counted

\* Every step keeps the order.
LEMMA OrderedStep ==
  ASSUME Types, Ordered, [Next]_vars
  PROVE  Ordered'
<1>1. CASE UNCHANGED vars
  <2>1. UNCHANGED <<sent, popped, queue, at, th, calls>>
    BY <1>1 DEF vars, loopVars, ranVars
  <2> QED
    BY <2>1 DEF Ordered, InHand, Counted
<1>2. CASE Next /\ UNCHANGED <<sent, popped, queue, th, calls>>
  <2>1. InHand' \subseteq InHand
    <3>1. CASE at' = at \/ FreeAgent
      BY <1>2, <3>1 DEF InHand, FreeAgent
    <3>2. CASE Loop /\ ~ReadPipe
      <4>1. at = "read" => at' = "read"
        BY <3>2 DEF Loop, Received, EpollWait, SetupResponse, ConnectionShutdown, OnSubscription,
           RegisterSubscription, DeleteRequest, FreeSubsAperiodic, ExtractSubscription, TakeQueue,
           SendAperiodic, ResendSetup, LoopEnds, PeriodicIndication
      <4> QED
        BY <1>2, <4>1 DEF InHand
    <3>3. ~ReadPipe
      <4>1. SUFFICES ASSUME ReadPipe PROVE FALSE
        OBVIOUS
      <4>2. popped \in Seq(Items) /\ popped # <<>> /\ popped' = Tail(popped)
        BY <4>1, IndicationTypes DEF ReadPipe, Types, HoldsWhileSending
      <4>3. Len(popped') = Len(popped) - 1 /\ Len(popped) \in Nat
        BY <4>2, HeadTail
      <4> QED
        BY <1>2, <4>3
    <3> QED
      BY <1>2, <3>1, <3>2, <3>3, LoopWriters
  <2> QED
    BY <1>2, <2>1 DEF Ordered, Counted
<1>3. CASE Next /\ FreeAgent
  <2>1. UNCHANGED <<sent, popped, th, calls>> /\ queue' = <<>> /\ at = "stopped"
    BY <1>3 DEF FreeAgent, ranVars
  <2>2. Len(queue') = 0 /\ InHand' \subseteq InHand
    BY <2>1 DEF InHand
  <2> QED
    BY <2>1, <2>2 DEF Ordered, Counted
<1>4. CASE Next /\ \E i \in Ids : EventHappens(i) \/ Ran(i)
  BY <1>4, OrderedCall, OrderedPush DEF Ran
<1>5. CASE TakeQueue \/ SendAperiodic \/ ReadPipe
  BY <1>5, OrderedTake, OrderedSend, OrderedRead
<1> QED
  BY <1>1, <1>2, <1>3, <1>4, <1>5, RanWriters DEF Ran

\* The indications of a subscription are sent in the order in which the RAN produced
\* them, each at most once (e2_async_event_agent, push_tsq, aind_event), for every number
\* of subscriptions, threads and calls and whatever the length of the request ids.
THEOREM IndicationsInOrder == Spec => []SentInOrder
<1>1. Init => Types /\ Ordered
  BY TypesInit, OrderedInit
<1>2. Types /\ Ordered /\ [Next]_vars => Types' /\ Ordered'
  BY TypesStep, OrderedStep
<1>3. Ordered => SentInOrder
  BY DEF Ordered, Before, SentInOrder
<1> QED
  BY <1>1, <1>2, <1>3, PTL DEF Spec
-----------------------------------------------------------------------------
(* Nothing is left behind *)

\* The members of a list are those at its positions.
LEMMA MembersOf ==
  ASSUME NEW l \in Seq(Nat)
  PROVE  \A x : x \in ToSet(l) <=> \E k \in 1..Len(l) : l[k] = x
<1>1. DOMAIN l = 1..Len(l)
  BY LenProperties
<1> QED
  BY <1>1 DEF ToSet

\* A descriptor that wakes the loop is on the ready list, and the others stay there.
LEMMA WakeKeeps ==
  ASSUME NEW l \in Seq(Nat), NEW fd \in Nat
  PROVE  fd \in ToSet(Wake(l, fd)) /\ \A x \in ToSet(l) : x \in ToSet(Wake(l, fd))
<1>1. CASE fd \in ToSet(l)
  BY <1>1 DEF Wake
<1>2. CASE fd \notin ToSet(l)
  <2>1. Wake(l, fd) = Append(l, fd) /\ Append(l, fd) \in Seq(Nat)
    BY <1>2 DEF Wake
  <2>2. /\ Len(l) \in Nat /\ Len(Append(l, fd)) = Len(l) + 1
        /\ \A k \in 1..Len(l) : Append(l, fd)[k] = l[k]
        /\ Append(l, fd)[Len(l) + 1] = fd
    BY AppendProperties, LenProperties
  <2>3. /\ Len(l) + 1 \in 1..Len(Append(l, fd))
        /\ \A k \in 1..Len(l) : k \in 1..Len(Append(l, fd))
    BY <2>2
  <2> DEFINE a == Append(l, fd)
  <2>4. a \in Seq(Nat) /\ Wake(l, fd) = a
    BY <2>1
  <2>5. /\ a[Len(l) + 1] = fd /\ Len(l) + 1 \in 1..Len(a)
        /\ \A k \in 1..Len(l) : k \in 1..Len(a) /\ a[k] = l[k]
    BY <2>2, <2>3
  <2> HIDE DEF a
  <2>6. fd \in ToSet(a)
    BY <2>4, <2>5, MembersOf
  <2>7. ASSUME NEW x \in ToSet(l) PROVE x \in ToSet(a)
    BY <2>4, <2>5, MembersOf
  <2> QED
    BY <2>4, <2>6, <2>7
<1> QED
  BY <1>1, <1>2

\* A descriptor that is closed leaves the others on the list.
LEMMA ClosedKeeps ==
  ASSUME NEW l \in Seq(Nat), NEW fd, NEW x \in ToSet(l), x # fd
  PROVE  x \in ToSet(Closed(l, fd))
<1>1. CASE fd \in ToSet(l)
  <2> DEFINE k == CHOOSE j \in 1..Len(l) : l[j] = fd
  <2>1. k \in 1..Len(l) /\ l[k] = fd
    BY <1>1, MembersOf
  <2> HIDE DEF k
  <2>2. PICK j \in 1..Len(l) : l[j] = x
    BY MembersOf
  <2>3. /\ RemoveAt(l, k) \in Seq(Nat) /\ Len(RemoveAt(l, k)) = Len(l) - 1
        /\ \A n \in 1..Len(l)-1 : RemoveAt(l, k)[n] = IF n < k THEN l[n] ELSE l[n + 1]
        /\ Len(l) \in Nat
    BY <2>1, Removed, LenProperties
  <2>4. j # k
    BY <2>1, <2>2
  <2>5. CASE j < k
    <3>1. j \in 1..Len(l)-1
      BY <2>1, <2>2, <2>3, <2>5
    <3>2. RemoveAt(l, k)[j] = x
      BY <2>2, <2>3, <2>5, <3>1
    <3> QED
      BY <1>1, <2>3, <3>1, <3>2, MembersOf DEF Closed, k
  <2>6. CASE j > k
    <3>1. j - 1 \in 1..Len(l)-1 /\ ~(j - 1 < k) /\ (j - 1) + 1 = j
      BY <2>1, <2>2, <2>3, <2>6
    <3>2. RemoveAt(l, k)[j - 1] = x
      BY <2>2, <2>3, <3>1
    <3> QED
      BY <1>1, <2>3, <3>1, <3>2, MembersOf DEF Closed, k
  <2> QED
    BY <2>1, <2>4, <2>5, <2>6
<1>2. CASE fd \notin ToSet(l)
  BY <1>2 DEF Closed
<1> QED
  BY <1>1, <1>2

\* The head of a list leaves the others on it.
LEMMA TailKeeps ==
  ASSUME NEW l \in Seq(Nat), l # <<>>, NEW x \in ToSet(l), x # Head(l)
  PROVE  x \in ToSet(Tail(l))
<1>1. /\ Len(l) \in Nat /\ Len(l) >= 1 /\ Head(l) = l[1] /\ Tail(l) \in Seq(Nat)
      /\ Len(Tail(l)) = Len(l) - 1 /\ \A k \in 1..Len(l)-1 : Tail(l)[k] = l[k + 1]
  BY HeadTail
<1>2. PICK j \in 1..Len(l) : l[j] = x
  BY MembersOf
<1>3. j - 1 \in 1..Len(l)-1 /\ (j - 1) + 1 = j
  BY <1>1, <1>2
<1>4. Tail(l)[j - 1] = x
  BY <1>1, <1>2, <1>3
<1> QED
  BY <1>1, <1>3, <1>4, MembersOf

\* The ready list: descriptors are put on it, and only epoll_wait and the closing of
\* timers take some off.
LEMMA ReadyWriters ==
  ASSUME Types, Timers, Next
  PROVE  \/ UNCHANGED ready \/ EpollWait
         \/ \E fd \in Nat : ready' = Wake(ready, fd)
         \/ \E fd : fd \notin {NET, PIPE} /\ ready' = Closed(ready, fd)
<1>0. /\ table \in Seq(Entries) /\ pending \in Seq(Nat) /\ NET \in Nat /\ PIPE \in Nat
  BY DEF Types, TypeOK, Entries, NET, PIPE
<1>1. CASE RicStart \/ RicStop \/ RicAnswersSetup \/ SctpAck
  BY <1>0, <1>1 DEF RicStart, RicAnswersSetup, RicStop, SctpAck, ToAgent
<1>2. CASE \E f \in Funcs : RicSubscribes(f)
  BY <1>0, <1>2 DEF RicSubscribes, ToAgent
<1>3. CASE \E i \in Ids : RicDeletes(i) \/ EventHappens(i) \/ Ran(i)
  BY <1>0, <1>3 DEF RicDeletes, EventHappens, Ran, LookUp, PushIndication, WritePipe, ToAgent
<1>4. CASE \E fd \in TimerFds : TimerExpires(fd)
  BY <1>4, TimerFdsAre DEF TimerExpires
<1>5. CASE StopAgent \/ FreeAgent
  BY <1>5 DEF StopAgent, FreeAgent
<1>6. CASE SetupResponse
  <2>1. at = "event"
    BY <1>6 DEF SetupResponse, Received
  <2>2. CASE pending = <<>>
    BY <1>6, <2>2 DEF SetupResponse
  <2>3. CASE pending # <<>>
    <3>1. Head(pending) = pending[1] /\ 1 \in 1..Len(pending)
      BY <1>0, <2>3, HeadTail
    <3>2. Head(pending) \in Nat /\ Head(pending) >= FirstTimer
      BY <1>0, <2>1, <3>1, ElementOfSeq DEF Timers, Numbered, Alive
    <3>3. Head(pending) \notin {NET, PIPE}
      BY <3>2 DEF FirstTimer, NET, PIPE
    <3> QED
      BY <1>6, <2>3, <3>3 DEF SetupResponse
  <2> QED
    BY <2>2, <2>3
<1>7. CASE ExtractSubscription
  <2>1. PICK k \in 1..Len(table) : \/ ready' = ready
                                   \/ table[k].fd # 0 /\ ready' = Closed(ready, table[k].fd)
    BY <1>7 DEF ExtractSubscription, TopMost
  <2>2. CASE table[k].fd # 0 /\ ready' = Closed(ready, table[k].fd)
    <3>1. table[k].fd \in Nat
      <4>1. table[k] \in Entries
        BY <1>0, ElementOfSeq
      <4> QED
        BY <4>1 DEF Entries
    <3>2. table[k].fd >= FirstTimer
      BY <1>7, <2>2 DEF Timers, Numbered, Alive, ExtractSubscription
    <3>3. table[k].fd \notin {NET, PIPE}
      BY <3>1, <3>2 DEF FirstTimer, NET, PIPE
    <3> QED
      BY <2>2, <3>3
  <2> QED
    BY <2>1, <2>2
<1>8. CASE Loop /\ ~SetupResponse /\ ~ExtractSubscription
  BY <1>8 DEF Loop, ConnectionShutdown, OnSubscription, RegisterSubscription, DeleteRequest,
     FreeSubsAperiodic, TakeQueue, SendAperiodic, ReadPipe, ResendSetup, LoopEnds,
     PeriodicIndication
<1> QED
  BY <1>1, <1>2, <1>3, <1>4, <1>5, <1>6, <1>7, <1>8 DEF Next

\* The loop has been told of a descriptor: it is on the ready list, or it has just been
\* taken from it.
Told(fd) == fd \in ToSet(ready) \/ (at = "event" /\ ev = fd)

\* What the loop has been told of the socket or the pipe it is told until it acts on it,
\* or looks once more and finds nothing to read.
LEMMA ToldKept ==
  ASSUME Types, Timers, Next, NEW fd \in {NET, PIPE}, Told(fd)
  PROVE  \/ Told(fd)'
         \/ at = "event" /\ ev = fd /\ (Reads \/ TakeQueue)
         \/ EpollWait /\ ~Readable(fd)
<1>0. ready \in Seq(Nat)
  BY DEF Types, TypeOK
<1>1. CASE fd \in ToSet(ready)
  <2>1. CASE EpollWait
    <3>1. CASE fd = Head(ready)
      BY <2>1, <3>1 DEF EpollWait, Told
    <3>2. CASE fd # Head(ready)
      <4>1. fd \in ToSet(Tail(ready))
        BY <1>0, <1>1, <2>1, <3>2, TailKeeps DEF EpollWait
      <4> QED
        BY <2>1, <4>1 DEF EpollWait, Told
    <3> QED
      BY <3>1, <3>2
  <2>2. ASSUME NEW d \in Nat, ready' = Wake(ready, d) PROVE Told(fd)'
    BY <1>0, <1>1, <2>2, WakeKeeps DEF Told
  <2>3. ASSUME NEW d, d \notin {NET, PIPE}, ready' = Closed(ready, d) PROVE Told(fd)'
    <3>1. fd # d
      BY <2>3
    <3> QED
      BY <1>0, <1>1, <2>3, <3>1, ClosedKeeps DEF Told
  <2>4. CASE ready' = ready
    BY <1>1, <2>4 DEF Told
  <2> QED
    BY <2>1, <2>2, <2>3, <2>4, ReadyWriters
<1>2. CASE at = "event" /\ ev = fd
  <2>1. CASE Loop
    BY <1>2, <2>1 DEF Loop, EpollWait, RegisterSubscription, FreeSubsAperiodic,
       ExtractSubscription, SendAperiodic, ReadPipe, ResendSetup, LoopEnds,
       PeriodicIndication, Reads
  <2>2. CASE FreeAgent
    BY <1>2, <2>2 DEF FreeAgent
  <2>3. CASE at' = at /\ ~Loop
    <3>1. ev' = ev
      BY <2>3, LoopWriters DEF Loop
    <3> QED
      BY <1>2, <2>3, <3>1 DEF Told
  <2> QED
    BY <2>1, <2>2, <2>3, LoopWriters
<1> QED
  BY <1>1, <1>2 DEF Told

\* What is still to be acknowledged.
LEMMA AckWriters ==
  ASSUME Next
  PROVE  \/ UNCHANGED unacked \/ RicStop \/ SctpAck \/ RegisterSubscription \/ DeleteRequest
         \/ ExtractSubscription \/ SendAperiodic \/ ResendSetup
         \/ \E e \in ToSet(table) : PeriodicIndication(e)
<1>1. CASE RicStart \/ RicAnswersSetup
  BY <1>1 DEF RicStart, RicAnswersSetup
<1>2. CASE \E f \in Funcs : RicSubscribes(f)
  BY <1>2 DEF RicSubscribes
<1>3. CASE \E i \in Ids : RicDeletes(i) \/ EventHappens(i) \/ Ran(i)
  BY <1>3 DEF RicDeletes, EventHappens, Ran, LookUp, PushIndication, WritePipe
<1>4. CASE \E fd \in TimerFds : TimerExpires(fd)
  BY <1>4 DEF TimerExpires
<1>5. CASE StopAgent \/ FreeAgent
  BY <1>5 DEF StopAgent, FreeAgent
<1>6. CASE EpollWait \/ SetupResponse \/ ConnectionShutdown \/ OnSubscription
           \/ FreeSubsAperiodic \/ TakeQueue \/ ReadPipe \/ LoopEnds
  BY <1>6 DEF EpollWait, SetupResponse, ConnectionShutdown, OnSubscription,
     FreeSubsAperiodic, TakeQueue, ReadPipe, LoopEnds
<1> QED
  BY <1>1, <1>2, <1>3, <1>4, <1>5, <1>6 DEF Next, Loop

\* What has not been acknowledged was sent to a RIC that runs.
AckUp == unacked => up

LEMMA AckUpStep ==
  ASSUME Types, AckUp, Next
  PROVE  AckUp'
<1>0. up \in BOOLEAN /\ unacked \in BOOLEAN
  BY DEF Types, TypeOK
<1>1. CASE RicStop \/ RicStart \/ SctpAck
  BY <1>1 DEF RicStop, RicStart, SctpAck, AckUp
<1>2. CASE UNCHANGED <<unacked, up>>
  BY <1>2 DEF AckUp
<1>3. CASE RegisterSubscription \/ DeleteRequest \/ ExtractSubscription \/ ResendSetup
  BY <1>0, <1>3 DEF RegisterSubscription, DeleteRequest, ExtractSubscription, ResendSetup,
     AnswerSent, SetupRequestSent, AckUp
<1>4. CASE SendAperiodic \/ \E e \in ToSet(table) : PeriodicIndication(e)
  BY <1>0, <1>4 DEF SendAperiodic, PeriodicIndication, AckUp, ricVars
<1> QED
  BY <1>1, <1>2, <1>3, <1>4, RicWriters, AckWriters

\* Bytes in the pipe that the indications in the hands of the loop do not account for
\* are announced to it.
PipeTold == Running => Told(PIPE) \/ bytes <= 4 * Len(popped)

LEMMA PipeToldStep ==
  ASSUME Types, Timers, PipeInv, FourDigits, PipeTold, Next
  PROVE  PipeTold'
<1> SUFFICES ASSUME Running' PROVE Told(PIPE)' \/ bytes' <= 4 * Len(popped')
  BY DEF PipeTold
<1>0. Running /\ (Told(PIPE) \/ bytes <= 4 * Len(popped)) /\ PIPE # NET
  BY AbortWriters DEF PipeTold, PIPE, NET
<1>1. CASE \E i \in Ids : WritePipe(i)
  <2>1. ready \in Seq(Nat) /\ PIPE \in Nat /\ ready' = Wake(ready, PIPE)
    BY <1>1 DEF WritePipe, Types, TypeOK, PIPE
  <2> QED
    BY <2>1, WakeKeeps DEF Told
<1>2. CASE TakeQueue
  <2>1. PipeInv'
    BY <1>2, PipeInvStep DEF Next, Loop
  <2>2. queue' = <<>> /\ at' = "send" /\ th' = th
    BY <1>2 DEF TakeQueue, Running, ranVars
  <2>3. /\ bytes' + 4 * Cardinality(Writers') = 4 * (Len(queue') + Len(popped'))
        /\ IsSeq(popped') /\ bytes' \in Nat
    BY <2>1, <2>2 DEF PipeInv, PipeMatchesQueue, PipeTypes
  <2>4. Cardinality(Writers') \in Nat
    <3>1. Writers' = Writers
      BY <2>2 DEF Writers
    <3> QED
      BY <3>1, WritersCounted
  <2>5. Len(queue') = 0 /\ Len(popped') \in Nat
    BY <2>2, <2>3, LengthOfSeq, EmptyIsSeq
  <2> QED
    BY <2>3, <2>4, <2>5
<1>3. CASE ReadPipe
  <2>1. /\ popped # <<>> /\ IsSeq(popped) /\ bytes \in Nat /\ at = "read"
        /\ popped' = Tail(popped) /\ bytes' = IF bytes > 4 THEN bytes - 4 ELSE 0
    BY <1>3 DEF ReadPipe, PipeInv, HoldsWhileSending, PipeTypes
  <2>2. Len(popped') = Len(popped) - 1 /\ Len(popped) \in Nat /\ Len(popped) > 0
    BY <2>1, TailIsSeq
  <2>3. CASE Told(PIPE)
    <3>1. ~EpollWait /\ at # "event"
      BY <2>1 DEF EpollWait
    <3> QED
      BY <2>3, <3>1, ToldKept
  <2>4. CASE bytes <= 4 * Len(popped)
    BY <2>1, <2>2, <2>4
  <2> QED
    BY <1>0, <2>3, <2>4
<1>4. CASE UNCHANGED <<bytes, popped>> /\ ~TakeQueue
  <2>1. CASE bytes <= 4 * Len(popped)
    BY <1>4, <2>1
  <2>2. CASE Told(PIPE)
    <3>1. CASE Told(PIPE)'
      BY <3>1
    <3>2. CASE at = "event" /\ ev = PIPE /\ Reads
      BY <1>0, <3>2 DEF Reads, SetupResponse, ConnectionShutdown, OnSubscription,
         DeleteRequest, Received
    <3>3. CASE ~Readable(PIPE)
      <4>1. bytes = 0
        <5>1. ~(bytes > 0)
          BY <3>3 DEF Readable
        <5>2. bytes \in Nat
          BY DEF PipeInv, PipeTypes
        <5> QED
          BY <5>1, <5>2
      <4>2. Len(popped) \in Nat
        BY LengthOfSeq DEF PipeInv, PipeTypes
      <4> QED
        BY <1>4, <4>1, <4>2
    <3> QED
      BY <1>4, <2>2, <3>1, <3>2, <3>3, ToldKept
  <2> QED
    BY <1>0, <2>1, <2>2
<1> QED
  BY <1>1, <1>2, <1>3, <1>4, RanWriters

\* The RIC runs while it waits for answers or holds subscriptions.
LEMMA AskedOfRunning ==
  ASSUME SetupTurns, Requested, NEW i \in Ids, subs[i].st # "new"
  PROVE  up
<1>1. setup \in {"answered", "again"}
  BY DEF Requested
<1> QED
  BY <1>1 DEF SetupTurns

\* A request to subscribe, or to delete, is on its way to the agent or in its hands.
Asking(id) == \/ \E k \in At({"sub"}) : inbox[k].id = id
              \/ at = "subscribe" /\ req = id
Ending(id) == \/ \E k \in At({"del"}) : inbox[k].id = id
              \/ at \in {"unsubscribe", "extract"} /\ req = id

\* So are all for which the RIC waits for an answer.
Underway ==
  Alive => \A id \in GenIds : /\ Known(id, "asked")  => Asking(id)
                              /\ Known(id, "ending") => Ending(id)

\* What the RIC and the network send is a message.
LEMMA MessageSent ==
  ASSUME Types, \/ RicStop \/ RicAnswersSetup
                \/ \E f \in Funcs : RicSubscribes(f)
                \/ \E i \in Ids : RicDeletes(i)
  PROVE  \E m \in Messages : inbox' = Append(inbox, m) /\ NET \in ToSet(ready')
<1>0. ready \in Seq(Nat) /\ NET \in Nat
  BY DEF Types, TypeOK, NET
<1>1. ASSUME NEW m \in Messages, ToAgent(m)
      PROVE  inbox' = Append(inbox, m) /\ NET \in ToSet(ready')
  BY <1>0, <1>1, WakeKeeps DEF ToAgent
<1>2. CASE RicStop
  <2>1. [type |-> "shutdown", id |-> NoId] \in Messages
    BY DEF Messages
  <2> QED
    BY <1>1, <1>2, <2>1 DEF RicStop
<1>3. CASE RicAnswersSetup
  <2>1. [type |-> "setup", id |-> NoId] \in Messages
    BY DEF Messages
  <2> QED
    BY <1>1, <1>3, <2>1 DEF RicAnswersSetup
<1>4. ASSUME NEW f \in Funcs, RicSubscribes(f)
      PROVE  \E m \in Messages : inbox' = Append(inbox, m) /\ NET \in ToSet(ready')
  <2>1. [type |-> "sub", id |-> [i |-> next, f |-> f]] \in Messages
    BY <1>4, SubscriptionSent
  <2> QED
    BY <1>1, <1>4, <2>1 DEF RicSubscribes
<1>5. ASSUME NEW i \in Ids, RicDeletes(i)
      PROVE  \E m \in Messages : inbox' = Append(inbox, m) /\ NET \in ToSet(ready')
  <2>1. [type |-> "del", id |-> [i |-> i, f |-> subs[i].f]] \in Messages
    BY <1>5, DeletionSent
  <2> QED
    BY <1>1, <1>5, <2>1 DEF RicDeletes
<1> QED
  BY <1>2, <1>3, <1>4, <1>5

\* A message stays on its way until it is read.
LEMMA MessageStays ==
  ASSUME Types, Next, NEW type, NEW id, \E k \in At({type}) : inbox[k].id = id
  PROVE  \/ \E k \in At({type})' : inbox'[k].id = id
         \/ Reads /\ Head(inbox).type = type /\ Head(inbox).id = id
<1>1. PICK k \in At({type}) : inbox[k].id = id
  OBVIOUS
<1>2. CASE inbox' = inbox
  BY <1>1, <1>2 DEF At
<1>3. ASSUME NEW m \in Messages, inbox' = Append(inbox, m)
      PROVE  \E j \in At({type})' : inbox'[j].id = id
  <2>1. k \in At({type})' /\ inbox'[k] = inbox[k]
    BY <1>1, <1>3, MessageAdded
  <2> QED
    BY <1>1, <2>1
<1>4. CASE Reads
  <2>1. PICK t : Received(t)
    BY <1>4 DEF Reads, SetupResponse, ConnectionShutdown, OnSubscription, DeleteRequest
  <2>2. inbox # <<>> /\ inbox' = Tail(inbox) /\ Head(inbox) = inbox[1]
    BY <2>1, MessageRead
  <2>3. /\ \A T : \A j \in At(T)' : inbox'[j] = inbox[j + 1]
        /\ \A T : \A j \in At(T) : j \in Nat /\ j > 0 /\ (j > 1 => j - 1 \in At(T)')
    BY <2>2, MessagesMove
  <2>6. /\ k \in Nat /\ k > 0 /\ (k > 1 => k - 1 \in At({type})')
        /\ inbox[k].type = type
        /\ \A j \in At({type})' : inbox'[j] = inbox[j + 1]
    BY <1>1, <2>3 DEF At
  <2>4. CASE k = 1
    BY <1>1, <1>4, <2>2, <2>4, <2>6
  <2>5. CASE k > 1
    <3>1. k - 1 \in At({type})' /\ (k - 1) + 1 = k
      BY <2>5, <2>6
    <3>2. inbox'[k - 1] = inbox[k]
      BY <2>6, <3>1
    <3> QED
      BY <1>1, <3>1, <3>2
  <2>8. k = 1 \/ k > 1
    BY <2>6
  <2> QED
    BY <2>4, <2>5, <2>8
<1>5. CASE \E m \in Messages : inbox' = Append(inbox, m)
  BY <1>3, <1>5
<1>6. CASE RicStop \/ RicAnswersSetup \/ (\E f \in Funcs : RicSubscribes(f)) \/ \E i \in Ids : RicDeletes(i)
  BY <1>5, <1>6, MessageSent
<1> QED
  BY <1>2, <1>4, <1>6, TableWriters

\* A request to subscribe is under way until it is registered ...
LEMMA AskingKept ==
  ASSUME Types, Next, Alive', NEW id, Asking(id)
  PROVE  Asking(id)' \/ (RegisterSubscription /\ req = id)
<1>1. CASE \E k \in At({"sub"}) : inbox[k].id = id
  <2>1. CASE Reads /\ Head(inbox).type = "sub" /\ Head(inbox).id = id
    <3>1. OnSubscription
      BY <2>1 DEF Reads, SetupResponse, ConnectionShutdown, DeleteRequest, Received
    <3> QED
      BY <2>1, <3>1 DEF OnSubscription, Asking
  <2>2. CASE \E k \in At({"sub"})' : inbox'[k].id = id
    BY <2>2 DEF Asking
  <2>3. \/ \E k \in At({"sub"})' : inbox'[k].id = id
        \/ Reads /\ Head(inbox).type = "sub" /\ Head(inbox).id = id
    BY <1>1, MessageStays
  <2> QED
    BY <2>1, <2>2, <2>3
<1>2. CASE at = "subscribe" /\ req = id
  <2>1. CASE Loop
    <3>1. RegisterSubscription
      BY <1>2, <2>1 DEF Loop, EpollWait, SetupResponse, ConnectionShutdown, OnSubscription,
         DeleteRequest, FreeSubsAperiodic, ExtractSubscription, TakeQueue, SendAperiodic,
         ReadPipe, ResendSetup, LoopEnds, PeriodicIndication, Received
    <3> QED
      BY <1>2, <3>1
  <2>2. CASE UNCHANGED <<at, req>>
    BY <1>2, <2>2 DEF Asking
  <2>3. ~FreeAgent
    BY AliveBefore
  <2> QED
    BY <2>1, <2>2, <2>3, LoopWriters DEF Loop
<1> QED
  BY <1>1, <1>2 DEF Asking

\* ... and one to delete until the subscription is taken out, or is not there.
LEMMA EndingKept ==
  ASSUME Types, Next, Alive', Running', NEW id, Ending(id)
  PROVE  \/ Ending(id)'
         \/ ExtractSubscription /\ req = id /\ at' = "wait"
         \/ DeleteRequest /\ Head(inbox).id = id /\ id \notin Keys(table)
<1>1. CASE \E k \in At({"del"}) : inbox[k].id = id
  <2>1. CASE Reads /\ Head(inbox).type = "del" /\ Head(inbox).id = id
    <3>1. DeleteRequest
      BY <2>1 DEF Reads, SetupResponse, ConnectionShutdown, OnSubscription, Received
    <3>2. CASE id \in Keys(table)
      BY <2>1, <3>1, <3>2 DEF DeleteRequest, Ending
    <3> QED
      BY <2>1, <3>1, <3>2
  <2>2. CASE \E k \in At({"del"})' : inbox'[k].id = id
    BY <2>2 DEF Ending
  <2>3. \/ \E k \in At({"del"})' : inbox'[k].id = id
        \/ Reads /\ Head(inbox).type = "del" /\ Head(inbox).id = id
    BY <1>1, MessageStays
  <2> QED
    BY <2>1, <2>2, <2>3
<1>2. CASE at \in {"unsubscribe", "extract"} /\ req = id
  <2>1. CASE FreeSubsAperiodic
    BY <1>2, <2>1 DEF FreeSubsAperiodic, Ending
  <2>2. CASE ExtractSubscription
    BY <1>2, <2>2 DEF ExtractSubscription, Running
  <2>3. CASE Loop /\ ~FreeSubsAperiodic /\ ~ExtractSubscription
    BY <1>2, <2>3 DEF Loop, EpollWait, SetupResponse, ConnectionShutdown, OnSubscription,
         DeleteRequest, RegisterSubscription, TakeQueue, SendAperiodic,
         ReadPipe, ResendSetup, LoopEnds, PeriodicIndication, Received
  <2>4. CASE UNCHANGED <<at, req>>
    BY <1>2, <2>4 DEF Ending
  <2>5. ~FreeAgent
    BY AliveBefore
  <2> QED
    BY <2>1, <2>2, <2>3, <2>4, <2>5, LoopWriters DEF Loop
<1> QED
  BY <1>1, <1>2 DEF Ending

\* What the RIC waits for changes by its own requests and by answers to them.
LEMMA WaitsAsBefore ==
  ASSUME Types, Next, NEW id \in GenIds, NEW st \in {"asked", "ending"}, Known(id, st)'
  PROVE  \/ Known(id, st)
         \/ st = "asked" /\ \E f \in Funcs : RicSubscribes(f) /\ id = [i |-> next, f |-> f]
         \/ st = "ending" /\ RicDeletes(id.i) /\ id = [i |-> id.i, f |-> subs[id.i].f]
<1>0. /\ up \in BOOLEAN /\ subs \in [Ids -> Subs]
      /\ id.i \in Ids /\ id.f \in Funcs /\ id = [i |-> id.i, f |-> id.f]
  BY DEF Types, TypeOK, Subs, GenIds
<1>9. subs'[id.i] = [f |-> id.f, st |-> st]
  BY DEF Known
<1>1. CASE RicStop
  <2>1. subs'[id.i].st = "new"
    BY <1>0, <1>1 DEF RicStop, NoSub
  <2>2. subs'[id.i].st = st
    BY <1>9
  <2> QED
    BY <2>1, <2>2
<1>2. ASSUME NEW f \in Funcs, RicSubscribes(f), ~Known(id, st)
      PROVE  st = "asked" /\ id = [i |-> next, f |-> f]
  <2>1. next \in Ids /\ subs' = [subs EXCEPT ![next] = [f |-> f, st |-> "asked"]]
    BY <1>2, SubscriptionSent DEF RicSubscribes
  <2>2. id.i = next /\ subs'[id.i] = [f |-> f, st |-> "asked"]
    BY <1>0, <1>2, <1>9, <2>1 DEF Known
  <2>3. st = "asked" /\ id.f = f
    BY <1>9, <2>2
  <2> QED
    BY <1>0, <2>2, <2>3
<1>3. ASSUME NEW j \in Ids, RicDeletes(j), ~Known(id, st)
      PROVE  st = "ending" /\ RicDeletes(id.i) /\ id = [i |-> id.i, f |-> subs[id.i].f]
  <2>1. subs' = [subs EXCEPT ![j] = [f |-> subs[j].f, st |-> "ending"]]
    BY <1>3, DeletionSent
  <2>2. id.i = j /\ subs'[id.i] = [f |-> subs[id.i].f, st |-> "ending"]
    BY <1>0, <1>3, <1>9, <2>1 DEF Known
  <2>3. st = "ending" /\ id.f = subs[id.i].f
    BY <1>9, <2>2
  <2> QED
    BY <1>0, <1>3, <2>2, <2>3
<1>4. ASSUME NEW x \in GenIds, NEW w \in {"asked", "ending"}, NEW s \in {"held", "new"},
             AnswerSent(x, w, s)
      PROVE  Known(id, st)
  <2>1. subs'[id.i] = subs[id.i] \/ subs'[id.i] = [f |-> x.f, st |-> s]
    <3>1. /\ \A j \in Ids : j # x.i => subs'[j] = subs[j]
          /\ subs'[x.i] = subs[x.i] \/ subs'[x.i] = [f |-> x.f, st |-> s]
      BY <1>0, <1>4, Answered
    <3> QED
      BY <1>0, <3>1
  <2>2. [f |-> x.f, st |-> s].st # [f |-> id.f, st |-> st].st
    OBVIOUS
  <2> QED
    BY <1>9, <2>1, <2>2 DEF Known
<1>5. CASE RegisterSubscription \/ ExtractSubscription
  <2>1. req \in GenIds
    BY <1>5 DEF RegisterSubscription, ExtractSubscription, Types, Proper, Busy
  <2>2. subs' = subs \/ \E w \in {"asked", "ending"}, s \in {"held", "new"} : AnswerSent(req, w, s)
    BY <1>5 DEF RegisterSubscription, ExtractSubscription
  <2>3. subs' = subs => Known(id, st)
    BY <1>9 DEF Known
  <2> QED
    BY <1>4, <2>1, <2>2, <2>3
<1>6. CASE DeleteRequest
  <2>1. Head(inbox).id \in GenIds
    BY <1>6, MessageRead DEF DeleteRequest
  <2>2. subs' = subs \/ AnswerSent(Head(inbox).id, "ending", "new")
    BY <1>6 DEF DeleteRequest
  <2>3. subs' = subs => Known(id, st)
    BY <1>9 DEF Known
  <2> QED
    BY <1>4, <2>1, <2>2, <2>3
<1>7. CASE UNCHANGED subs
  BY <1>7, <1>9 DEF Known
<1>8. CASE (\E f \in Funcs : RicSubscribes(f)) \/ \E j \in Ids : RicDeletes(j)
  BY <1>2, <1>3, <1>8
<1> QED
  BY <1>1, <1>5, <1>6, <1>7, <1>8, RicWriters

\* Whoever waits for an answer is sent it.
LEMMA AnswerArrives ==
  ASSUME Types, SetupTurns, Requested, NEW id \in GenIds, NEW st \in {"asked", "ending"},
         NEW s \in {"held", "new"}, Known(id, st), AnswerSent(id, st, s)
  PROVE  ~Known(id, st)'
<1>0. up \in BOOLEAN /\ subs \in [Ids -> Subs] /\ id.i \in Ids
  BY DEF Types, TypeOK, Subs, GenIds
<1>1. subs[id.i].st # "new"
  BY DEF Known
<1>2. up
  BY <1>0, <1>1, AskedOfRunning
<1>3. subs'[id.i] = [f |-> id.f, st |-> s]
  BY <1>0, <1>2, Answered
<1>4. [f |-> id.f, st |-> s].st # [f |-> id.f, st |-> st].st
  OBVIOUS
<1> QED
  BY <1>3, <1>4 DEF Known

\* What the RIC waits for is under way.
LEMMA UnderwayStep ==
  ASSUME Types, SetupTurns, Requested, Underway, Next, Running'
  PROVE  Underway'
<1> SUFFICES ASSUME Alive', NEW id \in GenIds
             PROVE  /\ Known(id, "asked")'  => Asking(id)'
                    /\ Known(id, "ending")' => Ending(id)'
  BY DEF Underway
<1>0. Alive
  BY AliveBefore
<1>1. ASSUME Known(id, "asked")' PROVE Asking(id)'
  <2>1. CASE \E f \in Funcs : RicSubscribes(f) /\ id = [i |-> next, f |-> f]
    <3> DEFINE m == [type |-> "sub", id |-> id]
    <3>1. m \in Messages /\ inbox' = Append(inbox, m)
      BY <2>1, SubscriptionSent
    <3>2. m.type \in {"sub"} /\ m.id = id
      OBVIOUS
    <3> HIDE DEF m
    <3>3. Len(inbox) + 1 \in At({"sub"})' /\ inbox'[Len(inbox) + 1] = m
      BY <3>1, <3>2, MessageAdded
    <3> QED
      BY <3>2, <3>3 DEF Asking
  <2>2. CASE Known(id, "asked")
    <3>1. Asking(id)
      BY <1>0, <2>2 DEF Underway
    <3>2. ~(RegisterSubscription /\ req = id)
      BY <1>1, <2>2, AnswerArrives DEF RegisterSubscription
    <3> QED
      BY <3>1, <3>2, AskingKept
  <2> QED
    BY <1>1, <2>1, <2>2, WaitsAsBefore
<1>2. ASSUME Known(id, "ending")' PROVE Ending(id)'
  <2>1. CASE RicDeletes(id.i) /\ id = [i |-> id.i, f |-> subs[id.i].f]
    <3> DEFINE m == [type |-> "del", id |-> id]
    <3>1. id.i \in Ids
      BY DEF GenIds
    <3>2. m \in Messages /\ inbox' = Append(inbox, m)
      BY <2>1, <3>1, DeletionSent
    <3>3. m.type \in {"del"} /\ m.id = id
      OBVIOUS
    <3> HIDE DEF m
    <3>4. Len(inbox) + 1 \in At({"del"})' /\ inbox'[Len(inbox) + 1] = m
      BY <3>2, <3>3, MessageAdded
    <3> QED
      BY <3>3, <3>4 DEF Ending
  <2>2. CASE Known(id, "ending")
    <3>1. Ending(id)
      BY <1>0, <2>2 DEF Underway
    <3>2. ~(ExtractSubscription /\ req = id /\ at' = "wait")
      BY <1>2, <2>2, AnswerArrives DEF ExtractSubscription
    <3>3. ~(DeleteRequest /\ Head(inbox).id = id /\ id \notin Keys(table))
      BY <1>2, <2>2, AnswerArrives DEF DeleteRequest
    <3> QED
      BY <3>1, <3>2, <3>3, EndingKept
  <2> QED
    BY <1>2, <2>1, <2>2, WaitsAsBefore
<1> QED
  BY <1>1, <1>2

\* A message in the socket will be read: the loop has been told of it, is about to be
\* told by an acknowledgement, or is about to answer a request, which brings one.
SocketTold ==
  kept /\ Running /\ Alive /\ inbox # <<>> => Told(NET) \/ unacked \/ (Busy /\ up)

\* While the environment keeps its manners the last message read is one the loop answers.
LEMMA LastRead ==
  ASSUME Types, SetupTurns, SetupInTime, kept, Reads, Running', inbox' # <<>>
  PROVE  up /\ (OnSubscription \/ DeleteRequest)
<1>1. PICK type : Received(type) /\ (type \in {"sub", "del"} => OnSubscription \/ DeleteRequest)
                  /\ type \in {"setup", "shutdown", "sub", "del"}
  BY DEF Reads, SetupResponse, ConnectionShutdown, OnSubscription, DeleteRequest
<1>2. /\ inbox # <<>> /\ inbox' = Tail(inbox) /\ inbox[1].type = type /\ Alive
      /\ setup \in {"none", "asked", "answered", "again"}
  BY <1>1, MessageRead DEF Alive, Types, TypeOK
<1>3. Len(inbox) # 1 /\ 1 \in At({type})
  <2>1. /\ inbox \in Seq(Messages) /\ inbox' \in Seq(Messages) /\ Len(inbox) \in Nat
        /\ Len(inbox) >= 1 /\ Len(inbox') = Len(inbox) - 1
    BY <1>2, InboxShrinks DEF Types, TypeOK, Messages
  <2>2. Len(inbox') # 0
    BY <2>1, EmptySeq
  <2> QED
    BY <1>2, <2>1, <2>2 DEF At
<1>4. setup = "answered" /\ At({"setup", "shutdown"}) = {}
  BY <1>2, <1>3 DEF SetupInTime
<1>5. type \notin {"setup", "shutdown"}
  BY <1>3, <1>4 DEF At
<1>6. up
  BY <1>4 DEF SetupTurns
<1> QED
  BY <1>1, <1>5, <1>6

LEMMA SocketToldStep ==
  ASSUME Types, Timers, SetupTurns, SetupInTime, AckUp, SocketTold, Next
  PROVE  SocketTold'
<1> SUFFICES ASSUME kept', Running', Alive', inbox' # <<>>
             PROVE  Told(NET)' \/ unacked' \/ (Busy' /\ up')
  BY DEF SocketTold
<1>0. /\ kept /\ Running /\ Alive /\ ready \in Seq(Nat) /\ NET \in Nat
      /\ up \in BOOLEAN /\ unacked \in BOOLEAN /\ NET # PIPE
  <2>1. kept /\ Running /\ Alive
    BY KeptBefore, AliveBefore, AbortWriters
  <2>2. ready \in Seq(Nat) /\ up \in BOOLEAN /\ unacked \in BOOLEAN
    BY DEF Types, TypeOK
  <2> QED
    BY <2>1, <2>2 DEF NET, PIPE
<1>1. CASE RicStop \/ RicAnswersSetup \/ (\E f \in Funcs : RicSubscribes(f)) \/ \E i \in Ids : RicDeletes(i)
  BY <1>1, MessageSent DEF Told
<1>2. CASE SctpAck
  BY <1>0, <1>2, WakeKeeps DEF SctpAck, Told
<1>3. CASE Reads
  <2>1. up /\ (OnSubscription \/ DeleteRequest)
    BY <1>0, <1>3, LastRead
  <2>2. CASE OnSubscription
    BY <2>1, <2>2 DEF OnSubscription, Busy, ricVars
  <2>3. CASE DeleteRequest
    BY <2>1, <2>3 DEF DeleteRequest, Busy, AnswerSent
  <2> QED
    BY <2>1, <2>2, <2>3
<1>4. CASE RegisterSubscription
  <2>1. Busy /\ inbox' = inbox /\ AnswerSent(req, "asked", "held") /\ ready' = ready
    BY <1>4 DEF RegisterSubscription, Busy
  <2>2. CASE up
    BY <2>1, <2>2 DEF AnswerSent
  <2>3. CASE ~up
    <3>1. ~unacked /\ Told(NET)
      BY <1>0, <2>1, <2>3 DEF SocketTold, AckUp
    <3> QED
      BY <1>4, <2>1, <3>1 DEF Told, RegisterSubscription
  <2> QED
    BY <2>2, <2>3
<1>5. CASE ExtractSubscription
  <2>1. Busy /\ inbox' = inbox /\ AnswerSent(req, "ending", "new") /\ ~EpollWait /\ at # "event"
    BY <1>5 DEF ExtractSubscription, Busy, Running, EpollWait
  <2>2. CASE up
    BY <2>1, <2>2 DEF AnswerSent
  <2>3. CASE ~up
    <3>1. Told(NET)
      BY <1>0, <2>1, <2>3 DEF SocketTold, AckUp
    <3> QED
      BY <2>1, <3>1, ToldKept
  <2> QED
    BY <2>2, <2>3
<1>6. CASE FreeSubsAperiodic
  <2>1. UNCHANGED <<inbox, ready, unacked, up>> /\ Busy /\ Busy' /\ at # "event"
    BY <1>6 DEF FreeSubsAperiodic, Busy
  <2> QED
    BY <1>0, <2>1 DEF SocketTold, Told
<1>7. CASE /\ UNCHANGED inbox /\ ~RicStop /\ ~SctpAck /\ ~Reads /\ ~RegisterSubscription
           /\ ~ExtractSubscription /\ ~FreeSubsAperiodic
  <2>1. CASE Told(NET)
    <3>1. ~(at = "event" /\ ev = NET /\ TakeQueue)
      BY <1>0 DEF TakeQueue
    <3>2. Readable(NET)
      BY <1>7 DEF Readable
    <3> QED
      BY <1>7, <2>1, <3>1, <3>2, ToldKept
  <2>2. CASE unacked
    <3>1. up
      BY <2>2 DEF AckUp
    <3>2. CASE UNCHANGED unacked
      BY <2>2, <3>2
    <3>3. CASE SendAperiodic \/ \E e \in ToSet(table) : PeriodicIndication(e)
      BY <2>2, <3>1, <3>3 DEF SendAperiodic, PeriodicIndication
    <3>4. CASE ResendSetup
      BY <2>2, <3>1, <3>4 DEF ResendSetup, SetupRequestSent
    <3> QED
      BY <1>7, <3>2, <3>3, <3>4, AckWriters DEF Reads
  <2>3. CASE Busy /\ up
    <3>1. CASE Loop
      BY <1>7, <2>3, <3>1 DEF Busy, Loop, EpollWait, Reads, TakeQueue, SendAperiodic,
         ReadPipe, ResendSetup, LoopEnds, PeriodicIndication
    <3>2. at' = at \/ Loop
      BY AliveBefore, LoopWriters
    <3>3. up'
      BY <1>7, <2>3, RicWriters DEF RicStart
    <3> QED
      BY <2>3, <3>1, <3>2, <3>3 DEF Busy
  <2> QED
    BY <1>0, <1>7, <2>1, <2>2, <2>3 DEF SocketTold
<1> QED
  BY <1>1, <1>2, <1>3, <1>4, <1>5, <1>6, <1>7, TableWriters

\* A subscription that the loop is about to take out is in the table.
ToRemove == at \in {"unsubscribe", "extract"} => req \in Keys(table)

LEMMA ToRemoveStep ==
  ASSUME Types, ToRemove, Next
  PROVE  ToRemove'
<1> SUFFICES ASSUME at' \in {"unsubscribe", "extract"} PROVE req' \in Keys(table')
  BY DEF ToRemove, Keys
<1>1. CASE DeleteRequest
  BY <1>1 DEF DeleteRequest
<1>2. CASE at \in {"unsubscribe", "extract"} /\ UNCHANGED <<req, table>>
  BY <1>2 DEF ToRemove
<1>3. CASE Loop /\ ~DeleteRequest
  <2>1. CASE FreeSubsAperiodic
    BY <1>2, <2>1 DEF FreeSubsAperiodic
  <2>2. CASE ExtractSubscription
    BY <1>2, <2>2 DEF ExtractSubscription
  <2>3. CASE ~FreeSubsAperiodic /\ ~ExtractSubscription
    BY <1>3, <2>3 DEF Loop, EpollWait, SetupResponse, ConnectionShutdown, OnSubscription,
       RegisterSubscription, TakeQueue, SendAperiodic, ReadPipe, ResendSetup, LoopEnds,
       PeriodicIndication
  <2> QED
    BY <2>1, <2>2, <2>3
<1>4. CASE at' = at /\ ~Loop
  <2>1. UNCHANGED <<req, table>> \/ FreeAgent
    BY <1>4, LoopWriters, TableWriters DEF Loop
  <2> QED
    BY <1>2, <1>4, <2>1 DEF FreeAgent
<1> QED
  BY <1>1, <1>3, <1>4, LoopWriters DEF FreeAgent

\* All that has to be known for that.
QuietInv ==
  /\ AgentInv
  /\ PipeInv
  /\ Running => PipeTold /\ SocketTold /\ AckUp /\ Underway /\ ToRemove

\* At first nothing is under way.
LEMMA QuietInvInit == Init => QuietInv
<1> SUFFICES ASSUME Init PROVE QuietInv
  OBVIOUS
<1>1. AgentInv /\ PipeInv
  BY AgentInvInit, PipeInvInit
<1>2. /\ bytes = 0 /\ popped = <<>> /\ Len(popped) = 0 /\ inbox = <<>> /\ unacked = up
      /\ at = "wait"
  BY EmptyIsSeq DEF Init
<1>3. \A id \in GenIds : subs[id.i].st = "new"
  BY DEF Init, NoSub, GenIds
<1>4. \A id \in GenIds : ~Known(id, "asked") /\ ~Known(id, "ending")
  BY <1>3 DEF Known
<1>5. PipeTold
  BY <1>2 DEF PipeTold
<1>6. SocketTold /\ AckUp /\ Underway /\ ToRemove
  BY <1>2, <1>4 DEF SocketTold, AckUp, Underway, ToRemove
<1> QED
  BY <1>1, <1>5, <1>6 DEF QuietInv

\* Every step keeps it.
LEMMA QuietInvStep ==
  ASSUME QuietInv, FourDigits, [Next]_vars
  PROVE  QuietInv'
<1>1. AgentInv' /\ PipeInv'
  BY AgentInvStep, PipeInvStep DEF QuietInv
<1>2. CASE UNCHANGED vars
  <2>1. /\ UNCHANGED <<up, subs, kept, inbox, table, bytes, popped, ready, unacked>>
        /\ UNCHANGED <<at, ev, req, abort>>
    BY <1>2 DEF vars, ricVars, loopVars
  <2>2. CASE Running
    <3>1. PipeTold /\ SocketTold /\ AckUp /\ Underway /\ ToRemove
      BY <2>2 DEF QuietInv
    <3>2. PipeTold' /\ AckUp' /\ ToRemove'
      BY <2>1, <3>1 DEF PipeTold, AckUp, ToRemove, Told, Running, Keys
    <3>3. SocketTold'
      BY <2>1, <3>1 DEF SocketTold, Told, Running, Alive, Busy
    <3>4. Underway'
      BY <2>1, <3>1 DEF Underway, Asking, Ending, Known, At, Alive
    <3> QED
      BY <1>1, <3>2, <3>3, <3>4 DEF QuietInv
  <2> QED
    BY <1>1, <2>1, <2>2 DEF QuietInv, Running
<1>3. CASE Next
  <2>1. Types /\ Timers /\ SetupTurns /\ Requested /\ SetupInTime
    BY DEF QuietInv, AgentInv
  <2>2. PipeTold /\ SocketTold /\ AckUp /\ Underway /\ ToRemove /\ PipeInv
    BY <1>3, AbortWriters DEF QuietInv
  <2>3. Running' => PipeTold' /\ SocketTold' /\ AckUp' /\ Underway' /\ ToRemove'
    BY <1>3, <2>1, <2>2, PipeToldStep, SocketToldStep, AckUpStep, UnderwayStep, ToRemoveStep
  <2> QED
    BY <1>1, <2>3 DEF QuietInv
<1> QED
  BY <1>2, <1>3

\* Where the loop stays until somebody else takes a step: in epoll_wait with nothing on
\* the ready list, or at a step whose guard does not hold.
LoopWaits ==
  \/ at = "wait" /\ ready = <<>>
  \/ at = "event" /\ ev = NET /\ inbox = <<>>
  \/ at = "event" /\ ev = 0
  \/ at = "extract" /\ req \notin Keys(table)
  \/ at = "read" /\ bytes = 0

\* The agent does nothing of its own accord, no RAN thread is in a call and the kernel
\* has no acknowledgement to deliver.
NobodyMoves == LoopWaits /\ (\A i \in Ids : th[i] = "idle") /\ ~unacked

\* The loop is in epoll_wait and nobody waits for it: no indication is left in the queue,
\* and, while the environment keeps its manners, no message in the socket and no request
\* without an answer, and the timer runs that asks a RIC that has come back for the set-up.
Settled ==
  /\ at = "wait" /\ queue = <<>> /\ popped = <<>> /\ bytes = 0
  /\ kept => /\ inbox = <<>>
             /\ \A i \in Ids : subs[i].st \notin {"asked", "ending"}
             /\ setup = "none" => pending # <<>>

\* Without a call there is no thread between push_tsq and write.
LEMMA NobodyWrites ==
  ASSUME \A i \in Ids : th[i] = "idle"
  PROVE  Cardinality(Writers) = 0
<1>1. Writers = {}
  BY DEF Writers
<1> QED
  BY <1>1, FS_EmptySet

\* In no state is the loop held up by anything but an empty ready list.
LEMMA WaitsInEpoll ==
  ASSUME QuietInv, Running, NobodyMoves
  PROVE  at = "wait" /\ ready = <<>>
<1>1. Types /\ Timers /\ PipeInv /\ ToRemove
  BY DEF QuietInv, AgentInv
<1>2. ASSUME at = "event", ev = NET, inbox = <<>> PROVE FALSE
  BY <1>1, <1>2 DEF Types, Proper
<1>3. ASSUME at = "event", ev = 0 PROVE FALSE
  <2>1. 0 \in TimerFds
    BY <1>1, <1>3 DEF Timers, Alive, NET, PIPE
  <2>2. ~(0 >= 3)
    OBVIOUS
  <2> QED
    BY <1>1, <2>1, <2>2, TimerFdsAre DEF FirstTimer
<1>4. ASSUME at = "extract", req \notin Keys(table) PROVE FALSE
  BY <1>1, <1>4 DEF ToRemove
<1>5. ASSUME at = "read", bytes = 0 PROVE FALSE
  <2>1. popped # <<>> /\ bytes + 4 * Cardinality(Writers) = 4 * (Len(queue) + Len(popped))
    BY <1>1, <1>5 DEF PipeInv, HoldsWhileSending, PipeMatchesQueue
  <2>2. Cardinality(Writers) = 0
    BY NobodyWrites DEF NobodyMoves
  <2>3. Len(queue) \in Nat /\ Len(popped) \in Nat /\ Len(popped) # 0
    BY <1>1, <2>1, LengthOfSeq DEF PipeInv, PipeTypes
  <2> QED
    BY <1>5, <2>1, <2>2, <2>3
<1> QED
  BY <1>2, <1>3, <1>4, <1>5 DEF NobodyMoves, LoopWaits

\* And then there is nothing that it has missed.
LEMMA SettledByInvariant ==
  ASSUME QuietInv, Running, NobodyMoves
  PROVE  Settled
<1>1. at = "wait" /\ ready = <<>> /\ ToSet(ready) = {} /\ ~unacked
  BY WaitsInEpoll, EmptyIsSeq DEF NobodyMoves, ToSet
<1>2. \A fd : ~Told(fd)
  BY <1>1 DEF Told
<1>3. /\ Types /\ SetupInTime /\ PipeInv /\ PipeTold /\ SocketTold /\ Underway
      /\ Alive /\ ~Busy
  BY <1>1 DEF QuietInv, AgentInv, Alive, Busy
<1>4. popped = <<>> /\ bytes = 0 /\ queue = <<>>
  <2>1. popped = <<>> /\ Len(popped) = 0 /\ bytes \in Nat
    BY <1>1, <1>3, EmptyIsSeq DEF PipeInv, HoldsWhileSending, PipeTypes
  <2>2. bytes <= 4 * Len(popped)
    BY <1>2, <1>3 DEF PipeTold
  <2>3. bytes = 0
    BY <2>1, <2>2
  <2>4. Cardinality(Writers) = 0
    BY NobodyWrites DEF NobodyMoves
  <2>5. bytes + 4 * Cardinality(Writers) = 4 * (Len(queue) + Len(popped))
    BY <1>1, <1>3 DEF PipeInv, PipeMatchesQueue
  <2>6. Len(queue) \in Nat /\ (Len(queue) = 0 <=> queue = <<>>)
    BY <1>3, LengthOfSeq DEF PipeInv, PipeTypes
  <2>7. Len(queue) = 0
    BY <2>1, <2>3, <2>4, <2>5, <2>6
  <2> QED
    BY <2>1, <2>3, <2>6, <2>7
<1>5. ASSUME kept PROVE inbox = <<>>
  BY <1>1, <1>2, <1>3, <1>5 DEF SocketTold
<1>6. ASSUME kept, NEW i \in Ids, NEW st \in {"asked", "ending"}, subs[i].st = st PROVE FALSE
  <2>1. subs[i] \in Subs
    BY <1>3 DEF Types, TypeOK, Subs
  <2>2. [i |-> i, f |-> subs[i].f] \in GenIds /\ subs[i] = [f |-> subs[i].f, st |-> st]
    BY <1>6, <2>1 DEF Subs, NoSub, GenIds
  <2>3. PICK id \in GenIds : id = [i |-> i, f |-> subs[i].f]
    BY <2>2
  <2>4. Known(id, st)
    BY <2>2, <2>3 DEF Known
  <2>5. \A T : At(T) = {}
    BY <1>5, <1>6 DEF At
  <2> QED
    BY <1>1, <1>3, <2>4, <2>5 DEF Underway, Asking, Ending
<1>7. ASSUME kept, setup = "none" PROVE pending # <<>>
  <2>1. Len(pending) = 1
    <3>1. Len(inbox) # 1
      BY <1>5, <1>7
    <3> QED
      BY <1>3, <1>7, <3>1 DEF SetupInTime
  <2> QED
    BY <2>1
<1> QED
  BY <1>1, <1>4, <1>5, <1>6, <1>7 DEF Settled

\* When nobody moves nothing is left behind, although every descriptor is edge triggered
\* and one event and one message are taken a turn (next_async_event_agent,
\* e2_event_loop_agent and consume_fd_async of e2_agent.c): what has been handed over is
\* sent, what has been asked is answered, and the set-up request has its timer.  This is
\* what IndicationsLeave, RequestsAnswered and SetupAsked say without the fairness.
THEOREM NothingLeftBehind ==
  FourDigits => (Spec => [](Running /\ NobodyMoves => Settled))
<1> SUFFICES ASSUME FourDigits PROVE Spec => [](Running /\ NobodyMoves => Settled)
  OBVIOUS
<1>1. Init => QuietInv
  BY QuietInvInit
<1>2. QuietInv /\ [Next]_vars => QuietInv'
  BY QuietInvStep
<1>3. QuietInv => (Running /\ NobodyMoves => Settled)
  BY SettledByInvariant
<1> QED
  BY <1>1, <1>2, <1>3, PTL DEF Spec
=============================================================================
