------------------------------- MODULE E2Agent -------------------------------
(***************************************************************************)
(* The E2 agent (flexric/src/agent): one thread runs the event loop, the   *)
(* threads of the RAN hand it aperiodic indications.                       *)
(*                                                                         *)
(* The loop sleeps in epoll_wait on three kinds of descriptors, all edge   *)
(* triggered: the SCTP socket, a pipe, and one timer for every periodic    *)
(* subscription and for the unanswered set-up request.  It takes one event *)
(* a turn, and from the socket one message a turn.  A RAN thread looks its *)
(* subscription up, pushes the indication to a queue and only then writes  *)
(* the decimal digits of its request id to the pipe; the loop empties the  *)
(* queue and reads the pipe once, up to four bytes, for each indication.   *)
(*                                                                         *)
(* Every mutex section and every system call is one step.  A failed        *)
(* assertion is recorded in "abort" and everything stops.  The near-RT RIC *)
(* at the other end (modelled inside in RicIApp) and the RAN are external: *)
(* the RIC sends legal requests, may stop, and starts again with the same  *)
(* request ids.                                                            *)
(***************************************************************************)
EXTENDS Integers, Sequences, FiniteSets, SequencesExt

CONSTANTS
  MaxId,       \* RIC request ids 1..MaxId in a life of the RIC (1021... in the code)
  Funcs,       \* RAN functions the RIC subscribes to
  Aperiodic,   \* those of Funcs whose indications come from the RAN
  Digits,      \* Digits[i]: decimal digits of request id i
  MaxCalls,    \* bound on the indications of one subscription
  MaxRestarts, \* bound on the restarts of the RIC
  Deletes,     \* may the RIC delete subscriptions?
  MayStop      \* may the agent be stopped?

ASSUME FuncsAssumption  == Aperiodic \subseteq Funcs
ASSUME BoundsAssumption == MaxId \in Nat /\ MaxCalls \in Nat /\ MaxRestarts \in Nat
ASSUME DigitsAssumption == Digits \in [1..MaxId -> 1..5]
ASSUME AgentFlagsAssumption ==
  {Deletes, MayStop} \subseteq BOOLEAN

VARIABLES
  \* the near-RT RIC
  up,       \* does it run?
  setup,    \* the set-up request of this life: "none", "asked", "answered", "again"
  subs,     \* subs[i]: what request id i stands for in this life of the RIC
  next,     \* its next request id
  lives,    \* restarts so far
  inbox,    \* messages on their way to the agent, in order
  \* the state of the agent
  table,    \* ind_event: subscriptions with their key in the left map, oldest first
  pending,  \* pending: timers of unanswered set-up requests, oldest first
  queue,    \* aind: indications handed over by the RAN
  bytes,    \* bytes in the pipe
  ready,    \* the ready list of epoll
  expired,  \* timers with an unread expiration
  unacked,  \* has the agent sent data that the RIC has not acknowledged?
  \* the event loop
  at,       \* where it is
  ev,       \* the descriptor it was woken for
  req,      \* the subscription it is adding or removing
  popped,   \* the indications it took from the queue and has still to send
  stop,     \* stop_token
  \* the RAN
  wanted,   \* aperiodic subscriptions the RAN produces indications for
  th,       \* th[i]: what the thread that reports for request id i does
  calls,    \* calls[i]: indications produced for i so far
  found,    \* found[i]: the subscription thread i has found
  \* history
  kept,     \* has the environment kept its manners?  It answers a set-up request within
            \* 3 s, the RIC stops only when all its messages have been read, and reports
            \* of the RAN keep clear of the removal of subscriptions
  sent,     \* the aperiodic indications sent
  abort     \* the assertion that failed, "none" if none has

ricVars  == <<up, setup, subs, next, lives, kept>>
loopVars == <<at, ev, req, popped, stop>>
ranVars  == <<wanted, th, calls, found>>
pipeVars == <<queue, bytes, popped>>
vars == <<ricVars, inbox, table, pending, queue, bytes, ready, expired, unacked,
          loopVars, ranVars, sent, abort>>

Ids    == 1..MaxId
NoSub  == [f |-> "none", st |-> "new"]
GenIds == [i : Ids, f : Funcs]
NoId   == [i |-> 0, f |-> "none"]
Items  == [i : Ids, f : Funcs, n : 1..MaxCalls]

\* descriptors: the socket, the read end of the pipe, and timers from 3 on;
\* 0 is no descriptor but the key of every aperiodic subscription
NET  == 1
PIPE == 2
FirstTimer == 3

TimerFds == {fd \in ToSet(pending) \cup {e.fd : e \in ToSet(table)} : fd >= FirstTimer}
\* timerfd_create returns the lowest free descriptor
NewFd == CHOOSE n \in FirstTimer..(FirstTimer + Cardinality(TimerFds)) :
           /\ n \notin TimerFds
           /\ \A m \in FirstTimer..n-1 : m \in TimerFds

Keys(t)    == {[i |-> e.i, f |-> e.f] : e \in ToSet(t)}
Running    == abort = "none"

\* epoll puts a descriptor on the ready list once
Wake(l, fd) == IF fd \in ToSet(l) THEN l ELSE Append(l, fd)
\* close() takes a descriptor off the list, on which it is once at most
Closed(l, fd) ==
  IF fd \in ToSet(l) THEN RemoveAt(l, CHOOSE k \in 1..Len(l) : l[k] = fd) ELSE l
\* what epoll_wait finds when it looks at a descriptor of the ready list
Readable(fd) == \/ fd = NET  /\ inbox # <<>>
                \/ fd = PIPE /\ bytes > 0
                \/ fd >= FirstTimer /\ fd \in expired

Init ==
  /\ up \in BOOLEAN
  /\ setup = IF up THEN "asked" ELSE "none"
  /\ subs = [i \in Ids |-> NoSub] /\ next = 1 /\ lives = 0 /\ kept = TRUE
  /\ inbox = <<>> /\ table = <<>> /\ pending = <<FirstTimer>>
  /\ queue = <<>> /\ bytes = 0 /\ ready = <<>> /\ expired = {} /\ unacked = up
  /\ at = "wait" /\ ev = 0 /\ req = NoId /\ popped = <<>> /\ stop = FALSE
  /\ wanted = {} /\ th = [i \in Ids |-> "idle"]
  /\ calls = [i \in Ids |-> 0] /\ found = [i \in Ids |-> NoId]
  /\ sent = <<>> /\ abort = "none"

-----------------------------------------------------------------------------
(* The near-RT RIC and the network *)

\* A message enters the socket of the agent, and epoll is told.
ToAgent(m) ==
  /\ inbox' = Append(inbox, m)
  /\ ready' = Wake(ready, NET)

\* The RIC is started, or started again with its first request id.
RicStart ==
  /\ Running /\ ~up
  /\ up' = TRUE
  /\ UNCHANGED <<setup, subs, next, lives, kept, inbox, table, pending, queue, bytes, ready,
                 expired, unacked, loopVars, ranVars, sent, abort>>

\* The RIC, which has heard of the agent, stops and closes the association; what it
\* knew is lost.
RicStop ==
  /\ Running /\ up /\ lives < MaxRestarts
  /\ setup # "none"
  /\ kept' = (kept /\ setup = "answered" /\ inbox = <<>>)
  /\ up' = FALSE /\ lives' = lives + 1 /\ setup' = "none"
  /\ subs' = [i \in Ids |-> NoSub] /\ next' = 1
  /\ ToAgent([type |-> "shutdown", id |-> NoId])
  /\ unacked' = FALSE
  /\ UNCHANGED <<table, pending, queue, bytes, expired, loopVars, ranVars, sent, abort>>

RicAnswersSetup ==
  /\ Running /\ up /\ setup = "asked"
  /\ setup' = "answered"
  /\ ToAgent([type |-> "setup", id |-> NoId])
  /\ UNCHANGED <<up, subs, next, lives, kept, table, pending, queue, bytes, expired, unacked,
                 loopVars, ranVars, sent, abort>>

\* The RIC asks for the indications of a RAN function under its next request id;
\* its iApp has heard of the node, so the set-up answer has been received.
RicSubscribes(f) ==
  /\ Running /\ up /\ setup = "answered" /\ next <= MaxId
  /\ ~ \E m \in ToSet(inbox) : m.type = "setup"
  /\ subs' = [subs EXCEPT ![next] = [f |-> f, st |-> "asked"]]
  /\ next' = next + 1
  /\ ToAgent([type |-> "sub", id |-> [i |-> next, f |-> f]])
  /\ UNCHANGED <<up, setup, lives, kept, table, pending, queue, bytes, expired, unacked,
                 loopVars, ranVars, sent, abort>>

RicDeletes(i) ==
  /\ Running /\ Deletes /\ up /\ subs[i].st = "held"
  /\ subs' = [subs EXCEPT ![i] = [f |-> @.f, st |-> "ending"]]
  /\ ToAgent([type |-> "del", id |-> [i |-> i, f |-> subs[i].f]])
  /\ UNCHANGED <<up, setup, next, lives, kept, table, pending, queue, bytes, expired, unacked,
                 loopVars, ranVars, sent, abort>>

\* An acknowledgement frees send buffer, which wakes everyone who waits on the socket.
SctpAck ==
  /\ Running /\ unacked
  /\ unacked' = FALSE
  /\ ready' = Wake(ready, NET)
  /\ UNCHANGED <<ricVars, inbox, table, pending, queue, bytes, expired, loopVars, ranVars,
                 sent, abort>>

\* What the agent sends reaches a RIC that runs, over a new association if need be, and
\* is lost otherwise.  A set-up request reaches the RIC; a second one in a life finds the node registered.
SetupRequestSent ==
  IF up
  THEN /\ setup' = (IF setup = "none" THEN "asked" ELSE "again")
       /\ unacked' = TRUE
  ELSE UNCHANGED <<setup, unacked>>

\* The answer to a request about subscription id reaches the RIC.
AnswerSent(id, st, newSt) ==
  IF up
  THEN /\ subs' = IF subs[id.i] = [f |-> id.f, st |-> st]
                  THEN [subs EXCEPT ![id.i] = [f |-> id.f, st |-> newSt]] ELSE subs
       /\ unacked' = TRUE
  ELSE UNCHANGED <<subs, unacked>>

-----------------------------------------------------------------------------
(* The event loop *)

\* epoll_wait: the head of the ready list is looked at once more and, if there is
\* still something to read, the loop is woken for it.
EpollWait ==
  /\ Running /\ at = "wait" /\ ~stop /\ ready # <<>>
  /\ ready' = Tail(ready)
  /\ IF Readable(Head(ready))
     THEN at' = "event" /\ ev' = Head(ready)
     ELSE UNCHANGED <<at, ev>>
  /\ UNCHANGED <<ricVars, inbox, table, pending, queue, bytes, expired, unacked, req,
                 popped, stop, ranVars, sent, abort>>

\* one message is read from the socket
Received(type) ==
  /\ Running /\ at = "event" /\ ev = NET
  /\ Head(inbox).type = type
  /\ inbox' = Tail(inbox)

\* E2_SETUP_RESPONSE: the timer of the request is stopped, there must be one.
SetupResponse ==
  /\ Received("setup")
  /\ at' = "wait"
  /\ IF pending = <<>>
     THEN abort' = "no pending request" /\ UNCHANGED <<pending, ready, expired>>
     ELSE /\ pending' = Tail(pending)
          /\ ready' = Closed(ready, Head(pending))
          /\ expired' = expired \ {Head(pending)}
          /\ UNCHANGED abort
  /\ UNCHANGED <<ricVars, table, queue, bytes, unacked, ev, req, popped, stop, ranVars, sent>>

\* fault: no timer is armed
ConnectionShutdownNoTimer ==
  /\ Received("shutdown")
  /\ at' = "wait"
  /\ UNCHANGED <<ricVars, table, pending, queue, bytes, ready, expired, unacked, ev, req,
                 popped, stop, ranVars, sent, abort>>

\* The association is lost: a timer is armed to send the set-up request again.
ConnectionShutdown ==
  /\ Received("shutdown")
  /\ at' = "wait"
  /\ pending' = Append(pending, NewFd)
  /\ UNCHANGED <<ricVars, table, queue, bytes, ready, expired, unacked, ev, req, popped,
                 stop, ranVars, sent, abort>>

\* fault: the RAN is given the message instead of the id in it
OnSubscriptionWhole ==
  /\ Received("sub")
  /\ at' = "subscribe" /\ req' = Head(inbox).id
  /\ wanted' = IF Head(inbox).id.f \in Aperiodic THEN wanted \cup {Head(inbox)} ELSE wanted
  /\ UNCHANGED <<ricVars, table, pending, queue, bytes, ready, expired, unacked, ev,
                 popped, stop, th, calls, found, sent, abort>>

\* RIC_SUBSCRIPTION_REQUEST: first the RAN or the service model hears of it ...
OnSubscription ==
  /\ Received("sub")
  /\ at' = "subscribe" /\ req' = Head(inbox).id
  /\ wanted' = IF Head(inbox).id.f \in Aperiodic
               THEN wanted \cup {Head(inbox).id} ELSE wanted
  /\ UNCHANGED <<ricVars, table, pending, queue, bytes, ready, expired, unacked, ev,
                 popped, stop, th, calls, found, sent, abort>>

\* fault: the request is not answered
RegisterSilently ==
  /\ Running /\ at = "subscribe"
  /\ at' = "wait"
  /\ table' = Append(table, [i |-> req.i, f |-> req.f,
                             fd |-> IF req.f \in Aperiodic THEN 0 ELSE NewFd])
  /\ UNCHANGED <<ricVars, inbox, pending, queue, bytes, ready, expired, unacked, ev, req,
                 popped, stop, ranVars, sent, abort>>

\* ... then it is entered in ind_event, under a new timer or under key 0.
RegisterSubscription ==
  /\ Running /\ at = "subscribe"
  /\ at' = "wait"
  /\ table' = Append(table, [i |-> req.i, f |-> req.f,
                             fd |-> IF req.f \in Aperiodic THEN 0 ELSE NewFd])
  /\ AnswerSent(req, "asked", "held")
  /\ UNCHANGED <<up, setup, next, lives, kept, inbox, pending, queue, bytes, ready, expired, ev,
                 req, popped, stop, ranVars, sent, abort>>

\* RIC_SUBSCRIPTION_DELETE_REQUEST: an unknown subscription is answered all the same.
DeleteRequest ==
  /\ Received("del")
  /\ IF Head(inbox).id \in Keys(table)
     THEN /\ at' = (IF Head(inbox).id.f \in Aperiodic THEN "unsubscribe" ELSE "extract")
          /\ req' = Head(inbox).id
          /\ UNCHANGED <<subs, unacked>>
     ELSE /\ at' = "wait" /\ UNCHANGED req
          /\ AnswerSent(Head(inbox).id, "ending", "new")
  /\ UNCHANGED <<up, setup, next, lives, kept, table, pending, queue, bytes, ready, expired, ev,
                 popped, stop, ranVars, sent, abort>>

\* free_subs_aperiodic: the RAN ends its reports.
FreeSubsAperiodic ==
  /\ Running /\ at = "unsubscribe"
  /\ kept' = (kept /\ th[req.i] = "idle")
  /\ wanted' = wanted \ {req}
  /\ at' = "extract"
  /\ UNCHANGED <<up, setup, subs, next, lives, inbox, table, pending, queue, bytes, ready, expired, unacked, ev,
                 req, popped, stop, th, calls, found, sent, abort>>

\* The positions at which a search of a tree with equal keys may end.  The tree keeps
\* them in order of insertion and with two entries has the older one at its root; the
\* shape of a larger tree is left open.
TopMost(S) == IF MaxId <= 2 /\ MaxRestarts = 0 THEN {k \in S : \A m \in S : k <= m} ELSE S

\* fault: the descriptor of the timer stays open and registered
ExtractKeepsTimer ==
  /\ Running /\ at = "extract"
  /\ \E k \in TopMost({n \in 1..Len(table) : table[n].i = req.i /\ table[n].f = req.f}) :
       table' = RemoveAt(table, k)
  /\ AnswerSent(req, "ending", "new")
  /\ at' = "wait"
  /\ UNCHANGED <<up, setup, next, lives, kept, inbox, pending, queue, bytes, ready, expired, ev, req,
                 popped, stop, ranVars, sent, abort>>

\* fault: the oldest subscription is taken out
ExtractOldest ==
  /\ Running /\ at = "extract"
  /\ table' = Tail(table)
  /\ ready' = Closed(ready, table[1].fd) /\ expired' = expired \ {table[1].fd}
  /\ AnswerSent(req, "ending", "new")
  /\ at' = "wait"
  /\ UNCHANGED <<up, setup, next, lives, kept, inbox, pending, queue, bytes, ev, req, popped, stop,
                 ranVars, sent, abort>>

\* bi_map_extract_right: the subscription is taken from the right map and what has its
\* left key from the left map, which must be the same subscription.  No mutex is held.
ExtractSubscription ==
  /\ Running /\ at = "extract"
  /\ \E k \in TopMost({n \in 1..Len(table) : table[n].i = req.i /\ table[n].f = req.f}) :
       \E l \in TopMost({n \in 1..Len(table) : table[n].fd = table[k].fd}) :
         IF [i |-> table[l].i, f |-> table[l].f] # req
         THEN /\ abort' = "keys differ"
              /\ UNCHANGED <<table, ready, expired, subs, unacked, at>>
         ELSE /\ table' = RemoveAt(table, k)
              /\ ready' = (IF table[k].fd = 0 THEN ready ELSE Closed(ready, table[k].fd))
              /\ expired' = expired \ {table[k].fd}
              /\ AnswerSent(req, "ending", "new")
              /\ at' = "wait"
              /\ UNCHANGED abort
  /\ UNCHANGED <<up, setup, next, lives, kept, inbox, pending, queue, bytes, ev, req, popped, stop,
                 ranVars, sent>>

\* fault: one indication is taken for one event
TakeOne ==
  /\ Running /\ at = "event" /\ ev = PIPE
  /\ IF queue = <<>>
     THEN abort' = "queue empty" /\ UNCHANGED <<popped, queue, at>>
     ELSE /\ popped' = <<Head(queue)>> /\ queue' = Tail(queue) /\ at' = "send"
          /\ UNCHANGED abort
  /\ UNCHANGED <<ricVars, inbox, table, pending, bytes, ready, expired, unacked, ev, req,
                 stop, ranVars, sent>>

\* APERIODIC_INDICATION_EVENT: the whole queue is taken, it must not be empty.  Only the
\* loop takes from it, so its size and the pops are one step.
TakeQueue ==
  /\ Running /\ at = "event" /\ ev = PIPE
  /\ IF queue = <<>>
     THEN abort' = "queue empty" /\ UNCHANGED <<popped, queue, at>>
     ELSE /\ popped' = queue /\ queue' = <<>> /\ at' = "send"
          /\ UNCHANGED abort
  /\ UNCHANGED <<ricVars, inbox, table, pending, bytes, ready, expired, unacked, ev, req,
                 stop, ranVars, sent>>

\* fault: the pipe is not read for an indication whose condition does not hold
SendOrSkip ==
  /\ Running /\ at = "send"
  /\ \/ sent' = Append(sent, Head(popped)) /\ unacked' = up
        /\ at' = "read" /\ UNCHANGED popped
     \/ UNCHANGED <<sent, unacked>> /\ popped' = Tail(popped)
        /\ at' = IF Tail(popped) = <<>> THEN "wait" ELSE "send"
  /\ UNCHANGED <<ricVars, inbox, table, pending, queue, bytes, ready, expired, ev, req,
                 stop, ranVars, abort>>

\* on_indication: the next indication is sent, or its condition does not hold.
SendAperiodic ==
  /\ Running /\ at = "send"
  /\ at' = "read"
  /\ \/ sent' = Append(sent, Head(popped)) /\ unacked' = up
     \/ UNCHANGED <<sent, unacked>>
  /\ UNCHANGED <<ricVars, inbox, table, pending, queue, bytes, ready, expired, ev, req,
                 popped, stop, ranVars, abort>>

\* fault: up to three bytes are read
ReadThree ==
  /\ Running /\ at = "read" /\ bytes > 0
  /\ bytes' = IF bytes > 3 THEN bytes - 3 ELSE 0
  /\ abort' = IF bytes = 1 THEN "one byte" ELSE "none"
  /\ popped' = Tail(popped)
  /\ at' = IF Tail(popped) = <<>> THEN "wait" ELSE "send"
  /\ UNCHANGED <<ricVars, inbox, table, pending, queue, ready, expired, unacked, ev, req,
                 stop, ranVars, sent>>

\* consume_fd_async: up to four bytes are read, one byte is an error; the pipe blocks.
ReadPipe ==
  /\ Running /\ at = "read" /\ bytes > 0
  /\ bytes' = IF bytes > 4 THEN bytes - 4 ELSE 0
  /\ abort' = IF bytes = 1 THEN "one byte" ELSE "none"
  /\ popped' = Tail(popped)
  /\ at' = IF Tail(popped) = <<>> THEN "wait" ELSE "send"
  /\ UNCHANGED <<ricVars, inbox, table, pending, queue, ready, expired, unacked, ev, req,
                 stop, ranVars, sent>>

\* INDICATION_EVENT of subscription e: an indication is sent, or its condition does not
\* hold; the timer is read afterwards.
PeriodicIndication(e) ==
  /\ Running /\ at = "event" /\ ev = e.fd /\ e.fd \notin {0, NET, PIPE}
  /\ at' = "wait"
  /\ unacked' \in {unacked, up}
  /\ expired' = expired \ {ev}
  /\ UNCHANGED <<ricVars, inbox, table, pending, queue, bytes, ready, ev, req, popped, stop,
                 ranVars, sent, abort>>

\* PENDING_EVENT, for a descriptor that is nothing else: there must be one pending event
\* and the descriptor must be its timer; the set-up request is sent again.
ResendSetup ==
  /\ Running /\ at = "event" /\ ev \notin {NET, PIPE} \cup {e.fd : e \in ToSet(table)}
  /\ at' = "wait"
  /\ IF pending # <<ev>>
     THEN /\ abort' = IF Len(pending) = 1 THEN "unknown event" ELSE "not one pending request"
          /\ UNCHANGED <<setup, unacked, expired>>
     ELSE SetupRequestSent /\ expired' = expired \ {ev} /\ UNCHANGED abort
  /\ UNCHANGED <<up, subs, next, lives, kept, inbox, table, pending, queue, bytes, ready, ev, req,
                 popped, stop, ranVars, sent>>

\* A timer expires; that of the set-up request only when no answer is to come in time.
TimerExpires(fd) ==
  /\ Running /\ fd \in TimerFds /\ fd \notin expired
  /\ kept' = (kept /\ (fd \in ToSet(pending) => setup = "none" \/ ~up))
  /\ expired' = expired \cup {fd}
  /\ ready' = Wake(ready, fd)
  /\ UNCHANGED <<up, setup, subs, next, lives, inbox, table, pending, queue, bytes, unacked, loopVars, ranVars,
                 sent, abort>>

\* The loop sees stop_token when it is back at epoll_wait, and ends.
LoopEnds ==
  /\ Running /\ at = "wait" /\ stop
  /\ at' = "stopped"
  /\ UNCHANGED <<ricVars, inbox, table, pending, queue, bytes, ready, expired, unacked, ev,
                 req, popped, stop, ranVars, sent, abort>>

\* e2_free_agent: the token is set (the RAN, a caller that reports no more, has ended its
\* reports before) ...
StopAgent ==
  /\ Running /\ MayStop /\ ~stop
  /\ \A i \in Ids : th[i] = "idle"
  /\ stop' = TRUE /\ wanted' = {}
  /\ UNCHANGED <<ricVars, inbox, table, pending, queue, bytes, ready, expired, unacked, at,
                 ev, req, popped, th, calls, found, sent, abort>>

\* ... and once the loop has ended everything is freed.
FreeAgent ==
  /\ Running /\ at = "stopped"
  /\ at' = "freed"
  /\ pending' = <<>> /\ table' = <<>> /\ queue' = <<>>
  /\ UNCHANGED <<ricVars, inbox, bytes, ready, expired, unacked, ev, req, popped, stop,
                 ranVars, sent, abort>>

-----------------------------------------------------------------------------
(* e2_async_event_agent, called by the thread of the RAN that reports for request id i *)

EventHappens(i) ==
  /\ Running /\ th[i] = "idle" /\ calls[i] < MaxCalls /\ ~stop
  /\ \E s \in wanted : s.i = i
  /\ th' = [th EXCEPT ![i] = "look"]
  /\ calls' = [calls EXCEPT ![i] = @ + 1]
  /\ UNCHANGED <<ricVars, inbox, table, pending, queue, bytes, ready, expired, unacked,
                 loopVars, wanted, found, sent, abort>>

\* The subscription is looked up, by its request id alone, with mtx_ind_event held.  The
\* ten tries outlast the rest of OnSubscription; a search without result is fatal, and a
\* search while the loop takes the tree apart may follow a freed node.
LookUp(i) ==
  /\ Running /\ th[i] = "look"
  /\ IF \E s \in Keys(table) : s.i = i
     THEN /\ kept' = (kept /\ at # "extract")
          /\ found' \in {[found EXCEPT ![i] = s] : s \in {k \in Keys(table) : k.i = i}}
          /\ th' = [th EXCEPT ![i] = "push"]
          /\ abort' \in {"none"} \cup (IF at = "extract" THEN {"freed node"} ELSE {})
     ELSE /\ ~ (at = "subscribe" /\ req.i = i)
          /\ abort' = "not found" /\ UNCHANGED <<found, th, kept>>
  /\ UNCHANGED <<up, setup, subs, next, lives, inbox, table, pending, queue, bytes, ready, expired, unacked,
                 loopVars, wanted, calls, sent>>

\* fault: the newest indication is put in front
PushInFront(i) ==
  /\ Running /\ th[i] = "push"
  /\ queue' = <<[i |-> i, f |-> found[i].f, n |-> calls[i]]>> \o queue
  /\ th' = [th EXCEPT ![i] = "write"]
  /\ UNCHANGED <<ricVars, inbox, table, pending, bytes, ready, expired, unacked, loopVars,
                 wanted, calls, found, sent, abort>>

\* push_tsq
PushIndication(i) ==
  /\ Running /\ th[i] = "push"
  /\ queue' = Append(queue, [i |-> i, f |-> found[i].f, n |-> calls[i]])
  /\ th' = [th EXCEPT ![i] = "write"]
  /\ UNCHANGED <<ricVars, inbox, table, pending, bytes, ready, expired, unacked, loopVars,
                 wanted, calls, found, sent, abort>>

\* write: the digits of the request id enter the pipe, and epoll is told.
WritePipe(i) ==
  /\ Running /\ th[i] = "write"
  /\ bytes' = bytes + Digits[i]
  /\ ready' = Wake(ready, PIPE)
  /\ th' = [th EXCEPT ![i] = "idle"]
  /\ UNCHANGED <<ricVars, inbox, table, pending, queue, expired, unacked, loopVars, wanted,
                 calls, found, sent, abort>>

Loop ==
  \/ EpollWait \/ SetupResponse \/ ConnectionShutdown \/ OnSubscription
  \/ RegisterSubscription \/ DeleteRequest \/ FreeSubsAperiodic \/ ExtractSubscription
  \/ TakeQueue \/ SendAperiodic \/ ReadPipe \/ ResendSetup \/ LoopEnds
  \/ \E e \in ToSet(table) : PeriodicIndication(e)

Ran(i) == LookUp(i) \/ PushIndication(i) \/ WritePipe(i)

Next ==
  \/ RicStart \/ RicStop \/ RicAnswersSetup \/ SctpAck
  \/ \E f \in Funcs : RicSubscribes(f)
  \/ \E i \in Ids : RicDeletes(i) \/ EventHappens(i) \/ Ran(i)
  \/ \E fd \in TimerFds : TimerExpires(fd)
  \/ Loop \/ StopAgent \/ FreeAgent

Spec == Init /\ [][Next]_vars

\* The loop and a RAN thread within a call run until they block; the timer of the set-up
\* request is periodic; the kernel acknowledges; and the RIC comes back and answers.
Fairness ==
  /\ WF_vars(Loop)
  /\ \A i \in Ids : WF_vars(Ran(i))
  /\ WF_vars(\E fd \in ToSet(pending) : TimerExpires(fd))
  /\ WF_vars(SctpAck) /\ WF_vars(RicStart) /\ WF_vars(RicAnswersSetup)

FairSpec == Spec /\ Fairness

-----------------------------------------------------------------------------
(* Properties *)

\* Types of the state.
TypeOK ==
  /\ up \in BOOLEAN /\ setup \in {"none", "asked", "answered", "again"}
  /\ subs \in [Ids -> [f : Funcs, st : {"asked", "held", "ending", "new"}] \cup {NoSub}]
  /\ next \in 1..MaxId+1 /\ lives \in 0..MaxRestarts
  /\ inbox \in Seq([type : {"setup", "shutdown", "sub", "del"}, id : GenIds \cup {NoId}])
  /\ table \in Seq([i : Ids, f : Funcs, fd : Nat]) /\ pending \in Seq(Nat)
  /\ queue \in Seq(Items) /\ popped \in Seq(Items) /\ sent \in Seq(Items)
  /\ bytes \in Nat /\ ready \in Seq(Nat) /\ expired \subseteq Nat /\ unacked \in BOOLEAN
  /\ at \in {"wait", "event", "subscribe", "unsubscribe", "extract", "send", "read",
             "stopped", "freed"}
  /\ ev \in Nat /\ req \in GenIds \cup {NoId} /\ stop \in BOOLEAN
  /\ wanted \subseteq GenIds /\ kept \in BOOLEAN
  /\ th \in [Ids -> {"idle", "look", "push", "write"}]
  /\ calls \in [Ids -> 0..MaxCalls] /\ found \in [Ids -> GenIds \cup {NoId}]
  /\ abort \in {"none", "no pending request", "not one pending request", "unknown event",
               "queue empty", "one byte", "keys differ", "not found", "freed node"}

\* Whatever the environment does, assertions fail only for the reasons known: a report
\* for a subscription that the RIC does not hold, a removal while another aperiodic
\* subscription is registered, a second loss of the association before the set-up is
\* answered.  The answer to a set-up request always finds its timer, and every event is
\* known.  While the environment keeps its manners only the second reason is left.
FailuresForeseen ==
  /\ kept => abort \in {"none", "keys differ"}
  /\ abort \notin {"no pending request", "unknown event", "queue empty", "one byte"}
  /\ abort = "not found" => \E i \in Ids : th[i] = "look" /\ subs[i].st # "held"
  /\ abort = "freed node" => at = "extract"
  /\ abort = "keys differ" => Cardinality({e \in ToSet(table) : e.fd = 0}) > 1
  /\ abort = "not one pending request" => Len(pending) > 1

\* The RAN threads between push_tsq and write.
Writers == {i \in Ids : th[i] = "write"}

\* The pipe holds exactly what the loop will read for the indications announced: four
\* bytes for each one handed over, in the queue or in the hands of the loop, that its
\* thread has written.  So the loop that finds the pipe readable finds the queue filled
\* (e2_agent.c:277), and a read waits only for a thread that is about to write.
PipeMatchesQueue ==
  at # "freed" => bytes + 4 * Cardinality(Writers) = 4 * (Len(queue) + Len(popped))

\* The indications of a subscription are sent in the order in which the RAN produced
\* them, each at most once, although the thread that is ahead in the pipe need not be
\* the one that is ahead in the queue.
SentInOrder ==
  \A k, l \in 1..Len(sent) : k < l /\ sent[k].i = sent[l].i => sent[k].n < sent[l].n

\* What the RIC was granted and holds is registered at the agent, under a timer of its
\* own if it is periodic: timers that are closed and numbers that are used again mix up
\* no two subscriptions.
HeldIsRegistered ==
  at # "freed" =>
    \A i \in Ids : subs[i].st = "held" =>
      /\ [i |-> i, f |-> subs[i].f] \in Keys(table)
      /\ \A k, l \in 1..Len(table) : table[k].fd = table[l].fd /\ table[k].fd # 0 => k = l
      /\ \A e \in ToSet(table) : e.fd \notin ToSet(pending)

\* From here on nothing is promised.
Excused == stop \/ ~kept \/ abort # "none"

\* An indication handed over does not stay in the queue: its bytes wake the loop.
IndicationsLeave ==
  \A i \in Ids, n \in 1..MaxCalls :
    (\E x \in ToSet(queue) : x.i = i /\ x.n = n)
      ~> (Excused \/ ~ \E x \in ToSet(queue \o popped) : x.i = i /\ x.n = n)

\* A request of the RIC is answered, unless the RIC or the agent stops: with one message
\* read for each edge none is left in the socket.
RequestsAnswered ==
  \A i \in Ids : subs[i].st \in {"asked", "ending"} ~>
                   (Excused \/ subs[i].st \in {"held", "new"})

\* The agent asks for its set-up whenever the RIC is back, as its reaction to a lost
\* association promises (not_handler_agent.c:15); it may fail to when the RIC stops
\* behind messages that have not been read.
SetupAsked ==
  up /\ setup = "none" ~> (Excused \/ ~up \/ setup # "none")
=============================================================================
