------------------------------- MODULE RicIApp -------------------------------
(***************************************************************************)
(* Request routing in the near-RT RIC (flexric/src/ric and ric/iApp).      *)
(*                                                                         *)
(* The iApp thread takes the requests of the xApps, gives each a RIC       *)
(* request id, arms a 3 s timer that it adds to ric->pending, sends the    *)
(* request to the E2 node and records in map_ric_id which xApp it belongs  *)
(* to.  Every answer of a node is a task of its own for the workers of the *)
(* task manager (TaskPool): it stops the timer, looks the xApp up in       *)
(* map_ric_id, forwards the answer, and removes the entry when the         *)
(* procedure is over.  So the answers of one node may overtake each other. *)
(* The event loop of the RIC handles timers and lost nodes itself.         *)
(*                                                                         *)
(* Every mutex or rwlock section is one step, except the write lock that   *)
(* the iApp thread holds on map_ric_id over the whole of a subscription or *)
(* control request ("wlock").  A failed assertion sets "abort" and stops.  *)
(***************************************************************************)
EXTENDS Integers, Sequences, FiniteSets

CONSTANTS
  XApps,         \* the xApps
  XId,           \* XId[x]: the id the iApp has given to x (7, 8, ... in the code)
  Nodes,         \* connected E2 nodes
  RanFunc,       \* RanFunc[x]: the RAN function xApp x uses
  MaxId,         \* bound on the RIC request ids (from 1021 in the code)
  MaxLocal,      \* bound on the request ids of an xApp
  MaxInd,        \* bound on the indications sent
  XAppsMayDie,   \* may an xApp vanish?
  NodesMayLeave, \* may an E2 node shut its association down?
  LateAnswers    \* may an answer take longer than the timer?

ASSUME XAppsAssumption   == IsFiniteSet(XApps)
ASSUME XIdAssumption     == XId \in [XApps -> Nat] /\ \A x, y \in XApps : XId[x] = XId[y] => x = y
ASSUME RanFuncAssumption == DOMAIN RanFunc = XApps
ASSUME BoundsAssumption  == MaxId \in Nat /\ MaxLocal \in Nat /\ MaxInd \in Nat
ASSUME FlagsAssumption   == {XAppsMayDie, NodesMayLeave, LateAnswers} \subseteq BOOLEAN

VARIABLES
  \* the xApps, as seen from the RIC (their inside is XAppSync)
  alive,    \* alive[x]
  xcall,    \* xcall[x]: the call xApp x waits for, <<>> if none
  xnext,    \* xnext[x]: the next request id of x
  xsubs,    \* xsubs[x]: the subscriptions x was granted and holds
  \* messages
  toIApp,   \* from the xApps to the iApp thread
  toX,      \* from the workers to the xApps
  toN,      \* toN[n]: from the iApp to node n, in order
  \* the iApp and the RIC
  nextId,   \* ric->req_id
  pending,  \* ric->pending: the requests whose timer runs
  map,      \* map_ric_id: map[i] is the owner of RIC request id i, or NoEntry
  wlock,    \* does the iApp thread hold map_ric_id.rw for writing?
  sock,     \* ep.e2_nodes: the nodes with a registered socket address
  reg,      \* iapp->e2_nodes: the nodes known to the iApp
  ipc,      \* where the iApp thread is
  ireq,     \* the request it is handling
  iid,      \* the RIC request id it is sending
  ilist,    \* the subscriptions it still has to delete
  lpc,      \* where the RIC event loop is
  lev,      \* the timer or the node it is handling
  tasks,    \* the answers handed to the task manager and not finished
  \* the E2 nodes
  up,       \* up[n]: is node n connected?
  active,   \* active[n]: the subscriptions of node n
  inds,     \* number of indications sent so far
  abort     \* the assertion that failed

xVars    == <<alive, xcall, xnext, xsubs>>
msgVars  == <<toIApp, toX, toN>>
ricVars  == <<nextId, pending, map, wlock, sock, reg>>
iappVars == <<ipc, ireq, iid, ilist>>
loopVars == <<lpc, lev>>
nodeVars == <<up, active, inds>>
vars     == <<xVars, msgVars, ricVars, iappVars, loopVars, tasks, nodeVars, abort>>

Ids      == 1..MaxId
Locals   == 1..MaxLocal
Ops      == {"sub", "del", "ctrl"}
NoEntry  == [x |-> 0, l |-> 0, n |-> 0, op |-> "none"]
Entries  == [x : XApps, l : Locals, n : Nodes, op : {"sub", "ctrl"}]
Requests == [x : XApps, l : Locals, n : Nodes, op : {"sub", "ctrl"}]
              \cup [x : XApps, l : Locals, op : {"del"}]
Gone     == [x : XApps, op : {"gone"}]
Tasks    == [op : Ops \cup {"ind"}, i : Ids, pc : {"stop", "find", "tx", "rm"},
             to : Entries \cup {NoEntry}]
ToXApp   == [x : XApps, l : Locals, op : Ops \cup {"ind"}]

\* Types of the state; the iApp holds the write lock of map_ric_id exactly while it
\* forwards and records a subscription or control request.
TypeOK ==
  /\ alive \in [XApps -> BOOLEAN]
  /\ xcall \in [XApps -> {<<>>} \cup (Ops \X Locals)]
  /\ xnext \in [XApps -> 1..MaxLocal+1]
  /\ xsubs \in [XApps -> SUBSET Locals]
  /\ toIApp \subseteq Requests \cup Gone
  /\ toX \subseteq ToXApp
  /\ \A n \in Nodes : toN[n] \in Seq(Ops \X Ids)
  /\ nextId \in 1..MaxId+1
  /\ pending \subseteq Ops \X Ids
  /\ map \in [Ids -> Entries \cup {NoEntry}]
  /\ wlock \in BOOLEAN /\ wlock = (ipc \in {"fwd", "add"} \/ (ipc = "send" /\ ireq.op # "del"))
  /\ sock \subseteq Nodes /\ reg \subseteq Nodes
  /\ ipc \in {"epoll", "fwd", "del", "send", "add"}
  /\ iid \in Ids \cup {0} /\ ilist \subseteq Ids \X Nodes
  /\ lpc \in {"epoll", "timer", "shutdown"}
  /\ tasks \subseteq Tasks
  /\ up \in [Nodes -> BOOLEAN]
  /\ active \in [Nodes -> SUBSET Ids]
  /\ inds \in 0..MaxInd

Init ==
  /\ alive = [x \in XApps |-> TRUE]
  /\ xcall = [x \in XApps |-> <<>>]
  /\ xnext = [x \in XApps |-> 1]
  /\ xsubs = [x \in XApps |-> {}]
  /\ toIApp = {} /\ toX = {} /\ toN = [n \in Nodes |-> <<>>]
  /\ nextId = 1 /\ pending = {}
  /\ map = [i \in Ids |-> NoEntry] /\ wlock = FALSE
  /\ sock = Nodes /\ reg = Nodes
  /\ ipc = "epoll" /\ ireq = NoEntry /\ iid = 0 /\ ilist = {}
  /\ lpc = "epoll" /\ lev = <<>>
  /\ tasks = {}
  /\ up = [n \in Nodes |-> TRUE]
  /\ active = [n \in Nodes |-> {}]
  /\ inds = 0
  /\ abort = "none"

Fail(what) ==
  /\ abort' = what
  /\ UNCHANGED <<xVars, msgVars, ricVars, iappVars, loopVars, tasks, nodeVars>>
----------------------------------------------------------------------------
(* The xApps: one synchronous call at a time (XAppSync)                     *)

\* report_sm_xapp_api ("sub") or control_sm_xapp_api ("ctrl"): valid_global_e2_node
\* lets an xApp name any node it was told of, and nothing tells it that one has left
XRequest(x, n, op) ==
  /\ alive[x] /\ xcall[x] = <<>> /\ xnext[x] <= MaxLocal
  /\ xcall' = [xcall EXCEPT ![x] = <<op, xnext[x]>>]
  /\ xnext' = [xnext EXCEPT ![x] = @ + 1]
  /\ toIApp' = toIApp \cup {[x |-> x, l |-> xnext[x], n |-> n, op |-> op]}
  /\ UNCHANGED <<alive, xsubs, toX, toN, ricVars, iappVars, loopVars, tasks, nodeVars, abort>>

\* rm_report_sm_xapp_api; the message carries no node
XDelete(x, l) ==
  /\ alive[x] /\ xcall[x] = <<>> /\ l \in xsubs[x]
  /\ xcall' = [xcall EXCEPT ![x] = <<"del", l>>]
  /\ toIApp' = toIApp \cup {[x |-> x, l |-> l, op |-> "del"]}
  /\ UNCHANGED <<alive, xnext, xsubs, toX, toN, ricVars, iappVars, loopVars, tasks, nodeVars, abort>>

\* An answer completes the call that waits for it.  One that nobody waits for makes
\* an assertion of the xApp fail; an indication never does.
XReceive(m) ==
  /\ m \in toX /\ alive[m.x]
  /\ toX' = toX \ {m}
  /\ IF m.op = "ind" THEN UNCHANGED xVars
     ELSE IF xcall[m.x] = <<m.op, m.l>>
       THEN /\ xcall' = [xcall EXCEPT ![m.x] = <<>>]
            /\ xsubs' = [xsubs EXCEPT ![m.x] = CASE m.op = "sub" -> @ \cup {m.l}
                                                 [] m.op = "del" -> @ \ {m.l}
                                                 [] OTHER -> @]
            /\ UNCHANGED <<alive, xnext>>
       ELSE /\ alive' = [alive EXCEPT ![m.x] = FALSE]
            /\ UNCHANGED <<xcall, xnext, xsubs>>
  /\ UNCHANGED <<toIApp, toN, ricVars, iappVars, loopVars, tasks, nodeVars, abort>>

\* What was sent to an xApp that has gone comes back as an SCTP_SEND_FAILED
\* notification, the only way the iApp hears of it (endpoint_iapp.c:67-72)
SendFailed(m) ==
  /\ m \in toX /\ ~alive[m.x]
  /\ toX' = toX \ {m}
  /\ toIApp' = toIApp \cup {[x |-> m.x, op |-> "gone"]}
  /\ UNCHANGED <<xVars, toN, ricVars, iappVars, loopVars, tasks, nodeVars, abort>>

XDie(x) ==
  /\ XAppsMayDie /\ alive[x]
  /\ alive' = [alive EXCEPT ![x] = FALSE]
  /\ UNCHANGED <<xcall, xnext, xsubs, msgVars, ricVars, iappVars, loopVars, tasks, nodeVars, abort>>

----------------------------------------------------------------------------
(* The iApp thread *)

\* subscription and control request: checks, then the write lock on map_ric_id
IRequest(m) ==
  /\ ipc = "epoll" /\ m \in toIApp /\ m.op \in {"sub", "ctrl"}
  /\ nextId <= MaxId
  /\ IF m.n \notin reg
       THEN Fail("invalid node")
       ELSE /\ toIApp' = toIApp \ {m}
            /\ wlock' = TRUE
            /\ ireq' = m
            /\ ipc' = "fwd"
            /\ UNCHANGED <<xVars, toX, toN, nextId, pending, map, sock, reg, iid, ilist,
                           loopVars, tasks, nodeVars, abort>>

\* fwd_ric_subscription_request and fwd_ric_control_request: id, timer, pending event
IForward ==
  /\ ipc = "fwd"
  /\ iid' = nextId
  /\ nextId' = nextId + 1
  /\ pending' = pending \cup {<<ireq.op, nextId>>}
  /\ ipc' = "send"
  /\ UNCHANGED <<xVars, msgVars, map, wlock, sock, reg, ireq, ilist, loopVars, tasks, nodeVars, abort>>

\* e2ap_send_bytes_ric: find_map_e2_node_sad asserts that the node is registered;
\* sending to a node that has just gone only prints an error
ISend ==
  /\ ipc = "send"
  /\ IF ireq.n \notin sock
       THEN Fail("node address not found")
       ELSE /\ toN' = [toN EXCEPT ![ireq.n] =
                         IF up[ireq.n] THEN Append(@, <<ireq.op, iid>>) ELSE @]
            /\ ipc' = IF ireq.op # "del" THEN "add" ELSE IF ilist = {} THEN "epoll" ELSE "del"
            /\ UNCHANGED <<xVars, toIApp, toX, ricVars, ireq, iid, ilist,
                           loopVars, tasks, nodeVars, abort>>

IAddKeepsLock ==    \* fault: the write lock is not released
  /\ ipc = "add"
  /\ map' = [map EXCEPT ![iid] = ireq]
  /\ ipc' = "epoll"
  /\ UNCHANGED <<xVars, msgVars, nextId, pending, wlock, sock, reg, ireq, iid, ilist,
                 loopVars, tasks, nodeVars, abort>>

\* add_map_ric_id and the unlock
IAdd ==
  /\ ipc = "add"
  /\ IF map[iid] # NoEntry
       THEN Fail("ric_req_id already in the map")
       ELSE /\ map' = [map EXCEPT ![iid] = ireq]
            /\ wlock' = FALSE
            /\ ipc' = "epoll"
            /\ UNCHANGED <<xVars, msgVars, nextId, pending, sock, reg, ireq, iid, ilist,
                           loopVars, tasks, nodeVars, abort>>

MatchesId(i, m) ==     \* fault: the RAN function is not compared
  map[i] # NoEntry /\ map[i].l = m.l

\* eq_xapp_ric_gen_id compares m0->xapp_id with itself: any xApp's entry with the
\* same request id and RAN function matches
Matches(i, m) == map[i] # NoEntry /\ map[i].l = m.l /\ RanFunc[map[i].x] = RanFunc[m.x]

\* find_if walks the right tree in the order of the xApp ids
Found(m) == {i \in Ids : /\ Matches(i, m)
                         /\ \A j \in Ids : Matches(j, m) => XId[map[i].x] <= XId[map[j].x]}

\* subscription delete request: find_ric_req_map_ric_id, with its assertions
IDelete(m) ==
  /\ ipc = "epoll" /\ m \in toIApp /\ m.op = "del"
  /\ IF Found(m) = {} THEN Fail("xApp ric id not found")
     ELSE \E i \in Found(m) :
       IF map[i].op # "sub" THEN Fail("not a subscription")
       ELSE /\ toIApp' = toIApp \ {m}
            /\ ilist' = {<<i, map[i].n>>}
            /\ ipc' = "del"
            /\ UNCHANGED <<xVars, toX, toN, ricVars, ireq, iid, loopVars, tasks, nodeVars, abort>>

\* an xApp has gone: find_all_subs_map_ric_id copies its subscriptions
IGone(m) ==
  /\ ipc = "epoll" /\ m \in toIApp /\ m.op = "gone"
  /\ toIApp' = toIApp \ {m}
  /\ ilist' = {<<i, map[i].n>> : i \in {j \in Ids : map[j].x = m.x /\ map[j].op = "sub"}}
  /\ ipc' = IF ilist' = {} THEN "epoll" ELSE "del"
  /\ UNCHANGED <<xVars, toX, toN, ricVars, ireq, iid, loopVars, tasks, nodeVars, abort>>

\* fwd_ric_subscription_request_delete: nothing to do if the same delete is pending
IForwardAgain(d) ==    \* fault: the delete is sent although one is pending
  /\ ipc = "del" /\ d \in ilist
  /\ ilist' = ilist \ {d}
  /\ pending' = pending \cup {<<"del", d[1]>>}
  /\ iid' = d[1]
  /\ ireq' = [op |-> "del", n |-> d[2]]
  /\ ipc' = "send"
  /\ UNCHANGED <<xVars, msgVars, nextId, map, wlock, sock, reg, loopVars, tasks, nodeVars, abort>>

IForwardDelete(d) ==
  /\ ipc = "del" /\ d \in ilist
  /\ ilist' = ilist \ {d}
  /\ IF <<"del", d[1]>> \in pending
       THEN /\ ipc' = IF ilist' = {} THEN "epoll" ELSE "del"
            /\ UNCHANGED <<pending, iid, ireq>>
       ELSE /\ pending' = pending \cup {<<"del", d[1]>>}
            /\ iid' = d[1]
            /\ ireq' = [op |-> "del", n |-> d[2]]
            /\ ipc' = "send"
  /\ UNCHANGED <<xVars, msgVars, nextId, map, wlock, sock, reg, loopVars, tasks, nodeVars, abort>>

----------------------------------------------------------------------------
(* The workers: sctp_msg_arrived_event, one task per message of a node      *)

Step(t, to, pc) == tasks' = (tasks \ {t}) \cup {[t EXCEPT !.to = to, !.pc = pc]}
Finish(t)       == tasks' = tasks \ {t}

\* stop_pending_event: extracting an event that is not there fails an assertion
TStop(t) ==
  /\ t \in tasks /\ t.pc = "stop"
  /\ IF <<t.op, t.i>> \notin pending
       THEN Fail("no pending event")
       ELSE /\ pending' = pending \ {<<t.op, t.i>>}
            /\ Step(t, NoEntry, "find")
            /\ UNCHANGED <<xVars, msgVars, nextId, map, wlock, sock, reg, iappVars,
                           loopVars, nodeVars, abort>>

TFindLenient(t) ==      \* fault: the lock is not taken, and an unknown id is ignored for every answer
  /\ t \in tasks /\ t.pc = "find"
  /\ IF map[t.i] # NoEntry THEN Step(t, map[t.i], "tx") ELSE Finish(t)
  /\ UNCHANGED <<xVars, msgVars, ricVars, iappVars, loopVars, nodeVars, abort>>

\* find_xapp_map_ric_id under the read lock
TFindUnlocked(t) ==     \* fault: the iApp does not hold the map over its request
  /\ t \in tasks /\ t.pc = "find"
  /\ IF map[t.i] # NoEntry THEN Step(t, map[t.i], "tx") /\ UNCHANGED abort
     ELSE IF t.op \in {"del", "ind"} THEN Finish(t) /\ UNCHANGED abort
     ELSE abort' = "RIC Req Id not found!" /\ UNCHANGED tasks
  /\ UNCHANGED <<xVars, msgVars, ricVars, iappVars, loopVars, nodeVars>>

TFind(t) ==
  /\ t \in tasks /\ t.pc = "find"
  /\ ~wlock
  /\ IF map[t.i] # NoEntry THEN Step(t, map[t.i], "tx") /\ UNCHANGED abort
     ELSE IF t.op \in {"del", "ind"} THEN Finish(t) /\ UNCHANGED abort
     ELSE abort' = "RIC Req Id not found!" /\ UNCHANGED tasks
  /\ UNCHANGED <<xVars, msgVars, ricVars, iappVars, loopVars, nodeVars>>

\* e2ap_send_sctp_msg_iapp: the answer carries the request id of the xApp
TSend(t) ==
  /\ t \in tasks /\ t.pc = "tx"
  /\ toX' = toX \cup {[x |-> t.to.x, l |-> t.to.l, op |-> t.op]}
  /\ IF t.op \in {"del", "ctrl"} THEN Step(t, t.to, "rm") ELSE Finish(t)
  /\ UNCHANGED <<xVars, toIApp, toN, ricVars, iappVars, loopVars, nodeVars, abort>>

\* rm_map_ric_id by the xApp's key: extracting a key that is not there fails
OwnedByXApp(e) ==    \* fault: the request id is not part of the key
  {i \in Ids : map[i] # NoEntry /\ map[i].x = e.x}

Owned(e) == {i \in Ids : map[i] # NoEntry /\ map[i].x = e.x /\ map[i].l = e.l}

TRemove(t) ==
  /\ t \in tasks /\ t.pc = "rm"
  /\ ~wlock
  /\ IF Owned(t.to) = {}
       THEN Fail("xApp ric id not in the map")
       ELSE /\ map' = [i \in Ids |-> IF i \in Owned(t.to) THEN NoEntry ELSE map[i]]
            /\ Finish(t)
            /\ UNCHANGED <<xVars, msgVars, nextId, pending, wlock, sock, reg, iappVars,
                           loopVars, nodeVars, abort>>

----------------------------------------------------------------------------
(* The event loop of the RIC *)

\* epoll reports an expired timer ...
LExpired(e) ==
  /\ lpc = "epoll" /\ LateAnswers /\ e \in pending
  /\ lev' = e /\ lpc' = "timer"
  /\ UNCHANGED <<xVars, msgVars, ricVars, iappVars, tasks, nodeVars, abort>>

\* ... and pend_event asserts that its fd is still in the map; the PENDING_EVENT case
\* then calls consume_fd(e.fd), but next_asio_event_ric never sets e.fd
LTimer ==
  /\ lpc = "timer"
  /\ Fail(IF lev \in pending THEN "consume_fd" ELSE "fd not pending")

\* notification_handle_ric: the socket address, then the iApp's copy of the node.
\* Neither map_ric_id nor the pending events of the node are touched.
LShutdown(n) ==
  /\ lpc = "epoll" /\ ~up[n] /\ n \in sock
  /\ sock' = sock \ {n}
  /\ lev' = n /\ lpc' = "shutdown"
  /\ UNCHANGED <<xVars, msgVars, nextId, pending, map, wlock, reg, iappVars, tasks, nodeVars, abort>>

\* The update that the loop sends to every xApp on the loss of a node is in RicNodes: an xApp
\* here asks for any node it likes, whatever it has been told.
LForget ==
  /\ lpc = "shutdown"
  /\ reg' = reg \ {lev}
  /\ lev' = <<>> /\ lpc' = "epoll"
  /\ UNCHANGED <<xVars, msgVars, nextId, pending, map, wlock, sock, iappVars, tasks, nodeVars, abort>>

----------------------------------------------------------------------------
(* The E2 nodes (flexric/src/agent): every request is answered, in order *)

NAnswer(n) ==
  /\ toN[n] # <<>>
  /\ LET op == Head(toN[n])[1]
         i  == Head(toN[n])[2]
     IN /\ tasks' = tasks \cup {[op |-> op, i |-> i, pc |-> "stop", to |-> NoEntry]}
        /\ active' = [active EXCEPT ![n] = CASE op = "sub" -> @ \cup {i}
                                             [] op = "del" -> @ \ {i}
                                             [] OTHER -> @]
  /\ toN' = [toN EXCEPT ![n] = Tail(@)]
  /\ UNCHANGED <<xVars, toIApp, toX, ricVars, iappVars, loopVars, up, inds, abort>>

NIndicate(n, i) ==
  /\ i \in active[n] /\ inds < MaxInd
  /\ inds' = inds + 1
  /\ tasks' = tasks \cup {[op |-> "ind", i |-> i, pc |-> "find", to |-> NoEntry]}
  /\ UNCHANGED <<xVars, msgVars, ricVars, iappVars, loopVars, up, active, abort>>

NLeave(n) ==
  /\ NodesMayLeave /\ up[n]
  /\ up' = [up EXCEPT ![n] = FALSE]
  /\ active' = [active EXCEPT ![n] = {}]
  /\ toN' = [toN EXCEPT ![n] = <<>>]
  /\ UNCHANGED <<xVars, toIApp, toX, ricVars, iappVars, loopVars, tasks, inds, abort>>

----------------------------------------------------------------------------
IAppStep ==
  \/ \E m \in toIApp : IRequest(m) \/ IDelete(m) \/ IGone(m)
  \/ IForward \/ ISend \/ IAdd
  \/ \E d \in ilist : IForwardDelete(d)

TaskStep(t) == TStop(t) \/ TFind(t) \/ TSend(t) \/ TRemove(t)

LoopStep == LTimer \/ LForget \/ (\E e \in pending : LExpired(e)) \/ (\E n \in Nodes : LShutdown(n))

XStep(x) ==
  \/ \E n \in Nodes, op \in {"sub", "ctrl"} : XRequest(x, n, op)
  \/ \E l \in Locals : XDelete(x, l)
  \/ XDie(x)

NodeStep(n) == NAnswer(n) \/ NLeave(n) \/ \E i \in Ids : NIndicate(n, i)

Deliver == \E m \in toX : XReceive(m) \/ SendFailed(m)

Next ==
  /\ abort = "none"
  /\ \/ IAppStep \/ LoopStep \/ Deliver
     \/ \E t \in tasks : TaskStep(t)
     \/ \E x \in XApps : XStep(x)
     \/ \E n \in Nodes : NodeStep(n)

Spec == Init /\ [][Next]_vars

\* The threads of the RIC run, every task gets a worker (TaskPool), and nodes and
\* xApps handle what they receive.  New requests, losses and timeouts are not owed.
Fairness ==
  /\ WF_vars(abort = "none" /\ IAppStep)
  /\ \A i \in Ids : WF_vars(abort = "none" /\ \E t \in tasks : t.i = i /\ TaskStep(t))
  /\ WF_vars(abort = "none" /\ Deliver)
  /\ \A n \in Nodes : WF_vars(abort = "none" /\ NAnswer(n))

FairSpec == Spec /\ Fairness

----------------------------------------------------------------------------
(* Properties *)

\* While nodes answer in time and nobody vanishes, no assertion of the RIC or the
\* iApp fails, however the workers order the answers: the write lock held over a
\* request (msg_handler_iapp.c:351, "there is a data race if not") is needed for it.
NoAbort == abort = "none"

\* An answer on its way to a live xApp is the one its call waits for: the RIC
\* request ids, the map and the removals never route an answer to another xApp,
\* twice, or under another id.  Anything else makes the xApp abort.
AnswerExpected ==
  \A m \in toX : m.op # "ind" /\ alive[m.x] => xcall[m.x] = <<m.op, m.l>>

\* The owner of RIC request id i: its entry, or the request that the iApp thread sends
\* under that id and has not recorded yet.
Adding   == ipc \in {"send", "add"} /\ ireq.op # "del"
Owner(i) == IF Adding /\ i = iid THEN ireq ELSE map[i]

\* What iApp, RIC and nodes together are for the live xApps: the answers on their way to
\* each, and which of its subscriptions is served by which node.
ServedBy(x, i) == Owner(i) # NoEntry /\ Owner(i).x = x /\ Owner(i).op = "sub"

AnswersTo(x)   == {<<m.op, m.l>> : m \in {r \in toX : alive[x] /\ r.op # "ind" /\ r.x = x}}
ServingFor(x)  == {s \in Locals \X Nodes :
                     alive[x] /\ \E i \in active[s[2]] : ServedBy(x, i) /\ Owner(i).l = s[1]}

Returning == [x \in XApps |-> AnswersTo(x)]
Serving   == [x \in XApps |-> ServingFor(x)]

Service == INSTANCE RequestService WITH
             call <- xcall, next <- xnext, held <- xsubs, answers <- Returning, serving <- Serving

\* However iApp thread, workers and nodes interleave, and whoever vanishes, an xApp sees
\* the service of RequestService: one answer to each call, the right one, after the call
\* has had its effect; a node serves what was granted until the xApp asks otherwise.
ImplementsService == Service!Spec

\* No call is lost: when nothing is under way in the RIC, every call has returned.
NothingUnderWay ==
  /\ ipc = "epoll" /\ toIApp = {} /\ toX = {} /\ tasks = {}
  /\ \A n \in Nodes : toN[n] = <<>>

NoCallLost ==
  (\A n \in Nodes : up[n]) /\ NothingUnderWay => \A x \in XApps : alive[x] => xcall[x] = <<>>

\* A subscription that a live xApp holds and is not deleting has exactly one entry in
\* map_ric_id and is served by the node of that entry: the xApp, the iApp and the
\* node agree, so its indications arrive and its deletion finds it.
HeldIsServed ==
  \A x \in XApps : \A l \in xsubs[x] :
    alive[x] /\ xcall[x] # <<"del", l>> =>
      \E i \in Ids : Owned([x |-> x, l |-> l]) = {i} /\ i \in active[map[i].n]

\* A request is in ric->pending exactly while one, and only one, answer to it is
\* still to come: the request is being sent, is with a node, or its answer
\* has not stopped the timer.  So a delete issued twice (by the xApp and by the
\* iApp for a lost xApp) is sent once, and no answer finds its timer gone.  A node that
\* has left answers no more.
Sending   == IF ipc = "send" THEN {<<ireq.op, iid>>} ELSE {}
Slots     == UNION {{n} \X DOMAIN toN[n] : n \in Nodes}
AtNodes   == {toN[s[1]][s[2]] : s \in Slots}
Answers   == {<<t.op, t.i>> : t \in {u \in tasks : u.pc = "stop"}}

PendingAccounted ==
  abort = "none" /\ (\A n \in Nodes : up[n]) =>
    /\ pending = Sending \cup Answers \cup AtNodes
    /\ Cardinality(pending) = Cardinality(Sending) + Cardinality(Answers) + Cardinality(Slots)

\* Whatever vanishes and whenever timers expire, assertions fail only for the reasons
\* known: a request for a node that has left (map_e2_node_sockaddr.c:154), an answer for
\* an xApp that has vanished and whose entries the iApp has removed, an expired timer.
\* The answer to a request always finds its pending event, and ids are never given twice.
FailuresForeseen ==
  /\ abort \notin {"no pending event", "ric_req_id already in the map", "not a subscription"}
  /\ abort \in {"invalid node", "node address not found"} => \E n \in Nodes : ~up[n]
  /\ abort \in {"RIC Req Id not found!", "xApp ric id not in the map", "xApp ric id not found"} =>
       \E x \in XApps : ~alive[x]

\* Every call of an xApp returns.
CallsAnswered == \A x \in XApps : xcall[x] # <<>> ~> xcall[x] = <<>>

\* What the assertions of the code say of their operations (runs that refute them)
\* eq_xapp_ric_gen_id, with e42_xapp.h:80 "used for uniquely identify the xApp":
\* a delete request reaches the subscription of the xApp that sent it.
DeleteFindsOwn ==
  \A m \in toIApp : m.op = "del" /\ ipc = "epoll" /\ alive[m.x] =>
    \A i \in Found(m) : map[i].x = m.x

=============================================================================
