------------------------------- MODULE RicNodes -------------------------------
(***************************************************************************)
(* Who is connected: E2 nodes and xApps find each other through the RIC.   *)
(*                                                                         *)
(* The event loop of the near-RT RIC turns the set-up request of a node    *)
(* into a task for its workers and handles a lost association itself.  The *)
(* task enters the node in three tables (addresses, the iApp's registry,   *)
(* connected nodes) and sends the registry to every xApp while it holds    *)
(* conn_e2_nodes_mtx.  The loop takes a lost node out of the tables and    *)
(* sends the registry to every xApp as well, without that mutex.  The      *)
(* iApp's thread answers the set-up requests of xApps with a new id and    *)
(* the registry.  An xApp repeats its request every second until it is     *)
(* answered.                                                               *)
(*                                                                         *)
(* Tasks run in parallel and in any order, as TaskPool promises.  A failed *)
(* assertion of the RIC is recorded in "abort" and everything stops; that  *)
(* of an xApp ends the xApp.                                               *)
(***************************************************************************)
EXTENDS Integers, Sequences, FiniteSets, SequencesExt

CONSTANTS
  XApps,
  Nodes,
  MaxStarts,  \* bound on the associations of nodes in all
  MaxFaults   \* bound on what goes wrong in all: a request is repeated, a node leaves before it
              \* is answered, an xApp ends

ASSUME NodeBoundsAssumption == MaxStarts \in Nat \ {0} /\ MaxFaults \in Nat

VARIABLES
  \* the near-RT RIC
  e2,      \* messages in its socket, in order
  at,      \* where its event loop is
  ev,      \* the association whose loss the loop handles
  lcount,  \* the number of xApps the loop has read
  ltold,   \* those it has told of the loss
  llist,   \* the nodes that are left, which it tells them of
  tasks,   \* set-up requests in the hands of workers, each with its step
  addrs,   \* ep.e2_nodes: the addresses, an entry for each request handled
  conn,    \* conn_e2_nodes
  holder,  \* the set-up request whose task holds conn_e2_nodes_mtx
  count,   \* the number of xApps it has read
  told,    \* those it has told
  list,    \* the nodes it tells them of
  \* the iApp
  reg,     \* e2_nodes: the registry
  e42,     \* messages in its socket, in order
  nextId,  \* xapp_id (from 7 in the code, from 1 here)
  answer,  \* the answer its thread is about to register and to send
  xaddrs,  \* ep.xapps: xaddrs[i] is the xApp with id i
  \* the xApps
  inbox,   \* inbox[x]: messages on their way to x, in order
  xst,     \* xst[x]: "new", "asking", "connected", "aborted", "gone"
  asked,   \* asked[x]: requests it has sent
  xid,     \* xid[x]: xapp->id, 0 before it has one
  xnodes,  \* xnodes[x]: its registry
  \* the E2 nodes
  nst,     \* nst[n]: "off", "asked", "up"
  assoc,   \* assoc[n]: its association
  starts,  \* associations so far
  tries,   \* tries[n]: its requests in this association
  faults,  \* what has gone wrong so far
  \* history
  kept,    \* has every node asked once, and left only after it was answered?
  late,    \* nodes registered since the loop made its copy
  missed,  \* <<x, n>>: x, its answer prepared but not registered, was not counted for n, or
           \* the loop has sent x a copy for which n was late; until x is sent an update
  behind,  \* xApps whose answer was sent after an update
  abort    \* the assertion that failed, "none" if none has

loopVars == <<lcount, ltold, llist>>
ricVars  == <<e2, at, ev, loopVars, addrs, conn>>
taskVars == <<tasks, holder, count, told, list>>
iappVars == <<e42, nextId, answer, xaddrs>>
xappVars == <<xst, asked, xid, xnodes>>
nodeVars == <<nst, assoc, starts, tries, kept>>
histVars == <<late, missed, behind>>
vars == <<ricVars, taskVars, reg, iappVars, inbox, xappVars, nodeVars, faults, histVars,
          abort>>

\* A set-up request, or the loss of an association: its node, association and number.
Requests == [n : Nodes, l : 1..MaxStarts, k : 1..MaxFaults+1]
NoAssoc  == [n |-> "none", l |-> 0]
NoTask   == [n |-> "none", l |-> 0, k |-> 0]
NoAnswer == [x |-> "none", id |-> 0, list |-> {}, st |-> "none"]
Running  == abort = "none"

Init ==
  /\ e2 = <<>> /\ at = "wait" /\ ev = NoAssoc /\ addrs = {} /\ conn = {}
  /\ lcount = 0 /\ ltold = 0 /\ llist = {}
  /\ tasks = {} /\ holder = NoTask /\ count = 0 /\ told = 0 /\ list = {}
  /\ reg = {} /\ e42 = <<>> /\ nextId = 1 /\ answer = NoAnswer /\ xaddrs = <<>>
  /\ inbox = [x \in XApps |-> <<>>] /\ xst = [x \in XApps |-> "new"]
  /\ asked = [x \in XApps |-> 0] /\ xid = [x \in XApps |-> 0]
  /\ xnodes = [x \in XApps |-> {}]
  /\ nst = [n \in Nodes |-> "off"] /\ assoc = [n \in Nodes |-> 0]
  /\ starts = 0 /\ faults = 0
  /\ tries = [n \in Nodes |-> 0]
  /\ kept = TRUE /\ late = {} /\ missed = {} /\ behind = {} /\ abort = "none"

\* What is sent to an xApp that has ended is lost.
ToXApp(x, m) ==
  inbox' = IF xst[x] \in {"aborted", "gone"} THEN inbox
           ELSE [inbox EXCEPT ![x] = Append(@, m)]

\* E42_UPDATE_E2_NODE with these nodes is sent to the xApp with id i: it makes up for the
\* nodes the xApp was missed for, and lacks those given.
SendUpdate(i, nodes, lacking) ==
  LET x == xaddrs[i] IN
    /\ ToXApp(x, [type |-> "update", id |-> i, list |-> nodes])
    /\ behind' = behind \cup (IF answer.st = "send" /\ answer.x = x THEN {x} ELSE {})
    /\ missed' = {p \in missed : p[1] # x} \cup ({x} \X lacking)

-----------------------------------------------------------------------------
(* The E2 nodes *)

NodeAsks(n, l, k) ==
  e2' = Append(e2, [type |-> "setup", n |-> n, l |-> l, k |-> k])

\* A node starts: a new association and its first request.
NodeStart(n) ==
  /\ Running /\ nst[n] = "off" /\ starts < MaxStarts
  /\ nst' = [nst EXCEPT ![n] = "asked"]
  /\ starts' = starts + 1
  /\ assoc' = [assoc EXCEPT ![n] = starts + 1]
  /\ tries' = [tries EXCEPT ![n] = 1]
  /\ NodeAsks(n, starts + 1, 1)
  /\ UNCHANGED <<at, ev, loopVars, addrs, conn, taskVars, reg, iappVars, inbox, xappVars,
                 kept, faults, histVars, abort>>

\* It has no answer after three seconds and asks again.
NodeRepeats(n) ==
  /\ Running /\ nst[n] = "asked" /\ faults < MaxFaults
  /\ faults' = faults + 1
  /\ tries' = [tries EXCEPT ![n] = @ + 1]
  /\ kept' = FALSE
  /\ NodeAsks(n, assoc[n], tries[n] + 1)
  /\ UNCHANGED <<at, ev, loopVars, addrs, conn, taskVars, reg, iappVars, inbox, xappVars,
                 nst, assoc, starts, histVars, abort>>

\* It closes its association.
NodeLeaves(n) ==
  /\ Running /\ nst[n] # "off" /\ (nst[n] = "asked" => faults < MaxFaults)
  /\ faults' = IF nst[n] = "asked" THEN faults + 1 ELSE faults
  /\ nst' = [nst EXCEPT ![n] = "off"]
  /\ kept' = (kept /\ nst[n] = "up")
  /\ e2' = Append(e2, [type |-> "shutdown", n |-> n, l |-> assoc[n], k |-> 0])
  /\ UNCHANGED <<at, ev, loopVars, addrs, conn, taskVars, reg, iappVars, inbox, xappVars,
                 assoc, starts, tries, histVars, abort>>

-----------------------------------------------------------------------------
(* The event loop of the near-RT RIC *)

\* fault: the task is given the message
LoopSetupWhole ==
  /\ Running /\ at = "wait" /\ e2 # <<>> /\ Head(e2).type = "setup"
  /\ e2' = Tail(e2)
  /\ tasks' = tasks \cup {Head(e2)}
  /\ UNCHANGED <<at, ev, loopVars, addrs, conn, holder, count, told, list, reg, iappVars,
                 inbox, xappVars, nodeVars, faults, histVars, abort>>

\* SCTP_MSG_ARRIVED_EVENT: a task for the workers.
LoopSetup ==
  /\ Running /\ at = "wait" /\ e2 # <<>> /\ Head(e2).type = "setup"
  /\ e2' = Tail(e2)
  /\ tasks' = tasks \cup {[n |-> Head(e2).n, l |-> Head(e2).l, k |-> Head(e2).k,
                           st |-> "address"]}
  /\ UNCHANGED <<at, ev, loopVars, addrs, conn, holder, count, told, list, reg, iappVars,
                 inbox, xappVars, nodeVars, faults, histVars, abort>>

\* SCTP_CONNECTION_SHUTDOWN_EVENT, handled by the loop itself: the address is taken out,
\* which must be there and under its node in the left map (entries with equal keys may
\* be found in any order), ...
LoopShutdown ==
  /\ Running /\ at = "wait" /\ e2 # <<>> /\ Head(e2).type = "shutdown"
  /\ e2' = Tail(e2)
  /\ LET a == [n |-> Head(e2).n, l |-> Head(e2).l]
         here == {b \in addrs : b.n = a.n /\ b.l = a.l}
     IN \/ /\ here = {}
           /\ abort' = "no_address" /\ UNCHANGED <<addrs, ev, at>>
        \/ \E b \in here, c \in {d \in addrs : d.n = a.n} :
             IF c.l = b.l
             THEN addrs' = addrs \ {b} /\ ev' = a /\ at' = "erase" /\ UNCHANGED abort
             ELSE abort' = "addresses_differ" /\ UNCHANGED <<addrs, ev, at>>
  /\ UNCHANGED <<loopVars, conn, taskVars, reg, iappVars, inbox, xappVars, nodeVars,
                 faults, histVars>>

\* fault: the iApp forgets the node, conn_e2_nodes does not
LoopEraseIApp ==
  /\ Running /\ at = "erase"
  /\ reg' = reg \ {ev.n} /\ at' = "forget"
  /\ UNCHANGED <<e2, ev, loopVars, addrs, conn, taskVars, iappVars, inbox, xappVars,
                 nodeVars, faults, histVars, abort>>

\* ... the entry of conn_e2_nodes, with its mutex held, ...
LoopErase ==
  /\ Running /\ at = "erase" /\ holder = NoTask
  /\ IF ev.n \in conn
     THEN conn' = conn \ {ev.n} /\ at' = "forget" /\ UNCHANGED abort
     ELSE abort' = "node_not_found" /\ UNCHANGED <<conn, at>>
  /\ UNCHANGED <<e2, ev, loopVars, addrs, taskVars, reg, iappVars, inbox, xappVars,
                 nodeVars, faults, histVars>>

\* ... and, with that mutex released, the iApp's registry.
LoopForget ==
  /\ Running /\ at = "forget"
  /\ IF ev.n \in reg
     THEN reg' = reg \ {ev.n} /\ at' = "count" /\ UNCHANGED abort
     ELSE abort' = "not_registered" /\ UNCHANGED <<reg, at>>
  /\ UNCHANGED <<e2, ev, loopVars, addrs, conn, taskVars, iappVars, inbox, xappVars,
                 nodeVars, faults, histVars>>

\* rm_e2_node_iapp then notifies the iApp as if a node had been set up, and nothing locks
\* the tables against the workers: the xApps are counted; if there is one, ...
LoopCount ==
  /\ Running /\ at = "count"
  /\ lcount' = Len(xaddrs) /\ ltold' = 0
  /\ at' = IF Len(xaddrs) = 0 THEN "wait" ELSE "copy"
  /\ UNCHANGED <<e2, ev, llist, addrs, conn, taskVars, reg, iappVars, inbox, xappVars,
                 nodeVars, faults, histVars, abort>>

\* ... the registry is copied ...
LoopCopy ==
  /\ Running /\ at = "copy"
  /\ llist' = reg /\ late' = {} /\ at' = "tell"
  /\ UNCHANGED <<e2, ev, lcount, ltold, addrs, conn, taskVars, reg, iappVars, inbox,
                 xappVars, nodeVars, faults, missed, behind, abort>>

\* ... and sent to the xApp with the next id, which must have an address, ...
LoopTell ==
  /\ Running /\ at = "tell" /\ ltold < lcount
  /\ IF ltold < Len(xaddrs)
     THEN ltold' = ltold + 1 /\ SendUpdate(ltold + 1, llist, late) /\ UNCHANGED abort
     ELSE abort' = "xapp_not_found" /\ UNCHANGED <<ltold, inbox, missed, behind>>
  /\ UNCHANGED <<e2, at, ev, lcount, llist, addrs, conn, taskVars, reg, iappVars,
                 xappVars, nodeVars, faults, late>>

\* ... until all are told.
LoopTold ==
  /\ Running /\ at = "tell" /\ ltold = lcount
  /\ at' = "wait" /\ lcount' = 0 /\ ltold' = 0 /\ llist' = {} /\ late' = {}
  /\ UNCHANGED <<e2, ev, addrs, conn, taskVars, reg, iappVars, inbox, xappVars, nodeVars,
                 faults, missed, behind, abort>>

-----------------------------------------------------------------------------
(* A task of a worker, sctp_msg_arrived_event with a set-up request *)

Id(t)       == [n |-> t.n, l |-> t.l, k |-> t.k]
At(t, st)   == t.st = st
Goes(t, st) == tasks' = (tasks \ {t}) \cup {[n |-> t.n, l |-> t.l, k |-> t.k, st |-> st]}

\* e2ap_reg_sock_addr_ric
TaskAddress(t) ==
  /\ Running /\ At(t, "address")
  /\ addrs' = addrs \cup {Id(t)}
  /\ Goes(t, "add")
  /\ UNCHANGED <<e2, at, ev, loopVars, conn, holder, count, told, list, reg, iappVars,
                 inbox, xappVars, nodeVars, faults, histVars, abort>>

\* add_e2_node_iapp: the node must be new to the registry.
TaskAdd(t) ==
  /\ Running /\ At(t, "add")
  /\ IF t.n \in reg
     THEN abort' = "node_exists" /\ UNCHANGED <<reg, tasks, late>>
     ELSE /\ reg' = reg \cup {t.n} /\ Goes(t, "lock") /\ UNCHANGED abort
          /\ late' = IF at = "tell" THEN late \cup {t.n} ELSE late
  /\ UNCHANGED <<ricVars, holder, count, told, list, iappVars, inbox, xappVars, nodeVars,
                 faults, missed, behind>>

\* fault: the mutex is not taken
TaskPushUnlocked(t) ==
  /\ Running /\ At(t, "lock")
  /\ holder' = Id(t)
  /\ conn' = conn \cup {t.n}
  /\ count' = Len(xaddrs) /\ told' = 0
  /\ missed' = missed \cup (IF answer.st = "register" THEN {<<answer.x, t.n>>} ELSE {})
  /\ Goes(t, "copy")
  /\ UNCHANGED <<e2, at, ev, loopVars, addrs, list, reg, iappVars, inbox, xappVars,
                 nodeVars, faults, late, behind, abort>>

\* With conn_e2_nodes_mtx held from here on: the node is pushed, the xApps are counted.
TaskPush(t) ==
  /\ Running /\ At(t, "lock") /\ holder = NoTask
  /\ holder' = Id(t)
  /\ conn' = conn \cup {t.n}
  /\ count' = Len(xaddrs) /\ told' = 0
  /\ missed' = missed \cup (IF answer.st = "register" THEN {<<answer.x, t.n>>} ELSE {})
  /\ Goes(t, "copy")
  /\ UNCHANGED <<e2, at, ev, loopVars, addrs, list, reg, iappVars, inbox, xappVars,
                 nodeVars, faults, late, behind, abort>>

\* The registry is copied, if there is an xApp.
TaskCopy(t) ==
  /\ Running /\ At(t, "copy")
  /\ list' = IF count > 0 THEN reg ELSE {}
  /\ Goes(t, "tell")
  /\ UNCHANGED <<ricVars, holder, count, told, reg, iappVars, inbox, xappVars, nodeVars,
                 faults, histVars, abort>>

\* fault: the ids are counted from the one after the last told, up to the count included
TaskTellBeyond(t) ==
  /\ Running /\ At(t, "tell") /\ told <= count
  /\ IF told < Len(xaddrs)
     THEN told' = told + 1 /\ SendUpdate(told + 1, list, {}) /\ UNCHANGED abort
     ELSE abort' = "xapp_not_found" /\ UNCHANGED <<told, inbox, missed, behind>>
  /\ UNCHANGED <<ricVars, tasks, holder, count, list, reg, iappVars, xappVars, nodeVars,
                 faults, late>>

\* It is sent to the xApp with the next id, which must have an address.
TaskTell(t) ==
  /\ Running /\ At(t, "tell") /\ told < count
  /\ IF told < Len(xaddrs)
     THEN told' = told + 1 /\ SendUpdate(told + 1, list, {}) /\ UNCHANGED abort
     ELSE abort' = "xapp_not_found" /\ UNCHANGED <<told, inbox, missed, behind>>
  /\ UNCHANGED <<ricVars, tasks, holder, count, list, reg, iappVars, xappVars, nodeVars,
                 faults, late>>

\* fault: the mutex stays locked when there is no xApp to tell
TaskUnlockIfTold(t) ==
  /\ Running /\ At(t, "tell") /\ told = count
  /\ holder' = (IF count > 0 THEN NoTask ELSE holder)
  /\ list' = {} /\ count' = 0 /\ told' = 0
  /\ Goes(t, "send")
  /\ UNCHANGED <<ricVars, reg, iappVars, inbox, xappVars, nodeVars, faults, histVars,
                 abort>>

\* All are told: the mutex is released.
TaskUnlock(t) ==
  /\ Running /\ At(t, "tell") /\ told = count
  /\ holder' = NoTask /\ list' = {} /\ count' = 0 /\ told' = 0
  /\ Goes(t, "send")
  /\ UNCHANGED <<ricVars, reg, iappVars, inbox, xappVars, nodeVars, faults, histVars,
                 abort>>

\* The answer is sent to the node.
TaskSend(t) ==
  /\ Running /\ At(t, "send")
  /\ tasks' = tasks \ {t}
  /\ nst' = IF nst[t.n] = "asked" /\ assoc[t.n] = t.l THEN [nst EXCEPT ![t.n] = "up"] ELSE nst
  /\ UNCHANGED <<ricVars, holder, count, told, list, reg, iappVars, inbox, xappVars,
                 assoc, starts, tries, kept, faults, histVars, abort>>

-----------------------------------------------------------------------------
(* The iApp's thread *)

\* fault: the id is not registered
IAppSetupOnly ==
  /\ Running /\ answer = NoAnswer /\ e42 # <<>>
  /\ answer' = [x |-> Head(e42), id |-> nextId, list |-> reg, st |-> "send"]
  /\ e42' = Tail(e42)
  /\ nextId' = nextId + 1
  /\ UNCHANGED <<ricVars, taskVars, reg, xaddrs, inbox, xappVars, nodeVars, faults,
                 histVars, abort>>

\* E42_SETUP_REQUEST: the registry is copied and an id given out ...
IAppSetup ==
  /\ Running /\ answer = NoAnswer /\ e42 # <<>>
  /\ answer' = [x |-> Head(e42), id |-> nextId, list |-> reg, st |-> "register"]
  /\ e42' = Tail(e42)
  /\ nextId' = nextId + 1
  /\ UNCHANGED <<ricVars, taskVars, reg, xaddrs, inbox, xappVars, nodeVars, faults,
                 histVars, abort>>

\* ... then the id is entered in the map, which must not have it ...
IAppRegister ==
  /\ Running /\ answer.st = "register"
  /\ IF answer.id \in DOMAIN xaddrs
     THEN abort' = "xapp_exists" /\ UNCHANGED <<xaddrs, answer>>
     ELSE /\ xaddrs' = Append(xaddrs, answer.x)
          /\ answer' = [x |-> answer.x, id |-> answer.id, list |-> answer.list, st |-> "send"]
          /\ UNCHANGED abort
  /\ UNCHANGED <<ricVars, taskVars, reg, e42, nextId, inbox, xappVars, nodeVars, faults,
                 histVars>>

\* ... and the answer is sent.
IAppAnswer ==
  /\ Running /\ answer.st = "send"
  /\ answer' = NoAnswer
  /\ ToXApp(answer.x, [type |-> "setup", id |-> answer.id, list |-> answer.list])
  /\ UNCHANGED <<ricVars, taskVars, reg, e42, nextId, xaddrs, xappVars, nodeVars, faults,
                 histVars, abort>>

-----------------------------------------------------------------------------
(* The xApps *)

\* send_setup_request, or the timer of one second, which is periodic until the answer.
XAppAsks(x) ==
  /\ Running /\ xst[x] \in {"new", "asking"} /\ (xst[x] = "asking" => faults < MaxFaults)
  /\ faults' = IF xst[x] = "asking" THEN faults + 1 ELSE faults
  /\ xst' = [xst EXCEPT ![x] = "asking"]
  /\ asked' = [asked EXCEPT ![x] = @ + 1]
  /\ e42' = Append(e42, x)
  /\ UNCHANGED <<ricVars, taskVars, reg, nextId, answer, xaddrs, inbox, xid, xnodes,
                 nodeVars, histVars, abort>>

\* the next message is read
Receives(x, type) ==
  /\ Running /\ xst[x] \in {"asking", "connected"}
  /\ inbox[x] # <<>> /\ Head(inbox[x]).type = type
  /\ inbox' = [inbox EXCEPT ![x] = Tail(@)]

\* E42_SETUP_RESPONSE: only the first counts; its nodes must be new to the registry.
XAppSetup(x) ==
  /\ Receives(x, "setup")
  /\ LET m == Head(inbox[x]) IN
       IF xst[x] = "connected" THEN UNCHANGED <<xid, xnodes, xst>>
       ELSE /\ xid' = [xid EXCEPT ![x] = m.id]
            /\ IF m.list \cap xnodes[x] # {}
               THEN xst' = [xst EXCEPT ![x] = "aborted"] /\ UNCHANGED xnodes
               ELSE /\ xst' = [xst EXCEPT ![x] = "connected"]
                    /\ xnodes' = [xnodes EXCEPT ![x] = @ \cup m.list]
  /\ UNCHANGED <<ricVars, taskVars, reg, iappVars, asked, nodeVars, faults, histVars,
                 abort>>

\* E42_UPDATE_E2_NODE: the id and the whole registry are replaced.
XAppUpdate(x) ==
  /\ Receives(x, "update")
  /\ xid' = [xid EXCEPT ![x] = Head(inbox[x]).id]
  /\ xnodes' = [xnodes EXCEPT ![x] = Head(inbox[x]).list]
  /\ UNCHANGED <<ricVars, taskVars, reg, iappVars, xst, asked, nodeVars, faults, histVars,
                 abort>>

\* Its process ends.
XAppDies(x) ==
  /\ Running /\ xst[x] \in {"asking", "connected"} /\ faults < MaxFaults
  /\ faults' = faults + 1
  /\ xst' = [xst EXCEPT ![x] = "gone"]
  /\ inbox' = [inbox EXCEPT ![x] = <<>>]
  /\ UNCHANGED <<ricVars, taskVars, reg, iappVars, asked, xid, xnodes, nodeVars, histVars,
                 abort>>

-----------------------------------------------------------------------------

Loop == \/ LoopSetup \/ LoopShutdown \/ LoopErase \/ LoopForget
        \/ LoopCount \/ LoopCopy \/ LoopTell \/ LoopTold
Task(t) == \/ TaskAddress(t) \/ TaskAdd(t) \/ TaskPush(t) \/ TaskCopy(t)
           \/ TaskTell(t) \/ TaskUnlock(t) \/ TaskSend(t)
IApp == IAppSetup \/ IAppRegister \/ IAppAnswer
XApp(x) == XAppSetup(x) \/ XAppUpdate(x)

Next ==
  \/ \E n \in Nodes : NodeStart(n) \/ NodeRepeats(n) \/ NodeLeaves(n)
  \/ Loop
  \/ \E t \in tasks : Task(t)
  \/ IApp
  \/ \E x \in XApps : XAppAsks(x) \/ XApp(x) \/ XAppDies(x)

Spec == Init /\ [][Next]_vars

-----------------------------------------------------------------------------
(* Properties *)

\* Types of the state.
TypeOK ==
  /\ e2 \in Seq([type : {"setup", "shutdown"}, n : Nodes, l : 1..MaxStarts, k : 0..MaxFaults+1])
  /\ at \in {"wait", "erase", "forget", "count", "copy", "tell"}
  /\ ev \in [n : Nodes, l : 1..MaxStarts] \cup {NoAssoc}
  /\ lcount \in Nat /\ ltold \in 0..lcount /\ llist \subseteq Nodes
  /\ tasks \subseteq [n : Nodes, l : 1..MaxStarts, k : 1..MaxFaults+1,
                     st : {"address", "add", "lock", "copy", "tell", "send"}]
  /\ addrs \subseteq Requests /\ conn \subseteq Nodes /\ reg \subseteq Nodes
  /\ holder \in Requests \cup {NoTask} /\ count \in Nat /\ told \in 0..count
  /\ list \subseteq Nodes
  /\ e42 \in Seq(XApps) /\ nextId \in Nat \ {0} /\ xaddrs \in Seq(XApps)
  /\ answer \in [x : XApps, id : Nat \ {0}, list : SUBSET Nodes, st : {"register", "send"}]
               \cup {NoAnswer}
  /\ inbox \in [XApps -> Seq([type : {"setup", "update"}, id : Nat \ {0},
                              list : SUBSET Nodes])]
  /\ xst \in [XApps -> {"new", "asking", "connected", "aborted", "gone"}]
  /\ asked \in [XApps -> 0..MaxFaults+1] /\ xid \in [XApps -> Nat]
  /\ xnodes \in [XApps -> SUBSET Nodes]
  /\ nst \in [Nodes -> {"off", "asked", "up"}] /\ assoc \in [Nodes -> 0..MaxStarts]
  /\ starts \in 0..MaxStarts /\ faults \in 0..MaxFaults
  /\ tries \in [Nodes -> 0..MaxFaults+1]
  /\ kept \in BOOLEAN /\ late \subseteq Nodes
  /\ missed \subseteq XApps \X Nodes /\ behind \subseteq XApps
  /\ abort \in {"none", "no_address", "addresses_differ", "node_not_found", "not_registered",
                "node_exists", "xapp_not_found", "xapp_exists"}

\* The tables do not yet reflect the loss of n.
Leaving(n) == \/ at \in {"erase", "forget"} /\ ev.n = n
              \/ \E m \in ToSet(e2) : m.type = "shutdown" /\ m.n = n

\* Whatever happens, every id up to the number of xApps counted has its address, no id is
\* given out twice and what leaves conn_e2_nodes is registered at the iApp; an xApp fails
\* only when an update was sent, by a worker or by the loop, between its registration and
\* its answer.  Nodes that ask once and leave after their answer do the RIC no harm: the
\* task of a node that has been answered is over, so its loss cannot overtake it
\* (not_handler_ric.c:41).
FailuresForeseen ==
  /\ abort \notin {"not_registered", "xapp_not_found", "xapp_exists"}
  /\ \A x \in XApps : xst[x] = "aborted" => x \in behind
  /\ kept => Running

\* The three tables of the RIC agree, although a task fills them and the event loop
\* clears them under three different locks: what is in conn_e2_nodes is registered at the
\* iApp; a node that has been answered is in all three; and while nodes keep their
\* manners nobody else is, but those whose loss is on its way.
TablesAgree ==
  /\ conn \subseteq reg
  /\ \A n \in Nodes : nst[n] = "up" =>
       n \in conn /\ \E a \in addrs : a.n = n /\ a.l = assoc[n]
  /\ kept => \A n \in reg : nst[n] # "off" \/ Leaving(n)

\* find_map_xapps_xid returns the oldest entry with the address of x.
FoundId(x) == CHOOSE i \in DOMAIN xaddrs :
                xaddrs[i] = x /\ \A j \in 1..i-1 : xaddrs[j] # x

\* The id an xApp works with, which every update replaces, is registered under its own
\* address, so it is never the next id to be given out, which valid_xapp_id would accept
\* too; and it is the id under which the iApp looks for its subscriptions when it is
\* gone, unless it has asked twice.
IdsAreOwn ==
  \A x \in XApps : xid[x] # 0 =>
    /\ xid[x] \in DOMAIN xaddrs /\ xaddrs[xid[x]] = x
    /\ asked[x] = 1 => FoundId(x) = xid[x]

\* x knows n once it has read what is on its way to it: the last update counts.
IsUpdate(x, i)   == i \in DOMAIN inbox[x] /\ inbox[x][i].type = "update"
LastUpdate(x, i) == IsUpdate(x, i) /\ \A j \in DOMAIN inbox[x] : IsUpdate(x, j) => j <= i
WillKnow(x, n) ==
  /\ n \in xnodes[x] \/ \E i \in DOMAIN inbox[x] : IsUpdate(x, i)
  /\ \A i \in DOMAIN inbox[x] : LastUpdate(x, i) => n \in inbox[x][i].list

\* A connected xApp knows, or is about to be told of, every node that has been answered:
\* it was in the answer of the iApp or comes in an update, and the updates of the workers
\* arrive in the order of their copies.  Two races lose a node, each until the next update
\* to the xApp: the xApp was not yet counted when its answer was already prepared
\* (e42_iapp.c:206), or the loop, which holds no mutex, sent the xApp a copy that it had
\* made before the node was registered (e42_iapp.c:333).
NodesAnnounced ==
  \A x \in XApps, n \in Nodes :
    nst[n] = "up" /\ xst[x] = "connected" /\ <<x, n>> \notin missed => WillKnow(x, n)

\* Loop, workers, iApp and xApps can do no more: what they read is empty, or they wait for
\* the mutex.
Idle ==
  /\ \/ at = "wait" /\ e2 = <<>>
     \/ at = "erase" /\ holder # NoTask
  /\ \A t \in tasks : t.st = "lock" /\ holder # NoTask
  /\ answer = NoAnswer /\ e42 = <<>>
  /\ \A x \in XApps : xst[x] \in {"asking", "connected"} => inbox[x] = <<>>

AllAnswered == (\A n \in Nodes : nst[n] # "asked") /\ (\A x \in XApps : xst[x] # "asking")

\* Nobody waits for ever: whenever loop, workers, iApp and xApps have done all they can,
\* every node that asked has its answer and every xApp that asked is connected, which its
\* start-up waits for (e42_xapp_api.c:78); no task keeps the mutex from the others.
NobodyWaits ==
  /\ Running /\ ~ ENABLED (Loop \/ (\E t \in tasks : Task(t)) \/ IApp \/ \E x \in XApps : XApp(x))
       => Idle
  /\ Idle => AllAnswered
=============================================================================
