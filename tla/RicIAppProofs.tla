---------------------------- MODULE RicIAppProofs ----------------------------
(***************************************************************************)
(* The routing of requests and answers in the near-RT RIC, for every       *)
(* number of xApps, nodes and requests.                                    *)
(*                                                                         *)
(* The invariant Routing says, of every state:                             *)
(*   OneAnswer   a pending event has at most one answer to come, and an    *)
(*               answer to come has its pending event;                     *)
(*   Issued      RIC request ids are given out once and in turn;           *)
(*   Keys        an xApp and its request id name one request or entry;     *)
(*   Kinds       what is answered, deleted or held is a subscription, or a *)
(*               control, on both sides;                                   *)
(*   OneCarrier  the call of a live xApp is in one place at most: with the *)
(*               iApp, under a RIC request id, or on its way back;         *)
(*   Held        what a live xApp holds has its entry in map_ric_id, until *)
(*               the deletion is on its way back;                          *)
(*   Lost        only of an xApp that vanished is an answer left without   *)
(*               an owner;                                                 *)
(*   Directed, Placed, Fresh, Served                                       *)
(*               what concerns an entry goes to its node, which serves it; *)
(*   Located, Quiet                                                        *)
(*               a node serves nothing else, nothing before its request    *)
(*               and nothing after its deletion was answered.              *)
(* OneCarrier and Held need each other: rm_map_ric_id removes by the       *)
(* xApp's key and not by the id of the answer, which is safe only because  *)
(* no other call of that xApp is under way.  And both need the hypothesis  *)
(* OwnRanFunc, as the key of a delete request leaves the xApp out.         *)
(*                                                                         *)
(* Without that hypothesis Awaited still holds: while every node is        *)
(* connected, what is pending is being sent, waits at its node or has an   *)
(* answer in a task.  Accounted adds that these are counted apart.         *)
(*                                                                         *)
(* RicIAppServiceProofs goes on from Routing to what the xApps see.        *)
(***************************************************************************)
EXTENDS RicIApp, FiniteSetTheorems, TLAPS

-----------------------------------------------------------------------------
(* Types *)

XAppTypes ==
  /\ alive \in [XApps -> BOOLEAN]
  /\ xcall \in [XApps -> {<<>>} \cup (Ops \X Locals)]
  /\ xnext \in [XApps -> 1..MaxLocal+1]
  /\ xsubs \in [XApps -> SUBSET Locals]
MessageTypes == toIApp \subseteq Requests \cup Gone /\ toX \subseteq ToXApp
QueueTypes   == toN \in [Nodes -> Seq(Ops \X Ids)]
TableTypes ==
  /\ nextId \in 1..MaxId+1
  /\ pending \subseteq Ops \X Ids
  /\ map \in [Ids -> Entries \cup {NoEntry}]
IAppTypes ==
  /\ wlock \in BOOLEAN /\ wlock = (ipc \in {"fwd", "add"} \/ (ipc = "send" /\ ireq.op # "del"))
  /\ ipc \in {"epoll", "fwd", "del", "send", "add"}
  /\ iid \in Ids \cup {0} /\ ilist \subseteq Ids \X Nodes
  /\ ipc \in {"fwd", "add"} => ireq \in Entries
  /\ ipc = "send" => ireq \in Entries \/ (ireq.op = "del" /\ ireq.n \in Nodes)
  /\ ipc \in {"send", "add"} => iid \in Ids
  /\ ipc = "fwd" => nextId \in Ids
  /\ ilist # {} => ipc = "del" \/ (ipc = "send" /\ ireq.op = "del")
LoopTypes ==
  /\ sock \subseteq Nodes /\ reg \subseteq Nodes /\ up \in [Nodes -> BOOLEAN]
  /\ lpc \in {"epoll", "timer", "shutdown"}
  /\ \A n \in Nodes : n \notin sock \/ n \notin reg => ~up[n]
  /\ lpc = "shutdown" => lev \in Nodes /\ ~up[lev]
TaskTypes ==
  /\ tasks \subseteq Tasks
  /\ \A t \in tasks : t.pc = "stop" => t.op \in Ops
  /\ \A t \in tasks : t.pc \in {"stop", "find"} => t.to = NoEntry
  /\ \A t \in tasks : t.pc \in {"tx", "rm"} => t.to \in Entries
  /\ \A t \in tasks : t.pc = "rm" => t.op \in {"del", "ctrl"}
NodeTypes == active \in [Nodes -> SUBSET Ids] /\ inds \in 0..MaxInd

Types == /\ XAppTypes /\ MessageTypes /\ QueueTypes /\ TableTypes
         /\ IAppTypes /\ LoopTypes /\ TaskTypes /\ NodeTypes

-----------------------------------------------------------------------------
(* Who writes what *)

\* The iApp thread writes its own state, the messages, the tables and the lock, and
\* nothing else.
LEMMA IAppFrame ==
  ASSUME IAppStep
  PROVE  UNCHANGED <<xVars, toX, sock, reg, loopVars, tasks, nodeVars>>
BY DEF IAppStep, IRequest, IDelete, IGone, IForward, ISend, IAdd, IForwardDelete,
       Fail, xVars, msgVars, ricVars, iappVars, loopVars, nodeVars

\* The event loop of the RIC writes the registered nodes.
LEMMA LoopFrame ==
  ASSUME LoopStep
  PROVE  UNCHANGED <<xVars, msgVars, nextId, pending, map, wlock, iappVars, tasks, nodeVars>>
BY DEF LoopStep, LExpired, LTimer, LShutdown, LForget,
       Fail, xVars, msgVars, ricVars, iappVars, loopVars, nodeVars

\* A worker writes the pending events, the map, the answers to the xApps and its task.
LEMMA TaskFrame ==
  ASSUME \E t \in tasks : TaskStep(t)
  PROVE  UNCHANGED <<xVars, toIApp, toN, nextId, wlock, sock, reg, iappVars, loopVars, nodeVars>>
BY DEF TaskStep, TStop, TFind, TSend, TRemove,
       Fail, xVars, msgVars, ricVars, iappVars, loopVars, nodeVars

\* An xApp writes its own state and sends requests.
LEMMA XAppFrame ==
  ASSUME \E x \in XApps : XStep(x)
  PROVE  UNCHANGED <<toX, toN, ricVars, iappVars, loopVars, tasks, nodeVars>>
BY DEF XStep, XRequest, XDelete, XDie,
       Fail, xVars, msgVars, ricVars, iappVars, loopVars, nodeVars

\* A node takes its requests and hands over answers as tasks.
LEMMA NodeFrame ==
  ASSUME \E n \in Nodes : NodeStep(n)
  PROVE  UNCHANGED <<xVars, toIApp, toX, ricVars, iappVars, loopVars>>
BY DEF NodeStep, NAnswer, NLeave, NIndicate,
       Fail, xVars, msgVars, ricVars, iappVars, loopVars, nodeVars

\* A delivery concerns an xApp and the messages.
LEMMA DeliverFrame ==
  ASSUME Deliver
  PROVE  UNCHANGED <<toN, ricVars, iappVars, loopVars, tasks, nodeVars>>
BY DEF Deliver, XReceive, SendFailed,
       Fail, xVars, msgVars, ricVars, iappVars, loopVars, nodeVars

\* A step that fails an assertion changes nothing else.
LEMMA Stops ==
  ASSUME Next, abort' # "none"
  PROVE  UNCHANGED <<xVars, msgVars, ricVars, iappVars, loopVars, tasks, nodeVars>>
<1> DEFINE Kept == UNCHANGED <<xVars, msgVars, ricVars, iappVars, loopVars, tasks, nodeVars>>
<1>0. abort = "none"
  BY DEF Next
<1>1. IAppStep => Kept
  BY <1>0 DEF IAppStep, IRequest, IDelete, IGone, IForward, ISend, IAdd, IForwardDelete,
         Fail, xVars, msgVars, ricVars, iappVars, loopVars, nodeVars
<1>2. LoopStep => Kept
  BY <1>0 DEF LoopStep, LExpired, LTimer, LShutdown, LForget,
         Fail, xVars, msgVars, ricVars, iappVars, loopVars, nodeVars
<1>3. (\E t \in tasks : TaskStep(t)) => Kept
  BY <1>0 DEF TaskStep, TStop, TFind, TSend, TRemove,
         Fail, xVars, msgVars, ricVars, iappVars, loopVars, nodeVars
<1>4. (\E x \in XApps : XStep(x)) => Kept
  BY <1>0 DEF XStep, XRequest, XDelete, XDie,
         Fail, xVars, msgVars, ricVars, iappVars, loopVars, nodeVars
<1>5. (\E n \in Nodes : NodeStep(n)) => Kept
  BY <1>0 DEF NodeStep, NAnswer, NLeave, NIndicate,
         Fail, xVars, msgVars, ricVars, iappVars, loopVars, nodeVars
<1>6. Deliver => Kept
  BY <1>0 DEF Deliver, XReceive, SendFailed,
         Fail, xVars, msgVars, ricVars, iappVars, loopVars, nodeVars
<1> QED
  BY <1>1, <1>2, <1>3, <1>4, <1>5, <1>6 DEF Next

\* Who writes the state of the xApps.
LEMMA XAppWriters ==
  ASSUME Next
  PROVE  \/ UNCHANGED xVars
         \/ \E x \in XApps, n \in Nodes, op \in {"sub", "ctrl"} : XRequest(x, n, op)
         \/ \E x \in XApps, l \in Locals : XDelete(x, l)
         \/ \E x \in XApps : XDie(x)
         \/ \E m \in toX : XReceive(m)
<1> DEFINE Written ==
      \/ UNCHANGED xVars
      \/ \E x \in XApps, n \in Nodes, op \in {"sub", "ctrl"} : XRequest(x, n, op)
      \/ \E x \in XApps, l \in Locals : XDelete(x, l)
      \/ \E x \in XApps : XDie(x)
      \/ \E m \in toX : XReceive(m)
<1>1. (\E x \in XApps : XStep(x)) => Written
  BY DEF XStep, Fail, xVars, msgVars, ricVars, iappVars, loopVars, nodeVars
<1>2. Deliver => Written
  BY DEF Deliver, SendFailed, Fail, xVars, msgVars, ricVars, iappVars, loopVars, nodeVars
<1> QED
  BY <1>1, <1>2, IAppFrame, LoopFrame, TaskFrame, NodeFrame DEF Next, xVars, msgVars,
     ricVars, iappVars, loopVars, nodeVars

\* Who sends to the iApp and who receives there.
LEMMA RequestWriters ==
  ASSUME Next
  PROVE  \/ UNCHANGED toIApp
         \/ \E x \in XApps, n \in Nodes, op \in {"sub", "ctrl"} : XRequest(x, n, op)
         \/ \E x \in XApps, l \in Locals : XDelete(x, l)
         \/ \E m \in toX : SendFailed(m)
         \/ \E m \in toIApp : IRequest(m) \/ IDelete(m) \/ IGone(m)
<1> DEFINE Written ==
      \/ UNCHANGED toIApp
      \/ \E x \in XApps, n \in Nodes, op \in {"sub", "ctrl"} : XRequest(x, n, op)
      \/ \E x \in XApps, l \in Locals : XDelete(x, l)
      \/ \E m \in toX : SendFailed(m)
      \/ \E m \in toIApp : IRequest(m) \/ IDelete(m) \/ IGone(m)
<1>1. IAppStep => Written
  BY DEF IAppStep, IForward, ISend, IAdd, IForwardDelete, Fail, xVars, msgVars,
     ricVars, iappVars, loopVars, nodeVars
<1>2. (\E x \in XApps : XStep(x)) => Written
  BY DEF XStep, XDie, Fail, xVars, msgVars, ricVars, iappVars, loopVars, nodeVars
<1>3. Deliver => Written
  BY DEF Deliver, XReceive, Fail, xVars, msgVars, ricVars, iappVars, loopVars, nodeVars
<1> QED
  BY <1>1, <1>2, <1>3, LoopFrame, TaskFrame, NodeFrame DEF Next, xVars, msgVars,
     ricVars, iappVars, loopVars, nodeVars

\* Who sends to the xApps and who receives there.
LEMMA ReplyWriters ==
  ASSUME Next
  PROVE  \/ UNCHANGED toX
         \/ \E m \in toX : XReceive(m) \/ SendFailed(m)
         \/ \E t \in tasks : TSend(t)
<1> DEFINE Written ==
      \/ UNCHANGED toX
      \/ \E m \in toX : XReceive(m) \/ SendFailed(m)
      \/ \E t \in tasks : TSend(t)
<1>1. (\E t \in tasks : TaskStep(t)) => Written
  BY DEF TaskStep, TStop, TFind, TRemove, Fail, xVars, msgVars, ricVars, iappVars,
     loopVars, nodeVars
<1>2. Deliver => Written
  BY DEF Deliver, Fail, xVars, msgVars, ricVars, iappVars, loopVars, nodeVars
<1> QED
  BY <1>1, <1>2, IAppFrame, LoopFrame, XAppFrame, NodeFrame DEF Next, xVars, msgVars,
     ricVars, iappVars, loopVars, nodeVars

\* Who sends to the nodes and who receives there.
LEMMA QueueWriters ==
  ASSUME Next
  PROVE  \/ UNCHANGED toN
         \/ ISend
         \/ \E n \in Nodes : NAnswer(n) \/ NLeave(n)
<1> DEFINE Written ==
      \/ UNCHANGED toN
      \/ ISend
      \/ \E n \in Nodes : NAnswer(n) \/ NLeave(n)
<1>1. IAppStep => Written
  BY DEF IAppStep, IRequest, IDelete, IGone, IForward, IAdd, IForwardDelete, Fail,
     xVars, msgVars, ricVars, iappVars, loopVars, nodeVars
<1>2. (\E n \in Nodes : NodeStep(n)) => Written
  BY DEF NodeStep, NIndicate, Fail, xVars, msgVars, ricVars, iappVars, loopVars, nodeVars
<1> QED
  BY <1>1, <1>2, LoopFrame, TaskFrame, XAppFrame, DeliverFrame DEF Next, xVars,
     msgVars, ricVars, iappVars, loopVars, nodeVars

\* Who writes ric->pending.
LEMMA PendingWriters ==
  ASSUME Next
  PROVE  \/ UNCHANGED pending
         \/ IForward
         \/ \E d \in ilist : IForwardDelete(d)
         \/ \E t \in tasks : TStop(t)
<1> DEFINE Written ==
      \/ UNCHANGED pending
      \/ IForward
      \/ \E d \in ilist : IForwardDelete(d)
      \/ \E t \in tasks : TStop(t)
<1>1. IAppStep => Written
  BY DEF IAppStep, IRequest, IDelete, IGone, ISend, IAdd, Fail, xVars, msgVars,
     ricVars, iappVars, loopVars, nodeVars
<1>2. (\E t \in tasks : TaskStep(t)) => Written
  BY DEF TaskStep, TFind, TSend, TRemove, Fail, xVars, msgVars, ricVars, iappVars,
     loopVars, nodeVars
<1> QED
  BY <1>1, <1>2, LoopFrame, XAppFrame, NodeFrame, DeliverFrame DEF Next, xVars,
     msgVars, ricVars, iappVars, loopVars, nodeVars

\* Who writes map_ric_id: add_map_ric_id and rm_map_ric_id.
LEMMA MapWriters ==
  ASSUME Next
  PROVE  \/ UNCHANGED map
         \/ IAdd
         \/ \E t \in tasks : TRemove(t)
<1> DEFINE Written ==
      \/ UNCHANGED map
      \/ IAdd
      \/ \E t \in tasks : TRemove(t)
<1>1. IAppStep => Written
  BY DEF IAppStep, IRequest, IDelete, IGone, IForward, ISend, IForwardDelete, Fail,
     xVars, msgVars, ricVars, iappVars, loopVars, nodeVars
<1>2. (\E t \in tasks : TaskStep(t)) => Written
  BY DEF TaskStep, TStop, TFind, TSend, Fail, xVars, msgVars, ricVars, iappVars,
     loopVars, nodeVars
<1> QED
  BY <1>1, <1>2, LoopFrame, XAppFrame, NodeFrame, DeliverFrame DEF Next, xVars,
     msgVars, ricVars, iappVars, loopVars, nodeVars

\* Only a new request takes a RIC request id.
LEMMA IdWriters ==
  ASSUME Next
  PROVE  \/ UNCHANGED nextId
         \/ IForward
<1> DEFINE Written ==
      \/ UNCHANGED nextId
      \/ IForward
<1>1. IAppStep => Written
  BY DEF IAppStep, IRequest, IDelete, IGone, ISend, IAdd, IForwardDelete, Fail, xVars,
     msgVars, ricVars, iappVars, loopVars, nodeVars
<1> QED
  BY <1>1, LoopFrame, TaskFrame, XAppFrame, NodeFrame, DeliverFrame DEF Next, xVars,
     msgVars, ricVars, iappVars, loopVars, nodeVars

\* The state of the iApp thread is its own.
LEMMA IAppWriters ==
  ASSUME Next
  PROVE  \/ UNCHANGED <<wlock, iappVars>>
         \/ IAppStep
<1> DEFINE Written ==
      \/ UNCHANGED <<wlock, iappVars>>
      \/ IAppStep
<1> QED
  BY LoopFrame, TaskFrame, XAppFrame, NodeFrame, DeliverFrame DEF Next, xVars, msgVars,
     ricVars, iappVars, loopVars, nodeVars

\* Who hands over and who advances a task.
LEMMA TaskWriters ==
  ASSUME Next
  PROVE  \/ UNCHANGED tasks
         \/ \E t \in tasks : TaskStep(t)
         \/ \E n \in Nodes : NAnswer(n)
         \/ \E n \in Nodes, i \in Ids : NIndicate(n, i)
<1> DEFINE Written ==
      \/ UNCHANGED tasks
      \/ \E t \in tasks : TaskStep(t)
      \/ \E n \in Nodes : NAnswer(n)
      \/ \E n \in Nodes, i \in Ids : NIndicate(n, i)
<1>1. (\E n \in Nodes : NodeStep(n)) => Written
  BY DEF NodeStep, NLeave, Fail, xVars, msgVars, ricVars, iappVars, loopVars, nodeVars
<1> QED
  BY <1>1, IAppFrame, LoopFrame, XAppFrame, DeliverFrame DEF Next, xVars, msgVars,
     ricVars, iappVars, loopVars, nodeVars

\* Who writes the registered nodes and the connections.
LEMMA LoopWriters ==
  ASSUME Next
  PROVE  \/ UNCHANGED <<sock, reg, up, lpc, lev>>
         \/ LoopStep
         \/ \E n \in Nodes : NLeave(n)
<1> DEFINE Written ==
      \/ UNCHANGED <<sock, reg, up, lpc, lev>>
      \/ LoopStep
      \/ \E n \in Nodes : NLeave(n)
<1>1. (\E n \in Nodes : NodeStep(n)) => Written
  BY DEF NodeStep, NAnswer, NIndicate, Fail, xVars, msgVars, ricVars, iappVars,
     loopVars, nodeVars
<1> QED
  BY <1>1, IAppFrame, TaskFrame, XAppFrame, DeliverFrame DEF Next, xVars, msgVars,
     ricVars, iappVars, loopVars, nodeVars

\* Who writes the subscriptions of the nodes.
LEMMA NodeWriters ==
  ASSUME Next
  PROVE  \/ UNCHANGED <<active, inds>>
         \/ \E n \in Nodes : NodeStep(n)
<1> DEFINE Written ==
      \/ UNCHANGED <<active, inds>>
      \/ \E n \in Nodes : NodeStep(n)
<1> QED
  BY IAppFrame, LoopFrame, TaskFrame, XAppFrame, DeliverFrame DEF Next, xVars, msgVars,
     ricVars, iappVars, loopVars, nodeVars

-----------------------------------------------------------------------------
(* Types *)

\* An entry of the map is that of a subscription or a control.
LEMMA Entry ==
  ASSUME NEW e \in Entries
  PROVE  /\ e # NoEntry /\ e.x \in XApps /\ e.l \in Locals /\ e.n \in Nodes
         /\ e.op \in {"sub", "ctrl"} /\ e.op # "del"
BY BoundsAssumption DEF Entries, NoEntry, Locals

\* A subscription or control request becomes the entry.
LEMMA Asking ==
  ASSUME NEW m \in Requests \cup Gone
  PROVE  /\ m.x \in XApps /\ m.op \in Ops \cup {"gone"}
         /\ m.op # "gone" => m.l \in Locals
         /\ m.op \in {"sub", "ctrl"} => m \in Entries
BY DEF Requests, Gone, Ops, Entries

\* Types of the xApps.
LEMMA XAppTypesStep ==
  ASSUME Types, Next, abort' = "none"
  PROVE  XAppTypes'
<1> USE DEF XAppTypes
<1>0. CASE UNCHANGED xVars
  BY <1>0 DEF Types, xVars
<1>1. ASSUME NEW x \in XApps, NEW n \in Nodes, NEW op \in {"sub", "ctrl"}, XRequest(x, n, op)
      PROVE  XAppTypes'
  <2>1. xnext[x] \in Locals /\ xnext[x] + 1 \in 1..MaxLocal+1 /\ op \in Ops
    BY <1>1, BoundsAssumption DEF Types, XRequest, Locals, Ops
  <2> QED
    BY <1>1, <2>1 DEF Types, XRequest
<1>2. ASSUME NEW x \in XApps, NEW l \in Locals, XDelete(x, l) PROVE XAppTypes'
  BY <1>2 DEF Types, XDelete, Ops
<1>3. ASSUME NEW x \in XApps, XDie(x) PROVE XAppTypes'
  BY <1>3 DEF Types, XDie
<1>4. ASSUME NEW m \in toX, XReceive(m) PROVE XAppTypes'
  <2>1. m.x \in XApps /\ m.l \in Locals
    BY DEF Types, MessageTypes, ToXApp
  <2>2. CASE UNCHANGED xVars
    BY <2>2 DEF Types, xVars
  <2>3. CASE alive' = [alive EXCEPT ![m.x] = FALSE] /\ UNCHANGED <<xcall, xnext, xsubs>>
    BY <2>1, <2>3 DEF Types
  <2>4. CASE /\ xcall' = [xcall EXCEPT ![m.x] = <<>>]
             /\ \/ xsubs' = [xsubs EXCEPT ![m.x] = @ \cup {m.l}]
                \/ xsubs' = [xsubs EXCEPT ![m.x] = @ \ {m.l}]
                \/ xsubs' = [xsubs EXCEPT ![m.x] = @]
             /\ UNCHANGED <<alive, xnext>>
    <3>1. PICK S \in SUBSET Locals : xsubs' = [xsubs EXCEPT ![m.x] = S]
      <4>1. xsubs[m.x] \cup {m.l} \in SUBSET Locals /\ xsubs[m.x] \ {m.l} \in SUBSET Locals
        BY <2>1 DEF Types
      <4> QED
        BY <2>1, <2>4, <4>1 DEF Types
    <3> QED
      BY <2>1, <2>4, <3>1 DEF Types
  <2> QED
    BY <1>4, <2>2, <2>3, <2>4 DEF XReceive
<1> QED
  BY <1>0, <1>1, <1>2, <1>3, <1>4, XAppWriters

\* Types of the messages to and from the xApps.
LEMMA MessageTypesStep ==
  ASSUME Types, Next, abort' = "none"
  PROVE  MessageTypes'
<1>1. toIApp' \subseteq Requests \cup Gone
  <2>0. toIApp \subseteq Requests \cup Gone
    BY DEF Types, MessageTypes
  <2>1. ASSUME NEW x \in XApps, NEW n \in Nodes, NEW op \in {"sub", "ctrl"}, XRequest(x, n, op)
        PROVE  toIApp' \subseteq Requests \cup Gone
    <3>1. xnext[x] \in Locals
      BY <2>1, BoundsAssumption DEF Types, XAppTypes, XRequest, Locals
    <3> QED
      BY <2>0, <2>1, <3>1 DEF XRequest, Requests
  <2>2. ASSUME NEW x \in XApps, NEW l \in Locals, XDelete(x, l) PROVE toIApp' \subseteq Requests \cup Gone
    BY <2>0, <2>2 DEF XDelete, Requests
  <2>3. ASSUME NEW m \in toX, SendFailed(m) PROVE toIApp' \subseteq Requests \cup Gone
    BY <2>0, <2>3 DEF Types, MessageTypes, SendFailed, Gone, ToXApp
  <2>4. ASSUME NEW m \in toIApp, IRequest(m) \/ IDelete(m) \/ IGone(m)
        PROVE  toIApp' \subseteq Requests \cup Gone
    <3>1. toIApp' \subseteq toIApp
      BY <2>4 DEF IRequest, IDelete, IGone, Fail, msgVars
    <3> QED
      BY <2>0, <3>1
  <2> QED
    BY <2>0, <2>1, <2>2, <2>3, <2>4, RequestWriters
<1>2. toX' \subseteq ToXApp
  <2>0. toX \subseteq ToXApp
    BY DEF Types, MessageTypes
  <2>1. ASSUME NEW m \in toX, XReceive(m) \/ SendFailed(m) PROVE toX' \subseteq ToXApp
    BY <2>0, <2>1 DEF XReceive, SendFailed
  <2>2. ASSUME NEW t \in tasks, TSend(t) PROVE toX' \subseteq ToXApp
    <3>1. t.op \in Ops \cup {"ind"} /\ t.to.x \in XApps /\ t.to.l \in Locals
      BY <2>2, Entry DEF Types, TaskTypes, Tasks, TSend
    <3> QED
      BY <2>0, <2>2, <3>1 DEF TSend, ToXApp
  <2> QED
    BY <2>0, <2>1, <2>2, ReplyWriters
<1> QED
  BY <1>1, <1>2 DEF MessageTypes

\* Types of the associations with the nodes.
LEMMA QueueTypesStep ==
  ASSUME Types, Next, abort' = "none"
  PROVE  QueueTypes'
<1> USE DEF QueueTypes
<1>0. CASE UNCHANGED toN
  BY <1>0 DEF Types
<1>1. CASE ISend
  <2>1. ireq.n \in Nodes /\ <<ireq.op, iid>> \in Ops \X Ids
    BY <1>1, Entry DEF Types, IAppTypes, ISend, Ops
  <2>2. Append(toN[ireq.n], <<ireq.op, iid>>) \in Seq(Ops \X Ids)
    BY <2>1 DEF Types
  <2> QED
    BY <1>1, <2>1, <2>2 DEF Types, ISend, Fail, msgVars
<1>2. ASSUME NEW n \in Nodes, NAnswer(n) PROVE QueueTypes'
  <2>1. Tail(toN[n]) \in Seq(Ops \X Ids)
    BY <1>2 DEF Types, NAnswer
  <2> QED
    BY <1>2, <2>1 DEF Types, NAnswer
<1>3. ASSUME NEW n \in Nodes, NLeave(n) PROVE QueueTypes'
  BY <1>3 DEF Types, NLeave
<1> QED
  BY <1>0, <1>1, <1>2, <1>3, QueueWriters

\* Types of the RIC's tables.
LEMMA TableTypesStep ==
  ASSUME Types, Next, abort' = "none"
  PROVE  TableTypes'
<1>1. nextId' \in 1..MaxId+1
  <2>1. CASE IForward
    BY <2>1, BoundsAssumption DEF Types, TableTypes, IAppTypes, IForward, Ids
  <2> QED
    BY <2>1, IdWriters DEF Types, TableTypes
<1>2. pending' \subseteq Ops \X Ids
  <2>0. pending \subseteq Ops \X Ids
    BY DEF Types, TableTypes
  <2>1. CASE IForward
    <3>1. ireq.op \in Ops /\ nextId \in Ids
      BY <2>1, Entry DEF Types, IAppTypes, IForward, Ops
    <3> QED
      BY <2>0, <2>1, <3>1 DEF IForward
  <2>2. ASSUME NEW d \in ilist, IForwardDelete(d) PROVE pending' \subseteq Ops \X Ids
    BY <2>0, <2>2 DEF Types, IAppTypes, IForwardDelete, Ops
  <2>3. ASSUME NEW t \in tasks, TStop(t) PROVE pending' \subseteq Ops \X Ids
    BY <2>0, <2>3 DEF TStop, Fail, ricVars
  <2> QED
    BY <2>0, <2>1, <2>2, <2>3, PendingWriters
<1>3. map' \in [Ids -> Entries \cup {NoEntry}]
  <2>0. map \in [Ids -> Entries \cup {NoEntry}]
    BY DEF Types, TableTypes
  <2>1. CASE IAdd
    BY <2>0, <2>1 DEF Types, IAppTypes, IAdd, Fail, ricVars
  <2>2. ASSUME NEW t \in tasks, TRemove(t) PROVE map' \in [Ids -> Entries \cup {NoEntry}]
    BY <2>0, <2>2 DEF TRemove, Fail, ricVars
  <2> QED
    BY <2>0, <2>1, <2>2, MapWriters
<1> QED
  BY <1>1, <1>2, <1>3 DEF TableTypes

\* Types of the iApp thread, and the write lock it holds over a request.
LEMMA IAppTypesStep ==
  ASSUME Types, Next, abort' = "none"
  PROVE  IAppTypes'
<1> USE DEF IAppTypes
<1>0. CASE UNCHANGED <<wlock, iappVars>>
  <2>1. ipc = "fwd" => ~IForward \/ ipc' = "send"
    BY DEF IForward
  <2> QED
    BY <1>0, <2>1, IdWriters DEF Types, iappVars, IForward
<1>1. ASSUME NEW m \in toIApp, IRequest(m) PROVE IAppTypes'
  <2>1. m \in Entries
    BY <1>1, Asking DEF Types, MessageTypes, IRequest
  <2>2. nextId \in Ids
    BY <1>1, BoundsAssumption DEF Types, TableTypes, IRequest, Ids, Fail
  <2> QED
    BY <1>1, <2>1, <2>2 DEF Types, IRequest, Fail
<1>2. CASE IForward
  BY <1>2, Entry DEF Types, IForward
<1>3. CASE ISend
  <2>1. UNCHANGED <<wlock, ireq, iid, ilist, nextId>>
    BY <1>3 DEF ISend, ricVars, Fail
  <2>2. ipc = "send" /\ (ireq.op # "del" => ireq \in Entries)
    BY <1>3 DEF Types, ISend
  <2>3. ipc' = IF ireq.op # "del" THEN "add" ELSE IF ilist # {} THEN "del" ELSE "epoll"
    BY <1>3 DEF ISend, Fail
  <2> QED
    BY <2>1, <2>2, <2>3 DEF Types
<1>4. CASE IAdd
  BY <1>4 DEF Types, IAdd, Fail
<1>5. ASSUME NEW m \in toIApp, IDelete(m) PROVE IAppTypes'
  <2>1. \A i \in Found(m) : <<i, map[i].n>> \in Ids \X Nodes
    BY Entry DEF Types, TableTypes, Found, Matches
  <2> QED
    BY <1>5, <2>1 DEF Types, IDelete, ricVars, Fail
<1>6. ASSUME NEW m \in toIApp, IGone(m) PROVE IAppTypes'
  <2>1. \A i \in Ids : map[i].op = "sub" => map[i].n \in Nodes
    BY Entry DEF Types, TableTypes, NoEntry
  <2> QED
    BY <1>6, <2>1 DEF Types, IGone, ricVars
<1>7. ASSUME NEW d \in ilist, IForwardDelete(d) PROVE IAppTypes'
  <2>1. d[1] \in Ids /\ d[2] \in Nodes
    BY DEF Types
  <2> QED
    BY <1>7, <2>1 DEF Types, IForwardDelete
<1> QED
  BY <1>0, <1>1, <1>2, <1>3, <1>4, <1>5, <1>6, <1>7, IAppWriters DEF IAppStep

\* A node is unregistered only after it has left.
LEMMA LoopTypesStep ==
  ASSUME Types, Next, abort' = "none"
  PROVE  LoopTypes'
<1> USE DEF LoopTypes
<1>0. CASE UNCHANGED <<sock, reg, up, lpc, lev>>
  BY <1>0 DEF Types
<1>1. CASE LTimer
  BY <1>1 DEF LTimer, Fail
<1>2. CASE LForget
  BY <1>2 DEF Types, LForget, nodeVars
<1>3. ASSUME NEW e \in pending, LExpired(e) PROVE LoopTypes'
  BY <1>3 DEF Types, LExpired, ricVars, nodeVars
<1>4. ASSUME NEW n \in Nodes, LShutdown(n) PROVE LoopTypes'
  BY <1>4 DEF Types, LShutdown, nodeVars
<1>5. ASSUME NEW n \in Nodes, NLeave(n) PROVE LoopTypes'
  BY <1>5 DEF Types, NLeave, ricVars, loopVars
<1> QED
  BY <1>0, <1>1, <1>2, <1>3, <1>4, <1>5, LoopWriters DEF LoopStep

\* Types of the tasks: one that is past the look-up has an entry.
LEMMA TaskTypesStep ==
  ASSUME Types, Next, abort' = "none"
  PROVE  TaskTypes'
<1> USE DEF TaskTypes
<1>0. CASE UNCHANGED tasks
  BY <1>0 DEF Types
<1>1. ASSUME NEW t \in tasks, TStop(t) PROVE TaskTypes'
  <2>1. tasks' \subseteq tasks \cup {[t EXCEPT !.to = NoEntry, !.pc = "find"]}
    BY <1>1 DEF TStop, Step, Fail
  <2> DEFINE u == [t EXCEPT !.to = NoEntry, !.pc = "find"]
  <2>2. u \in Tasks /\ u.pc = "find" /\ u.to = NoEntry
    BY <1>1 DEF Types, Tasks
  <2> QED
    BY <2>1, <2>2 DEF Types
<1>2. ASSUME NEW t \in tasks, TFind(t) PROVE TaskTypes'
  <2>1. map[t.i] \in Entries \cup {NoEntry}
    BY DEF Types, TableTypes, Tasks
  <2>2. \/ tasks' \subseteq tasks
        \/ map[t.i] # NoEntry /\ tasks' \subseteq tasks \cup {[t EXCEPT !.to = map[t.i], !.pc = "tx"]}
    BY <1>2 DEF TFind, Step, Finish
  <2> DEFINE u == [t EXCEPT !.to = map[t.i], !.pc = "tx"]
  <2>3. u \in Tasks /\ u.pc = "tx" /\ u.to = map[t.i]
    BY <2>1 DEF Types, Tasks
  <2> HIDE DEF u
  <2>4. tasks' \subseteq tasks \/ (map[t.i] # NoEntry /\ tasks' \subseteq tasks \cup {u})
    BY <2>2 DEF u
  <2> QED
    BY <2>1, <2>3, <2>4 DEF Types
<1>3. ASSUME NEW t \in tasks, TSend(t) PROVE TaskTypes'
  <2>1. t.to \in Entries
    BY <1>3 DEF Types, TSend
  <2>2. \/ tasks' \subseteq tasks
        \/ t.op \in {"del", "ctrl"} /\ tasks' \subseteq tasks \cup {[t EXCEPT !.to = t.to, !.pc = "rm"]}
    BY <1>3 DEF TSend, Step, Finish
  <2> DEFINE u == [t EXCEPT !.to = t.to, !.pc = "rm"]
  <2>3. u \in Tasks /\ u.pc = "rm" /\ u.to = t.to /\ u.op = t.op
    BY <2>1 DEF Types, Tasks
  <2> HIDE DEF u
  <2>4. tasks' \subseteq tasks \/ (t.op \in {"del", "ctrl"} /\ tasks' \subseteq tasks \cup {u})
    BY <2>2 DEF u
  <2> QED
    BY <2>1, <2>3, <2>4 DEF Types
<1>4. ASSUME NEW t \in tasks, TRemove(t) PROVE TaskTypes'
  BY <1>4 DEF Types, TRemove, Finish, Fail
<1>5. ASSUME NEW n \in Nodes, NAnswer(n) PROVE TaskTypes'
  <2>1. Head(toN[n]) \in Ops \X Ids
    BY <1>5 DEF Types, QueueTypes, NAnswer
  <2>2. [op |-> Head(toN[n])[1], i |-> Head(toN[n])[2], pc |-> "stop", to |-> NoEntry] \in Tasks
    BY <2>1 DEF Tasks
  <2> QED
    BY <1>5, <2>1, <2>2 DEF Types, NAnswer
<1>6. ASSUME NEW n \in Nodes, NEW i \in Ids, NIndicate(n, i) PROVE TaskTypes'
  BY <1>6 DEF Types, NIndicate, Tasks
<1> QED
  BY <1>0, <1>1, <1>2, <1>3, <1>4, <1>5, <1>6, TaskWriters DEF TaskStep

\* Types of the nodes.
LEMMA NodeTypesStep ==
  ASSUME Types, Next, abort' = "none"
  PROVE  NodeTypes'
<1> USE DEF NodeTypes
<1>0. CASE UNCHANGED <<active, inds>>
  BY <1>0 DEF Types
<1>1. ASSUME NEW n \in Nodes, NAnswer(n) PROVE NodeTypes'
  <2>1. Head(toN[n]) \in Ops \X Ids
    BY <1>1 DEF Types, QueueTypes, NAnswer
  <2> QED
    BY <1>1, <2>1 DEF Types, NAnswer
<1>2. ASSUME NEW n \in Nodes, NLeave(n) PROVE NodeTypes'
  BY <1>2 DEF Types, NLeave
<1>3. ASSUME NEW n \in Nodes, NEW i \in Ids, NIndicate(n, i) PROVE NodeTypes'
  BY <1>3, BoundsAssumption DEF Types, NIndicate
<1> QED
  BY <1>0, <1>1, <1>2, <1>3, NodeWriters DEF NodeStep

\* Every step keeps the types.
LEMMA TypesStep ==
  ASSUME Types, Next, abort' = "none"
  PROVE  Types'
BY XAppTypesStep, MessageTypesStep, QueueTypesStep, TableTypesStep, IAppTypesStep,
   LoopTypesStep, TaskTypesStep, NodeTypesStep DEF Types

-----------------------------------------------------------------------------
(* One answer to come for each pending event *)

Queued  == {k \in Ops \X Ids : \E n \in Nodes : \E p \in 1..Len(toN[n]) : k = toN[n][p]}
Tokens  == Sending \cup Queued \cup Answers
Finding == {<<t.op, t.i>> : t \in {u \in tasks : u.pc = "find" /\ u.op # "ind"}}

OneAnswer ==
  /\ \A n, m \in Nodes : \A p \in 1..Len(toN[n]), q \in 1..Len(toN[m]) :
       toN[n][p] = toN[m][q] => n = m /\ p = q
  /\ Tokens \subseteq pending
  /\ Queued \cap Answers = {}
  /\ Sending \cap (Queued \cup Answers) = {}

\* What is in a table or under way has an id given out before.
Issued ==
  /\ \A k \in pending \cup Finding : k[2] < nextId
  /\ \A i \in Ids : i >= nextId => map[i] = NoEntry
  /\ \A d \in ilist : d[1] < nextId
  /\ iid < nextId
  /\ Adding => map[iid] = NoEntry

\* What waits in an association is a request.
LEMMA Positions ==
  ASSUME Types, NEW n \in Nodes
  PROVE  /\ Len(toN[n]) \in Nat
         /\ \A p \in 1..Len(toN[n]) : toN[n][p] \in Ops \X Ids /\ toN[n][p] \in Queued
<1>1. toN[n] \in Seq(Ops \X Ids)
  BY DEF Types, QueueTypes
<1>2. \A p \in 1..Len(toN[n]) : toN[n][p] \in Ops \X Ids
  BY <1>1
<1> QED
  BY <1>1, <1>2 DEF Queued

\* e2ap_send_bytes_ric puts the request last in the association of its node.
LEMMA QueuedAfterSend ==
  ASSUME Types, ISend, abort' = "none"
  PROVE  \/ UNCHANGED toN
         \/ /\ \A m \in Nodes : Len(toN'[m]) = IF m = ireq.n THEN Len(toN[m]) + 1 ELSE Len(toN[m])
            /\ \A m \in Nodes : \A q \in 1..Len(toN[m]) : toN'[m][q] = toN[m][q]
            /\ toN'[ireq.n][Len(toN[ireq.n]) + 1] = <<ireq.op, iid>>
            /\ Queued' \subseteq Queued \cup {<<ireq.op, iid>>}
<1> DEFINE N == ireq.n
           e == <<ireq.op, iid>>
<1>1. N \in Nodes /\ e \in Ops \X Ids
  BY Entry DEF Types, IAppTypes, ISend, Ops
<1>2. \/ UNCHANGED toN
      \/ toN' = [toN EXCEPT ![N] = Append(toN[N], e)]
  BY DEF ISend, Fail, msgVars, Types, QueueTypes
<1>3. toN \in [Nodes -> Seq(Ops \X Ids)]
  BY DEF Types, QueueTypes
<1> HIDE DEF N, e
<1>4. CASE toN' = [toN EXCEPT ![N] = Append(toN[N], e)]
  <2>1. /\ Append(toN[N], e) \in Seq(Ops \X Ids)
        /\ Len(Append(toN[N], e)) = Len(toN[N]) + 1
        /\ \A q \in 1..Len(toN[N]) : Append(toN[N], e)[q] = toN[N][q]
        /\ Append(toN[N], e)[Len(toN[N]) + 1] = e
    BY <1>1, <1>3
  <2>2. toN'[N] = Append(toN[N], e) /\ \A m \in Nodes \ {N} : toN'[m] = toN[m]
    BY <1>1, <1>3, <1>4
  <2>3. \A m \in Nodes : Len(toN'[m]) = IF m = N THEN Len(toN[m]) + 1 ELSE Len(toN[m])
    BY <2>1, <2>2
  <2>4. \A m \in Nodes : \A q \in 1..Len(toN[m]) : toN'[m][q] = toN[m][q]
    BY <2>1, <2>2
  <2>5. toN'[N][Len(toN[N]) + 1] = e
    BY <2>1, <2>2
  <2>6. Queued' \subseteq Queued \cup {e}
    <3> SUFFICES ASSUME NEW m \in Nodes, NEW q \in 1..Len(toN'[m])
                 PROVE  toN'[m][q] \in Queued \cup {e}
      BY DEF Queued
    <3>1. Len(toN[m]) \in Nat
      BY Positions
    <3>2. CASE q \in 1..Len(toN[m])
      BY <2>4, <3>2, Positions
    <3>3. CASE q \notin 1..Len(toN[m])
      <4>1. m = N /\ q = Len(toN[N]) + 1
        BY <2>3, <3>1, <3>3
      <4> QED
        BY <2>5, <4>1
    <3> QED
      BY <3>2, <3>3
  <2> QED
    BY <2>3, <2>4, <2>5, <2>6 DEF N, e
<1> QED
  BY <1>2, <1>4

\* A node answers its oldest request.
LEMMA QueuedAfterAnswer ==
  ASSUME Types, NEW n \in Nodes, NAnswer(n)
  PROVE  /\ 1 \in 1..Len(toN[n]) /\ Head(toN[n]) = toN[n][1]
         /\ \A m \in Nodes : Len(toN'[m]) = IF m = n THEN Len(toN[m]) - 1 ELSE Len(toN[m])
         /\ \A m \in Nodes \ {n} : toN'[m] = toN[m]
         /\ \A q \in 1..Len(toN'[n]) : q + 1 \in 1..Len(toN[n]) /\ toN'[n][q] = toN[n][q+1]
<1>1. toN[n] \in Seq(Ops \X Ids) /\ toN[n] # <<>>
  BY DEF Types, QueueTypes, NAnswer
<1>2. toN'[n] = Tail(toN[n]) /\ \A m \in Nodes \ {n} : toN'[m] = toN[m]
  BY DEF Types, QueueTypes, NAnswer
<1>3. /\ 1 \in 1..Len(toN[n]) /\ Head(toN[n]) = toN[n][1]
      /\ Len(Tail(toN[n])) = Len(toN[n]) - 1
      /\ \A q \in 1..Len(Tail(toN[n])) : q + 1 \in 1..Len(toN[n]) /\ Tail(toN[n])[q] = toN[n][q+1]
  BY <1>1
<1> QED
  BY <1>2, <1>3

\* The request answered leaves the association and becomes a task.
LEMMA TokensAfterAnswer ==
  ASSUME Types, OneAnswer, NEW n \in Nodes, NAnswer(n)
  PROVE  /\ Queued' \subseteq Queued \ {Head(toN[n])}
         /\ Head(toN[n]) \in Queued
         /\ Answers' = Answers \cup {Head(toN[n])}
         /\ Sending' = Sending /\ Finding' = Finding
<1>1. Head(toN[n]) \in Queued /\ Head(toN[n]) \in Ops \X Ids
  BY QueuedAfterAnswer, Positions
<1>2. Queued' \subseteq Queued \ {Head(toN[n])}
  <2> SUFFICES ASSUME NEW k \in Queued' PROVE k \in Queued \ {Head(toN[n])}
    OBVIOUS
  <2>9. PICK m \in Nodes : \E q \in 1..Len(toN'[m]) : k = toN'[m][q]
    BY DEF Queued
  <2>8. PICK q \in 1..Len(toN'[m]) : k = toN'[m][q]
    BY <2>9
  <2>0. Head(toN[n]) = toN[n][1]
    BY QueuedAfterAnswer
  <2>1. CASE m = n
    <3>1. q + 1 \in 1..Len(toN[n]) /\ toN'[n][q] = toN[n][q+1] /\ q + 1 # 1
      BY <2>1, QueuedAfterAnswer
    <3>2. toN[n][q+1] # toN[n][1]
      BY <3>1, QueuedAfterAnswer DEF OneAnswer
    <3> QED
      BY <2>0, <2>1, <2>8, <3>1, <3>2, Positions
  <2>2. CASE m # n
    <3>1. q \in 1..Len(toN[m]) /\ toN'[m][q] = toN[m][q]
      BY <2>2, QueuedAfterAnswer
    <3>2. toN[m][q] # toN[n][1]
      BY <2>2, <3>1, QueuedAfterAnswer DEF OneAnswer
    <3> QED
      BY <2>0, <2>8, <3>1, <3>2, Positions
  <2> QED
    BY <2>1, <2>2
<1>3. Answers' = Answers \cup {Head(toN[n])}
  <2> DEFINE u == [op |-> Head(toN[n])[1], i |-> Head(toN[n])[2], pc |-> "stop", to |-> NoEntry]
  <2>1. tasks' = tasks \cup {u} /\ u.pc = "stop" /\ <<u.op, u.i>> = Head(toN[n])
    BY <1>1 DEF NAnswer
  <2> HIDE DEF u
  <2> QED
    BY <2>1 DEF Answers
<1>4. Finding' = Finding
  BY DEF NAnswer, Finding
<1> QED
  BY <1>1, <1>2, <1>3, <1>4 DEF NAnswer, Sending, iappVars

\* stop_pending_event moves the answer on to the look-up.
LEMMA TokensAfterStop ==
  ASSUME Types, NEW t \in tasks, TStop(t), abort' = "none"
  PROVE  /\ <<t.op, t.i>> \in Answers
         /\ Answers' = Answers \ {<<t.op, t.i>>}
         /\ Finding' = Finding \cup {<<t.op, t.i>>}
         /\ Sending' = Sending /\ Queued' = Queued
         /\ pending' = pending \ {<<t.op, t.i>>}
<1> DEFINE u == [t EXCEPT !.to = NoEntry, !.pc = "find"]
<1>1. t.pc = "stop" /\ t.op # "ind"
  BY DEF TStop, Types, TaskTypes, Ops
<1>2. u.pc = "find" /\ u.op = t.op /\ u.i = t.i
  BY DEF Types, TaskTypes, Tasks
<1>3. tasks' = (tasks \ {t}) \cup {u}
  BY DEF TStop, Step, Fail
<1>4. \A v \in tasks : v.pc = "stop" /\ v.op = t.op /\ v.i = t.i => v = t
  BY <1>1 DEF Types, TaskTypes, Tasks
<1> HIDE DEF u
<1>5. Answers' = Answers \ {<<t.op, t.i>>} /\ <<t.op, t.i>> \in Answers
  BY <1>1, <1>2, <1>3, <1>4 DEF Answers
<1>6. Finding' = Finding \cup {<<t.op, t.i>>}
  BY <1>1, <1>2, <1>3 DEF Finding
<1> QED
  BY <1>5, <1>6 DEF TStop, Fail, Sending, Queued, iappVars, msgVars

\* The later steps of a task.
LEMMA TokensAfterFind ==
  ASSUME Types, NEW t \in tasks, TFind(t)
  PROVE  /\ Answers' = Answers
         /\ Finding' \subseteq Finding
         /\ t.op # "ind" /\ abort' = "none" => <<t.op, t.i>> \in Finding \ Finding'
<1> DEFINE u == [t EXCEPT !.to = map[t.i], !.pc = "tx"]
<1>1. t.pc = "find" /\ t \in Tasks
  BY DEF TFind, Types, TaskTypes
<1>2. u.pc = "tx" /\ u.op = t.op /\ u.i = t.i
  BY <1>1 DEF Tasks
<1>3. tasks' = tasks \/ tasks' = tasks \ {t} \/ tasks' = (tasks \ {t}) \cup {u}
  BY DEF TFind, Step, Finish
<1> HIDE DEF u
<1>4. Answers' = Answers /\ Finding' \subseteq Finding
  BY <1>1, <1>2, <1>3 DEF Answers, Finding
<1>5. ASSUME t.op # "ind", abort' = "none" PROVE <<t.op, t.i>> \in Finding \ Finding'
  <2>1. tasks' = tasks \ {t} \/ tasks' = (tasks \ {t}) \cup {u}
    BY <1>5, <1>1 DEF TFind, Step, Finish, u
  <2>2. \A v \in tasks : v.pc = "find" /\ v.op = t.op /\ v.i = t.i => v = t
    BY <1>1 DEF Types, TaskTypes, Tasks
  <2> QED
    BY <1>1, <1>2, <1>5, <2>1, <2>2 DEF Finding
<1> QED
  BY <1>4, <1>5

\* Neither the later steps of a task nor an indication touch the answers to come.
LEMMA TokensAfterRest ==
  ASSUME Types
  PROVE  /\ \A t \in tasks : TSend(t) \/ TRemove(t) => Answers' = Answers /\ Finding' = Finding
         /\ \A n \in Nodes, i \in Ids : NIndicate(n, i) => Answers' = Answers /\ Finding' = Finding
<1>1. ASSUME NEW t \in tasks, TSend(t) PROVE Answers' = Answers /\ Finding' = Finding
  <2> DEFINE u == [t EXCEPT !.to = t.to, !.pc = "rm"]
  <2>1. t.pc = "tx" /\ u.pc = "rm"
    BY <1>1 DEF TSend, Types, TaskTypes, Tasks
  <2>2. tasks' = tasks \ {t} \/ tasks' = (tasks \ {t}) \cup {u}
    BY <1>1 DEF TSend, Step, Finish
  <2> HIDE DEF u
  <2> QED
    BY <2>1, <2>2 DEF Answers, Finding
<1>2. ASSUME NEW t \in tasks, TRemove(t) PROVE Answers' = Answers /\ Finding' = Finding
  <2>1. t.pc = "rm" /\ (tasks' = tasks \/ tasks' = tasks \ {t})
    BY <1>2 DEF TRemove, Finish, Fail
  <2> QED
    BY <2>1 DEF Answers, Finding
<1>3. ASSUME NEW n \in Nodes, NEW i \in Ids, NIndicate(n, i) PROVE Answers' = Answers /\ Finding' = Finding
  <2> DEFINE u == [op |-> "ind", i |-> i, pc |-> "find", to |-> NoEntry]
  <2>1. u.pc = "find" /\ u.op = "ind" /\ tasks' = tasks \cup {u}
    BY <1>3 DEF NIndicate
  <2> HIDE DEF u
  <2> QED
    BY <2>1 DEF Answers, Finding
<1> QED
  BY <1>1, <1>2, <1>3

\* The requests forwarded, and what else the iApp thread does.
LEMMA TokensAfterForward ==
  ASSUME Types, IAppStep, abort' = "none"
  PROVE  /\ Answers' = Answers /\ Finding' = Finding
         /\ IForward => /\ Queued' = Queued /\ Sending = {}
                        /\ Sending' = {<<ireq.op, nextId>>}
                        /\ pending' = pending \cup {<<ireq.op, nextId>>}
         /\ \A d \in ilist : IForwardDelete(d) =>
              /\ Queued' = Queued /\ Sending = {}
              /\ \/ Sending' = {} /\ pending' = pending
                 \/ /\ Sending' = {<<"del", d[1]>>} /\ <<"del", d[1]>> \notin pending
                    /\ pending' = pending \cup {<<"del", d[1]>>}
         /\ ISend => Sending = {<<ireq.op, iid>>} /\ Sending' = {} /\ pending' = pending
         /\ IAdd \/ (\E m \in toIApp : IRequest(m) \/ IDelete(m) \/ IGone(m)) =>
              Sending = {} /\ Sending' = {} /\ Queued' = Queued /\ pending' = pending
<1>1. Answers' = Answers /\ Finding' = Finding
  BY IAppFrame DEF Answers, Finding
<1>2. IForward => /\ Queued' = Queued /\ Sending = {}
                  /\ Sending' = {<<ireq.op, nextId>>}
                  /\ pending' = pending \cup {<<ireq.op, nextId>>}
  BY DEF IForward, Sending, Queued, msgVars
<1>3. ASSUME NEW d \in ilist, IForwardDelete(d)
      PROVE  /\ Queued' = Queued /\ Sending = {}
             /\ \/ Sending' = {} /\ pending' = pending
                \/ /\ Sending' = {<<"del", d[1]>>} /\ <<"del", d[1]>> \notin pending
                   /\ pending' = pending \cup {<<"del", d[1]>>}
  <2>1. Queued' = Queued /\ Sending = {}
    BY <1>3 DEF IForwardDelete, Sending, Queued, msgVars
  <2>2. CASE <<"del", d[1]>> \in pending
    <3>1. ipc' # "send" /\ pending' = pending
      BY <1>3, <2>2 DEF IForwardDelete
    <3>2. Sending' = {}
      BY <3>1 DEF Sending
    <3> QED
      BY <2>1, <3>1, <3>2
  <2>3. CASE <<"del", d[1]>> \notin pending
    <3>1. iid' = d[1] /\ ireq'.op = "del" /\ ipc' = "send" /\ pending' = pending \cup {<<"del", d[1]>>}
      BY <1>3, <2>3 DEF IForwardDelete
    <3>2. Sending' = {<<"del", d[1]>>}
      BY <3>1 DEF Sending
    <3> QED
      BY <2>1, <2>3, <3>1, <3>2
  <2> QED
    BY <2>1, <2>2, <2>3
<1>4. ISend => Sending = {<<ireq.op, iid>>} /\ Sending' = {} /\ pending' = pending
  BY DEF ISend, Sending, ricVars, Fail
<1>5. IAdd => Sending = {} /\ Sending' = {} /\ Queued' = Queued /\ pending' = pending
  BY DEF IAdd, Sending, Queued, msgVars, ricVars, Fail
<1>6. ASSUME NEW m \in toIApp, IRequest(m) \/ IDelete(m) \/ IGone(m)
      PROVE  Sending = {} /\ Sending' = {} /\ Queued' = Queued /\ pending' = pending
  BY <1>6 DEF IRequest, IDelete, IGone, Sending, Queued, msgVars, ricVars, Fail
<1> QED
  BY <1>1, <1>2, <1>3, <1>4, <1>5, <1>6

\* Neither do the event loop and the xApps.
LEMMA TokensElsewhere ==
  ASSUME LoopStep \/ Deliver \/ \E x \in XApps : XStep(x)
  PROVE  /\ Sending' = Sending /\ Queued' = Queued /\ Answers' = Answers
         /\ Finding' = Finding /\ pending' = pending
<1>1. UNCHANGED <<toN, pending, iappVars, tasks>>
  BY LoopFrame, DeliverFrame, XAppFrame DEF ricVars, msgVars
<1> QED
  BY <1>1 DEF Sending, Queued, Answers, Finding, iappVars

\* A pending event has at most one answer to come, in one place.
LEMMA OneAnswerStep ==
  ASSUME Types, OneAnswer, Issued, Next, abort' = "none"
  PROVE  OneAnswer'
<1> USE DEF OneAnswer, Tokens
<1>1. CASE ISend
  <2>1. IAppStep
    BY <1>1 DEF IAppStep
  <2>2. Answers' = Answers /\ Sending = {<<ireq.op, iid>>} /\ Sending' = {} /\ pending' = pending
    BY <1>1, <2>1, TokensAfterForward
  <2>3. CASE UNCHANGED toN
    BY <2>2, <2>3 DEF Queued
  <2>4. CASE ~UNCHANGED toN
    <3> DEFINE N == ireq.n
               e == <<ireq.op, iid>>
    <3>1. /\ \A m \in Nodes : Len(toN'[m]) = IF m = N THEN Len(toN[m]) + 1 ELSE Len(toN[m])
          /\ \A m \in Nodes : \A q \in 1..Len(toN[m]) : toN'[m][q] = toN[m][q]
          /\ toN'[N][Len(toN[N]) + 1] = e
          /\ Queued' \subseteq Queued \cup {e}
      BY <1>1, <2>4, QueuedAfterSend
    <3>2. e \notin Queued
      BY <2>2
    <3>3. \A m \in Nodes : Len(toN[m]) \in Nat /\ \A q \in 1..Len(toN[m]) : toN[m][q] # e
      BY <3>2, Positions
    <3> HIDE DEF N, e
    <3>4. \A m \in Nodes : \A q \in 1..Len(toN'[m]) :
            \/ q \in 1..Len(toN[m]) /\ toN'[m][q] = toN[m][q]
            \/ m = N /\ q = Len(toN[N]) + 1 /\ toN'[m][q] = e
      BY <3>1, <3>3
    <3>5. \A n, m \in Nodes : \A p \in 1..Len(toN'[n]), q \in 1..Len(toN'[m]) :
            toN'[n][p] = toN'[m][q] => n = m /\ p = q
      <4> SUFFICES ASSUME NEW n \in Nodes, NEW m \in Nodes, NEW p \in 1..Len(toN'[n]),
                          NEW q \in 1..Len(toN'[m]), toN'[n][p] = toN'[m][q]
                   PROVE  n = m /\ p = q
        OBVIOUS
      <4>1. CASE p \in 1..Len(toN[n]) /\ q \in 1..Len(toN[m])
        <5>1. toN[n][p] = toN[m][q]
          BY <3>3, <3>4, <4>1
        <5> QED
          BY <4>1, <5>1
      <4>2. CASE p \notin 1..Len(toN[n]) /\ q \notin 1..Len(toN[m])
        BY <3>4, <4>2
      <4>3. CASE p \in 1..Len(toN[n]) /\ q \notin 1..Len(toN[m])
        BY <3>1, <3>3, <3>4, <4>3
      <4>4. CASE p \notin 1..Len(toN[n]) /\ q \in 1..Len(toN[m])
        BY <3>1, <3>3, <3>4, <4>4
      <4> QED
        BY <4>1, <4>2, <4>3, <4>4
    <3> QED
      BY <2>2, <3>1, <3>2, <3>5 DEF e
  <2> QED
    BY <2>3, <2>4
<1>2. ASSUME NEW n \in Nodes, NAnswer(n) PROVE OneAnswer'
  <2>1. pending' = pending
    BY <1>2 DEF NAnswer, ricVars
  <2>2. \A m, k \in Nodes : \A p \in 1..Len(toN'[m]), q \in 1..Len(toN'[k]) :
          toN'[m][p] = toN'[k][q] => m = k /\ p = q
    <3> SUFFICES ASSUME NEW m \in Nodes, NEW k \in Nodes, NEW p \in 1..Len(toN'[m]),
                        NEW q \in 1..Len(toN'[k]), toN'[m][p] = toN'[k][q]
                 PROVE  m = k /\ p = q
      OBVIOUS
    <3> DEFINE a == IF m = n THEN p + 1 ELSE p
               b == IF k = n THEN q + 1 ELSE q
    <3>1. a \in 1..Len(toN[m]) /\ toN'[m][p] = toN[m][a]
      BY <1>2, QueuedAfterAnswer
    <3>2. b \in 1..Len(toN[k]) /\ toN'[k][q] = toN[k][b]
      BY <1>2, QueuedAfterAnswer
    <3> HIDE DEF a, b
    <3>3. \A c \in 1..Len(toN[m]), d \in 1..Len(toN[k]) : toN[m][c] = toN[k][d] => m = k /\ c = d
      OBVIOUS
    <3>4. toN[m][a] = toN[k][b]
      BY <3>1, <3>2
    <3>5. m = k /\ a = b
      BY ONLY <3>1, <3>2, <3>3, <3>4
    <3> QED
      BY <3>5 DEF a, b
  <2>3. /\ Queued' \subseteq Queued \ {Head(toN[n])} /\ Head(toN[n]) \in Queued
        /\ Answers' = Answers \cup {Head(toN[n])} /\ Sending' = Sending
    BY <1>2, TokensAfterAnswer
  <2> QED
    BY <2>1, <2>2, <2>3
<1>3. ASSUME NEW n \in Nodes, NLeave(n) PROVE OneAnswer'
  <2>1. \A m \in Nodes : toN'[m] = toN[m] \/ toN'[m] = <<>>
    BY <1>3 DEF NLeave, Types, QueueTypes
  <2>2. \A m \in Nodes : \A p \in 1..Len(toN'[m]) : p \in 1..Len(toN[m]) /\ toN'[m][p] = toN[m][p]
    BY <2>1
  <2>3. Queued' \subseteq Queued
    BY <2>2 DEF Queued
  <2>4. pending' = pending /\ Sending' = Sending /\ Answers' = Answers
    BY <1>3 DEF NLeave, Sending, Answers, ricVars, iappVars
  <2> QED
    BY <2>2, <2>3, <2>4
<1>4. ASSUME NEW n \in Nodes, NEW i \in Ids, NIndicate(n, i) PROVE OneAnswer'
  <2>1. Answers' = Answers
    BY <1>4, TokensAfterRest
  <2>2. UNCHANGED <<toN, pending, ipc, ireq, iid>>
    BY <1>4 DEF NIndicate, msgVars, ricVars, iappVars
  <2> QED
    BY <2>1, <2>2 DEF Sending, Queued
<1>5. ASSUME NEW t \in tasks, TStop(t) PROVE OneAnswer'
  <2>1. /\ <<t.op, t.i>> \in Answers /\ Answers' = Answers \ {<<t.op, t.i>>}
        /\ Sending' = Sending /\ Queued' = Queued
        /\ pending' = pending \ {<<t.op, t.i>>}
    BY <1>5, TokensAfterStop
  <2>2. toN' = toN
    BY <1>5 DEF TStop, Fail, msgVars
  <2> QED
    BY <2>1, <2>2
<1>6. ASSUME NEW t \in tasks, TFind(t) \/ TSend(t) \/ TRemove(t) PROVE OneAnswer'
  <2>1. Answers' = Answers
    BY <1>6, TokensAfterFind, TokensAfterRest
  <2>2. UNCHANGED <<toN, pending, ipc, ireq, iid>>
    BY <1>6 DEF TFind, TSend, TRemove, Fail, msgVars, ricVars, iappVars
  <2> QED
    BY <2>1, <2>2 DEF Sending, Queued
<1>7. CASE IForward
  <2>1. IAppStep /\ toN' = toN
    BY <1>7 DEF IAppStep, IForward, msgVars
  <2>2. /\ Answers' = Answers /\ Queued' = Queued /\ Sending = {}
        /\ Sending' = {<<ireq.op, nextId>>}
        /\ pending' = pending \cup {<<ireq.op, nextId>>}
    BY <1>7, <2>1, TokensAfterForward
  <2>3. <<ireq.op, nextId>> \notin pending
    BY DEF Issued, Types, TableTypes
  <2> QED
    BY <2>1, <2>2, <2>3
<1>8. ASSUME NEW d \in ilist, IForwardDelete(d) PROVE OneAnswer'
  <2>1. IAppStep /\ toN' = toN
    BY <1>8 DEF IAppStep, IForwardDelete, msgVars
  <2>2. /\ Answers' = Answers /\ Queued' = Queued /\ Sending = {}
        /\ \/ Sending' = {} /\ pending' = pending
           \/ /\ Sending' = {<<"del", d[1]>>} /\ <<"del", d[1]>> \notin pending
              /\ pending' = pending \cup {<<"del", d[1]>>}
    BY <1>8, <2>1, TokensAfterForward
  <2> QED
    BY <2>1, <2>2
<1>9. CASE IAdd \/ (\E m \in toIApp : IRequest(m) \/ IDelete(m) \/ IGone(m))
  <2>1. IAppStep /\ toN' = toN
    BY <1>9 DEF IAppStep, IAdd, IRequest, IDelete, IGone, msgVars, Fail
  <2>2. /\ Answers' = Answers /\ Sending = {} /\ Sending' = {}
        /\ Queued' = Queued /\ pending' = pending
    BY <1>9, <2>1, TokensAfterForward
  <2> QED
    BY <2>1, <2>2
<1>10. CASE LoopStep \/ Deliver \/ \E x \in XApps : XStep(x)
  <2>1. toN' = toN
    BY <1>10, LoopFrame, DeliverFrame, XAppFrame DEF msgVars
  <2> QED
    BY <1>10, <2>1, TokensElsewhere
<1> QED
  BY <1>1, <1>2, <1>3, <1>4, <1>5, <1>6, <1>7, <1>8, <1>9, <1>10
  DEF Next, IAppStep, TaskStep, NodeStep

-----------------------------------------------------------------------------
(* An answer for every pending event *)

\* While every node is connected, a pending event has an answer to come.
Awaited == (\A n \in Nodes : up[n]) => pending \subseteq Tokens

\* A connected node gets the request; what waited before waits on.
LEMMA QueuedWhenConnected ==
  ASSUME Types, ISend, abort' = "none", up[ireq.n]
  PROVE  Queued \cup {<<ireq.op, iid>>} \subseteq Queued'
<1> DEFINE N == ireq.n
           e == <<ireq.op, iid>>
<1>1. N \in Nodes /\ e \in Ops \X Ids
  BY Entry DEF Types, IAppTypes, ISend, Ops
<1>2. toN \in [Nodes -> Seq(Ops \X Ids)]
  BY DEF Types, QueueTypes
<1>3. toN' = [toN EXCEPT ![N] = Append(toN[N], e)]
  BY <1>2 DEF ISend, Fail
<1> HIDE DEF N, e
<1>4. Len(toN'[N]) = Len(toN[N]) + 1 /\ Len(toN[N]) \in Nat
  BY <1>1, <1>2, <1>3
<1>5. ~UNCHANGED toN
  BY <1>4
<1>6. /\ \A m \in Nodes : Len(toN'[m]) = IF m = N THEN Len(toN[m]) + 1 ELSE Len(toN[m])
      /\ \A m \in Nodes : \A q \in 1..Len(toN[m]) : toN'[m][q] = toN[m][q]
      /\ toN'[N][Len(toN[N]) + 1] = e
  BY <1>5, QueuedAfterSend DEF N, e
<1>7. e \in Queued'
  <2>1. Len(toN[N]) + 1 \in 1..Len(toN'[N])
    BY <1>4
  <2> QED
    BY <1>1, <1>6, <2>1 DEF Queued
<1>8. ASSUME NEW k \in Queued PROVE k \in Queued'
  <2>1. PICK m \in Nodes : \E q \in 1..Len(toN[m]) : k = toN[m][q]
    BY <1>8 DEF Queued
  <2>2. PICK q \in 1..Len(toN[m]) : k = toN[m][q]
    BY <2>1
  <2>3. q \in 1..Len(toN'[m]) /\ toN'[m][q] = k
    <3>1. Len(toN[m]) \in Nat
      BY Positions
    <3> QED
      BY <1>6, <2>2, <3>1
  <2>4. k \in Ops \X Ids
    BY <1>8 DEF Queued
  <2> QED
    BY <2>3, <2>4 DEF Queued
<1> QED
  BY <1>7, <1>8 DEF N, e

\* Only the request answered leaves the association.
LEMMA QueuedButAnswered ==
  ASSUME Types, NEW n \in Nodes, NAnswer(n)
  PROVE  Queued \subseteq Queued' \cup {Head(toN[n])}
<1> SUFFICES ASSUME NEW k \in Queued, k # Head(toN[n]) PROVE k \in Queued'
  OBVIOUS
<1>1. PICK m \in Nodes : \E q \in 1..Len(toN[m]) : k = toN[m][q]
  BY DEF Queued
<1>2. PICK q \in 1..Len(toN[m]) : k = toN[m][q]
  BY <1>1
<1>3. k \in Ops \X Ids
  BY DEF Queued
<1>4. CASE m # n
  <2>1. toN'[m] = toN[m]
    BY <1>4, QueuedAfterAnswer
  <2> QED
    BY <1>2, <1>3, <2>1 DEF Queued
<1>5. CASE m = n
  <2>1. toN[n] \in Seq(Ops \X Ids) /\ toN[n] # <<>> /\ toN'[n] = Tail(toN[n])
    BY DEF Types, QueueTypes, NAnswer
  <2>2. q # 1
    BY <1>2, <1>5, QueuedAfterAnswer
  <2>3. q - 1 \in 1..Len(Tail(toN[n])) /\ Tail(toN[n])[q - 1] = toN[n][q]
    BY <1>5, <2>1, <2>2
  <2> QED
    BY <1>2, <1>3, <1>5, <2>1, <2>3 DEF Queued
<1> QED
  BY <1>4, <1>5

\* The answer to a pending event moves on, or its node has left.
LEMMA AwaitedStep ==
  ASSUME Types, OneAnswer, Awaited, Next, abort' = "none"
  PROVE  Awaited'
<1> SUFFICES ASSUME (\A n \in Nodes : up[n])' PROVE pending' \subseteq Tokens'
  BY DEF Awaited
<1>0. (\A n \in Nodes : ~NLeave(n)) /\ \A n \in Nodes : up[n]
  <2>1. up \in [Nodes -> BOOLEAN]
    BY DEF Types, LoopTypes
  <2>2. ASSUME NEW n \in Nodes, NLeave(n) PROVE FALSE
    BY <2>1, <2>2 DEF NLeave
  <2>3. up' = up
    BY <2>2, LoopWriters, LoopFrame DEF nodeVars
  <2> QED
    BY <2>2, <2>3
<1>1. pending \subseteq Sending \cup Queued \cup Answers
  BY <1>0 DEF Awaited, Tokens
<1> USE DEF Tokens
<1>2. CASE ISend
  <2>1. IAppStep /\ ireq.n \in Nodes
    BY <1>2, Entry DEF IAppStep, Types, IAppTypes, ISend
  <2>2. Queued \cup {<<ireq.op, iid>>} \subseteq Queued'
    BY <1>0, <1>2, <2>1, QueuedWhenConnected
  <2>3. Answers' = Answers /\ Sending = {<<ireq.op, iid>>} /\ pending' = pending
    BY <1>2, <2>1, TokensAfterForward
  <2> QED
    BY <1>1, <2>2, <2>3
<1>3. ASSUME NEW n \in Nodes, NAnswer(n) PROVE pending' \subseteq Tokens'
  <2>1. pending' = pending
    BY <1>3 DEF NAnswer, ricVars
  <2>2. Answers' = Answers \cup {Head(toN[n])} /\ Sending' = Sending
    BY <1>3, TokensAfterAnswer
  <2>3. Queued \subseteq Queued' \cup {Head(toN[n])}
    BY <1>3, QueuedButAnswered
  <2> QED
    BY <1>1, <2>1, <2>2, <2>3
<1>4. ASSUME NEW n \in Nodes, NEW i \in Ids, NIndicate(n, i) PROVE pending' \subseteq Tokens'
  <2>1. Answers' = Answers
    BY <1>4, TokensAfterRest
  <2>2. UNCHANGED <<toN, pending, ipc, ireq, iid>>
    BY <1>4 DEF NIndicate, msgVars, ricVars, iappVars
  <2> QED
    BY <1>1, <2>1, <2>2 DEF Sending, Queued
<1>5. ASSUME NEW t \in tasks, TStop(t) PROVE pending' \subseteq Tokens'
  <2>1. /\ Answers' = Answers \ {<<t.op, t.i>>}
        /\ Sending' = Sending /\ Queued' = Queued
        /\ pending' = pending \ {<<t.op, t.i>>}
    BY <1>5, TokensAfterStop
  <2> QED
    BY <1>1, <2>1
<1>6. ASSUME NEW t \in tasks, TFind(t) \/ TSend(t) \/ TRemove(t) PROVE pending' \subseteq Tokens'
  <2>1. Answers' = Answers
    BY <1>6, TokensAfterFind, TokensAfterRest
  <2>2. UNCHANGED <<toN, pending, ipc, ireq, iid>>
    BY <1>6 DEF TFind, TSend, TRemove, Fail, msgVars, ricVars, iappVars
  <2> QED
    BY <1>1, <2>1, <2>2 DEF Sending, Queued
<1>7. CASE IForward
  <2>1. IAppStep
    BY <1>7 DEF IAppStep
  <2>2. /\ Answers' = Answers /\ Queued' = Queued /\ Sending = {}
        /\ Sending' = {<<ireq.op, nextId>>}
        /\ pending' = pending \cup {<<ireq.op, nextId>>}
    BY <1>7, <2>1, TokensAfterForward
  <2> QED
    BY <1>1, <2>2
<1>8. ASSUME NEW d \in ilist, IForwardDelete(d) PROVE pending' \subseteq Tokens'
  <2>1. IAppStep
    BY <1>8 DEF IAppStep
  <2>2. /\ Answers' = Answers /\ Queued' = Queued /\ Sending = {}
        /\ \/ Sending' = {} /\ pending' = pending
           \/ /\ Sending' = {<<"del", d[1]>>} /\ <<"del", d[1]>> \notin pending
              /\ pending' = pending \cup {<<"del", d[1]>>}
    BY <1>8, <2>1, TokensAfterForward
  <2> QED
    BY <1>1, <2>2
<1>9. CASE IAdd \/ (\E m \in toIApp : IRequest(m) \/ IDelete(m) \/ IGone(m))
  <2>1. IAppStep
    BY <1>9 DEF IAppStep
  <2>2. /\ Answers' = Answers /\ Sending = {} /\ Sending' = {}
        /\ Queued' = Queued /\ pending' = pending
    BY <1>9, <2>1, TokensAfterForward
  <2> QED
    BY <1>1, <2>2
<1>10. CASE LoopStep \/ Deliver \/ \E x \in XApps : XStep(x)
  BY <1>1, <1>10, TokensElsewhere
<1> QED
  BY <1>0, <1>2, <1>3, <1>4, <1>5, <1>6, <1>7, <1>8, <1>9, <1>10
  DEF Next, IAppStep, TaskStep, NodeStep

\* Two finite sets without a common member are counted apart.
LEMMA CountedApart ==
  ASSUME NEW S, NEW T, IsFiniteSet(S), IsFiniteSet(T), S \cap T = {}
  PROVE  IsFiniteSet(S \cup T) /\ Cardinality(S \cup T) = Cardinality(S) + Cardinality(T)
<1>1. /\ IsFiniteSet(S \cup T) /\ Cardinality(S \cap T) = 0
      /\ Cardinality(S \cup T) = Cardinality(S) + Cardinality(T) - Cardinality(S \cap T)
  BY FS_Union, FS_EmptySet
<1>2. Cardinality(S) \in Nat /\ Cardinality(T) \in Nat
  BY FS_CardinalityType
<1> QED
  BY <1>1, <1>2

\* What waits is counted by its places.
LEMMA SlotsCounted ==
  ASSUME Types, OneAnswer, IsFiniteSet(Queued)
  PROVE  AtNodes = Queued /\ Cardinality(Slots) = Cardinality(Queued)
<1> DEFINE at == [s \in Slots |-> toN[s[1]][s[2]]]
<1>1. \A s : s \in Slots <=> \E n \in Nodes : \E p \in 1..Len(toN[n]) : s = <<n, p>>
  <2>1. \A n \in Nodes : DOMAIN toN[n] = 1..Len(toN[n])
    BY DEF Types, QueueTypes
  <2> QED
    BY <2>1 DEF Slots
<1>2. AtNodes = Queued
  <2>1. ASSUME NEW k \in Queued PROVE k \in AtNodes
    <3>1. PICK n \in Nodes : \E p \in 1..Len(toN[n]) : k = toN[n][p]
      BY <2>1 DEF Queued
    <3>2. PICK p \in 1..Len(toN[n]) : k = toN[n][p]
      BY <3>1
    <3>3. <<n, p>> \in Slots
      BY <1>1
    <3> QED
      BY <3>2, <3>3 DEF AtNodes
  <2>2. ASSUME NEW s \in Slots PROVE toN[s[1]][s[2]] \in Queued
    <3>1. PICK n \in Nodes : \E p \in 1..Len(toN[n]) : s = <<n, p>>
      BY <1>1, <2>2
    <3>2. PICK p \in 1..Len(toN[n]) : s = <<n, p>>
      BY <3>1
    <3> QED
      BY <3>2, Positions
  <2> QED
    BY <2>1, <2>2 DEF AtNodes
<1>3. at \in Injection(Slots, Queued)
  <2>1. at \in [Slots -> Queued]
    BY <1>2 DEF AtNodes
  <2>2. ASSUME NEW s \in Slots, NEW r \in Slots, at[s] = at[r] PROVE s = r
    <3>1. PICK n \in Nodes, m \in Nodes : /\ \E p \in 1..Len(toN[n]) : s = <<n, p>>
                                          /\ \E q \in 1..Len(toN[m]) : r = <<m, q>>
      BY <1>1
    <3>2. PICK p \in 1..Len(toN[n]), q \in 1..Len(toN[m]) : s = <<n, p>> /\ r = <<m, q>>
      BY <3>1
    <3>3. toN[n][p] = toN[m][q]
      BY <2>2, <3>2
    <3>4. n = m /\ p = q
      BY <3>3 DEF OneAnswer
    <3> QED
      BY <3>2, <3>4
  <2> HIDE DEF at
  <2> QED
    BY <2>1, <2>2 DEF Injection, IsInjective
<1>4. at \in Surjection(Slots, Queued)
  <2>1. \A k \in Queued : \E s \in Slots : at[s] = k
    BY <1>2 DEF AtNodes
  <2>2. at \in [Slots -> Queued]
    BY <1>3 DEF Injection
  <2> HIDE DEF at
  <2> QED
    BY <2>1, <2>2 DEF Surjection
<1> HIDE DEF at
<1>5. IsFiniteSet(Slots)
  BY <1>3, FS_Injection
<1> QED
  BY <1>2, <1>3, <1>4, <1>5, FS_Surjection

\* The pending events are the requests that have their one answer to come.
LEMMA Accounted ==
  ASSUME Types, OneAnswer, Awaited
  PROVE  PendingAccounted
<1> SUFFICES ASSUME \A n \in Nodes : up[n]
             PROVE  /\ pending = Sending \cup Answers \cup AtNodes
                    /\ Cardinality(pending) = Cardinality(Sending) + Cardinality(Answers) + Cardinality(Slots)
  BY DEF PendingAccounted
<1>1. pending = (Sending \cup Answers) \cup Queued
  BY DEF Awaited, OneAnswer, Tokens
<1>2. IsFiniteSet(pending)
  <2>1. IsFiniteSet(Ids)
    BY BoundsAssumption, FS_Interval DEF Ids
  <2>3. IsFiniteSet(Ops)
    <3>1. IsFiniteSet({"sub"}) /\ IsFiniteSet({"sub"} \cup {"del"})
      BY FS_EmptySet, FS_AddElement, FS_Singleton
    <3>2. IsFiniteSet(({"sub"} \cup {"del"}) \cup {"ctrl"})
      BY <3>1, FS_AddElement
    <3>3. Ops = ({"sub"} \cup {"del"}) \cup {"ctrl"}
      BY DEF Ops
    <3> QED
      BY <3>2, <3>3
  <2>2. IsFiniteSet(Ops \X Ids)
    BY <2>1, <2>3, FS_Product
  <2> QED
    BY <2>2, FS_Subset DEF Types, TableTypes
<1>3. IsFiniteSet(Sending) /\ IsFiniteSet(Answers) /\ IsFiniteSet(Queued)
  BY <1>1, <1>2, FS_Subset
<1>4. Sending \cap Answers = {} /\ (Sending \cup Answers) \cap Queued = {}
  BY DEF OneAnswer
<1>5. Cardinality(Sending \cup Answers) = Cardinality(Sending) + Cardinality(Answers)
  BY <1>3, <1>4, CountedApart
<1>6. Cardinality((Sending \cup Answers) \cup Queued) = Cardinality(Sending \cup Answers) + Cardinality(Queued)
  <2>1. IsFiniteSet(Sending \cup Answers)
    BY <1>3, FS_Union
  <2> QED
    BY <1>3, <1>4, <2>1, CountedApart
<1>7. AtNodes = Queued /\ Cardinality(Slots) = Cardinality(Queued)
  BY <1>3, SlotsCounted
<1> QED
  BY <1>1, <1>5, <1>6, <1>7

-----------------------------------------------------------------------------
(* Whom a request id belongs to *)

\* Only an answer whose timer was stopped is looked up.
LEMMA FindingGrows ==
  ASSUME Types, Next, abort' = "none"
  PROVE  Finding' \subseteq Finding \cup Answers
<1>1. CASE IAppStep
  BY <1>1, TokensAfterForward
<1>2. CASE LoopStep \/ Deliver \/ \E x \in XApps : XStep(x)
  BY <1>2, TokensElsewhere
<1>3. ASSUME NEW t \in tasks, TaskStep(t) PROVE Finding' \subseteq Finding \cup Answers
  <2>1. CASE TStop(t)
    BY <2>1, TokensAfterStop
  <2>2. CASE TFind(t)
    BY <2>2, TokensAfterFind
  <2>3. CASE TSend(t) \/ TRemove(t)
    BY <2>3, TokensAfterRest
  <2> QED
    BY <1>3, <2>1, <2>2, <2>3 DEF TaskStep
<1>4. ASSUME NEW n \in Nodes, NodeStep(n) PROVE Finding' \subseteq Finding \cup Answers
  <2>1. CASE NAnswer(n)
    BY <2>1 DEF NAnswer, Finding
  <2>2. CASE NLeave(n)
    BY <2>2 DEF NLeave, Finding
  <2>3. ASSUME NEW i \in Ids, NIndicate(n, i) PROVE Finding' \subseteq Finding \cup Answers
    BY <2>3, TokensAfterRest
  <2> QED
    BY <1>4, <2>1, <2>2, <2>3 DEF NodeStep
<1> QED
  BY <1>1, <1>2, <1>3, <1>4 DEF Next

\* While a new request is being recorded.
LEMMA AddingStep ==
  ASSUME Types, IAppStep, abort' = "none"
  PROVE  /\ IForward => ~Adding /\ Adding'
         /\ ISend => (Adding' <=> Adding) /\ iid' = iid /\ ireq' = ireq
         /\ IAdd => Adding /\ ~Adding'
         /\ \A m \in toIApp : IRequest(m) \/ IDelete(m) \/ IGone(m) => ~Adding /\ ~Adding'
         /\ \A d \in ilist : IForwardDelete(d) => ~Adding /\ ~Adding'
<1> USE DEF Adding
<1>1. IForward => ~Adding /\ Adding'
  BY Entry DEF IForward, Types, IAppTypes
<1>2. ISend => (Adding' <=> Adding) /\ iid' = iid /\ ireq' = ireq
  BY DEF ISend, Fail
<1>3. IAdd => Adding /\ ~Adding'
  BY Entry DEF IAdd, Types, IAppTypes, Fail
<1>4. ASSUME NEW m \in toIApp, IRequest(m) PROVE ~Adding /\ ~Adding'
  BY <1>4 DEF IRequest, Fail
<1>5. ASSUME NEW m \in toIApp, IDelete(m) PROVE ~Adding /\ ~Adding'
  BY <1>5 DEF IDelete, Fail
<1>6. ASSUME NEW m \in toIApp, IGone(m) PROVE ~Adding /\ ~Adding'
  BY <1>6 DEF IGone
<1>7. ASSUME NEW d \in ilist, IForwardDelete(d) PROVE ~Adding /\ ~Adding'
  <2>1. ipc = "del" /\ (ipc' \in {"epoll", "del"} \/ ireq'.op = "del")
    BY <1>7 DEF IForwardDelete
  <2> QED
    BY <2>1
<1> QED
  BY <1>1, <1>2, <1>3, <1>4, <1>5, <1>6, <1>7

\* Ids are given out in turn.
LEMMA NextIdGrows ==
  ASSUME Types, Next
  PROVE  /\ nextId \in Nat /\ nextId' \in Nat /\ nextId' >= nextId
         /\ IForward => nextId' = nextId + 1
BY IdWriters, BoundsAssumption DEF Types, TableTypes, IForward

\* No RIC request id is used before it is given out, and the one being recorded is not
\* in the map.
LEMMA IssuedStep ==
  ASSUME Types, OneAnswer, Issued, Next, abort' = "none"
  PROVE  Issued'
<1>0. nextId \in Nat /\ nextId' \in Nat /\ nextId' >= nextId /\ iid \in Nat
  BY NextIdGrows, BoundsAssumption DEF Types, IAppTypes, Ids
<1>1. \A k \in pending' \cup Finding' : k[2] < nextId'
  <2>1. \A k \in pending \cup Finding : k[2] < nextId' /\ k[2] \in Nat
    <3>1. \A k \in pending \cup Finding : k[2] \in Ids
      BY DEF Types, TableTypes, Finding, TaskTypes, Tasks
    <3> QED
      BY <1>0, <3>1 DEF Issued, Ids
  <2>2. Finding' \subseteq Finding \cup pending
    BY FindingGrows DEF OneAnswer, Tokens
  <2>3. CASE UNCHANGED pending
    BY <2>1, <2>2, <2>3
  <2>4. CASE IForward
    <3>1. nextId < nextId' /\ pending' = pending \cup {<<ireq.op, nextId>>}
      BY <1>0, <2>4, NextIdGrows DEF IForward
    <3> QED
      BY <2>1, <2>2, <3>1
  <2>5. ASSUME NEW d \in ilist, IForwardDelete(d) PROVE \A k \in pending' \cup Finding' : k[2] < nextId'
    <3>1. pending' \subseteq pending \cup {<<"del", d[1]>>}
      BY <2>5 DEF IForwardDelete
    <3>2. d[1] < nextId'
      <4>1. d[1] < nextId /\ d[1] \in Nat
        BY DEF Issued, Types, IAppTypes, Ids
      <4> QED
        BY <1>0, <4>1
    <3> QED
      BY <2>1, <2>2, <3>1, <3>2
  <2>6. ASSUME NEW t \in tasks, TStop(t) PROVE \A k \in pending' \cup Finding' : k[2] < nextId'
    <3>1. pending' \subseteq pending
      BY <2>6, TokensAfterStop
    <3> QED
      BY <2>1, <2>2, <3>1
  <2> QED
    BY <2>3, <2>4, <2>5, <2>6, PendingWriters
<1>2. \A i \in Ids : i >= nextId' => map'[i] = NoEntry
  <2>1. \A i \in Ids : i >= nextId' => i >= nextId /\ map[i] = NoEntry
    BY <1>0, BoundsAssumption DEF Issued, Ids
  <2>2. CASE IAdd
    <3>1. \A i \in Ids \ {iid} : map'[i] = map[i]
      BY <2>2 DEF IAdd, Types, TableTypes, Fail
    <3>2. iid < nextId'
      BY <1>0 DEF Issued
    <3>3. \A i \in Ids : i >= nextId' => i # iid
      BY <1>0, <3>2 DEF Ids
    <3> QED
      BY <2>1, <3>1, <3>3
  <2>3. ASSUME NEW t \in tasks, TRemove(t) PROVE \A i \in Ids : i >= nextId' => map'[i] = NoEntry
    BY <2>1, <2>3 DEF TRemove, Fail, ricVars
  <2> QED
    BY <2>1, <2>2, <2>3, MapWriters
<1>3. \A d \in ilist' : d[1] < nextId'
  <2>1. \A i \in Ids : i < nextId => i < nextId'
    BY <1>0 DEF Ids
  <2>2. \A i \in Ids : map[i] # NoEntry => i < nextId
    BY <1>0 DEF Issued, Ids
  <2>3. \A d \in ilist : d[1] < nextId'
    BY <2>1 DEF Issued, Types, IAppTypes
  <2>4. CASE ilist' \subseteq ilist
    BY <2>3, <2>4
  <2>5. ASSUME NEW m \in toIApp, IDelete(m) PROVE \A d \in ilist' : d[1] < nextId'
    <3>1. \A i \in Found(m) : i \in Ids /\ map[i] # NoEntry
      BY DEF Found, Matches
    <3>2. \A d \in ilist' : d[1] \in Found(m)
      BY <2>5 DEF IDelete, Fail
    <3> QED
      BY <2>1, <2>2, <3>1, <3>2
  <2>6. ASSUME NEW m \in toIApp, IGone(m) PROVE \A d \in ilist' : d[1] < nextId'
    <3>1. \A d \in ilist' : d[1] \in Ids /\ map[d[1]] # NoEntry
      BY <2>6 DEF IGone, NoEntry
    <3> QED
      BY <2>1, <2>2, <3>1
  <2> QED
    BY <2>4, <2>5, <2>6, IAppWriters DEF IAppStep, IRequest, IForward, ISend, IAdd,
       IForwardDelete, Fail, iappVars
<1>4. iid' < nextId'
  <2>1. CASE iid' = iid
    BY <1>0, <2>1 DEF Issued
  <2>2. CASE IForward
    BY <1>0, <2>2, NextIdGrows DEF IForward
  <2>3. ASSUME NEW d \in ilist, IForwardDelete(d) PROVE iid' < nextId'
    BY <1>0, <2>3 DEF IForwardDelete, Issued, Types, IAppTypes, Ids
  <2> QED
    BY <2>1, <2>2, <2>3, IAppWriters DEF IAppStep, IRequest, IDelete, IGone, ISend,
       IAdd, Fail, iappVars
<1>5. Adding' => map'[iid'] = NoEntry
  <2>1. CASE IForward
    <3>1. iid' = nextId /\ map' = map /\ nextId \in Ids
      BY <2>1 DEF IForward, Types, IAppTypes
    <3> QED
      BY <1>0, <3>1 DEF Issued
  <2>2. ASSUME Adding', ~IForward PROVE Adding /\ iid' = iid /\ ~IAdd
    <3>1. CASE UNCHANGED <<wlock, iappVars>>
      <4>1. Adding /\ iid' = iid /\ ipc' = ipc
        BY <2>2, <3>1 DEF Adding, iappVars
      <4> QED
        BY <4>1 DEF IAdd, Fail
    <3>2. CASE IAppStep
      <4>1. ISend
        BY <2>2, <3>2, AddingStep DEF IAppStep
      <4>2. ~IAdd
        BY <4>1 DEF ISend, IAdd
      <4> QED
        BY <2>2, <3>2, <4>1, <4>2, AddingStep
    <3> QED
      BY <3>1, <3>2, IAppWriters
  <2>3. CASE ~IForward /\ Adding'
    <3>1. Adding /\ iid' = iid /\ map[iid] = NoEntry /\ iid \in Ids
      BY <2>2, <2>3 DEF Issued, Types, IAppTypes, Adding
    <3>2. \A t \in tasks : TRemove(t) => map'[iid] = NoEntry
      BY <3>1 DEF TRemove, Fail, ricVars
    <3> QED
      BY <2>2, <2>3, <3>1, <3>2, MapWriters
  <2> QED
    BY <2>1, <2>3
<1> QED
  BY <1>1, <1>2, <1>3, <1>4, <1>5 DEF Issued

\* An id is given an owner once, and loses it by rm_map_ric_id.
LEMMA OwnerStep ==
  ASSUME Types, Next, abort' = "none", NEW i \in Ids
  PROVE  /\ IForward => Owner(i)' = IF i = nextId THEN ireq ELSE Owner(i)
         /\ \A t \in tasks : TRemove(t) => Owner(i)' = IF i \in Owned(t.to) THEN NoEntry ELSE Owner(i)
         /\ ~IForward /\ ~(\E t \in tasks : TRemove(t)) => Owner(i)' = Owner(i)
<1>1. ASSUME IForward PROVE Owner(i)' = IF i = nextId THEN ireq ELSE Owner(i)
  <2>1. ~Adding /\ Adding'
    BY <1>1, AddingStep DEF IAppStep
  <2>2. iid' = nextId /\ ireq' = ireq /\ map' = map
    BY <1>1 DEF IForward
  <2> QED
    BY <2>1, <2>2 DEF Owner
<1>2. ASSUME NEW t \in tasks, TRemove(t)
      PROVE  Owner(i)' = IF i \in Owned(t.to) THEN NoEntry ELSE Owner(i)
  <2>1. ~Adding
    BY <1>2 DEF TRemove, Adding, Types, IAppTypes
  <2>2. ~Adding' /\ map'[i] = IF i \in Owned(t.to) THEN NoEntry ELSE map[i]
    BY <1>2, <2>1 DEF TRemove, Adding, iappVars, Fail
  <2> QED
    BY <2>1, <2>2 DEF Owner
<1>3. ASSUME ~IForward, ~(\E t \in tasks : TRemove(t)) PROVE Owner(i)' = Owner(i)
  <2>1. CASE IAdd
    <3>1. Adding /\ ~Adding'
      BY <2>1, AddingStep DEF IAppStep
    <3>2. map'[i] = IF i = iid THEN ireq ELSE map[i]
      BY <2>1 DEF IAdd, Types, TableTypes, Fail
    <3> QED
      BY <3>1, <3>2 DEF Owner
  <2>2. CASE ~IAdd
    <3>1. map' = map
      BY <1>3, <2>2, MapWriters
    <3>2. CASE UNCHANGED <<wlock, iappVars>>
      BY <3>1, <3>2 DEF Owner, Adding, iappVars
    <3>3. CASE ISend
      <4>1. (Adding' <=> Adding) /\ iid' = iid /\ ireq' = ireq
        BY <3>3, AddingStep DEF IAppStep
      <4> QED
        BY <3>1, <4>1 DEF Owner
    <3>4. CASE (\E m \in toIApp : IRequest(m) \/ IDelete(m) \/ IGone(m)) \/ \E d \in ilist : IForwardDelete(d)
      <4>1. ~Adding /\ ~Adding'
        BY <3>4, AddingStep DEF IAppStep
      <4> QED
        BY <3>1, <4>1 DEF Owner
    <3> QED
      BY <1>3, <2>2, <3>2, <3>3, <3>4, IAppWriters DEF IAppStep
  <2> QED
    BY <2>1, <2>2
<1> QED
  BY <1>1, <1>2, <1>3

-----------------------------------------------------------------------------
(* The xApps' request ids: each names one request *)

Asks       == {m \in toIApp : m.op \in {"sub", "ctrl"}}
Busy       == ipc \in {"fwd", "send", "add"} /\ ireq.op # "del"
Same(a, b) == a.x = b.x /\ a.l = b.l

Keys ==
  /\ \A m \in Asks : m.l < xnext[m.x]
  /\ Busy => ireq.l < xnext[ireq.x]
  /\ \A i \in Ids : map[i] # NoEntry => map[i].l < xnext[map[i].x]
  /\ \A a, b \in Asks : Same(a, b) => a = b
  /\ Busy => \A a \in Asks : ~Same(a, ireq)
  /\ \A i \in Ids : map[i] # NoEntry => \A a \in Asks : ~Same(a, map[i])
  /\ \A i \in Ids : map[i] # NoEntry => (Busy => ~Same(ireq, map[i]))
  /\ \A i, j \in Ids : map[i] # NoEntry /\ map[j] # NoEntry /\ Same(map[i], map[j]) => i = j

\* Request id l of xApp x was never that of a control request.
NoCtrl(x, l) ==
  /\ l < xnext[x]
  /\ \A a \in Asks : a.x = x /\ a.l = l => a.op = "sub"
  /\ Busy /\ ireq.x = x /\ ireq.l = l => ireq.op = "sub"
  /\ \A i \in Ids : map[i] # NoEntry /\ map[i].x = x /\ map[i].l = l => map[i].op = "sub"

\* What has an xApp's key is an entry.
LEMMA AsksTyped ==
  ASSUME Types
  PROVE  /\ Asks \subseteq Entries
         /\ Busy => ireq \in Entries
         /\ \A i \in Ids : map[i] # NoEntry => map[i] \in Entries
BY Asking DEF Types, MessageTypes, IAppTypes, TableTypes, Asks, Busy

\* A step but these three adds no key.
LEMMA KeysSame ==
  ASSUME Types, Next, abort' = "none",
         ~\E x \in XApps, n \in Nodes, op \in {"sub", "ctrl"} : XRequest(x, n, op),
         ~\E m \in toIApp : IRequest(m),
         ~IAdd
  PROVE  /\ xnext' = xnext
         /\ Asks' \subseteq Asks
         /\ Busy' => Busy /\ ireq' = ireq
         /\ \A i \in Ids : map'[i] \in {map[i], NoEntry}
<1>1. xnext' = xnext
  BY XAppWriters DEF XDelete, XDie, XReceive, xVars
<1>2. Asks' \subseteq Asks
  <2>1. ASSUME NEW x \in XApps, NEW l \in Locals, XDelete(x, l) PROVE Asks' \subseteq Asks
    <3>1. \E m : m.op = "del" /\ toIApp' = toIApp \cup {m}
      BY <2>1 DEF XDelete
    <3> QED
      BY <3>1 DEF Asks
  <2>2. ASSUME NEW m \in toX, SendFailed(m) PROVE Asks' \subseteq Asks
    <3>1. \E k : k.op = "gone" /\ toIApp' = toIApp \cup {k}
      BY <2>2 DEF SendFailed
    <3> QED
      BY <3>1 DEF Asks
  <2>3. ASSUME NEW m \in toIApp, IDelete(m) \/ IGone(m) PROVE Asks' \subseteq Asks
    BY <2>3 DEF IDelete, IGone, Asks, Fail, msgVars
  <2>4. CASE toIApp' = toIApp
    BY <2>4 DEF Asks
  <2> QED
    BY <2>1, <2>2, <2>3, <2>4, RequestWriters
<1>3. Busy' => Busy /\ ireq' = ireq
  <2>1. CASE UNCHANGED <<wlock, iappVars>>
    BY <2>1 DEF Busy, iappVars
  <2>2. CASE IForward
    BY <2>2 DEF IForward, Busy
  <2>3. CASE ISend
    BY <2>3 DEF ISend, Busy, Fail
  <2>4. ASSUME NEW m \in toIApp, IDelete(m) \/ IGone(m) PROVE ~Busy'
    <3>1. ipc' \in {"epoll", "del"}
      BY <2>4 DEF IDelete, IGone, Fail
    <3> QED
      BY <3>1 DEF Busy
  <2>5. ASSUME NEW d \in ilist, IForwardDelete(d) PROVE ~Busy'
    <3>1. ipc' \in {"epoll", "del"} \/ ireq'.op = "del"
      BY <2>5 DEF IForwardDelete
    <3> QED
      BY <3>1 DEF Busy
  <2> QED
    BY <2>1, <2>2, <2>3, <2>4, <2>5, IAppWriters DEF IAppStep
<1>4. \A i \in Ids : map'[i] \in {map[i], NoEntry}
  BY MapWriters DEF TRemove, Fail, ricVars
<1> QED
  BY <1>1, <1>2, <1>3, <1>4

\* No two requests or entries have the same xApp and request id.
LEMMA KeysStep ==
  ASSUME Types, Issued, Keys, Next, abort' = "none"
  PROVE  Keys'
<1>1. ASSUME NEW x \in XApps, NEW n \in Nodes, NEW op \in {"sub", "ctrl"}, XRequest(x, n, op)
      PROVE  Keys'
  <2> DEFINE r == [x |-> x, l |-> xnext[x], n |-> n, op |-> op]
  <2>1. Asks' = Asks \cup {r}
    BY <1>1 DEF XRequest, Asks
  <2>2. /\ Busy' = Busy /\ ireq' = ireq /\ map' = map
        /\ xnext' = [xnext EXCEPT ![x] = xnext[x] + 1]
    BY <1>1 DEF XRequest, Busy, ricVars, iappVars
  <2>3. /\ xnext \in [XApps -> 1..MaxLocal+1] /\ xnext[x] \in Nat
        /\ \A y \in XApps : xnext'[y] = IF y = x THEN xnext[y] + 1 ELSE xnext[y]
        /\ \A y \in XApps : xnext[y] \in Nat
    BY <2>2, BoundsAssumption DEF Types, XAppTypes
  <2>4. \A e \in Entries : e.x \in XApps /\ e.l \in Nat
    BY DEF Entries, Locals
  <2>5. \A e \in Entries : e.l < xnext[e.x] => e.l < xnext'[e.x] /\ ~Same(e, r) /\ ~Same(r, e)
    BY <2>3, <2>4 DEF Same
  <2>6. r.x = x /\ r.l = xnext[x] /\ xnext[x] < xnext'[x] /\ Same(r, r)
    BY <2>3 DEF Same
  <2>7. \A a \in Asks : a.l < xnext'[a.x] /\ ~Same(a, r) /\ ~Same(r, a)
    BY <2>5, AsksTyped DEF Keys
  <2>8. Busy => ireq.l < xnext'[ireq.x] /\ ~Same(r, ireq)
    BY <2>5, AsksTyped DEF Keys
  <2>9. \A i \in Ids : map[i] # NoEntry => map[i].l < xnext'[map[i].x] /\ ~Same(r, map[i])
    BY <2>5, AsksTyped DEF Keys
  <2> HIDE DEF r
  <2> QED
    BY <2>1, <2>2, <2>6, <2>7, <2>8, <2>9 DEF Keys, Same
<1>2. ASSUME NEW m \in toIApp, IRequest(m) PROVE Keys'
  <2>1. m \in Asks /\ Asks' = Asks \ {m} /\ ~Busy /\ Busy' /\ ireq' = m /\ map' = map /\ xnext' = xnext
    BY <1>2 DEF IRequest, Asks, Busy, Fail, xVars
  <2> QED
    BY <2>1 DEF Keys, Same
<1>3. CASE IAdd
  <2>1. Busy /\ ~Busy' /\ Asks' = Asks /\ xnext' = xnext /\ iid \in Ids
    BY <1>3, Entry DEF IAdd, Busy, Asks, Types, IAppTypes, Fail, msgVars, xVars
  <2>2. \A i \in Ids : map'[i] = IF i = iid THEN ireq ELSE map[i]
    BY <1>3 DEF IAdd, Types, TableTypes, Fail
  <2>3. \A a, b : Same(a, b) => Same(b, a)
    BY DEF Same
  <2> QED
    BY <2>1, <2>2, <2>3 DEF Keys
<1>4. CASE ~(\E x \in XApps, n \in Nodes, op \in {"sub", "ctrl"} : XRequest(x, n, op))
           /\ ~(\E m \in toIApp : IRequest(m)) /\ ~IAdd
  BY <1>4, KeysSame DEF Keys
<1> QED
  BY <1>1, <1>2, <1>3, <1>4

\* Once the request id of a subscription, always that of a subscription.
LEMMA NoCtrlStep ==
  ASSUME Types, Keys, Next, abort' = "none", NEW x \in XApps, NEW l \in Locals, NoCtrl(x, l)
  PROVE  NoCtrl(x, l)'
<1>0. l \in Nat /\ xnext \in [XApps -> 1..MaxLocal+1] /\ \A y \in XApps : xnext[y] \in Nat
  BY BoundsAssumption DEF Locals, Types, XAppTypes
<1>1. ASSUME NEW y \in XApps, NEW n \in Nodes, NEW op \in {"sub", "ctrl"}, XRequest(y, n, op)
      PROVE  NoCtrl(x, l)'
  <2> DEFINE r == [x |-> y, l |-> xnext[y], n |-> n, op |-> op]
  <2>1. Asks' = Asks \cup {r} /\ r.x = y /\ r.l = xnext[y]
    BY <1>1 DEF XRequest, Asks
  <2>2. /\ Busy' = Busy /\ ireq' = ireq /\ map' = map
        /\ xnext' = [xnext EXCEPT ![y] = xnext[y] + 1]
    BY <1>1 DEF XRequest, Busy, ricVars, iappVars
  <2>3. l < xnext'[x] /\ ~(r.x = x /\ r.l = l)
    BY <1>0, <2>1, <2>2 DEF NoCtrl
  <2> HIDE DEF r
  <2> QED
    BY <2>1, <2>2, <2>3 DEF NoCtrl
<1>2. ASSUME NEW m \in toIApp, IRequest(m) PROVE NoCtrl(x, l)'
  <2>1. m \in Asks /\ Asks' = Asks \ {m} /\ ~Busy /\ Busy' /\ ireq' = m /\ map' = map /\ xnext' = xnext
    BY <1>2 DEF IRequest, Asks, Busy, Fail, xVars
  <2> QED
    BY <2>1 DEF NoCtrl
<1>3. CASE IAdd
  <2>1. Busy /\ ~Busy' /\ Asks' = Asks /\ xnext' = xnext /\ iid \in Ids
    BY <1>3, Entry DEF IAdd, Busy, Asks, Types, IAppTypes, Fail, msgVars, xVars
  <2>2. \A i \in Ids : map'[i] = IF i = iid THEN ireq ELSE map[i]
    BY <1>3 DEF IAdd, Types, TableTypes, Fail
  <2> QED
    BY <2>1, <2>2 DEF NoCtrl
<1>4. CASE ~(\E y \in XApps, n \in Nodes, op \in {"sub", "ctrl"} : XRequest(y, n, op))
           /\ ~(\E m \in toIApp : IRequest(m)) /\ ~IAdd
  BY <1>4, KeysSame DEF NoCtrl
<1> QED
  BY <1>1, <1>2, <1>3, <1>4

-----------------------------------------------------------------------------
(* Subscriptions and controls are not confused *)

\* What a step does to the requests and answers under way.
LEMMA TokensStep ==
  ASSUME Types, OneAnswer, Next, abort' = "none"
  PROVE  /\ IForward => Tokens' \subseteq Tokens \cup {<<ireq.op, nextId>>} /\ Finding' = Finding
         /\ \A d \in ilist : IForwardDelete(d) =>
              Tokens' \subseteq Tokens \cup {<<"del", d[1]>>} /\ Finding' = Finding
         /\ \A t \in tasks : TStop(t) =>
              /\ <<t.op, t.i>> \in Tokens
              /\ Tokens' \subseteq Tokens \ {<<t.op, t.i>>}
              /\ Finding' = Finding \cup {<<t.op, t.i>>}
         /\ \/ IForward
            \/ \E d \in ilist : IForwardDelete(d)
            \/ \E t \in tasks : TStop(t)
            \/ Tokens' \subseteq Tokens /\ Finding' \subseteq Finding
<1>1. IForward => Tokens' \subseteq Tokens \cup {<<ireq.op, nextId>>} /\ Finding' = Finding
  BY TokensAfterForward DEF Tokens, IAppStep
<1>2. ASSUME NEW d \in ilist, IForwardDelete(d)
      PROVE  Tokens' \subseteq Tokens \cup {<<"del", d[1]>>} /\ Finding' = Finding
  <2>1. /\ Answers' = Answers /\ Finding' = Finding /\ Queued' = Queued
        /\ Sending' \subseteq {<<"del", d[1]>>}
    BY <1>2, TokensAfterForward DEF IAppStep
  <2> QED
    BY <2>1 DEF Tokens
<1>3. ASSUME NEW t \in tasks, TStop(t)
      PROVE  /\ <<t.op, t.i>> \in Tokens
             /\ Tokens' \subseteq Tokens \ {<<t.op, t.i>>}
             /\ Finding' = Finding \cup {<<t.op, t.i>>}
  BY <1>3, TokensAfterStop DEF Tokens, OneAnswer
<1> DEFINE Fewer == Tokens' \subseteq Tokens /\ Finding' \subseteq Finding
<1>4. ASSUME ISend PROVE Fewer
  <2>1. /\ Answers' = Answers /\ Finding' = Finding
        /\ Sending = {<<ireq.op, iid>>} /\ Sending' = {}
    BY <1>4, TokensAfterForward DEF IAppStep
  <2>2. Queued' \subseteq Queued \cup {<<ireq.op, iid>>}
    <3>1. CASE UNCHANGED toN
      BY <3>1 DEF Queued
    <3> QED
      BY <1>4, <3>1, QueuedAfterSend
  <2> QED
    BY <2>1, <2>2 DEF Tokens
<1>5. ASSUME IAdd \/ (\E m \in toIApp : IRequest(m) \/ IDelete(m) \/ IGone(m)) PROVE Fewer
  <2>1. Sending' = Sending /\ Queued' = Queued /\ Answers' = Answers /\ Finding' = Finding
    BY <1>5, TokensAfterForward DEF IAppStep
  <2> QED
    BY <2>1 DEF Tokens
<1>6. ASSUME NEW t \in tasks, TFind(t) \/ TSend(t) \/ TRemove(t) PROVE Fewer
  <2>1. Answers' = Answers /\ Finding' \subseteq Finding
    BY <1>6, TokensAfterFind, TokensAfterRest
  <2>2. UNCHANGED <<toN, ipc, ireq, iid>>
    BY <1>6 DEF TFind, TSend, TRemove, Fail, msgVars, iappVars
  <2> QED
    BY <2>1, <2>2 DEF Tokens, Sending, Queued
<1>7. ASSUME NEW n \in Nodes, NodeStep(n) PROVE Fewer
  <2>1. CASE NAnswer(n)
    BY <2>1, TokensAfterAnswer DEF Tokens
  <2>2. CASE NLeave(n)
    <3>1. \A m \in Nodes : toN'[m] = toN[m] \/ toN'[m] = <<>>
      BY <2>2 DEF NLeave, Types, QueueTypes
    <3>2. \A m \in Nodes : \A p \in 1..Len(toN'[m]) : p \in 1..Len(toN[m]) /\ toN'[m][p] = toN[m][p]
      BY <3>1
    <3>3. Queued' \subseteq Queued
      BY <3>2 DEF Queued
    <3>4. Sending' = Sending /\ Answers' = Answers /\ Finding' = Finding
      BY <2>2 DEF NLeave, Sending, Answers, Finding, iappVars
    <3> QED
      BY <3>3, <3>4 DEF Tokens
  <2>3. ASSUME NEW i \in Ids, NIndicate(n, i) PROVE Fewer
    <3>1. Answers' = Answers /\ Finding' = Finding
      BY <2>3, TokensAfterRest
    <3>2. UNCHANGED <<toN, ipc, ireq, iid>>
      BY <2>3 DEF NIndicate, msgVars, iappVars
    <3> QED
      BY <3>1, <3>2 DEF Tokens, Sending, Queued
  <2> QED
    BY <1>7, <2>1, <2>2, <2>3 DEF NodeStep
<1>8. ASSUME LoopStep \/ Deliver \/ \E x \in XApps : XStep(x) PROVE Fewer
  BY <1>8, TokensElsewhere DEF Tokens
<1>9. IForward \/ (\E d \in ilist : IForwardDelete(d)) \/ (\E t \in tasks : TStop(t)) \/ Fewer
  BY <1>4, <1>5, <1>6, <1>7, <1>8 DEF Next, IAppStep, TaskStep
<1> QED
  BY <1>1, <1>2, <1>3, <1>9

KindOf(op) == IF op = "ctrl" THEN "ctrl" ELSE "sub"

Kinds ==
  /\ \A k \in Tokens \cup Finding : Owner(k[2]) # NoEntry => Owner(k[2]).op = KindOf(k[1])
  /\ \A d \in ilist : map[d[1]] # NoEntry => map[d[1]].op = "sub"
  /\ \A t \in tasks : t.pc \in {"tx", "rm"} /\ t.op # "ind" => t.to.op = KindOf(t.op)
  /\ \A x \in XApps : \A l \in xsubs[x] : NoCtrl(x, l)
  /\ \A m \in toIApp : m.op = "del" => NoCtrl(m.x, m.l)
  /\ \A m \in toX : m.op = "sub" => NoCtrl(m.x, m.l)
  /\ \A t \in tasks : t.pc = "tx" /\ t.op = "sub" => NoCtrl(t.to.x, t.to.l)

\* What is under way has a RIC request id.
LEMMA TokensTyped ==
  ASSUME Types, OneAnswer
  PROVE  \A k \in Tokens \cup Finding : k \in (Ops \X Ids) /\ k[2] \in Ids
<1>1. Tokens \subseteq Ops \X Ids
  BY DEF OneAnswer, Types, TableTypes
<1>2. Finding \subseteq Ops \X Ids
  BY DEF Finding, Types, TaskTypes, Tasks
<1> QED
  BY <1>1, <1>2

\* An owner is an entry.
LEMMA OwnerTyped ==
  ASSUME Types, NEW i \in Ids, Owner(i) # NoEntry
  PROVE  Owner(i) \in Entries
BY DEF Owner, Adding, Types, IAppTypes, TableTypes

\* Answers to a control go to controls, all others to subscriptions.
LEMMA OwnerKindsStep ==
  ASSUME Types, OneAnswer, Issued, Kinds, Next, abort' = "none"
  PROVE  \A k \in (Tokens \cup Finding)' : Owner(k[2])' # NoEntry => Owner(k[2])'.op = KindOf(k[1])
<1>0. \A k \in Tokens \cup Finding : k[2] \in Ids /\ k[2] # nextId
  BY TokensTyped, NextIdGrows DEF OneAnswer, Issued, Ids
<1>1. CASE IForward
  <2>1. Tokens' \subseteq Tokens \cup {<<ireq.op, nextId>>} /\ Finding' = Finding
    BY <1>1, TokensStep
  <2>2. \A k \in Tokens \cup Finding : Owner(k[2])' = Owner(k[2])
    BY <1>0, <1>1, OwnerStep
  <2>3. nextId \in Ids /\ ireq.op \in {"sub", "ctrl"}
    BY <1>1, Entry DEF IForward, Types, IAppTypes
  <2>4. \A i \in Ids : i = nextId => Owner(i)' = ireq
    BY <1>1, OwnerStep
  <2>5. ireq.op = KindOf(ireq.op)
    BY <2>3 DEF KindOf
  <2>6. \A k \in (Tokens \cup Finding)' : k \in Tokens \cup Finding \/ k = <<ireq.op, nextId>>
    BY <2>1
  <2>7. \A k \in Tokens \cup Finding : Owner(k[2]) # NoEntry => Owner(k[2]).op = KindOf(k[1])
    BY DEF Kinds
  <2> QED
    BY <2>2, <2>3, <2>4, <2>5, <2>6, <2>7
<1>2. CASE ~IForward
  <2>1. \A i \in Ids : Owner(i)' \in {Owner(i), NoEntry}
    BY <1>2, OwnerStep
  <2>2. \A k \in Tokens \cup Finding : Owner(k[2])' # NoEntry => Owner(k[2])'.op = KindOf(k[1])
    BY <1>0, <2>1 DEF Kinds
  <2>3. ASSUME NEW d \in ilist, IForwardDelete(d)
        PROVE  Owner(d[1])' # NoEntry => Owner(d[1])'.op = KindOf("del")
    <3>1. d[1] \in Ids /\ Owner(d[1]) = map[d[1]]
      BY <2>3 DEF Types, IAppTypes, IForwardDelete, Owner, Adding
    <3> QED
      BY <2>1, <3>1 DEF Kinds, KindOf
  <2>4. (Tokens \cup Finding)' \subseteq Tokens \cup Finding \/
        \E d \in ilist : IForwardDelete(d) /\ (Tokens \cup Finding)' \subseteq Tokens \cup Finding \cup {<<"del", d[1]>>}
    BY <1>2, TokensStep
  <2> QED
    BY <2>2, <2>3, <2>4
<1> QED
  BY <1>1, <1>2

\* What the iApp thread is to delete is a subscription.
LEMMA ListKindsStep ==
  ASSUME Types, Kinds, Next, abort' = "none"
  PROVE  \A d \in ilist' : map'[d[1]] # NoEntry => map'[d[1]].op = "sub"
<1>0. ilist \subseteq Ids \X Nodes
  BY DEF Types, IAppTypes
<1>1. CASE ilist' \subseteq ilist
  <2>1. CASE IAdd
    <3>1. ilist' = {}
      BY <2>1, Entry DEF IAdd, Types, IAppTypes, Fail
    <3> QED
      BY <3>1
  <2>2. CASE ~IAdd
    <3>1. \A i \in Ids : map'[i] \in {map[i], NoEntry}
      BY <2>2, MapWriters DEF TRemove, Fail, ricVars
    <3> QED
      BY <1>0, <1>1, <3>1 DEF Kinds
  <2> QED
    BY <2>1, <2>2
<1>2. ASSUME NEW m \in toIApp, IDelete(m) \/ IGone(m)
      PROVE  \A d \in ilist' : map'[d[1]] # NoEntry => map'[d[1]].op = "sub"
  <2>1. map' = map /\ \A d \in ilist' : map[d[1]].op = "sub"
    <3>1. CASE IDelete(m)
      BY <3>1 DEF IDelete, Fail, ricVars
    <3>2. CASE IGone(m)
      BY <3>2 DEF IGone, ricVars
    <3> QED
      BY <1>2, <3>1, <3>2
  <2> QED
    BY <2>1
<1> QED
  BY <1>1, <1>2, IAppWriters DEF IAppStep, IRequest, IForward, ISend, IAdd,
     IForwardDelete, Fail, iappVars

\* At the look-up the map is not being written.
LEMMA FoundOwner ==
  ASSUME Types, Kinds, NEW t \in tasks, TFind(t)
  PROVE  /\ t \in Tasks /\ t.i \in Ids /\ ~Busy /\ ~Adding /\ Owner(t.i) = map[t.i]
         /\ t.op # "ind" => <<t.op, t.i>> \in Finding
         /\ t.op # "ind" /\ map[t.i] # NoEntry => map[t.i] \in Entries /\ map[t.i].op = KindOf(t.op)
<1>1. t \in Tasks /\ t.i \in Ids /\ t.pc = "find" /\ ~wlock
  BY DEF TFind, Types, TaskTypes, Tasks
<1>2. ~Busy /\ ~Adding
  BY <1>1 DEF Types, IAppTypes, Busy, Adding
<1>3. Owner(t.i) = map[t.i]
  BY <1>2 DEF Owner
<1>4. t.op # "ind" => <<t.op, t.i>> \in Finding
  BY <1>1 DEF Finding
<1>5. t.op # "ind" /\ map[t.i] # NoEntry => map[t.i] \in Entries /\ map[t.i].op = KindOf(t.op)
  BY <1>1, <1>3, <1>4 DEF Kinds, Types, TableTypes
<1> QED
  BY <1>1, <1>2, <1>3, <1>4, <1>5

\* find_xapp_map_ric_id gives the task the entry of its id.
LEMMA FindMoves ==
  ASSUME Types, NEW t \in tasks, TFind(t), abort' = "none"
  PROVE  \/ tasks' = tasks \ {t}
         \/ \E u \in Tasks : /\ map[t.i] # NoEntry /\ tasks' = (tasks \ {t}) \cup {u}
                             /\ u.op = t.op /\ u.i = t.i /\ u.pc = "tx" /\ u.to = map[t.i]
<1> DEFINE u == [t EXCEPT !.to = map[t.i], !.pc = "tx"]
<1>1. t \in Tasks /\ map[t.i] \in Entries \cup {NoEntry}
  BY DEF Types, TaskTypes, TableTypes, Tasks
<1>2. u \in Tasks /\ u.op = t.op /\ u.i = t.i /\ u.pc = "tx" /\ u.to = map[t.i]
  BY <1>1 DEF Tasks
<1>3. tasks' = tasks \ {t} \/ (map[t.i] # NoEntry /\ tasks' = (tasks \ {t}) \cup {u})
  BY DEF TFind, Step, Finish
<1> HIDE DEF u
<1> QED
  BY <1>2, <1>3

\* e2ap_send_sctp_msg_iapp sends the answer, and a task for a deletion or a control
\* goes on.
LEMMA SendMoves ==
  ASSUME Types, NEW t \in tasks, TSend(t)
  PROVE  /\ t \in Tasks /\ t.pc = "tx" /\ t.to \in Entries
         /\ toX' = toX \cup {[x |-> t.to.x, l |-> t.to.l, op |-> t.op]}
         /\ \/ t.op \notin {"del", "ctrl"} /\ tasks' = tasks \ {t}
            \/ \E u \in Tasks : /\ t.op \in {"del", "ctrl"} /\ tasks' = (tasks \ {t}) \cup {u}
                                /\ u.op = t.op /\ u.i = t.i /\ u.pc = "rm" /\ u.to = t.to
<1> DEFINE u == [t EXCEPT !.to = t.to, !.pc = "rm"]
<1>1. t \in Tasks /\ t.pc = "tx" /\ t.to \in Entries
  BY DEF Types, TaskTypes, TSend
<1>2. u \in Tasks /\ u.op = t.op /\ u.i = t.i /\ u.pc = "rm" /\ u.to = t.to
  BY <1>1 DEF Tasks
<1>3. \/ t.op \notin {"del", "ctrl"} /\ tasks' = tasks \ {t}
      \/ t.op \in {"del", "ctrl"} /\ tasks' = (tasks \ {t}) \cup {u}
  BY DEF TSend, Step, Finish
<1> HIDE DEF u
<1> QED
  BY <1>1, <1>2, <1>3 DEF TSend

\* The other steps make no task that has found its xApp.
LEMMA LaterTasks ==
  ASSUME Types, Next, abort' = "none",
         ~\E t \in tasks : TFind(t) \/ TSend(t)
  PROVE  \A t \in tasks' : t.pc \in {"tx", "rm"} => t \in tasks
<1>1. ASSUME NEW t \in tasks, TStop(t) PROVE \A v \in tasks' : v.pc \in {"tx", "rm"} => v \in tasks
  <2> DEFINE u == [t EXCEPT !.to = NoEntry, !.pc = "find"]
  <2>1. u.pc = "find"
    BY DEF Types, TaskTypes, Tasks
  <2>2. tasks' = (tasks \ {t}) \cup {u}
    BY <1>1 DEF TStop, Step, Fail
  <2> HIDE DEF u
  <2> QED
    BY <2>1, <2>2
<1>2. ASSUME NEW t \in tasks, TRemove(t) PROVE \A v \in tasks' : v.pc \in {"tx", "rm"} => v \in tasks
  BY <1>2 DEF TRemove, Finish, Fail
<1>3. ASSUME NEW n \in Nodes, NAnswer(n) PROVE \A v \in tasks' : v.pc \in {"tx", "rm"} => v \in tasks
  BY <1>3 DEF NAnswer
<1>4. ASSUME NEW n \in Nodes, NEW i \in Ids, NIndicate(n, i)
      PROVE  \A v \in tasks' : v.pc \in {"tx", "rm"} => v \in tasks
  BY <1>4 DEF NIndicate
<1> QED
  BY <1>1, <1>2, <1>3, <1>4, TaskWriters DEF TaskStep

\* A task has found an entry of its kind.
LEMMA TaskKindsStep ==
  ASSUME Types, Keys, Kinds, Next, abort' = "none"
  PROVE  /\ \A t \in tasks' : t.pc \in {"tx", "rm"} /\ t.op # "ind" => t.to.op = KindOf(t.op)
         /\ \A t \in tasks' : t.pc = "tx" /\ t.op = "sub" => NoCtrl(t.to.x, t.to.l)
<1>1. ASSUME NEW t \in tasks, TFind(t)
      PROVE  /\ \A v \in tasks' : v.pc \in {"tx", "rm"} /\ v.op # "ind" => v.to.op = KindOf(v.op)
             /\ \A v \in tasks' : v.pc = "tx" /\ v.op = "sub" => NoCtrl(v.to.x, v.to.l)
  <2>1. t.op # "ind" /\ map[t.i] # NoEntry => map[t.i] \in Entries /\ map[t.i].op = KindOf(t.op)
    BY <1>1, FoundOwner
  <2>2. ASSUME t.op = "sub", map[t.i] # NoEntry PROVE NoCtrl(map[t.i].x, map[t.i].l)
    <3>1. t.i \in Ids /\ ~Busy /\ map[t.i].op = "sub"
      BY <1>1, <2>2, FoundOwner DEF KindOf
    <3>2. map[t.i].l < xnext[map[t.i].x] /\ \A a \in Asks : ~Same(a, map[t.i])
      BY <2>2, <3>1 DEF Keys
    <3>3. \A i \in Ids : map[i] # NoEntry /\ map[i].x = map[t.i].x /\ map[i].l = map[t.i].l => i = t.i
      BY <2>2, <3>1 DEF Keys, Same
    <3> QED
      BY <3>1, <3>2, <3>3 DEF NoCtrl, Same
  <2> QED
    BY <1>1, <2>1, <2>2, FindMoves DEF Kinds
<1>2. ASSUME NEW t \in tasks, TSend(t)
      PROVE  /\ \A v \in tasks' : v.pc \in {"tx", "rm"} /\ v.op # "ind" => v.to.op = KindOf(v.op)
             /\ \A v \in tasks' : v.pc = "tx" /\ v.op = "sub" => NoCtrl(v.to.x, v.to.l)
  BY <1>2, SendMoves DEF Kinds
<1>3. CASE ~\E t \in tasks : TFind(t) \/ TSend(t)
  BY <1>3, LaterTasks DEF Kinds
<1> QED
  BY <1>1, <1>2, <1>3

\* Subscriptions and controls are never confused.
LEMMA KindsStep ==
  ASSUME Types, OneAnswer, Issued, Keys, Kinds, Next, abort' = "none"
  PROVE  Kinds'
<1>0. \A x \in XApps, l \in Locals : NoCtrl(x, l) => NoCtrl(x, l)'
  BY NoCtrlStep
<1>1. \A t \in tasks' : t.pc = "tx" /\ t.op = "sub" => NoCtrl(t.to.x, t.to.l)'
  <2>1. \A t \in tasks' : t.pc = "tx" => t.to.x \in XApps /\ t.to.l \in Locals
    BY TypesStep, Entry DEF Types, TaskTypes
  <2> QED
    BY <1>0, <2>1, TaskKindsStep
<1>2. \A m \in toX' : m.op = "sub" => NoCtrl(m.x, m.l)'
  <2>0. \A m \in toX' : m.x \in XApps /\ m.l \in Locals
    BY TypesStep DEF Types, MessageTypes, ToXApp
  <2>1. ASSUME NEW t \in tasks, TSend(t) PROVE \A m \in toX' : m.op = "sub" => NoCtrl(m.x, m.l)
    <3>1. t.pc = "tx" /\ toX' = toX \cup {[x |-> t.to.x, l |-> t.to.l, op |-> t.op]}
      BY <2>1, SendMoves
    <3> QED
      BY <3>1 DEF Kinds
  <2>2. ASSUME NEW m \in toX, XReceive(m) \/ SendFailed(m)
        PROVE  \A k \in toX' : k.op = "sub" => NoCtrl(k.x, k.l)
    BY <2>2 DEF Kinds, XReceive, SendFailed
  <2>3. \A m \in toX' : m.op = "sub" => NoCtrl(m.x, m.l)
    BY <2>1, <2>2, ReplyWriters DEF Kinds
  <2> QED
    BY <1>0, <2>0, <2>3
<1>3. \A x \in XApps : \A l \in xsubs'[x] : NoCtrl(x, l)'
  <2>0. \A x \in XApps : xsubs'[x] \subseteq Locals
    BY TypesStep DEF Types, XAppTypes
  <2>1. \A x \in XApps : \A l \in xsubs'[x] : NoCtrl(x, l)
    <3>1. ASSUME NEW m \in toX, XReceive(m) PROVE \A x \in XApps : \A l \in xsubs'[x] : NoCtrl(x, l)
      <4>1. m.x \in XApps /\ m.l \in Locals /\ xsubs \in [XApps -> SUBSET Locals]
        BY DEF Types, MessageTypes, ToXApp, XAppTypes
      <4>2. \A x \in XApps : xsubs'[x] \subseteq xsubs[x] \/ (m.op = "sub" /\ x = m.x /\ xsubs'[x] = xsubs[x] \cup {m.l})
        BY <3>1, <4>1 DEF XReceive, xVars
      <4> QED
        BY <4>2 DEF Kinds
    <3>2. xsubs' = xsubs \/ \E m \in toX : XReceive(m)
      BY XAppWriters DEF XRequest, XDelete, XDie, xVars
    <3> QED
      BY <3>1, <3>2 DEF Kinds
  <2> QED
    BY <1>0, <2>0, <2>1
<1>4. \A m \in toIApp' : m.op = "del" => NoCtrl(m.x, m.l)'
  <2>0. \A m \in toIApp' : m.op = "del" => m.x \in XApps /\ m.l \in Locals
    BY TypesStep, Asking DEF Types, MessageTypes
  <2>1. ASSUME NEW x \in XApps, NEW l \in Locals, XDelete(x, l)
        PROVE  \A m \in toIApp' : m.op = "del" => NoCtrl(m.x, m.l)
    <3>1. l \in xsubs[x] /\ toIApp' = toIApp \cup {[x |-> x, l |-> l, op |-> "del"]}
      BY <2>1 DEF XDelete
    <3> QED
      BY <3>1 DEF Kinds
  <2>2. ASSUME NEW x \in XApps, NEW n \in Nodes, NEW op \in {"sub", "ctrl"}, XRequest(x, n, op)
        PROVE  \A m \in toIApp' : m.op = "del" => m \in toIApp
    BY <2>2 DEF XRequest
  <2>3. ASSUME NEW m \in toX, SendFailed(m) PROVE \A k \in toIApp' : k.op = "del" => k \in toIApp
    BY <2>3 DEF SendFailed
  <2>4. ASSUME NEW m \in toIApp, IRequest(m) \/ IDelete(m) \/ IGone(m) PROVE toIApp' \subseteq toIApp
    BY <2>4 DEF IRequest, IDelete, IGone, Fail, msgVars
  <2>5. \A m \in toIApp' : m.op = "del" => NoCtrl(m.x, m.l)
    BY <2>1, <2>2, <2>3, <2>4, RequestWriters DEF Kinds
  <2> QED
    BY <1>0, <2>0, <2>5
<1> QED
  BY <1>1, <1>2, <1>3, <1>4, OwnerKindsStep, ListKindsStep, TaskKindsStep DEF Kinds

-----------------------------------------------------------------------------
(* A call of an xApp is in one place at a time *)

OfX(x, k)   == Owner(k[2]) # NoEntry /\ Owner(k[2]).x = x
Asked(x)    == {<<"req", m, <<m.op, m.l>> >> : m \in {r \in toIApp : r.op # "gone" /\ r.x = x}}
Taken(x)    == IF ipc = "fwd" /\ ireq.x = x THEN {<<"fwd", ireq, <<ireq.op, ireq.l>> >>} ELSE {}
Listed(x)   == {<<"list", d, <<"del", map[d[1]].l>> >> :
                  d \in {e \in ilist : map[e[1]] # NoEntry /\ map[e[1]].x = x}}
Sent(x)     == {<<"tok", k, <<k[1], Owner(k[2]).l>> >> : k \in {e \in Tokens : OfX(x, e)}}
Back(x)     == {<<"find", k, <<k[1], Owner(k[2]).l>> >> : k \in {e \in Finding : OfX(x, e)}}
Routed(x)   == {<<"tx", t, <<t.op, t.to.l>> >> :
                  t \in {u \in tasks : u.pc = "tx" /\ u.op # "ind" /\ u.to.x = x}}
Replies(x)  == {<<"msg", m, <<m.op, m.l>> >> : m \in {r \in toX : r.op # "ind" /\ r.x = x}}
Carriers(x) == Asked(x) \cup Taken(x) \cup Listed(x) \cup Sent(x) \cup Back(x)
                 \cup Routed(x) \cup Replies(x)

Single(S, v) == (\A c, d \in S : c = d) /\ \A c \in S : c[3] = v

OneCarrier == \A x \in XApps : alive[x] => Single(Carriers(x), xcall[x])

\* A call that moves from one place to another is in one place.
LEMMA Moved ==
  ASSUME NEW S, NEW T, NEW v, NEW c \in S, NEW e, Single(S, v), e[3] = c[3],
         T \subseteq (S \ {c}) \cup {e}
  PROVE  Single(T, v)
BY DEF Single

\* So is one that does not move, or is dropped.
LEMMA Fewer ==
  ASSUME NEW S, NEW T, NEW v, Single(S, v), T \subseteq S
  PROVE  Single(T, v)
BY DEF Single

\* The places are disjoint.
LEMMA Tags ==
  ASSUME NEW x
  PROVE  /\ \A c \in Asked(x) : c[1] = "req"
         /\ \A c \in Taken(x) : c[1] = "fwd"
         /\ \A c \in Listed(x) : c[1] = "list"
         /\ \A c \in Sent(x) : c[1] = "tok"
         /\ \A c \in Back(x) : c[1] = "find"
         /\ \A c \in Routed(x) : c[1] = "tx"
         /\ \A c \in Replies(x) : c[1] = "msg"
BY DEF Asked, Taken, Listed, Sent, Back, Routed, Replies

\* What is in a place is about a call.
LEMMA Pairs ==
  ASSUME NEW x
  PROVE  \A c \in Carriers(x) : c[3] # <<>>
<1>1. \A a, b : <<a, b>> # <<>>
  OBVIOUS
<1>2. /\ \A c \in Asked(x) : \E a, b : c[3] = <<a, b>>
      /\ \A c \in Taken(x) : \E a, b : c[3] = <<a, b>>
      /\ \A c \in Listed(x) : \E a, b : c[3] = <<a, b>>
  BY DEF Asked, Taken, Listed
<1>3. /\ \A c \in Sent(x) : \E a, b : c[3] = <<a, b>>
      /\ \A c \in Back(x) : \E a, b : c[3] = <<a, b>>
  BY DEF Sent, Back
<1>4. /\ \A c \in Routed(x) : \E a, b : c[3] = <<a, b>>
      /\ \A c \in Replies(x) : \E a, b : c[3] = <<a, b>>
  BY DEF Routed, Replies
<1> QED
  BY <1>1, <1>2, <1>3, <1>4 DEF Carriers

\* When a step may put something on each list.
LEMMA AskedStep ==
  ASSUME Types, Next, abort' = "none", NEW x \in XApps,
         ~\E n \in Nodes, op \in {"sub", "ctrl"} : XRequest(x, n, op),
         ~\E l \in Locals : XDelete(x, l)
  PROVE  Asked(x)' \subseteq Asked(x)
<1> SUFFICES ASSUME NEW m \in toIApp', m.op # "gone", m.x = x PROVE m \in toIApp
  BY DEF Asked
<1>1. ASSUME NEW y \in XApps, NEW n \in Nodes, NEW op \in {"sub", "ctrl"}, XRequest(y, n, op)
      PROVE  m \in toIApp
  <2> DEFINE r == [x |-> y, l |-> xnext[y], n |-> n, op |-> op]
  <2>1. y # x
    BY <1>1
  <2>2. toIApp' = toIApp \cup {r} /\ r.x = y
    BY <1>1 DEF XRequest
  <2> HIDE DEF r
  <2> QED
    BY <2>1, <2>2
<1>2. ASSUME NEW y \in XApps, NEW l \in Locals, XDelete(y, l) PROVE m \in toIApp
  <2> DEFINE r == [x |-> y, l |-> l, op |-> "del"]
  <2>1. y # x
    BY <1>2
  <2>2. toIApp' = toIApp \cup {r} /\ r.x = y
    BY <1>2 DEF XDelete
  <2> HIDE DEF r
  <2> QED
    BY <2>1, <2>2
<1>3. ASSUME NEW k \in toX, SendFailed(k) PROVE m \in toIApp
  BY <1>3 DEF SendFailed
<1>4. ASSUME NEW k \in toIApp, IRequest(k) \/ IDelete(k) \/ IGone(k) PROVE m \in toIApp
  BY <1>4 DEF IRequest, IDelete, IGone, Fail, msgVars
<1> QED
  BY <1>1, <1>2, <1>3, <1>4, RequestWriters

\* The iApp thread takes only what it receives.
LEMMA TakenStep ==
  ASSUME Types, Next, abort' = "none", NEW x \in XApps,
         ~\E m \in toIApp : IRequest(m)
  PROVE  Taken(x)' \subseteq Taken(x)
<1>1. CASE UNCHANGED <<wlock, iappVars>>
  BY <1>1 DEF Taken, iappVars
<1>2. CASE IForward \/ IAdd
  <2>1. ipc' # "fwd"
    BY <1>2 DEF IForward, IAdd, Fail
  <2> QED
    BY <2>1 DEF Taken
<1>3. CASE ISend
  <2>1. ipc' # "fwd"
    BY <1>3 DEF ISend, Fail
  <2> QED
    BY <2>1 DEF Taken
<1>4. ASSUME NEW m \in toIApp, IDelete(m) \/ IGone(m) PROVE Taken(x)' \subseteq Taken(x)
  <2>1. ipc' # "fwd"
    BY <1>4 DEF IDelete, IGone, Fail
  <2> QED
    BY <2>1 DEF Taken
<1>5. ASSUME NEW d \in ilist, IForwardDelete(d) PROVE Taken(x)' \subseteq Taken(x)
  <2>1. ipc' # "fwd"
    BY <1>5 DEF IForwardDelete
  <2> QED
    BY <2>1 DEF Taken
<1> QED
  BY <1>1, <1>2, <1>3, <1>4, <1>5, IAppWriters DEF IAppStep

\* It deletes only what it was asked to, or what a lost xApp had.
LEMMA ListedStep ==
  ASSUME Types, Next, abort' = "none", NEW x \in XApps,
         ~\E m \in toIApp : IDelete(m) \/ IGone(m)
  PROVE  Listed(x)' \subseteq Listed(x)
<1>0. ilist \subseteq Ids \X Nodes
  BY DEF Types, IAppTypes
<1>1. ilist' \subseteq ilist
  BY IAppWriters DEF IAppStep, IRequest, IForward, ISend, IAdd, IForwardDelete, Fail,
     iappVars
<1>2. CASE IAdd
  <2>1. ilist' = {}
    BY <1>2, Entry DEF IAdd, Types, IAppTypes, Fail
  <2> QED
    BY <2>1 DEF Listed
<1>3. CASE ~IAdd
  <2>1. \A i \in Ids : map'[i] \in {map[i], NoEntry}
    BY <1>3, MapWriters DEF TRemove, Fail, ricVars
  <2>2. \A d \in ilist' : d \in ilist /\ d[1] \in Ids
    BY <1>0, <1>1
  <2> SUFFICES ASSUME NEW d \in ilist', map'[d[1]] # NoEntry, map'[d[1]].x = x
               PROVE  <<"list", d, <<"del", map'[d[1]].l>> >> \in Listed(x)
    BY DEF Listed
  <2>3. d \in ilist /\ map'[d[1]] = map[d[1]]
    BY <2>1, <2>2
  <2> QED
    BY <2>3 DEF Listed
<1> QED
  BY <1>2, <1>3

\* Nobody takes a request id from another xApp.
LEMMA OwnersFall ==
  ASSUME Types, Next, abort' = "none", ~IForward
  PROVE  \A i \in Ids : Owner(i)' \in {Owner(i), NoEntry}
BY OwnerStep

\* Unless a new id is given out, answers under way keep their xApp.
LEMMA SentStep ==
  ASSUME Types, OneAnswer, Next, abort' = "none", NEW x \in XApps, ~IForward
  PROVE  /\ \A k \in Tokens' : OfX(x, k)' /\ k \in Tokens =>
              <<"tok", k, <<k[1], Owner(k[2])'.l>> >> \in Sent(x)
         /\ \A k \in Finding' : OfX(x, k)' /\ k \in Finding =>
              <<"find", k, <<k[1], Owner(k[2])'.l>> >> \in Back(x)
         /\ Tokens' \subseteq Tokens => Sent(x)' \subseteq Sent(x)
         /\ Finding' \subseteq Finding => Back(x)' \subseteq Back(x)
<1>0. \A k \in Tokens \cup Finding : k[2] \in Ids /\ Owner(k[2])' \in {Owner(k[2]), NoEntry}
  BY TokensTyped, OwnersFall
<1>1. ASSUME NEW k \in Tokens \cup Finding, OfX(x, k)'
      PROVE  OfX(x, k) /\ Owner(k[2])' = Owner(k[2])
  BY <1>0, <1>1 DEF OfX
<1>2. \A k \in Tokens' : OfX(x, k)' /\ k \in Tokens =>
              <<"tok", k, <<k[1], Owner(k[2])'.l>> >> \in Sent(x)
  BY <1>1 DEF Sent
<1>3. \A k \in Finding' : OfX(x, k)' /\ k \in Finding =>
              <<"find", k, <<k[1], Owner(k[2])'.l>> >> \in Back(x)
  BY <1>1 DEF Back
<1>4. Tokens' \subseteq Tokens => Sent(x)' \subseteq Sent(x)
  BY <1>2 DEF Sent
<1>5. Finding' \subseteq Finding => Back(x)' \subseteq Back(x)
  BY <1>3 DEF Back
<1> QED
  BY <1>2, <1>3, <1>4, <1>5

\* Only the look-up finds an xApp.
LEMMA RoutedStep ==
  ASSUME Types, Next, abort' = "none", NEW x \in XApps,
         ~\E t \in tasks : TFind(t)
  PROVE  Routed(x)' \subseteq Routed(x)
<1>1. \A u \in tasks' : u.pc = "tx" => u \in tasks
  <2>1. ASSUME NEW t \in tasks, TSend(t) PROVE \A u \in tasks' : u.pc = "tx" => u \in tasks
    BY <2>1, SendMoves
  <2> QED
    BY <2>1, LaterTasks
<1> QED
  BY <1>1 DEF Routed

\* Only a worker answers an xApp.
LEMMA RepliesStep ==
  ASSUME Types, Next, abort' = "none", NEW x \in XApps,
         ~\E t \in tasks : TSend(t)
  PROVE  Replies(x)' \subseteq Replies(x)
<1>1. toX' \subseteq toX
  BY ReplyWriters DEF XReceive, SendFailed
<1> QED
  BY <1>1 DEF Replies

\* An xApp begins its calls, and an answer to it ends them.
LEMMA CallStep ==
  ASSUME Types, Next, abort' = "none", NEW x \in XApps,
         ~\E n \in Nodes, op \in {"sub", "ctrl"} : XRequest(x, n, op),
         ~\E l \in Locals : XDelete(x, l),
         ~\E m \in toX : XReceive(m) /\ m.x = x
  PROVE  xcall'[x] = xcall[x] /\ (alive'[x] => alive[x])
<1>0. xcall \in [XApps -> {<<>>} \cup (Ops \X Locals)] /\ alive \in [XApps -> BOOLEAN]
  BY DEF Types, XAppTypes
<1>1. ASSUME NEW m \in toX, XReceive(m) PROVE xcall'[x] = xcall[x] /\ (alive'[x] => alive[x])
  BY <1>0, <1>1 DEF XReceive, xVars
<1> QED
  BY <1>0, <1>1, XAppWriters DEF XRequest, XDelete, XDie, xVars

\* Each mover takes one call of one xApp from one list to the next.
LEMMA RequestMoves ==
  ASSUME Types, OneAnswer, Next, abort' = "none", NEW x \in XApps, NEW v, Single(Carriers(x), v),
         NEW m \in toIApp, IRequest(m)
  PROVE  Single(Carriers(x)', v)
<1>1. /\ ipc = "epoll" /\ ipc' = "fwd" /\ ireq' = m /\ toIApp' = toIApp \ {m} /\ m.op \in {"sub", "ctrl"}
      /\ UNCHANGED <<toX, map, ilist, tasks>>
  BY DEF IRequest, Fail
<1>2. ~IForward /\ Tokens' = Tokens /\ Finding' = Finding
  <2>1. ~IForward
    BY <1>1 DEF IForward
  <2> QED
    BY <2>1, TokensAfterForward DEF IAppStep, Tokens
<1>3. Sent(x)' \subseteq Sent(x) /\ Back(x)' \subseteq Back(x)
  BY <1>2, SentStep
<1>4. Listed(x)' = Listed(x) /\ Routed(x)' = Routed(x) /\ Replies(x)' = Replies(x) /\ Taken(x) = {}
  BY <1>1 DEF Listed, Routed, Replies, Taken
<1>5. CASE m.x # x
  <2>1. Asked(x)' \subseteq Asked(x) /\ Taken(x)' = {}
    BY <1>1, <1>5 DEF Asked, Taken
  <2>2. Carriers(x)' \subseteq Carriers(x)
    BY <1>3, <1>4, <2>1 DEF Carriers
  <2> QED
    BY <2>2, Fewer
<1>6. CASE m.x = x
  <2> DEFINE c == <<"req", m, <<m.op, m.l>> >>
             e == <<"fwd", m, <<m.op, m.l>> >>
  <2>1. c \in Asked(x) /\ Asked(x)' \subseteq Asked(x) \ {c} /\ Taken(x)' = {e} /\ e[3] = c[3] /\ c[1] = "req"
    BY <1>1, <1>6 DEF Asked, Taken
  <2> HIDE DEF c, e
  <2>2. Carriers(x)' \subseteq (Carriers(x) \ {c}) \cup {e} /\ c \in Carriers(x)
    BY <1>3, <1>4, <2>1, Tags DEF Carriers
  <2> QED
    BY <2>1, <2>2, Moved
<1> QED
  BY <1>5, <1>6

\* fwd_ric_subscription_request and fwd_ric_control_request: the call gets an id.
LEMMA ForwardMoves ==
  ASSUME Types, OneAnswer, Issued, Next, abort' = "none", NEW x \in XApps, NEW v, Single(Carriers(x), v),
         IForward
  PROVE  Single(Carriers(x)', v)
<1> DEFINE k0 == <<ireq.op, nextId>>
<1>1. /\ ipc = "fwd" /\ ipc' = "send"
      /\ UNCHANGED <<toIApp, toX, map, ilist, tasks>>
  BY DEF IForward, msgVars
<1>2. /\ Tokens' \subseteq Tokens \cup {k0} /\ Finding' = Finding
      /\ \A i \in Ids : Owner(i)' = IF i = nextId THEN ireq ELSE Owner(i)
      /\ nextId \in Ids
      /\ \A k \in Tokens \cup Finding : k[2] \in Ids /\ k[2] # nextId
  <2>1. nextId \in Ids
    BY <1>1 DEF Types, IAppTypes
  <2>2. \A k \in Tokens \cup Finding : k[2] \in Ids /\ k[2] # nextId
    BY TokensTyped, NextIdGrows DEF OneAnswer, Issued, Ids
  <2> QED
    BY <2>1, <2>2, TokensStep, OwnerStep
<1>3. Back(x)' \subseteq Back(x)
  <2>1. \A k \in Finding : Owner(k[2])' = Owner(k[2])
    BY <1>2
  <2> QED
    BY <1>2, <2>1 DEF Back, OfX
<1>4. Listed(x)' = Listed(x) /\ Routed(x)' = Routed(x) /\ Replies(x)' = Replies(x) /\ Asked(x)' = Asked(x)
      /\ Taken(x)' = {}
  BY <1>1 DEF Listed, Routed, Replies, Taken, Asked
<1>5. \A k \in Tokens : Owner(k[2])' = Owner(k[2])
  BY <1>2
<1>7. \A i \in Ids : i = nextId => Owner(i)' = ireq
  BY <1>2
<1>6. CASE ireq.x # x
  <2>1. Sent(x)' \subseteq Sent(x)
    <3> SUFFICES ASSUME NEW k \in Tokens', OfX(x, k)'
                 PROVE  <<"tok", k, <<k[1], Owner(k[2])'.l>> >> \in Sent(x)
      BY DEF Sent
    <3>1. k \in Tokens
      <4>1. k = k0 => Owner(k[2])' = ireq
        BY <1>2, <1>7
      <4> QED
        BY <1>2, <1>6, <4>1 DEF OfX
    <3> QED
      BY <3>1, <1>5 DEF Sent, OfX
  <2>2. Carriers(x)' \subseteq Carriers(x)
    BY <1>3, <1>4, <2>1 DEF Carriers
  <2> QED
    BY <2>2, Fewer
<1>8. CASE ireq.x = x
  <2> DEFINE c == <<"fwd", ireq, <<ireq.op, ireq.l>> >>
             e == <<"tok", k0, <<ireq.op, ireq.l>> >>
  <2>1. Sent(x)' \subseteq Sent(x) \cup {e}
    <3> SUFFICES ASSUME NEW k \in Tokens', OfX(x, k)'
                 PROVE  <<"tok", k, <<k[1], Owner(k[2])'.l>> >> \in Sent(x) \cup {e}
      BY DEF Sent
    <3>1. CASE k \in Tokens
      BY <3>1, <1>5 DEF Sent, OfX
    <3>2. CASE k = k0
      BY <3>2, <1>2, <1>7
    <3> QED
      BY <3>1, <3>2, <1>2
  <2>2. c \in Taken(x) /\ e[3] = c[3] /\ c[1] = "fwd"
    BY <1>1, <1>8 DEF Taken
  <2> HIDE DEF c, e
  <2>3. Carriers(x)' \subseteq (Carriers(x) \ {c}) \cup {e} /\ c \in Carriers(x)
    BY <1>3, <1>4, <2>1, <2>2, Tags DEF Carriers
  <2> QED
    BY <2>2, <2>3, Moved
<1> QED
  BY <1>6, <1>8

OwnRanFunc == \A x, y \in XApps : RanFunc[x] = RanFunc[y] => x = y

\* With a RAN function of its own, a delete finds entries of the xApp that sent it.
LEMMA FoundOwn ==
  ASSUME OwnRanFunc, Types, NEW m \in toIApp, m.op = "del", NEW i \in Found(m)
  PROVE  i \in Ids /\ map[i] \in Entries /\ map[i].x = m.x /\ map[i].l = m.l /\ m.x \in XApps
BY Asking, Entry DEF OwnRanFunc, Types, MessageTypes, TableTypes, Found, Matches

\* A delete request becomes the one subscription it names.
LEMMA DeleteMoves ==
  ASSUME OwnRanFunc, Types, OneAnswer, Next, abort' = "none",
         NEW x \in XApps, NEW v, Single(Carriers(x), v),
         NEW m \in toIApp, IDelete(m)
  PROVE  Single(Carriers(x)', v)
<1>1. /\ ipc = "epoll" /\ ipc' = "del" /\ toIApp' = toIApp \ {m} /\ m.op = "del"
      /\ UNCHANGED <<toX, map, tasks>>
      /\ \E i \in Found(m) : ilist' = {<<i, map[i].n>>}
  BY DEF IDelete, Fail, ricVars
<1>2. ~IForward /\ Tokens' = Tokens /\ Finding' = Finding
  <2>1. ~IForward
    BY <1>1 DEF IForward
  <2> QED
    BY <2>1, TokensAfterForward DEF IAppStep, Tokens
<1>3. Sent(x)' \subseteq Sent(x) /\ Back(x)' \subseteq Back(x)
  BY <1>2, SentStep
<1>4. Routed(x)' = Routed(x) /\ Replies(x)' = Replies(x) /\ Taken(x)' = {}
  BY <1>1 DEF Routed, Replies, Taken
<1>5. PICK i \in Found(m) : ilist' = {<<i, map[i].n>>}
  BY <1>1
<1>6. map[i].x = m.x /\ map[i].l = m.l
  BY <1>1, FoundOwn
<1>7. CASE m.x # x
  <2>1. Asked(x)' \subseteq Asked(x) /\ Listed(x)' = {}
    BY <1>1, <1>5, <1>6, <1>7 DEF Asked, Listed
  <2>2. Carriers(x)' \subseteq Carriers(x)
    BY <1>3, <1>4, <2>1 DEF Carriers
  <2> QED
    BY <2>2, Fewer
<1>8. CASE m.x = x
  <2> DEFINE d == <<i, map[i].n>>
             c == <<"req", m, <<m.op, m.l>> >>
             e == <<"list", d, <<"del", m.l>> >>
  <2>1. c \in Asked(x) /\ Asked(x)' \subseteq Asked(x) \ {c} /\ e[3] = c[3] /\ c[1] = "req"
    BY <1>1, <1>8 DEF Asked
  <2>2. Listed(x)' \subseteq {e}
    <3>1. d[1] = i /\ ilist' = {d} /\ map'[i] = map[i]
      BY <1>1, <1>5
    <3> HIDE DEF d
    <3> QED
      BY <1>6, <3>1 DEF Listed
  <2> HIDE DEF c, e
  <2>3. Carriers(x)' \subseteq (Carriers(x) \ {c}) \cup {e} /\ c \in Carriers(x)
    BY <1>3, <1>4, <2>1, <2>2, Tags DEF Carriers
  <2> QED
    BY <2>1, <2>3, Moved
<1> QED
  BY <1>7, <1>8

\* The loss of an xApp moves nothing of another one.
LEMMA GoneMoves ==
  ASSUME Types, OneAnswer, Next, abort' = "none", NEW x \in XApps, NEW v, Single(Carriers(x), v),
         NEW m \in toIApp, IGone(m), m.x # x
  PROVE  Single(Carriers(x)', v)
<1>1. /\ ipc = "epoll" /\ ipc' \in {"epoll", "del"} /\ toIApp' = toIApp \ {m}
      /\ UNCHANGED <<toX, map, tasks>>
      /\ \A d \in ilist' : map[d[1]].x = m.x
  BY DEF IGone, ricVars
<1>2. ~IForward /\ Tokens' = Tokens /\ Finding' = Finding
  <2>1. ~IForward
    BY <1>1 DEF IForward
  <2> QED
    BY <2>1, TokensAfterForward DEF IAppStep, Tokens
<1>3. Sent(x)' \subseteq Sent(x) /\ Back(x)' \subseteq Back(x)
  BY <1>2, SentStep
<1>4. Routed(x)' = Routed(x) /\ Replies(x)' = Replies(x) /\ Taken(x)' = {}
  BY <1>1 DEF Routed, Replies, Taken
<1>5. Asked(x)' \subseteq Asked(x) /\ Listed(x)' = {}
  BY <1>1 DEF Asked, Listed
<1>6. Carriers(x)' \subseteq Carriers(x)
  BY <1>3, <1>4, <1>5 DEF Carriers
<1> QED
  BY <1>6, Fewer

\* fwd_ric_subscription_request_delete: the call is pending under the id of its
\* subscription.
LEMMA ForwardDeleteMoves ==
  ASSUME Types, OneAnswer, Next, abort' = "none", NEW x \in XApps, NEW v, Single(Carriers(x), v),
         NEW d \in ilist, IForwardDelete(d)
  PROVE  Single(Carriers(x)', v)
<1>1. /\ ipc = "del" /\ ipc' # "fwd" /\ ilist' = ilist \ {d}
      /\ UNCHANGED <<toIApp, toX, map, tasks>>
  BY DEF IForwardDelete, msgVars
<1>2. /\ ~IForward /\ d[1] \in Ids /\ Owner(d[1]) = map[d[1]]
      /\ Tokens' \subseteq Tokens \cup {<<"del", d[1]>>} /\ Finding' = Finding
  <2>1. ~IForward
    BY <1>1 DEF IForward
  <2>2. d[1] \in Ids /\ Owner(d[1]) = map[d[1]]
    BY <1>1 DEF Types, IAppTypes, Owner, Adding
  <2> QED
    BY <2>1, <2>2, TokensStep
<1>3. Back(x)' \subseteq Back(x)
  BY <1>2, SentStep
<1>4. Routed(x)' = Routed(x) /\ Replies(x)' = Replies(x) /\ Asked(x)' = Asked(x) /\ Taken(x)' = {}
  BY <1>1 DEF Routed, Replies, Asked, Taken
<1>5. Owner(d[1])' \in {Owner(d[1]), NoEntry}
  BY <1>2, OwnersFall
<1>6. CASE ~(map[d[1]] # NoEntry /\ map[d[1]].x = x)
  <2>1. Sent(x)' \subseteq Sent(x)
    <3> SUFFICES ASSUME NEW k \in Tokens', OfX(x, k)'
                 PROVE  <<"tok", k, <<k[1], Owner(k[2])'.l>> >> \in Sent(x)
      BY DEF Sent
    <3>1. k[2] # d[1]
      BY <1>2, <1>5, <1>6 DEF OfX
    <3>2. k \in Tokens
      BY <1>2, <3>1
    <3> QED
      BY <3>2, <1>2, SentStep
  <2>2. Listed(x)' \subseteq Listed(x)
    BY <1>1 DEF Listed
  <2>3. Carriers(x)' \subseteq Carriers(x)
    BY <1>3, <1>4, <2>1, <2>2 DEF Carriers
  <2> QED
    BY <2>3, Fewer
<1>7. CASE map[d[1]] # NoEntry /\ map[d[1]].x = x
  <2> DEFINE k0 == <<"del", d[1]>>
             c == <<"list", d, <<"del", map[d[1]].l>> >>
             e == <<"tok", k0, <<"del", map[d[1]].l>> >>
  <2>1. c \in Listed(x) /\ Listed(x)' \subseteq Listed(x) \ {c} /\ e[3] = c[3] /\ c[1] = "list"
    BY <1>1, <1>7 DEF Listed
  <2>2. Sent(x)' \subseteq Sent(x) \cup {e}
    <3> SUFFICES ASSUME NEW k \in Tokens', OfX(x, k)'
                 PROVE  <<"tok", k, <<k[1], Owner(k[2])'.l>> >> \in Sent(x) \cup {e}
      BY DEF Sent
    <3>1. CASE k \in Tokens
      BY <3>1, <1>2, SentStep
    <3>2. CASE k = k0
      <4>1. k[1] = "del" /\ k[2] = d[1]
        BY <3>2
      <4>2. Owner(k[2])' = map[d[1]]
        BY <4>1, <1>2, <1>5 DEF OfX
      <4> QED
        BY <3>2, <4>1, <4>2
    <3> QED
      BY <3>1, <3>2, <1>2
  <2> HIDE DEF c, e
  <2>3. Carriers(x)' \subseteq (Carriers(x) \ {c}) \cup {e} /\ c \in Carriers(x)
    BY <1>3, <1>4, <2>1, <2>2, Tags DEF Carriers
  <2> QED
    BY <2>1, <2>3, Moved
<1> QED
  BY <1>6, <1>7

\* stop_pending_event: the call waits for the look-up.
LEMMA StopMoves ==
  ASSUME Types, OneAnswer, Next, abort' = "none", NEW x \in XApps, NEW v, Single(Carriers(x), v),
         NEW t \in tasks, TStop(t)
  PROVE  Single(Carriers(x)', v)
<1> DEFINE k0 == <<t.op, t.i>>
<1>0. /\ k0 \in Tokens /\ Tokens' \subseteq Tokens \ {k0} /\ Finding' = Finding \cup {k0}
      /\ UNCHANGED <<toIApp, toX, map, ipc, ireq, ilist>>
  <2>1. k0 \in Tokens /\ Tokens' \subseteq Tokens \ {k0} /\ Finding' = Finding \cup {k0}
    BY TokensStep
  <2>2. UNCHANGED <<toIApp, toX, map, ipc, ireq, ilist>>
    BY DEF TStop, Fail, msgVars, ricVars, iappVars
  <2> QED
    BY <2>1, <2>2
<1> HIDE DEF k0
<1>1. ~IForward
  BY <1>0 DEF IForward
<1>2. Owner(k0[2])' \in {Owner(k0[2]), NoEntry} /\ Sent(x)' \subseteq Sent(x)
  BY <1>0, <1>1, OwnersFall, TokensTyped, SentStep
<1>3. Asked(x)' = Asked(x) /\ Taken(x)' = Taken(x) /\ Listed(x)' = Listed(x) /\ Replies(x)' = Replies(x)
  BY <1>0 DEF Asked, Taken, Listed, Replies
<1>4. Routed(x)' \subseteq Routed(x)
  <2>1. ~\E u \in tasks : TFind(u)
    <3>1. pending' # pending
      BY TokensAfterStop, <1>0 DEF OneAnswer, k0
    <3> QED
      BY <3>1 DEF TFind, ricVars
  <2> QED
    BY <2>1, RoutedStep
<1>5. CASE ~OfX(x, k0)
  <2>1. Back(x)' \subseteq Back(x)
    <3> SUFFICES ASSUME NEW k \in Finding', OfX(x, k)'
                 PROVE  <<"find", k, <<k[1], Owner(k[2])'.l>> >> \in Back(x)
      BY DEF Back
    <3>1. k # k0
      BY <1>2, <1>5 DEF OfX
    <3> QED
      BY <1>0, <1>1, <3>1, SentStep
  <2>2. Carriers(x)' \subseteq Carriers(x)
    BY <1>2, <1>3, <1>4, <2>1 DEF Carriers
  <2> QED
    BY <2>2, Fewer
<1>6. CASE OfX(x, k0)
  <2> DEFINE c == <<"tok", k0, <<k0[1], Owner(k0[2]).l>> >>
             e == <<"find", k0, <<k0[1], Owner(k0[2]).l>> >>
  <2>1. c \in Sent(x) /\ e[3] = c[3] /\ c[1] = "tok"
    BY <1>0, <1>6 DEF Sent
  <2>2. Sent(x)' \subseteq Sent(x) \ {c}
    <3>1. \A b \in Sent(x)' : b[2] \in Tokens'
      BY DEF Sent
    <3>2. c[2] = k0 /\ k0 \notin Tokens'
      BY <1>0
    <3> QED
      BY <1>2, <3>1, <3>2
  <2>3. Back(x)' \subseteq Back(x) \cup {e}
    <3> SUFFICES ASSUME NEW k \in Finding', OfX(x, k)'
                 PROVE  <<"find", k, <<k[1], Owner(k[2])'.l>> >> \in Back(x) \cup {e}
      BY DEF Back
    <3>1. CASE k \in Finding
      BY <1>1, <3>1, SentStep
    <3>2. CASE k = k0
      BY <1>2, <3>2 DEF OfX
    <3> QED
      BY <1>0, <3>1, <3>2
  <2> HIDE DEF c, e
  <2>4. Carriers(x)' \subseteq (Carriers(x) \ {c}) \cup {e} /\ c \in Carriers(x)
    BY <1>3, <1>4, <2>1, <2>2, <2>3, Tags DEF Carriers
  <2> QED
    BY <2>1, <2>4, Moved
<1> QED
  BY <1>5, <1>6

\* find_xapp_map_ric_id: the call is with the worker that answers it.
LEMMA FindTaskMoves ==
  ASSUME Types, OneAnswer, Kinds, Next, abort' = "none", NEW x \in XApps, NEW v, Single(Carriers(x), v),
         NEW t \in tasks, TFind(t)
  PROVE  Single(Carriers(x)', v)
<1> DEFINE k0 == <<t.op, t.i>>
<1>0. UNCHANGED <<toIApp, toX, map, ipc, ireq, ilist, iid, toN, pending>>
  BY DEF TFind, msgVars, ricVars, iappVars
<1>1. ~IForward
  BY <1>0, NextIdGrows DEF IForward, TFind, iappVars
<1>2. Tokens' = Tokens /\ Finding' \subseteq Finding /\ (t.op # "ind" => k0 \in Finding \ Finding')
  <2>1. Answers' = Answers /\ Finding' \subseteq Finding /\ (t.op # "ind" => k0 \in Finding \ Finding')
    BY TokensAfterFind
  <2> QED
    BY <1>0, <2>1 DEF Tokens, Sending, Queued
<1>3. Sent(x)' \subseteq Sent(x) /\ Back(x)' \subseteq Back(x)
  BY <1>1, <1>2, SentStep
<1>4. Asked(x)' = Asked(x) /\ Taken(x)' = Taken(x) /\ Listed(x)' = Listed(x) /\ Replies(x)' = Replies(x)
  BY <1>0 DEF Asked, Taken, Listed, Replies
<1>5. /\ t \in Tasks /\ t.i \in Ids /\ Owner(t.i) = map[t.i]
      /\ t.pc = "find"
  BY FoundOwner DEF TFind
<1>6. CASE ~(t.op # "ind" /\ map[t.i] # NoEntry /\ map[t.i].x = x)
  <2>1. \A u \in tasks' : u.pc = "tx" /\ u.op # "ind" /\ u.to.x = x => u \in tasks
    BY <1>6, FindMoves
  <2>2. Routed(x)' \subseteq Routed(x)
    BY <2>1 DEF Routed
  <2>3. Carriers(x)' \subseteq Carriers(x)
    BY <1>3, <1>4, <2>2 DEF Carriers
  <2> QED
    BY <2>3, Fewer
<1>7. CASE t.op # "ind" /\ map[t.i] # NoEntry /\ map[t.i].x = x
  <2>1. PICK u \in Tasks : \/ tasks' = tasks \ {t}
                           \/ /\ tasks' = (tasks \ {t}) \cup {u}
                              /\ u.op = t.op /\ u.i = t.i /\ u.pc = "tx" /\ u.to = map[t.i]
    BY <1>5, FindMoves
  <2> DEFINE c == <<"find", k0, <<t.op, map[t.i].l>> >>
             e == <<"tx", u, <<t.op, map[t.i].l>> >>
  <2>2. c \in Back(x) /\ e[3] = c[3] /\ c[1] = "find"
    <3>1. k0[1] = t.op /\ k0[2] = t.i /\ OfX(x, k0) /\ Owner(k0[2]).l = map[t.i].l
      BY <1>5, <1>7 DEF OfX
    <3>2. k0 \in Finding
      BY <1>2, <1>7
    <3> HIDE DEF k0
    <3> QED
      BY <3>1, <3>2 DEF Back
  <2>3. Back(x)' \subseteq Back(x) \ {c}
    <3>1. \A b \in Back(x)' : b[2] \in Finding'
      BY DEF Back
    <3>2. c[2] = k0 /\ k0 \notin Finding'
      BY <1>2, <1>7
    <3> QED
      BY <1>3, <3>1, <3>2
  <2>4. Routed(x)' \subseteq Routed(x) \cup {e}
    BY <2>1 DEF Routed
  <2> HIDE DEF c, e
  <2>5. Carriers(x)' \subseteq (Carriers(x) \ {c}) \cup {e} /\ c \in Carriers(x)
    BY <1>3, <1>4, <2>2, <2>3, <2>4, Tags DEF Carriers
  <2> QED
    BY <2>2, <2>5, Moved
<1> QED
  BY <1>6, <1>7

\* e2ap_send_sctp_msg_iapp: the call is on its way back.
LEMMA SendTaskMoves ==
  ASSUME Types, OneAnswer, Next, abort' = "none", NEW x \in XApps, NEW v, Single(Carriers(x), v),
         NEW t \in tasks, TSend(t)
  PROVE  Single(Carriers(x)', v)
<1>0. UNCHANGED <<toIApp, toN, map, ipc, ireq, ilist, iid, pending, nextId>>
  BY DEF TSend, ricVars, iappVars
<1>1. ~IForward
  BY <1>0, NextIdGrows DEF IForward
<1>2. Tokens' = Tokens /\ Finding' = Finding
  <2>1. Answers' = Answers /\ Finding' = Finding
    BY TokensAfterRest
  <2> QED
    BY <1>0, <2>1 DEF Tokens, Sending, Queued
<1>3. Sent(x)' \subseteq Sent(x) /\ Back(x)' \subseteq Back(x)
  BY <1>1, <1>2, SentStep
<1>4. Asked(x)' = Asked(x) /\ Taken(x)' = Taken(x) /\ Listed(x)' = Listed(x)
  BY <1>0 DEF Asked, Taken, Listed
<1> DEFINE r == [x |-> t.to.x, l |-> t.to.l, op |-> t.op]
<1>5. /\ toX' = toX \cup {r} /\ r.x = t.to.x /\ r.l = t.to.l /\ r.op = t.op /\ t.pc = "tx"
      /\ \A u \in tasks' : u.pc = "tx" => u \in tasks /\ u # t
  BY SendMoves
<1> HIDE DEF r
<1>6. CASE ~(t.op # "ind" /\ t.to.x = x)
  <2>1. Replies(x)' \subseteq Replies(x) /\ Routed(x)' \subseteq Routed(x)
    BY <1>5, <1>6 DEF Replies, Routed
  <2>2. Carriers(x)' \subseteq Carriers(x)
    BY <1>3, <1>4, <2>1 DEF Carriers
  <2> QED
    BY <2>2, Fewer
<1>7. CASE t.op # "ind" /\ t.to.x = x
  <2> DEFINE c == <<"tx", t, <<t.op, t.to.l>> >>
             e == <<"msg", r, <<t.op, t.to.l>> >>
  <2>1. c \in Routed(x) /\ e[3] = c[3] /\ c[1] = "tx"
    BY <1>5, <1>7 DEF Routed
  <2>2. Routed(x)' \subseteq Routed(x) \ {c}
    BY <1>5 DEF Routed
  <2>3. Replies(x)' \subseteq Replies(x) \cup {e}
    BY <1>5 DEF Replies
  <2> HIDE DEF c, e
  <2>4. Carriers(x)' \subseteq (Carriers(x) \ {c}) \cup {e} /\ c \in Carriers(x)
    BY <1>3, <1>4, <2>1, <2>2, <2>3, Tags DEF Carriers
  <2> QED
    BY <2>1, <2>4, Moved
<1> QED
  BY <1>6, <1>7

\* The losses: what comes back for an xApp is about one that has vanished.
GoneAreDead == \A m \in toIApp : m.op = "gone" => ~alive[m.x]

\* A call of a live xApp is in at most one place.
LEMMA OneCarrierStep ==
  ASSUME OwnRanFunc, Types, OneAnswer, Issued, Kinds, OneCarrier, GoneAreDead, Next, abort' = "none"
  PROVE  OneCarrier'
<1> SUFFICES ASSUME NEW x \in XApps, alive'[x] PROVE Single(Carriers(x)', xcall'[x])
  BY DEF OneCarrier
<1>0. /\ xcall \in [XApps -> {<<>>} \cup (Ops \X Locals)] /\ alive \in [XApps -> BOOLEAN]
      /\ \A m \in toX : m.x \in XApps
  BY DEF Types, XAppTypes, MessageTypes, ToXApp
<1>1. ASSUME (\E n \in Nodes, op \in {"sub", "ctrl"} : XRequest(x, n, op)) \/ (\E l \in Locals : XDelete(x, l))
      PROVE  Single(Carriers(x)', xcall'[x])
  <2>1. PICK r : /\ toIApp' = toIApp \cup {r} /\ r.x = x /\ r.op # "gone"
                 /\ xcall'[x] = <<r.op, r.l>> /\ xcall[x] = <<>> /\ alive[x]
                 /\ UNCHANGED <<toX, toN, ricVars, iappVars, tasks>>
    <3>1. ASSUME NEW n \in Nodes, NEW op \in {"sub", "ctrl"}, XRequest(x, n, op)
          PROVE  \E r : /\ toIApp' = toIApp \cup {r} /\ r.x = x /\ r.op # "gone"
                        /\ xcall'[x] = <<r.op, r.l>> /\ xcall[x] = <<>> /\ alive[x]
                        /\ UNCHANGED <<toX, toN, ricVars, iappVars, tasks>>
      <4> DEFINE r == [x |-> x, l |-> xnext[x], n |-> n, op |-> op]
      <4>1. r.x = x /\ r.op = op /\ r.l = xnext[x] /\ toIApp' = toIApp \cup {r}
        BY <3>1 DEF XRequest
      <4> HIDE DEF r
      <4> QED
        BY <1>0, <3>1, <4>1 DEF XRequest
    <3>2. ASSUME NEW l \in Locals, XDelete(x, l)
          PROVE  \E r : /\ toIApp' = toIApp \cup {r} /\ r.x = x /\ r.op # "gone"
                        /\ xcall'[x] = <<r.op, r.l>> /\ xcall[x] = <<>> /\ alive[x]
                        /\ UNCHANGED <<toX, toN, ricVars, iappVars, tasks>>
      <4> DEFINE r == [x |-> x, l |-> l, op |-> "del"]
      <4>1. r.x = x /\ r.op = "del" /\ r.l = l /\ toIApp' = toIApp \cup {r}
        BY <3>2 DEF XDelete
      <4> HIDE DEF r
      <4> QED
        BY <1>0, <3>2, <4>1 DEF XDelete
    <3> QED
      BY <1>1, <3>1, <3>2
  <2>2. Carriers(x) = {}
    BY <2>1, Pairs DEF OneCarrier, Single
  <2>3. UNCHANGED <<toX, map, tasks, ipc, ireq, iid, ilist, toN>>
    BY <2>1 DEF ricVars, iappVars
  <2>4. Tokens' = Tokens /\ Finding' = Finding
    BY <2>3 DEF Tokens, Sending, Queued, Answers, Finding
  <2>5. \A i : Owner(i)' = Owner(i)
    BY <2>3 DEF Owner, Adding
  <2>6. /\ Taken(x)' = Taken(x) /\ Listed(x)' = Listed(x) /\ Routed(x)' = Routed(x) /\ Replies(x)' = Replies(x)
    BY <2>3 DEF Taken, Listed, Routed, Replies
  <2>7. Sent(x)' = Sent(x) /\ Back(x)' = Back(x)
    BY <2>4, <2>5 DEF Sent, Back, OfX
  <2> DEFINE e == <<"req", r, <<r.op, r.l>> >>
  <2>8. Asked(x)' \subseteq Asked(x) \cup {e}
    BY <2>1 DEF Asked
  <2>9. e[3] = xcall'[x]
    BY <2>1
  <2> HIDE DEF e
  <2>10. Carriers(x)' \subseteq {e}
    BY <2>2, <2>6, <2>7, <2>8 DEF Carriers
  <2> QED
    BY <2>9, <2>10 DEF Single
<1>2. ASSUME NEW m \in toX, XReceive(m), m.x = x PROVE Single(Carriers(x)', xcall'[x])
  <2>1. UNCHANGED <<toIApp, toN, map, tasks, ipc, ireq, iid, ilist>> /\ toX' = toX \ {m} /\ alive[x]
    BY <1>2 DEF XReceive, ricVars, iappVars
  <2>2. Tokens' = Tokens /\ Finding' = Finding
    BY <2>1 DEF Tokens, Sending, Queued, Answers, Finding
  <2>3. \A i : Owner(i)' = Owner(i)
    BY <2>1 DEF Owner, Adding
  <2>4. Taken(x)' = Taken(x) /\ Listed(x)' = Listed(x) /\ Routed(x)' = Routed(x) /\ Asked(x)' = Asked(x)
    BY <2>1 DEF Taken, Listed, Routed, Asked
  <2>5. Sent(x)' = Sent(x) /\ Back(x)' = Back(x)
    BY <2>2, <2>3 DEF Sent, Back, OfX
  <2>6. Replies(x)' \subseteq Replies(x)
    BY <2>1 DEF Replies
  <2>7. Carriers(x)' \subseteq Carriers(x) /\ Single(Carriers(x), xcall[x])
    BY <2>1, <2>4, <2>5, <2>6 DEF Carriers, OneCarrier
  <2>8. CASE m.op = "ind"
    <3>1. xcall' = xcall
      BY <1>2, <2>8 DEF XReceive, xVars
    <3> QED
      BY <2>7, <3>1, Fewer
  <2>9. CASE m.op # "ind"
    <3> DEFINE c == <<"msg", m, <<m.op, m.l>> >>
    <3>1. c \in Replies(x) /\ c \notin Replies(x)' /\ c[1] = "msg"
      BY <1>2, <2>1, <2>9 DEF Replies
    <3> HIDE DEF c
    <3>2. c \in Carriers(x) /\ c \notin Carriers(x)'
      BY <2>4, <2>5, <3>1, Tags DEF Carriers
    <3>3. Carriers(x)' = {}
      BY <2>7, <3>2 DEF Single
    <3> QED
      BY <3>3 DEF Single
  <2> QED
    BY <2>8, <2>9
<1>3. CASE /\ ~\E n \in Nodes, op \in {"sub", "ctrl"} : XRequest(x, n, op)
           /\ ~\E l \in Locals : XDelete(x, l)
           /\ ~\E m \in toX : XReceive(m) /\ m.x = x
  <2>1. xcall'[x] = xcall[x] /\ alive[x]
    BY <1>3, CallStep
  <2>2. Single(Carriers(x), xcall[x])
    BY <2>1 DEF OneCarrier
  <2> DEFINE v == xcall[x]
  <2> HIDE DEF v
  <2>3. Single(Carriers(x), v)
    BY <2>2 DEF v
  <2>4. ASSUME \/ IForward \/ (\E m \in toIApp : IRequest(m) \/ IDelete(m) \/ IGone(m))
               \/ \E d \in ilist : IForwardDelete(d)
        PROVE  Single(Carriers(x)', v)
    <3>1. \A m \in toIApp : IGone(m) => m.x # x
      BY <2>1 DEF GoneAreDead, IGone
    <3> QED
      BY <2>3, <2>4, <3>1, ForwardMoves, RequestMoves, DeleteMoves, GoneMoves,
         ForwardDeleteMoves
  <2>5. ASSUME \E t \in tasks : TStop(t) \/ TFind(t) \/ TSend(t)
        PROVE  Single(Carriers(x)', v)
    BY <2>3, <2>5, StopMoves, FindTaskMoves, SendTaskMoves
  <2>6. ASSUME ~(\/ IForward \/ (\E m \in toIApp : IRequest(m) \/ IDelete(m) \/ IGone(m))
                 \/ \E d \in ilist : IForwardDelete(d)),
               ~\E t \in tasks : TStop(t) \/ TFind(t) \/ TSend(t)
        PROVE  Single(Carriers(x)', v)
    <3>1. Asked(x)' \subseteq Asked(x) /\ Taken(x)' \subseteq Taken(x) /\ Listed(x)' \subseteq Listed(x)
      BY <1>3, <2>6, AskedStep, TakenStep, ListedStep
    <3>2. Tokens' \subseteq Tokens /\ Finding' \subseteq Finding
      BY <2>6, TokensStep
    <3>3. Sent(x)' \subseteq Sent(x) /\ Back(x)' \subseteq Back(x)
      BY <2>6, <3>2, SentStep
    <3>4. Routed(x)' \subseteq Routed(x) /\ Replies(x)' \subseteq Replies(x)
      BY <2>6, RoutedStep, RepliesStep
    <3>5. Carriers(x)' \subseteq Carriers(x)
      BY <3>1, <3>3, <3>4 DEF Carriers
    <3> QED
      BY <2>3, <3>5, Fewer
  <2>7. Single(Carriers(x)', v)
    BY <2>4, <2>5, <2>6
  <2> QED
    BY <2>1, <2>7 DEF v
<1> QED
  BY <1>1, <1>2, <1>3

-----------------------------------------------------------------------------
(* What an xApp holds has its entry in map_ric_id *)

HasEntry(x, l) == \E i \in Ids : map[i] # NoEntry /\ map[i].x = x /\ map[i].l = l

HeldBy(x) ==
  /\ \A l \in xsubs[x] : HasEntry(x, l) \/ (xcall[x] = <<"del", l>> /\ Replies(x) # {})
  /\ \A l \in Locals : xcall[x] = <<"del", l>> => l \in xsubs[x]
  /\ \A m \in toX : m.x = x /\ m.op = "sub" => HasEntry(x, m.l)
  /\ \A t \in tasks : t.pc \in {"tx", "rm"} /\ t.op # "ind" /\ t.to.x = x => map[t.i] = t.to
  /\ \A t \in tasks : t.pc = "rm" /\ t.to.x = x /\ t.to.l \in xsubs[x] => xcall[x] = <<"del", t.to.l>>
  /\ \A t \in tasks : t.pc = "rm" /\ t.to.x = x =>
       \A op \in Ops : xcall[x] = <<op, t.to.l>> => op = t.op /\ Replies(x) # {}

Held == \A x \in XApps : alive[x] => HeldBy(x)

\* What an xApp holds stays, unless its tasks, answers or entries change.
LEMMA HeldKept ==
  ASSUME NEW x, HeldBy(x), xcall'[x] = xcall[x], xsubs'[x] = xsubs[x],
         Replies(x) # {} => Replies(x)' # {},
         \A m \in toX' : m.x = x /\ m.op = "sub" => m \in toX,
         \A t \in tasks' : t.pc \in {"tx", "rm"} /\ t.to.x = x => t \in tasks,
         \A l : HasEntry(x, l) => HasEntry(x, l)',
         \A t \in tasks : t.pc \in {"tx", "rm"} /\ t.op # "ind" /\ t.to.x = x /\ map[t.i] = t.to
                            => map'[t.i] = t.to
  PROVE  HeldBy(x)'
BY DEF HeldBy

\* In a state where x lives, it has at most one carrier, and that one carries its call.
LEMMA Carried ==
  ASSUME NEW x \in XApps, alive[x], OneCarrier
  PROVE  /\ \A m \in toX : m.op # "ind" /\ m.x = x => xcall[x] = <<m.op, m.l>> /\ Replies(x) # {}
         /\ \A t \in tasks : t.pc = "tx" /\ t.op # "ind" /\ t.to.x = x =>
              xcall[x] = <<t.op, t.to.l>> /\ Replies(x) = {}
         /\ \A m \in toIApp : m.op # "gone" /\ m.x = x =>
              xcall[x] = <<m.op, m.l>> /\ Replies(x) = {}
         /\ \A k \in Tokens \cup Finding : OfX(x, k) =>
              xcall[x] = <<k[1], Owner(k[2]).l>> /\ Replies(x) = {}
<1>0. Single(Carriers(x), xcall[x])
  BY DEF OneCarrier
<1>1. ASSUME NEW c \in Carriers(x) \ Replies(x), c[1] # "msg" PROVE Replies(x) = {}
  BY <1>0, <1>1, Tags DEF Single, Carriers
<1>2. ASSUME NEW m \in toX, m.op # "ind", m.x = x PROVE xcall[x] = <<m.op, m.l>> /\ Replies(x) # {}
  <2> DEFINE c == <<"msg", m, <<m.op, m.l>> >>
  <2>1. c \in Replies(x) /\ c[3] = <<m.op, m.l>>
    BY <1>2 DEF Replies
  <2> HIDE DEF c
  <2> QED
    BY <1>0, <2>1 DEF Single, Carriers
<1>3. ASSUME NEW t \in tasks, t.pc = "tx", t.op # "ind", t.to.x = x
      PROVE  xcall[x] = <<t.op, t.to.l>> /\ Replies(x) = {}
  <2> DEFINE c == <<"tx", t, <<t.op, t.to.l>> >>
  <2>1. c \in Routed(x) /\ c[3] = <<t.op, t.to.l>> /\ c[1] = "tx"
    BY <1>3 DEF Routed
  <2> HIDE DEF c
  <2>2. c \in Carriers(x) \ Replies(x)
    BY <2>1, Tags DEF Carriers
  <2> QED
    BY <1>0, <1>1, <2>1, <2>2 DEF Single
<1>4. ASSUME NEW m \in toIApp, m.op # "gone", m.x = x
      PROVE  xcall[x] = <<m.op, m.l>> /\ Replies(x) = {}
  <2> DEFINE c == <<"req", m, <<m.op, m.l>> >>
  <2>1. c \in Asked(x) /\ c[3] = <<m.op, m.l>> /\ c[1] = "req"
    BY <1>4 DEF Asked
  <2> HIDE DEF c
  <2>2. c \in Carriers(x) \ Replies(x)
    BY <2>1, Tags DEF Carriers
  <2> QED
    BY <1>0, <1>1, <2>1, <2>2 DEF Single
<1>5. ASSUME NEW k \in Tokens, OfX(x, k) PROVE xcall[x] = <<k[1], Owner(k[2]).l>> /\ Replies(x) = {}
  <2> DEFINE c == <<"tok", k, <<k[1], Owner(k[2]).l>> >>
  <2>1. c \in Sent(x) /\ c[3] = <<k[1], Owner(k[2]).l>> /\ c[1] = "tok"
    BY <1>5 DEF Sent
  <2> HIDE DEF c
  <2>2. c \in Carriers(x) \ Replies(x)
    BY <2>1, Tags DEF Carriers
  <2> QED
    BY <1>0, <1>1, <2>1, <2>2 DEF Single
<1>6. ASSUME NEW k \in Finding, OfX(x, k) PROVE xcall[x] = <<k[1], Owner(k[2]).l>> /\ Replies(x) = {}
  <2> DEFINE c == <<"find", k, <<k[1], Owner(k[2]).l>> >>
  <2>1. c \in Back(x) /\ c[3] = <<k[1], Owner(k[2]).l>> /\ c[1] = "find"
    BY <1>6 DEF Back
  <2> HIDE DEF c
  <2>2. c \in Carriers(x) \ Replies(x)
    BY <2>1, Tags DEF Carriers
  <2> QED
    BY <1>0, <1>1, <2>1, <2>2 DEF Single
<1> QED
  BY <1>2, <1>3, <1>4, <1>5, <1>6

\* The end of a procedure removes the entry of the request that is over, and only then.
LEMMA HeldAfterRemove ==
  ASSUME Types, Keys, Kinds, OneCarrier, abort' = "none",
         NEW x \in XApps, alive[x], HeldBy(x), NEW t \in tasks, TRemove(t)
  PROVE  HeldBy(x)'
<1>1. /\ t \in Tasks /\ t.pc = "rm" /\ t.op \in {"del", "ctrl"} /\ t.to \in Entries /\ t.i \in Ids
      /\ tasks' = tasks \ {t}
      /\ map' = [i \in Ids |-> IF i \in Owned(t.to) THEN NoEntry ELSE map[i]]
      /\ UNCHANGED <<toX, xcall, xsubs>>
  BY DEF TRemove, Finish, Fail, Types, TaskTypes, Tasks, xVars, msgVars
<1>2. Replies(x)' = Replies(x)
  BY <1>1 DEF Replies
<1>3. CASE t.to.x # x
  <2>1. \A i \in Ids : map[i] # NoEntry /\ map[i].x = x => map'[i] = map[i]
    BY <1>1, <1>3 DEF Owned
  <2>2. \A l : HasEntry(x, l) => HasEntry(x, l)'
    BY <2>1 DEF HasEntry
  <2>3. \A u \in tasks : u.pc \in {"tx", "rm"} /\ u.op # "ind" /\ u.to.x = x /\ map[u.i] = u.to
                           => map'[u.i] = u.to
    BY <2>1, Entry DEF Types, TaskTypes, Tasks
  <2> QED
    BY <1>1, <1>2, <2>2, <2>3, HeldKept
<1>4. CASE t.to.x = x
  <2> DEFINE l0 == t.to.l
  <2>0. l0 \in Locals /\ t.to # NoEntry
    BY <1>1, Entry
  <2>1. \A i \in Ids : map[i] # NoEntry /\ map[i].x = x /\ map[i].l # l0 => map'[i] = map[i]
    BY <1>1 DEF Owned
  <2>2. \A l : l # l0 /\ HasEntry(x, l) => HasEntry(x, l)'
    BY <2>1 DEF HasEntry
  <2>3. /\ \A op \in Ops : xcall[x] = <<op, l0>> => op = t.op /\ Replies(x) # {}
        /\ l0 \in xsubs[x] => xcall[x] = <<"del", l0>>
        /\ map[t.i] = t.to
    BY <1>1, <1>4 DEF HeldBy
  <2>4. l0 \in xsubs[x] => xcall[x] = <<"del", l0>> /\ Replies(x) # {}
    BY <2>3 DEF Ops
  <2>5. \A m \in toX : m.x = x /\ m.op = "sub" => m.l # l0
    <3> SUFFICES ASSUME NEW m \in toX, m.x = x, m.op = "sub", m.l = l0 PROVE FALSE
      OBVIOUS
    <3>1. xcall[x] = <<"sub", l0>>
      BY Carried
    <3> QED
      BY <1>1, <2>3, <3>1 DEF Ops
  <2>6. \A u \in tasks : u.pc = "tx" /\ u.op # "ind" /\ u.to.x = x => u.to.l # l0
    <3> SUFFICES ASSUME NEW u \in tasks, u.pc = "tx", u.op # "ind", u.to.x = x, u.to.l = l0 PROVE FALSE
      OBVIOUS
    <3>1. xcall[x] = <<u.op, l0>> /\ Replies(x) = {} /\ u.op \in Ops
      BY Carried DEF Types, TaskTypes, Tasks
    <3> QED
      BY <2>3, <3>1
  <2>7. \A u \in tasks' : u.pc = "rm" /\ u.to.x = x => u.to.l # l0
    <3> SUFFICES ASSUME NEW u \in tasks', u.pc = "rm", u.to.x = x, u.to.l = l0 PROVE FALSE
      OBVIOUS
    <3>1. /\ u \in tasks /\ u # t /\ u \in Tasks /\ u.op \in {"del", "ctrl"} /\ u.i \in Ids
          /\ u.to \in Entries
      BY <1>1 DEF Types, TaskTypes, Tasks
    <3>2. map[u.i] = u.to /\ u.to # NoEntry
      BY <3>1, Entry DEF HeldBy
    <3>3. u.i = t.i
      BY <1>1, <1>4, <2>0, <2>3, <3>1, <3>2 DEF Keys, Same
    <3>4. u.to = t.to /\ u.to.op = KindOf(u.op) /\ t.to.op = KindOf(t.op)
      BY <1>1, <2>3, <3>1, <3>2, <3>3 DEF Kinds
    <3>5. u.op = t.op
      BY <1>1, <3>1, <3>4 DEF KindOf
    <3> QED
      BY <1>1, <3>1, <3>3, <3>4, <3>5 DEF Tasks
  <2>8. \A u \in tasks : u.pc \in {"tx", "rm"} /\ u.op # "ind" /\ u.to.x = x /\ u.to.l # l0
                           => map'[u.i] = u.to
    <3> SUFFICES ASSUME NEW u \in tasks, u.pc \in {"tx", "rm"}, u.op # "ind", u.to.x = x, u.to.l # l0
                 PROVE  map'[u.i] = u.to
      OBVIOUS
    <3>1. u.i \in Ids /\ u.to \in Entries /\ map[u.i] = u.to
      BY DEF Types, TaskTypes, Tasks, HeldBy
    <3> QED
      BY <2>1, <3>1, Entry
  <2> HIDE DEF l0
  <2>9. \A l \in xsubs[x] : HasEntry(x, l)' \/ (xcall[x] = <<"del", l>> /\ Replies(x) # {})
    BY <2>2, <2>4 DEF HeldBy
  <2>10. \A m \in toX : m.x = x /\ m.op = "sub" => HasEntry(x, m.l)'
    BY <2>2, <2>5 DEF HeldBy
  <2>11. \A u \in tasks' : u.pc \in {"tx", "rm"} /\ u.op # "ind" /\ u.to.x = x => map'[u.i] = u.to
    BY <1>1, <2>6, <2>7, <2>8
  <2> QED
    BY <1>1, <1>2, <2>9, <2>10, <2>11 DEF HeldBy
<1> QED
  BY <1>3, <1>4

\* A task that found an entry has that of its id.
LEMMA HeldAfterFind ==
  ASSUME Types, abort' = "none", NEW x \in XApps, HeldBy(x), NEW t \in tasks, TFind(t)
  PROVE  HeldBy(x)'
<1>1. UNCHANGED <<toX, xcall, xsubs, map>>
  BY DEF TFind, xVars, msgVars, ricVars
<1>2. \A l : HasEntry(x, l)' = HasEntry(x, l)
  BY <1>1 DEF HasEntry
<1>3. Replies(x)' = Replies(x)
  BY <1>1 DEF Replies
<1>4. \A u \in tasks' : \/ u \in tasks
                        \/ u.pc = "tx" /\ map[u.i] = u.to
  BY FindMoves
<1> QED
  BY <1>1, <1>2, <1>3, <1>4 DEF HeldBy

\* A grant is sent while its entry is there; an entry to be removed is not held.
LEMMA HeldAfterSend ==
  ASSUME Types, Kinds, OneCarrier, NEW x \in XApps, alive[x], HeldBy(x), NEW t \in tasks, TSend(t)
  PROVE  HeldBy(x)'
<1>1. UNCHANGED <<xcall, xsubs, map>>
  BY DEF TSend, xVars, ricVars
<1>2. \A l : HasEntry(x, l)' = HasEntry(x, l)
  BY <1>1 DEF HasEntry
<1> DEFINE r == [x |-> t.to.x, l |-> t.to.l, op |-> t.op]
<1>3. /\ toX' = toX \cup {r} /\ r.x = t.to.x /\ r.l = t.to.l /\ r.op = t.op /\ t.pc = "tx"
      /\ t \in Tasks /\ t.to \in Entries /\ t.i \in Ids
      /\ \A u \in tasks' : \/ u \in tasks
                           \/ /\ u.pc = "rm" /\ u.to = t.to /\ u.op = t.op /\ u.i = t.i
                              /\ t.op \in {"del", "ctrl"}
  BY SendMoves DEF Types, TaskTypes, Tasks
<1> HIDE DEF r
<1>4. Replies(x) # {} => Replies(x)' # {}
  BY <1>3 DEF Replies
<1>5. t.op # "ind" /\ t.to.x = x => /\ Replies(x)' # {} /\ map[t.i] = t.to
                                    /\ xcall[x] = <<t.op, t.to.l>>
  <2> SUFFICES ASSUME t.op # "ind", t.to.x = x
               PROVE  Replies(x)' # {} /\ map[t.i] = t.to /\ xcall[x] = <<t.op, t.to.l>>
    OBVIOUS
  <2>1. r \in toX' /\ r.op # "ind" /\ r.x = x
    BY <1>3
  <2>2. <<"msg", r, <<r.op, r.l>> >> \in Replies(x)'
    BY <2>1 DEF Replies
  <2> QED
    BY <1>3, <2>2, Carried DEF HeldBy
<1>6. t.op = "ctrl" /\ t.to.x = x => t.to.l \notin xsubs[x]
  <2> SUFFICES ASSUME t.op = "ctrl", t.to.x = x, t.to.l \in xsubs[x] PROVE FALSE
    OBVIOUS
  <2>1. t.to.op = "ctrl"
    BY <1>3 DEF Kinds, KindOf
  <2>2. map[t.i] = t.to /\ t.to # NoEntry
    BY <1>3, <1>5, Entry
  <2> QED
    BY <1>3, <2>1, <2>2 DEF Kinds, NoCtrl
<1>7. \A m \in toX' : m.x = x /\ m.op = "sub" => HasEntry(x, m.l)
  <2>1. t.op = "sub" /\ t.to.x = x => HasEntry(x, t.to.l)
    BY <1>3, <1>5, Entry DEF HasEntry
  <2> QED
    BY <1>3, <2>1 DEF HeldBy
<1>8. \A u \in tasks' : u.pc \in {"tx", "rm"} /\ u.op # "ind" /\ u.to.x = x => map[u.i] = u.to
  BY <1>3, <1>5 DEF HeldBy
<1>9. \A u \in tasks' : u.pc = "rm" /\ u.to.x = x /\ u.to.l \in xsubs[x] => xcall[x] = <<"del", u.to.l>>
  BY <1>3, <1>5, <1>6 DEF HeldBy
<1>10. \A u \in tasks' : u.pc = "rm" /\ u.to.x = x =>
         \A op \in Ops : xcall[x] = <<op, u.to.l>> => op = u.op /\ Replies(x)' # {}
  BY <1>3, <1>4, <1>5 DEF HeldBy
<1>11. \A l \in xsubs[x] : HasEntry(x, l) \/ (xcall[x] = <<"del", l>> /\ Replies(x)' # {})
  BY <1>4 DEF HeldBy
<1> QED
  BY <1>1, <1>2, <1>7, <1>8, <1>9, <1>10, <1>11 DEF HeldBy

\* A new call concerns none of the entries to be removed.
LEMMA HeldAfterCall ==
  ASSUME Types, Keys, NEW x \in XApps, HeldBy(x),
         \/ \E n \in Nodes, op \in {"sub", "ctrl"} : XRequest(x, n, op)
         \/ \E l \in Locals : XDelete(x, l)
  PROVE  HeldBy(x)'
<1>0. xcall \in [XApps -> {<<>>} \cup (Ops \X Locals)] /\ xnext[x] \in Nat
  BY BoundsAssumption DEF Types, XAppTypes
<1>1. PICK o \in Ops, l \in Locals : /\ xcall[x] = <<>> /\ xcall' = [xcall EXCEPT ![x] = <<o, l>>]
                                     /\ UNCHANGED <<xsubs, toX, tasks, map>>
                                     /\ o = "del" => l \in xsubs[x]
                                     /\ o # "del" => l = xnext[x]
  <2>1. ASSUME NEW n \in Nodes, NEW op \in {"sub", "ctrl"}, XRequest(x, n, op)
        PROVE  xnext[x] \in Locals /\ op \in Ops /\ op # "del"
    BY <1>0, <2>1, BoundsAssumption DEF XRequest, Locals, Ops, Types, XAppTypes
  <2> QED
    BY <2>1 DEF XRequest, XDelete, Ops, ricVars
<1>2. xcall'[x] = <<o, l>>
  BY <1>0, <1>1
<1>3. Replies(x)' = Replies(x) /\ \A k : HasEntry(x, k)' = HasEntry(x, k)
  BY <1>1 DEF Replies, HasEntry
<1>4. \A a, b : xcall[x] # <<a, b>>
  BY <1>1
<1>5. \A k \in xsubs[x] : HasEntry(x, k)
  BY <1>4 DEF HeldBy
<1>6. \A t \in tasks : t.pc = "rm" /\ t.to.x = x => t.to.l \notin xsubs[x] /\ t.to.l # l
  <2> SUFFICES ASSUME NEW t \in tasks, t.pc = "rm", t.to.x = x
               PROVE  t.to.l \notin xsubs[x] /\ t.to.l # l
    OBVIOUS
  <2>1. t.to.l \notin xsubs[x]
    BY <1>4 DEF HeldBy
  <2>2. t.to \in Entries /\ t.op \in {"del", "ctrl"} /\ t.i \in Ids
    BY DEF Types, TaskTypes, Tasks
  <2>3. map[t.i] = t.to /\ map[t.i] # NoEntry
    BY <2>2, Entry DEF HeldBy
  <2>4. t.to.l < xnext[x] /\ t.to.l \in Nat
    BY <2>2, <2>3 DEF Keys, Entries, Locals
  <2> QED
    BY <1>0, <1>1, <2>1, <2>4
<1>7. \A k : xcall'[x] = <<"del", k>> => k \in xsubs[x]
  BY <1>1, <1>2
<1>8. \A t \in tasks : t.pc = "rm" /\ t.to.x = x => \A op \in Ops : xcall'[x] # <<op, t.to.l>>
  BY <1>2, <1>6
<1>9. /\ \A m \in toX : m.x = x /\ m.op = "sub" => HasEntry(x, m.l)
      /\ \A t \in tasks : t.pc \in {"tx", "rm"} /\ t.op # "ind" /\ t.to.x = x => map[t.i] = t.to
  BY DEF HeldBy
<1> QED
  BY <1>1, <1>3, <1>5, <1>6, <1>7, <1>8, <1>9 DEF HeldBy

\* An xApp holds what it is granted and drops what it deleted.
LEMMA HeldAfterReceive ==
  ASSUME Types, OneCarrier, NEW x \in XApps, HeldBy(x),
         NEW m \in toX, m.x = x, XReceive(m)
  PROVE  alive' = alive /\ HeldBy(x)'
<1>0. /\ x \in XApps /\ alive[x] /\ m.l \in Locals /\ m.op \in Ops \cup {"ind"}
      /\ toX' = toX \ {m} /\ UNCHANGED <<map, tasks>>
      /\ xcall \in [XApps -> {<<>>} \cup (Ops \X Locals)] /\ xsubs \in [XApps -> SUBSET Locals]
  BY DEF XReceive, Types, MessageTypes, ToXApp, XAppTypes, ricVars
<1>1. \A k : HasEntry(x, k)' = HasEntry(x, k)
  BY <1>0 DEF HasEntry
<1>2. CASE m.op = "ind"
  <2>1. UNCHANGED <<alive, xcall, xsubs>>
    BY <1>2 DEF XReceive, xVars
  <2>2. Replies(x)' = Replies(x)
    BY <1>0, <1>2 DEF Replies
  <2>3. HeldBy(x) => HeldBy(x)'
    BY <1>0, <1>1, <2>1, <2>2 DEF HeldBy
  <2> QED
    BY <2>1, <2>3
<1>3. CASE m.op # "ind"
  <2>0. xcall[x] = <<m.op, m.l>> /\ m.op \in Ops
    BY <1>0, <1>3, Carried
  <2>1. /\ alive' = alive /\ xcall'[x] = <<>>
        /\ xsubs'[x] = CASE m.op = "sub" -> xsubs[x] \cup {m.l}
                         [] m.op = "del" -> xsubs[x] \ {m.l}
                         [] OTHER -> xsubs[x]
    BY <1>0, <1>3, <2>0 DEF XReceive
  <2>2. HeldBy(x)
    OBVIOUS
  <2>4. m.op = "sub" => HasEntry(x, m.l)
    BY <2>2 DEF HeldBy
  <2>5. \A l : l \in xsubs'[x] => (l \in xsubs[x] \/ (m.op = "sub" /\ l = m.l)) /\ ~(m.op = "del" /\ l = m.l)
    BY <2>1
  <2>6. \A l \in xsubs[x] : xcall[x] # <<"del", l>> => HasEntry(x, l)
    BY <2>2 DEF HeldBy
  <2>7. \A l \in xsubs'[x] : HasEntry(x, l)
    BY <2>0, <2>4, <2>5, <2>6
  <2>8. \A t \in tasks : t.pc = "rm" /\ t.to.x = x => t.to.l \notin xsubs'[x]
    <3> SUFFICES ASSUME NEW t \in tasks, t.pc = "rm", t.to.x = x, t.to.l \in xsubs'[x] PROVE FALSE
      OBVIOUS
    <3>0. t.op \in {"del", "ctrl"}
      BY DEF Types, TaskTypes
    <3>1. CASE t.to.l \in xsubs[x]
      <4>1. xcall[x] = <<"del", t.to.l>>
        BY <2>2, <3>1 DEF HeldBy
      <4> QED
        BY <2>0, <2>5, <4>1
    <3>2. CASE m.op = "sub" /\ t.to.l = m.l
      <4>1. t.op = "sub"
        BY <2>0, <2>2, <3>2 DEF HeldBy
      <4> QED
        BY <3>0, <4>1
    <3> QED
      BY <2>5, <3>1, <3>2
  <2>9. \A a, b : xcall'[x] # <<a, b>>
    BY <2>1
  <2>10. /\ \A r \in toX' : r.x = x /\ r.op = "sub" => HasEntry(x, r.l)
         /\ \A t \in tasks : t.pc \in {"tx", "rm"} /\ t.op # "ind" /\ t.to.x = x => map[t.i] = t.to
    BY <1>0, <2>2 DEF HeldBy
  <2>11. HeldBy(x)'
    BY <1>0, <1>1, <2>7, <2>8, <2>9, <2>10 DEF HeldBy
  <2> QED
    BY <2>1, <2>11
<1> QED
  BY <1>2, <1>3

\* What a live xApp holds has its entry until its deletion is answered.
LEMMA HeldStep ==
  ASSUME Types, Keys, Kinds, Issued, OneCarrier, Held, Next, abort' = "none"
  PROVE  Held'
<1> SUFFICES ASSUME NEW x \in XApps, alive'[x] PROVE HeldBy(x)'
  BY DEF Held
<1>1. CASE \/ \E n \in Nodes, op \in {"sub", "ctrl"} : XRequest(x, n, op)
           \/ \E l \in Locals : XDelete(x, l)
  <2>1. alive[x]
    BY <1>1 DEF XRequest, XDelete
  <2> QED
    BY <1>1, <2>1, HeldAfterCall DEF Held
<1>2. ASSUME NEW m \in toX, XReceive(m), m.x = x PROVE HeldBy(x)'
  <2>1. alive[x]
    BY <1>2 DEF XReceive
  <2> QED
    BY <1>2, <2>1, HeldAfterReceive DEF Held
<1>3. CASE /\ ~\E n \in Nodes, op \in {"sub", "ctrl"} : XRequest(x, n, op)
           /\ ~\E l \in Locals : XDelete(x, l)
           /\ ~\E m \in toX : XReceive(m) /\ m.x = x
  <2>1. xcall'[x] = xcall[x] /\ alive[x] /\ HeldBy(x)
    BY <1>3, CallStep DEF Held
  <2>2. xsubs'[x] = xsubs[x]
    <3>1. xsubs \in [XApps -> SUBSET Locals]
      BY DEF Types, XAppTypes
    <3>2. ASSUME NEW m \in toX, XReceive(m) PROVE xsubs'[x] = xsubs[x]
      BY <1>3, <3>1, <3>2 DEF XReceive, xVars
    <3> QED
      BY <3>2, XAppWriters DEF XRequest, XDelete, XDie, xVars
  <2>3. ASSUME \E t \in tasks : TRemove(t) \/ TFind(t) \/ TSend(t) PROVE HeldBy(x)'
    BY <2>1, <2>3, HeldAfterRemove, HeldAfterFind, HeldAfterSend
  <2>4. ASSUME ~\E t \in tasks : TRemove(t) \/ TFind(t) \/ TSend(t) PROVE HeldBy(x)'
    <3>1. \A t \in tasks' : t.pc \in {"tx", "rm"} => t \in tasks
      BY <2>4, LaterTasks
    <3>2. \A i \in Ids : map[i] # NoEntry => map'[i] = map[i]
      <4>1. CASE IAdd
        <5>1. Adding
          BY <4>1, AddingStep DEF IAppStep
        <5>2. map[iid] = NoEntry /\ \A i \in Ids \ {iid} : map'[i] = map[i]
          BY <4>1, <5>1 DEF IAdd, Types, TableTypes, Fail, Issued
        <5> QED
          BY <5>2
      <4> QED
        BY <2>4, <4>1, MapWriters
    <3>3. \A l : HasEntry(x, l) => HasEntry(x, l)'
      BY <3>2 DEF HasEntry
    <3>4. \A t \in tasks : t.pc \in {"tx", "rm"} /\ t.op # "ind" /\ t.to.x = x /\ map[t.i] = t.to
                             => map'[t.i] = t.to
      BY <3>2, Entry DEF Types, TaskTypes, Tasks
    <3>5. toX' \subseteq toX /\ \A r \in toX : r.x = x => r \in toX'
      <4>1. ASSUME NEW m \in toX, XReceive(m) \/ SendFailed(m)
            PROVE  toX' \subseteq toX /\ \A r \in toX : r.x = x => r \in toX'
        <5>1. m.x # x /\ toX' = toX \ {m}
          BY <1>3, <2>1, <4>1 DEF XReceive, SendFailed
        <5> QED
          BY <5>1
      <4> QED
        BY <2>4, <4>1, ReplyWriters
    <3>6. Replies(x)' = Replies(x)
      BY <3>5 DEF Replies
    <3> QED
      BY <2>1, <2>2, <3>1, <3>3, <3>4, <3>5, <3>6, HeldKept
  <2> QED
    BY <2>3, <2>4
<1> QED
  BY <1>1, <1>2, <1>3

-----------------------------------------------------------------------------
(* Losses *)

AllAlive == \A x \in XApps : alive[x]
Lost ==
  /\ GoneAreDead
  /\ AllAlive => \A k \in Tokens \cup Finding : k[1] # "del" => Owner(k[2]) # NoEntry

\* An xApp that vanished does not come back.
LEMMA AliveFalls ==
  ASSUME Types, Next
  PROVE  \A x \in XApps : alive'[x] => alive[x]
<1>0. alive \in [XApps -> BOOLEAN]
  BY DEF Types, XAppTypes
<1>1. ASSUME NEW m \in toX, XReceive(m) PROVE \A x \in XApps : alive'[x] => alive[x]
  BY <1>0, <1>1 DEF XReceive, xVars
<1> QED
  BY <1>0, <1>1, XAppWriters DEF XRequest, XDelete, XDie, xVars

\* While no xApp has vanished, what is under way has an owner.
LEMMA LostStep ==
  ASSUME Types, OneAnswer, Issued, Kinds, OneCarrier, Held, Lost, Next, abort' = "none"
  PROVE  Lost'
<1>1. GoneAreDead'
  <2> SUFFICES ASSUME NEW m \in toIApp', m.op = "gone" PROVE ~alive'[m.x]
    BY DEF GoneAreDead
  <2>0. m.x \in XApps
    BY TypesStep, Asking DEF Types, MessageTypes
  <2>1. ~alive[m.x]
    <3>1. ASSUME NEW x \in XApps, NEW n \in Nodes, NEW op \in {"sub", "ctrl"}, XRequest(x, n, op)
          PROVE  m \in toIApp
      BY <3>1 DEF XRequest
    <3>2. ASSUME NEW x \in XApps, NEW l \in Locals, XDelete(x, l) PROVE m \in toIApp
      BY <3>2 DEF XDelete
    <3>3. ASSUME NEW k \in toX, SendFailed(k) PROVE m \in toIApp \/ ~alive[m.x]
      BY <3>3 DEF SendFailed
    <3>4. ASSUME NEW k \in toIApp, IRequest(k) \/ IDelete(k) \/ IGone(k) PROVE m \in toIApp
      BY <3>4 DEF IRequest, IDelete, IGone, Fail, msgVars
    <3> QED
      BY <3>1, <3>2, <3>3, <3>4, RequestWriters DEF Lost, GoneAreDead
  <2> QED
    BY <2>0, <2>1, AliveFalls
<1>2. ASSUME AllAlive'
      PROVE  \A k \in (Tokens \cup Finding)' : k[1] # "del" => Owner(k[2])' # NoEntry
  <2>0. AllAlive /\ \A k \in Tokens \cup Finding : k[2] \in Ids /\ (k[1] # "del" => Owner(k[2]) # NoEntry)
    BY <1>2, AliveFalls, TokensTyped DEF AllAlive, Lost
  <2>1. CASE IForward
    <3>1. /\ Tokens' \subseteq Tokens \cup {<<ireq.op, nextId>>} /\ Finding' = Finding
          /\ \A i \in Ids : Owner(i)' = IF i = nextId THEN ireq ELSE Owner(i)
      BY <2>1, TokensStep, OwnerStep
    <3>2. nextId \in Ids /\ ireq # NoEntry
      BY <2>1, Entry DEF IForward, Types, IAppTypes
    <3>3. \A i \in Ids : Owner(i) # NoEntry \/ i = nextId => Owner(i)' # NoEntry
      BY <3>1, <3>2
    <3>4. \A k \in (Tokens \cup Finding)' : k \in Tokens \cup Finding \/ k[2] = nextId
      BY <3>1
    <3> QED
      BY <2>0, <3>2, <3>3, <3>4
  <2>2. CASE ~IForward
    <3>1. \A k \in (Tokens \cup Finding)' : k[1] # "del" => k \in Tokens \cup Finding
      <4>1. CASE \E d \in ilist : IForwardDelete(d)
        BY <4>1, TokensStep
      <4>2. CASE \E t \in tasks : TStop(t)
        BY <4>2, TokensStep
      <4> QED
        BY <2>2, <4>1, <4>2, TokensStep
    <3>2. \A k \in Tokens \cup Finding : k[1] # "del" => Owner(k[2])' # NoEntry
      <4> SUFFICES ASSUME NEW k \in Tokens \cup Finding, k[1] # "del" PROVE Owner(k[2])' # NoEntry
        OBVIOUS
      <4>0. k[2] \in Ids /\ Owner(k[2]) # NoEntry /\ k[1] \in Ops
        BY <2>0, TokensTyped
      <4>1. ASSUME NEW t \in tasks, TRemove(t), k[2] \in Owned(t.to) PROVE FALSE
        <5>1. /\ t.pc = "rm" /\ t.op \in {"del", "ctrl"} /\ t.to \in Entries /\ ~Adding
          BY <4>1 DEF TRemove, Types, TaskTypes, IAppTypes, Adding
        <5> DEFINE x == t.to.x
        <5>2. x \in XApps /\ alive[x] /\ HeldBy(x)
          BY <2>0, <5>1, Entry DEF AllAlive, Held
        <5>3. Owner(k[2]) = map[k[2]] /\ OfX(x, k) /\ Owner(k[2]).l = t.to.l
          BY <4>1, <5>1 DEF Owner, OfX, Owned
        <5>4. xcall[x] = <<k[1], t.to.l>> /\ Replies(x) = {}
          BY <5>2, <5>3, Carried
        <5>5. \A op \in Ops : xcall[x] = <<op, t.to.l>> => op = t.op /\ Replies(x) # {}
          BY <5>1, <5>2 DEF HeldBy
        <5> HIDE DEF x
        <5> QED
          BY <4>0, <5>4, <5>5
      <4> QED
        BY <2>2, <4>0, <4>1, OwnerStep
    <3> QED
      BY <3>1, <3>2
  <2> QED
    BY <2>1, <2>2
<1> QED
  BY <1>1, <1>2 DEF Lost

-----------------------------------------------------------------------------
(* The nodes serve what is in map_ric_id *)

\* The iApp thread sends what concerns an entry to the node of that entry.
Directed ==
  /\ ipc = "send" /\ Owner(iid) # NoEntry => Owner(iid).n = ireq.n
  /\ \A d \in ilist : map[d[1]] # NoEntry => map[d[1]].n = d[2]

\* A request waits at the node of its entry.
Placed == \A n \in Nodes : \A p \in 1..Len(toN[n]) : \A op \in Ops, i \in Ids :
            toN[n][p] = <<op, i>> /\ Owner(i) # NoEntry => Owner(i).n = n

\* An entry of a subscription is served, will be, or its delete has been answered.
Serves(i) ==
  \/ ~up[Owner(i).n]
  \/ i \in active[Owner(i).n]
  \/ <<"sub", i>> \in Sending \cup Queued
  \/ <<"del", i>> \in Answers \cup Finding
  \/ \E t \in tasks : t.pc \in {"tx", "rm"} /\ t.op = "del" /\ t.i = i /\ t.to = Owner(i)

Served == \A i \in Ids : Owner(i) # NoEntry /\ Owner(i).op = "sub" => Serves(i)
Fresh  == \A x \in XApps : \A l \in xsubs[x] : xcall[x] # <<"sub", l>>

\* What is deleted keeps its entry, and its node with it, until it has none.
LEMMA DirectedStep ==
  ASSUME Types, Directed, Next, abort' = "none"
  PROVE  Directed'
<1>1. ASSUME NEW d \in ilist', map'[d[1]] # NoEntry PROVE map'[d[1]].n = d[2]
  <2>0. ilist \subseteq Ids \X Nodes
    BY DEF Types, IAppTypes
  <2>1. ASSUME NEW m \in toIApp, IDelete(m) \/ IGone(m) PROVE map'[d[1]].n = d[2]
    <3>1. map' = map
      BY <2>1 DEF IDelete, IGone, Fail, ricVars
    <3>2. \E i \in Ids : d = <<i, map[i].n>>
      BY <2>1 DEF IDelete, IGone, Fail, Found
    <3> QED
      BY <3>1, <3>2
  <2>2. ~IAdd
    BY Entry DEF IAdd, Types, IAppTypes, Fail
  <2>3. ASSUME ~\E m \in toIApp : IDelete(m) \/ IGone(m) PROVE map'[d[1]].n = d[2]
    <3>1. d \in ilist
      BY <2>3, IAppWriters DEF IAppStep, IRequest, IForward, ISend, IAdd, IForwardDelete, Fail, iappVars
    <3>2. \A i \in Ids : map'[i] \in {map[i], NoEntry}
      BY <2>2, MapWriters DEF TRemove, Fail, ricVars
    <3> QED
      BY <1>1, <2>0, <3>1, <3>2 DEF Directed
  <2> QED
    BY <2>1, <2>3
<1>2. ASSUME ipc' = "send", NEW i, i = iid', Owner(i)' # NoEntry PROVE Owner(i)'.n = ireq'.n
  <2>1. i \in Ids
    BY <1>2, TypesStep DEF Types, IAppTypes
  <2>2. CASE UNCHANGED <<wlock, iappVars>>
    <3>1. ~IForward
      BY <2>2 DEF IForward, iappVars
    <3>2. Owner(i)' \in {Owner(i), NoEntry}
      BY <2>1, <3>1, OwnersFall
    <3> QED
      BY <1>2, <2>2, <3>2 DEF Directed, iappVars
  <2>3. CASE IForward
    <3>1. i = nextId /\ ireq' = ireq
      BY <1>2, <2>3 DEF IForward
    <3>2. Owner(i)' = ireq
      BY <2>1, <2>3, <3>1, OwnerStep
    <3> QED
      BY <3>1, <3>2
  <2>4. ASSUME NEW d \in ilist, IForwardDelete(d) PROVE Owner(i)'.n = ireq'.n
    <3>1. i = d[1] /\ ireq'.n = d[2] /\ map' = map /\ ireq'.op = "del"
      BY <1>2, <2>4 DEF IForwardDelete
    <3>2. Owner(i)' = map'[i]
      BY <3>1 DEF Owner, Adding
    <3> QED
      BY <1>2, <3>1, <3>2 DEF Directed
  <2>5. ~ISend /\ ~IAdd /\ ~\E m \in toIApp : IRequest(m) \/ IDelete(m) \/ IGone(m)
    BY <1>2 DEF ISend, IAdd, IRequest, IDelete, IGone, Fail
  <2> QED
    BY <2>2, <2>3, <2>4, <2>5, IAppWriters DEF IAppStep
<1> QED
  BY <1>1, <1>2 DEF Directed, Owner, Adding

\* A request is with the node of its entry.
LEMMA PlacedStep ==
  ASSUME Types, OneAnswer, Issued, Directed, Placed, Next, abort' = "none"
  PROVE  Placed'
<1> SUFFICES ASSUME NEW n \in Nodes, NEW p \in 1..Len(toN'[n]), NEW op \in Ops, NEW i \in Ids,
                    toN'[n][p] = <<op, i>>, Owner(i)' # NoEntry
             PROVE  Owner(i)'.n = n
  BY DEF Placed
<1>1. ASSUME NEW m \in Nodes, NEW q \in 1..Len(toN[n]), toN'[n][p] = toN[n][q]
      PROVE  Owner(i)'.n = n
  <2>1. i # nextId
    <3>1. <<op, i>> \in Tokens \cup Finding /\ <<op, i>> \in pending
      BY <1>1, Positions DEF Tokens, OneAnswer
    <3> QED
      BY <3>1, TokensTyped, NextIdGrows DEF Issued, Ids
  <2>2. Owner(i)' \in {Owner(i), NoEntry}
    BY <2>1, OwnerStep
  <2>3. Owner(i).n = n
    BY <1>1, <2>2 DEF Placed
  <2> QED
    BY <2>2, <2>3
<1>2. CASE ISend
  <2>1. CASE UNCHANGED toN
    BY <1>1, <2>1
  <2>2. CASE ~UNCHANGED toN
    <3>1. /\ Len(toN[n]) \in Nat
          /\ \A m \in Nodes : Len(toN'[m]) = IF m = ireq.n THEN Len(toN[m]) + 1 ELSE Len(toN[m])
          /\ \A m \in Nodes : \A q \in 1..Len(toN[m]) : toN'[m][q] = toN[m][q]
          /\ toN'[ireq.n][Len(toN[ireq.n]) + 1] = <<ireq.op, iid>>
      BY <1>2, <2>2, QueuedAfterSend, Positions
    <3>2. CASE p \in 1..Len(toN[n])
      BY <1>1, <3>1, <3>2
    <3>3. CASE p \notin 1..Len(toN[n])
      <4>1. n = ireq.n /\ p = Len(toN[n]) + 1
        BY <3>1, <3>3
      <4>2. toN'[n][p] = <<ireq.op, iid>>
        BY <3>1, <4>1
      <4>3. ipc = "send" /\ iid = i
        <5>1. iid = i
          BY <4>2
        <5> QED
          BY <1>2, <5>1 DEF ISend
      <4>4. ~\E t \in tasks : TRemove(t)
        BY <1>2, <4>3 DEF ISend, TRemove, Fail, iappVars
      <4>5. ~IForward
        BY <4>3 DEF IForward
      <4>6. Owner(i)' = Owner(i)
        BY <4>4, <4>5, OwnerStep
      <4> QED
        BY <4>1, <4>3, <4>6 DEF Directed
    <3> QED
      BY <3>2, <3>3
  <2> QED
    BY <2>1, <2>2
<1>3. ASSUME NEW m \in Nodes, NAnswer(m) PROVE Owner(i)'.n = n
  <2>1. CASE m = n
    BY <1>1, <1>3, <2>1, QueuedAfterAnswer
  <2>2. CASE m # n
    BY <1>1, <1>3, <2>2, QueuedAfterAnswer
  <2> QED
    BY <2>1, <2>2
<1>4. ASSUME NEW m \in Nodes, NLeave(m) PROVE Owner(i)'.n = n
  <2>1. toN'[n] = toN[n] \/ toN'[n] = <<>>
    BY <1>4 DEF NLeave, Types, QueueTypes
  <2>2. p \in 1..Len(toN[n]) /\ toN'[n][p] = toN[n][p]
    BY <2>1
  <2> QED
    BY <1>1, <2>2
<1>5. CASE UNCHANGED toN
  BY <1>1, <1>5
<1> QED
  BY <1>2, <1>3, <1>4, <1>5, QueueWriters

\* An xApp asks for a new subscription under a new id.
LEMMA FreshStep ==
  ASSUME Types, Kinds, Fresh, Next, abort' = "none"
  PROVE  Fresh'
<1> SUFFICES ASSUME NEW x \in XApps, NEW l \in xsubs'[x], xcall'[x] = <<"sub", l>> PROVE FALSE
  BY DEF Fresh
<1>0. /\ xcall \in [XApps -> {<<>>} \cup (Ops \X Locals)] /\ xsubs \in [XApps -> SUBSET Locals]
      /\ xnext[x] \in Nat
  BY BoundsAssumption DEF Types, XAppTypes
<1>1. CASE xcall'[x] = xcall[x] /\ xsubs'[x] = xsubs[x]
  BY <1>1 DEF Fresh
<1>2. ASSUME NEW y \in XApps, NEW n \in Nodes, NEW op \in {"sub", "ctrl"}, XRequest(y, n, op) PROVE FALSE
  <2>1. CASE y = x
    <3>1. xsubs' = xsubs /\ xcall'[x] = <<op, xnext[x]>>
      BY <1>0, <1>2, <2>1 DEF XRequest
    <3>2. l < xnext[x] /\ l \in Nat
      BY <1>0, <3>1 DEF Kinds, NoCtrl, Locals
    <3> QED
      BY <1>0, <3>1, <3>2
  <2>2. CASE y # x
    BY <1>0, <1>1, <1>2, <2>2 DEF XRequest
  <2> QED
    BY <2>1, <2>2
<1>3. ASSUME NEW y \in XApps, NEW k \in Locals, XDelete(y, k) PROVE FALSE
  BY <1>0, <1>1, <1>3 DEF XDelete
<1>4. ASSUME NEW y \in XApps, XDie(y) PROVE FALSE
  BY <1>1, <1>4 DEF XDie
<1>5. ASSUME NEW m \in toX, XReceive(m) PROVE FALSE
  <2>1. CASE m.x = x /\ xcall' = [xcall EXCEPT ![m.x] = <<>>]
    <3>1. xcall'[x] = <<>>
      BY <1>0, <2>1
    <3> QED
      BY <3>1
  <2>2. CASE m.x # x \/ UNCHANGED <<xcall, xsubs>>
    BY <1>0, <1>1, <1>5, <2>2 DEF XReceive, xVars
  <2> QED
    BY <1>5, <2>1, <2>2 DEF XReceive, xVars
<1> QED
  BY <1>1, <1>2, <1>3, <1>4, <1>5, XAppWriters DEF xVars

\* What the answers and the queues keep.
LEMMA TokensStay ==
  ASSUME Types, OneAnswer, Next, abort' = "none"
  PROVE  /\ ISend => \/ ~up[ireq.n]
                     \/ Sending \cup Queued \subseteq Queued'
         /\ \A n \in Nodes : NAnswer(n) => Queued \subseteq Queued' \cup {Head(toN[n])}
         /\ \A t \in tasks : TFind(t) => Finding \subseteq Finding' \cup {<<t.op, t.i>>}
<1>1. ASSUME ISend, up[ireq.n] PROVE Sending \cup Queued \subseteq Queued'
  <2>1. /\ ireq.n \in Nodes /\ <<ireq.op, iid>> \in Ops \X Ids
        /\ toN[ireq.n] \in Seq(Ops \X Ids) /\ toN \in [Nodes -> Seq(Ops \X Ids)]
    BY <1>1, Entry DEF Types, IAppTypes, QueueTypes, ISend, Ops
  <2>2. toN' = [toN EXCEPT ![ireq.n] = Append(toN[ireq.n], <<ireq.op, iid>>)] /\ ipc = "send"
    BY <1>1, <2>1 DEF ISend, Fail
  <2>3. Len(toN[ireq.n]) \in Nat /\ Len(toN'[ireq.n]) = Len(toN[ireq.n]) + 1
    BY <2>1, <2>2
  <2>4. ~UNCHANGED toN
    BY <2>3
  <2>5. /\ \A m \in Nodes : Len(toN'[m]) = IF m = ireq.n THEN Len(toN[m]) + 1 ELSE Len(toN[m])
        /\ \A m \in Nodes : \A q \in 1..Len(toN[m]) : toN'[m][q] = toN[m][q]
        /\ toN'[ireq.n][Len(toN[ireq.n]) + 1] = <<ireq.op, iid>>
    BY <1>1, <2>4, QueuedAfterSend
  <2>6. \A m \in Nodes : \A q \in 1..Len(toN[m]) : q \in 1..Len(toN'[m]) /\ toN'[m][q] = toN[m][q]
    BY <2>5, Positions
  <2>7. Queued \subseteq Queued'
    BY <2>6 DEF Queued
  <2>8. Len(toN[ireq.n]) + 1 \in 1..Len(toN'[ireq.n])
    BY <2>3
  <2>9. <<ireq.op, iid>> \in Queued'
    BY <2>1, <2>5, <2>8 DEF Queued
  <2> QED
    BY <2>2, <2>7, <2>9 DEF Sending
<1>2. ASSUME NEW n \in Nodes, NAnswer(n) PROVE Queued \subseteq Queued' \cup {Head(toN[n])}
  <2>0. toN[n] \in Seq(Ops \X Ids) /\ toN[n] # <<>> /\ toN'[n] = Tail(toN[n])
        /\ \A m \in Nodes \ {n} : toN'[m] = toN[m]
    BY <1>2 DEF Types, QueueTypes, NAnswer
  <2>1. /\ Head(toN[n]) = toN[n][1]
        /\ \A q \in 1..Len(toN[n]) : q # 1 => q - 1 \in 1..Len(Tail(toN[n])) /\ Tail(toN[n])[q - 1] = toN[n][q]
    BY <2>0
  <2> SUFFICES ASSUME NEW m \in Nodes, NEW q \in 1..Len(toN[m])
               PROVE  toN[m][q] \in Queued' \cup {Head(toN[n])}
    BY DEF Queued
  <2>2. toN[m][q] \in Ops \X Ids
    BY Positions
  <2>3. CASE m = n /\ q # 1
    <3>1. q - 1 \in 1..Len(toN'[n]) /\ toN'[n][q - 1] = toN[m][q]
      BY <2>0, <2>1, <2>3
    <3> QED
      BY <2>2, <3>1 DEF Queued
  <2>4. CASE m # n
    BY <2>0, <2>2, <2>4 DEF Queued
  <2> QED
    BY <2>1, <2>3, <2>4
<1>3. ASSUME NEW t \in tasks, TFind(t) PROVE Finding \subseteq Finding' \cup {<<t.op, t.i>>}
  <2>1. tasks \ {t} \subseteq tasks'
    BY <1>3 DEF TFind, Step, Finish
  <2> QED
    BY <2>1 DEF Finding
<1> QED
  BY <1>1, <1>2, <1>3

\* The node of an entry serves it until its delete is answered.
LEMMA ServedStep ==
  ASSUME Types, OneAnswer, Issued, Kinds, Placed, Served, Next, abort' = "none"
  PROVE  Served'
<1> SUFFICES ASSUME NEW i \in Ids, Owner(i)' # NoEntry, Owner(i)'.op = "sub" PROVE Serves(i)'
  BY DEF Served
<1>1. CASE IForward
  <2>1. /\ Answers' = Answers /\ Finding' = Finding /\ Queued' = Queued /\ Sending = {}
        /\ Sending' = {<<ireq.op, nextId>>} /\ UNCHANGED <<tasks, up, active>>
    BY <1>1, TokensAfterForward, IAppFrame DEF IAppStep, nodeVars
  <2>2. CASE i = nextId
    <3>1. Owner(i)' = ireq
      BY <1>1, <2>2, OwnerStep
    <3> QED
      BY <2>1, <2>2, <3>1 DEF Serves
  <2>3. CASE i # nextId
    <3>1. Owner(i)' = Owner(i)
      BY <1>1, <2>3, OwnerStep
    <3> QED
      BY <2>1, <3>1 DEF Serves, Served
  <2> QED
    BY <2>2, <2>3
<1>2. CASE ~IForward
  <2>0. Owner(i)' = Owner(i) /\ Serves(i) /\ Owner(i).n \in Nodes /\ Owner(i) \in Entries
    <3>1. Owner(i)' = Owner(i)
      BY <1>2, OwnersFall
    <3> QED
      BY <3>1, OwnerTyped, Entry DEF Served
  <2> DEFINE n0 == Owner(i).n
             Answered == \E t \in tasks : t.pc \in {"tx", "rm"} /\ t.op = "del" /\ t.i = i /\ t.to = Owner(i)
  <2>1. CASE IAppStep
    <3>1. /\ Answers' = Answers /\ Finding' = Finding /\ UNCHANGED <<tasks, up, active>>
      BY <2>1, TokensAfterForward, IAppFrame DEF nodeVars
    <3>2. CASE ISend
      <4>1. Sending \cup Queued \subseteq Queued' \/ ~up[ireq.n]
        BY <3>2, TokensStay
      <4>2. <<"sub", i>> \in Sending \cup Queued => ~up'[n0] \/ <<"sub", i>> \in Queued'
        <5> SUFFICES ASSUME ~up[ireq.n], <<"sub", i>> \in Sending \cup Queued
                     PROVE  ~up[n0] \/ <<"sub", i>> \in Queued'
          BY <3>1, <4>1
        <5>1. CASE <<"sub", i>> \in Sending
          <6>1. ireq.op = "sub" /\ iid = i /\ ipc = "send"
            BY <5>1 DEF Sending
          <6>2. Owner(i) = ireq
            BY <6>1 DEF Owner, Adding
          <6> QED
            BY <6>2
        <5>2. CASE <<"sub", i>> \in Queued
          <6>1. toN \in [Nodes -> Seq(Ops \X Ids)] /\ ireq.n \in Nodes
            BY <3>2, Entry DEF Types, QueueTypes, IAppTypes, ISend
          <6>2. toN' = toN
            BY <3>2, <6>1 DEF ISend, Fail
          <6> QED
            BY <5>2, <6>2 DEF Queued
        <5> QED
          BY <5>1, <5>2
      <4> QED
        BY <2>0, <3>1, <4>2 DEF Serves
    <3>3. CASE ~ISend
      <4>1. Sending = {} /\ Queued' = Queued
        BY <1>2, <2>1, <3>3, TokensAfterForward DEF IAppStep
      <4> QED
        BY <2>0, <3>1, <4>1 DEF Serves
    <3> QED
      BY <3>2, <3>3
  <2>2. CASE LoopStep \/ Deliver \/ \E x \in XApps : XStep(x)
    <3>1. /\ Sending' = Sending /\ Queued' = Queued /\ Answers' = Answers
          /\ Finding' = Finding /\ UNCHANGED <<tasks, up, active>>
      BY <2>2, TokensElsewhere, LoopFrame, DeliverFrame, XAppFrame DEF nodeVars
    <3> QED
      BY <2>0, <3>1 DEF Serves
  <2>3. ASSUME NEW t \in tasks, TaskStep(t) PROVE Serves(i)'
    <3>0. UNCHANGED <<toN, ipc, ireq, iid, up, active>> /\ Sending' = Sending /\ Queued' = Queued
      <4>1. UNCHANGED <<toN, ipc, ireq, iid, up, active>>
        BY <2>3, TaskFrame DEF iappVars, nodeVars
      <4> QED
        BY <4>1 DEF Sending, Queued
    <3>1. CASE TStop(t)
      <4>1. Answers \cup Finding \subseteq Answers' \cup Finding'
        BY <3>1, TokensAfterStop
      <4>2. \A u \in tasks : u.pc \in {"tx", "rm"} => u \in tasks'
        BY <3>1 DEF TStop, Step, Fail
      <4> QED
        BY <2>0, <3>0, <4>1, <4>2 DEF Serves
    <3>2. CASE TFind(t)
      <4>1. Answers' = Answers /\ Finding \subseteq Finding' \cup {<<t.op, t.i>>}
        BY <3>2, TokensAfterFind, TokensStay
      <4>2. \A u \in tasks : u.pc \in {"tx", "rm"} => u \in tasks'
        BY <3>2 DEF TFind, Step, Finish
      <4>3. ASSUME t.op = "del", t.i = i
            PROVE  \E u \in tasks' : u.pc \in {"tx", "rm"} /\ u.op = "del" /\ u.i = i /\ u.to = Owner(i)
        <5>1. Owner(i) = map[i] /\ map[i] # NoEntry
          BY <2>0, <3>2, <4>3, FoundOwner
        <5> DEFINE u == [t EXCEPT !.to = map[t.i], !.pc = "tx"]
        <5>2. u \in tasks'
          BY <3>2, <4>3, <5>1 DEF TFind, Step
        <5>3. u.pc = "tx" /\ u.op = t.op /\ u.i = t.i /\ u.to = map[t.i]
          BY <3>2, FoundOwner DEF Tasks
        <5> HIDE DEF u
        <5> QED
          BY <4>3, <5>1, <5>2, <5>3
      <4>4. <<"del", i>> \in Finding => \/ <<"del", i>> \in Finding'
                                        \/ (t.op = "del" /\ t.i = i)
        BY <4>1
      <4> QED
        BY <2>0, <3>0, <4>1, <4>2, <4>3, <4>4 DEF Serves
    <3>3. CASE TSend(t)
      <4>1. Answers' = Answers /\ Finding' = Finding
        BY <3>3, TokensAfterRest
      <4>2. Answered => Answered'
        BY <2>0, <3>3, SendMoves
      <4> QED
        BY <2>0, <3>0, <4>1, <4>2 DEF Serves
    <3>4. CASE TRemove(t)
      <4>1. Answers' = Answers /\ Finding' = Finding
        BY <3>4, TokensAfterRest
      <4>2. t.to # Owner(i) \/ t.i # i
        <5>1. i \in Owned(t.to) => Owner(i)' = NoEntry
          BY <3>4, OwnerStep
        <5>2. ~Adding
          BY <3>4 DEF TRemove, Types, IAppTypes, Adding
        <5> QED
          BY <2>0, <5>1, <5>2 DEF Owner, Owned
      <4>3. tasks' = tasks \ {t}
        BY <3>4 DEF TRemove, Finish, Fail
      <4> QED
        BY <2>0, <3>0, <4>1, <4>2, <4>3 DEF Serves
    <3> QED
      BY <2>3, <3>1, <3>2, <3>3, <3>4 DEF TaskStep
  <2>4. ASSUME NEW n \in Nodes, NodeStep(n) PROVE Serves(i)'
    <3>0. Sending' = Sending /\ active \in [Nodes -> SUBSET Ids] /\ up \in [Nodes -> BOOLEAN]
      BY <2>4, NodeFrame DEF Sending, iappVars, Types, NodeTypes, LoopTypes
    <3>1. CASE NAnswer(n)
      <4> DEFINE h == Head(toN[n])
      <4>1. /\ Queued \subseteq Queued' \cup {h} /\ h \in Queued /\ h \in Ops \X Ids
            /\ Answers' = Answers \cup {h} /\ Finding' = Finding /\ up' = up
            /\ tasks \subseteq tasks'
        BY <3>1, TokensAfterAnswer, TokensStay DEF NAnswer, Queued
      <4>2. h = <<"sub", i>> => n = n0
        BY <2>0, <3>1, QueuedAfterAnswer DEF Placed, Ops
      <4>3. active' = [active EXCEPT ![n] = CASE h[1] = "sub" -> active[n] \cup {h[2]}
                                              [] h[1] = "del" -> active[n] \ {h[2]}
                                              [] OTHER -> active[n]]
        BY <3>0, <3>1 DEF NAnswer
      <4> HIDE DEF h
      <4>4. h = <<h[1], h[2]>>
        BY <4>1
      <4>5. <<"sub", i>> = h => i \in active'[n0]
        BY <2>0, <3>0, <4>2, <4>3
      <4>6. i \in active[n0] => i \in active'[n0] \/ <<"del", i>> = h
        BY <2>0, <3>0, <4>3, <4>4
      <4> QED
        BY <2>0, <3>0, <4>1, <4>5, <4>6 DEF Serves
    <3>2. CASE NLeave(n)
      <4>1. /\ \A m \in Nodes : m # n => toN'[m] = toN[m] /\ active'[m] = active[m] /\ up'[m] = up[m]
            /\ ~up'[n] /\ Answers' = Answers /\ Finding' = Finding /\ tasks' = tasks
        BY <3>0, <3>2 DEF NLeave, Types, QueueTypes, Answers, Finding
      <4>2. CASE n = n0
        BY <2>0, <4>1, <4>2 DEF Serves
      <4>3. CASE n # n0
        <5>1. <<"sub", i>> \in Queued => <<"sub", i>> \in Queued'
          <6> SUFFICES ASSUME NEW m \in Nodes, NEW p \in 1..Len(toN[m]), toN[m][p] = <<"sub", i>>,
                              <<"sub", i>> \in Ops \X Ids
                       PROVE  <<"sub", i>> \in Queued'
            BY DEF Queued
          <6>1. m = n0
            BY <2>0 DEF Placed, Ops
          <6>2. toN'[m] = toN[m]
            BY <4>1, <4>3, <6>1
          <6> QED
            BY <6>2 DEF Queued
        <5> QED
          BY <2>0, <3>0, <4>1, <4>3, <5>1 DEF Serves
      <4> QED
        BY <4>2, <4>3
    <3>3. ASSUME NEW j \in Ids, NIndicate(n, j) PROVE Serves(i)'
      <4>1. Answers' = Answers /\ Finding' = Finding
        BY <3>3, TokensAfterRest
      <4>2. UNCHANGED <<toN, up, active>> /\ tasks \subseteq tasks' /\ Queued' = Queued
        BY <3>3 DEF NIndicate, msgVars, Queued
      <4> QED
        BY <2>0, <3>0, <4>1, <4>2 DEF Serves
    <3> QED
      BY <2>4, <3>1, <3>2, <3>3 DEF NodeStep
  <2> QED
    BY <2>1, <2>2, <2>3, <2>4 DEF Next
<1> QED
  BY <1>1, <1>2

-----------------------------------------------------------------------------
(* A node serves nothing that is not yet, or no more, to be served *)

\* A node serves subscriptions of its own entries, under ids given out.
Located == \A n \in Nodes : \A i \in active[n] :
             i < nextId /\ (Owner(i) # NoEntry => Owner(i).n = n)

Idle(i) == \A n \in Nodes : i \notin active[n]

\* Before the node has the request of a live xApp, and after its deletion was answered,
\* no node serves the subscription.
QuietFor(x) ==
  /\ \A i \in Ids : Owner(i) # NoEntry /\ Owner(i).x = x /\ <<"sub", i>> \in Sending \cup Queued => Idle(i)
  /\ \A i \in Ids : Owner(i) # NoEntry /\ Owner(i).x = x /\ <<"del", i>> \in Answers \cup Finding => Idle(i)
  /\ \A t \in tasks : t.op = "del" /\ t.pc \in {"tx", "rm"} /\ t.to.x = x => Idle(t.i)

Quiet == \A x \in XApps : alive[x] => QuietFor(x)

\* What a node begins to serve is the subscription it answers.
LEMMA ActiveGrows ==
  ASSUME Types, Next, NEW n \in Nodes, NEW i \in active'[n], i \notin active[n]
  PROVE  NAnswer(n) /\ Head(toN[n]) = <<"sub", i>>
<1>0. active \in [Nodes -> SUBSET Ids]
  BY DEF Types, NodeTypes
<1>1. PICK m \in Nodes : NodeStep(m)
  BY NodeWriters
<1>2. ~NLeave(m) /\ ~\E j \in Ids : NIndicate(m, j)
  BY <1>0 DEF NLeave, NIndicate
<1>3. NAnswer(m)
  BY <1>1, <1>2 DEF NodeStep
<1> DEFINE h == Head(toN[m])
<1>4. h \in Ops \X Ids
  BY <1>3, QueuedAfterAnswer, Positions
<1>5. active' = [active EXCEPT ![m] = CASE h[1] = "sub" -> active[m] \cup {h[2]}
                                        [] h[1] = "del" -> active[m] \ {h[2]}
                                        [] OTHER -> active[m]]
  BY <1>0, <1>3 DEF NAnswer
<1> HIDE DEF h
<1>6. m = n /\ h[1] = "sub" /\ h[2] = i
  BY <1>0, <1>5
<1>7. h = <<"sub", i>>
  BY <1>4, <1>6
<1> QED
  BY <1>3, <1>6, <1>7 DEF h

\* What is under way has an id given out.
LEMMA UnderWayIssued ==
  ASSUME OneAnswer, Issued
  PROVE  \A k \in Tokens \cup Finding : k[2] < nextId
BY DEF OneAnswer, Issued

\* The nodes serve what was sent to them.
LEMMA LocatedStep ==
  ASSUME Types, OneAnswer, Issued, Placed, Located, Next, abort' = "none"
  PROVE  Located'
<1> SUFFICES ASSUME NEW n \in Nodes, NEW i \in active'[n]
             PROVE  i < nextId' /\ (Owner(i)' # NoEntry => Owner(i)'.n = n)
  BY DEF Located
<1>0. i \in Ids /\ i \in Nat
  BY TypesStep DEF Types, NodeTypes, Ids
<1>1. i < nextId /\ (Owner(i) # NoEntry => Owner(i).n = n)
  <2>1. CASE i \in active[n]
    BY <2>1 DEF Located
  <2>2. CASE i \notin active[n]
    <3>1. NAnswer(n) /\ Head(toN[n]) = <<"sub", i>>
      BY <2>2, ActiveGrows
    <3>2. 1 \in 1..Len(toN[n]) /\ toN[n][1] = <<"sub", i>>
      BY <3>1, QueuedAfterAnswer
    <3>3. <<"sub", i>> \in Tokens
      BY <3>2, Positions DEF Tokens
    <3>4. i < nextId
      BY <3>3, UnderWayIssued
    <3> QED
      BY <1>0, <3>2, <3>4 DEF Placed, Ops
  <2> QED
    BY <2>1, <2>2
<1>2. Owner(i)' \in {Owner(i), NoEntry}
  BY <1>0, <1>1, OwnerStep, NextIdGrows
<1> QED
  BY <1>0, <1>1, <1>2, NextIdGrows

\* A subscription request comes from fwd_ric_subscription_request.
LEMMA SendingStep ==
  ASSUME Types, OneAnswer, Next, abort' = "none", NEW i \in Ids,
         <<"sub", i>> \in (Sending \cup Queued)', ~(IForward /\ i = nextId)
  PROVE  <<"sub", i>> \in Sending \cup Queued
<1>1. CASE IForward
  <2>1. Queued' = Queued /\ Sending' = {<<ireq.op, nextId>>}
    BY <1>1, TokensAfterForward DEF IAppStep
  <2> QED
    BY <1>1, <2>1
<1>2. CASE ISend
  <2>1. Sending = {<<ireq.op, iid>>} /\ Sending' = {}
    BY <1>2, TokensAfterForward DEF IAppStep
  <2>2. Queued' \subseteq Queued \cup {<<ireq.op, iid>>}
    <3>1. CASE UNCHANGED toN
      BY <3>1 DEF Queued
    <3> QED
      BY <1>2, <3>1, QueuedAfterSend
  <2> QED
    BY <2>1, <2>2
<1>3. ASSUME NEW d \in ilist, IForwardDelete(d) PROVE <<"sub", i>> \in Sending \cup Queued
  <2>1. Queued' = Queued /\ (Sending' = {} \/ Sending' = {<<"del", d[1]>>})
    BY <1>3, TokensAfterForward DEF IAppStep
  <2> QED
    BY <2>1
<1>4. CASE IAdd \/ (\E m \in toIApp : IRequest(m) \/ IDelete(m) \/ IGone(m))
  <2>1. Queued' = Queued /\ Sending' = {}
    BY <1>4, TokensAfterForward DEF IAppStep
  <2> QED
    BY <2>1
<1>5. CASE LoopStep \/ Deliver \/ \E x \in XApps : XStep(x)
  BY <1>5, TokensElsewhere
<1>6. ASSUME NEW t \in tasks, TaskStep(t) PROVE <<"sub", i>> \in Sending \cup Queued
  <2>1. UNCHANGED <<toN, ipc, ireq, iid>>
    BY <1>6, TaskFrame DEF iappVars
  <2> QED
    BY <2>1 DEF Sending, Queued
<1>7. ASSUME NEW n \in Nodes, NodeStep(n) PROVE <<"sub", i>> \in Sending \cup Queued
  <2>1. Sending' = Sending
    BY <1>7, NodeFrame DEF Sending, iappVars
  <2>2. Queued' \subseteq Queued
    <3>1. CASE NAnswer(n)
      BY <3>1, TokensAfterAnswer
    <3>2. CASE NLeave(n)
      <4>1. \A m \in Nodes : toN'[m] = toN[m] \/ toN'[m] = <<>>
        BY <3>2 DEF NLeave, Types, QueueTypes
      <4>2. \A m \in Nodes : \A p \in 1..Len(toN'[m]) : p \in 1..Len(toN[m]) /\ toN'[m][p] = toN[m][p]
        BY <4>1
      <4> QED
        BY <4>2 DEF Queued
    <3>3. CASE \E j \in Ids : NIndicate(n, j)
      BY <3>3 DEF NIndicate, msgVars, Queued
    <3> QED
      BY <1>7, <3>1, <3>2, <3>3 DEF NodeStep
  <2> QED
    BY <2>1, <2>2
<1> QED
  BY <1>1, <1>2, <1>3, <1>4, <1>5, <1>6, <1>7 DEF Next, IAppStep

\* An answer comes from its node.
LEMMA AnsweredStep ==
  ASSUME Types, OneAnswer, Next, abort' = "none", NEW k \in (Answers \cup Finding)'
  PROVE  \/ k \in Answers \cup Finding
         \/ \E n \in Nodes : NAnswer(n) /\ k = Head(toN[n])
<1>1. CASE IAppStep
  BY <1>1, TokensAfterForward
<1>2. CASE LoopStep \/ Deliver \/ \E x \in XApps : XStep(x)
  BY <1>2, TokensElsewhere
<1>3. ASSUME NEW t \in tasks, TaskStep(t) PROVE k \in Answers \cup Finding
  BY <1>3, TokensAfterStop, TokensAfterFind, TokensAfterRest DEF TaskStep
<1>4. ASSUME NEW n \in Nodes, NodeStep(n)
      PROVE  k \in Answers \cup Finding \/ (NAnswer(n) /\ k = Head(toN[n]))
  <2>1. CASE NAnswer(n)
    BY <2>1, TokensAfterAnswer
  <2>2. CASE NLeave(n)
    <3>1. tasks' = tasks
      BY <2>2 DEF NLeave
    <3> QED
      BY <3>1 DEF Answers, Finding
  <2>3. CASE \E j \in Ids : NIndicate(n, j)
    BY <2>3, TokensAfterRest
  <2> QED
    BY <1>4, <2>1, <2>2, <2>3 DEF NodeStep
<1> QED
  BY <1>1, <1>2, <1>3, <1>4 DEF Next

\* While a live xApp waits for one answer under an id, there is no other one.
LEMMA OneOperation ==
  ASSUME Types, Issued, OneCarrier, Held, NEW x \in XApps, alive[x], NEW i \in Ids,
         NEW op \in Ops, <<op, i>> \in Tokens \cup Finding, Owner(i) # NoEntry, Owner(i).x = x
  PROVE  /\ xcall[x] = <<op, Owner(i).l>>
         /\ \A o \in Ops : <<o, i>> \in Tokens \cup Finding => o = op
         /\ \A t \in tasks : t.pc \in {"tx", "rm"} /\ t.op # "ind" /\ t.i = i /\ t.to.x = x => FALSE
<1>1. ASSUME NEW o \in Ops, <<o, i>> \in Tokens \cup Finding PROVE xcall[x] = <<o, Owner(i).l>> /\ Replies(x) = {}
  <2> DEFINE k == <<o, i>>
  <2>1. k \in Tokens \cup Finding /\ OfX(x, k) /\ k[1] = o /\ k[2] = i
    BY <1>1 DEF OfX
  <2> HIDE DEF k
  <2> QED
    BY <2>1, Carried
<1>2. ASSUME NEW t \in tasks, t.pc \in {"tx", "rm"}, t.op # "ind", t.i = i, t.to.x = x PROVE FALSE
  <2>1. map[i] = t.to /\ t.to # NoEntry
    BY <1>2, Entry DEF Held, HeldBy, Types, TaskTypes
  <2>2. Owner(i) = t.to
    BY <2>1 DEF Owner, Issued
  <2>3. CASE t.pc = "tx"
    <3> DEFINE k == <<op, i>>
               c == <<"tx", t, <<t.op, t.to.l>> >>
               d == <<"tok", k, <<k[1], Owner(k[2]).l>> >>
               e == <<"find", k, <<k[1], Owner(k[2]).l>> >>
    <3>1. c \in Carriers(x)
      BY <1>2, <2>3 DEF Routed, Carriers
    <3>2. d \in Carriers(x) \/ e \in Carriers(x)
      <4>1. OfX(x, k) /\ (k \in Tokens \/ k \in Finding)
        BY DEF OfX
      <4> QED
        BY <4>1 DEF Sent, Back, Carriers
    <3>3. c[1] = "tx" /\ d[1] = "tok" /\ e[1] = "find"
      OBVIOUS
    <3> HIDE DEF c, d, e
    <3> QED
      BY <3>1, <3>2, <3>3 DEF OneCarrier, Single
  <2>4. CASE t.pc = "rm"
    <3>1. xcall[x] = <<op, t.to.l>> /\ Replies(x) = {}
      BY <1>1, <2>2
    <3> QED
      BY <1>2, <2>4, <3>1 DEF Held, HeldBy
  <2> QED
    BY <1>2, <2>3, <2>4
<1> QED
  BY <1>1, <1>2

\* An idle subscription stays idle until its request is answered.
LEMMA QuietStep ==
  ASSUME Types, OneAnswer, Issued, Kinds, OneCarrier, Held, Placed, Located, Quiet, Next, abort' = "none"
  PROVE  Quiet'
<1> SUFFICES ASSUME NEW x \in XApps, alive'[x] PROVE QuietFor(x)'
  BY DEF Quiet
<1>0. alive[x] /\ QuietFor(x)
  BY AliveFalls DEF Quiet
<1>1. ASSUME NEW i \in Ids, Idle(i), ~Idle(i)'
      PROVE  <<"sub", i>> \in Queued \ Queued' /\ <<"sub", i>> \notin Sending \cup Sending'
  <2>1. PICK n \in Nodes : i \in active'[n] /\ i \notin active[n]
    BY <1>1 DEF Idle
  <2>2. NAnswer(n) /\ Head(toN[n]) = <<"sub", i>>
    BY <2>1, ActiveGrows
  <2> QED
    BY <2>2, TokensAfterAnswer DEF OneAnswer
<1>2. ASSUME NEW i \in Ids, i < nextId PROVE Owner(i)' \in {Owner(i), NoEntry}
  BY <1>2, OwnerStep, NextIdGrows DEF Ids
<1>3. ASSUME NEW i \in Ids, Owner(i)' # NoEntry, Owner(i)'.x = x, <<"sub", i>> \in (Sending \cup Queued)'
      PROVE  Idle(i)'
  <2>1. CASE IForward /\ i = nextId
    <3>1. active' = active
      BY <2>1, IAppFrame DEF IAppStep, nodeVars
    <3> QED
      BY <2>1, <3>1, NextIdGrows DEF Located, Idle
  <2>2. CASE ~(IForward /\ i = nextId)
    <3>1. <<"sub", i>> \in Sending \cup Queued
      BY <1>3, <2>2, SendingStep
    <3>2. i < nextId
      BY <3>1, UnderWayIssued DEF Tokens
    <3>3. Idle(i)
      BY <1>0, <1>2, <1>3, <3>1, <3>2 DEF QuietFor
    <3> QED
      BY <1>1, <1>3, <3>3
  <2> QED
    BY <2>1, <2>2
<1>4. ASSUME NEW i \in Ids, Owner(i)' # NoEntry, Owner(i)'.x = x, <<"del", i>> \in (Answers \cup Finding)'
      PROVE  Idle(i)'
  <2>1. CASE <<"del", i>> \in Answers \cup Finding
    <3>1. i < nextId /\ Owner(i) # NoEntry /\ Owner(i).x = x
      <4>1. i < nextId
        BY <2>1, UnderWayIssued DEF Tokens
      <4> QED
        BY <1>2, <1>4, <4>1
    <3>2. Idle(i)
      BY <1>0, <2>1, <3>1 DEF QuietFor
    <3>3. <<"sub", i>> \notin Queued
      <4>1. <<"del", i>> \in Tokens \cup Finding
        BY <2>1 DEF Tokens
      <4> QED
        BY <1>0, <3>1, <4>1, OneOperation DEF Ops, Tokens
    <3> QED
      BY <1>1, <3>2, <3>3
  <2>2. ASSUME NEW n \in Nodes, NAnswer(n), <<"del", i>> = Head(toN[n]) PROVE Idle(i)'
    <3>1. 1 \in 1..Len(toN[n]) /\ toN[n][1] = <<"del", i>>
      BY <2>2, QueuedAfterAnswer
    <3>2. <<"del", i>> \in Tokens
      BY <3>1, Positions DEF Tokens
    <3>3. i < nextId
      BY <3>2, UnderWayIssued
    <3>4. Owner(i) # NoEntry /\ Owner(i).n = n
      BY <1>2, <1>4, <3>1, <3>3 DEF Placed, Ops
    <3>5. active' = [active EXCEPT ![n] = active[n] \ {i}]
      <4>1. Head(toN[n])[1] = "del" /\ Head(toN[n])[2] = i
        BY <2>2
      <4> QED
        BY <2>2, <4>1 DEF NAnswer
    <3>6. \A m \in Nodes : i \in active[m] => m = n
      BY <3>4 DEF Located
    <3> QED
      BY <3>5, <3>6 DEF Idle, Types, NodeTypes
  <2> QED
    BY <1>4, <2>1, <2>2, AnsweredStep
<1>5. ASSUME NEW t \in tasks', t.op = "del", t.pc \in {"tx", "rm"}, t.to.x = x PROVE Idle(t.i)'
  <2>1. CASE t \in tasks
    <3>1. t.i \in Ids /\ Idle(t.i)
      BY <1>0, <1>5, <2>1 DEF QuietFor, Types, TaskTypes, Tasks
    <3>2. <<"sub", t.i>> \notin Queued
      <4> SUFFICES ASSUME <<"sub", t.i>> \in Tokens PROVE FALSE
        BY DEF Tokens
      <4>1. map[t.i] = t.to /\ t.to # NoEntry
        BY <1>0, <1>5, <2>1, Entry DEF Held, HeldBy, Types, TaskTypes
      <4>2. Owner(t.i) = t.to
        BY <4>1 DEF Owner, Issued
      <4> QED
        BY <1>0, <1>5, <2>1, <3>1, <4>1, <4>2, OneOperation DEF Ops
    <3> QED
      BY <1>1, <3>1, <3>2
  <2>2. CASE t \notin tasks
    <3>1. PICK u \in tasks : TFind(u) \/ TSend(u)
      BY <1>5, <2>2, LaterTasks
    <3>2. active' = active
      BY <3>1, TaskFrame DEF TaskStep, nodeVars
    <3>3. CASE TFind(u)
      <4>1. u.op = "del" /\ u.i = t.i /\ map[u.i] # NoEntry /\ t.to = map[u.i]
        BY <1>5, <2>2, <3>3, FindMoves
      <4>2. Owner(u.i) = map[u.i] /\ u.i \in Ids /\ <<u.op, u.i>> \in Finding
        BY <3>3, <4>1, FoundOwner
      <4>3. Idle(u.i)
        BY <1>0, <1>5, <4>1, <4>2 DEF QuietFor
      <4> QED
        BY <3>2, <4>1, <4>3 DEF Idle
    <3>4. CASE TSend(u)
      <4>1. u.op = "del" /\ u.i = t.i /\ u.pc = "tx" /\ t.to = u.to
        BY <1>5, <2>2, <3>4, SendMoves
      <4>2. Idle(u.i)
        BY <1>0, <1>5, <4>1 DEF QuietFor
      <4> QED
        BY <3>2, <4>1, <4>2 DEF Idle
    <3> QED
      BY <3>1, <3>3, <3>4
  <2> QED
    BY <2>1, <2>2
<1> QED
  BY <1>3, <1>4, <1>5 DEF QuietFor

-----------------------------------------------------------------------------
(* The invariants *)

\* The initial state has its types.
LEMMA TypesInit ==
  ASSUME Init
  PROVE  Types
<1>1. XAppTypes
  BY BoundsAssumption DEF Init, XAppTypes, Locals
<1>2. MessageTypes /\ QueueTypes
  BY DEF Init, MessageTypes, QueueTypes
<1>3. TableTypes
  BY BoundsAssumption DEF Init, TableTypes
<1>4. IAppTypes
  BY DEF Init, IAppTypes
<1>5. LoopTypes /\ TaskTypes
  BY DEF Init, LoopTypes, TaskTypes
<1>6. NodeTypes
  BY BoundsAssumption DEF Init, NodeTypes
<1> QED
  BY <1>1, <1>2, <1>3, <1>4, <1>5, <1>6 DEF Types

\* The types do not depend on the failed assertion.
LEMMA Stutters ==
  ASSUME UNCHANGED <<xVars, msgVars, ricVars, iappVars, loopVars, tasks, nodeVars>>
  PROVE  Types' = Types
BY DEF Types, XAppTypes, MessageTypes, QueueTypes, TableTypes, IAppTypes, LoopTypes,
   TaskTypes, NodeTypes, xVars, msgVars, ricVars, iappVars, loopVars, nodeVars

\* The types are invariant, whatever the RAN functions.
LEMMA TypesAlways ==
  Spec => []Types
<1>1. Types /\ [Next]_vars => Types'
  <2>1. ASSUME Types, Next PROVE Types'
    BY <2>1, TypesStep, Stops, Stutters
  <2>2. ASSUME Types, UNCHANGED vars PROVE Types'
    BY <2>2, Stutters DEF vars
  <2> QED
    BY <2>1, <2>2
<1> QED
  BY TypesInit, <1>1, PTL DEF Spec

\* The state keeps its types.
THEOREM TypeCorrect == Spec => []TypeOK
<1>1. Types => TypeOK
  BY DEF Types, XAppTypes, MessageTypes, QueueTypes, TableTypes, IAppTypes, LoopTypes,
     TaskTypes, NodeTypes, TypeOK
<1> QED
  BY TypesAlways, <1>1, PTL

Routing ==
  /\ Types /\ OneAnswer /\ Issued /\ Keys /\ Kinds
  /\ OneCarrier /\ Held /\ Lost
  /\ Directed /\ Placed /\ Fresh /\ Served
  /\ Located /\ Quiet

\* Initially nothing is under way and nothing is held.
LEMMA RoutingInit ==
  ASSUME Init
  PROVE  Routing
<1>0. Types
  BY TypesInit
<1>1. /\ toIApp = {} /\ toX = {} /\ tasks = {} /\ pending = {} /\ ipc = "epoll" /\ ilist = {}
      /\ iid = 0 /\ nextId = 1 /\ \A n \in Nodes : Len(toN[n]) = 0
      /\ \A x \in XApps : xsubs[x] = {} /\ xcall[x] = <<>>
      /\ \A i \in Ids : map[i] = NoEntry
  BY DEF Init
<1>2. Sending = {} /\ Queued = {} /\ Answers = {} /\ Finding = {} /\ Asks = {} /\ ~Busy /\ ~Adding
  BY <1>1 DEF Sending, Queued, Answers, Finding, Asks, Busy, Adding
<1>3. OneAnswer
  BY <1>1, <1>2 DEF OneAnswer, Tokens
<1>4. Issued /\ Keys
  BY <1>1, <1>2 DEF Issued, Keys
<1>5. Kinds
  BY <1>1, <1>2 DEF Kinds, Tokens
<1>6. ASSUME NEW x \in XApps PROVE Carriers(x) = {}
  <2>1. Asked(x) = {} /\ Taken(x) = {} /\ Listed(x) = {}
    BY <1>1 DEF Asked, Taken, Listed
  <2>2. Sent(x) = {} /\ Back(x) = {}
    BY <1>2 DEF Sent, Back, Tokens
  <2>3. Routed(x) = {} /\ Replies(x) = {}
    BY <1>1 DEF Routed, Replies
  <2> QED
    BY <2>1, <2>2, <2>3 DEF Carriers
<1>7. OneCarrier
  BY <1>6 DEF OneCarrier, Single
<1>8. Held
  BY <1>1 DEF Held, HeldBy
<1>9. Lost
  BY <1>1, <1>2 DEF Lost, GoneAreDead, Tokens
<1>10. \A i \in Ids : Owner(i) = NoEntry
  BY <1>1, <1>2 DEF Owner
<1>11. Directed /\ Placed /\ Fresh /\ Served
  BY <1>1, <1>10 DEF Directed, Placed, Fresh, Served
<1>12. Located /\ Quiet
  BY <1>1, <1>2, <1>10 DEF Init, Located, Quiet, QuietFor
<1> QED
  BY <1>0, <1>3, <1>4, <1>5, <1>7, <1>8, <1>9, <1>11, <1>12 DEF Routing

\* Nor does the invariant depend on the failed assertion.
LEMMA RoutingStutters ==
  ASSUME UNCHANGED <<xVars, msgVars, ricVars, iappVars, loopVars, tasks, nodeVars>>, Routing
  PROVE  Routing'
<1>0. UNCHANGED <<alive, xcall, xnext, xsubs, toIApp, toX, toN, nextId, pending, map, wlock,
                  ipc, ireq, iid, ilist, tasks, up, active>>
  BY DEF xVars, msgVars, ricVars, iappVars, nodeVars
<1>1. Types'
  BY Stutters DEF Routing
<1>2. /\ Tokens' = Tokens /\ Queued' = Queued /\ Answers' = Answers /\ Sending' = Sending
      /\ Finding' = Finding /\ Asks' = Asks /\ Busy' = Busy /\ Adding' = Adding
  BY <1>0 DEF Tokens, Queued, Answers, Sending, Finding, Asks, Busy, Adding
<1>3. \A i : Owner(i)' = Owner(i)
  BY <1>0 DEF Owner, Adding
<1>4. OneAnswer' /\ Issued'
  BY <1>0, <1>2 DEF Routing, OneAnswer, Issued
<1>5. Keys'
  BY <1>0, <1>2 DEF Routing, Keys
<1>6. Kinds'
  BY <1>0, <1>2, <1>3 DEF Routing, Kinds, NoCtrl
<1>7. ASSUME NEW x PROVE Carriers(x)' = Carriers(x) /\ Replies(x)' = Replies(x)
  <2>1. Sent(x)' = Sent(x) /\ Back(x)' = Back(x)
    BY <1>2, <1>3 DEF Sent, Back, OfX
  <2> QED
    BY <1>0, <2>1 DEF Carriers, Asked, Taken, Listed, Routed, Replies
<1>8. OneCarrier'
  BY <1>0, <1>7 DEF Routing, OneCarrier
<1>9. Held'
  <2>1. \A x, l : HasEntry(x, l)' = HasEntry(x, l)
    BY <1>0 DEF HasEntry
  <2> QED
    BY <1>0, <1>7, <2>1 DEF Routing, Held, HeldBy
<1>10. Lost'
  BY <1>0, <1>2, <1>3 DEF Routing, Lost, GoneAreDead, AllAlive
<1>11. Directed' /\ Placed' /\ Fresh'
  BY <1>0, <1>3 DEF Routing, Directed, Placed, Fresh
<1>12. Served'
  BY <1>0, <1>2, <1>3 DEF Routing, Served, Serves
<1>13. Located' /\ Quiet'
  BY <1>0, <1>2, <1>3 DEF Routing, Located, Quiet, QuietFor, Idle
<1> QED
  BY <1>1, <1>4, <1>5, <1>6, <1>8, <1>9, <1>10, <1>11, <1>12, <1>13 DEF Routing

\* Every step keeps the invariant.
LEMMA RoutingStep ==
  ASSUME OwnRanFunc, Routing, [Next]_vars
  PROVE  Routing'
<1>1. ASSUME Next, abort' = "none" PROVE Routing'
  BY <1>1, TypesStep, OneAnswerStep, IssuedStep, KeysStep, KindsStep, OneCarrierStep,
     HeldStep, LostStep, DirectedStep, PlacedStep, FreshStep, ServedStep, LocatedStep,
     QuietStep DEF Routing, Lost
<1>2. ASSUME Next, abort' # "none" PROVE Routing'
  BY <1>2, Stops, RoutingStutters
<1>3. ASSUME UNCHANGED vars PROVE Routing'
  BY <1>3, RoutingStutters DEF vars
<1> QED
  BY <1>1, <1>2, <1>3

\* The invariant, for xApps with a RAN function of their own.
LEMMA RoutingAlways ==
  ASSUME OwnRanFunc
  PROVE  Spec => []Routing
<1>1. Routing /\ [Next]_vars => Routing'
  BY RoutingStep
<1> QED
  BY RoutingInit, <1>1, PTL DEF Spec

\* An answer on its way to a live xApp is the one its call waits for.
THEOREM AnswersAreExpected ==
  ASSUME OwnRanFunc
  PROVE  Spec => []AnswerExpected
<1>1. Routing => AnswerExpected
  <2> SUFFICES ASSUME Routing, NEW m \in toX, m.op # "ind", alive[m.x]
               PROVE  xcall[m.x] = <<m.op, m.l>>
    BY DEF AnswerExpected
  <2>1. m.x \in XApps
    BY DEF Routing, Types, MessageTypes, ToXApp
  <2> QED
    BY <2>1, Carried DEF Routing
<1> QED
  BY RoutingAlways, <1>1, PTL

\* Where no node may leave, all are connected.
LEMMA NodesStay ==
  ASSUME ~NodesMayLeave
  PROVE  Spec => [](\A n \in Nodes : up[n])
<1>1. Init => \A n \in Nodes : up[n]
  BY DEF Init
<1>2. (\A n \in Nodes : up[n]) /\ [Next]_vars => (\A n \in Nodes : up[n])'
  BY LoopWriters DEF LoopStep, LExpired, LTimer, LShutdown, LForget, Fail, NLeave,
     nodeVars, vars
<1> QED
  BY <1>1, <1>2, PTL DEF Spec

\* A subscription that a live xApp holds has one entry in map_ric_id, and its node
\* serves it.
THEOREM HeldIsServedAlways ==
  ASSUME OwnRanFunc, ~NodesMayLeave
  PROVE  Spec => []HeldIsServed
<1>1. ASSUME Routing, \A n \in Nodes : up[n] PROVE HeldIsServed
  <2>0. Types /\ Keys /\ Kinds /\ OneCarrier /\ Held /\ Fresh /\ Served
    BY <1>1 DEF Routing
  <2> SUFFICES ASSUME NEW x \in XApps, NEW l \in xsubs[x], alive[x], xcall[x] # <<"del", l>>
               PROVE  \E i \in Ids : Owned([x |-> x, l |-> l]) = {i} /\ i \in active[map[i].n]
    BY DEF HeldIsServed
  <2>1. HeldBy(x) /\ HasEntry(x, l)
    BY <2>0 DEF Held, HeldBy
  <2>2. PICK i \in Ids : map[i] # NoEntry /\ map[i].x = x /\ map[i].l = l
    BY <2>1 DEF HasEntry
  <2>3. Owned([x |-> x, l |-> l]) = {i}
    BY <2>0, <2>2 DEF Owned, Keys, Same
  <2>4. ~(Adding /\ i = iid) /\ Owner(i) = map[i]
    BY <1>1, <2>2 DEF Routing, Issued, Owner
  <2>5. map[i].op = "sub" /\ map[i].n \in Nodes
    BY <2>0, <2>2, Entry DEF Kinds, NoCtrl, Types, TableTypes
  <2>6. \A k \in Tokens \cup Finding : k[2] = i => k[1] \notin {"sub", "del"}
    <3> SUFFICES ASSUME NEW k \in Tokens \cup Finding, k[2] = i, k[1] \in {"sub", "del"} PROVE FALSE
      OBVIOUS
    <3>1. OfX(x, k) /\ Owner(k[2]).l = l
      BY <2>2, <2>4 DEF OfX
    <3>2. xcall[x] = <<k[1], l>>
      BY <2>0, <3>1, Carried
    <3> QED
      BY <2>0, <3>2 DEF Fresh
  <2>7. ASSUME NEW t \in tasks, t.pc \in {"tx", "rm"}, t.op = "del", t.to = map[i] PROVE FALSE
    <3>1. CASE t.pc = "tx"
      <4>1. xcall[x] = <<"del", l>>
        BY <2>0, <2>2, <2>7, <3>1, Carried
      <4> QED
        BY <4>1
    <3>2. CASE t.pc = "rm"
      BY <2>1, <2>2, <2>7, <3>2 DEF HeldBy
    <3> QED
      BY <2>7, <3>1, <3>2
  <2>8. Serves(i)
    BY <2>0, <2>2, <2>4, <2>5 DEF Served
  <2>9. i \in active[map[i].n]
    <3>1. <<"sub", i>> \notin Tokens /\ <<"del", i>> \notin Tokens \cup Finding
      BY <2>6
    <3> QED
      BY <1>1, <2>4, <2>5, <2>7, <2>8, <3>1 DEF Serves, Tokens
  <2> QED
    BY <2>3, <2>9
<1> QED
  BY RoutingAlways, NodesStay, <1>1, PTL

-----------------------------------------------------------------------------
(* The assertions *)

\* What each assertion that fails has met.
Reason ==
  \/ abort' = "invalid node" /\ \E m \in toIApp : m.op \in {"sub", "ctrl"} /\ m.n \notin reg
  \/ abort' = "node address not found" /\ ipc = "send" /\ ireq.n \notin sock
  \/ abort' = "ric_req_id already in the map" /\ ipc = "add" /\ map[iid] # NoEntry
  \/ abort' = "xApp ric id not found" /\ \E m \in toIApp : m.op = "del" /\ Found(m) = {}
  \/ abort' = "not a subscription" /\
       \E m \in toIApp : m.op = "del" /\ \E i \in Found(m) : map[i].op # "sub"
  \/ abort' = "no pending event" /\ \E t \in tasks : t.pc = "stop" /\ <<t.op, t.i>> \notin pending
  \/ abort' = "RIC Req Id not found!" /\
       \E t \in tasks : TFind(t) /\ t.op \notin {"del", "ind"} /\ map[t.i] = NoEntry
  \/ abort' = "xApp ric id not in the map" /\ \E t \in tasks : t.pc = "rm" /\ Owned(t.to) = {}
  \/ abort' \in {"consume_fd", "fd not pending"} /\ lpc = "timer"

\* No other assertion of the modelled code fails.
LEMMA WhoAborts ==
  ASSUME Next, abort' # "none"
  PROVE  Reason
<1>0. abort = "none"
  BY DEF Next
<1>1. ASSUME NEW m \in toIApp, IRequest(m) \/ IDelete(m) \/ IGone(m) PROVE Reason
  BY <1>0, <1>1 DEF IRequest, IDelete, IGone, Fail, Reason
<1>2. ASSUME IForward \/ ISend \/ IAdd \/ \E d \in ilist : IForwardDelete(d) PROVE Reason
  BY <1>0, <1>2 DEF IForward, ISend, IAdd, IForwardDelete, Fail, Reason
<1>3. ASSUME NEW t \in tasks, TStop(t) \/ TSend(t) \/ TRemove(t) PROVE Reason
  BY <1>0, <1>3 DEF TStop, TSend, TRemove, Fail, Reason
<1>4. ASSUME NEW t \in tasks, TFind(t) PROVE Reason
  <2>1. abort' = "RIC Req Id not found!" /\ t.op \notin {"del", "ind"} /\ map[t.i] = NoEntry
    BY <1>0, <1>4 DEF TFind
  <2> QED
    BY <1>4, <2>1 DEF Reason
<1>5. LoopStep => Reason
  BY <1>0 DEF LoopStep, LExpired, LTimer, LShutdown, LForget, Fail, Reason
<1>6. ~Deliver /\ ~(\E x \in XApps : XStep(x)) /\ ~(\E n \in Nodes : NodeStep(n))
  BY <1>0 DEF Deliver, XReceive, SendFailed, XStep, XRequest, XDelete, XDie,
              NodeStep, NAnswer, NLeave, NIndicate
<1> QED
  BY <1>1, <1>2, <1>3, <1>4, <1>5, <1>6 DEF Next, IAppStep, TaskStep

\* What has happened when an assertion fails.
LEMMA FailuresHaveReasons ==
  ASSUME OwnRanFunc, Routing, Next, abort' # "none"
  PROVE  /\ abort' \notin {"no pending event", "ric_req_id already in the map", "not a subscription"}
         /\ abort' \in {"invalid node", "node address not found"} => \E n \in Nodes : ~up[n]
         /\ abort' \in {"RIC Req Id not found!", "xApp ric id not in the map", "xApp ric id not found"} =>
              \E x \in XApps : ~alive[x]
         /\ abort' \in {"consume_fd", "fd not pending"} => lpc = "timer"
         /\ abort' \in {"invalid node", "node address not found", "RIC Req Id not found!",
                        "xApp ric id not in the map", "xApp ric id not found",
                        "consume_fd", "fd not pending"}
<1>0. Types /\ OneAnswer /\ Issued /\ Keys /\ Kinds /\ OneCarrier /\ Held /\ Lost
  BY DEF Routing
<1>1. ASSUME NEW m \in toIApp, m.op \in {"sub", "ctrl"}, m.n \notin reg PROVE \E n \in Nodes : ~up[n]
  <2>1. m.n \in Nodes
    BY <1>0, <1>1, Asking, Entry DEF Types, MessageTypes
  <2> QED
    BY <1>0, <1>1, <2>1 DEF Types, LoopTypes
<1>2. ASSUME ipc = "send", ireq.n \notin sock PROVE \E n \in Nodes : ~up[n]
  <2>1. ireq.n \in Nodes
    BY <1>0, <1>2, Entry DEF Types, IAppTypes
  <2> QED
    BY <1>0, <1>2, <2>1 DEF Types, LoopTypes
<1>3. ~(ipc = "add" /\ map[iid] # NoEntry)
  BY <1>0, Entry DEF Issued, Adding, Types, IAppTypes
<1>4. ASSUME NEW m \in toIApp, m.op = "del", Found(m) = {} PROVE \E x \in XApps : ~alive[x]
  <2> SUFFICES ASSUME alive[m.x] PROVE FALSE
    BY <1>0, <1>4, Asking DEF Types, MessageTypes
  <2>1. m.x \in XApps /\ m.l \in Locals
    BY <1>0, <1>4, Asking DEF Types, MessageTypes
  <2>2. xcall[m.x] = <<"del", m.l>> /\ Replies(m.x) = {}
    BY <1>0, <1>4, <2>1, Carried
  <2>3. HasEntry(m.x, m.l)
    BY <1>0, <2>1, <2>2 DEF Held, HeldBy
  <2>4. PICK i \in Ids : map[i] # NoEntry /\ map[i].x = m.x /\ map[i].l = m.l
    BY <2>3 DEF HasEntry
  <2>5. \A j \in Ids : Matches(j, m) => map[j].x = m.x
    BY <1>0, <2>1, Entry DEF Matches, OwnRanFunc, Types, TableTypes
  <2>6. XId[m.x] \in Nat
    BY <2>1, XIdAssumption
  <2>7. Matches(i, m) /\ \A j \in Ids : Matches(j, m) => XId[map[i].x] <= XId[map[j].x]
    BY <2>4, <2>5, <2>6 DEF Matches
  <2> QED
    BY <1>4, <2>7 DEF Found
<1>5. ASSUME NEW m \in toIApp, m.op = "del", NEW i \in Found(m) PROVE map[i].op = "sub"
  <2>1. i \in Ids /\ map[i] \in Entries /\ map[i].x = m.x /\ map[i].l = m.l
    BY <1>0, <1>5, FoundOwn
  <2> QED
    BY <1>0, <1>5, <2>1, Entry DEF Kinds, NoCtrl
<1>6. \A t \in tasks : t.pc = "stop" => <<t.op, t.i>> \in pending
  BY <1>0 DEF OneAnswer, Tokens, Answers
<1>7. ASSUME NEW t \in tasks, TFind(t), t.op \notin {"del", "ind"}, map[t.i] = NoEntry
      PROVE  \E x \in XApps : ~alive[x]
  <2>1. <<t.op, t.i>> \in Finding /\ Owner(t.i) = NoEntry
    BY <1>0, <1>7, FoundOwner
  <2> QED
    BY <1>0, <1>7, <2>1 DEF Lost, AllAlive
<1>8. ASSUME NEW t \in tasks, t.pc = "rm", Owned(t.to) = {} PROVE \E x \in XApps : ~alive[x]
  <2>1. t.to \in Entries /\ t.i \in Ids /\ t.op \in {"del", "ctrl"}
    BY <1>0, <1>8 DEF Types, TaskTypes, Tasks
  <2>2. t.to.x \in XApps /\ t.to # NoEntry
    BY <2>1, Entry
  <2>3. map[t.i] # t.to
    BY <1>8, <2>1, <2>2 DEF Owned
  <2> QED
    BY <1>0, <1>8, <2>1, <2>2, <2>3 DEF Held, HeldBy
<1> QED
  BY WhoAborts, <1>1, <1>2, <1>3, <1>4, <1>5, <1>6, <1>7, <1>8 DEF Reason

\* Assertions fail only for the reasons known.
THEOREM OnlyForeseenFailures ==
  ASSUME OwnRanFunc
  PROVE  Spec => []FailuresForeseen
<1>1. Init => FailuresForeseen
  BY DEF Init, FailuresForeseen
<1>2. Routing /\ FailuresForeseen /\ [Next]_vars => FailuresForeseen'
  <2>1. ASSUME Routing, Next, abort' # "none" PROVE FailuresForeseen'
    <3>1. up' = up /\ alive' = alive
      BY <2>1, Stops DEF xVars, nodeVars
    <3> QED
      BY <2>1, <3>1, FailuresHaveReasons DEF FailuresForeseen
  <2>2. ASSUME abort' = "none" PROVE FailuresForeseen'
    BY <2>2 DEF FailuresForeseen
  <2>3. ASSUME FailuresForeseen, UNCHANGED vars PROVE FailuresForeseen'
    BY <2>3 DEF FailuresForeseen, vars, xVars, nodeVars
  <2> QED
    BY <2>1, <2>2, <2>3
<1> QED
  BY RoutingAlways, <1>1, <1>2, PTL DEF Spec

Prompt == /\ abort = "none" /\ AllAlive /\ lpc # "timer"
          /\ \A n \in Nodes : up[n]

\* While nodes answer in time and nobody vanishes, no assertion fails.
THEOREM NoAssertionFails ==
  ASSUME OwnRanFunc, ~XAppsMayDie, ~NodesMayLeave, ~LateAnswers
  PROVE  Spec => []NoAbort
<1>1. Init => Prompt
  BY DEF Init, Prompt, AllAlive
<1>2. Routing /\ Prompt /\ [Next]_vars => Prompt'
  <2>1. ASSUME Routing, Prompt, Next PROVE Prompt'
    <3>1. abort' = "none"
      BY <2>1, FailuresHaveReasons DEF Prompt, AllAlive
    <3>2. Types /\ OneCarrier
      BY <2>1 DEF Routing
    <3>3. alive' = alive
      <4>1. ASSUME NEW m \in toX, XReceive(m) PROVE alive' = alive
        <5>1. m.x \in XApps
          BY <3>2 DEF Types, MessageTypes, ToXApp
        <5>2. m.op # "ind" => xcall[m.x] = <<m.op, m.l>>
          BY <2>1, <3>2, <5>1, Carried DEF Prompt, AllAlive
        <5> QED
          BY <4>1, <5>2 DEF XReceive, xVars
      <4> QED
        BY <2>1, <4>1, XAppWriters DEF XRequest, XDelete, XDie, xVars
    <3>4. up' = up /\ lpc' # "timer"
      BY <2>1, LoopWriters DEF LoopStep, LExpired, LTimer, LShutdown, LForget, NLeave,
         nodeVars, Prompt
    <3> QED
      BY <2>1, <3>1, <3>3, <3>4 DEF Prompt, AllAlive
  <2>2. ASSUME Prompt, UNCHANGED vars PROVE Prompt'
    BY <2>2 DEF Prompt, AllAlive, vars, xVars, nodeVars, loopVars
  <2> QED
    BY <2>1, <2>2
<1>3. Prompt => NoAbort
  BY DEF Prompt, NoAbort
<1> QED
  BY RoutingAlways, <1>1, <1>2, <1>3, PTL DEF Spec

\* While every node is connected, ric->pending holds the requests that have one answer to
\* come and nothing else: no request is sent twice while its timer runs, none is answered
\* twice, and no timer is left behind.  This needs no assumption on the RAN functions.
THEOREM PendingIsAccounted == Spec => []PendingAccounted
<1> DEFINE Inv == Types /\ OneAnswer /\ Issued /\ Awaited
<1>1. Init => Inv
  <2> SUFFICES ASSUME Init PROVE Inv
    OBVIOUS
  <2>1. /\ tasks = {} /\ pending = {} /\ ipc = "epoll" /\ ilist = {}
        /\ iid = 0 /\ nextId = 1 /\ (\A n \in Nodes : Len(toN[n]) = 0)
        /\ \A i \in Ids : map[i] = NoEntry
    BY DEF Init
  <2>2. Sending = {} /\ Queued = {} /\ Answers = {} /\ Finding = {} /\ ~Adding
    BY <2>1 DEF Sending, Queued, Answers, Finding, Adding
  <2> QED
    BY <2>1, <2>2, TypesInit DEF OneAnswer, Issued, Awaited, Tokens
<1>2. Inv /\ [Next]_vars => Inv'
  <2>1. ASSUME Inv, Next, abort' = "none" PROVE Inv'
    BY <2>1, TypesStep, OneAnswerStep, IssuedStep, AwaitedStep
  <2>2. ASSUME Inv, UNCHANGED <<xVars, msgVars, ricVars, iappVars, loopVars, tasks, nodeVars>>
        PROVE  Inv'
    <3>1. UNCHANGED <<toN, nextId, pending, map, ipc, ireq, iid, ilist, tasks, up>>
      BY <2>2 DEF xVars, msgVars, ricVars, iappVars, nodeVars
    <3>2. Tokens' = Tokens /\ Queued' = Queued /\ Answers' = Answers /\ Sending' = Sending
          /\ Finding' = Finding /\ Adding' = Adding
      BY <3>1 DEF Tokens, Queued, Answers, Sending, Finding, Adding
    <3> QED
      BY <2>2, <3>1, <3>2, Stutters DEF OneAnswer, Issued, Awaited
  <2>3. ASSUME Inv, Next, abort' # "none" PROVE Inv'
    BY <2>2, <2>3, Stops
  <2> QED
    BY <2>1, <2>2, <2>3 DEF vars
<1>3. Inv => PendingAccounted
  BY Accounted
<1> QED
  BY <1>1, <1>2, <1>3, PTL DEF Spec
=============================================================================
