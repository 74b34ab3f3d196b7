--------------------------- MODULE RicNodesProofs ---------------------------
(***************************************************************************)
(* Who is connected, for any number of nodes, xApps, associations and      *)
(* faults: the state has its types, ids are the xApps' own, the tables of  *)
(* the RIC agree, the failures are foreseen and every xApp hears of every  *)
(* node, but for two races that "missed" records.                          *)
(*                                                                         *)
(* Besides the types, the inductive invariant has parts that hold whatever *)
(* happens: what the tasks that fill the tables rely on (Filling), the     *)
(* order of a node's messages (InOrder), the ids of the iApp (IdsGiven,    *)
(* InOnePlace), the order of an xApp's messages (AnswerFirst) and the      *)
(* failures that never come (Unfailed).  The last part, Manners, holds     *)
(* while nodes ask once and leave only after their answer: it says of      *)
(* every node how far its last association and the one before are.         *)
(*                                                                         *)
(* Announcing is a second invariant that rests on the first: what the task *)
(* that holds the mutex sends names all that have been pushed (Listed),    *)
(* what the loop sends names all that are registered but those who came    *)
(* late (CopyWhole), and a node that has been pushed is known, to be told, *)
(* or named in all that the xApp will read before it is connected          *)
(* (Announced).  A third, Awaiting, says where the request or the answer   *)
(* is of whoever waits.                                                    *)
(***************************************************************************)
EXTENDS RicNodes, SequenceTheorems, TLAPS

-----------------------------------------------------------------------------
(* The invariant *)

E2Messages == [type : {"setup", "shutdown"}, n : Nodes, l : 1..MaxStarts, k : 0..MaxFaults+1]
Steps      == {"address", "add", "lock", "copy", "tell", "send"}
Tasks      == [n : Nodes, l : 1..MaxStarts, k : 1..MaxFaults+1, st : Steps]
Answers    == [x : XApps, id : Nat \ {0}, list : SUBSET Nodes, st : {"register", "send"}]
XMessages  == [type : {"setup", "update"}, id : Nat \ {0}, list : SUBSET Nodes]

\* TypeOK in parts, each with the variables that change together.  A request is repeated
\* only at the price of a fault, which bounds the numbers of the requests.
LoopTypes ==
  /\ e2 \in Seq(E2Messages)
  /\ \A i \in DOMAIN e2 : e2[i].type = "setup" => e2[i].k >= 1
  /\ at \in {"wait", "erase", "forget", "count", "copy", "tell"}
  /\ ev \in [n : Nodes, l : 1..MaxStarts] \cup {NoAssoc}
  /\ at # "wait" => ev.n \in Nodes
RoundTypes ==
  lcount \in Nat /\ ltold \in Nat /\ ltold <= lcount /\ llist \subseteq Nodes
TableTypes ==
  /\ addrs \subseteq Requests /\ conn \subseteq Nodes /\ reg \subseteq Nodes
TaskTypes ==
  /\ tasks \subseteq Tasks
  /\ holder \in Requests \cup {NoTask} /\ list \subseteq Nodes
  /\ count \in Nat /\ told \in Nat /\ told <= count
IAppTypes ==
  /\ e42 \in Seq(XApps) /\ nextId \in Nat \ {0} /\ xaddrs \in Seq(XApps)
  /\ answer \in Answers \cup {NoAnswer}
InboxTypes ==
  /\ inbox \in [XApps -> Seq(XMessages)]
XAppTypes ==
  /\ xst \in [XApps -> {"new", "asking", "connected", "aborted", "gone"}]
  /\ asked \in [XApps -> Nat] /\ xid \in [XApps -> Nat]
  /\ xnodes \in [XApps -> SUBSET Nodes]
  /\ \A x \in XApps : asked[x] <= faults + 1 /\ (xst[x] = "new" <=> asked[x] = 0)
NodeTypes ==
  /\ nst \in [Nodes -> {"off", "asked", "up"}] /\ assoc \in [Nodes -> 0..MaxStarts]
  /\ starts \in 0..MaxStarts /\ faults \in 0..MaxFaults
  /\ tries \in [Nodes -> Nat] /\ kept \in BOOLEAN
  /\ \A n \in Nodes : tries[n] <= faults + 1 /\ (nst[n] # "off" => assoc[n] >= 1)
HistoryTypes ==
  late \subseteq Nodes /\ missed \subseteq (XApps \X Nodes) /\ behind \subseteq XApps

Failures == {"no_address", "addresses_differ", "node_not_found", "not_registered",
             "node_exists", "xapp_not_found", "xapp_exists"}

Types == LoopTypes /\ RoundTypes /\ TableTypes /\ TaskTypes /\ IAppTypes /\ InboxTypes
         /\ XAppTypes /\ NodeTypes /\ HistoryTypes

Setup(i, n) == i \in DOMAIN e2 /\ e2[i].type = "setup" /\ e2[i].n = n
Down(i, n)  == i \in DOMAIN e2 /\ e2[i].type = "shutdown" /\ e2[i].n = n
Away(n)     == at \in {"erase", "forget"} /\ ev.n = n   \* the loop removes n from the tables
Pushed(t)   == t.st \in {"copy", "tell", "send"}

\* A task that has entered its node in the registry, and not yet among the connected ones,
\* is the only one that could, and the loop does not remove the node meanwhile.
Filling ==
  /\ conn \subseteq reg
  /\ at = "forget" => ev.n \in reg \ conn
  /\ \A t \in tasks : t.st = "lock" =>
       /\ t.n \in reg \ conn
       /\ ~(at = "forget" /\ ev.n = t.n)
       /\ \A u \in tasks : u.st = "lock" /\ u.n = t.n => u = t

\* The loss of an association is handled before the requests of the next: a request of a
\* node that still has its association is behind it in the socket, or it is over.
InOrder ==
  /\ \A i \in DOMAIN e2 : e2[i].l <= starts
  /\ \A t \in tasks : t.l <= starts
  /\ \A n \in Nodes : assoc[n] <= starts
  /\ \A n \in Nodes : nst[n] # "off" =>
       \A i, j \in DOMAIN e2 : Setup(i, n) /\ e2[i].l = assoc[n] /\ Down(j, n) => j < i
  /\ \A t \in tasks : nst[t.n] # "off" /\ t.l = assoc[t.n] =>
       /\ ~Away(t.n) /\ \A j \in DOMAIN e2 : ~Down(j, t.n)
       /\ t.st # "address" => \E a \in addrs : a.n = t.n /\ a.l = t.l
       /\ Pushed(t) => t.n \in conn
  /\ \A n \in Nodes : nst[n] = "up" =>
       /\ ~Away(n) /\ \A j \in DOMAIN e2 : ~Down(j, n)
       /\ \E a \in addrs : a.n = n /\ a.l = assoc[n]
       /\ n \in conn

\* Ids are given out in turn and entered under the address of the xApp that asked; the
\* messages on their way to an xApp carry its own.  An xApp that has asked once is in one
\* place only.
Registering(x) == answer.st = "register" /\ answer.x = x
IdsGiven ==
  /\ answer.st = "register" => nextId = Len(xaddrs) + 2 /\ answer.id = Len(xaddrs) + 1
  /\ answer.st # "register" => nextId = Len(xaddrs) + 1
  /\ answer.st = "send" => answer.id \in DOMAIN xaddrs /\ xaddrs[answer.id] = answer.x
  /\ count <= Len(xaddrs) /\ lcount <= Len(xaddrs)
  /\ \A x \in XApps :
       /\ xid[x] # 0 => xid[x] \in DOMAIN xaddrs /\ xaddrs[xid[x]] = x
       /\ \A i \in DOMAIN inbox[x] :
            inbox[x][i].id \in DOMAIN xaddrs /\ xaddrs[inbox[x][i].id] = x
InOnePlace ==
  \A x \in XApps :
    /\ asked[x] = 0 =>
         /\ ~Registering(x) /\ (\A i \in DOMAIN e42 : e42[i] # x)
         /\ \A i \in DOMAIN xaddrs : xaddrs[i] # x
    /\ asked[x] = 1 =>
         /\ \A i, j \in DOMAIN e42 : e42[i] = x /\ e42[j] = x => i = j
         /\ \A i, j \in DOMAIN xaddrs : xaddrs[i] = x /\ xaddrs[j] = x => i = j
         /\ \A i \in DOMAIN e42, j \in DOMAIN xaddrs : ~(e42[i] = x /\ xaddrs[j] = x)
         /\ Registering(x) => /\ \A i \in DOMAIN e42 : e42[i] # x
                              /\ \A j \in DOMAIN xaddrs : xaddrs[j] # x

\* An xApp that is asking and not behind reads its answer before any update.
IsSetup(x, i) == i \in DOMAIN inbox[x] /\ inbox[x][i].type = "setup"
AnswerFirst ==
  \A x \in XApps :
    /\ xst[x] = "asking" /\ (\E i \in DOMAIN xaddrs : xaddrs[i] = x) =>
         \/ answer.st = "send" /\ answer.x = x
         \/ \E i \in DOMAIN inbox[x] : IsSetup(x, i)
    /\ xst[x] \in {"new", "asking"} /\ x \notin behind =>
         /\ xnodes[x] = {}
         /\ \A i \in DOMAIN inbox[x] : \E j \in 1..i : IsSetup(x, j)
    /\ xst[x] = "aborted" => x \in behind

\* While nodes keep their manners: one request and one loss of a node are under way at
\* most, the loss first, and the tables hold the node as far as its task has filled them
\* and until its loss has been handled.
Entered(n)  == \E a \in addrs : a.n = n
Alone(n, l) == \A a \in addrs : a.n = n => a.l = l
Whole(n, l) == n \in reg /\ n \in conn /\ Entered(n) /\ Alone(n, l)
Leaves(n) == Away(n) \/ \E j \in DOMAIN e2 : Down(j, n)
OneEach ==
  /\ \A n \in Nodes : \A i, j \in DOMAIN e2 : Setup(i, n) /\ Setup(j, n) => i = j
  /\ \A n \in Nodes : \A i, j \in DOMAIN e2 : Down(i, n) /\ Down(j, n) => i = j
  /\ \A n \in Nodes : \A i \in DOMAIN e2 : Down(i, n) => ~Away(n)
  /\ \A t, u \in tasks : t.n = u.n => t = u
  /\ \A t \in tasks : \A i \in DOMAIN e2 : ~Setup(i, t.n)
  /\ \A a, b \in addrs : a.n = b.n => a = b
Asking ==
  /\ \A n \in Nodes : \A i \in DOMAIN e2 : Setup(i, n) => nst[n] = "asked" /\ e2[i].l = assoc[n]
  /\ \A t \in tasks : nst[t.n] = "asked" /\ t.l = assoc[t.n] /\ ~Leaves(t.n)
  /\ \A n \in Nodes : nst[n] = "up" => ~Leaves(n)
UpIsIn     == \A n \in Nodes : nst[n] = "up" => Whole(n, assoc[n])
LossIsIn   == \A n \in Nodes : \A j \in DOMAIN e2 : Down(j, n) => Whole(n, e2[j].l)
AwayIsHalf == \A n \in Nodes : Away(n) =>
                ~Entered(n) /\ n \in reg /\ (n \in conn <=> at = "erase")
TasksFill  == \A t \in tasks :
                /\ t.st = "address" <=> ~Entered(t.n)
                /\ Alone(t.n, t.l)
                /\ t.n \in reg <=> t.st \notin {"address", "add"}
                /\ t.n \in conn <=> Pushed(t)
OthersOut  == \A n \in Nodes : nst[n] # "up" /\ ~Leaves(n) /\ (\A t \in tasks : t.n # n) =>
                n \notin reg /\ n \notin conn /\ ~Entered(n)
Filled     == UpIsIn /\ LossIsIn /\ AwayIsHalf /\ TasksFill /\ OthersOut
Manners == kept => OneEach /\ Asking /\ Filled /\ Running

\* The failures that never come; the others come from the nodes' manners.
Unfailed == abort \in ({"none"} \cup Failures) \ {"not_registered", "xapp_not_found",
              "xapp_exists"}

NodesInv == Types /\ Filling /\ InOrder /\ IdsGiven /\ InOnePlace /\ AnswerFirst /\ Unfailed
            /\ Manners

-----------------------------------------------------------------------------
(* The nodes are announced: an invariant beside the first *)

\* The mutex is held over the steps that tell the xApps.
Telling(t) == t.st \in {"copy", "tell"}
Holding ==
  /\ \A t \in tasks : Telling(t) => holder = Id(t)
  /\ \A t, u \in tasks : Telling(t) /\ Telling(u) => t = u

\* The node has been pushed in its present association, once only.
Current(t, n) == Pushed(t) /\ t.n = n /\ t.l = assoc[n]
Arrived(n) == \/ nst[n] = "up"
              \/ nst[n] = "asked" /\ \E t \in tasks : Current(t, n)
PushedOnce ==
  \A n \in Nodes :
    /\ nst[n] = "up" => \A t \in tasks : ~Current(t, n)
    /\ nst[n] = "asked" => \A t, u \in tasks : Current(t, n) /\ Current(u, n) => t = u

\* What the task sends names every node pushed before; what the loop sends names every
\* node that is registered, but those that were late.
CopyWhole == at = "tell" => reg \subseteq llist \cup late
Listed == \A t \in tasks : t.st = "tell" /\ count > 0 =>
            \A n \in Nodes : Arrived(n) => n \in list

\* An xApp that is connected has an id.
HasId == \A x \in XApps : xst[x] = "connected" => xid[x] # 0

\* A node that has been pushed is known to the xApp once it has read its messages, or the
\* task has yet to tell it, or it was pushed before the xApp's request was read: then
\* whatever is sent to the xApp names it.
ToBeTold(x, n) == \E t \in tasks : /\ Telling(t) /\ t.n = n /\ t.l = assoc[n]
                                   /\ \E i \in DOMAIN xaddrs :
                                         told < i /\ i <= count /\ xaddrs[i] = x
NamedToNew(x, n) == /\ xst[x] \in {"new", "asking"}
                    /\ \A i \in DOMAIN inbox[x] : n \in inbox[x][i].list
                    /\ answer.st # "none" /\ answer.x = x => n \in answer.list
Announced ==
  \A x \in XApps, n \in Nodes :
    Arrived(n) /\ xst[x] \in {"new", "asking", "connected"} /\ <<x, n>> \notin missed =>
      WillKnow(x, n) \/ ToBeTold(x, n) \/ NamedToNew(x, n)

Announcing == Holding /\ PushedOnce /\ CopyWhole /\ Listed /\ HasId /\ Announced

-----------------------------------------------------------------------------
(* Nobody is forgotten: a third *)

\* A node that waits for its answer has its request in the socket or with a task, an xApp
\* has it with the iApp or its answer on the way, and who holds the mutex is at work.
NodeWaits(n) == \/ \E i \in DOMAIN e2 : Setup(i, n) /\ e2[i].l = assoc[n]
                \/ \E t \in tasks : t.n = n /\ t.l = assoc[n]
XAppWaits(x) == \/ \E i \in DOMAIN e42 : e42[i] = x
                \/ answer.st # "none" /\ answer.x = x
                \/ \E i \in DOMAIN inbox[x] : IsSetup(x, i)
Awaiting ==
  /\ \A n \in Nodes : nst[n] = "asked" => NodeWaits(n)
  /\ \A x \in XApps : xst[x] = "asking" => XAppWaits(x)
  /\ holder # NoTask => \E t \in tasks : Telling(t)
-----------------------------------------------------------------------------
(* Sequences and sets *)

\* Appending keeps the elements where they are.
LEMMA Appended ==
  ASSUME NEW S, NEW q \in Seq(S), NEW e \in S
  PROVE  /\ Append(q, e) \in Seq(S)
         /\ Len(q) \in Nat /\ Len(q) + 1 \in DOMAIN Append(q, e)
         /\ Append(q, e)[Len(q) + 1] = e
         /\ \A i \in DOMAIN q : /\ i \in Nat /\ i <= Len(q) /\ i \in DOMAIN Append(q, e)
                                /\ Append(q, e)[i] = q[i] /\ q[i] \in S
         /\ \A i \in DOMAIN Append(q, e) : i \in DOMAIN q \/ i = Len(q) + 1
  OBVIOUS

\* Taking the head off moves the others forward.
LEMMA Taken ==
  ASSUME NEW S, NEW q \in Seq(S), q # <<>>
  PROVE  /\ Tail(q) \in Seq(S)
         /\ 1 \in DOMAIN q /\ Head(q) = q[1] /\ Head(q) \in S
         /\ \A i \in DOMAIN Tail(q) : /\ i \in Nat /\ i >= 1 /\ i + 1 \in DOMAIN q
                                      /\ Tail(q)[i] = q[i + 1]
         /\ \A i \in DOMAIN q : i \in Nat /\ (i = 1 \/ i - 1 \in DOMAIN Tail(q))
  OBVIOUS

\* A task that moves on is the only change to the tasks.
LEMMA Moved ==
  ASSUME TaskTypes, NEW t \in tasks, NEW st \in Steps, Goes(t, st)
  PROVE  /\ tasks' \subseteq Tasks
         /\ \A u \in tasks' : \/ u \in tasks /\ u # t
                              \/ u.n = t.n /\ u.l = t.l /\ u.k = t.k /\ u.st = st
         /\ \A u \in tasks : u # t => u \in tasks'
         /\ \E u \in tasks' : u.n = t.n /\ u.l = t.l /\ u.k = t.k /\ u.st = st
         /\ \A u, v \in tasks' : u.n = t.n /\ u.st = st /\ v.n = t.n /\ v.st = st =>
              \/ u = v
              \/ \E w \in tasks : w # t /\ w.n = t.n /\ w.st = st
<1> DEFINE r == [n |-> t.n, l |-> t.l, k |-> t.k, st |-> st]
<1>1. tasks' = (tasks \ {t}) \cup {r}
  BY DEF Goes
<1>2. t \in Tasks /\ tasks \subseteq Tasks
  BY DEF TaskTypes
<1>3. r.n = t.n /\ r.l = t.l /\ r.k = t.k /\ r.st = st /\ r \in Tasks
  BY <1>2 DEF Tasks
<1> HIDE DEF r
<1> QED
  BY <1>1, <1>2, <1>3

-----------------------------------------------------------------------------
(* The loop's round of the xApps, and what it and the tasks send *)

LoopQuiet  == LoopCount \/ LoopCopy \/ LoopTold
LoopRound  == LoopQuiet \/ LoopTell
UpdateSent == \E i \in DOMAIN xaddrs, nodes \in SUBSET Nodes, lacking \in SUBSET Nodes :
                SendUpdate(i, nodes, lacking)

\* The round changes nothing but its own state, the messages to the xApps and the history.
LEMMA RoundFrame ==
  ASSUME LoopRound
  PROVE  /\ UNCHANGED <<e2, ev, addrs, conn, reg, tasks, holder, count, told, list>>
         /\ UNCHANGED <<e42, nextId, answer, xaddrs, xst, asked, xid, xnodes>>
         /\ UNCHANGED <<nst, assoc, starts, faults, tries, kept>>
         /\ at \in {"count", "copy", "tell"} /\ at' \in {"wait", "count", "copy", "tell"}
<1> USE DEF taskVars, iappVars, xappVars, nodeVars, histVars
<1>1. CASE LoopCount
  BY <1>1 DEF LoopCount
<1>2. CASE LoopCopy
  BY <1>2 DEF LoopCopy
<1>3. CASE LoopTell
  BY <1>3 DEF LoopTell
<1>4. CASE LoopTold
  BY <1>4 DEF LoopTold
<1> QED
  BY <1>1, <1>2, <1>3, <1>4 DEF LoopRound, LoopQuiet

\* It sends in LoopTell alone.
LEMMA QuietFrame ==
  ASSUME LoopQuiet
  PROVE  LoopRound /\ UNCHANGED <<inbox, missed, behind, abort>>
  BY DEF LoopRound, LoopQuiet, LoopCount, LoopCopy, LoopTold, histVars

\* LoopTell sends an update, or fails.
LEMMA LoopSends ==
  ASSUME RoundTypes, IAppTypes, HistoryTypes, LoopTell
  PROVE  \/ ltold < Len(xaddrs) /\ SendUpdate(ltold + 1, llist, late) /\ UpdateSent
            /\ ltold + 1 \in DOMAIN xaddrs /\ ltold' = ltold + 1 /\ UNCHANGED abort
         \/ ltold >= Len(xaddrs) /\ UNCHANGED <<ltold, inbox, missed, behind>>
<1>1. ltold \in Nat /\ Len(xaddrs) \in Nat /\ DOMAIN xaddrs = 1..Len(xaddrs)
  BY DEF RoundTypes, IAppTypes
<1>2. llist \in SUBSET Nodes /\ late \in SUBSET Nodes
  BY DEF RoundTypes, HistoryTypes
<1>3. CASE ltold < Len(xaddrs)
  <2>1. SendUpdate(ltold + 1, llist, late) /\ ltold' = ltold + 1 /\ UNCHANGED abort
    BY <1>3 DEF LoopTell
  <2>2. ltold + 1 \in DOMAIN xaddrs
    BY <1>1, <1>3
  <2> QED
    BY <1>2, <1>3, <2>1, <2>2, Zenon DEF UpdateSent
<1>4. CASE ltold >= Len(xaddrs)
  BY <1>1, <1>4 DEF LoopTell
<1> QED
  BY <1>1, <1>3, <1>4

\* So does TaskTell.
LEMMA TaskSends ==
  ASSUME TaskTypes, IAppTypes, NEW t \in tasks, TaskTell(t)
  PROVE  \/ told < Len(xaddrs) /\ SendUpdate(told + 1, list, {}) /\ UpdateSent
            /\ told + 1 \in DOMAIN xaddrs /\ told' = told + 1 /\ UNCHANGED abort
         \/ told >= Len(xaddrs) /\ UNCHANGED <<told, inbox, missed, behind>>
<1>1. told \in Nat /\ Len(xaddrs) \in Nat /\ DOMAIN xaddrs = 1..Len(xaddrs)
  BY DEF TaskTypes, IAppTypes
<1>2. list \in SUBSET Nodes /\ {} \in SUBSET Nodes
  BY DEF TaskTypes
<1>3. CASE told < Len(xaddrs)
  <2>1. SendUpdate(told + 1, list, {}) /\ told' = told + 1 /\ UNCHANGED abort
    BY <1>3 DEF TaskTell
  <2>2. told + 1 \in DOMAIN xaddrs
    BY <1>1, <1>3
  <2> QED
    BY <1>2, <1>3, <2>1, <2>2, Zenon DEF UpdateSent
<1>4. CASE told >= Len(xaddrs)
  BY <1>1, <1>4 DEF TaskTell
<1> QED
  BY <1>1, <1>3, <1>4

\* What an update does to the messages and to the history.
LEMMA Updated ==
  ASSUME IAppTypes, NEW i \in DOMAIN xaddrs, NEW nodes \in SUBSET Nodes,
         NEW lacking \in SUBSET Nodes, SendUpdate(i, nodes, lacking)
  PROVE  /\ xaddrs[i] \in XApps
         /\ \E m \in XMessages : /\ m.type = "update" /\ m.id = i /\ m.list = nodes
                                /\ ToXApp(xaddrs[i], m)
         /\ behind \subseteq behind' /\ behind' \subseteq behind \cup {xaddrs[i]}
         /\ answer.st = "send" /\ answer.x = xaddrs[i] => xaddrs[i] \in behind'
         /\ missed' = {p \in missed : p[1] # xaddrs[i]} \cup ({xaddrs[i]} \X lacking)
<1> DEFINE u == [type |-> "update", id |-> i, list |-> nodes]
<1>1. xaddrs[i] \in XApps /\ i \in Nat \ {0}
  BY DEF IAppTypes
<1>2. u \in XMessages /\ u.type = "update" /\ u.id = i /\ u.list = nodes
  BY <1>1 DEF XMessages
<1>3. ToXApp(xaddrs[i], u)
      /\ behind' = behind \cup (IF answer.st = "send" /\ answer.x = xaddrs[i]
                                 THEN {xaddrs[i]} ELSE {})
      /\ missed' = {p \in missed : p[1] # xaddrs[i]} \cup ({xaddrs[i]} \X lacking)
  BY Zenon DEF SendUpdate
<1> HIDE DEF u
<1>4. \E m \in XMessages : /\ m.type = "update" /\ m.id = i /\ m.list = nodes
                          /\ ToXApp(xaddrs[i], m)
  BY <1>2, <1>3, Zenon
<1>5. behind \subseteq behind' /\ behind' \subseteq behind \cup {xaddrs[i]}
      /\ (answer.st = "send" /\ answer.x = xaddrs[i] => xaddrs[i] \in behind')
  BY <1>3
<1> QED
  BY <1>1, <1>3, <1>4, <1>5, Zenon

-----------------------------------------------------------------------------
(* Types *)

\* Every step keeps LoopTypes.
LEMMA LoopTypesStep ==
  ASSUME NodeTypes, LoopTypes, [Next]_vars
  PROVE  LoopTypes'
<1> USE DEF LoopTypes, ricVars, taskVars, iappVars, xappVars, nodeVars, histVars
<1>1. ASSUME NEW n \in Nodes, NodeStart(n) PROVE LoopTypes'
  <2> DEFINE m == [type |-> "setup", n |-> n, l |-> starts + 1, k |-> 1]
  <2>1. e2' = Append(e2, m) /\ m \in E2Messages /\ UNCHANGED <<at, ev>> /\ (m.type = "setup" =>
          m.k >= 1)
    BY <1>1, NodeBoundsAssumption DEF NodeStart, NodeAsks, E2Messages, NodeTypes
  <2> HIDE DEF m
  <2> QED
    BY <2>1, Appended
<1>2. ASSUME NEW n \in Nodes, NodeRepeats(n) PROVE LoopTypes'
  <2> DEFINE m == [type |-> "setup", n |-> n, l |-> assoc[n], k |-> tries[n] + 1]
  <2>1. e2' = Append(e2, m) /\ m \in E2Messages /\ UNCHANGED <<at, ev>> /\ (m.type = "setup" =>
          m.k >= 1)
    BY <1>2, NodeBoundsAssumption DEF NodeRepeats, NodeAsks, E2Messages, NodeTypes
  <2> HIDE DEF m
  <2> QED
    BY <2>1, Appended
<1>3. ASSUME NEW n \in Nodes, NodeLeaves(n) PROVE LoopTypes'
  <2> DEFINE m == [type |-> "shutdown", n |-> n, l |-> assoc[n], k |-> 0]
  <2>1. e2' = Append(e2, m) /\ m \in E2Messages /\ UNCHANGED <<at, ev>> /\ (m.type = "setup" =>
          m.k >= 1)
    BY <1>3, NodeBoundsAssumption DEF NodeLeaves, E2Messages, NodeTypes
  <2> HIDE DEF m
  <2> QED
    BY <2>1, Appended
<1>4. CASE LoopSetup
  <2>1. e2 # <<>> /\ e2' = Tail(e2) /\ at = "wait"
    BY <1>4 DEF LoopSetup
  <2>2. e2' \in Seq(E2Messages) /\ Head(e2) \in E2Messages
    BY <2>1, Taken
  <2>3. \A i \in DOMAIN e2' : e2'[i].type = "setup" => e2'[i].k >= 1
    BY <2>1, Taken
  <2> QED
    BY <1>4, <2>1, <2>2, <2>3 DEF LoopSetup
<1>5. CASE LoopShutdown
  <2>1. e2 # <<>> /\ e2' = Tail(e2) /\ at = "wait"
    BY <1>5 DEF LoopShutdown
  <2>2. e2' \in Seq(E2Messages) /\ Head(e2) \in E2Messages
    BY <2>1, Taken
  <2>3. \A i \in DOMAIN e2' : e2'[i].type = "setup" => e2'[i].k >= 1
    BY <2>1, Taken
  <2>4. \/ UNCHANGED <<at, ev>>
        \/ at' = "erase" /\ ev' = [n |-> Head(e2).n, l |-> Head(e2).l]
    BY <1>5 DEF LoopShutdown
  <2>5. [n |-> Head(e2).n, l |-> Head(e2).l] \in [n : Nodes, l : 1..MaxStarts]
    BY <2>2 DEF E2Messages
  <2> QED
    BY <2>2, <2>3, <2>4, <2>5
<1>6. CASE LoopErase
  BY <1>6 DEF LoopErase
<1>7. CASE LoopForget
  BY <1>7 DEF LoopForget
<1>8. CASE \/ IAppSetup \/ IAppRegister \/ IAppAnswer
           \/ \E t \in tasks : TaskAddress(t) \/ TaskAdd(t) \/ TaskPush(t) \/
                TaskCopy(t) \/ TaskTell(t) \/ TaskUnlock(t) \/ TaskSend(t)
           \/ \E x \in XApps : XAppAsks(x) \/ XAppSetup(x) \/ XAppUpdate(x) \/ XAppDies(x)
           \/ UNCHANGED vars
  <2>1. UNCHANGED <<e2, at, ev>>
    BY <1>8 DEF vars, TaskAddress, TaskAdd, TaskPush, TaskCopy, TaskTell, ToXApp,
      TaskUnlock, TaskSend, IAppSetup, IAppRegister, IAppAnswer, XAppAsks, XAppSetup,
      Receives, XAppUpdate, XAppDies
  <2> QED
    BY <2>1
<1>9. CASE LoopRound
  <2>1. UNCHANGED <<e2, ev>> /\ at \in {"count", "copy", "tell"}
        /\ at' \in {"wait", "count", "copy", "tell"}
    BY <1>9, RoundFrame
  <2> QED
    BY <2>1
<1> QED
  BY <1>1, <1>2, <1>3, <1>4, <1>5, <1>6, <1>7, <1>8, <1>9
  DEF Next, Loop, Task, IApp, XApp, LoopRound, LoopQuiet

\* Every step keeps RoundTypes.
LEMMA RoundTypesStep ==
  ASSUME IAppTypes, TableTypes, RoundTypes, [Next]_vars
  PROVE  RoundTypes'
<1> USE DEF RoundTypes, loopVars, ricVars, taskVars, iappVars, xappVars, nodeVars, histVars
<1>1. CASE LoopCount
  BY <1>1 DEF LoopCount, IAppTypes
<1>2. CASE LoopCopy
  BY <1>2 DEF LoopCopy, TableTypes
<1>3. CASE LoopTell
  <2>1. ltold < lcount /\ (ltold' = ltold + 1 \/ ltold' = ltold) /\ UNCHANGED <<lcount, llist>>
    BY <1>3 DEF LoopTell
  <2> QED
    BY <2>1
<1>4. CASE LoopTold
  BY <1>4 DEF LoopTold
<1>5. CASE \/ LoopSetup \/ LoopShutdown \/ LoopErase \/ LoopForget \/ IApp
           \/ \E n \in Nodes : NodeStart(n) \/ NodeRepeats(n) \/ NodeLeaves(n)
           \/ \E t \in tasks : Task(t)
           \/ \E x \in XApps : XAppAsks(x) \/ XApp(x) \/ XAppDies(x)
           \/ UNCHANGED vars
  <2>1. UNCHANGED <<lcount, ltold, llist>>
    BY <1>5 DEF vars, NodeStart, NodeRepeats, NodeLeaves, LoopSetup, LoopShutdown, LoopErase,
      LoopForget, Task, TaskAddress, TaskAdd, TaskPush, TaskCopy, TaskTell, TaskUnlock,
      TaskSend, IApp, IAppSetup, IAppRegister, IAppAnswer, XAppAsks, XApp, XAppSetup,
      XAppUpdate, XAppDies
  <2> QED
    BY <2>1
<1> QED
  BY <1>1, <1>2, <1>3, <1>4, <1>5 DEF Next, Loop

\* Every step keeps TableTypes.
LEMMA TableTypesStep ==
  ASSUME TaskTypes, TableTypes, [Next]_vars
  PROVE  TableTypes'
<1> USE DEF TableTypes, ricVars, taskVars, iappVars, xappVars, nodeVars, histVars
<1>1. CASE LoopShutdown
  BY <1>1 DEF LoopShutdown
<1>2. CASE LoopErase
  BY <1>2 DEF LoopErase
<1>3. CASE LoopForget
  BY <1>3 DEF LoopForget
<1>4. ASSUME NEW t \in tasks, TaskAddress(t) PROVE TableTypes'
  BY <1>4 DEF TaskAddress, At, Id, TaskTypes, Tasks, Requests
<1>5. ASSUME NEW t \in tasks, TaskAdd(t) PROVE TableTypes'
  BY <1>5 DEF TaskAdd, At, TaskTypes, Tasks
<1>6. ASSUME NEW t \in tasks, TaskPush(t) PROVE TableTypes'
  BY <1>6 DEF TaskPush, At, TaskTypes, Tasks
<1>7. CASE \/ LoopSetup \/ LoopRound \/ IAppSetup \/ IAppRegister \/ IAppAnswer
           \/ \E n \in Nodes : NodeStart(n) \/ NodeRepeats(n) \/ NodeLeaves(n)
           \/ \E t \in tasks : TaskCopy(t) \/ TaskTell(t) \/ TaskUnlock(t) \/ TaskSend(t)
           \/ \E x \in XApps : XAppAsks(x) \/ XAppSetup(x) \/ XAppUpdate(x) \/ XAppDies(x)
           \/ UNCHANGED vars
  <2>1. UNCHANGED <<addrs, conn, reg>>
    BY <1>7, RoundFrame
      DEF vars, NodeStart, NodeRepeats, NodeLeaves, LoopSetup, TaskCopy, TaskTell,
      ToXApp, TaskUnlock, TaskSend, IAppSetup, IAppRegister, IAppAnswer, XAppAsks,
      XAppSetup, Receives, XAppUpdate, XAppDies
  <2> QED
    BY <2>1
<1> QED
  BY <1>1, <1>2, <1>3, <1>4, <1>5, <1>6, <1>7
  DEF Next, Loop, Task, IApp, XApp, LoopRound, LoopQuiet

\* Every step keeps TaskTypes.
LEMMA TaskTypesStep ==
  ASSUME LoopTypes, TableTypes, IAppTypes, TaskTypes, [Next]_vars
  PROVE  TaskTypes'
<1> USE DEF TaskTypes, ricVars, taskVars, iappVars, xappVars, nodeVars, histVars
<1>1. CASE LoopSetup
  <2> DEFINE r == [n |-> Head(e2).n, l |-> Head(e2).l, k |-> Head(e2).k, st |-> "address"]
  <2>1. e2 # <<>> /\ Head(e2).type = "setup" /\ tasks' = tasks \cup {r}
        /\ UNCHANGED <<holder, list, count, told>>
    BY <1>1 DEF LoopSetup
  <2>2. Head(e2) \in E2Messages /\ Head(e2).k >= 1
    BY <2>1, Taken DEF LoopTypes
  <2>3. r \in Tasks
    BY <2>2, NodeBoundsAssumption DEF E2Messages, Tasks, Steps
  <2> QED
    BY <2>1, <2>3
<1>2. ASSUME NEW t \in tasks, TaskAddress(t) PROVE TaskTypes'
  <2>1. Goes(t, "add") /\ UNCHANGED <<holder, list, count, told>>
    BY <1>2 DEF TaskAddress, At
  <2>2. tasks' \subseteq Tasks
    BY <2>1, Moved DEF Steps
  <2> QED
    BY <2>1, <2>2
<1>3. ASSUME NEW t \in tasks, TaskAdd(t) PROVE TaskTypes'
  <2>1. CASE t.n \in reg
    BY <1>3, <2>1 DEF TaskAdd, At
  <2>2. CASE t.n \notin reg
    <3>1. Goes(t, "lock") /\ UNCHANGED <<holder, list, count, told>>
      BY <1>3, <2>2 DEF TaskAdd, At
    <3>2. tasks' \subseteq Tasks
      BY <3>1, Moved DEF Steps
    <3> QED
      BY <3>1, <3>2
  <2> QED
    BY <2>1, <2>2
<1>4. ASSUME NEW t \in tasks, TaskPush(t) PROVE TaskTypes'
  <2>1. Goes(t, "copy") /\ holder' = Id(t) /\ count' = Len(xaddrs) /\ told' = 0 /\
          UNCHANGED list
    BY <1>4 DEF TaskPush, At
  <2>2. tasks' \subseteq Tasks
    BY <2>1, Moved DEF Steps
  <2>3. Id(t) \in Requests
    BY DEF Id, Requests, Tasks
  <2>4. Len(xaddrs) \in Nat
    BY DEF IAppTypes
  <2> QED
    BY <2>1, <2>2, <2>3, <2>4
<1>5. ASSUME NEW t \in tasks, TaskCopy(t) PROVE TaskTypes'
  <2>1. Goes(t, "tell") /\ list' \subseteq Nodes /\ UNCHANGED <<holder, count, told>>
    BY <1>5 DEF TaskCopy, At, TableTypes
  <2>2. tasks' \subseteq Tasks
    BY <2>1, Moved DEF Steps
  <2> QED
    BY <2>1, <2>2
<1>6. ASSUME NEW t \in tasks, TaskTell(t) PROVE TaskTypes'
  <2>1. UNCHANGED <<tasks, holder, list, count>> /\ told < count
    BY <1>6 DEF TaskTell, At, ToXApp
  <2>2. told' = told \/ told' = told + 1
    <3>1. CASE told < Len(xaddrs)
      BY <1>6, <3>1 DEF TaskTell, At, ToXApp
    <3>2. CASE ~(told < Len(xaddrs))
      BY <1>6, <3>2 DEF TaskTell, At, ToXApp
    <3> QED
      BY <3>1, <3>2
  <2> QED
    BY <2>1, <2>2
<1>7. ASSUME NEW t \in tasks, TaskUnlock(t) PROVE TaskTypes'
  <2>1. Goes(t, "send") /\ holder' = NoTask /\ list' = {} /\ count' = 0 /\ told' = 0
    BY <1>7 DEF TaskUnlock, At
  <2>2. tasks' \subseteq Tasks
    BY <2>1, Moved DEF Steps
  <2> QED
    BY <2>1, <2>2
<1>8. ASSUME NEW t \in tasks, TaskSend(t) PROVE TaskTypes'
  <2>1. tasks' = tasks \ {t} /\ UNCHANGED <<holder, list, count, told>>
    BY <1>8 DEF TaskSend, At
  <2> QED
    BY <2>1
<1>9. CASE \/ LoopShutdown \/ LoopErase \/ LoopForget \/ LoopRound \/ IAppSetup \/ IAppRegister \/
              IAppAnswer
           \/ \E n \in Nodes : NodeStart(n) \/ NodeRepeats(n) \/ NodeLeaves(n)
           \/ \E x \in XApps : XAppAsks(x) \/ XAppSetup(x) \/ XAppUpdate(x) \/ XAppDies(x)
           \/ UNCHANGED vars
  <2>1. UNCHANGED <<tasks, holder, list, count, told>>
    BY <1>9, RoundFrame DEF vars, NodeStart, NodeRepeats, NodeLeaves, LoopShutdown, LoopErase,
      LoopForget, IAppSetup, IAppRegister, IAppAnswer, ToXApp, XAppAsks, XAppSetup,
      Receives, XAppUpdate, XAppDies
  <2> QED
    BY <2>1
<1> QED
  BY <1>1, <1>2, <1>3, <1>4, <1>5, <1>6, <1>7, <1>8, <1>9
  DEF Next, Loop, Task, IApp, XApp, LoopRound, LoopQuiet

\* Every step keeps IAppTypes.
LEMMA IAppTypesStep ==
  ASSUME TableTypes, IAppTypes, [Next]_vars
  PROVE  IAppTypes'
<1> USE DEF IAppTypes, ricVars, taskVars, iappVars, xappVars, nodeVars, histVars
<1>1. CASE IAppSetup
  <2>1. /\ e42 # <<>> /\ e42' = Tail(e42) /\ nextId' = nextId + 1 /\ UNCHANGED xaddrs
        /\ answer' = [x |-> Head(e42), id |-> nextId, list |-> reg, st |-> "register"]
    BY <1>1 DEF IAppSetup
  <2>2. e42' \in Seq(XApps) /\ Head(e42) \in XApps
    BY <2>1, Taken
  <2>3. answer' \in Answers
    BY <2>1, <2>2 DEF Answers, TableTypes
  <2> QED
    BY <2>1, <2>2, <2>3
<1>2. CASE IAppRegister
  <2>1. CASE answer.id \in DOMAIN xaddrs
    BY <1>2, <2>1 DEF IAppRegister
  <2>2. CASE answer.id \notin DOMAIN xaddrs
    <3>1. /\ xaddrs' = Append(xaddrs, answer.x) /\ UNCHANGED <<e42, nextId>> /\
               answer.st = "register"
          /\ answer' = [x |-> answer.x, id |-> answer.id, list |-> answer.list, st |-> "send"]
      BY <1>2, <2>2 DEF IAppRegister
    <3>2. answer \in Answers
      BY <3>1 DEF NoAnswer
    <3>3. answer' \in Answers /\ answer.x \in XApps
      BY <3>1, <3>2 DEF Answers
    <3> QED
      BY <3>1, <3>3, Appended
  <2> QED
    BY <2>1, <2>2
<1>3. CASE IAppAnswer
  BY <1>3 DEF IAppAnswer, ToXApp
<1>4. ASSUME NEW x \in XApps, XAppAsks(x) PROVE IAppTypes'
  <2>1. e42' = Append(e42, x) /\ UNCHANGED <<nextId, answer, xaddrs>>
    BY <1>4 DEF XAppAsks
  <2> QED
    BY <2>1, Appended
<1>5. CASE \/ LoopSetup \/ LoopShutdown \/ LoopErase \/ LoopForget \/ LoopRound
           \/ \E n \in Nodes : NodeStart(n) \/ NodeRepeats(n) \/ NodeLeaves(n)
           \/ \E t \in tasks : TaskAddress(t) \/ TaskAdd(t) \/ TaskPush(t) \/
                TaskCopy(t) \/ TaskTell(t) \/ TaskUnlock(t) \/ TaskSend(t)
           \/ \E x \in XApps : XAppSetup(x) \/ XAppUpdate(x) \/ XAppDies(x)
           \/ UNCHANGED vars
  <2>1. UNCHANGED <<e42, nextId, answer, xaddrs>>
    BY <1>5, RoundFrame DEF vars, NodeStart, NodeRepeats, NodeLeaves, LoopSetup, LoopShutdown,
      LoopErase, LoopForget, TaskAddress, TaskAdd, TaskPush, TaskCopy, TaskTell, ToXApp,
      TaskUnlock, TaskSend, XAppSetup, Receives, XAppUpdate, XAppDies
  <2> QED
    BY <2>1
<1> QED
  BY <1>1, <1>2, <1>3, <1>4, <1>5
  DEF Next, Loop, Task, IApp, XApp, LoopRound, LoopQuiet

\* Every step keeps InboxTypes.
LEMMA InboxTypesStep ==
  ASSUME RoundTypes, TaskTypes, IAppTypes, InboxTypes, HistoryTypes, [Next]_vars
  PROVE  InboxTypes'
<1> USE DEF InboxTypes, ricVars, taskVars, iappVars, xappVars, nodeVars, histVars
<1>1. ASSUME UpdateSent PROVE InboxTypes'
  <2>1. PICK i \in DOMAIN xaddrs, nodes \in SUBSET Nodes, lacking \in SUBSET Nodes :
          SendUpdate(i, nodes, lacking)
    BY <1>1 DEF UpdateSent
  <2>2. xaddrs[i] \in XApps /\ \E m \in XMessages : ToXApp(xaddrs[i], m)
    BY <2>1, Updated, Zenon
  <2>3. PICK m \in XMessages : ToXApp(xaddrs[i], m)
    BY <2>2
  <2>4. Append(inbox[xaddrs[i]], m) \in Seq(XMessages)
    BY <2>2, Appended
  <2> QED
    BY <2>2, <2>3, <2>4 DEF ToXApp
<1>7. ASSUME LoopTell PROVE InboxTypes'
  BY <1>1, <1>7, LoopSends
<1>8. ASSUME NEW t \in tasks, TaskTell(t) PROVE InboxTypes'
  BY <1>1, <1>8, TaskSends
<1>2. CASE IAppAnswer
  <2> DEFINE m == [type |-> "setup", id |-> answer.id, list |-> answer.list]
  <2>1. answer.st = "send" /\ (inbox' = inbox \/
          inbox' = [inbox EXCEPT ![answer.x] = Append(@, m)])
    BY <1>2 DEF IAppAnswer, ToXApp
  <2>2. answer \in Answers
    BY <2>1 DEF IAppTypes, NoAnswer
  <2>3. m \in XMessages /\ answer.x \in XApps
    BY <2>2 DEF Answers, XMessages
  <2> HIDE DEF m
  <2>4. Append(inbox[answer.x], m) \in Seq(XMessages)
    BY <2>3, Appended
  <2> QED
    BY <2>1, <2>3, <2>4
<1>3. ASSUME NEW x \in XApps, XAppSetup(x) PROVE InboxTypes'
  <2>1. inbox[x] # <<>> /\ inbox' = [inbox EXCEPT ![x] = Tail(@)]
    BY <1>3 DEF XAppSetup, Receives
  <2> QED
    BY <2>1, Taken
<1>4. ASSUME NEW x \in XApps, XAppUpdate(x) PROVE InboxTypes'
  <2>1. inbox[x] # <<>> /\ inbox' = [inbox EXCEPT ![x] = Tail(@)]
    BY <1>4 DEF XAppUpdate, Receives
  <2> QED
    BY <2>1, Taken
<1>5. ASSUME NEW x \in XApps, XAppDies(x) PROVE InboxTypes'
  <2>1. inbox' = [inbox EXCEPT ![x] = <<>>] /\ <<>> \in Seq(XMessages)
    BY <1>5 DEF XAppDies
  <2> QED
    BY <2>1
<1>6. CASE \/ LoopSetup \/ LoopShutdown \/ LoopErase \/ LoopForget \/ LoopQuiet \/ IAppSetup \/
              IAppRegister
           \/ \E n \in Nodes : NodeStart(n) \/ NodeRepeats(n) \/ NodeLeaves(n)
           \/ \E t \in tasks : TaskAddress(t) \/ TaskAdd(t) \/ TaskPush(t) \/
                TaskCopy(t) \/ TaskUnlock(t) \/ TaskSend(t)
           \/ \E x \in XApps : XAppAsks(x)
           \/ UNCHANGED vars
  <2>1. UNCHANGED <<inbox>>
    BY <1>6, RoundFrame, QuietFrame
      DEF vars, NodeStart, NodeRepeats, NodeLeaves, LoopSetup, LoopShutdown,
      LoopErase, LoopForget, TaskAddress, TaskAdd, TaskPush, TaskCopy, TaskUnlock, TaskSend,
      IAppSetup, IAppRegister, XAppAsks
  <2> QED
    BY <2>1
<1> QED
  BY <1>7, <1>8, <1>2, <1>3, <1>4, <1>5, <1>6
  DEF Next, Loop, Task, IApp, XApp, LoopRound, LoopQuiet

\* Every step keeps XAppTypes.
LEMMA XAppTypesStep ==
  ASSUME NodeTypes, InboxTypes, XAppTypes, [Next]_vars
  PROVE  XAppTypes'
<1> USE DEF XAppTypes, ricVars, taskVars, iappVars, xappVars, nodeVars, histVars
<1>1. ASSUME NEW n \in Nodes, NodeRepeats(n) PROVE XAppTypes'
  <2>1. UNCHANGED <<xst, asked, xid, xnodes>> /\ (faults' = faults \/ faults' = faults + 1)
    BY <1>1 DEF NodeRepeats, NodeAsks
  <2> QED
    BY <2>1 DEF NodeTypes
<1>2. ASSUME NEW n \in Nodes, NodeLeaves(n) PROVE XAppTypes'
  <2>1. UNCHANGED <<xst, asked, xid, xnodes>> /\ (faults' = faults \/ faults' = faults + 1)
    BY <1>2 DEF NodeLeaves
  <2> QED
    BY <2>1 DEF NodeTypes
<1>3. ASSUME NEW x \in XApps, XAppAsks(x) PROVE XAppTypes'
  <2>1. /\ xst[x] \in {"new", "asking"} /\ xst' = [xst EXCEPT ![x] = "asking"]
        /\ asked' = [asked EXCEPT ![x] = @ + 1] /\ UNCHANGED <<xid, xnodes>>
        /\ faults' = IF xst[x] = "asking" THEN faults + 1 ELSE faults
    BY <1>3 DEF XAppAsks
  <2>2. faults \in Nat /\ asked[x] \in Nat
    BY DEF NodeTypes
  <2> QED
    BY <2>1, <2>2
<1>4. ASSUME NEW x \in XApps, XAppSetup(x) PROVE XAppTypes'
  <2>1. /\ inbox[x] # <<>> /\ UNCHANGED <<asked, faults>> /\ xst[x] \in {"asking", "connected"}
        /\ xst' = xst \/ xst' = [xst EXCEPT ![x] = "aborted"] \/
             xst' = [xst EXCEPT ![x] = "connected"]
        /\ xid' = xid \/ xid' = [xid EXCEPT ![x] = Head(inbox[x]).id]
        /\ xnodes' = xnodes \/ xnodes' = [xnodes EXCEPT ![x] = @ \cup Head(inbox[x]).list]
    BY <1>4 DEF XAppSetup, Receives
  <2>2. Head(inbox[x]) \in XMessages
    BY <2>1, Taken DEF InboxTypes
  <2>3. Head(inbox[x]).id \in Nat /\ Head(inbox[x]).list \subseteq Nodes
    BY <2>2 DEF XMessages
  <2>4. xst' \in [XApps -> {"new", "asking", "connected", "aborted", "gone"}]
    <3>1. xst' = xst \/ \E v \in {"aborted", "connected"} : xst' = [xst EXCEPT ![x] = v]
      BY <2>1, Zenon
    <3>2. ASSUME NEW v \in {"aborted", "connected"}, xst' = [xst EXCEPT ![x] = v]
          PROVE  xst' \in [XApps -> {"new", "asking", "connected", "aborted", "gone"}]
      BY <3>2, SMT
    <3> QED
      BY <3>1, <3>2, Zenon
  <2>5. xid' \in [XApps -> Nat] /\ xnodes' \in [XApps -> SUBSET Nodes]
    BY <2>1, <2>3, SMT
  <2> QED
    BY <2>1, <2>4, <2>5
<1>5. ASSUME NEW x \in XApps, XAppUpdate(x) PROVE XAppTypes'
  <2>1. /\ inbox[x] # <<>> /\ UNCHANGED <<asked, faults>> /\ xst[x] \in {"asking", "connected"}
        /\ xst' = xst \/ xst' = [xst EXCEPT ![x] = "aborted"] \/
             xst' = [xst EXCEPT ![x] = "connected"]
        /\ xid' = xid \/ xid' = [xid EXCEPT ![x] = Head(inbox[x]).id]
        /\ xnodes' = [xnodes EXCEPT ![x] = Head(inbox[x]).list]
    BY <1>5 DEF XAppUpdate, Receives
  <2>2. Head(inbox[x]) \in XMessages
    BY <2>1, Taken DEF InboxTypes
  <2>3. Head(inbox[x]).id \in Nat /\ Head(inbox[x]).list \subseteq Nodes
    BY <2>2 DEF XMessages
  <2> QED
    BY <2>1, <2>3
<1>6. ASSUME NEW x \in XApps, XAppDies(x) PROVE XAppTypes'
  <2>1. /\ xst[x] \in {"asking", "connected"} /\ xst' = [xst EXCEPT ![x] = "gone"]
        /\ faults' = faults + 1 /\ UNCHANGED <<asked, xid, xnodes>>
    BY <1>6 DEF XAppDies
  <2>2. faults \in Nat
    BY DEF NodeTypes
  <2> QED
    BY <2>1, <2>2
<1>7. CASE \/ LoopSetup \/ LoopShutdown \/ LoopErase \/ LoopForget \/ LoopRound \/ IAppSetup \/
              IAppRegister \/ IAppAnswer
           \/ \E n \in Nodes : NodeStart(n)
           \/ \E t \in tasks : TaskAddress(t) \/ TaskAdd(t) \/ TaskPush(t) \/
                TaskCopy(t) \/ TaskTell(t) \/ TaskUnlock(t) \/ TaskSend(t)
           \/ UNCHANGED vars
  <2>1. UNCHANGED <<xst, asked, xid, xnodes, faults>>
    BY <1>7, RoundFrame DEF vars, NodeStart, LoopSetup, LoopShutdown, LoopErase, LoopForget,
      TaskAddress, TaskAdd, TaskPush, TaskCopy, TaskTell, ToXApp, TaskUnlock, TaskSend,
      IAppSetup, IAppRegister, IAppAnswer
  <2> QED
    BY <2>1
<1> QED
  BY <1>1, <1>2, <1>3, <1>4, <1>5, <1>6, <1>7
  DEF Next, Loop, Task, IApp, XApp, LoopRound, LoopQuiet

\* Every step keeps NodeTypes.
LEMMA NodeTypesStep ==
  ASSUME TaskTypes, NodeTypes, [Next]_vars
  PROVE  NodeTypes'
<1> USE DEF NodeTypes, ricVars, taskVars, iappVars, xappVars, nodeVars, histVars
<1>1. ASSUME NEW n \in Nodes, NodeStart(n) PROVE NodeTypes'
  <2>1. /\ starts < MaxStarts /\ starts' = starts + 1 /\ nst' = [nst EXCEPT ![n] = "asked"]
        /\ assoc' = [assoc EXCEPT ![n] = starts + 1] /\ tries' = [tries EXCEPT ![n] = 1]
        /\ UNCHANGED <<faults, kept>>
    BY <1>1 DEF NodeStart, NodeAsks
  <2>2. starts + 1 \in 1..MaxStarts /\ faults \in Nat
    BY <2>1, NodeBoundsAssumption
  <2> QED
    BY <2>1, <2>2
<1>2. ASSUME NEW n \in Nodes, NodeRepeats(n) PROVE NodeTypes'
  <2>1. /\ faults < MaxFaults /\ faults' = faults + 1 /\ tries' = [tries EXCEPT ![n] = @ + 1]
        /\ kept' = FALSE /\ UNCHANGED <<nst, assoc, starts>>
    BY <1>2 DEF NodeRepeats, NodeAsks
  <2>2. faults + 1 \in 0..MaxFaults /\ faults \in Nat
    BY <2>1, NodeBoundsAssumption
  <2>3. tries' \in [Nodes -> Nat]
    BY <2>1
  <2>4. \A o \in Nodes : tries'[o] <= faults' + 1
    BY <2>1, <2>2
  <2> QED
    BY <2>1, <2>2, <2>3, <2>4
<1>3. ASSUME NEW n \in Nodes, NodeLeaves(n) PROVE NodeTypes'
  <2>1. nst' = [nst EXCEPT ![n] = "off"] /\ UNCHANGED <<assoc, starts, tries>>
    BY <1>3 DEF NodeLeaves
  <2>2. faults' = faults \/ (faults < MaxFaults /\ faults' = faults + 1)
    <3>1. CASE nst[n] = "asked"
      BY <1>3, <3>1 DEF NodeLeaves
    <3>2. CASE ~(nst[n] = "asked")
      BY <1>3, <3>2 DEF NodeLeaves
    <3> QED
      BY <3>1, <3>2
  <2>3. faults' \in 0..MaxFaults /\ faults <= faults'
    BY <2>2, NodeBoundsAssumption
  <2>4. kept' \in BOOLEAN
    BY <1>3, Zenon DEF NodeLeaves
  <2> QED
    BY <2>1, <2>3, <2>4
<1>4. ASSUME NEW t \in tasks, TaskSend(t) PROVE NodeTypes'
  <2>1. UNCHANGED <<assoc, starts, faults, tries, kept>>
    BY <1>4 DEF TaskSend, At
  <2>2. nst' = nst \/ (nst[t.n] = "asked" /\ nst' = [nst EXCEPT ![t.n] = "up"])
    <3>1. CASE nst[t.n] = "asked" /\ assoc[t.n] = t.l
      BY <1>4, <3>1 DEF TaskSend, At
    <3>2. CASE ~(nst[t.n] = "asked" /\ assoc[t.n] = t.l)
      BY <1>4, <3>2 DEF TaskSend, At
    <3> QED
      BY <3>1, <3>2
  <2> QED
    BY <2>1, <2>2
<1>5. ASSUME NEW x \in XApps, XAppAsks(x) PROVE NodeTypes'
  <2>1. UNCHANGED <<nst, assoc, starts, tries, kept>>
    BY <1>5 DEF XAppAsks
  <2>2. faults' = faults \/ (faults < MaxFaults /\ faults' = faults + 1)
    <3>1. CASE xst[x] = "asking"
      BY <1>5, <3>1 DEF XAppAsks
    <3>2. CASE ~(xst[x] = "asking")
      BY <1>5, <3>2 DEF XAppAsks
    <3> QED
      BY <3>1, <3>2
  <2>3. faults' \in 0..MaxFaults /\ faults <= faults'
    BY <2>2, NodeBoundsAssumption
  <2> QED
    BY <2>1, <2>3
<1>6. ASSUME NEW x \in XApps, XAppDies(x) PROVE NodeTypes'
  <2>1. UNCHANGED <<nst, assoc, starts, tries, kept>>
    BY <1>6 DEF XAppDies
  <2>2. faults' = faults \/ (faults < MaxFaults /\ faults' = faults + 1)
    <3>1. CASE xst[x] = "asking"
      BY <1>6, <3>1 DEF XAppDies
    <3>2. CASE ~(xst[x] = "asking")
      BY <1>6, <3>2 DEF XAppDies
    <3> QED
      BY <3>1, <3>2
  <2>3. faults' \in 0..MaxFaults /\ faults <= faults'
    BY <2>2, NodeBoundsAssumption
  <2> QED
    BY <2>1, <2>3
<1>7. CASE \/ LoopSetup \/ LoopShutdown \/ LoopErase \/ LoopForget \/ LoopRound \/ IAppSetup \/
              IAppRegister \/ IAppAnswer
           \/ \E t \in tasks : TaskAddress(t) \/ TaskAdd(t) \/ TaskPush(t) \/
                TaskCopy(t) \/ TaskTell(t) \/ TaskUnlock(t)
           \/ \E x \in XApps : XAppSetup(x) \/ XAppUpdate(x)
           \/ UNCHANGED vars
  <2>1. UNCHANGED <<nst, assoc, starts, faults, tries, kept>>
    BY <1>7, RoundFrame
      DEF vars, LoopSetup, LoopShutdown, LoopErase, LoopForget, TaskAddress, TaskAdd,
      TaskPush, TaskCopy, TaskTell, ToXApp, TaskUnlock, IAppSetup, IAppRegister, IAppAnswer,
      XAppSetup, Receives, XAppUpdate
  <2> QED
    BY <2>1
<1> QED
  BY <1>1, <1>2, <1>3, <1>4, <1>5, <1>6, <1>7
  DEF Next, Loop, Task, IApp, XApp, LoopRound, LoopQuiet

\* Every step keeps HistoryTypes.
LEMMA HistoryTypesStep ==
  ASSUME RoundTypes, TaskTypes, IAppTypes, HistoryTypes, [Next]_vars
  PROVE  HistoryTypes'
<1> USE DEF HistoryTypes, ricVars, taskVars, iappVars, xappVars, nodeVars, histVars
<1>1. ASSUME NEW t \in tasks, TaskPush(t) PROVE HistoryTypes'
  <2>1. UNCHANGED <<behind, late>> /\ (missed' = missed \/ (answer.st = "register" /\
          missed' = missed \cup {<<answer.x, t.n>>}))
    <3>1. CASE answer.st = "register"
      BY <1>1, <3>1 DEF TaskPush, At
    <3>2. CASE ~(answer.st = "register")
      BY <1>1, <3>2 DEF TaskPush, At
    <3> QED
      BY <3>1, <3>2
  <2>2. answer.st = "register" => answer.x \in XApps
    BY DEF IAppTypes, Answers, NoAnswer
  <2>3. t.n \in Nodes
    BY DEF TaskTypes, Tasks
  <2> QED
    BY <2>1, <2>2, <2>3
<1>2. ASSUME UpdateSent, UNCHANGED late PROVE HistoryTypes'
  <2>1. PICK i \in DOMAIN xaddrs, nodes \in SUBSET Nodes, lacking \in SUBSET Nodes :
          SendUpdate(i, nodes, lacking)
    BY <1>2 DEF UpdateSent
  <2>2. /\ xaddrs[i] \in XApps /\ behind' \subseteq behind \cup {xaddrs[i]}
        /\ missed' = {p \in missed : p[1] # xaddrs[i]} \cup ({xaddrs[i]} \X lacking)
    BY <2>1, Updated, Zenon
  <2> QED
    BY <1>2, <2>2
<1>4. ASSUME LoopTell PROVE HistoryTypes'
  <2>1. UNCHANGED late
    BY <1>4 DEF LoopTell
  <2> QED
    BY <1>2, <1>4, <2>1, LoopSends
<1>5. ASSUME NEW t \in tasks, TaskTell(t) PROVE HistoryTypes'
  <2>1. UNCHANGED late
    BY <1>5 DEF TaskTell
  <2> QED
    BY <1>2, <1>5, <2>1, TaskSends
<1>6. ASSUME NEW t \in tasks, TaskAdd(t) PROVE HistoryTypes'
  <2>1. t.n \in Nodes
    BY DEF TaskTypes, Tasks
  <2>2. late' \subseteq late \cup {t.n} /\ UNCHANGED <<missed, behind>>
    BY <1>6 DEF TaskAdd
  <2> QED
    BY <2>1, <2>2
<1>7. CASE LoopQuiet
  <2>1. late' \subseteq late
    BY <1>7 DEF LoopQuiet, LoopCount, LoopCopy, LoopTold
  <2> QED
    BY <1>7, <2>1, QuietFrame
<1>3. CASE \/ LoopSetup \/ LoopShutdown \/ LoopErase \/ LoopForget \/ IAppSetup \/
              IAppRegister \/ IAppAnswer
           \/ \E n \in Nodes : NodeStart(n) \/ NodeRepeats(n) \/ NodeLeaves(n)
           \/ \E t \in tasks : TaskAddress(t) \/ TaskCopy(t) \/
                TaskUnlock(t) \/ TaskSend(t)
           \/ \E x \in XApps : XAppAsks(x) \/ XAppSetup(x) \/ XAppUpdate(x) \/ XAppDies(x)
           \/ UNCHANGED vars
  <2>1. UNCHANGED <<late, missed, behind>>
    BY <1>3 DEF vars, NodeStart, NodeRepeats, NodeLeaves, LoopSetup, LoopShutdown,
      LoopErase, LoopForget, TaskAddress, TaskCopy, TaskUnlock, TaskSend,
      IAppSetup, IAppRegister, IAppAnswer, ToXApp, XAppAsks, XAppSetup, Receives,
      XAppUpdate, XAppDies
  <2> QED
    BY <2>1
<1> QED
  BY <1>1, <1>3, <1>4, <1>5, <1>6, <1>7
  DEF Next, Loop, Task, IApp, XApp, LoopRound, LoopQuiet

-----------------------------------------------------------------------------
(* Filling *)

\* Every step keeps Filling.
LEMMA FillingStep ==
  ASSUME TaskTypes, LoopTypes, Filling, [Next]_vars
  PROVE  Filling'
<1> USE DEF Filling, ricVars, taskVars, iappVars, xappVars, nodeVars, histVars
<1>1. CASE LoopSetup
  <2> DEFINE r == [n |-> Head(e2).n, l |-> Head(e2).l, k |-> Head(e2).k, st |-> "address"]
  <2>1. tasks' = tasks \cup {r} /\ UNCHANGED <<conn, reg, at, ev>>
    BY <1>1 DEF LoopSetup
  <2>2. r.st # "lock"
    OBVIOUS
  <2> HIDE DEF r
  <2> QED
    BY <2>1, <2>2
<1>2. CASE LoopShutdown
  <2>1. at = "wait" /\ at' # "forget" /\ UNCHANGED <<conn, reg, tasks>>
    BY <1>2 DEF LoopShutdown
  <2> QED
    BY <2>1
<1>3. CASE LoopErase
  BY <1>3 DEF LoopErase
<1>4. CASE LoopForget
  BY <1>4 DEF LoopForget
<1>5. ASSUME NEW t \in tasks, TaskAddress(t) PROVE Filling'
  <2>1. Goes(t, "add") /\ UNCHANGED <<conn, reg, at, ev>>
    BY <1>5 DEF TaskAddress, At
  <2>2. \A u \in tasks' :
          (u \in tasks /\ u # t) \/ (u.n = t.n /\ u.l = t.l /\ u.st = "add")
    BY <2>1, Moved DEF Steps
  <2> QED
    BY <1>5, <2>1, <2>2
<1>6. ASSUME NEW t \in tasks, TaskAdd(t) PROVE Filling'
  <2>1. CASE t.n \in reg
    BY <1>6, <2>1 DEF TaskAdd, At
  <2>2. CASE t.n \notin reg
    <3>1. Goes(t, "lock") /\ reg' = reg \cup {t.n} /\ UNCHANGED <<conn, at, ev>>
      BY <1>6, <2>2 DEF TaskAdd, At
    <3>2. /\ \A u \in tasks' :
             (u \in tasks /\ u # t) \/ (u.n = t.n /\ u.l = t.l /\ u.st = "lock")
          /\ \A u, v \in tasks' : u.n = t.n /\ u.st = "lock" /\ v.n = t.n /\ v.st = "lock" =>
               \/ u = v
               \/ \E w \in tasks : w # t /\ w.n = t.n /\ w.st = "lock"
      BY <3>1, Moved DEF Steps
    <3> QED
      BY <2>2, <3>1, <3>2
  <2> QED
    BY <2>1, <2>2
<1>7. ASSUME NEW t \in tasks, TaskPush(t) PROVE Filling'
  <2>1. Goes(t, "copy") /\ t.st = "lock" /\ conn' = conn \cup {t.n} /\ UNCHANGED <<reg, at, ev>>
    BY <1>7 DEF TaskPush, At
  <2>2. \A u \in tasks' :
          (u \in tasks /\ u # t) \/ (u.n = t.n /\ u.l = t.l /\ u.st = "copy")
    BY <2>1, Moved DEF Steps
  <2> QED
    BY <2>1, <2>2
<1>8. ASSUME NEW t \in tasks, TaskCopy(t) PROVE Filling'
  <2>1. Goes(t, "tell") /\ UNCHANGED <<conn, reg, at, ev>>
    BY <1>8 DEF TaskCopy, At
  <2>2. \A u \in tasks' :
          (u \in tasks /\ u # t) \/ (u.n = t.n /\ u.l = t.l /\ u.st = "tell")
    BY <2>1, Moved DEF Steps
  <2> QED
    BY <1>8, <2>1, <2>2
<1>9. ASSUME NEW t \in tasks, TaskUnlock(t) PROVE Filling'
  <2>1. Goes(t, "send") /\ UNCHANGED <<conn, reg, at, ev>>
    BY <1>9 DEF TaskUnlock, At
  <2>2. \A u \in tasks' :
          (u \in tasks /\ u # t) \/ (u.n = t.n /\ u.l = t.l /\ u.st = "send")
    BY <2>1, Moved DEF Steps
  <2> QED
    BY <1>9, <2>1, <2>2
<1>10. ASSUME NEW t \in tasks, TaskSend(t) PROVE Filling'
  <2>1. tasks' \subseteq tasks /\ UNCHANGED <<conn, reg, at, ev>>
    BY <1>10 DEF TaskSend, At
  <2> QED
    BY <2>1
<1>11. CASE \/ IAppSetup \/ IAppRegister \/ IAppAnswer
            \/ \E n \in Nodes : NodeStart(n) \/ NodeRepeats(n) \/ NodeLeaves(n)
            \/ \E t \in tasks : TaskTell(t)
            \/ \E x \in XApps : XAppAsks(x) \/ XAppSetup(x) \/ XAppUpdate(x) \/
                 XAppDies(x)
            \/ UNCHANGED vars
  <2>1. UNCHANGED <<conn, reg, at, ev, tasks>>
    BY <1>11 DEF vars, NodeStart, NodeRepeats, NodeLeaves, TaskTell, ToXApp, IAppSetup,
      IAppRegister, IAppAnswer, XAppAsks, XAppSetup, Receives, XAppUpdate, XAppDies
  <2> QED
    BY <2>1
<1>12. CASE LoopRound
  <2>1. UNCHANGED <<conn, reg, tasks>> /\ at' # "forget"
    BY <1>12, RoundFrame
  <2> QED
    BY <2>1
<1> QED
  BY <1>1, <1>2, <1>3, <1>4, <1>5, <1>6, <1>7, <1>8, <1>9, <1>10, <1>11, <1>12
  DEF Next, Loop, Task, IApp, XApp, LoopRound, LoopQuiet

-----------------------------------------------------------------------------
(* InOrder *)

\* Every step keeps InOrder.
LEMMA InOrderStep ==
  ASSUME Types, Filling, InOrder, [Next]_vars
  PROVE  InOrder'
<1> USE DEF Types, InOrder, Setup, Down, Away, Pushed, ricVars, taskVars, iappVars,
            xappVars, nodeVars, histVars
<1>1. ASSUME NEW n \in Nodes, NodeStart(n) PROVE InOrder'
  <2> DEFINE m == [type |-> "setup", n |-> n, l |-> starts + 1, k |-> 1]
  <2>1. e2' = Append(e2, m) /\ m \in E2Messages /\ m.type = "setup" /\ m.n = n
    BY <1>1, NodeBoundsAssumption DEF NodeStart, NodeAsks, E2Messages, NodeTypes
  <2>2. /\ starts' = starts + 1 /\ nst' = [nst EXCEPT ![n] = "asked"] /\ m.l = starts + 1
        /\ nst[n] = "off" /\ assoc' = [assoc EXCEPT ![n] = starts + 1] /\
             UNCHANGED <<addrs, conn, at, ev, tasks>>
    BY <1>1 DEF NodeStart, NodeAsks
  <2>3. m.l <= starts' /\ starts \in Nat /\ starts <= starts'
    BY <2>2 DEF NodeTypes
  <2> HIDE DEF m
  <2>4. /\ Len(e2) \in Nat /\ Len(e2) + 1 \in DOMAIN e2' /\ e2'[Len(e2) + 1] = m
        /\ \A i \in DOMAIN e2 : /\ i \in Nat /\ i <= Len(e2) /\ i \in DOMAIN e2'
                                /\ e2'[i] = e2[i] /\ e2[i] \in E2Messages
        /\ \A i \in DOMAIN e2' : i \in DOMAIN e2 \/ i = Len(e2) + 1
    BY <2>1, Appended DEF LoopTypes
  <2>5. \A i \in DOMAIN e2 : e2[i].l \in Nat
    BY <2>4 DEF E2Messages
  <2>6. \A u \in tasks : u.l <= starts /\ u.n \in Nodes /\ u.l \in Nat
    BY DEF TaskTypes, Tasks
  <2>7. /\ nst' \in [Nodes -> {"off", "asked", "up"}] /\ assoc' \in [Nodes -> Nat]
        /\ nst'[n] = "asked" /\ assoc'[n] = starts + 1
        /\ \A o \in Nodes \ {n} : nst'[o] = nst[o] /\ assoc'[o] = assoc[o]
    BY <2>2, <2>3 DEF NodeTypes
  <2> QED
    BY <2>1, <2>2, <2>3, <2>4, <2>5, <2>6, <2>7
<1>2. ASSUME NEW n \in Nodes, NodeRepeats(n) PROVE InOrder'
  <2> DEFINE m == [type |-> "setup", n |-> n, l |-> assoc[n], k |-> tries[n] + 1]
  <2>1. e2' = Append(e2, m) /\ m \in E2Messages /\ m.type = "setup" /\ m.n = n
    BY <1>2, NodeBoundsAssumption DEF NodeRepeats, NodeAsks, E2Messages, NodeTypes
  <2>2. UNCHANGED <<addrs, conn, at, ev, tasks, nst, assoc, starts>> /\ m.l = assoc[n]
    BY <1>2 DEF NodeRepeats, NodeAsks
  <2>3. m.l <= starts' /\ starts \in Nat /\ starts <= starts'
    BY <2>2 DEF NodeTypes
  <2> HIDE DEF m
  <2>4. /\ Len(e2) \in Nat /\ Len(e2) + 1 \in DOMAIN e2' /\ e2'[Len(e2) + 1] = m
        /\ \A i \in DOMAIN e2 : /\ i \in Nat /\ i <= Len(e2) /\ i \in DOMAIN e2'
                                /\ e2'[i] = e2[i] /\ e2[i] \in E2Messages
        /\ \A i \in DOMAIN e2' : i \in DOMAIN e2 \/ i = Len(e2) + 1
    BY <2>1, Appended DEF LoopTypes
  <2>5. \A i \in DOMAIN e2 : e2[i].l \in Nat
    BY <2>4 DEF E2Messages
  <2> QED
    BY <2>1, <2>2, <2>3, <2>4, <2>5
<1>3. ASSUME NEW n \in Nodes, NodeLeaves(n) PROVE InOrder'
  <2> DEFINE m == [type |-> "shutdown", n |-> n, l |-> assoc[n], k |-> 0]
  <2>1. e2' = Append(e2, m) /\ m \in E2Messages /\ m.type = "shutdown" /\ m.n = n
    BY <1>3, NodeBoundsAssumption DEF NodeLeaves, E2Messages, NodeTypes
  <2>2. /\ nst' = [nst EXCEPT ![n] = "off"] /\ m.l = assoc[n]
        /\ UNCHANGED <<addrs, conn, at, ev, tasks, assoc, starts>>
    BY <1>3 DEF NodeLeaves
  <2>3. m.l <= starts' /\ starts \in Nat /\ starts <= starts'
    BY <2>2 DEF NodeTypes
  <2> HIDE DEF m
  <2>4. /\ Len(e2) \in Nat /\ Len(e2) + 1 \in DOMAIN e2' /\ e2'[Len(e2) + 1] = m
        /\ \A i \in DOMAIN e2 : /\ i \in Nat /\ i <= Len(e2) /\ i \in DOMAIN e2'
                                /\ e2'[i] = e2[i] /\ e2[i] \in E2Messages
        /\ \A i \in DOMAIN e2' : i \in DOMAIN e2 \/ i = Len(e2) + 1
    BY <2>1, Appended DEF LoopTypes
  <2>5. \A i \in DOMAIN e2 : e2[i].l \in Nat
    BY <2>4 DEF E2Messages
  <2>6. \A u \in tasks : u.n \in Nodes
    BY DEF TaskTypes, Tasks
  <2>7. nst'[n] = "off" /\ \A o \in Nodes \ {n} : nst'[o] = nst[o]
    BY <2>2 DEF NodeTypes
  <2> QED
    BY <2>1, <2>2, <2>3, <2>4, <2>5, <2>6, <2>7
<1>4. CASE LoopSetup
  <2>1. e2 # <<>> /\ e2' = Tail(e2) /\ at = "wait"
    BY <1>4 DEF LoopSetup
  <2>2. /\ 1 \in DOMAIN e2 /\ Head(e2) = e2[1] /\ Head(e2) \in E2Messages
        /\ \A i \in DOMAIN e2' : /\ i \in Nat /\ i >= 1 /\ i + 1 \in DOMAIN e2
                                 /\ e2'[i] = e2[i + 1]
        /\ \A i \in DOMAIN e2 : i \in Nat /\ (i = 1 \/ i - 1 \in DOMAIN e2')
    BY <2>1, Taken DEF LoopTypes
  <2> DEFINE r == [n |-> Head(e2).n, l |-> Head(e2).l, k |-> Head(e2).k, st |-> "address"]
  <2>3. /\ tasks' = tasks \cup {r} /\ Head(e2).type = "setup"
        /\ UNCHANGED <<at, ev, addrs, conn, nst, assoc, starts>>
    BY <1>4 DEF LoopSetup
  <2>4. r.n = e2[1].n /\ r.l = e2[1].l /\ r.st = "address" /\ r.n \in Nodes
    BY <2>2 DEF E2Messages
  <2> HIDE DEF r
  <2>5. nst[r.n] # "off" /\ r.l = assoc[r.n] =>
          \A j \in DOMAIN e2' : ~(e2'[j].type = "shutdown" /\ e2'[j].n = r.n)
    <3> SUFFICES ASSUME nst[r.n] # "off", r.l = assoc[r.n], NEW j \in DOMAIN e2',
                        e2'[j].type = "shutdown", e2'[j].n = r.n
                 PROVE  FALSE
      OBVIOUS
    <3>1. Setup(1, r.n) /\ e2[1].l = assoc[r.n] /\ Down(j + 1, r.n) /\ j \in Nat
      BY <2>2, <2>3, <2>4
    <3>2. 1 \in DOMAIN e2 /\ j + 1 \in DOMAIN e2 /\ r.n \in Nodes
      BY <2>2, <2>4
    <3>3. j + 1 < 1
      BY <3>1, <3>2 DEF Types
    <3> QED
      BY <3>1, <3>3
  <2> QED
    BY <2>1, <2>2, <2>3, <2>4, <2>5
<1>5. CASE LoopShutdown
  <2>1. e2 # <<>> /\ e2' = Tail(e2) /\ at = "wait"
    BY <1>5 DEF LoopShutdown
  <2>2. /\ 1 \in DOMAIN e2 /\ Head(e2) = e2[1] /\ Head(e2) \in E2Messages
        /\ \A i \in DOMAIN e2' : /\ i \in Nat /\ i >= 1 /\ i + 1 \in DOMAIN e2
                                 /\ e2'[i] = e2[i + 1]
        /\ \A i \in DOMAIN e2 : i \in Nat /\ (i = 1 \/ i - 1 \in DOMAIN e2')
    BY <2>1, Taken DEF LoopTypes
  <2>3. /\ Head(e2).type = "shutdown" /\ UNCHANGED <<conn, tasks, nst, assoc, starts>>
    BY <1>5 DEF LoopShutdown
  <2>4. \/ UNCHANGED <<addrs, at, ev>>
        \/ /\ ev' = [n |-> e2[1].n, l |-> e2[1].l]
           /\ \E b \in addrs : b.n = e2[1].n /\ addrs' = addrs \ {b}
    BY <1>5, <2>2 DEF LoopShutdown
  <2>5. Down(1, e2[1].n) /\ e2[1].n \in Nodes
    BY <2>2, <2>3 DEF E2Messages
  <2>6. \A u \in tasks : u.n \in Nodes
    BY DEF TaskTypes, Tasks
  <2>7. [n |-> e2[1].n, l |-> e2[1].l].n = e2[1].n
    OBVIOUS
  <2> QED
    BY <2>1, <2>2, <2>3, <2>4, <2>5, <2>6, <2>7
<1>6. CASE LoopErase
  <2>1. /\ at = "erase" /\ conn \ {ev.n} \subseteq conn' /\ at' \in {"erase", "forget"}
        /\ UNCHANGED <<e2, ev, addrs, tasks, nst, assoc, starts>>
    BY <1>6 DEF LoopErase
  <2> QED
    BY <2>1
<1>7. CASE LoopForget
  <2>1. at = "forget" /\ at' \in {"forget", "count"} /\
          UNCHANGED <<e2, ev, addrs, conn, tasks, nst, assoc, starts>>
    BY <1>7 DEF LoopForget
  <2> QED
    BY <2>1
<1>8. ASSUME NEW t \in tasks, TaskAddress(t) PROVE InOrder'
  <2>1. Goes(t, "add") /\ addrs' = addrs \cup {Id(t)} /\
          UNCHANGED <<e2, at, ev, conn, nst, assoc, starts>>
    BY <1>8 DEF TaskAddress, At
  <2>2. \A u \in tasks' :
          (u \in tasks /\ u # t) \/ (u.n = t.n /\ u.l = t.l /\ u.st = "add")
    BY <2>1, Moved DEF Steps
  <2>3. Id(t).n = t.n /\ Id(t).l = t.l
    BY DEF Id
  <2> QED
    BY <2>1, <2>2, <2>3
<1>9. ASSUME NEW t \in tasks, TaskAdd(t) PROVE InOrder'
  <2>0. UNCHANGED <<e2, at, ev, addrs, conn, nst, assoc, starts>> /\ t.st = "add"
    BY <1>9 DEF TaskAdd, At
  <2>1. CASE t.n \in reg
    <3>1. UNCHANGED tasks
      BY <1>9, <2>1 DEF TaskAdd, At
    <3> QED
      BY <2>0, <3>1
  <2>2. CASE t.n \notin reg
    <3>1. Goes(t, "lock")
      BY <1>9, <2>2 DEF TaskAdd, At
    <3>2. \A u \in tasks' :
          (u \in tasks /\ u # t) \/ (u.n = t.n /\ u.l = t.l /\ u.st = "lock")
      BY <3>1, Moved DEF Steps
    <3> QED
      BY <2>0, <3>2
  <2> QED
    BY <2>1, <2>2
<1>10. ASSUME NEW t \in tasks, TaskPush(t) PROVE InOrder'
  <2>1. /\ Goes(t, "copy") /\ t.st = "lock" /\ conn' = conn \cup {t.n}
        /\ UNCHANGED <<e2, at, ev, addrs, nst, assoc, starts>>
    BY <1>10 DEF TaskPush, At
  <2>2. \A u \in tasks' :
          (u \in tasks /\ u # t) \/ (u.n = t.n /\ u.l = t.l /\ u.st = "copy")
    BY <2>1, Moved DEF Steps
  <2> QED
    BY <2>1, <2>2
<1>11. ASSUME NEW t \in tasks, TaskCopy(t) PROVE InOrder'
  <2>1. /\ Goes(t, "tell") /\ t.st = "copy"
        /\ UNCHANGED <<e2, at, ev, addrs, conn, nst, assoc, starts>>
    BY <1>11 DEF TaskCopy, At
  <2>2. \A u \in tasks' :
          (u \in tasks /\ u # t) \/ (u.n = t.n /\ u.l = t.l /\ u.st = "tell")
    BY <2>1, Moved DEF Steps
  <2> QED
    BY <2>1, <2>2
<1>12. ASSUME NEW t \in tasks, TaskUnlock(t) PROVE InOrder'
  <2>1. /\ Goes(t, "send") /\ t.st = "tell"
        /\ UNCHANGED <<e2, at, ev, addrs, conn, nst, assoc, starts>>
    BY <1>12 DEF TaskUnlock, At
  <2>2. \A u \in tasks' :
          (u \in tasks /\ u # t) \/ (u.n = t.n /\ u.l = t.l /\ u.st = "send")
    BY <2>1, Moved DEF Steps
  <2> QED
    BY <2>1, <2>2
<1>13. ASSUME NEW t \in tasks, TaskSend(t) PROVE InOrder'
  <2>1. /\ tasks' = tasks \ {t} /\ t.st = "send"
        /\ UNCHANGED <<e2, at, ev, addrs, conn, assoc, starts>>
    BY <1>13 DEF TaskSend, At
  <2>2. \A o \in Nodes :
          (nst'[o] = nst[o]) \/ (o = t.n /\ nst[o] = "asked" /\ assoc[o] = t.l)
    <3>1. CASE nst[t.n] = "asked" /\ assoc[t.n] = t.l
      BY <1>13, <3>1 DEF TaskSend, At, NodeTypes
    <3>2. CASE ~(nst[t.n] = "asked" /\ assoc[t.n] = t.l)
      BY <1>13, <3>2 DEF TaskSend, At
    <3> QED
      BY <3>1, <3>2
  <2>3. \A u \in tasks : u.n \in Nodes
    BY DEF TaskTypes, Tasks
  <2> QED
    BY <2>1, <2>2, <2>3
<1>14. CASE \/ IAppSetup \/ IAppRegister \/ IAppAnswer
            \/ \E t \in tasks : TaskTell(t)
            \/ \E x \in XApps : XAppAsks(x) \/ XAppSetup(x) \/ XAppUpdate(x) \/
                 XAppDies(x)
            \/ UNCHANGED vars
  <2>1. UNCHANGED <<e2, tasks, starts, assoc, nst, at, ev, addrs, conn>>
    BY <1>14 DEF vars, TaskTell, ToXApp, IAppSetup, IAppRegister, IAppAnswer, XAppAsks,
      XAppSetup, Receives, XAppUpdate, XAppDies
  <2> QED
    BY <2>1
<1>15. CASE LoopRound
  <2>1. /\ UNCHANGED <<e2, tasks, starts, assoc, nst, addrs, conn>>
        /\ at' \notin {"erase", "forget"}
    BY <1>15, RoundFrame
  <2> QED
    BY <2>1
<1> QED
  BY <1>1, <1>2, <1>3, <1>4, <1>5, <1>6, <1>7, <1>8, <1>9, <1>10, <1>11, <1>12, <1>13, <1>14,
     <1>15
  DEF Next, Loop, Task, IApp, XApp, LoopRound, LoopQuiet

-----------------------------------------------------------------------------
(* Messages to the xApps *)

\* A message sent to an xApp is the last one on its way to it, or it is lost.
LEMMA SentOne ==
  ASSUME InboxTypes, NEW x \in XApps, NEW m \in XMessages, ToXApp(x, m)
  PROVE  /\ \A y \in XApps \ {x} : inbox'[y] = inbox[y]
         /\ inbox'[x] = inbox[x] \/ inbox'[x] = Append(inbox[x], m)
         /\ xst[x] \notin {"aborted", "gone"} => inbox'[x] = Append(inbox[x], m)
  BY DEF ToXApp, InboxTypes

\* Messages on their way keep their places; the one sent is behind them.
LEMMA SentAll ==
  ASSUME InboxTypes, NEW x \in XApps, NEW m \in XMessages, ToXApp(x, m)
  PROVE  /\ \A y \in XApps : \A i \in DOMAIN inbox[y] :
              i \in DOMAIN inbox'[y] /\ inbox'[y][i] = inbox[y][i]
         /\ \A y \in XApps : \A i \in DOMAIN inbox'[y] :
              (i \in DOMAIN inbox[y] /\ inbox'[y][i] = inbox[y][i])
                \/ (y = x /\ i = Len(inbox[x]) + 1 /\ inbox'[y][i] = m)
         /\ xst[x] \notin {"aborted", "gone"} =>
              Len(inbox[x]) + 1 \in DOMAIN inbox'[x] /\ inbox'[x][Len(inbox[x]) + 1] = m
<1>1. inbox[x] \in Seq(XMessages)
  BY DEF InboxTypes
<1> DEFINE q == Append(inbox[x], m)
<1>2. /\ Len(inbox[x]) + 1 \in DOMAIN q /\ q[Len(inbox[x]) + 1] = m
      /\ \A i \in DOMAIN inbox[x] : i \in DOMAIN q /\ q[i] = inbox[x][i]
      /\ \A i \in DOMAIN q : i \in DOMAIN inbox[x] \/ i = Len(inbox[x]) + 1
  BY <1>1
<1>3. /\ \A y \in XApps \ {x} : inbox'[y] = inbox[y]
      /\ inbox'[x] = inbox[x] \/ inbox'[x] = q
      /\ xst[x] \notin {"aborted", "gone"} => inbox'[x] = q
  BY SentOne, Zenon
<1> HIDE DEF q
<1> QED
  BY <1>2, <1>3, Zenon

\* What is on its way to an xApp was so before, or it is the message sent.
LEMMA OnItsWay ==
  ASSUME InboxTypes, NEW x \in XApps, NEW m \in XMessages, ToXApp(x, m),
         NEW y \in XApps, NEW i \in DOMAIN inbox'[y]
  PROVE  (i \in DOMAIN inbox[y] /\ inbox'[y][i] = inbox[y][i]) \/ (y = x /\ inbox'[y][i] = m)
  BY SentAll, Zenon

\* The message sent is the last one.
LEMMA LastOnItsWay ==
  ASSUME InboxTypes, NEW x \in XApps, NEW m \in XMessages, ToXApp(x, m),
         NEW y \in XApps, NEW i \in DOMAIN inbox'[y]
  PROVE  (i \in DOMAIN inbox[y] /\ inbox'[y][i] = inbox[y][i])
           \/ (y = x /\ i = Len(inbox[x]) + 1 /\ inbox'[y][i] = m)
  BY SentAll, Zenon

\* A message read is the first one.
LEMMA Read ==
  ASSUME InboxTypes, NEW x \in XApps, NEW type, Receives(x, type)
  PROVE  /\ \A y \in XApps \ {x} : inbox'[y] = inbox[y]
         /\ xst[x] \in {"asking", "connected"}
         /\ 1 \in DOMAIN inbox[x] /\ Head(inbox[x]) = inbox[x][1] /\ inbox[x][1].type = type
         /\ inbox[x][1] \in XMessages
         /\ \A i \in DOMAIN inbox'[x] : /\ i \in Nat /\ i >= 1 /\ i + 1 \in DOMAIN inbox[x]
                                        /\ inbox'[x][i] = inbox[x][i + 1]
         /\ \A i \in DOMAIN inbox[x] : i \in Nat /\ (i = 1 \/ i - 1 \in DOMAIN inbox'[x])
<1>1. inbox[x] \in Seq(XMessages) /\ inbox[x] # <<>> /\ Head(inbox[x]).type = type
      /\ xst[x] \in {"asking", "connected"}
  BY DEF InboxTypes, Receives
<1>2. (\A y \in XApps \ {x} : inbox'[y] = inbox[y]) /\ inbox'[x] = Tail(inbox[x])
  BY DEF InboxTypes, Receives
<1> DEFINE q == inbox[x]
<1>3. /\ 1 \in DOMAIN q /\ Head(q) = q[1] /\ Head(q) \in XMessages
      /\ \A i \in DOMAIN Tail(q) : /\ i \in Nat /\ i >= 1 /\ i + 1 \in DOMAIN q
                                   /\ Tail(q)[i] = q[i + 1]
      /\ \A i \in DOMAIN q : i \in Nat /\ (i = 1 \/ i - 1 \in DOMAIN Tail(q))
  BY <1>1, Taken, Zenon
<1> QED
  BY <1>1, <1>2, <1>3, Zenon

-----------------------------------------------------------------------------
(* IdsGiven *)

\* Every step keeps IdsGiven.
LEMMA IdsGivenStep ==
  ASSUME IAppTypes, InboxTypes, XAppTypes, RoundTypes, TaskTypes, HistoryTypes, IdsGiven,
         [Next]_vars
  PROVE  IdsGiven'
<1> USE DEF IdsGiven, loopVars, ricVars, taskVars, iappVars, xappVars, nodeVars, histVars
<1>1. ASSUME NEW t \in tasks, TaskPush(t) PROVE IdsGiven'
  <2>1. UNCHANGED <<answer, nextId, xaddrs, xid, lcount, inbox>> /\ count' = Len(xaddrs)
    BY <1>1 DEF TaskPush, At
  <2>2. Len(xaddrs) \in Nat
    BY DEF IAppTypes
  <2> QED
    BY <2>1, <2>2
<1>2. ASSUME UpdateSent, UNCHANGED <<answer, nextId, xaddrs, count, lcount, xid>>
      PROVE  IdsGiven'
  <2>1. PICK o \in DOMAIN xaddrs, nodes \in SUBSET Nodes, lacking \in SUBSET Nodes :
          SendUpdate(o, nodes, lacking)
    BY <1>2 DEF UpdateSent
  <2>2. xaddrs[o] \in XApps /\ \E m \in XMessages : m.id = o /\ ToXApp(xaddrs[o], m)
    BY <2>1, Updated, Zenon
  <2>3. PICK m \in XMessages : m.id = o /\ ToXApp(xaddrs[o], m)
    BY <2>2
  <2>4. \A y \in XApps : \A i \in DOMAIN inbox'[y] :
          (i \in DOMAIN inbox[y] /\ inbox'[y][i] = inbox[y][i])
            \/ (y = xaddrs[o] /\ inbox'[y][i] = m)
    BY <2>2, <2>3, OnItsWay, Zenon
  <2>5. \A y \in XApps : \A i \in DOMAIN inbox'[y] :
          inbox'[y][i].id \in DOMAIN xaddrs /\ xaddrs[inbox'[y][i].id] = y
    BY <2>3, <2>4
  <2> QED
    BY <1>2, <2>5, Zenon
<1>11. ASSUME NEW t \in tasks, TaskTell(t) PROVE IdsGiven'
  <2>1. UNCHANGED <<answer, nextId, xaddrs, count, lcount, xid>>
    BY <1>11 DEF TaskTell, loopVars
  <2> QED
    BY <1>2, <1>11, <2>1, TaskSends
<1>12. CASE LoopTell
  <2>1. UNCHANGED <<answer, nextId, xaddrs, count, lcount, xid>>
    BY <1>12 DEF LoopTell
  <2> QED
    BY <1>2, <1>12, <2>1, LoopSends
<1>13. CASE LoopQuiet
  <2>1. UNCHANGED <<answer, nextId, xaddrs, count, xid, inbox>>
    BY <1>13, QuietFrame, RoundFrame
  <2>2. lcount' \in {lcount, Len(xaddrs), 0}
    BY <1>13 DEF LoopQuiet, LoopCount, LoopCopy, LoopTold
  <2>3. Len(xaddrs) \in Nat
    BY DEF IAppTypes
  <2> QED
    BY <2>1, <2>2, <2>3
<1>3. ASSUME NEW t \in tasks, TaskUnlock(t) PROVE IdsGiven'
  <2>1. UNCHANGED <<answer, nextId, xaddrs, xid, lcount, inbox>> /\ count' = 0
    BY <1>3 DEF TaskUnlock, At
  <2>2. Len(xaddrs) \in Nat
    BY DEF IAppTypes
  <2> QED
    BY <2>1, <2>2
<1>4. CASE IAppSetup
  <2>1. /\ answer = NoAnswer /\ answer'.st = "register" /\ answer'.id = nextId
        /\ nextId' = nextId + 1 /\ UNCHANGED <<xaddrs, xid, inbox, count, lcount>>
    BY <1>4 DEF IAppSetup
  <2>2. nextId \in Nat /\ Len(xaddrs) \in Nat
    BY DEF IAppTypes
  <2> QED
    BY <2>1, <2>2 DEF NoAnswer
<1>5. CASE IAppRegister
  <2>1. answer.st = "register" /\ answer.id = Len(xaddrs) + 1 /\ nextId = Len(xaddrs) + 2 /\
          answer \in Answers
    BY <1>5 DEF IAppRegister, IAppTypes, NoAnswer
  <2>2. xaddrs \in Seq(XApps) /\ Len(xaddrs) \in Nat /\ count \in Nat /\ lcount \in Nat
        /\ answer.x \in XApps
    BY <2>1 DEF IAppTypes, TaskTypes, RoundTypes, Answers
  <2>3. answer.id \notin DOMAIN xaddrs
    BY <2>1, <2>2
  <2>4. /\ xaddrs' = Append(xaddrs, answer.x) /\ answer'.st = "send"
        /\ answer'.x = answer.x /\ answer'.id = answer.id /\
             UNCHANGED <<nextId, count, lcount, xid, inbox>>
    BY <1>5, <2>3 DEF IAppRegister
  <2>5. /\ Len(xaddrs') = Len(xaddrs) + 1 /\ Len(xaddrs) + 1 \in DOMAIN xaddrs'
        /\ xaddrs'[Len(xaddrs) + 1] = answer.x
        /\ \A i \in DOMAIN xaddrs : i \in DOMAIN xaddrs' /\ xaddrs'[i] = xaddrs[i]
    BY <2>2, <2>4
  <2> QED
    BY <2>1, <2>2, <2>4, <2>5
<1>6. CASE IAppAnswer
  <2>1. answer.st = "send" /\ answer \in Answers
    BY <1>6 DEF IAppAnswer, ToXApp, IAppTypes, NoAnswer
  <2> DEFINE m == [type |-> "setup", id |-> answer.id, list |-> answer.list]
  <2>2. m \in XMessages /\ m.id \in DOMAIN xaddrs /\ xaddrs[m.id] = answer.x /\
          answer.x \in XApps
    BY <2>1 DEF XMessages, IAppTypes, TaskTypes, Answers, NoAnswer
  <2>3. ToXApp(answer.x, m) /\ UNCHANGED <<nextId, xaddrs, count, lcount, xid>> /\ answer' = NoAnswer
    BY <1>6, <2>1 DEF IAppAnswer, ToXApp
  <2> HIDE DEF m
  <2>4. \A y \in XApps : \A i \in DOMAIN inbox'[y] :
          (i \in DOMAIN inbox[y] /\ inbox'[y][i] = inbox[y][i])
            \/ (y = answer.x /\ inbox'[y][i] = m)
    BY <2>2, <2>3, OnItsWay, Zenon
  <2>5. \A y \in XApps : \A i \in DOMAIN inbox'[y] :
          inbox'[y][i].id \in DOMAIN xaddrs /\ xaddrs[inbox'[y][i].id] = y
    BY <2>2, <2>4
  <2> QED
    BY <2>1, <2>3, <2>5, Zenon DEF NoAnswer
<1>7. ASSUME NEW x \in XApps, XAppSetup(x) PROVE IdsGiven'
  <2>1. Receives(x, "setup") /\ UNCHANGED <<answer, nextId, xaddrs, count, lcount>>
    BY <1>7 DEF XAppSetup, Receives
  <2>2. xid' = xid \/ xid' = [xid EXCEPT ![x] = Head(inbox[x]).id]
    <3>1. CASE xst[x] = "connected"
      BY <1>7, <3>1 DEF XAppSetup, Receives
    <3>2. CASE ~(xst[x] = "connected")
      BY <1>7, <3>2 DEF XAppSetup, Receives
    <3> QED
      BY <3>1, <3>2
  <2>3. \A y \in XApps : xid'[y] = xid[y] \/ (y = x /\ xid'[y] = inbox[x][1].id)
    BY <2>1, <2>2, Read DEF XAppTypes
  <2>4. \A y \in XApps : \A i \in DOMAIN inbox'[y] :
          \E j \in DOMAIN inbox[y] : inbox'[y][i] = inbox[y][j]
    <3>1. /\ \A y \in XApps \ {x} : inbox'[y] = inbox[y]
          /\ \A i \in DOMAIN inbox'[x] : i + 1 \in DOMAIN inbox[x] /\
               inbox'[x][i] = inbox[x][i + 1]
      BY <2>1, Read, Zenon
    <3> QED
      BY <3>1
  <2>5. 1 \in DOMAIN inbox[x]
    BY <2>1, Read, Zenon
  <2> QED
    BY <2>1, <2>3, <2>4, <2>5
<1>8. ASSUME NEW x \in XApps, XAppUpdate(x) PROVE IdsGiven'
  <2>1. Receives(x, "update") /\ UNCHANGED <<answer, nextId, xaddrs, count, lcount>>
    BY <1>8 DEF XAppUpdate, Receives
  <2>2. xid' = xid \/ xid' = [xid EXCEPT ![x] = Head(inbox[x]).id]
    BY <1>8 DEF XAppUpdate, Receives
  <2>3. \A y \in XApps : xid'[y] = xid[y] \/ (y = x /\ xid'[y] = inbox[x][1].id)
    BY <2>1, <2>2, Read DEF XAppTypes
  <2>4. \A y \in XApps : \A i \in DOMAIN inbox'[y] :
          \E j \in DOMAIN inbox[y] : inbox'[y][i] = inbox[y][j]
    <3>1. /\ \A y \in XApps \ {x} : inbox'[y] = inbox[y]
          /\ \A i \in DOMAIN inbox'[x] : i + 1 \in DOMAIN inbox[x] /\
               inbox'[x][i] = inbox[x][i + 1]
      BY <2>1, Read, Zenon
    <3> QED
      BY <3>1
  <2>5. 1 \in DOMAIN inbox[x]
    BY <2>1, Read, Zenon
  <2> QED
    BY <2>1, <2>3, <2>4, <2>5
<1>9. ASSUME NEW x \in XApps, XAppDies(x) PROVE IdsGiven'
  <2>1. /\ inbox' = [inbox EXCEPT ![x] = <<>>]
        /\ UNCHANGED <<answer, nextId, xaddrs, count, lcount, xid>>
    BY <1>9 DEF XAppDies
  <2>2. \A y \in XApps : inbox'[y] = inbox[y] \/ inbox'[y] = <<>>
    BY <2>1 DEF InboxTypes
  <2> QED
    BY <2>1, <2>2
<1>10. CASE \/ LoopSetup \/ LoopShutdown \/ LoopErase \/ LoopForget
            \/ \E n \in Nodes : NodeStart(n) \/ NodeRepeats(n) \/ NodeLeaves(n)
            \/ \E t \in tasks : TaskAddress(t) \/ TaskAdd(t) \/ TaskCopy(t) \/ TaskSend(t)
            \/ \E x \in XApps : XAppAsks(x)
            \/ UNCHANGED vars
  <2>1. UNCHANGED <<answer, nextId, xaddrs, count, lcount, xid, inbox>>
    BY <1>10 DEF vars, NodeStart, NodeRepeats, NodeLeaves, LoopSetup, LoopShutdown,
      LoopErase, LoopForget, TaskAddress, TaskAdd, TaskCopy, TaskSend, XAppAsks
  <2> QED
    BY <2>1
<1> QED
  BY <1>1, <1>3, <1>4, <1>5, <1>6, <1>7, <1>8, <1>9, <1>10, <1>11, <1>12, <1>13
  DEF Next, Loop, Task, IApp, XApp, LoopRound, LoopQuiet

-----------------------------------------------------------------------------
(* InOnePlace *)

\* Every step keeps InOnePlace.
LEMMA InOnePlaceStep ==
  ASSUME IAppTypes, XAppTypes, InOnePlace, [Next]_vars
  PROVE  InOnePlace'
<1> USE DEF InOnePlace, Registering, ricVars, taskVars, iappVars, xappVars, nodeVars,
            histVars
<1>1. CASE IAppSetup
  <2>1. /\ answer = NoAnswer /\ answer'.st = "register" /\ answer'.x = Head(e42)
        /\ e42 # <<>> /\ e42' = Tail(e42) /\ UNCHANGED <<asked, xaddrs>>
    BY <1>1 DEF IAppSetup
  <2>2. e42 \in Seq(XApps)
    BY DEF IAppTypes
  <2>3. /\ 1 \in DOMAIN e42 /\ Head(e42) = e42[1]
        /\ \A i \in DOMAIN e42' : /\ i \in Nat /\ i >= 1 /\ i + 1 \in DOMAIN e42
                                  /\ e42'[i] = e42[i + 1]
    BY <2>1, <2>2, Taken
  <2> QED
    BY <2>1, <2>3
<1>2. CASE IAppRegister
  <2>1. answer.st = "register" /\ UNCHANGED <<asked, e42>>
    BY <1>2 DEF IAppRegister
  <2>2. CASE answer.id \in DOMAIN xaddrs
    <3>1. UNCHANGED <<answer, xaddrs>>
      BY <1>2, <2>2 DEF IAppRegister
    <3> QED
      BY <2>1, <3>1
  <2>3. CASE answer.id \notin DOMAIN xaddrs
    <3>1. xaddrs' = Append(xaddrs, answer.x) /\ answer'.st = "send"
      BY <1>2, <2>3 DEF IAppRegister
    <3>2. xaddrs \in Seq(XApps) /\ answer.x \in XApps
      BY <2>1 DEF IAppTypes, Answers, NoAnswer
    <3>3. \A i \in DOMAIN xaddrs' : \/ i \in DOMAIN xaddrs /\ xaddrs'[i] = xaddrs[i]
                                    \/ i = Len(xaddrs) + 1 /\ xaddrs'[i] = answer.x
      BY <3>1, <3>2, Appended
    <3> QED
      BY <2>1, <3>1, <3>3
  <2> QED
    BY <2>2, <2>3
<1>3. CASE IAppAnswer
  <2>1. answer' = NoAnswer /\ UNCHANGED <<asked, e42, xaddrs>>
    BY <1>3 DEF IAppAnswer, ToXApp
  <2> QED
    BY <2>1 DEF NoAnswer
<1>4. ASSUME NEW x \in XApps, XAppAsks(x) PROVE InOnePlace'
  <2>1. /\ asked' = [asked EXCEPT ![x] = @ + 1] /\ e42' = Append(e42, x)
        /\ UNCHANGED <<answer, xaddrs>>
    BY <1>4 DEF XAppAsks
  <2>2. /\ \A y \in XApps \ {x} : asked'[y] = asked[y]
        /\ asked'[x] = asked[x] + 1 /\ asked[x] \in Nat
    BY <2>1 DEF XAppTypes
  <2>3. \A i \in DOMAIN e42' : \/ i \in DOMAIN e42 /\ e42'[i] = e42[i]
                               \/ i = Len(e42) + 1 /\ e42'[i] = x
    BY <2>1, Appended DEF IAppTypes
  <2> QED
    BY <2>1, <2>2, <2>3
<1>5. CASE \/ LoopSetup \/ LoopShutdown \/ LoopErase \/ LoopForget \/ LoopRound
           \/ \E n \in Nodes : NodeStart(n) \/ NodeRepeats(n) \/ NodeLeaves(n)
           \/ \E t \in tasks : TaskAddress(t) \/ TaskAdd(t) \/ TaskPush(t) \/
                TaskCopy(t) \/ TaskTell(t) \/ TaskUnlock(t) \/ TaskSend(t)
           \/ \E x \in XApps : XAppSetup(x) \/ XAppUpdate(x) \/ XAppDies(x)
           \/ UNCHANGED vars
  <2>1. UNCHANGED <<asked, answer, e42, xaddrs>>
    BY <1>5, RoundFrame DEF vars, NodeStart, NodeRepeats, NodeLeaves, LoopSetup, LoopShutdown,
      LoopErase, LoopForget, TaskAddress, TaskAdd, TaskPush, TaskCopy, TaskTell, ToXApp,
      TaskUnlock, TaskSend, XAppSetup, Receives, XAppUpdate, XAppDies
  <2> QED
    BY <2>1
<1> QED
  BY <1>1, <1>2, <1>3, <1>4, <1>5
  DEF Next, Loop, Task, IApp, XApp, LoopRound, LoopQuiet

-----------------------------------------------------------------------------
(* AnswerFirst *)

\* Every step keeps AnswerFirst.
LEMMA AnswerFirstStep ==
  ASSUME IAppTypes, InboxTypes, XAppTypes, RoundTypes, TaskTypes, HistoryTypes, InOnePlace,
         AnswerFirst, [Next]_vars
  PROVE  AnswerFirst'
<1> USE DEF AnswerFirst, IsSetup, ricVars, taskVars, iappVars, xappVars, nodeVars, histVars
<1>1. ASSUME UpdateSent, UNCHANGED <<xst, xaddrs, answer, xnodes>> PROVE AnswerFirst'
  <2>1. PICK o \in DOMAIN xaddrs, nodes \in SUBSET Nodes, lacking \in SUBSET Nodes :
          SendUpdate(o, nodes, lacking)
    BY <1>1 DEF UpdateSent
  <2> DEFINE w == xaddrs[o]
  <2>2. /\ xaddrs[o] \in XApps /\ behind \subseteq behind'
        /\ answer.st = "send" /\ answer.x = xaddrs[o] => xaddrs[o] \in behind'
        /\ \E m \in XMessages : m.type = "update" /\ ToXApp(xaddrs[o], m)
    BY <2>1, Updated, Zenon
  <2>3. PICK m \in XMessages : m.type = "update" /\ ToXApp(xaddrs[o], m)
    BY <2>2
  <2>4. /\ \E i \in DOMAIN xaddrs : xaddrs[i] = w
        /\ w \in XApps /\ behind \subseteq behind' /\ ToXApp(w, m)
        /\ answer.st = "send" /\ answer.x = w => w \in behind'
    BY <2>2, <2>3
  <2> HIDE DEF w
  <2>5. \A y \in XApps : \A i \in DOMAIN inbox[y] :
          i \in DOMAIN inbox'[y] /\ inbox'[y][i] = inbox[y][i]
    BY <2>3, <2>4, SentAll, Zenon
  <2>6. \A y \in XApps : \A i \in DOMAIN inbox'[y] :
          (i \in DOMAIN inbox[y] /\ inbox'[y][i] = inbox[y][i])
            \/ (y = w /\ i = Len(inbox[w]) + 1 /\ inbox'[y][i] = m)
    <3> TAKE y \in XApps
    <3> TAKE i \in DOMAIN inbox'[y]
    <3> HIDE DEF AnswerFirst, IsSetup
    <3>1. w \in XApps /\ m \in XMessages /\ ToXApp(w, m)
      BY <2>3, <2>4
    <3> QED
      BY ONLY InboxTypes, <3>1, LastOnItsWay, y \in XApps, i \in DOMAIN inbox'[y], Zenon
  <2>7. xst[w] # "new"
    BY <2>4 DEF XAppTypes, InOnePlace
  <2>8. inbox[w] \in Seq(XMessages)
    BY <2>4 DEF InboxTypes
  <2>9. /\ \A i \in DOMAIN inbox[w] : i \in Nat /\ 1 <= i /\ i <= Len(inbox[w]) + 1
        /\ Len(inbox[w]) + 1 \in Nat
    BY <2>8
  <2>10. \A y \in XApps : \A i \in DOMAIN inbox[y] : i \in Nat
    BY DEF InboxTypes
  <2>11. (xst[w] = "asking" /\ w \notin behind') =>
           \E j \in 1..(Len(inbox[w]) + 1) : IsSetup(w, j)
    BY <2>4, <2>9
  <2>12. \A y \in XApps : xst[y] \in {"new", "asking"} /\ y \notin behind' =>
           \A i \in DOMAIN inbox'[y] : \E j \in 1..i : IsSetup(y, j)
    BY <2>4, <2>6, <2>7, <2>11
  <2>13. \A y \in XApps : \A i : IsSetup(y, i) => IsSetup(y, i)'
    BY <2>5
  <2> QED
    BY <1>1, <2>4, <2>12, <2>13
<1>10. ASSUME NEW t \in tasks, TaskTell(t) PROVE AnswerFirst'
  <2>1. UNCHANGED <<xst, xaddrs, answer, xnodes>>
    BY <1>10 DEF TaskTell
  <2> QED
    BY <1>1, <1>10, <2>1, TaskSends
<1>11. CASE LoopTell
  <2>1. UNCHANGED <<xst, xaddrs, answer, xnodes>>
    BY <1>11 DEF LoopTell
  <2> QED
    BY <1>1, <1>11, <2>1, LoopSends
<1>2. CASE IAppSetup
  <2>1. answer = NoAnswer /\ UNCHANGED <<xst, xaddrs, inbox, behind, xnodes>>
    BY <1>2 DEF IAppSetup
  <2> QED
    BY <2>1 DEF NoAnswer
<1>3. CASE IAppRegister
  <2>1. answer.st = "register" /\ UNCHANGED <<xst, inbox, behind, xnodes>>
    BY <1>3 DEF IAppRegister
  <2>2. CASE answer.id \in DOMAIN xaddrs
    <3>1. UNCHANGED <<answer, xaddrs>>
      BY <1>3, <2>2 DEF IAppRegister
    <3> QED
      BY <2>1, <3>1
  <2>3. CASE answer.id \notin DOMAIN xaddrs
    <3>1. xaddrs' = Append(xaddrs, answer.x) /\ answer'.st = "send" /\ answer'.x = answer.x
      BY <1>3, <2>3 DEF IAppRegister
    <3>2. xaddrs \in Seq(XApps) /\ answer.x \in XApps
      BY <2>1 DEF IAppTypes, Answers, NoAnswer
    <3>3. \A i \in DOMAIN xaddrs' : (i \in DOMAIN xaddrs /\ xaddrs'[i] = xaddrs[i]) \/
            xaddrs'[i] = answer.x
      BY <3>1, <3>2, Appended
    <3> QED
      BY <2>1, <3>1, <3>3
  <2> QED
    BY <2>2, <2>3
<1>4. CASE IAppAnswer
  <2> DEFINE m == [type |-> "setup", id |-> answer.id, list |-> answer.list]
  <2>1. /\ answer.st = "send" /\ answer' = NoAnswer /\ ToXApp(answer.x, m)
        /\ UNCHANGED <<xst, xaddrs, behind, xnodes>>
    BY <1>4 DEF IAppAnswer, ToXApp
  <2>2. answer.x \in XApps /\ m \in XMessages /\ m.type = "setup"
    BY <2>1 DEF XMessages, IAppTypes, Answers, NoAnswer
  <2> HIDE DEF m
  <2>w. PICK w \in XApps : w = answer.x
    BY <2>2
  <2>s. ToXApp(w, m) /\ inbox[w] \in Seq(XMessages)
    BY <2>1, <2>w DEF InboxTypes
  <2>l. PICK last \in Nat : last = Len(inbox[w]) + 1 /\ last \in 1..last
    BY <2>s
  <2>4. \A y \in XApps : \A i \in DOMAIN inbox[y] :
          i \in DOMAIN inbox'[y] /\ inbox'[y][i] = inbox[y][i]
    BY <2>s, <2>2, SentAll, Zenon
  <2>5. \A y \in XApps : \A i \in DOMAIN inbox'[y] :
          (i \in DOMAIN inbox[y] /\ inbox'[y][i] = inbox[y][i])
            \/ (y = w /\ i = last /\ inbox'[y][i] = m)
    <3>1. \A y \in XApps : \A i \in DOMAIN inbox'[y] :
            (i \in DOMAIN inbox[y] /\ inbox'[y][i] = inbox[y][i])
              \/ (y = w /\ i = Len(inbox[w]) + 1 /\ inbox'[y][i] = m)
      BY <2>s, <2>2, LastOnItsWay
    <3> QED
      BY <2>l, <3>1
  <2>6. xst[w] \notin {"aborted", "gone"} => last \in DOMAIN inbox'[w] /\ inbox'[w][last] = m
    BY <2>s, <2>2, <2>l, SentAll, Zenon
  <2>9. \A y \in XApps : \A i : IsSetup(y, i) => IsSetup(y, i)'
    BY <2>4
  <2>10. \A y \in XApps : xst[y] \in {"new", "asking"} /\ y \notin behind =>
           \A i \in DOMAIN inbox'[y] : \E j \in 1..i : IsSetup(y, j)'
    BY <2>2, <2>5, <2>6, <2>l, <2>9
  <2>11. xst[w] = "asking" => IsSetup(w, last)'
    BY <2>2, <2>6
  <2> QED
    BY <2>1, <2>w, <2>11, <2>9, <2>10
<1>5. ASSUME NEW x \in XApps, XAppAsks(x) PROVE AnswerFirst'
  <2>1. /\ xst[x] \in {"new", "asking"} /\ xst' = [xst EXCEPT ![x] = "asking"]
        /\ UNCHANGED <<xaddrs, answer, inbox, behind, xnodes>>
    BY <1>5 DEF XAppAsks
  <2>2. xst'[x] = "asking" /\ \A y \in XApps \ {x} : xst'[y] = xst[y]
    BY <2>1 DEF XAppTypes
  <2>3. xst[x] = "new" => \A i \in DOMAIN xaddrs : xaddrs[i] # x
    BY DEF XAppTypes, InOnePlace
  <2> QED
    BY <2>1, <2>2, <2>3
<1>6. ASSUME NEW x \in XApps, XAppSetup(x) PROVE AnswerFirst'
  <2>1. Receives(x, "setup") /\ UNCHANGED <<xaddrs, answer, behind>>
    BY <1>6 DEF XAppSetup, Receives
  <2>2. /\ \A y \in XApps \ {x} : inbox'[y] = inbox[y]
        /\ xst[x] \in {"asking", "connected"}
    BY <2>1, Read, Zenon
  <2>3. CASE xst[x] = "connected"
    <3>1. UNCHANGED <<xst, xnodes>>
      BY <1>6, <2>3 DEF XAppSetup, Receives
    <3> QED
      BY <2>1, <2>2, <2>3, <3>1
  <2>4. CASE xst[x] # "connected" /\ Head(inbox[x]).list \cap xnodes[x] # {}
    <3>1. xst' = [xst EXCEPT ![x] = "aborted"] /\ UNCHANGED xnodes
      BY <1>6, <2>4 DEF XAppSetup, Receives
    <3>2. xst'[x] = "aborted" /\ \A y \in XApps \ {x} : xst'[y] = xst[y]
      BY <3>1 DEF XAppTypes
    <3>3. x \in behind
      BY <2>2, <2>4
    <3> QED
      BY <2>1, <2>2, <3>1, <3>2, <3>3
  <2>5. CASE xst[x] # "connected" /\ ~(Head(inbox[x]).list \cap xnodes[x] # {})
    <3>1. /\ xst' = [xst EXCEPT ![x] = "connected"]
          /\ xnodes' = [xnodes EXCEPT ![x] = @ \cup Head(inbox[x]).list]
      BY <1>6, <2>5 DEF XAppSetup, Receives
    <3>2. xst'[x] = "connected" /\ \A y \in XApps \ {x} : xst'[y] = xst[y] /\
            xnodes'[y] = xnodes[y]
      BY <3>1 DEF XAppTypes
    <3> QED
      BY <2>1, <2>2, <3>2
  <2> QED
    BY <2>3, <2>4, <2>5
<1>7. ASSUME NEW x \in XApps, XAppUpdate(x) PROVE AnswerFirst'
  <2>1. /\ Receives(x, "update") /\ UNCHANGED <<xst, xaddrs, answer, behind>>
        /\ xnodes' = [xnodes EXCEPT ![x] = Head(inbox[x]).list]
    BY <1>7 DEF XAppUpdate, Receives
  <2>2. /\ \A y \in XApps \ {x} : inbox'[y] = inbox[y]
        /\ xst[x] \in {"asking", "connected"} /\ 1 \in DOMAIN inbox[x] /\
             inbox[x][1].type = "update"
    BY <2>1, Read, Zenon
  <2>3. \A i \in DOMAIN inbox[x] : i = 1 \/ (i - 1 \in DOMAIN inbox'[x] /\
          inbox'[x][i - 1] = inbox[x][i])
    <3>1. inbox[x] \in Seq(XMessages) /\ inbox'[x] = Tail(inbox[x]) /\ inbox[x] # <<>>
      BY <2>1 DEF Receives, InboxTypes
    <3> QED
      BY <3>1
  <2>4. \A y \in XApps \ {x} : xnodes'[y] = xnodes[y]
    BY <2>1 DEF XAppTypes
  <2>5. xst[x] = "asking" => x \in behind
    <3>1. \A j \in 1..1 : ~IsSetup(x, j)
      BY <2>2
    <3> QED
      BY <2>2, <3>1
  <2>6. \A i : IsSetup(x, i) => IsSetup(x, i - 1)'
    BY <2>2, <2>3
  <2> QED
    BY <2>1, <2>2, <2>4, <2>5, <2>6
<1>8. ASSUME NEW x \in XApps, XAppDies(x) PROVE AnswerFirst'
  <2>1. /\ xst' = [xst EXCEPT ![x] = "gone"] /\ inbox' = [inbox EXCEPT ![x] = <<>>]
        /\ UNCHANGED <<xaddrs, answer, behind, xnodes>>
    BY <1>8 DEF XAppDies
  <2>2. xst'[x] = "gone" /\ \A y \in XApps \ {x} : xst'[y] = xst[y] /\ inbox'[y] = inbox[y]
    BY <2>1 DEF XAppTypes, InboxTypes
  <2> QED
    BY <2>1, <2>2
<1>9. CASE \/ LoopSetup \/ LoopShutdown \/ LoopErase \/ LoopForget \/ LoopQuiet
           \/ \E n \in Nodes : NodeStart(n) \/ NodeRepeats(n) \/ NodeLeaves(n)
           \/ \E t \in tasks : TaskAddress(t) \/ TaskAdd(t) \/ TaskPush(t) \/
                TaskCopy(t) \/ TaskUnlock(t) \/ TaskSend(t)
           \/ UNCHANGED vars
  <2>1. UNCHANGED <<xst, xaddrs, answer, inbox, behind, xnodes>>
    BY <1>9, RoundFrame, QuietFrame
      DEF vars, NodeStart, NodeRepeats, NodeLeaves, LoopSetup, LoopShutdown,
      LoopErase, LoopForget, TaskAddress, TaskAdd, TaskPush, TaskCopy, TaskUnlock, TaskSend
  <2> QED
    BY <2>1
<1> QED
  BY <1>2, <1>3, <1>4, <1>5, <1>6, <1>7, <1>8, <1>9, <1>10, <1>11
  DEF Next, Loop, Task, IApp, XApp, LoopRound, LoopQuiet

-----------------------------------------------------------------------------
(* No failure but those foreseen *)


\* Every step keeps Unfailed.
LEMMA UnfailedStep ==
  ASSUME RoundTypes, TaskTypes, IAppTypes, HistoryTypes, Filling, IdsGiven, Unfailed,
         [Next]_vars
  PROVE  Unfailed'
<1> USE DEF Unfailed, Failures, ricVars, taskVars, iappVars, xappVars, nodeVars, histVars
<1>1. CASE LoopShutdown
  <2>1. UNCHANGED abort \/ abort' \in {"no_address", "addresses_differ"}
    BY <1>1 DEF LoopShutdown
  <2> QED
    BY <2>1
<1>2. CASE LoopErase
  <2>1. UNCHANGED abort \/ abort' = "node_not_found"
    BY <1>2 DEF LoopErase
  <2> QED
    BY <2>1
<1>3. CASE LoopForget
  <2>1. UNCHANGED abort
    BY <1>3 DEF LoopForget, Filling
  <2> QED
    BY <2>1
<1>4. ASSUME NEW t \in tasks, TaskAdd(t) PROVE Unfailed'
  <2>1. UNCHANGED abort \/ abort' = "node_exists"
    BY <1>4 DEF TaskAdd, At
  <2> QED
    BY <2>1
<1>5. ASSUME NEW t \in tasks, TaskTell(t) PROVE Unfailed'
  <2>1. told < count
    BY <1>5 DEF TaskTell
  <2>2. UNCHANGED abort
    BY <1>5, <2>1, TaskSends DEF IdsGiven, TaskTypes, IAppTypes
  <2> QED
    BY <2>2
<1>8. CASE LoopTell
  <2>1. ltold < lcount
    BY <1>8 DEF LoopTell
  <2>2. UNCHANGED abort
    BY <1>8, <2>1, LoopSends DEF IdsGiven, RoundTypes, IAppTypes
  <2> QED
    BY <2>2
<1>9. CASE LoopQuiet
  BY <1>9, QuietFrame
<1>6. CASE IAppRegister
  <2>1. answer.id \notin DOMAIN xaddrs
    BY <1>6 DEF IAppRegister, IdsGiven, IAppTypes
  <2>2. UNCHANGED abort
    BY <1>6, <2>1 DEF IAppRegister
  <2> QED
    BY <2>2
<1>7. CASE \/ LoopSetup \/ IAppSetup \/ IAppAnswer
           \/ \E n \in Nodes : NodeStart(n) \/ NodeRepeats(n) \/ NodeLeaves(n)
           \/ \E t \in tasks : TaskAddress(t) \/ TaskPush(t) \/ TaskCopy(t) \/
                TaskUnlock(t) \/ TaskSend(t)
           \/ \E x \in XApps : XAppAsks(x) \/ XAppSetup(x) \/ XAppUpdate(x) \/ XAppDies(x)
           \/ UNCHANGED vars
  <2>1. UNCHANGED <<abort>>
    BY <1>7 DEF vars, NodeStart, NodeRepeats, NodeLeaves, LoopSetup, TaskAddress, TaskPush,
      TaskCopy, TaskUnlock, TaskSend, IAppSetup, IAppAnswer, ToXApp, XAppAsks, XAppSetup,
      Receives, XAppUpdate, XAppDies
  <2> QED
    BY <2>1
<1> QED
  BY <1>1, <1>2, <1>3, <1>4, <1>5, <1>6, <1>7, <1>8, <1>9
  DEF Next, Loop, Task, IApp, XApp, LoopRound, LoopQuiet

-----------------------------------------------------------------------------
(* Manners *)

\* Manners are lost for good.
LEMMA KeptStays ==
  ASSUME [Next]_vars, kept'
  PROVE  kept
<1>1. ASSUME NEW n \in Nodes, NodeRepeats(n) PROVE FALSE
  BY <1>1 DEF NodeRepeats
<1>2. ASSUME NEW n \in Nodes, NodeLeaves(n) PROVE kept
  BY <1>2, Zenon DEF NodeLeaves
<1>3. CASE \/ \E n \in Nodes : NodeStart(n)
           \/ LoopSetup \/ LoopShutdown \/ LoopErase \/ LoopForget \/ LoopRound \/ IApp
           \/ \E t \in tasks : Task(t)
           \/ \E x \in XApps : XAppAsks(x) \/ XApp(x) \/ XAppDies(x)
           \/ UNCHANGED vars
  <2>1. UNCHANGED kept
    BY <1>3, RoundFrame
      DEF vars, Task, IApp, XApp, NodeStart, LoopSetup, LoopShutdown, LoopErase,
      LoopForget, TaskAddress, TaskAdd, TaskPush, TaskCopy, TaskTell, TaskUnlock, TaskSend,
      IAppSetup, IAppRegister, IAppAnswer, XAppAsks, XAppSetup, XAppUpdate, XAppDies,
      nodeVars
  <2> QED
    BY <2>1
<1> QED
  BY <1>1, <1>2, <1>3 DEF Next, Loop, LoopRound, LoopQuiet

\* A step after which nodes have kept their manners keeps what those bring.
LEMMA MannersStep ==
  ASSUME LoopTypes, RoundTypes, TableTypes, TaskTypes, IAppTypes, NodeTypes, HistoryTypes,
         Filling, InOrder, IdsGiven, OneEach, Asking, Filled, Running, kept', [Next]_vars
  PROVE  (OneEach /\ Asking /\ Filled /\ Running)'
<1> USE DEF UpIsIn, LossIsIn, AwayIsHalf, TasksFill, OthersOut, Setup, Down, Away, Leaves,
            Entered, Alone, Whole, Pushed, ricVars, taskVars, iappVars, xappVars, nodeVars,
            histVars
<1>1. ASSUME NEW n \in Nodes, NodeStart(n) PROVE (OneEach /\ Asking /\ Filled /\ Running)'
  <2> DEFINE m == [type |-> "setup", n |-> n, l |-> starts + 1, k |-> 1]
  <2>1. e2' = Append(e2, m) /\ m \in E2Messages /\ m.type = "setup" /\ m.n = n
    BY <1>1, NodeBoundsAssumption DEF NodeStart, NodeAsks, E2Messages, NodeTypes
  <2>2. /\ starts' = starts + 1 /\ nst' = [nst EXCEPT ![n] = "asked"] /\ m.l = starts + 1
        /\ nst[n] = "off" /\ assoc' = [assoc EXCEPT ![n] = starts + 1]
        /\ UNCHANGED <<addrs, reg, conn, at, ev, tasks>>
    BY <1>1 DEF NodeStart, NodeAsks
  <2>3. m.l <= starts' /\ starts \in Nat /\ starts <= starts'
    BY <2>2 DEF NodeTypes
  <2> HIDE DEF m
  <2>4. /\ Len(e2) \in Nat /\ Len(e2) + 1 \in DOMAIN e2' /\ e2'[Len(e2) + 1] = m
        /\ \A i \in DOMAIN e2 : /\ i \in Nat /\ i <= Len(e2) /\ i \in DOMAIN e2'
                                /\ e2'[i] = e2[i] /\ e2[i] \in E2Messages
        /\ \A i \in DOMAIN e2' : i \in DOMAIN e2 \/ i = Len(e2) + 1
    BY <2>1, Appended DEF LoopTypes
  <2>5. \A i \in DOMAIN e2 : e2[i].l \in Nat
    BY <2>4 DEF E2Messages
  <2>run. Running'
    BY <1>1 DEF NodeStart, NodeAsks, Running
  <2>6. /\ nst'[n] = "asked" /\ assoc'[n] = starts + 1
        /\ \A o \in Nodes \ {n} : nst'[o] = nst[o] /\ assoc'[o] = assoc[o]
    BY <2>2, <2>3 DEF NodeTypes
  <2>7. \A u \in tasks : u.n \in Nodes /\ u.n # n
    BY <2>2 DEF TaskTypes, Tasks, Asking
  <2>8. \A i \in DOMAIN e2 : ~(e2[i].type = "setup" /\ e2[i].n = n)
    BY <2>2 DEF Asking
  <2>p. OneEach'
    BY <2>1, <2>2, <2>4, <2>6, <2>7, <2>8 DEF OneEach, Asking, Filled
  <2>q. Asking'
    BY <2>1, <2>2, <2>4, <2>6, <2>7, <2>8 DEF Asking, OneEach
  <2>r. Filled'
    BY <2>1, <2>2, <2>4, <2>6, <2>7, <2>8 DEF Filled, Asking, OneEach
  <2> QED
    BY <2>p, <2>q, <2>r, <2>run
<1>2. ASSUME NEW n \in Nodes, NodeRepeats(n) PROVE (OneEach /\ Asking /\ Filled /\ Running)'
  <2> QED
    BY <1>2 DEF NodeRepeats, NodeAsks
<1>3. ASSUME NEW n \in Nodes, NodeLeaves(n) PROVE (OneEach /\ Asking /\ Filled /\ Running)'
  <2>0. nst[n] = "up"
    BY <1>3, Zenon DEF NodeLeaves
  <2> DEFINE m == [type |-> "shutdown", n |-> n, l |-> assoc[n], k |-> 0]
  <2>1. e2' = Append(e2, m) /\ m \in E2Messages /\ m.type = "shutdown" /\ m.n = n
    BY <1>3, NodeBoundsAssumption DEF NodeLeaves, E2Messages, NodeTypes
  <2>2. /\ nst' = [nst EXCEPT ![n] = "off"] /\ m.l = assoc[n]
        /\ UNCHANGED <<addrs, reg, conn, at, ev, tasks, assoc, starts>>
    BY <1>3 DEF NodeLeaves
  <2> HIDE DEF m
  <2>4. /\ Len(e2) \in Nat /\ Len(e2) + 1 \in DOMAIN e2' /\ e2'[Len(e2) + 1] = m
        /\ \A i \in DOMAIN e2 : /\ i \in Nat /\ i <= Len(e2) /\ i \in DOMAIN e2'
                                /\ e2'[i] = e2[i] /\ e2[i] \in E2Messages
        /\ \A i \in DOMAIN e2' : i \in DOMAIN e2 \/ i = Len(e2) + 1
    BY <2>1, Appended DEF LoopTypes
  <2>5. \A i \in DOMAIN e2 : e2[i].l \in Nat
    BY <2>4 DEF E2Messages
  <2>run. Running'
    BY <1>3 DEF NodeLeaves, Running
  <2>6. nst'[n] = "off" /\ \A o \in Nodes \ {n} : nst'[o] = nst[o]
    <3>1. nst \in [Nodes -> {"off", "asked", "up"}] /\ nst' = [nst EXCEPT ![n] = "off"]
      BY <2>2 DEF NodeTypes
    <3> QED
      BY <3>1
  <2>7. \A u \in tasks : u.n \in Nodes /\ u.n # n
    BY <2>0 DEF TaskTypes, Tasks, Asking
  <2>p. OneEach'
    BY <2>0, <2>1, <2>2, <2>4, <2>6, <2>7 DEF OneEach, Asking, Filled
  <2>q. Asking'
    BY <2>0, <2>1, <2>2, <2>4, <2>6, <2>7 DEF Asking, OneEach
  <2>r. Filled'
    BY <2>0, <2>1, <2>2, <2>4, <2>6, <2>7 DEF Filled, Asking, OneEach
  <2> QED
    BY <2>p, <2>q, <2>r, <2>run
<1>4. CASE LoopSetup
  <2>1. e2 # <<>> /\ e2' = Tail(e2) /\ at = "wait"
    BY <1>4 DEF LoopSetup
  <2>2. /\ 1 \in DOMAIN e2 /\ Head(e2) = e2[1] /\ Head(e2) \in E2Messages
        /\ \A i \in DOMAIN e2' : /\ i \in Nat /\ i >= 1 /\ i + 1 \in DOMAIN e2
                                 /\ e2'[i] = e2[i + 1]
        /\ \A i \in DOMAIN e2 : i \in Nat /\ (i = 1 \/ i - 1 \in DOMAIN e2')
    BY <2>1, Taken DEF LoopTypes
  <2> DEFINE r == [n |-> Head(e2).n, l |-> Head(e2).l, k |-> Head(e2).k, st |-> "address"]
  <2>3. /\ tasks' = tasks \cup {r} /\ Head(e2).type = "setup"
        /\ UNCHANGED <<at, ev, addrs, reg, conn, nst, assoc, starts>>
    BY <1>4 DEF LoopSetup
  <2>4. r.n = e2[1].n /\ r.l = e2[1].l /\ r.st = "address" /\ r.n \in Nodes
    BY <2>2 DEF E2Messages
  <2> HIDE DEF r
  <2>run. Running'
    BY <1>4 DEF LoopSetup, Running
  <2>5. /\ nst[r.n] = "asked" /\ r.l = assoc[r.n]
        /\ \A u \in tasks : u.n # r.n /\ u.n \in Nodes
    BY <2>2, <2>3, <2>4 DEF Asking, OneEach, TaskTypes, Tasks
  <2>6. \A j \in DOMAIN e2 : ~Down(j, r.n)
    <3> SUFFICES ASSUME NEW j \in DOMAIN e2, Down(j, r.n) PROVE FALSE
      OBVIOUS
    <3>1. Setup(1, r.n) /\ e2[1].l = assoc[r.n] /\ nst[r.n] # "off" /\ r.n \in Nodes
      BY <2>2, <2>3, <2>4, <2>5 DEF Setup
    <3>2. j < 1
      BY <2>2, <3>1, Zenon DEF InOrder
    <3> QED
      BY <2>2, <3>2
  <2>7. /\ ~Leaves(r.n) /\ ~Entered(r.n) /\ r.n \notin reg /\ r.n \notin conn
    BY <2>1, <2>4, <2>5, <2>6 DEF Filled
  <2>p. OneEach'
    BY <2>1, <2>2, <2>3, <2>4, <2>5, <2>6, <2>7 DEF OneEach, Asking, Filled
  <2>q. Asking'
    BY <2>1, <2>2, <2>3, <2>4, <2>5, <2>6, <2>7 DEF Asking, OneEach
  <2>r. Filled'
    <3>1. UpIsIn'
      BY <2>1, <2>2, <2>3, <2>4, <2>5, <2>6, <2>7 DEF Filled, Asking, OneEach
    <3>2. LossIsIn'
      BY <2>1, <2>2, <2>3, <2>4, <2>5, <2>6, <2>7 DEF Filled, Asking, OneEach
    <3>3. AwayIsHalf'
      BY <2>1, <2>2, <2>3, <2>4, <2>5, <2>6, <2>7 DEF Filled, Asking, OneEach
    <3>4. TasksFill'
      <4>1. \A u \in tasks' : u \in tasks \/ u = r
        BY <2>3
      <4>2. ~Pushed(r) /\ r.st = "address"
        BY <2>4
      <4>3. ~Entered(r.n) /\ r.n \notin reg /\ r.n \notin conn
        BY <2>7
      <4>4. TasksFill
        BY DEF Filled
      <4> HIDE DEF Pushed
      <4> QED
        BY <2>3, <4>1, <4>2, <4>3, <4>4 DEF Pushed
    <3>5. OthersOut'
      <4>1. \A j \in DOMAIN e2 : j # 1 => \E i \in DOMAIN e2' : e2'[i] = e2[j]
        BY <2>2
      <4>2. \A o \in Nodes : Leaves(o) => Leaves(o)'
        BY <2>2, <2>3, <4>1
      <4>3. OthersOut /\ r \in tasks' /\ tasks \subseteq tasks' /\
              UNCHANGED <<reg, conn, addrs, nst>>
        BY <2>3 DEF Filled
      <4> HIDE DEF Leaves
      <4> QED
        BY <4>2, <4>3, <2>4
    <3> QED
      BY <3>1, <3>2, <3>3, <3>4, <3>5 DEF Filled
  <2> QED
    BY <2>p, <2>q, <2>r, <2>run
<1>5. CASE LoopShutdown
  <2>1. e2 # <<>> /\ e2' = Tail(e2) /\ at = "wait"
    BY <1>5 DEF LoopShutdown
  <2>2. /\ 1 \in DOMAIN e2 /\ Head(e2) = e2[1] /\ Head(e2) \in E2Messages
        /\ \A i \in DOMAIN e2' : /\ i \in Nat /\ i >= 1 /\ i + 1 \in DOMAIN e2
                                 /\ e2'[i] = e2[i + 1]
        /\ \A i \in DOMAIN e2 : i \in Nat /\ (i = 1 \/ i - 1 \in DOMAIN e2')
    BY <2>1, Taken DEF LoopTypes
  <2>3. Head(e2).type = "shutdown" /\ UNCHANGED <<reg, conn, tasks, nst, assoc, starts>>
    BY <1>5 DEF LoopShutdown
  <2>4. Down(1, e2[1].n) /\ e2[1].n \in Nodes /\ Whole(e2[1].n, e2[1].l)
    BY <2>2, <2>3 DEF E2Messages, Filled
  <2>5. PICK b \in addrs : /\ b.n = e2[1].n /\ b.l = e2[1].l
                           /\ \A c \in addrs : c.n = b.n => c = b
    BY <2>4 DEF OneEach
  <2>6. /\ addrs' = addrs \ {b} /\ ev' = [n |-> e2[1].n, l |-> e2[1].l] /\ at' = "erase"
        /\ UNCHANGED abort
    BY <1>5, <2>2, <2>4, <2>5 DEF LoopShutdown
  <2>7. [n |-> e2[1].n, l |-> e2[1].l].n = e2[1].n
    OBVIOUS
  <2>run. Running'
    BY <2>6 DEF Running
  <2>8. \A u \in tasks : u.n \in Nodes /\ u.n # e2[1].n
    BY <2>4 DEF TaskTypes, Tasks, Asking
  <2>9. \A i \in DOMAIN e2 : Down(i, e2[1].n) => i = 1
    BY <2>4 DEF OneEach
  <2>p. OneEach'
    BY <2>1, <2>2, <2>3, <2>4, <2>5, <2>6, <2>7, <2>8, <2>9 DEF OneEach, Asking, Filled
  <2>q. Asking'
    BY <2>1, <2>2, <2>3, <2>4, <2>5, <2>6, <2>7, <2>8, <2>9 DEF Asking, OneEach
  <2>r. Filled'
    <3>1. UpIsIn'
      BY <2>1, <2>2, <2>3, <2>4, <2>5, <2>6, <2>7, <2>8, <2>9 DEF Filled, Asking, OneEach
    <3>2. LossIsIn'
      BY <2>1, <2>2, <2>3, <2>4, <2>5, <2>6, <2>7, <2>8, <2>9 DEF Filled, Asking, OneEach
    <3>3. AwayIsHalf'
      BY <2>1, <2>2, <2>3, <2>4, <2>5, <2>6, <2>7, <2>8, <2>9 DEF Filled, Asking, OneEach
    <3>4. TasksFill'
      <4>1. \A u \in tasks : \A a \in addrs : a.n = u.n => a \in addrs'
        BY <2>5, <2>6, <2>8
      <4>2. TasksFill /\ UNCHANGED <<tasks, reg, conn>> /\ addrs' \subseteq addrs
        BY <2>3, <2>6 DEF Filled
      <4> QED
        BY <4>1, <4>2
    <3>5. OthersOut'
      <4>1. \A j \in DOMAIN e2 : j # 1 => \E i \in DOMAIN e2' : e2'[i] = e2[j]
        BY <2>2
      <4>2. \A o \in Nodes : Leaves(o) => Leaves(o)'
        BY <2>1, <2>2, <2>6, <2>7, <4>1
      <4>3. OthersOut /\ UNCHANGED <<reg, conn, tasks, nst>> /\ addrs' \subseteq addrs
        BY <2>3, <2>6 DEF Filled
      <4> HIDE DEF Leaves
      <4> QED
        BY <4>2, <4>3
    <3> QED
      BY <3>1, <3>2, <3>3, <3>4, <3>5 DEF Filled
  <2> QED
    BY <2>p, <2>q, <2>r, <2>run
<1>6. CASE LoopErase
  <2>1. at = "erase" /\ ev.n \in Nodes /\ ev.n \in conn
    BY <1>6 DEF LoopErase, LoopTypes, Filled
  <2>2. /\ conn' = conn \ {ev.n} /\ at' = "forget" /\ UNCHANGED abort
        /\ UNCHANGED <<e2, ev, addrs, reg, tasks, nst, assoc, starts>>
    BY <1>6, <2>1 DEF LoopErase
  <2>run. Running'
    BY <2>2 DEF Running
  <2>3. \A u \in tasks : u.n \in Nodes /\ u.n # ev.n
    BY <2>1 DEF TaskTypes, Tasks, Asking
  <2>p. OneEach'
    BY <2>1, <2>2, <2>3 DEF OneEach, Asking, Filled
  <2>q. Asking'
    BY <2>1, <2>2, <2>3 DEF Asking, OneEach
  <2>r. Filled'
    BY <2>1, <2>2, <2>3 DEF Filled, Asking, OneEach
  <2> QED
    BY <2>p, <2>q, <2>r, <2>run
<1>7. CASE LoopForget
  <2>1. at = "forget" /\ ev.n \in Nodes /\ ev.n \in reg \ conn
    BY <1>7 DEF LoopForget, LoopTypes, Filling
  <2>2. /\ reg' = reg \ {ev.n} /\ at' = "count" /\ UNCHANGED abort
        /\ UNCHANGED <<e2, ev, addrs, conn, tasks, nst, assoc, starts>>
    BY <1>7, <2>1 DEF LoopForget
  <2>run. Running'
    BY <2>2 DEF Running
  <2>3. \A u \in tasks : u.n \in Nodes /\ u.n # ev.n
    BY <2>1 DEF TaskTypes, Tasks, Asking
  <2>p. OneEach'
    BY <2>1, <2>2, <2>3 DEF OneEach, Asking, Filled
  <2>q. Asking'
    BY <2>1, <2>2, <2>3 DEF Asking, OneEach
  <2>r. Filled'
    BY <2>1, <2>2, <2>3 DEF Filled, Asking, OneEach
  <2> QED
    BY <2>p, <2>q, <2>r, <2>run
<1>8. ASSUME NEW t \in tasks, TaskAddress(t) PROVE (OneEach /\ Asking /\ Filled /\ Running)'
  <2>1. /\ Goes(t, "add") /\ t.st = "address"
        /\ addrs' = addrs \cup {Id(t)} /\
             UNCHANGED <<e2, at, ev, reg, conn, nst, assoc, starts>>
    BY <1>8 DEF TaskAddress, At
  <2>2. /\ \A u \in tasks' :
             (u \in tasks /\ u # t) \/ (u.n = t.n /\ u.l = t.l /\ u.st = "add")
        /\ \A u \in tasks : u # t => u \in tasks'
        /\ \E u \in tasks' : u.n = t.n /\ u.l = t.l /\ u.st = "add"
        /\ \A u, v \in tasks' : u.n = t.n /\ u.st = "add" /\ v.n = t.n /\ v.st = "add" =>
             u = v \/ \E w \in tasks : w # t /\ w.n = t.n /\ w.st = "add"
    BY <2>1, Moved DEF Steps
  <2>3. \A u \in tasks : u.n \in Nodes /\ (u.n = t.n => u = t)
    BY DEF TaskTypes, Tasks, OneEach
  <2>run. Running'
    BY <1>8 DEF TaskAddress, At, Running
  <2>4. Id(t).n = t.n /\ Id(t).l = t.l
    BY DEF Id
  <2>p. OneEach'
    BY <2>1, <2>2, <2>3, <2>4 DEF OneEach, Asking, Filled
  <2>q. Asking'
    BY <2>1, <2>2, <2>3, <2>4 DEF Asking, OneEach
  <2>r. Filled'
    BY <2>1, <2>2, <2>3, <2>4 DEF Filled, Asking, OneEach
  <2> QED
    BY <2>p, <2>q, <2>r, <2>run
<1>9. ASSUME NEW t \in tasks, TaskAdd(t) PROVE (OneEach /\ Asking /\ Filled /\ Running)'
  <2>a. t.st = "add" /\ t.n \notin reg
    BY <1>9 DEF TaskAdd, At, Filled
  <2>1. /\ Goes(t, "lock") /\ t.st = "add"
        /\ reg' = reg \cup {t.n} /\
             UNCHANGED <<e2, at, ev, addrs, conn, nst, assoc, starts, abort>>
    BY <1>9, <2>a DEF TaskAdd, At
  <2>2. /\ \A u \in tasks' :
             (u \in tasks /\ u # t) \/ (u.n = t.n /\ u.l = t.l /\ u.st = "lock")
        /\ \A u \in tasks : u # t => u \in tasks'
        /\ \E u \in tasks' : u.n = t.n /\ u.l = t.l /\ u.st = "lock"
        /\ \A u, v \in tasks' : u.n = t.n /\ u.st = "lock" /\ v.n = t.n /\ v.st = "lock" =>
             u = v \/ \E w \in tasks : w # t /\ w.n = t.n /\ w.st = "lock"
    BY <2>1, Moved DEF Steps
  <2>3. \A u \in tasks : u.n \in Nodes /\ (u.n = t.n => u = t)
    BY DEF TaskTypes, Tasks, OneEach
  <2>run. Running'
    BY <2>1 DEF Running
  <2>p. OneEach'
    BY <2>a, <2>1, <2>2, <2>3 DEF OneEach, Asking, Filled
  <2>q. Asking'
    BY <2>a, <2>1, <2>2, <2>3 DEF Asking, OneEach
  <2>r. Filled'
    BY <2>a, <2>1, <2>2, <2>3 DEF Filled, Asking, OneEach
  <2> QED
    BY <2>p, <2>q, <2>r, <2>run
<1>10. ASSUME NEW t \in tasks, TaskPush(t) PROVE (OneEach /\ Asking /\ Filled /\ Running)'
  <2>1. /\ Goes(t, "copy") /\ t.st = "lock"
        /\ conn' = conn \cup {t.n} /\ UNCHANGED <<e2, at, ev, addrs, reg, nst, assoc, starts>>
    BY <1>10 DEF TaskPush, At
  <2>2. /\ \A u \in tasks' :
             (u \in tasks /\ u # t) \/ (u.n = t.n /\ u.l = t.l /\ u.st = "copy")
        /\ \A u \in tasks : u # t => u \in tasks'
        /\ \E u \in tasks' : u.n = t.n /\ u.l = t.l /\ u.st = "copy"
        /\ \A u, v \in tasks' : u.n = t.n /\ u.st = "copy" /\ v.n = t.n /\ v.st = "copy" =>
             u = v \/ \E w \in tasks : w # t /\ w.n = t.n /\ w.st = "copy"
    BY <2>1, Moved DEF Steps
  <2>3. \A u \in tasks : u.n \in Nodes /\ (u.n = t.n => u = t)
    BY DEF TaskTypes, Tasks, OneEach
  <2>run. Running'
    BY <1>10 DEF TaskPush, At, Running
  <2>p. OneEach'
    BY <2>1, <2>2, <2>3 DEF OneEach, Asking, Filled
  <2>q. Asking'
    BY <2>1, <2>2, <2>3 DEF Asking, OneEach
  <2>r. Filled'
    BY <2>1, <2>2, <2>3 DEF Filled, Asking, OneEach
  <2> QED
    BY <2>p, <2>q, <2>r, <2>run
<1>11. ASSUME NEW t \in tasks, TaskCopy(t) PROVE (OneEach /\ Asking /\ Filled /\ Running)'
  <2>1. /\ Goes(t, "tell") /\ t.st = "copy"
        /\ UNCHANGED <<e2, at, ev, addrs, reg, conn, nst, assoc, starts>>
    BY <1>11 DEF TaskCopy, At
  <2>2. /\ \A u \in tasks' :
             (u \in tasks /\ u # t) \/ (u.n = t.n /\ u.l = t.l /\ u.st = "tell")
        /\ \A u \in tasks : u # t => u \in tasks'
        /\ \E u \in tasks' : u.n = t.n /\ u.l = t.l /\ u.st = "tell"
        /\ \A u, v \in tasks' : u.n = t.n /\ u.st = "tell" /\ v.n = t.n /\ v.st = "tell" =>
             u = v \/ \E w \in tasks : w # t /\ w.n = t.n /\ w.st = "tell"
    BY <2>1, Moved DEF Steps
  <2>3. \A u \in tasks : u.n \in Nodes /\ (u.n = t.n => u = t)
    BY DEF TaskTypes, Tasks, OneEach
  <2>run. Running'
    BY <1>11 DEF TaskCopy, At, Running
  <2>p. OneEach'
    BY <2>1, <2>2, <2>3 DEF OneEach, Asking, Filled
  <2>q. Asking'
    BY <2>1, <2>2, <2>3 DEF Asking, OneEach
  <2>r. Filled'
    BY <2>1, <2>2, <2>3 DEF Filled, Asking, OneEach
  <2> QED
    BY <2>p, <2>q, <2>r, <2>run
<1>12. ASSUME NEW t \in tasks, TaskTell(t) PROVE (OneEach /\ Asking /\ Filled /\ Running)'
  <2>1. told < Len(xaddrs)
    BY <1>12 DEF TaskTell, At, ToXApp, IdsGiven, TaskTypes, IAppTypes
  <2>2. UNCHANGED <<e2, at, ev, addrs, reg, conn, tasks, nst, assoc, abort>>
    BY <1>12, <2>1 DEF TaskTell, At, ToXApp
  <2>run. Running'
    BY <2>2 DEF Running
  <2>p. OneEach'
    BY <2>2 DEF OneEach, Asking, Filled
  <2>q. Asking'
    BY <2>2 DEF Asking, OneEach
  <2>r. Filled'
    BY <2>2 DEF Filled, Asking, OneEach
  <2> QED
    BY <2>p, <2>q, <2>r, <2>run
<1>13. ASSUME NEW t \in tasks, TaskUnlock(t) PROVE (OneEach /\ Asking /\ Filled /\ Running)'
  <2>1. /\ Goes(t, "send") /\ t.st = "tell"
        /\ UNCHANGED <<e2, at, ev, addrs, reg, conn, nst, assoc, starts>>
    BY <1>13 DEF TaskUnlock, At
  <2>2. /\ \A u \in tasks' :
             (u \in tasks /\ u # t) \/ (u.n = t.n /\ u.l = t.l /\ u.st = "send")
        /\ \A u \in tasks : u # t => u \in tasks'
        /\ \E u \in tasks' : u.n = t.n /\ u.l = t.l /\ u.st = "send"
        /\ \A u, v \in tasks' : u.n = t.n /\ u.st = "send" /\ v.n = t.n /\ v.st = "send" =>
             u = v \/ \E w \in tasks : w # t /\ w.n = t.n /\ w.st = "send"
    BY <2>1, Moved DEF Steps
  <2>3. \A u \in tasks : u.n \in Nodes /\ (u.n = t.n => u = t)
    BY DEF TaskTypes, Tasks, OneEach
  <2>run. Running'
    BY <1>13 DEF TaskUnlock, At, Running
  <2>p. OneEach'
    BY <2>1, <2>2, <2>3 DEF OneEach, Asking, Filled
  <2>q. Asking'
    BY <2>1, <2>2, <2>3 DEF Asking, OneEach
  <2>r. Filled'
    BY <2>1, <2>2, <2>3 DEF Filled, Asking, OneEach
  <2> QED
    BY <2>p, <2>q, <2>r, <2>run
<1>14. ASSUME NEW t \in tasks, TaskSend(t) PROVE (OneEach /\ Asking /\ Filled /\ Running)'
  <2>1. /\ tasks' = tasks \ {t} /\ t.st = "send" /\ t \in tasks
        /\ UNCHANGED <<e2, at, ev, addrs, reg, conn, assoc, starts>>
    BY <1>14 DEF TaskSend, At
  <2>2. nst[t.n] = "asked" /\ assoc[t.n] = t.l /\ t.n \in Nodes
    BY DEF Asking, TaskTypes, Tasks
  <2>3. nst' = [nst EXCEPT ![t.n] = "up"]
    BY <1>14, <2>2 DEF TaskSend, At
  <2>4. nst'[t.n] = "up" /\ \A o \in Nodes \ {t.n} : nst'[o] = nst[o]
    BY <2>2, <2>3 DEF NodeTypes
  <2>5. \A u \in tasks : u.n \in Nodes /\ (u.n = t.n => u = t)
    BY DEF TaskTypes, Tasks, OneEach
  <2>run. Running'
    BY <1>14 DEF TaskSend, At, Running
  <2>p. OneEach'
    BY <2>1, <2>2, <2>4, <2>5 DEF OneEach, Asking, Filled
  <2>q. Asking'
    BY <2>1, <2>2, <2>4, <2>5 DEF Asking, OneEach
  <2>r. Filled'
    BY <2>1, <2>2, <2>4, <2>5 DEF Filled, Asking, OneEach
  <2> QED
    BY <2>p, <2>q, <2>r, <2>run
<1>15. CASE IAppRegister
  <2>1. answer.id \notin DOMAIN xaddrs
    BY <1>15 DEF IAppRegister, IdsGiven, IAppTypes
  <2>2. UNCHANGED <<e2, at, ev, addrs, reg, conn, tasks, nst, assoc, abort>>
    BY <1>15, <2>1 DEF IAppRegister
  <2>run. Running'
    BY <2>2 DEF Running
  <2>p. OneEach'
    BY <2>2 DEF OneEach, Asking, Filled
  <2>q. Asking'
    BY <2>2 DEF Asking, OneEach
  <2>r. Filled'
    BY <2>2 DEF Filled, Asking, OneEach
  <2> QED
    BY <2>p, <2>q, <2>r, <2>run
<1>16. CASE \/ IAppSetup \/ IAppAnswer
            \/ \E x \in XApps : XAppAsks(x) \/ XAppSetup(x) \/ XAppUpdate(x) \/
                 XAppDies(x)
            \/ UNCHANGED vars
  <2>2. UNCHANGED <<e2, at, ev, addrs, reg, conn, tasks, nst, assoc, abort>>
    BY <1>16 DEF vars, IAppSetup, IAppAnswer, ToXApp, XAppAsks, XAppSetup, Receives,
      XAppUpdate, XAppDies
  <2>run. Running'
    BY <2>2 DEF Running
  <2>p. OneEach'
    BY <2>2 DEF OneEach, Asking, Filled
  <2>q. Asking'
    BY <2>2 DEF Asking, OneEach
  <2>r. Filled'
    BY <2>2 DEF Filled, Asking, OneEach
  <2> QED
    BY <2>p, <2>q, <2>r, <2>run
<1>17. CASE LoopRound
  <2>1. UNCHANGED abort
    <3>1. CASE LoopTell
      <4>1. ltold < lcount
        BY <3>1 DEF LoopTell
      <4> QED
        BY <3>1, <4>1, LoopSends DEF IdsGiven, RoundTypes, IAppTypes
    <3>2. CASE LoopQuiet
      BY <3>2, QuietFrame
    <3> QED
      BY <1>17, <3>1, <3>2 DEF LoopRound
  <2>2. /\ UNCHANGED <<e2, ev, addrs, reg, conn, tasks, nst, assoc>>
        /\ at \notin {"erase", "forget"} /\ at' \notin {"erase", "forget"}
    BY <1>17, RoundFrame
  <2>run. Running'
    BY <2>1 DEF Running
  <2>p. OneEach'
    BY <2>2 DEF OneEach, Asking, Filled
  <2>q. Asking'
    BY <2>2 DEF Asking, OneEach
  <2>r. Filled'
    BY <2>2 DEF Filled, Asking, OneEach
  <2> QED
    BY <2>p, <2>q, <2>r, <2>run
<1> QED
  BY <1>1, <1>2, <1>3, <1>4, <1>5, <1>6, <1>7, <1>8, <1>9, <1>10, <1>11, <1>12, <1>13,
     <1>14, <1>15, <1>16, <1>17
  DEF Next, Loop, Task, IApp, XApp, LoopRound, LoopQuiet

-----------------------------------------------------------------------------
(* Announcing *)

\* Whoever takes the mutex finds no task that tells.
LEMMA NobodyTells ==
  ASSUME TaskTypes, Holding, holder = NoTask
  PROVE  \A t \in tasks : ~Telling(t)
<1> SUFFICES ASSUME NEW t \in tasks, Telling(t) PROVE FALSE
  OBVIOUS
<1>1. Id(t) = NoTask /\ t.l \in Nat /\ t.l >= 1
  BY NodeBoundsAssumption DEF Holding, TaskTypes, Tasks
<1>2. Id(t).l = NoTask.l
  BY <1>1
<1> QED
  BY <1>1, <1>2 DEF Id, NoTask

\* Every step keeps Holding.
LEMMA HoldingStep ==
  ASSUME TaskTypes, Holding, [Next]_vars
  PROVE  Holding'
<1> USE DEF Holding, Telling
<1>1. ASSUME NEW t \in tasks, TaskPush(t) PROVE Holding'
  <2>1. \A u \in tasks : ~Telling(u)
    BY <1>1, NobodyTells DEF TaskPush
  <2>2. Goes(t, "copy") /\ holder' = Id(t)
    BY <1>1 DEF TaskPush
  <2>3. tasks' = (tasks \ {t}) \cup {[n |-> t.n, l |-> t.l, k |-> t.k, st |-> "copy"]}
    BY <2>2 DEF Goes
  <2> QED
    BY <2>1, <2>2, <2>3 DEF Id
<1>2. ASSUME NEW t \in tasks, TaskCopy(t) PROVE Holding'
  <2>1. t.st = "copy" /\ holder' = holder /\ holder = Id(t)
    BY <1>2 DEF TaskCopy, At
  <2>2. tasks' = (tasks \ {t}) \cup {[n |-> t.n, l |-> t.l, k |-> t.k, st |-> "tell"]}
    BY <1>2 DEF TaskCopy, Goes
  <2> QED
    BY <2>1, <2>2 DEF Id
<1>3. ASSUME NEW t \in tasks, TaskUnlock(t) PROVE Holding'
  <2>1. t.st = "tell"
    BY <1>3 DEF TaskUnlock, At
  <2>2. tasks' = (tasks \ {t}) \cup {[n |-> t.n, l |-> t.l, k |-> t.k, st |-> "send"]}
    BY <1>3 DEF TaskUnlock, Goes
  <2> QED
    BY <2>1, <2>2
<1>4. ASSUME NEW t \in tasks, TaskAddress(t) \/ TaskAdd(t) \/ TaskTell(t) \/ TaskSend(t)
      PROVE  Holding'
  <2>1. holder' = holder
    BY <1>4 DEF TaskAddress, TaskAdd, TaskTell, TaskSend
  <2>2. \A u \in tasks' : u \in tasks \/ u.st \in {"add", "lock"}
    BY <1>4 DEF TaskAddress, TaskAdd, TaskTell, TaskSend, Goes
  <2> QED
    BY <2>1, <2>2 DEF Id
<1>5. CASE LoopSetup
  <2>1. holder' = holder /\ \A u \in tasks' : u \in tasks \/ u.st = "address"
    BY <1>5 DEF LoopSetup
  <2> QED
    BY <2>1 DEF Id
<1>6. ASSUME UNCHANGED <<tasks, holder>> PROVE Holding'
  BY <1>6 DEF Id
<1>7. UNCHANGED vars => UNCHANGED <<tasks, holder>>
  BY DEF vars, taskVars
<1>8. LoopShutdown \/ LoopErase \/ LoopForget \/ LoopRound \/ IApp => UNCHANGED <<tasks, holder>>
  BY RoundFrame
    DEF LoopShutdown, LoopErase, LoopForget, IApp, IAppSetup, IAppRegister, IAppAnswer, taskVars
<1>9. ASSUME NEW x \in XApps, XAppAsks(x) \/ XApp(x) \/ XAppDies(x)
      PROVE  UNCHANGED <<tasks, holder>>
  BY <1>9 DEF XAppAsks, XApp, XAppSetup, XAppUpdate, XAppDies, taskVars
<1>10. ASSUME NEW n \in Nodes, NodeStart(n) \/ NodeRepeats(n) \/ NodeLeaves(n)
       PROVE  UNCHANGED <<tasks, holder>>
  BY <1>10 DEF NodeStart, NodeRepeats, NodeLeaves, taskVars
<1> QED
  BY <1>1, <1>2, <1>3, <1>4, <1>5, <1>6, <1>7, <1>8, <1>9, <1>10
   DEF Next, Loop, LoopRound, LoopQuiet, Task

\* A task that has pushed its node had done so before, or pushes it now.
LEMMA PushedBefore ==
  ASSUME TaskTypes, [Next]_vars, NEW u \in tasks', Pushed(u)
  PROVE  \/ \E w \in tasks : Pushed(w) /\ w.n = u.n /\ w.l = u.l
         \/ \E t \in tasks : TaskPush(t) /\ t.n = u.n /\ t.l = u.l
<1> USE DEF Pushed
<1>1. ASSUME NEW t \in tasks, TaskPush(t)
      PROVE  (\E w \in tasks : Pushed(w) /\ w.n = u.n /\ w.l = u.l)
               \/ (TaskPush(t) /\ t.n = u.n /\ t.l = u.l)
  <2>1. u \in tasks \/ u = [n |-> t.n, l |-> t.l, k |-> t.k, st |-> "copy"]
    BY <1>1 DEF TaskPush, Goes
  <2> QED
    BY <1>1, <2>1
<1>2. ASSUME NEW t \in tasks, TaskCopy(t) \/ TaskUnlock(t)
      PROVE  \E w \in tasks : Pushed(w) /\ w.n = u.n /\ w.l = u.l
  <2>1. Pushed(t)
    BY <1>2 DEF TaskCopy, TaskUnlock, At
  <2>2. u \in tasks \/ (u.n = t.n /\ u.l = t.l)
    BY <1>2 DEF TaskCopy, TaskUnlock, Goes
  <2> QED
    BY <2>1, <2>2
<1>3. ASSUME NEW t \in tasks, TaskAddress(t) \/ TaskAdd(t) \/ TaskTell(t) \/ TaskSend(t)
      PROVE  u \in tasks
  BY <1>3 DEF TaskAddress, TaskAdd, TaskTell, TaskSend, Goes
<1>4. CASE LoopSetup
  BY <1>4 DEF LoopSetup
<1>5. UNCHANGED vars => UNCHANGED tasks
  BY DEF vars, taskVars
<1>6. LoopShutdown \/ LoopErase \/ LoopForget \/ LoopRound \/ IApp => UNCHANGED tasks
  BY RoundFrame
    DEF LoopShutdown, LoopErase, LoopForget, IApp, IAppSetup, IAppRegister, IAppAnswer, taskVars
<1>7. ASSUME NEW x \in XApps, XAppAsks(x) \/ XApp(x) \/ XAppDies(x) PROVE UNCHANGED tasks
  BY <1>7 DEF XAppAsks, XApp, XAppSetup, XAppUpdate, XAppDies, taskVars
<1>8. ASSUME NEW n \in Nodes, NodeStart(n) \/ NodeRepeats(n) \/ NodeLeaves(n)
      PROVE  UNCHANGED tasks
  BY <1>8 DEF NodeStart, NodeRepeats, NodeLeaves, taskVars
<1> QED
  BY <1>1, <1>2, <1>3, <1>4, <1>5, <1>6, <1>7, <1>8
   DEF Next, Loop, LoopRound, LoopQuiet, Task

\* A node starts a new association, closes the present one or is answered.
LEMMA NodeMoves ==
  ASSUME NodeTypes, [Next]_vars, NEW n \in Nodes
  PROVE  \/ nst'[n] = nst[n] /\ assoc'[n] = assoc[n]
         \/ nst'[n] = "asked" /\ assoc'[n] = starts + 1
         \/ nst'[n] = "off"
         \/ /\ nst[n] = "asked" /\ nst'[n] = "up" /\ assoc'[n] = assoc[n]
            /\ \E t \in tasks : TaskSend(t) /\ t.n = n /\ t.l = assoc[n]
<1>1. ASSUME NEW m \in Nodes, NodeStart(m)
      PROVE  \/ nst'[n] = nst[n] /\ assoc'[n] = assoc[n]
             \/ nst'[n] = "asked" /\ assoc'[n] = starts + 1
  BY <1>1 DEF NodeStart, NodeTypes
<1>2. ASSUME NEW m \in Nodes, NodeLeaves(m)
      PROVE  \/ nst'[n] = nst[n] /\ assoc'[n] = assoc[n]
             \/ nst'[n] = "off"
  BY <1>2 DEF NodeLeaves, NodeTypes
<1>3. ASSUME NEW t \in tasks, TaskSend(t)
      PROVE  \/ nst'[n] = nst[n] /\ assoc'[n] = assoc[n]
             \/ /\ nst[n] = "asked" /\ nst'[n] = "up" /\ assoc'[n] = assoc[n]
                /\ TaskSend(t) /\ t.n = n /\ t.l = assoc[n]
  BY <1>3 DEF TaskSend, NodeTypes
<1>4. UNCHANGED vars => UNCHANGED <<nst, assoc>>
  BY DEF vars, nodeVars
<1>5. Loop \/ IApp => UNCHANGED <<nst, assoc>>
  BY RoundFrame DEF Loop, LoopRound, LoopQuiet, LoopSetup, LoopShutdown, LoopErase, LoopForget,
     IApp, IAppSetup, IAppRegister, IAppAnswer, nodeVars
<1>6. ASSUME NEW x \in XApps, XAppAsks(x) \/ XApp(x) \/ XAppDies(x) PROVE UNCHANGED <<nst, assoc>>
  BY <1>6 DEF XAppAsks, XApp, XAppSetup, XAppUpdate, XAppDies, nodeVars
<1>7. ASSUME NEW m \in Nodes, NodeRepeats(m) PROVE UNCHANGED <<nst, assoc>>
  BY <1>7 DEF NodeRepeats
<1>8. ASSUME NEW t \in tasks, TaskAddress(t) \/ TaskAdd(t) \/ TaskPush(t) \/ TaskCopy(t)
                                \/ TaskTell(t) \/ TaskUnlock(t)
      PROVE  UNCHANGED <<nst, assoc>>
  BY <1>8 DEF TaskAddress, TaskAdd, TaskPush, TaskCopy, TaskTell, TaskUnlock, nodeVars
<1> QED
  BY <1>1, <1>2, <1>3, <1>4, <1>5, <1>6, <1>7, <1>8 DEF Next, Task

\* A node that has been pushed is registered.
LEMMA ArrivedIn ==
  ASSUME InOrder, Filling, NEW n \in Nodes, Arrived(n)
  PROVE  n \in conn /\ n \in reg
<1>1. n \in conn
  BY DEF InOrder, Arrived, Current
<1> QED
  BY <1>1 DEF Filling

\* A node that has been pushed had been before, or is pushed now.
LEMMA ArrivedBefore ==
  ASSUME TaskTypes, NodeTypes, InOrder, [Next]_vars, NEW n \in Nodes, Arrived(n)'
  PROVE  \/ Arrived(n) /\ assoc'[n] = assoc[n]
         \/ \E t \in tasks : TaskPush(t) /\ t.n = n /\ t.l = assoc[n] /\ nst[n] = "asked"
<1> USE DEF Arrived
<1>1. CASE nst'[n] = nst[n] /\ assoc'[n] = assoc[n]
  <2>1. CASE nst[n] = "up"
    BY <1>1, <2>1
  <2>2. CASE nst[n] = "asked"
    <3>1. PICK u \in tasks' : Pushed(u) /\ u.n = n /\ u.l = assoc[n]
      BY <1>1, <2>2 DEF Current, Pushed
    <3> QED
      BY <1>1, <2>2, <3>1, PushedBefore DEF Current
  <2> QED
    BY <1>1, <2>1, <2>2
<1>2. CASE nst'[n] = "asked" /\ assoc'[n] = starts + 1
  <2>1. PICK u \in tasks' : Pushed(u) /\ u.n = n /\ u.l = starts + 1
    BY <1>2 DEF Current, Pushed
  <2>2. \E w \in tasks : w.l = u.l
    BY <2>1, PushedBefore
  <2>3. \A w \in tasks : w.l \in Nat /\ w.l <= starts
    BY DEF InOrder, TaskTypes, Tasks
  <2> QED
    BY <2>1, <2>2, <2>3 DEF NodeTypes
<1>3. CASE /\ nst[n] = "asked" /\ nst'[n] = "up" /\ assoc'[n] = assoc[n]
           /\ \E t \in tasks : TaskSend(t) /\ t.n = n /\ t.l = assoc[n]
  BY <1>3 DEF TaskSend, At, Current, Pushed
<1> QED
  BY <1>1, <1>2, <1>3, NodeMoves

\* Every step keeps PushedOnce: a task pushes its node only if the registry did not have it.
LEMMA PushedOnceStep ==
  ASSUME TaskTypes, NodeTypes, InOrder, Filling, PushedOnce, [Next]_vars
  PROVE  PushedOnce'
<1> SUFFICES ASSUME NEW n \in Nodes
             PROVE  /\ nst'[n] = "up" => \A t \in tasks' : ~Current(t, n)'
                    /\ nst'[n] = "asked" =>
                          \A t, u \in tasks' : Current(t, n)' /\ Current(u, n)' => t = u
  BY DEF PushedOnce
<1> DEFINE Once == /\ nst'[n] = "up" => \A t \in tasks' : ~Current(t, n)'
                   /\ nst'[n] = "asked" =>
                         \A t, u \in tasks' : Current(t, n)' /\ Current(u, n)' => t = u
<1>0. /\ nst[n] = "up" => \A t \in tasks : ~Current(t, n)
      /\ nst[n] = "asked" => \A t, u \in tasks : Current(t, n) /\ Current(u, n) => t = u
  BY DEF PushedOnce
<1>1. CASE nst'[n] = nst[n] /\ assoc'[n] = assoc[n]
  <2>0. \A u : Current(u, n)' <=> Current(u, n)
    BY <1>1 DEF Current, Pushed
  <2>1. ASSUME NEW t \in tasks, TaskPush(t) PROVE Once
    <3> DEFINE r == [n |-> t.n, l |-> t.l, k |-> t.k, st |-> "copy"]
    <3>1. tasks' = (tasks \ {t}) \cup {r} /\ t.st = "lock"
      BY <2>1 DEF TaskPush, Goes, At
    <3>2. r.n = t.n /\ r.l = t.l
      OBVIOUS
    <3>3. ASSUME Current(r, n), nst[n] \in {"up", "asked"}
          PROVE  \A u \in tasks : ~Current(u, n) /\ nst[n] = "asked"
      <4>1. t.n = n /\ t.n \notin conn
        BY <3>1, <3>2, <3>3 DEF Current, Filling
      <4> QED
        BY <3>3, <4>1 DEF Current, InOrder
    <3> HIDE DEF r
    <3> QED
      BY <1>0, <1>1, <2>0, <3>1, <3>3
  <2>2. ASSUME NEW t \in tasks, TaskCopy(t) \/ TaskUnlock(t) PROVE Once
    <3>1. PICK st : tasks' = (tasks \ {t}) \cup {[n |-> t.n, l |-> t.l, k |-> t.k, st |-> st]}
      BY <2>2 DEF TaskCopy, TaskUnlock, Goes
    <3> DEFINE r == [n |-> t.n, l |-> t.l, k |-> t.k, st |-> st]
    <3>2. Current(r, n) => Current(t, n)
      BY <2>2 DEF TaskCopy, TaskUnlock, At, Current, Pushed
    <3>3. tasks' = (tasks \ {t}) \cup {r}
      BY <3>1
    <3> HIDE DEF r
    <3> QED
      BY <1>0, <1>1, <2>0, <3>2, <3>3
  <2>3. ASSUME \A u \in tasks' : u \in tasks \/ ~Pushed(u) PROVE Once
    BY <1>0, <1>1, <2>0, <2>3 DEF Current
  <2>4. ASSUME NEW t \in tasks, TaskAddress(t) \/ TaskAdd(t) \/ TaskTell(t) \/ TaskSend(t)
        PROVE  \A u \in tasks' : u \in tasks \/ ~Pushed(u)
    BY <2>4 DEF TaskAddress, TaskAdd, TaskTell, TaskSend, Goes, Pushed
  <2>5. LoopSetup => \A u \in tasks' : u \in tasks \/ ~Pushed(u)
    BY DEF LoopSetup, Pushed
  <2>6. UNCHANGED vars => UNCHANGED tasks
    BY DEF vars, taskVars
  <2>7. LoopShutdown \/ LoopErase \/ LoopForget \/ LoopRound \/ IApp => UNCHANGED tasks
    BY RoundFrame DEF LoopShutdown, LoopErase, LoopForget, IApp, IAppSetup, IAppRegister,
      IAppAnswer, taskVars
  <2>8. ASSUME NEW x \in XApps, XAppAsks(x) \/ XApp(x) \/ XAppDies(x) PROVE UNCHANGED tasks
    BY <2>8 DEF XAppAsks, XApp, XAppSetup, XAppUpdate, XAppDies, taskVars
  <2>9. ASSUME NEW m \in Nodes, NodeStart(m) \/ NodeRepeats(m) \/ NodeLeaves(m)
        PROVE  UNCHANGED tasks
    BY <2>9 DEF NodeStart, NodeRepeats, NodeLeaves, taskVars
  <2> QED
    BY <2>1, <2>2, <2>3, <2>4, <2>5, <2>6, <2>7, <2>8, <2>9
     DEF Next, Loop, LoopRound, LoopQuiet, Task
<1>2. CASE nst'[n] = "asked" /\ assoc'[n] = starts + 1
  <2>1. \A w \in tasks : w.l \in Nat /\ w.l <= starts
    BY DEF InOrder, TaskTypes, Tasks
  <2>2. ASSUME NEW u \in tasks', Pushed(u) PROVE u.l # starts + 1
    <3>1. \E w \in tasks : w.l = u.l
      BY <2>2, PushedBefore
    <3> QED
      BY <2>1, <3>1 DEF NodeTypes
  <2> QED
    BY <1>2, <2>2 DEF Current, Pushed
<1>3. CASE /\ nst[n] = "asked" /\ nst'[n] = "up" /\ assoc'[n] = assoc[n]
           /\ \E t \in tasks : TaskSend(t) /\ t.n = n /\ t.l = assoc[n]
  <2>1. PICK t \in tasks : TaskSend(t) /\ t.n = n /\ t.l = assoc[n]
    BY <1>3
  <2>2. Current(t, n) /\ tasks' = tasks \ {t}
    BY <2>1 DEF TaskSend, At, Current, Pushed
  <2> QED
    BY <1>0, <1>3, <2>2 DEF Current, Pushed
<1>4. CASE nst'[n] = "off"
  BY <1>4
<1> QED
  BY <1>1, <1>2, <1>3, <1>4, NodeMoves

\* Every step keeps CopyWhole: a node registered after the copy is late.
LEMMA CopyWholeStep ==
  ASSUME CopyWhole, [Next]_vars
  PROVE  CopyWhole'
<1> USE DEF CopyWhole
<1>1. ASSUME NEW t \in tasks, TaskAdd(t) PROVE CopyWhole'
  <2>1. UNCHANGED <<at, llist>>
    BY <1>1 DEF TaskAdd, ricVars, loopVars
  <2>2. CASE t.n \in reg
    <3>1. UNCHANGED <<reg, late>>
      BY <1>1, <2>2 DEF TaskAdd
    <3> QED
      BY <2>1, <3>1
  <2>3. CASE t.n \notin reg
    <3>1. reg' = reg \cup {t.n} /\ late' = IF at = "tell" THEN late \cup {t.n} ELSE late
      BY <1>1, <2>3 DEF TaskAdd
    <3> QED
      BY <2>1, <3>1
  <2> QED
    BY <2>2, <2>3
<1>2. CASE LoopCopy
  BY <1>2 DEF LoopCopy
<1>3. LoopTell => UNCHANGED <<at, reg, llist, late>>
  BY DEF LoopTell
<1>4. LoopSetup \/ LoopShutdown \/ LoopErase \/ LoopForget \/ LoopCount \/ LoopTold => at' # "tell"
  BY DEF LoopSetup, LoopShutdown, LoopErase, LoopForget, LoopCount, LoopTold
<1>5. ASSUME UNCHANGED <<at, reg, llist, late>> PROVE CopyWhole'
  BY <1>5
<1>6. IApp => UNCHANGED <<at, reg, llist, late>>
  BY DEF IApp, IAppSetup, IAppRegister, IAppAnswer, ricVars, loopVars, histVars
<1>7. UNCHANGED vars => UNCHANGED <<at, reg, llist, late>>
  BY DEF vars, ricVars, loopVars, histVars
<1>8. ASSUME NEW x \in XApps, XAppAsks(x) \/ XApp(x) \/ XAppDies(x)
      PROVE  UNCHANGED <<at, reg, llist, late>>
  BY <1>8 DEF XAppAsks, XApp, XAppSetup, XAppUpdate, XAppDies, ricVars, loopVars, histVars
<1>9. ASSUME NEW n \in Nodes, NodeStart(n) \/ NodeRepeats(n) \/ NodeLeaves(n)
      PROVE  UNCHANGED <<at, reg, llist, late>>
  BY <1>9 DEF NodeStart, NodeRepeats, NodeLeaves, loopVars, histVars
<1>10. ASSUME NEW t \in tasks, \/ TaskAddress(t) \/ TaskPush(t) \/ TaskCopy(t)
                               \/ TaskTell(t) \/ TaskUnlock(t) \/ TaskSend(t)
       PROVE  UNCHANGED <<at, reg, llist, late>>
  BY <1>10 DEF TaskAddress, TaskPush, TaskCopy, TaskTell, TaskUnlock, TaskSend, ricVars,
     loopVars, histVars
<1> QED
  BY <1>1, <1>2, <1>3, <1>4, <1>5, <1>6, <1>7, <1>8, <1>9, <1>10 DEF Next, Loop, Task

\* Every step keeps Listed: the registry is copied while nobody else can push a node.
LEMMA ListedStep ==
  ASSUME TaskTypes, NodeTypes, InOrder, Filling, Holding, Listed, [Next]_vars
  PROVE  Listed'
<1> SUFFICES ASSUME NEW u \in tasks', u.st = "tell", count' > 0, NEW n \in Nodes, Arrived(n)'
             PROVE  n \in list'
  BY DEF Listed
<1>1. ASSUME NEW t \in tasks, TaskCopy(t) PROVE n \in list'
  <2>1. \A p \in tasks : ~TaskPush(p)
    BY <1>1, NobodyTells DEF TaskCopy, At, Telling, TaskPush
  <2>2. n \in reg
    BY <2>1, ArrivedBefore, ArrivedIn
  <2> QED
    BY <1>1, <2>2 DEF TaskCopy
<1>2. ASSUME NEW t \in tasks, TaskPush(t) PROVE FALSE
  <2>1. \A p \in tasks : ~Telling(p)
    BY <1>2, NobodyTells DEF TaskPush
  <2>2. u \in tasks \/ u.st = "copy"
    BY <1>2 DEF TaskPush, Goes
  <2> QED
    BY <2>1, <2>2 DEF Telling
<1>3. ASSUME NEW t \in tasks, TaskUnlock(t) PROVE FALSE
  BY <1>3 DEF TaskUnlock
<1>4. ASSUME u \in tasks, UNCHANGED <<count, list>> PROVE n \in list'
  <2>1. \A p \in tasks : ~TaskPush(p)
    BY <1>2
  <2>2. Arrived(n)
    BY <2>1, ArrivedBefore
  <2> QED
    BY <1>4, <2>2 DEF Listed
<1>5. ASSUME NEW t \in tasks, TaskAddress(t) \/ TaskAdd(t) \/ TaskTell(t) \/ TaskSend(t)
      PROVE  u \in tasks /\ UNCHANGED <<count, list>>
  BY <1>5 DEF TaskAddress, TaskAdd, TaskTell, TaskSend, Goes
<1>6. LoopSetup => u \in tasks /\ UNCHANGED <<count, list>>
  BY DEF LoopSetup
<1>7. UNCHANGED vars => UNCHANGED <<tasks, count, list>>
  BY DEF vars, taskVars
<1>8. LoopShutdown \/ LoopErase \/ LoopForget \/ LoopRound \/ IApp => UNCHANGED <<tasks, count, list>>
  BY RoundFrame
    DEF LoopShutdown, LoopErase, LoopForget, IApp, IAppSetup, IAppRegister, IAppAnswer, taskVars
<1>9. ASSUME NEW x \in XApps, XAppAsks(x) \/ XApp(x) \/ XAppDies(x)
      PROVE  UNCHANGED <<tasks, count, list>>
  BY <1>9 DEF XAppAsks, XApp, XAppSetup, XAppUpdate, XAppDies, taskVars
<1>10. ASSUME NEW m \in Nodes, NodeStart(m) \/ NodeRepeats(m) \/ NodeLeaves(m)
       PROVE  UNCHANGED <<tasks, count, list>>
  BY <1>10 DEF NodeStart, NodeRepeats, NodeLeaves, taskVars
<1> QED
  BY <1>1, <1>2, <1>3, <1>4, <1>5, <1>6, <1>7, <1>8, <1>9, <1>10
   DEF Next, Loop, LoopRound, LoopQuiet, Task

\* Every step keeps HasId: the answer and every update carry an id.
LEMMA HasIdStep ==
  ASSUME InboxTypes, XAppTypes, HasId, [Next]_vars
  PROVE  HasId'
<1> SUFFICES ASSUME NEW x \in XApps, xst'[x] = "connected" PROVE xid'[x] # 0
  BY DEF HasId
<1>1. ASSUME NEW y \in XApps, XApp(y) PROVE xid'[x] # 0
  <2>0. Receives(y, "setup") \/ Receives(y, "update")
    BY <1>1 DEF XApp, XAppSetup, XAppUpdate
  <2>1. Head(inbox[y]) \in XMessages
    BY <2>0, Read
  <2>2. Head(inbox[y]).id # 0
    BY <2>1 DEF XMessages
  <2>3. CASE XAppSetup(y)
    BY <2>2, <2>3 DEF XAppSetup, HasId, XAppTypes
  <2>4. CASE XAppUpdate(y)
    BY <2>2, <2>4 DEF XAppUpdate, HasId, XAppTypes
  <2> QED
    BY <1>1, <2>3, <2>4 DEF XApp
<1>2. ASSUME NEW y \in XApps, XAppAsks(y) \/ XAppDies(y) PROVE xid'[x] # 0
  BY <1>2 DEF XAppAsks, XAppDies, HasId, XAppTypes
<1>3. ASSUME UNCHANGED <<xst, xid>> PROVE xid'[x] # 0
  BY <1>3 DEF HasId
<1>4. UNCHANGED vars => UNCHANGED <<xst, xid>>
  BY DEF vars, xappVars
<1>5. Loop \/ IApp => UNCHANGED <<xst, xid>>
  BY RoundFrame DEF Loop, LoopRound, LoopQuiet, LoopSetup, LoopShutdown, LoopErase, LoopForget,
     IApp, IAppSetup, IAppRegister, IAppAnswer, xappVars
<1>6. ASSUME NEW n \in Nodes, NodeStart(n) \/ NodeRepeats(n) \/ NodeLeaves(n)
      PROVE  UNCHANGED <<xst, xid>>
  BY <1>6 DEF NodeStart, NodeRepeats, NodeLeaves, xappVars
<1>7. ASSUME NEW t \in tasks, Task(t) PROVE UNCHANGED <<xst, xid>>
  BY <1>7 DEF Task, TaskAddress, TaskAdd, TaskPush, TaskCopy, TaskTell, TaskUnlock, TaskSend,
    xappVars
<1> QED
  BY <1>1, <1>2, <1>3, <1>4, <1>5, <1>6, <1>7 DEF Next

\* An update that names n is the last word on it; an answer changes nothing of it.
LEMMA KnowsAfterSend ==
  ASSUME InboxTypes, NEW x \in XApps, NEW n \in Nodes, NEW m \in XMessages,
         inbox'[x] = Append(inbox[x], m), xnodes'[x] = xnodes[x]
  PROVE  /\ m.type = "update" /\ n \in m.list => WillKnow(x, n)'
         /\ m.type = "setup" /\ WillKnow(x, n) => WillKnow(x, n)'
<1> DEFINE q == inbox[x]
           r == Append(q, m)
           new == Len(q) + 1
<1>1. /\ new \in Nat /\ new \in DOMAIN r /\ r[new] = m
      /\ \A i \in DOMAIN q : i \in Nat /\ i < new /\ i \in DOMAIN r /\ r[i] = q[i]
      /\ \A i \in DOMAIN r : i \in DOMAIN q \/ i = new
  <2>1. q \in Seq(XMessages)
    BY DEF InboxTypes
  <2> QED
    BY <2>1, Appended
<1>2. inbox'[x] = r
  OBVIOUS
<1> HIDE DEF q, r, new
<1>3. ASSUME m.type = "update", n \in m.list PROVE WillKnow(x, n)'
  BY <1>1, <1>2, <1>3 DEF WillKnow, IsUpdate, LastUpdate
<1>4. ASSUME m.type = "setup", WillKnow(x, n) PROVE WillKnow(x, n)'
  <2>1. \A i : IsUpdate(x, i)' <=> IsUpdate(x, i)
    BY <1>1, <1>2, <1>4 DEF IsUpdate, q
  <2>2. \A i : LastUpdate(x, i)' <=> LastUpdate(x, i)
    BY <2>1, <1>1, <1>2 DEF LastUpdate, IsUpdate, q
  <2>3. n \in xnodes'[x] \/ \E i \in DOMAIN inbox'[x] : IsUpdate(x, i)'
    BY <1>4, <2>1 DEF WillKnow, IsUpdate
  <2>4. ASSUME NEW i \in DOMAIN inbox'[x], LastUpdate(x, i)' PROVE n \in inbox'[x][i].list
    <3>1. LastUpdate(x, i) /\ i \in DOMAIN q
      BY <2>2, <2>4 DEF LastUpdate, IsUpdate, q
    <3>2. inbox'[x][i] = inbox[x][i]
      BY <1>1, <1>2, <3>1 DEF q
    <3> QED
      BY <1>4, <3>1, <3>2 DEF WillKnow, q
  <2> QED
    BY <2>3, <2>4 DEF WillKnow
<1> QED
  BY <1>3, <1>4

\* What an xApp does with the first message leaves it with what it will know.
LEMMA KnowsAfterRead ==
  ASSUME InboxTypes, XAppTypes, NEW x \in XApps, NEW n \in Nodes, XApp(x), WillKnow(x, n)
  PROVE  WillKnow(x, n)'
<1>1. Receives(x, "setup") \/ Receives(x, "update")
  BY DEF XApp, XAppSetup, XAppUpdate
<1>2. /\ 1 \in DOMAIN inbox[x] /\ Head(inbox[x]) = inbox[x][1]
      /\ \A i \in DOMAIN inbox'[x] : /\ i \in Nat /\ i >= 1 /\ i + 1 \in DOMAIN inbox[x]
                                     /\ inbox'[x][i] = inbox[x][i + 1]
      /\ \A i \in DOMAIN inbox[x] : i \in Nat /\ (i = 1 \/ i - 1 \in DOMAIN inbox'[x])
  BY <1>1, Read
<1>3. \A i \in DOMAIN inbox[x] : IsUpdate(x, i) /\ i # 1 => IsUpdate(x, i - 1)'
  BY <1>2 DEF IsUpdate
<1>4. ASSUME NEW i \in DOMAIN inbox'[x], LastUpdate(x, i)' PROVE n \in inbox'[x][i].list
  <2>1. i \in Nat /\ i >= 1 /\ i + 1 \in DOMAIN inbox[x] /\ inbox'[x][i] = inbox[x][i + 1]
    BY <1>2
  <2>2. IsUpdate(x, i + 1)
    BY <1>4, <2>1 DEF LastUpdate, IsUpdate
  <2>3. ASSUME NEW j \in DOMAIN inbox[x], IsUpdate(x, j) PROVE j <= i + 1
    <3>1. j \in Nat
      BY <1>2
    <3>2. CASE j # 1
      <4>1. IsUpdate(x, j - 1)' /\ j - 1 \in DOMAIN inbox'[x]
        BY <1>2, <1>3, <2>3, <3>2
      <4>2. j - 1 <= i
        BY <1>4, <4>1 DEF LastUpdate
      <4> QED
        BY <2>1, <3>1, <4>2
    <3> QED
      BY <2>1, <3>2
  <2>4. LastUpdate(x, i + 1)
    BY <2>2, <2>3 DEF LastUpdate
  <2> QED
    BY <2>1, <2>4 DEF WillKnow
<1>5. n \in xnodes'[x] \/ \E i \in DOMAIN inbox'[x] : IsUpdate(x, i)'
  <2>1. ASSUME NEW i \in DOMAIN inbox[x], IsUpdate(x, i), i # 1
        PROVE  \E j \in DOMAIN inbox'[x] : IsUpdate(x, j)'
    BY <1>2, <1>3, <2>1
  <2>2. CASE XAppSetup(x)
    <3>1. ~IsUpdate(x, 1)
      BY <2>2, <1>2 DEF XAppSetup, Receives, IsUpdate
    <3>2. n \in xnodes[x] => n \in xnodes'[x]
      BY <2>2 DEF XAppSetup, XAppTypes
    <3> QED
      BY <2>1, <3>1, <3>2 DEF WillKnow
  <2>3. CASE XAppUpdate(x)
    <3>1. IsUpdate(x, 1)
      BY <2>3, <1>2 DEF XAppUpdate, Receives, IsUpdate
    <3>2. xnodes'[x] = inbox[x][1].list
      BY <2>3, <1>2 DEF XAppUpdate, XAppTypes
    <3>3. CASE \A i \in DOMAIN inbox[x] : IsUpdate(x, i) => i = 1
      <4>1. LastUpdate(x, 1)
        BY <3>1, <3>3, <1>2 DEF LastUpdate
      <4> QED
        BY <1>2, <3>2, <4>1 DEF WillKnow
    <3> QED
      BY <2>1, <3>3
  <2> QED
    BY <2>2, <2>3 DEF XApp
<1> QED
  BY <1>4, <1>5 DEF WillKnow

\* An xApp that is connected by what it reads knows the nodes that everything names.
LEMMA NamedIsKnown ==
  ASSUME InboxTypes, XAppTypes, NEW x \in XApps, NEW n \in Nodes, XApp(x), NamedToNew(x, n),
         xst'[x] # "aborted"
  PROVE  WillKnow(x, n)'
<1>1. Receives(x, "setup") \/ Receives(x, "update")
  BY DEF XApp, XAppSetup, XAppUpdate
<1>2. /\ 1 \in DOMAIN inbox[x] /\ Head(inbox[x]) = inbox[x][1]
      /\ \A i \in DOMAIN inbox'[x] : i + 1 \in DOMAIN inbox[x] /\ inbox'[x][i] = inbox[x][i + 1]
  BY <1>1, Read
<1>3. n \in Head(inbox[x]).list /\ \A i \in DOMAIN inbox'[x] : n \in inbox'[x][i].list
  BY <1>2 DEF NamedToNew
<1>4. n \in xnodes'[x]
  <2>1. CASE XAppSetup(x)
    BY <1>3, <2>1 DEF XAppSetup, XAppTypes, NamedToNew
  <2>2. CASE XAppUpdate(x)
    BY <1>3, <2>2 DEF XAppUpdate, XAppTypes
  <2> QED
    BY <2>1, <2>2 DEF XApp
<1> QED
  BY <1>3, <1>4 DEF WillKnow

\* The step that pushes n tells the xApps that are registered; to the others nothing has
\* been sent yet, unless one of them is missed.
LEMMA ArrivesNow ==
  ASSUME IAppTypes, InboxTypes, XAppTypes, TaskTypes, IdsGiven, HasId,
         NEW t \in tasks, TaskPush(t), NEW x \in XApps, NEW n \in Nodes, t.n = n, t.l = assoc[n],
         xst[x] \in {"new", "asking", "connected"}, <<x, n>> \notin missed'
  PROVE  (ToBeTold(x, n) \/ NamedToNew(x, n))'
<1>0. /\ UNCHANGED <<xaddrs, answer, inbox, xst, xid, assoc>>
      /\ count' = Len(xaddrs) /\ told' = 0 /\ Goes(t, "copy")
      /\ missed' = missed \cup (IF answer.st = "register" THEN {<<answer.x, t.n>>} ELSE {})
  BY DEF TaskPush, iappVars, xappVars, nodeVars
<1>1. CASE \E i \in DOMAIN xaddrs : xaddrs[i] = x
  <2>1. PICK i \in DOMAIN xaddrs : xaddrs[i] = x
    BY <1>1
  <2>2. 0 < i /\ i <= Len(xaddrs)
    BY DEF IAppTypes
  <2>3. \E u \in tasks' : u.n = t.n /\ u.l = t.l /\ u.st = "copy"
    BY <1>0, Moved DEF Steps
  <2> QED
    BY <1>0, <2>1, <2>2, <2>3 DEF ToBeTold, Telling
<1>2. CASE \A i \in DOMAIN xaddrs : xaddrs[i] # x
  <2>1. \A i \in DOMAIN inbox[x] : FALSE
    BY <1>2 DEF IdsGiven
  <2>2. xst[x] # "connected"
    BY <1>2 DEF IdsGiven, HasId
  <2>3. answer.st = "register" => answer.x # x
    BY <1>0
  <2>4. answer.st = "send" => answer.x # x
    BY <1>2 DEF IdsGiven
  <2>5. answer.st \in {"register", "send", "none"}
    BY DEF IAppTypes, Answers, NoAnswer
  <2> QED
    BY <1>0, <2>1, <2>2, <2>3, <2>4, <2>5 DEF NamedToNew
<1> QED
  BY <1>1, <1>2

\* Nothing is sent to the xApp, which reads nothing.
LEMMA KnowsStill ==
  ASSUME NEW x \in XApps, NEW n \in Nodes, inbox'[x] = inbox[x], xnodes'[x] = xnodes[x],
         WillKnow(x, n)
  PROVE  WillKnow(x, n)'
<1>1. \A i : IsUpdate(x, i)' <=> IsUpdate(x, i)
  BY DEF IsUpdate
<1>2. \A i : LastUpdate(x, i)' <=> LastUpdate(x, i)
  BY <1>1 DEF LastUpdate
<1> QED
  BY <1>1, <1>2 DEF WillKnow

\* The task that is to tell the xApp has not yet done so.
LEMMA ToBeToldStill ==
  ASSUME IAppTypes, NEW x \in XApps, NEW n \in Nodes, ToBeTold(x, n), assoc'[n] = assoc[n],
         UNCHANGED <<count, told>>,
         \A i \in DOMAIN xaddrs : i \in DOMAIN xaddrs' /\ xaddrs'[i] = xaddrs[i],
         \A t \in tasks : Telling(t) => \E u \in tasks' : Telling(u) /\ u.n = t.n /\ u.l = t.l
  PROVE  ToBeTold(x, n)'
BY DEF ToBeTold, Telling

\* Steps of the loop and of nodes, and those of tasks before and after they hold the mutex.
LEMMA AnnouncedApart ==
  ASSUME IAppTypes, NEW x \in XApps, NEW n \in Nodes,
         WillKnow(x, n) \/ ToBeTold(x, n) \/ NamedToNew(x, n),
         assoc'[n] = assoc[n], UNCHANGED <<count, told, xaddrs, inbox, xst, xnodes, answer>>,
         \A t \in tasks : Telling(t) => \E u \in tasks' : Telling(u) /\ u.n = t.n /\ u.l = t.l
  PROVE  (WillKnow(x, n) \/ ToBeTold(x, n) \/ NamedToNew(x, n))'
<1>1. WillKnow(x, n) => WillKnow(x, n)'
  BY KnowsStill
<1>2. ToBeTold(x, n) => ToBeTold(x, n)'
  BY ToBeToldStill
<1>3. NamedToNew(x, n) => NamedToNew(x, n)'
  BY DEF NamedToNew
<1> QED
  BY <1>1, <1>2, <1>3

\* An update names a node, unless it was late: then the xApp is missed for it.
LEMMA AnnouncedUpdate ==
  ASSUME IAppTypes, InboxTypes, TaskTypes, NEW x \in XApps, NEW n \in Nodes,
         xst[x] \in {"new", "asking", "connected"}, assoc'[n] = assoc[n],
         UNCHANGED <<tasks, count, xaddrs, xst, xnodes, answer>>,
         NEW o \in DOMAIN xaddrs, NEW nodes \in SUBSET Nodes, NEW lacking \in SUBSET Nodes,
         SendUpdate(o, nodes, lacking), told' = told \/ (told' = told + 1 /\ o = told + 1),
         n \in nodes \cup lacking, <<x, n>> \notin missed',
         <<x, n>> \notin missed => WillKnow(x, n) \/ ToBeTold(x, n) \/ NamedToNew(x, n)
  PROVE  (WillKnow(x, n) \/ ToBeTold(x, n) \/ NamedToNew(x, n))'
<1>0. /\ xaddrs[o] \in XApps
      /\ \E m \in XMessages : /\ m.type = "update" /\ m.id = o /\ m.list = nodes
                             /\ ToXApp(xaddrs[o], m)
      /\ behind \subseteq behind' /\ behind' \subseteq behind \cup {xaddrs[o]}
      /\ answer.st = "send" /\ answer.x = xaddrs[o] => xaddrs[o] \in behind'
      /\ missed' = {p \in missed : p[1] # xaddrs[o]} \cup ({xaddrs[o]} \X lacking)
  BY ONLY IAppTypes, SendUpdate(o, nodes, lacking), o \in DOMAIN xaddrs,
          nodes \in SUBSET Nodes, lacking \in SUBSET Nodes, Updated, Zenon
<1> DEFINE to == xaddrs[o]
<1>1. /\ to \in XApps
      /\ \E m \in XMessages : m.type = "update" /\ m.list = nodes /\ ToXApp(to, m)
      /\ missed' = {p \in missed : p[1] # to} \cup ({to} \X lacking)
  BY <1>0
<1>2. PICK m \in XMessages : m.type = "update" /\ m.list = nodes /\ ToXApp(to, m)
  BY <1>1
<1>3. told \in Nat /\ count \in Nat
  BY DEF TaskTypes
<1> HIDE DEF to
<1>4. CASE to = x
  <2>1. n \in m.list
    BY <1>1, <1>2, <1>4
  <2>2. inbox'[x] = Append(inbox[x], m)
    BY <1>1, <1>2, <1>4, SentOne
  <2> QED
    BY <1>2, <2>1, <2>2, KnowsAfterSend
<1>5. CASE to # x
  <2>1. inbox'[x] = inbox[x]
    BY <1>1, <1>2, <1>5, SentOne
  <2>2. WillKnow(x, n) \/ ToBeTold(x, n) \/ NamedToNew(x, n)
    BY <1>1, <1>5
  <2>3. WillKnow(x, n) => WillKnow(x, n)'
    BY <2>1, KnowsStill
  <2>4. ASSUME ToBeTold(x, n) PROVE ToBeTold(x, n)'
    <3>1. PICK u \in tasks : /\ Telling(u) /\ u.n = n /\ u.l = assoc[n]
                             /\ \E i \in DOMAIN xaddrs : told < i /\ i <= count /\ xaddrs[i] = x
      BY <2>4 DEF ToBeTold
    <3>2. PICK i \in DOMAIN xaddrs : told < i /\ i <= count /\ xaddrs[i] = x
      BY <3>1
    <3>3. i \in Nat /\ i # o
      BY <1>5, <3>2 DEF IAppTypes, to
    <3>4. told' < i
      BY <1>3, <3>2, <3>3
    <3> QED
      BY <3>1, <3>2, <3>4 DEF ToBeTold, Telling
  <2>5. NamedToNew(x, n) => NamedToNew(x, n)'
    BY <2>1 DEF NamedToNew
  <2> QED
    BY <2>2, <2>3, <2>4, <2>5
<1> QED
  BY <1>4, <1>5

\* A task tells the next xApp of all that have arrived.
LEMMA AnnouncedTell ==
  ASSUME IAppTypes, InboxTypes, TaskTypes, Listed,
         NEW x \in XApps, NEW n \in Nodes, Arrived(n),
         xst[x] \in {"new", "asking", "connected"}, assoc'[n] = assoc[n],
         <<x, n>> \notin missed',
         <<x, n>> \notin missed => WillKnow(x, n) \/ ToBeTold(x, n) \/ NamedToNew(x, n),
         NEW t \in tasks, TaskTell(t)
  PROVE  (WillKnow(x, n) \/ ToBeTold(x, n) \/ NamedToNew(x, n))'
<1>1. /\ UNCHANGED <<tasks, count, xaddrs, xst, xnodes, answer>>
      /\ t.st = "tell" /\ told < count /\ told \in Nat /\ count \in Nat /\ list \in SUBSET Nodes
  BY DEF TaskTell, At, iappVars, xappVars, TaskTypes
<1>2. n \in list
  BY <1>1 DEF Listed
<1>3. CASE UNCHANGED <<told, inbox, missed>>
  BY <1>1, <1>3, AnnouncedApart
<1>4. CASE SendUpdate(told + 1, list, {}) /\ told + 1 \in DOMAIN xaddrs /\ told' = told + 1
  <2>1. PICK o \in DOMAIN xaddrs : o = told + 1 /\ SendUpdate(o, list, {})
    BY <1>4
  <2>2. n \in list \cup {} /\ {} \in SUBSET Nodes
    BY <1>2
  <2> QED
    BY <1>1, <1>4, <2>1, <2>2, AnnouncedUpdate
<1> QED
  BY <1>3, <1>4, TaskSends

\* The loop tells the next xApp of all but those who came late.
LEMMA AnnouncedRound ==
  ASSUME IAppTypes, InboxTypes, RoundTypes, TaskTypes, HistoryTypes, InOrder, Filling, CopyWhole,
         NEW x \in XApps, NEW n \in Nodes, Arrived(n),
         xst[x] \in {"new", "asking", "connected"}, assoc'[n] = assoc[n],
         <<x, n>> \notin missed',
         <<x, n>> \notin missed => WillKnow(x, n) \/ ToBeTold(x, n) \/ NamedToNew(x, n),
         LoopRound
  PROVE  (WillKnow(x, n) \/ ToBeTold(x, n) \/ NamedToNew(x, n))'
<1>1. UNCHANGED <<tasks, count, told, xaddrs, xst, xnodes, answer>>
  BY RoundFrame
<1>2. CASE UNCHANGED <<inbox, missed>>
  BY <1>1, <1>2, AnnouncedApart
<1>3. CASE LoopTell /\ SendUpdate(ltold + 1, llist, late) /\ ltold + 1 \in DOMAIN xaddrs
  <2>1. PICK o \in DOMAIN xaddrs : SendUpdate(o, llist, late)
    BY <1>3
  <2>2. n \in llist \cup late
    BY <1>3, ArrivedIn DEF LoopTell, CopyWhole
  <2>3. llist \in SUBSET Nodes /\ late \in SUBSET Nodes
    BY DEF RoundTypes, HistoryTypes
  <2> QED
    BY <1>1, <2>1, <2>2, <2>3, AnnouncedUpdate
<1> QED
  BY <1>2, <1>3, LoopSends, QuietFrame DEF LoopRound

\* The iApp copies a registry that has all that have arrived, and sends it.
LEMMA AnnouncedIApp ==
  ASSUME IAppTypes, InboxTypes, TableTypes, InOrder, Filling,
         NEW x \in XApps, NEW n \in Nodes, Arrived(n),
         xst[x] \in {"new", "asking", "connected"}, assoc'[n] = assoc[n],
         WillKnow(x, n) \/ ToBeTold(x, n) \/ NamedToNew(x, n),
         IApp
  PROVE  (WillKnow(x, n) \/ ToBeTold(x, n) \/ NamedToNew(x, n))'
<1>0. UNCHANGED <<tasks, count, told, xst, xnodes, assoc>>
  BY DEF IApp, IAppSetup, IAppRegister, IAppAnswer, taskVars, xappVars, nodeVars
<1>1. CASE IAppSetup
  <2>1. UNCHANGED <<inbox, xaddrs>> /\ answer' = [x |-> Head(e42), id |-> nextId, list |-> reg,
          st |-> "register"]
    BY <1>1 DEF IAppSetup
  <2>2. n \in answer'.list
    BY <2>1, ArrivedIn
  <2>3. WillKnow(x, n) => WillKnow(x, n)'
    BY <1>0, <2>1, KnowsStill
  <2>4. ToBeTold(x, n) => ToBeTold(x, n)'
    BY <1>0, <2>1, ToBeToldStill
  <2>5. NamedToNew(x, n) => NamedToNew(x, n)'
    BY <1>0, <2>1, <2>2 DEF NamedToNew
  <2> QED
    BY <2>3, <2>4, <2>5
<1>2. CASE IAppRegister
  <2>1. UNCHANGED inbox /\ answer.st = "register"
    BY <1>2 DEF IAppRegister
  <2>2. answer'.x = answer.x /\ answer'.list = answer.list
    BY <1>2 DEF IAppRegister
  <2>3. \A i \in DOMAIN xaddrs : i \in DOMAIN xaddrs' /\ xaddrs'[i] = xaddrs[i]
    <3>1. xaddrs' = xaddrs \/ xaddrs' = Append(xaddrs, answer.x)
      BY <1>2 DEF IAppRegister
    <3>2. answer.x \in XApps /\ xaddrs \in Seq(XApps)
      BY <2>1 DEF IAppTypes, Answers, NoAnswer
    <3> QED
      BY <3>1, <3>2, Appended
  <2>4. WillKnow(x, n) => WillKnow(x, n)'
    BY <1>0, <2>1, KnowsStill
  <2>5. ToBeTold(x, n) => ToBeTold(x, n)'
    BY <1>0, <2>3, ToBeToldStill
  <2>6. NamedToNew(x, n) => NamedToNew(x, n)'
    BY <1>0, <2>1, <2>2 DEF NamedToNew
  <2> QED
    BY <2>4, <2>5, <2>6
<1>3. CASE IAppAnswer
  <2> DEFINE m == [type |-> "setup", id |-> answer.id, list |-> answer.list]
  <2>1. UNCHANGED xaddrs /\ answer.st = "send" /\ answer' = NoAnswer /\ ToXApp(answer.x, m)
    BY <1>3 DEF IAppAnswer
  <2>2. answer \in Answers
    BY <2>1 DEF IAppTypes, NoAnswer
  <2>3. answer.x \in XApps /\ m \in XMessages
    BY <2>2 DEF Answers, XMessages
  <2>4. m.type = "setup" /\ m.list = answer.list
    OBVIOUS
  <2> HIDE DEF m
  <2>5. answer'.st = "none"
    BY <2>1 DEF NoAnswer
  <2>6. ToBeTold(x, n) => ToBeTold(x, n)'
    BY <1>0, <2>1, ToBeToldStill
  <2>7. CASE answer.x = x
    <3>1. inbox'[x] = Append(inbox[x], m)
      BY <2>1, <2>3, <2>7, SentOne
    <3>2. WillKnow(x, n) => WillKnow(x, n)'
      BY <1>0, <2>3, <2>4, <3>1, KnowsAfterSend
    <3>3. ASSUME NamedToNew(x, n) PROVE NamedToNew(x, n)'
      <4>1. n \in m.list
        BY <2>1, <2>4, <2>7, <3>3 DEF NamedToNew
      <4>2. inbox[x] \in Seq(XMessages)
        BY DEF InboxTypes
      <4>3. \A i \in DOMAIN inbox'[x] :
              (i \in DOMAIN inbox[x] /\ inbox'[x][i] = inbox[x][i]) \/ inbox'[x][i] = m
        BY <2>3, <3>1, <4>2, Appended
      <4> QED
        BY <1>0, <2>5, <3>3, <4>1, <4>3 DEF NamedToNew
    <3> QED
      BY <2>6, <3>2, <3>3
  <2>8. CASE answer.x # x
    <3>1. inbox'[x] = inbox[x]
      BY <2>1, <2>3, <2>8, SentOne
    <3>2. WillKnow(x, n) => WillKnow(x, n)'
      BY <1>0, <3>1, KnowsStill
    <3>3. NamedToNew(x, n) => NamedToNew(x, n)'
      BY <1>0, <2>5, <3>1 DEF NamedToNew
    <3> QED
      BY <2>6, <3>2, <3>3
  <2> QED
    BY <2>7, <2>8
<1> QED
  BY <1>1, <1>2, <1>3 DEF IApp

\* An xApp asks, reads or ends.
LEMMA AnnouncedXApp ==
  ASSUME IAppTypes, InboxTypes, XAppTypes, NEW x \in XApps, NEW n \in Nodes,
         xst'[x] \in {"new", "asking", "connected"}, assoc'[n] = assoc[n],
         WillKnow(x, n) \/ ToBeTold(x, n) \/ NamedToNew(x, n),
         NEW y \in XApps, XAppAsks(y) \/ XApp(y) \/ XAppDies(y)
  PROVE  (WillKnow(x, n) \/ ToBeTold(x, n) \/ NamedToNew(x, n))'
<1>0. UNCHANGED <<tasks, count, told, xaddrs, answer>>
  BY DEF XAppAsks, XApp, XAppSetup, XAppUpdate, XAppDies, taskVars, iappVars
<1>1. ToBeTold(x, n) => ToBeTold(x, n)'
  BY <1>0, ToBeToldStill
<1>2. CASE XApp(y) /\ y = x
  BY <1>1, <1>2, KnowsAfterRead, NamedIsKnown
<1>3. CASE inbox'[x] = inbox[x] /\ xnodes'[x] = xnodes[x]
         /\ (xst[x] = "new" => xst'[x] # "connected") /\ (xst[x] = "asking" => xst'[x] = "asking")
  <2>1. WillKnow(x, n) => WillKnow(x, n)'
    BY <1>3, KnowsStill
  <2>2. NamedToNew(x, n) => NamedToNew(x, n)'
    BY <1>0, <1>3 DEF NamedToNew
  <2> QED
    BY <1>1, <2>1, <2>2
<1>4. CASE XApp(y) /\ y # x
  <2>1. Receives(y, "setup") \/ Receives(y, "update")
    BY <1>4 DEF XApp, XAppSetup, XAppUpdate
  <2>2. inbox'[x] = inbox[x]
    BY <1>4, <2>1, Read
  <2>3. xnodes'[x] = xnodes[x] /\ xst'[x] = xst[x]
    BY <1>4 DEF XApp, XAppSetup, XAppUpdate, XAppTypes
  <2> QED
    BY <1>3, <2>2, <2>3
<1>5. CASE XAppAsks(y)
  <2>1. UNCHANGED <<inbox, xnodes>> /\ (xst'[x] = xst[x] \/ xst'[x] = "asking")
    BY <1>5 DEF XAppAsks, XAppTypes
  <2> QED
    BY <1>3, <2>1
<1>6. CASE XAppDies(y)
  <2>1. y # x
    BY <1>6 DEF XAppDies, XAppTypes
  <2>2. inbox'[x] = inbox[x] /\ xnodes'[x] = xnodes[x] /\ xst'[x] = xst[x]
    BY <1>6, <2>1 DEF XAppDies, XAppTypes, InboxTypes
  <2> QED
    BY <1>3, <2>2
<1> QED
  BY <1>2, <1>4, <1>5, <1>6

\* Every step keeps Announced.
LEMMA AnnouncedStep ==
  ASSUME RoundTypes, TableTypes, TaskTypes, IAppTypes, InboxTypes, XAppTypes, NodeTypes,
         HistoryTypes, Filling, InOrder, IdsGiven, Holding, CopyWhole, Listed, HasId, Announced,
         [Next]_vars
  PROVE  Announced'
<1> SUFFICES ASSUME NEW x \in XApps, NEW n \in Nodes, Arrived(n)',
                    xst'[x] \in {"new", "asking", "connected"}, <<x, n>> \notin missed'
             PROVE  (WillKnow(x, n) \/ ToBeTold(x, n) \/ NamedToNew(x, n))'
  BY DEF Announced
<1> DEFINE Goal == (WillKnow(x, n) \/ ToBeTold(x, n) \/ NamedToNew(x, n))'
           Same == UNCHANGED <<count, told, xaddrs, inbox, xst, xnodes, answer, missed>>
           Tell == \A t \in tasks : Telling(t) =>
                      \E u \in tasks' : Telling(u) /\ u.n = t.n /\ u.l = t.l
<1>1. CASE \E t \in tasks : TaskPush(t) /\ t.n = n /\ t.l = assoc[n]
  <2>1. PICK t \in tasks : TaskPush(t) /\ t.n = n /\ t.l = assoc[n]
    BY <1>1
  <2>2. xst' = xst
    BY <2>1 DEF TaskPush, xappVars
  <2> QED
    BY <2>1, <2>2, ArrivesNow
<1>2. CASE Arrived(n) /\ assoc'[n] = assoc[n]
  <2>0. xst[x] \in {"new", "asking", "connected"} /\ <<x, n>> \notin missed =>
          WillKnow(x, n) \/ ToBeTold(x, n) \/ NamedToNew(x, n)
    BY <1>2 DEF Announced
  <2>1. Same /\ Tell => Goal
    BY <1>2, <2>0, AnnouncedApart
  <2> HIDE DEF Goal
  <2>2. ASSUME NEW t \in tasks, Task(t) PROVE Goal
    <3>0. UNCHANGED <<xst, xnodes, xaddrs, answer>>
      BY <2>2 DEF Task, TaskAddress, TaskAdd, TaskPush, TaskCopy, TaskTell, TaskUnlock, TaskSend,
         xappVars, iappVars
    <3>1. CASE TaskAddress(t) \/ TaskAdd(t) \/ TaskSend(t)
      <4>1. ~Telling(t) /\ Same
        BY <3>0, <3>1 DEF TaskAddress, TaskAdd, TaskSend, At, Telling, histVars
      <4>2. \A u \in tasks : u # t => u \in tasks'
        BY <3>1 DEF TaskAddress, TaskAdd, TaskSend, Goes
      <4> QED
        BY <2>1, <4>1, <4>2
    <3>2. CASE TaskCopy(t)
      <4>1. Same
        BY <3>0, <3>2 DEF TaskCopy, histVars
      <4>2. Goes(t, "tell")
        BY <3>2 DEF TaskCopy
      <4>3. /\ \A u \in tasks : u # t => u \in tasks'
            /\ \E u \in tasks' : u.n = t.n /\ u.l = t.l /\ u.st = "tell"
        BY <4>2, Moved DEF Steps
      <4> QED
        BY <2>1, <4>1, <4>3 DEF Telling
    <3>3. CASE TaskTell(t)
      <4>1. xst[x] \in {"new", "asking", "connected"}
        BY <3>0
      <4> QED
        BY <1>2, <2>0, <3>3, <4>1, AnnouncedTell DEF Goal
    <3>4. CASE TaskPush(t) \/ TaskUnlock(t)
      <4>1. inbox' = inbox /\ missed \subseteq missed'
        BY <3>4 DEF TaskPush, TaskUnlock, histVars
      <4>2. ~ToBeTold(x, n)
        <5>1. CASE TaskPush(t)
          BY <5>1, NobodyTells DEF TaskPush, ToBeTold
        <5>2. CASE TaskUnlock(t)
          BY <5>2 DEF TaskUnlock, ToBeTold, TaskTypes, IAppTypes
        <5> QED
          BY <3>4, <5>1, <5>2
      <4>3. WillKnow(x, n) \/ NamedToNew(x, n)
        BY <2>0, <3>0, <4>1, <4>2
      <4>4. WillKnow(x, n) => WillKnow(x, n)'
        BY <3>0, <4>1, KnowsStill
      <4>5. NamedToNew(x, n) => NamedToNew(x, n)'
        BY <3>0, <4>1 DEF NamedToNew
      <4> QED
        BY <4>3, <4>4, <4>5 DEF Goal
    <3> QED
      BY <2>2, <3>1, <3>2, <3>3, <3>4 DEF Task
  <2>3. CASE IApp
    <3>1. UNCHANGED <<xst, missed>>
      BY <2>3 DEF IApp, IAppSetup, IAppRegister, IAppAnswer, xappVars, histVars
    <3> QED
      BY <1>2, <2>0, <2>3, <3>1, AnnouncedIApp DEF Goal
  <2>4. ASSUME NEW y \in XApps, XAppAsks(y) \/ XApp(y) \/ XAppDies(y) PROVE Goal
    <3>1. missed' = missed
      BY <2>4 DEF XAppAsks, XApp, XAppSetup, XAppUpdate, XAppDies, histVars
    <3>2. xst[x] \in {"new", "asking", "connected"}
      BY <2>4 DEF XAppAsks, XApp, XAppSetup, XAppUpdate, XAppDies, Receives, XAppTypes
    <3> QED
      BY <1>2, <2>0, <2>4, <3>1, <3>2, AnnouncedXApp DEF Goal
  <2>5. ASSUME NEW m \in Nodes, NodeStart(m) \/ NodeRepeats(m) \/ NodeLeaves(m) PROVE Goal
    <3>1. Same /\ tasks \subseteq tasks'
      BY <2>5 DEF NodeStart, NodeRepeats, NodeLeaves, taskVars, iappVars, xappVars, histVars
    <3>2. Tell
      BY <3>1
    <3> QED
      BY <2>1, <3>1, <3>2, Zenon DEF Goal
  <2>6. CASE LoopSetup
    <3>1. Same /\ tasks \subseteq tasks'
      BY <2>6 DEF LoopSetup, iappVars, xappVars, histVars
    <3>2. Tell
      BY <3>1
    <3> QED
      BY <2>1, <3>1, <3>2, Zenon DEF Goal
  <2>7. CASE LoopShutdown \/ LoopErase \/ LoopForget
    <3>1. Same /\ tasks \subseteq tasks'
      BY <2>7 DEF LoopShutdown, LoopErase, LoopForget, taskVars, iappVars, xappVars, histVars
    <3>2. Tell
      BY <3>1
    <3> QED
      BY <2>1, <3>1, <3>2, Zenon DEF Goal
  <2>9. CASE LoopRound
    <3>1. xst[x] \in {"new", "asking", "connected"}
      BY <2>9, RoundFrame
    <3> QED
      BY <1>2, <2>0, <2>9, <3>1, AnnouncedRound DEF Goal
  <2>8. CASE UNCHANGED vars
    <3>1. Same /\ tasks \subseteq tasks'
      BY <2>8 DEF vars, taskVars, iappVars, xappVars, histVars
    <3>2. Tell
      BY <3>1
    <3> QED
      BY <2>1, <3>1, <3>2, Zenon DEF Goal
  <2> QED
    BY <2>2, <2>3, <2>4, <2>5, <2>6, <2>7, <2>8, <2>9
    DEF Next, Loop, LoopRound, LoopQuiet, Goal
<1> QED
  BY <1>1, <1>2, ArrivedBefore

-----------------------------------------------------------------------------
(* Awaiting *)

\* A node's request is in the socket or with its task until the task answers it.
LEMMA NodeWaitsStep ==
  ASSUME LoopTypes, TaskTypes, NodeTypes, [Next]_vars, NEW n \in Nodes,
         nst[n] = "asked" => NodeWaits(n), nst'[n] = "asked"
  PROVE  NodeWaits(n)'
<1>0. e2 \in Seq(E2Messages)
  BY DEF LoopTypes
<1>1. ASSUME NEW m \in Nodes, NodeStart(m) \/ NodeRepeats(m) \/ NodeLeaves(m)
      PROVE  NodeWaits(n)'
  <2>0. tasks' = tasks
    BY <1>1 DEF NodeStart, NodeRepeats, NodeLeaves, taskVars
  <2>1. PICK e : /\ e2' = Append(e2, e) /\ e \in E2Messages
                 /\ NodeStart(m) => e.type = "setup" /\ e.n = m /\ e.l = assoc'[m]
    <3>1. CASE NodeStart(m)
      <4> DEFINE e == [type |-> "setup", n |-> m, l |-> starts + 1, k |-> 1]
      <4>1. e2' = Append(e2, e) /\ assoc'[m] = starts + 1
        BY <3>1 DEF NodeStart, NodeAsks, NodeTypes
      <4>2. e \in E2Messages
        BY <3>1, NodeBoundsAssumption DEF NodeStart, NodeTypes, E2Messages
      <4> QED
        BY <4>1, <4>2
    <3>2. CASE NodeRepeats(m)
      <4> DEFINE e == [type |-> "setup", n |-> m, l |-> assoc[m], k |-> tries[m] + 1]
      <4>1. e2' = Append(e2, e)
        BY <3>2 DEF NodeRepeats, NodeAsks
      <4>2. e \in E2Messages
        BY <3>2, NodeBoundsAssumption DEF NodeRepeats, NodeTypes, E2Messages
      <4> QED
        BY <3>2, <4>1, <4>2 DEF NodeRepeats, NodeStart
    <3>3. CASE NodeLeaves(m)
      <4> DEFINE e == [type |-> "shutdown", n |-> m, l |-> assoc[m], k |-> 0]
      <4>1. e2' = Append(e2, e)
        BY <3>3 DEF NodeLeaves
      <4>2. e \in E2Messages
        BY <3>3, NodeBoundsAssumption DEF NodeLeaves, NodeTypes, E2Messages
      <4> QED
        BY <3>3, <4>1, <4>2 DEF NodeLeaves, NodeStart
    <3> QED
      BY <1>1, <3>1, <3>2, <3>3
  <2>2. /\ Len(e2) + 1 \in DOMAIN e2' /\ e2'[Len(e2) + 1] = e
        /\ \A i \in DOMAIN e2 : i \in DOMAIN e2' /\ e2'[i] = e2[i]
    BY <1>0, <2>1, Appended
  <2>3. CASE NodeStart(m) /\ m = n
    BY <2>1, <2>2, <2>3 DEF NodeWaits, Setup
  <2>4. CASE ~(NodeStart(m) /\ m = n)
    <3>1. nst[n] = "asked" /\ assoc'[n] = assoc[n]
      BY <1>1, <2>4 DEF NodeStart, NodeRepeats, NodeLeaves, NodeTypes
    <3> QED
      BY <2>0, <2>2, <3>1 DEF NodeWaits, Setup
  <2> QED
    BY <2>3, <2>4
<1>2. CASE LoopSetup \/ LoopShutdown
  <2>1. UNCHANGED <<nst, assoc>> /\ e2' = Tail(e2) /\ e2 # <<>>
    BY <1>2 DEF LoopSetup, LoopShutdown, nodeVars
  <2>2. /\ Head(e2) = e2[1]
        /\ \A i \in DOMAIN e2 : i \in Nat /\ (i = 1 \/ i - 1 \in DOMAIN e2')
        /\ \A i \in DOMAIN e2' : i \in Nat /\ e2'[i] = e2[i + 1]
    BY <1>0, <2>1, Taken
  <2>3. tasks \subseteq tasks'
    BY <1>2 DEF LoopSetup, LoopShutdown, taskVars
  <2>4. CASE \E t \in tasks : t.n = n /\ t.l = assoc[n]
    BY <2>1, <2>3, <2>4 DEF NodeWaits
  <2>5. CASE \E i \in DOMAIN e2 : Setup(i, n) /\ e2[i].l = assoc[n]
    <3>1. PICK i \in DOMAIN e2 : Setup(i, n) /\ e2[i].l = assoc[n]
      BY <2>5
    <3>2. CASE i = 1
      <4>1. LoopSetup
        BY <1>2, <2>2, <3>1, <3>2 DEF LoopShutdown, Setup
      <4> DEFINE r == [n |-> Head(e2).n, l |-> Head(e2).l, k |-> Head(e2).k, st |-> "address"]
      <4>2. r \in tasks' /\ r.n = Head(e2).n /\ r.l = Head(e2).l
        BY <4>1 DEF LoopSetup
      <4> HIDE DEF r
      <4> QED
        BY <2>1, <2>2, <3>1, <3>2, <4>2 DEF NodeWaits, Setup
    <3>3. CASE i # 1
      <4>1. i - 1 \in DOMAIN e2' /\ e2'[i - 1] = e2[i]
        BY <2>2, <3>3
      <4> QED
        BY <2>1, <3>1, <4>1 DEF NodeWaits, Setup
    <3> QED
      BY <3>2, <3>3
  <2> QED
    BY <2>1, <2>4, <2>5 DEF NodeWaits
<1>3. ASSUME NEW t \in tasks, Task(t) PROVE NodeWaits(n)'
  <2>1. UNCHANGED <<e2, assoc>> /\ nst[n] = "asked"
    BY <1>3 DEF Task, TaskAddress, TaskAdd, TaskPush, TaskCopy, TaskTell, TaskUnlock, TaskSend,
       ricVars, nodeVars, NodeTypes
  <2>2. ASSUME NEW u \in tasks, u.n = n, u.l = assoc[n]
        PROVE  \E v \in tasks' : v.n = n /\ v.l = assoc[n]
    <3>1. CASE u \in tasks'
      BY <2>2, <3>1
    <3>2. CASE TaskSend(t)
      <4>1. u # t
        BY <2>1, <2>2, <3>2 DEF TaskSend, NodeTypes
      <4> QED
        BY <2>2, <3>2, <4>1 DEF TaskSend
    <3>3. CASE \E st \in Steps : Goes(t, st)
      <4>1. PICK st \in Steps : Goes(t, st)
        BY <3>3
      <4>2. /\ \A v \in tasks : v # t => v \in tasks'
            /\ \E v \in tasks' : v.n = t.n /\ v.l = t.l
        BY <4>1, Moved
      <4> QED
        BY <2>2, <4>2
    <3>4. \/ tasks' = tasks \/ TaskSend(t) \/ \E st \in Steps : Goes(t, st)
      BY <1>3 DEF Task, TaskAddress, TaskAdd, TaskPush, TaskCopy, TaskTell, TaskUnlock, Steps
    <3> QED
      BY <2>2, <3>1, <3>2, <3>3, <3>4
  <2> QED
    BY <2>1, <2>2 DEF NodeWaits, Setup
<1>4. ASSUME UNCHANGED <<e2, tasks, nst, assoc>> PROVE NodeWaits(n)'
  BY <1>4 DEF NodeWaits, Setup
<1>5. UNCHANGED vars => UNCHANGED <<e2, tasks, nst, assoc>>
  BY DEF vars, ricVars, taskVars, nodeVars
<1>6. LoopErase \/ LoopForget \/ LoopRound \/ IApp => UNCHANGED <<e2, tasks, nst, assoc>>
  BY RoundFrame
    DEF LoopErase, LoopForget, IApp, IAppSetup, IAppRegister, IAppAnswer, ricVars, taskVars,
     nodeVars
<1>7. ASSUME NEW x \in XApps, XAppAsks(x) \/ XApp(x) \/ XAppDies(x)
      PROVE  UNCHANGED <<e2, tasks, nst, assoc>>
  BY <1>7 DEF XAppAsks, XApp, XAppSetup, XAppUpdate, XAppDies, ricVars, taskVars, nodeVars
<1> QED
  BY <1>1, <1>2, <1>3, <1>4, <1>5, <1>6, <1>7 DEF Next, Loop, LoopRound, LoopQuiet

\* An xApp's request is with the iApp until its answer is on the way.
LEMMA XAppWaitsStep ==
  ASSUME IAppTypes, InboxTypes, XAppTypes, RoundTypes, TaskTypes, HistoryTypes, [Next]_vars,
         NEW x \in XApps,
         xst[x] = "asking" => XAppWaits(x), xst'[x] = "asking"
  PROVE  XAppWaits(x)'
<1>0. e42 \in Seq(XApps)
  BY DEF IAppTypes
<1>1. ASSUME NEW y \in XApps, XAppAsks(y) PROVE XAppWaits(x)'
  <2>1. e42' = Append(e42, y) /\ UNCHANGED <<answer, inbox>>
    BY <1>1 DEF XAppAsks
  <2>2. /\ Len(e42) + 1 \in DOMAIN e42' /\ e42'[Len(e42) + 1] = y
        /\ \A i \in DOMAIN e42 : i \in DOMAIN e42' /\ e42'[i] = e42[i]
    BY <1>0, <2>1, Appended
  <2>3. y # x => xst[x] = "asking"
    BY <1>1 DEF XAppAsks, XAppTypes
  <2> QED
    BY <2>1, <2>2, <2>3 DEF XAppWaits, IsSetup
<1>2. ASSUME NEW y \in XApps, XApp(y) PROVE XAppWaits(x)'
  <2>1. UNCHANGED <<e42, answer>> /\ xst[x] = "asking"
    BY <1>2 DEF XApp, XAppSetup, XAppUpdate, iappVars, XAppTypes
  <2>2. CASE y # x
    <3>1. Receives(y, "setup") \/ Receives(y, "update")
      BY <1>2 DEF XApp, XAppSetup, XAppUpdate
    <3>2. inbox'[x] = inbox[x]
      BY <2>2, <3>1, Read
    <3> QED
      BY <2>1, <3>2 DEF XAppWaits, IsSetup
  <2>3. CASE y = x
    <3>1. Receives(x, "update")
      BY <1>2, <2>1, <2>3 DEF XApp, XAppSetup, XAppUpdate, XAppTypes
    <3>2. /\ inbox[x][1].type = "update"
          /\ \A i \in DOMAIN inbox'[x] : i \in Nat /\ inbox'[x][i] = inbox[x][i + 1]
          /\ \A i \in DOMAIN inbox[x] : i \in Nat /\ (i = 1 \/ i - 1 \in DOMAIN inbox'[x])
      BY <3>1, Read
    <3>3. ASSUME NEW i \in DOMAIN inbox[x], IsSetup(x, i) PROVE IsSetup(x, i - 1)'
      BY <3>2, <3>3 DEF IsSetup
    <3> QED
      BY <2>1, <3>3 DEF XAppWaits, IsSetup
  <2> QED
    BY <2>2, <2>3
<1>3. ASSUME NEW y \in XApps, XAppDies(y) PROVE XAppWaits(x)'
  <2>1. y # x /\ UNCHANGED <<e42, answer>> /\ inbox'[x] = inbox[x] /\ xst[x] = "asking"
    BY <1>3 DEF XAppDies, iappVars, XAppTypes, InboxTypes
  <2> QED
    BY <2>1 DEF XAppWaits, IsSetup
<1>4. CASE IAppSetup
  <2>1. /\ xst[x] = "asking" /\ UNCHANGED inbox /\ e42' = Tail(e42) /\ e42 # <<>>
        /\ answer = NoAnswer /\ answer'.x = Head(e42) /\ answer'.st = "register"
    BY <1>4 DEF IAppSetup, xappVars
  <2>2. /\ Head(e42) = e42[1]
        /\ \A i \in DOMAIN e42 : i \in Nat /\ (i = 1 \/ i - 1 \in DOMAIN e42')
        /\ \A i \in DOMAIN e42' : i \in Nat /\ e42'[i] = e42[i + 1]
    BY <1>0, <2>1, Taken
  <2>3. ASSUME NEW i \in DOMAIN e42, e42[i] = x PROVE XAppWaits(x)'
    <3>1. CASE i = 1
      BY <2>1, <2>2, <2>3, <3>1 DEF XAppWaits
    <3>2. CASE i # 1
      BY <2>2, <2>3, <3>2 DEF XAppWaits
    <3> QED
      BY <3>1, <3>2
  <2>4. answer.st = "none"
    BY <2>1 DEF NoAnswer
  <2> QED
    BY <2>1, <2>3, <2>4 DEF XAppWaits, IsSetup
<1>5. CASE IAppRegister
  <2>1. xst[x] = "asking" /\ UNCHANGED <<inbox, e42>> /\ answer'.x = answer.x /\ answer'.st # "none"
    BY <1>5 DEF IAppRegister, xappVars
  <2> QED
    BY <2>1 DEF XAppWaits, IsSetup
<1>6. CASE IAppAnswer
  <2> DEFINE m == [type |-> "setup", id |-> answer.id, list |-> answer.list]
  <2>1. answer.st = "send" /\ UNCHANGED e42 /\ ToXApp(answer.x, m) /\ xst[x] = "asking"
    BY <1>6 DEF IAppAnswer, xappVars
  <2>2. answer.x \in XApps /\ m \in XMessages
    BY <2>1 DEF IAppTypes, Answers, NoAnswer, XMessages
  <2>3. m.type = "setup"
    OBVIOUS
  <2> HIDE DEF m
  <2>4. /\ \A i \in DOMAIN inbox[x] : i \in DOMAIN inbox'[x] /\ inbox'[x][i] = inbox[x][i]
        /\ xst[answer.x] \notin {"aborted", "gone"} =>
             \E i \in DOMAIN inbox'[answer.x] : inbox'[answer.x][i] = m
    BY <2>1, <2>2, SentAll
  <2>5. answer.x = x => \E i \in DOMAIN inbox'[x] : inbox'[x][i] = m
    BY <2>1, <2>4
  <2> QED
    BY <2>1, <2>3, <2>4, <2>5 DEF XAppWaits, IsSetup
<1>7. ASSUME UpdateSent, UNCHANGED <<e42, answer, xst>> PROVE XAppWaits(x)'
  <2>1. PICK o \in DOMAIN xaddrs, nodes \in SUBSET Nodes, lacking \in SUBSET Nodes :
          SendUpdate(o, nodes, lacking)
    BY <1>7 DEF UpdateSent
  <2>2. xaddrs[o] \in XApps /\ \E m \in XMessages : ToXApp(xaddrs[o], m)
    BY <2>1, Updated, Zenon
  <2>3. \A i \in DOMAIN inbox[x] : i \in DOMAIN inbox'[x] /\ inbox'[x][i] = inbox[x][i]
    BY <2>2, SentAll
  <2> QED
    BY <1>7, <2>3 DEF XAppWaits, IsSetup
<1>8. ASSUME UNCHANGED <<e42, answer, inbox, xst>> PROVE XAppWaits(x)'
  BY <1>8 DEF XAppWaits, IsSetup
<1>9. UNCHANGED vars => UNCHANGED <<e42, answer, inbox, xst>>
  BY DEF vars, iappVars, xappVars
<1>10. LoopSetup \/ LoopShutdown \/ LoopErase \/ LoopForget \/ LoopQuiet =>
         UNCHANGED <<e42, answer, inbox, xst>>
  BY RoundFrame, QuietFrame
    DEF LoopSetup, LoopShutdown, LoopErase, LoopForget, iappVars, xappVars
<1>13. ASSUME NEW t \in tasks, TaskTell(t) PROVE XAppWaits(x)'
  <2>1. UNCHANGED <<e42, answer, xst>>
    BY <1>13 DEF TaskTell, xappVars, iappVars
  <2> QED
    BY <1>7, <1>8, <1>13, <2>1, TaskSends
<1>14. ASSUME LoopTell PROVE XAppWaits(x)'
  <2>1. UNCHANGED <<e42, answer, xst>>
    BY <1>14 DEF LoopTell, xappVars, iappVars
  <2> QED
    BY <1>7, <1>8, <1>14, <2>1, LoopSends
<1>11. ASSUME NEW n \in Nodes, NodeStart(n) \/ NodeRepeats(n) \/ NodeLeaves(n)
       PROVE  UNCHANGED <<e42, answer, inbox, xst>>
  BY <1>11 DEF NodeStart, NodeRepeats, NodeLeaves, iappVars, xappVars
<1>12. ASSUME NEW t \in tasks, Task(t), ~TaskTell(t)
       PROVE  UNCHANGED <<e42, answer, inbox, xst>>
  BY <1>12 DEF Task, TaskAddress, TaskAdd, TaskPush, TaskCopy, TaskUnlock, TaskSend, iappVars,
     xappVars
<1> QED
  BY <1>1, <1>2, <1>3, <1>4, <1>5, <1>6, <1>8, <1>9, <1>10, <1>11, <1>12, <1>13, <1>14
  DEF Next, Loop, LoopQuiet, IApp

\* Who holds the mutex is a task between pushing its node and releasing the mutex.
LEMMA HolderStep ==
  ASSUME TaskTypes, holder # NoTask => \E t \in tasks : Telling(t), [Next]_vars, holder' # NoTask
  PROVE  \E t \in tasks' : Telling(t)
<1> USE DEF Telling
<1>1. ASSUME NEW t \in tasks, TaskPush(t) \/ TaskCopy(t) PROVE \E u \in tasks' : Telling(u)
  <2>1. PICK st \in {"copy", "tell"} : Goes(t, st)
    BY <1>1 DEF TaskPush, TaskCopy
  <2>2. \E u \in tasks' : u.st = st
    BY <2>1, Moved DEF Steps
  <2> QED
    BY <2>2
<1>2. ASSUME NEW t \in tasks, TaskUnlock(t) PROVE FALSE
  BY <1>2 DEF TaskUnlock
<1>3. ASSUME NEW t \in tasks, TaskAddress(t) \/ TaskAdd(t) \/ TaskTell(t) \/ TaskSend(t)
      PROVE  \E u \in tasks' : Telling(u)
  <2>1. holder' = holder
    BY <1>3 DEF TaskAddress, TaskAdd, TaskTell, TaskSend
  <2>2. \A u \in tasks : Telling(u) => u \in tasks'
    BY <1>3 DEF TaskAddress, TaskAdd, TaskTell, TaskSend, Goes, At
  <2> QED
    BY <2>1, <2>2
<1>4. ASSUME tasks \subseteq tasks', UNCHANGED holder PROVE \E u \in tasks' : Telling(u)
  BY <1>4
<1>5. UNCHANGED vars => UNCHANGED <<tasks, holder>>
  BY DEF vars, taskVars
<1>6. LoopSetup => tasks \subseteq tasks' /\ UNCHANGED holder
  BY DEF LoopSetup
<1>7. LoopShutdown \/ LoopErase \/ LoopForget \/ LoopRound \/ IApp => UNCHANGED <<tasks, holder>>
  BY RoundFrame
    DEF LoopShutdown, LoopErase, LoopForget, IApp, IAppSetup, IAppRegister, IAppAnswer, taskVars
<1>8. ASSUME NEW x \in XApps, XAppAsks(x) \/ XApp(x) \/ XAppDies(x)
      PROVE  UNCHANGED <<tasks, holder>>
  BY <1>8 DEF XAppAsks, XApp, XAppSetup, XAppUpdate, XAppDies, taskVars
<1>9. ASSUME NEW n \in Nodes, NodeStart(n) \/ NodeRepeats(n) \/ NodeLeaves(n)
      PROVE  UNCHANGED <<tasks, holder>>
  BY <1>9 DEF NodeStart, NodeRepeats, NodeLeaves, taskVars
<1> QED
  BY <1>1, <1>2, <1>3, <1>4, <1>5, <1>6, <1>7, <1>8, <1>9
   DEF Next, Loop, LoopRound, LoopQuiet, Task

-----------------------------------------------------------------------------
(* The invariant and the theorems *)

\* The RIC starts with empty tables, empty sockets and no task.
LEMMA NodesInit == Init => NodesInv
<1> SUFFICES ASSUME Init PROVE NodesInv
  OBVIOUS
<1> USE DEF Init
<1>1. LoopTypes /\ RoundTypes /\ TableTypes /\ TaskTypes
  BY DEF LoopTypes, RoundTypes, TableTypes, TaskTypes, NoAssoc
<1>2. IAppTypes /\ InboxTypes
  BY DEF IAppTypes, InboxTypes
<1>3. XAppTypes /\ NodeTypes /\ HistoryTypes
  BY NodeBoundsAssumption DEF XAppTypes, NodeTypes, HistoryTypes
<1>4. Filling /\ InOrder
  BY NodeBoundsAssumption DEF Filling, InOrder, Setup, Down, Away, Pushed
<1>5. IdsGiven /\ InOnePlace /\ AnswerFirst
  BY DEF IdsGiven, InOnePlace, AnswerFirst, Registering, IsSetup, NoAnswer
<1>6. Unfailed /\ Manners
  BY DEF Unfailed, Failures, Manners, OneEach, Asking, Filled, Running, UpIsIn, LossIsIn,
       AwayIsHalf,
    TasksFill, OthersOut, Setup, Down, Away, Leaves, Entered, Alone, Whole, Pushed
<1> QED
  BY <1>1, <1>2, <1>3, <1>4, <1>5, <1>6 DEF NodesInv, Types

\* Every step of loop, tasks, iApp, xApps and nodes keeps the invariant.
LEMMA NodesStep == NodesInv /\ [Next]_vars => NodesInv'
<1> SUFFICES ASSUME NodesInv, [Next]_vars PROVE NodesInv'
  OBVIOUS
<1>0. /\ LoopTypes /\ RoundTypes /\ TableTypes /\ TaskTypes /\ IAppTypes /\ InboxTypes /\ XAppTypes
      /\ NodeTypes /\ HistoryTypes /\ Types
      /\ Filling /\ InOrder /\ IdsGiven /\ InOnePlace /\ AnswerFirst /\ Unfailed
      /\ (kept => OneEach /\ Asking /\ Filled /\ Running)
  BY DEF NodesInv, Types, Manners
<1>1. /\ LoopTypes' /\ RoundTypes' /\ TableTypes' /\ TaskTypes' /\ IAppTypes' /\ InboxTypes' /\ XAppTypes'
      /\ NodeTypes' /\ HistoryTypes'
  BY <1>0, LoopTypesStep, RoundTypesStep, TableTypesStep, TaskTypesStep, IAppTypesStep,
     InboxTypesStep,
     XAppTypesStep, NodeTypesStep, HistoryTypesStep, Zenon
<1>2. Filling' /\ InOrder' /\ IdsGiven' /\ InOnePlace' /\ AnswerFirst' /\ Unfailed'
  BY <1>0, FillingStep, InOrderStep, IdsGivenStep, InOnePlaceStep, AnswerFirstStep,
     UnfailedStep, Zenon
<1>3. ASSUME kept' PROVE (OneEach /\ Asking /\ Filled /\ Running)'
  BY <1>0, <1>3, KeptStays, MannersStep, Zenon
<1>4. Manners'
  BY <1>3, Zenon DEF Manners
<1> QED
  BY <1>1, <1>2, <1>4, Zenon DEF NodesInv, Types

\* The invariant from which the other theorems follow.
THEOREM NodesInvariant == Spec => []NodesInv
  BY NodesInit, NodesStep, PTL DEF Spec

\* The state has its types for any number of nodes, xApps, associations and faults: no
\* request of a node or of an xApp is counted beyond the faults that repeat it.
THEOREM TypeCorrect == Spec => []TypeOK
<1>1. NodesInv => TypeOK
  <2> SUFFICES ASSUME NodesInv PROVE TypeOK
    OBVIOUS
  <2>1. /\ LoopTypes /\ RoundTypes /\ TableTypes /\ TaskTypes /\ IAppTypes /\ InboxTypes /\ XAppTypes
        /\ NodeTypes /\ HistoryTypes /\ Unfailed
    BY DEF NodesInv, Types
  <2>2. /\ e2 \in Seq([type : {"setup", "shutdown"}, n : Nodes, l : 1..MaxStarts, k :
             0..MaxFaults+1])
        /\ at \in {"wait", "erase", "forget", "count", "copy", "tell"}
        /\ ev \in [n : Nodes, l : 1..MaxStarts] \cup {NoAssoc}
    BY <2>1 DEF LoopTypes, E2Messages
  <2>3. tasks \subseteq [n : Nodes, l : 1..MaxStarts, k : 1..MaxFaults+1,
                         st : {"address", "add", "lock", "copy", "tell", "send"}]
    BY <2>1 DEF TaskTypes, Tasks, Steps
  <2>4. holder \in Requests \cup {NoTask} /\ count \in Nat /\ told \in 0..count /\
          list \subseteq Nodes
    BY <2>1 DEF TaskTypes
  <2>5. /\ asked \in [XApps -> 0..MaxFaults+1] /\ tries \in [Nodes -> 0..MaxFaults+1]
    BY <2>1, NodeBoundsAssumption DEF XAppTypes, NodeTypes
  <2>6. abort \in {"none", "no_address", "addresses_differ", "node_not_found", "not_registered",
                   "node_exists", "xapp_not_found", "xapp_exists"}
    BY <2>1 DEF Unfailed, Failures
  <2>7. /\ e42 \in Seq(XApps) /\ nextId \in Nat \ {0} /\ xaddrs \in Seq(XApps)
        /\ answer \in [x : XApps, id : Nat \ {0}, list : SUBSET Nodes, st : {"register",
             "send"}]
                      \cup {NoAnswer}
        /\ inbox \in [XApps -> Seq([type : {"setup", "update"}, id : Nat \ {0},
                                    list : SUBSET Nodes])]
    BY <2>1 DEF IAppTypes, InboxTypes, Answers, XMessages
  <2>8. lcount \in Nat /\ ltold \in 0..lcount /\ llist \subseteq Nodes
    BY <2>1 DEF RoundTypes
  <2> QED
    BY <2>1, <2>2, <2>3, <2>4, <2>5, <2>6, <2>7, <2>8
      DEF TypeOK, TableTypes, XAppTypes, NodeTypes,
         HistoryTypes
<1> QED
  BY <1>1, NodesInvariant, PTL

\* The id an xApp works with is its own, and the one the iApp finds for it unless it has
\* asked twice: for as many xApps, repetitions and nodes as there are.
THEOREM OwnIds == Spec => []IdsAreOwn
<1>1. NodesInv => IdsAreOwn
  <2> SUFFICES ASSUME NodesInv, NEW x \in XApps, xid[x] # 0
               PROVE  /\ xid[x] \in DOMAIN xaddrs /\ xaddrs[xid[x]] = x
                      /\ asked[x] = 1 => FoundId(x) = xid[x]
    BY DEF IdsAreOwn
  <2>1. xid[x] \in DOMAIN xaddrs /\ xaddrs[xid[x]] = x
    BY DEF NodesInv, IdsGiven
  <2>2. ASSUME asked[x] = 1 PROVE FoundId(x) = xid[x]
    <3> DEFINE P(i) == xaddrs[i] = x /\ \A j \in 1..i-1 : xaddrs[j] # x
    <3>1. \A i, j \in DOMAIN xaddrs : xaddrs[i] = x /\ xaddrs[j] = x => i = j
      BY <2>2 DEF NodesInv, InOnePlace
    <3>2. \A i \in DOMAIN xaddrs : i \in Nat /\ \A j \in 1..i-1 : j \in DOMAIN xaddrs /\ j # i
      BY DEF NodesInv, Types, IAppTypes
    <3>3. P(xid[x])
      BY <2>1, <3>1, <3>2
    <3>4. \A i \in DOMAIN xaddrs : P(i) => i = xid[x]
      BY <2>1, <3>1
    <3>5. FoundId(x) = CHOOSE i \in DOMAIN xaddrs : P(i)
      BY DEF FoundId
    <3> HIDE DEF P
    <3> QED
      BY <2>1, <3>3, <3>4, <3>5, Zenon
  <2> QED
    BY <2>1, <2>2
<1> QED
  BY <1>1, NodesInvariant, PTL

\* The three tables of the RIC agree however many tasks fill them while the loop clears
\* them.
THEOREM AgreeingTables == Spec => []TablesAgree
<1>1. NodesInv => TablesAgree
  <2> SUFFICES ASSUME NodesInv PROVE TablesAgree
    OBVIOUS
  <2>1. conn \subseteq reg
    BY DEF NodesInv, Filling
  <2>2. \A n \in Nodes : nst[n] = "up" => n \in conn /\ \E a \in addrs : a.n = n /\
          a.l = assoc[n]
    BY DEF NodesInv, InOrder
  <2>3. ASSUME kept, NEW n \in reg, nst[n] = "off" PROVE Leaving(n)
    <3>1. n \in Nodes /\ Asking /\ OthersOut
      BY <2>3 DEF NodesInv, Types, TableTypes, Manners, Filled
    <3>2. Leaves(n)
      BY <2>3, <3>1 DEF Asking, OthersOut
    <3> QED
      BY <3>2 DEF Leaves, Leaving, Down, Away, ToSet
  <2> QED
    BY <2>1, <2>2, <2>3 DEF TablesAgree
<1> QED
  BY <1>1, NodesInvariant, PTL

\* No lookup of an id by a task or by the loop, no registration of an id and no removal from
\* the iApp's registry fails, whatever nodes and xApps do; an xApp fails only when a task or
\* the loop sent it an update before its answer; nodes that keep their manners stop nobody.
THEOREM OnlyForeseenFailures == Spec => []FailuresForeseen
<1>1. NodesInv => FailuresForeseen
  BY DEF NodesInv, FailuresForeseen, Unfailed, AnswerFirst, Manners
<1> QED
  BY <1>1, NodesInvariant, PTL

\* Every node that has been pushed, and so every node that has been answered, is known to
\* every connected xApp or on its way to it, for any number of nodes and xApps, unless, since
\* the last update sent to it, the xApp was not counted for the node, or that update was one
\* of the loop's whose copy is older than the node: no other order of tasks, answers and the
\* loop's updates leaves an xApp with an older registry.
THEOREM NodesAreAnnounced == Spec => []NodesAnnounced
<1>1. Init => Announcing
  BY DEF Init, Announcing, Holding, PushedOnce, CopyWhole, Listed, HasId, Announced, Arrived
<1>2. NodesInv /\ Announcing /\ [Next]_vars => Announcing'
  <2> SUFFICES ASSUME NodesInv, Announcing, [Next]_vars PROVE Announcing'
    OBVIOUS
  <2>1. /\ RoundTypes /\ TableTypes /\ TaskTypes /\ IAppTypes /\ InboxTypes /\ XAppTypes
        /\ NodeTypes /\ HistoryTypes /\ Filling /\ InOrder /\ IdsGiven
        /\ Holding /\ PushedOnce /\ CopyWhole /\ Listed /\ HasId /\ Announced
    BY DEF NodesInv, Types, Announcing
  <2>2. Holding' /\ PushedOnce' /\ CopyWhole' /\ Listed' /\ HasId' /\ Announced'
    BY <2>1, HoldingStep, PushedOnceStep, CopyWholeStep, ListedStep, HasIdStep, AnnouncedStep,
       Zenon
  <2> QED
    BY <2>2, Zenon DEF Announcing
<1>3. NodesInv /\ Announcing => NodesAnnounced
  <2> SUFFICES ASSUME NodesInv, Announcing, NEW x \in XApps, NEW n \in Nodes, nst[n] = "up",
                      xst[x] = "connected", <<x, n>> \notin missed
               PROVE  WillKnow(x, n)
    BY DEF NodesAnnounced
  <2>1. WillKnow(x, n) \/ ToBeTold(x, n) \/ NamedToNew(x, n)
    BY DEF Announcing, Announced, Arrived
  <2>2. ~ToBeTold(x, n)
    BY DEF Announcing, PushedOnce, ToBeTold, Current, Pushed, Telling
  <2>3. ~NamedToNew(x, n)
    BY DEF NamedToNew
  <2> QED
    BY <2>1, <2>2, <2>3
<1>4. Spec => []Announcing
  BY <1>1, <1>2, NodesInvariant, PTL DEF Spec
<1> QED
  BY <1>3, <1>4, NodesInvariant, PTL

\* Nobody is left waiting: when loop, workers, iApp and xApps can do no more, every node
\* and every xApp that asked has been answered.  No answer is lost between the threads, and
\* no task keeps conn_e2_nodes_mtx, however many nodes, xApps, repetitions and losses there
\* are.  It is the second part of NobodyWaits, whose first, that Idle leaves out no way to
\* go on, is about ENABLED.
THEOREM NobodyIsForgotten == Spec => [](Idle => AllAnswered)
<1>1. Init => Awaiting
  BY DEF Init, Awaiting
<1>2. NodesInv /\ Awaiting /\ [Next]_vars => Awaiting'
  <2> SUFFICES ASSUME NodesInv, Awaiting, [Next]_vars PROVE Awaiting'
    OBVIOUS
  <2>1. /\ LoopTypes /\ RoundTypes /\ TaskTypes /\ IAppTypes /\ InboxTypes /\ XAppTypes
        /\ NodeTypes /\ HistoryTypes
    BY DEF NodesInv, Types
  <2>2. ASSUME NEW n \in Nodes, nst'[n] = "asked" PROVE NodeWaits(n)'
    BY <2>1, <2>2, NodeWaitsStep DEF Awaiting
  <2>3. ASSUME NEW x \in XApps, xst'[x] = "asking" PROVE XAppWaits(x)'
    BY <2>1, <2>3, XAppWaitsStep DEF Awaiting
  <2>4. holder' # NoTask => \E t \in tasks' : Telling(t)
    BY <2>1, HolderStep DEF Awaiting
  <2> QED
    BY <2>2, <2>3, <2>4 DEF Awaiting, Telling
<1>3. Awaiting /\ Idle => AllAnswered
  <2> SUFFICES ASSUME Awaiting, Idle
               PROVE  AllAnswered
    OBVIOUS
  <2>1. holder = NoTask
    BY DEF Awaiting, Idle, Telling
  <2>2. tasks = {} /\ e2 = <<>> /\ e42 = <<>> /\ answer.st = "none"
    BY <2>1 DEF Idle, NoAnswer
  <2>3. ASSUME NEW x \in XApps, xst[x] = "asking" PROVE ~XAppWaits(x)
    BY <2>2, <2>3 DEF Idle, XAppWaits, IsSetup
  <2>4. ASSUME NEW n \in Nodes PROVE ~NodeWaits(n)
    BY <2>2 DEF NodeWaits
  <2> QED
    BY <2>3, <2>4 DEF Awaiting, AllAnswered
<1>4. Spec => []Awaiting
  BY <1>1, <1>2, NodesInvariant, PTL DEF Spec
<1> QED
  BY <1>3, <1>4, PTL
=============================================================================
