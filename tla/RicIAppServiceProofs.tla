------------------------ MODULE RicIAppServiceProofs ------------------------
(***************************************************************************)
(* What xApps and the near-RT RIC are to each other, for every number of   *)
(* xApps, nodes and requests, if no two xApps use the same RAN function:   *)
(*   NoCallIsLost        while every node is connected, the call of a live *)
(*                       xApp is somewhere under way until it returns;     *)
(*   ServiceImplemented  RicIApp implements RequestService.                *)
(*                                                                         *)
(* Routing says that a call is in one place at most.  CallsCarried says    *)
(* that it is in one: every step that takes a call from its place puts it  *)
(* into the next, one lemma per place.                                     *)
(*                                                                         *)
(* The refinement maps a subscription to the nodes in whose table it is.   *)
(* A node that adds or removes a subscription does what the service calls  *)
(* Start or Stop, and the worker that sends an answer does Answer, at      *)
(* which moment the call has had its effect (EffectFirst).  Every other    *)
(* step of RIC and iApp is a stutter.  Three parts of Routing are there    *)
(* for this: Directed, Located and Quiet.                                  *)
(***************************************************************************)
EXTENDS RicIAppProofs

-----------------------------------------------------------------------------
(* No call is lost *)

\* While the nodes are connected, the call of a live xApp is in one of the places.
CallsCarried ==
  (\A n \in Nodes : up[n]) => \A x \in XApps : alive[x] /\ xcall[x] # <<>> => Carriers(x) # {}

\* What is to be answered is answered, or its answer waits for the look-up.
LEMMA TokensGoOn ==
  ASSUME Types, OneAnswer, Next, abort' = "none", \A n \in Nodes : up[n] /\ up'[n]
  PROVE  Tokens \subseteq Tokens' \cup Finding'
<1> USE DEF Tokens
<1>1. CASE ISend
  <2>1. IAppStep /\ ireq.n \in Nodes
    BY <1>1, Entry DEF IAppStep, Types, IAppTypes, ISend
  <2>2. Queued \cup {<<ireq.op, iid>>} \subseteq Queued'
    BY <1>1, <2>1, QueuedWhenConnected
  <2>3. Answers' = Answers /\ Sending = {<<ireq.op, iid>>}
    BY <1>1, <2>1, TokensAfterForward
  <2> QED
    BY <2>2, <2>3
<1>2. ASSUME NEW n \in Nodes, NodeStep(n) PROVE Tokens \subseteq Tokens' \cup Finding'
  <2>1. CASE NAnswer(n)
    BY <2>1, TokensAfterAnswer, QueuedButAnswered
  <2>2. ~NLeave(n)
    BY DEF NLeave, Types, LoopTypes
  <2>3. ASSUME NEW i \in Ids, NIndicate(n, i) PROVE Tokens \subseteq Tokens'
    <3>1. Answers' = Answers /\ UNCHANGED <<toN, ipc, ireq, iid>>
      BY <2>3, TokensAfterRest DEF NIndicate, msgVars, iappVars
    <3> QED
      BY <3>1 DEF Sending, Queued
  <2> QED
    BY <1>2, <2>1, <2>2, <2>3 DEF NodeStep
<1>3. ASSUME NEW t \in tasks, TaskStep(t) PROVE Tokens \subseteq Tokens' \cup Finding'
  <2>1. CASE TStop(t)
    BY <2>1, TokensAfterStop
  <2>2. CASE TFind(t) \/ TSend(t) \/ TRemove(t)
    <3>1. Answers' = Answers
      BY <2>2, TokensAfterFind, TokensAfterRest
    <3>2. UNCHANGED <<toN, ipc, ireq, iid>>
      BY <2>2 DEF TFind, TSend, TRemove, Fail, msgVars, iappVars
    <3> QED
      BY <3>1, <3>2 DEF Sending, Queued
  <2> QED
    BY <1>3, <2>1, <2>2 DEF TaskStep
<1>4. CASE IForward \/ (\E d \in ilist : IForwardDelete(d)) \/ IAdd
           \/ \E m \in toIApp : IRequest(m) \/ IDelete(m) \/ IGone(m)
  BY <1>4, TokensAfterForward DEF IAppStep
<1>5. CASE LoopStep \/ Deliver \/ \E x \in XApps : XStep(x)
  BY <1>5, TokensElsewhere
<1> QED
  BY <1>1, <1>2, <1>3, <1>4, <1>5 DEF Next, IAppStep

\* The look-up ends only with the look-up.
LEMMA FindingGoesOn ==
  ASSUME Types, Next, abort' = "none", ~\E t \in tasks : TFind(t)
  PROVE  Finding \subseteq Finding'
<1>1. \A u \in tasks : u.pc = "find" => u \in tasks'
  <2>1. ASSUME NEW t \in tasks, TStop(t) \/ TSend(t) \/ TRemove(t)
        PROVE  \A u \in tasks : u.pc = "find" => u \in tasks'
    BY <2>1 DEF TStop, TSend, TRemove, Step, Finish, Fail
  <2>2. ASSUME NEW n \in Nodes, NAnswer(n) \/ \E i \in Ids : NIndicate(n, i) PROVE tasks \subseteq tasks'
    BY <2>2 DEF NAnswer, NIndicate
  <2> QED
    BY <2>1, <2>2, TaskWriters DEF TaskStep
<1> QED
  BY <1>1 DEF Finding

\* The owner of an id under way for a live xApp stays, or its answer has been sent.
LEMMA OwnerStays ==
  ASSUME Types, Issued, Held, Next, abort' = "none",
         NEW x \in XApps, alive[x], NEW i \in Ids, Owner(i) # NoEntry, Owner(i).x = x,
         NEW op \in Ops, xcall[x] = <<op, Owner(i).l>>
  PROVE  Owner(i)' = Owner(i) \/ Replies(x)' # {}
<1>1. CASE IForward
  <2>1. i # nextId
    <3>1. ~Adding
      BY <1>1, Entry DEF IForward, Adding
    <3>2. nextId \in Nat /\ (i = nextId => map[i] = NoEntry)
      BY NextIdGrows DEF Issued, Ids
    <3> QED
      BY <3>1, <3>2 DEF Owner
  <2> QED
    BY <1>1, <2>1, OwnerStep
<1>2. ASSUME NEW t \in tasks, TRemove(t) PROVE Owner(i)' = Owner(i) \/ Replies(x)' # {}
  <2>1. CASE i \in Owned(t.to)
    <3>1. ~Adding
      BY <1>2 DEF TRemove, Adding, Types, IAppTypes
    <3>2. t.pc = "rm" /\ t.to.x = x /\ t.to.l = Owner(i).l
      BY <1>2, <2>1, <3>1 DEF Owned, Owner, TRemove
    <3>3. Replies(x) # {}
      BY <3>2 DEF Held, HeldBy
    <3>4. toX' = toX
      BY <1>2 DEF TRemove, Fail, msgVars
    <3> QED
      BY <3>3, <3>4 DEF Replies
  <2>2. CASE i \notin Owned(t.to)
    BY <1>2, <2>2, OwnerStep
  <2> QED
    BY <2>1, <2>2
<1>3. CASE ~IForward /\ ~\E t \in tasks : TRemove(t)
  BY <1>3, OwnerStep
<1> QED
  BY <1>1, <1>2, <1>3

\* A request is taken, or found to be a deletion.
LEMMA AskedGoesOn ==
  ASSUME OwnRanFunc, Types, Next, abort' = "none", NEW x \in XApps, Asked(x) # {}
  PROVE  Carriers(x)' # {}
<1>1. PICK m \in toIApp : m.op # "gone" /\ m.x = x
  BY DEF Asked
<1>2. CASE m \in toIApp'
  <2>1. <<"req", m, <<m.op, m.l>> >> \in Asked(x)'
    BY <1>1, <1>2 DEF Asked
  <2> QED
    BY <2>1 DEF Carriers
<1>3. CASE m \notin toIApp'
  <2>1. IRequest(m) \/ IDelete(m)
    <3>1. ASSUME NEW k \in toIApp, IRequest(k) \/ IDelete(k) \/ IGone(k)
          PROVE  k = m /\ (IRequest(m) \/ IDelete(m))
      BY <1>1, <1>3, <3>1 DEF IRequest, IDelete, IGone, Fail, msgVars
    <3>2. ~UNCHANGED toIApp
      BY <1>3
    <3>3. /\ ~\E y \in XApps, n \in Nodes, op \in {"sub", "ctrl"} : XRequest(y, n, op)
          /\ ~\E y \in XApps, l \in Locals : XDelete(y, l)
          /\ ~\E k \in toX : SendFailed(k)
      BY <1>3 DEF XRequest, XDelete, SendFailed
    <3> QED
      BY <3>1, <3>2, <3>3, RequestWriters
  <2>2. CASE IRequest(m)
    <3>1. ipc' = "fwd" /\ ireq' = m
      BY <2>2 DEF IRequest, Fail
    <3>2. Taken(x)' # {}
      BY <1>1, <3>1 DEF Taken
    <3> QED
      BY <3>2 DEF Carriers
  <2>3. CASE IDelete(m)
    <3>1. PICK i \in Found(m) : ilist' = {<<i, map[i].n>>} /\ map' = map
      BY <2>3 DEF IDelete, Fail, ricVars
    <3>2. map[i] # NoEntry /\ map[i].x = x
      BY <1>1, <2>3, FoundOwn, Entry DEF IDelete
    <3> DEFINE d == <<i, map[i].n>>
    <3>3. d \in ilist' /\ map'[d[1]] # NoEntry /\ map'[d[1]].x = x
      BY <3>1, <3>2
    <3> HIDE DEF d
    <3>4. <<"list", d, <<"del", map'[d[1]].l>> >> \in Listed(x)'
      BY <3>3 DEF Listed
    <3> QED
      BY <3>4 DEF Carriers
  <2> QED
    BY <2>1, <2>2, <2>3
<1> QED
  BY <1>2, <1>3

\* What the iApp thread has taken gets an id.
LEMMA TakenGoesOn ==
  ASSUME Types, Next, abort' = "none", NEW x \in XApps, Taken(x) # {}
  PROVE  Carriers(x)' # {}
<1>1. ipc = "fwd" /\ ireq.x = x /\ ireq \in Entries /\ nextId \in Ids
  BY DEF Taken, Types, IAppTypes
<1>2. CASE IForward
  <2>0. PICK i \in Ids, op \in {"sub", "ctrl"} : i = nextId /\ op = ireq.op
    BY <1>1, Entry
  <2>1. Sending' = {<<op, i>>}
    BY <1>2, <2>0, TokensAfterForward DEF IAppStep
  <2>2. Owner(i)' = ireq
    BY <1>2, <2>0, OwnerStep
  <2>3. <<op, i>> \in Tokens' /\ OfX(x, <<op, i>>)'
    BY <1>1, <2>1, <2>2, Entry DEF OfX, Tokens
  <2>4. <<"tok", <<op, i>>, <<op, Owner(i)'.l>> >> \in Sent(x)'
    BY <2>3 DEF Sent
  <2> QED
    BY <2>4 DEF Carriers
<1>3. CASE ~IForward
  <2>1. ipc' = ipc /\ ireq' = ireq
    <3>1. ~IAppStep
      BY <1>1, <1>3 DEF IAppStep, IRequest, IDelete, IGone, ISend, IAdd, IForwardDelete
    <3> QED
      BY <3>1, IAppWriters DEF iappVars
  <2>2. Taken(x)' # {}
    BY <1>1, <2>1 DEF Taken
  <2> QED
    BY <2>2 DEF Carriers
<1> QED
  BY <1>2, <1>3

\* What the iApp thread is to delete stays on its list until the deletion is sent; one
\* already pending is on its way.
LEMMA ListedGoesOn ==
  ASSUME Types, Held, OneCarrier, OneAnswer, Awaited, Next, abort' = "none",
         \A n \in Nodes : up[n], NEW x \in XApps, alive[x], Listed(x) # {}
  PROVE  Carriers(x)' # {}
<1>1. PICK d \in ilist : map[d[1]] # NoEntry /\ map[d[1]].x = x
  BY DEF Listed
<1>2. PICK i \in Ids : i = d[1]
  BY DEF Types, IAppTypes
<1>3. ipc # "epoll" /\ ipc # "fwd" /\ ipc # "add" /\ ~Adding /\ Owner(i) = map[i]
  BY <1>2 DEF Types, IAppTypes, Adding, Owner
<1>4. ~IForward /\ ~IAdd /\ ~\E m \in toIApp : IRequest(m) \/ IDelete(m) \/ IGone(m)
  BY <1>3 DEF IForward, IAdd, IRequest, IDelete, IGone
<1>5. xcall[x] = <<"del", map[i].l>>
  <2> DEFINE c == <<"list", d, <<"del", map[d[1]].l>> >>
  <2>1. c \in Carriers(x) /\ c[3] = <<"del", map[i].l>>
    BY <1>1, <1>2 DEF Listed, Carriers
  <2> QED
    BY <2>1 DEF OneCarrier, Single
<1>6. ASSUME d \in ilist', map'[i] = map[i] PROVE Carriers(x)' # {}
  <2>1. <<"list", d, <<"del", map'[d[1]].l>> >> \in Listed(x)'
    BY <1>1, <1>2, <1>6 DEF Listed
  <2> QED
    BY <2>1 DEF Carriers
<1>7. ASSUME IForwardDelete(d) PROVE Carriers(x)' # {}
  <2>1. /\ Queued' = Queued /\ Answers' = Answers /\ Sending = {}
        /\ \/ <<"del", i>> \in pending
           \/ Sending' = {<<"del", i>>}
    <3>1. /\ Queued' = Queued /\ Sending = {}
          /\ \/ Sending' = {} /\ pending' = pending
             \/ Sending' = {<<"del", d[1]>>}
      BY <1>7, TokensAfterForward DEF IAppStep
    <3>2. <<"del", d[1]>> \in pending'
      BY <1>7 DEF IForwardDelete
    <3>3. Answers' = Answers
      BY <1>7, TokensAfterForward DEF IAppStep
    <3> QED
      BY <1>2, <3>1, <3>2, <3>3
  <2>2. <<"del", i>> \in Tokens'
    BY <2>1 DEF Tokens, Awaited
  <2>3. Owner(i)' = map[i]
    <3>1. ~\E t \in tasks : TRemove(t)
      BY <1>7, <1>3 DEF TRemove, IForwardDelete, Fail, iappVars
    <3> QED
      BY <1>3, <1>4, <3>1, OwnerStep
  <2>4. OfX(x, <<"del", i>>)'
    BY <1>1, <1>2, <2>3 DEF OfX
  <2>5. <<"tok", <<"del", i>>, <<"del", Owner(i)'.l>> >> \in Sent(x)'
    BY <2>2, <2>4 DEF Sent
  <2> QED
    BY <2>5 DEF Carriers
<1>8. ASSUME NEW e \in ilist, e # d, IForwardDelete(e) PROVE Carriers(x)' # {}
  <2>1. d \in ilist' /\ map' = map
    BY <1>8 DEF IForwardDelete
  <2> QED
    BY <1>6, <2>1
<1>9. ASSUME NEW t \in tasks, TRemove(t) PROVE Carriers(x)' # {}
  <2>1. d \in ilist' /\ toX' = toX /\ t.pc = "rm"
    BY <1>9 DEF TRemove, Fail, msgVars, iappVars
  <2>2. CASE i \in Owned(t.to)
    <3>1. t.to.x = x /\ t.to.l = map[i].l
      BY <1>1, <1>2, <2>2 DEF Owned
    <3>2. Replies(x) # {}
      BY <1>5, <2>1, <3>1 DEF Held, HeldBy, Ops
    <3>3. Replies(x)' = Replies(x)
      BY <2>1 DEF Replies
    <3> QED
      BY <3>2, <3>3 DEF Carriers
  <2>3. CASE i \notin Owned(t.to)
    <3>1. map'[i] = map[i]
      BY <1>9, <2>3 DEF TRemove, Fail, ricVars
    <3> QED
      BY <1>6, <2>1, <3>1
  <2> QED
    BY <2>2, <2>3
<1>10. CASE ISend \/ UNCHANGED <<wlock, iappVars>>
  <2>1. ilist' = ilist
    BY <1>10 DEF ISend, Fail, iappVars
  <2>2. CASE map' = map
    BY <1>6, <2>1, <2>2
  <2>3. CASE \E t \in tasks : TRemove(t)
    BY <1>9, <2>3
  <2> QED
    BY <1>4, <2>2, <2>3, MapWriters
<1> QED
  BY <1>4, <1>7, <1>8, <1>10, IAppWriters DEF IAppStep

\* A request sent is answered.
LEMMA SentGoesOn ==
  ASSUME Types, OneAnswer, Issued, Held, OneCarrier, Next, abort' = "none",
         \A n \in Nodes : up[n] /\ up'[n], NEW x \in XApps, alive[x], Sent(x) # {}
  PROVE  Carriers(x)' # {}
<1>1. PICK k \in Tokens : OfX(x, k)
  BY DEF Sent
<1>2. k \in Ops \X Ids
  BY <1>1, TokensTyped
<1>3. xcall[x] = <<k[1], Owner(k[2]).l>>
  BY <1>1, Carried
<1>4. k \in Tokens' \cup Finding'
  BY TokensGoOn
<1>5. Owner(k[2])' = Owner(k[2]) \/ Replies(x)' # {}
  BY <1>1, <1>2, <1>3, OwnerStays DEF OfX
<1>6. CASE Owner(k[2])' = Owner(k[2])
  <2>1. OfX(x, k)'
    BY <1>1, <1>6 DEF OfX
  <2>2. Sent(x)' # {} \/ Back(x)' # {}
    BY <1>4, <2>1 DEF Sent, Back
  <2> QED
    BY <2>2 DEF Carriers
<1> QED
  BY <1>5, <1>6 DEF Carriers

\* An answer that stopped its timer is routed to the xApp.
LEMMA BackGoesOn ==
  ASSUME Types, OneAnswer, Issued, Kinds, Held, OneCarrier, Next, abort' = "none",
         NEW x \in XApps, alive[x], Back(x) # {}
  PROVE  Carriers(x)' # {}
<1>1. PICK u \in tasks : u.pc = "find" /\ u.op # "ind" /\ OfX(x, <<u.op, u.i>>)
  BY DEF Back, Finding
<1>2. <<u.op, u.i>> \in Finding /\ u.op \in Ops /\ u.i \in Ids
  BY <1>1 DEF Finding, Types, TaskTypes, Tasks
<1>3. CASE TFind(u)
  <2>1. map[u.i] # NoEntry /\ map[u.i].x = x
    BY <1>1, <1>3, FoundOwner DEF OfX
  <2> DEFINE v == [u EXCEPT !.to = map[u.i], !.pc = "tx"]
  <2>2. v \in tasks'
    BY <1>3, <2>1 DEF TFind, Step
  <2>3. v.pc = "tx" /\ v.op # "ind" /\ v.to.x = x
    BY <1>1, <2>1 DEF Types, TaskTypes, Tasks
  <2> HIDE DEF v
  <2>4. Routed(x)' # {}
    BY <2>2, <2>3 DEF Routed
  <2> QED
    BY <2>4 DEF Carriers
<1>4. CASE ~TFind(u)
  <2>1. <<u.op, u.i>> \in Finding'
    <3>1. CASE \E t \in tasks : TFind(t)
      <4>1. PICK t \in tasks : TFind(t)
        BY <3>1
      <4>2. t # u
        BY <1>4, <4>1
      <4>3. u \in tasks'
        BY <4>1, <4>2 DEF TFind, Step, Finish
      <4> QED
        BY <1>1, <4>3 DEF Finding
    <3>2. CASE ~\E t \in tasks : TFind(t)
      BY <1>2, <3>2, FindingGoesOn
    <3> QED
      BY <3>1, <3>2
  <2>2. xcall[x] = <<u.op, Owner(u.i).l>>
    <3> DEFINE k == <<u.op, u.i>>
    <3>1. k \in Tokens \cup Finding /\ OfX(x, k) /\ k[1] = u.op /\ k[2] = u.i
      BY <1>1, <1>2
    <3> HIDE DEF k
    <3> QED
      BY <3>1, Carried
  <2>3. Owner(u.i)' = Owner(u.i) \/ Replies(x)' # {}
    BY <1>1, <1>2, <2>2, OwnerStays DEF OfX
  <2>4. CASE Owner(u.i)' = Owner(u.i)
    <3>1. OfX(x, <<u.op, u.i>>)'
      BY <1>1, <2>4 DEF OfX
    <3>2. Back(x)' # {}
      BY <2>1, <3>1 DEF Back
    <3> QED
      BY <3>2 DEF Carriers
  <2> QED
    BY <2>3, <2>4 DEF Carriers
<1> QED
  BY <1>3, <1>4

\* The worker that found the xApp answers it.
LEMMA RoutedGoesOn ==
  ASSUME Types, Next, abort' = "none", NEW x \in XApps, Routed(x) # {}
  PROVE  Carriers(x)' # {}
<1>1. PICK u \in tasks : u.pc = "tx" /\ u.op # "ind" /\ u.to.x = x
  BY DEF Routed
<1>2. CASE TSend(u)
  <2> DEFINE m == [x |-> u.to.x, l |-> u.to.l, op |-> u.op]
  <2>1. m \in toX' /\ m.op # "ind" /\ m.x = x
    BY <1>1, <1>2 DEF TSend
  <2> HIDE DEF m
  <2>2. Replies(x)' # {}
    BY <2>1 DEF Replies
  <2> QED
    BY <2>2 DEF Carriers
<1>3. CASE ~TSend(u)
  <2>1. u \in tasks'
    <3>1. ASSUME NEW t \in tasks, TaskStep(t) PROVE u \in tasks'
      <4>1. t # u \/ tasks' = tasks
        BY <1>1, <1>3, <3>1 DEF TaskStep, TStop, TFind, TRemove
      <4> QED
        BY <3>1, <4>1 DEF TaskStep, TStop, TFind, TSend, TRemove, Step, Finish, Fail
    <3>2. ASSUME NEW n \in Nodes, NAnswer(n) \/ \E i \in Ids : NIndicate(n, i) PROVE u \in tasks'
      BY <3>2 DEF NAnswer, NIndicate
    <3> QED
      BY <3>1, <3>2, TaskWriters
  <2>2. Routed(x)' # {}
    BY <1>1, <2>1 DEF Routed
  <2> QED
    BY <2>2 DEF Carriers
<1> QED
  BY <1>2, <1>3

\* An answer waits for its xApp, and ends the call.
LEMMA RepliesGoOn ==
  ASSUME Types, OneCarrier, Next, abort' = "none", NEW x \in XApps, alive[x], Replies(x) # {}
  PROVE  Carriers(x)' # {} \/ xcall'[x] = <<>>
<1>1. PICK m \in toX : m.op # "ind" /\ m.x = x
  BY DEF Replies
<1>2. CASE m \in toX'
  <2>1. Replies(x)' # {}
    BY <1>1, <1>2 DEF Replies
  <2> QED
    BY <2>1 DEF Carriers
<1>3. CASE m \notin toX'
  <2>1. XReceive(m)
    <3>1. ~\E t \in tasks : TSend(t)
      BY <1>3 DEF TSend
    <3>2. ~UNCHANGED toX
      BY <1>3
    <3>3. ASSUME NEW r \in toX, XReceive(r) \/ SendFailed(r) PROVE r = m /\ XReceive(m)
      BY <1>1, <1>3, <3>3 DEF XReceive, SendFailed
    <3> QED
      BY <3>1, <3>2, <3>3, ReplyWriters
  <2>2. xcall[x] = <<m.op, m.l>>
    BY <1>1, Carried
  <2>3. xcall' = [xcall EXCEPT ![x] = <<>>]
    BY <1>1, <2>1, <2>2 DEF XReceive
  <2> QED
    BY <2>3 DEF Types, XAppTypes
<1> QED
  BY <1>2, <1>3

\* A new call is with the iApp.
LEMMA CallBegins ==
  ASSUME NEW x \in XApps,
         \/ \E n \in Nodes, op \in {"sub", "ctrl"} : XRequest(x, n, op)
         \/ \E l \in Locals : XDelete(x, l)
  PROVE  Carriers(x)' # {}
<1>1. \E m \in toIApp' : m.op # "gone" /\ m.x = x
  <2>1. ASSUME NEW n \in Nodes, NEW op \in {"sub", "ctrl"}, XRequest(x, n, op)
        PROVE  \E m \in toIApp' : m.op # "gone" /\ m.x = x
    <3> DEFINE r == [x |-> x, l |-> xnext[x], n |-> n, op |-> op]
    <3>1. r \in toIApp' /\ r.op # "gone" /\ r.x = x
      BY <2>1 DEF XRequest
    <3> QED
      BY <3>1
  <2>2. ASSUME NEW l \in Locals, XDelete(x, l) PROVE \E m \in toIApp' : m.op # "gone" /\ m.x = x
    <3> DEFINE r == [x |-> x, l |-> l, op |-> "del"]
    <3>1. r \in toIApp' /\ r.op # "gone" /\ r.x = x
      BY <2>2 DEF XDelete
    <3> QED
      BY <3>1
  <2> QED
    BY <2>1, <2>2
<1>2. Asked(x)' # {}
  BY <1>1 DEF Asked
<1> QED
  BY <1>2 DEF Carriers

\* Whatever step is taken, the call of a live xApp goes on until it is answered.
LEMMA CallsCarriedStep ==
  ASSUME OwnRanFunc, Types, OneAnswer, Issued, Kinds, OneCarrier, Held, Awaited, CallsCarried,
         Next, abort' = "none"
  PROVE  CallsCarried'
<1> SUFFICES ASSUME \A n \in Nodes : up'[n], NEW x \in XApps, alive'[x], xcall'[x] # <<>>
             PROVE  Carriers(x)' # {}
  BY DEF CallsCarried
<1>1. (\A n \in Nodes : up[n] /\ up'[n]) /\ alive[x]
  <2>1. \A n \in Nodes : up[n]
    BY LoopWriters DEF LoopStep, LExpired, LTimer, LShutdown, LForget, Fail, NLeave,
       nodeVars, Types, LoopTypes
  <2> QED
    BY <2>1, AliveFalls
<1>2. CASE xcall[x] # <<>>
  <2>1. Carriers(x) # {}
    BY <1>1, <1>2 DEF CallsCarried
  <2>2. CASE Asked(x) # {} \/ Taken(x) # {}
    BY <2>2, AskedGoesOn, TakenGoesOn
  <2>3. CASE Listed(x) # {}
    BY <1>1, <2>3, ListedGoesOn
  <2>4. CASE Sent(x) # {}
    BY <1>1, <2>4, SentGoesOn
  <2>5. CASE Back(x) # {}
    BY <1>1, <2>5, BackGoesOn
  <2>6. CASE Routed(x) # {} \/ Replies(x) # {}
    BY <1>1, <2>6, RoutedGoesOn, RepliesGoOn
  <2> QED
    BY <2>1, <2>2, <2>3, <2>4, <2>5, <2>6 DEF Carriers
<1>3. CASE xcall[x] = <<>>
  <2>1. \/ \E n \in Nodes, op \in {"sub", "ctrl"} : XRequest(x, n, op)
        \/ \E l \in Locals : XDelete(x, l)
    <3>1. ASSUME NEW m \in toX, XReceive(m), m.x = x PROVE FALSE
      <4>1. xcall'[x] = <<>>
        BY <1>3, <3>1 DEF XReceive, xVars, Types, XAppTypes
      <4> QED
        BY <4>1
    <3> QED
      BY <1>3, <3>1, CallStep
  <2> QED
    BY <2>1, CallBegins
<1> QED
  BY <1>2, <1>3

\* While the nodes are connected, no call of a live xApp is lost: as long as it has not
\* returned, some message, task or thread of the RIC still has to do with it.  So the
\* xApp is never left waiting by a RIC in which nothing is under way.
THEOREM NoCallIsLost ==
  ASSUME OwnRanFunc
  PROVE  Spec => []NoCallLost
<1> DEFINE Inv == Routing /\ Awaited /\ CallsCarried
<1>1. Init => Inv
  <2> SUFFICES ASSUME Init PROVE Awaited /\ CallsCarried
    BY RoutingInit
  <2>1. pending = {} /\ \A x \in XApps : xcall[x] = <<>>
    BY DEF Init
  <2> QED
    BY <2>1 DEF Awaited, CallsCarried
<1>2. Inv /\ [Next]_vars => Inv'
  <2>1. ASSUME Inv, Next, abort' = "none" PROVE Inv'
    <3>1. Routing'
      BY <2>1, RoutingStep
    <3>2. Awaited' /\ CallsCarried'
      BY <2>1, AwaitedStep, CallsCarriedStep DEF Routing
    <3> QED
      BY <3>1, <3>2
  <2>2. ASSUME Inv, UNCHANGED <<xVars, msgVars, ricVars, iappVars, loopVars, tasks, nodeVars>>
        PROVE  Inv'
    <3>1. UNCHANGED <<alive, xcall, toIApp, toX, toN, pending, map, ipc, ireq, iid, ilist, tasks, up>>
      BY <2>2 DEF xVars, msgVars, ricVars, iappVars, nodeVars
    <3>2. Tokens' = Tokens /\ Finding' = Finding /\ \A i : Owner(i)' = Owner(i)
      BY <3>1 DEF Tokens, Queued, Answers, Sending, Finding, Owner, Adding
    <3>3. ASSUME NEW x PROVE Carriers(x)' = Carriers(x)
      <4>1. Sent(x)' = Sent(x) /\ Back(x)' = Back(x)
        BY <3>2 DEF Sent, Back, OfX
      <4> QED
        BY <3>1, <4>1 DEF Carriers, Asked, Taken, Listed, Routed, Replies
    <3>4. Routing'
      BY <2>2, RoutingStutters
    <3> QED
      BY <2>2, <3>1, <3>2, <3>3, <3>4 DEF Awaited, CallsCarried
  <2>3. ASSUME Inv, Next, abort' # "none" PROVE Inv'
    BY <2>2, <2>3, Stops
  <2> QED
    BY <2>1, <2>2, <2>3 DEF vars
<1>3. Inv => NoCallLost
  <2> SUFFICES ASSUME Inv, \A n \in Nodes : up[n], NothingUnderWay, NEW x \in XApps, alive[x]
               PROVE  Carriers(x) = {}
    BY DEF NoCallLost, CallsCarried
  <2>1. Types
    BY DEF Routing
  <2>2. ipc = "epoll" /\ toIApp = {} /\ toX = {} /\ tasks = {} /\ ilist = {}
    BY <2>1 DEF NothingUnderWay, Types, IAppTypes
  <2>3. Sending = {} /\ Queued = {} /\ Answers = {} /\ Finding = {}
    <3>1. \A n \in Nodes : Len(toN[n]) = 0
      BY DEF NothingUnderWay
    <3> QED
      BY <2>2, <3>1 DEF Sending, Queued, Answers, Finding
  <2>4. Sent(x) = {} /\ Back(x) = {}
    BY <2>3 DEF Sent, Back, Tokens
  <2> QED
    BY <2>2, <2>4 DEF Carriers, Asked, Taken, Listed, Routed, Replies
<1> QED
  BY <1>1, <1>2, <1>3, PTL DEF Spec

-----------------------------------------------------------------------------
(* The service the xApps see *)

\* The parts of the service do not change where their state does not.
LEMMA ReturningSame ==
  ASSUME alive' = alive,
         \A m \in toX \cup toX' : m.op # "ind" /\ alive[m.x] => m \in toX \cap toX'
  PROVE  Returning' = Returning
<1>1. ASSUME NEW x \in XApps PROVE AnswersTo(x)' = AnswersTo(x)
  <2>1. {r \in toX' : alive'[x] /\ r.op # "ind" /\ r.x = x} = {r \in toX : alive[x] /\ r.op # "ind" /\ r.x = x}
    OBVIOUS
  <2> QED
    BY <2>1 DEF AnswersTo
<1> QED
  BY <1>1 DEF Returning

\* Nor where the entries of what the nodes serve stay, or are of nobody's subscription.
LEMMA ServingSame ==
  ASSUME Types, alive' = alive, active' = active,
         \A x \in XApps, n \in Nodes : \A i \in active[n] :
           alive[x] => Owner(i)' = Owner(i) \/ ~(ServedBy(x, i) \/ ServedBy(x, i)')
  PROVE  Serving' = Serving
<1>1. ASSUME NEW x \in XApps PROVE ServingFor(x)' = ServingFor(x)
  <2>1. ASSUME NEW s \in Locals \X Nodes, alive[x], NEW i \in active[s[2]]
        PROVE  ServedBy(x, i)' /\ Owner(i)'.l = s[1] <=> ServedBy(x, i) /\ Owner(i).l = s[1]
    <3>1. Owner(i)' = Owner(i) \/ ~(ServedBy(x, i) \/ ServedBy(x, i)')
      BY <2>1
    <3> QED
      BY <3>1 DEF ServedBy
  <2> QED
    BY <2>1 DEF ServingFor
<1> QED
  BY <1>1 DEF Serving

\* The owner of what is served changes only when the entry is removed.
LEMMA ServedOwners ==
  ASSUME Types, Located, Next, abort' = "none", ~\E t \in tasks : TRemove(t)
  PROVE  \A n \in Nodes : \A i \in active[n] : Owner(i)' = Owner(i)
<1> SUFFICES ASSUME NEW n \in Nodes, NEW i \in active[n] PROVE Owner(i)' = Owner(i)
  OBVIOUS
<1>1. i \in Ids /\ i < nextId
  BY DEF Types, NodeTypes, Located
<1>2. i # nextId
  BY <1>1, NextIdGrows DEF Ids
<1> QED
  BY <1>1, <1>2, OwnerStep

\* So it changes only in a node, with an xApp, or when a worker removes an entry.
LEMMA ServingStays ==
  ASSUME Types, Located, Next, abort' = "none", ~\E t \in tasks : TRemove(t),
         alive' = alive, active' = active
  PROVE  Serving' = Serving
<1>1. \A n \in Nodes : \A i \in active[n] : Owner(i)' = Owner(i)
  BY ServedOwners
<1> QED
  BY <1>1, ServingSame

\* An xApp and its request id have one RIC request id.
LEMMA OwnersKeys ==
  ASSUME Issued, Keys, NEW i \in Ids, NEW j \in Ids, Owner(i) # NoEntry, Owner(j) # NoEntry,
         Same(Owner(i), Owner(j))
  PROVE  i = j
<1>1. Adding => Busy
  BY DEF Adding, Busy
<1>2. CASE ~(Adding /\ i = iid) /\ ~(Adding /\ j = iid)
  BY <1>2 DEF Owner, Keys
<1>3. CASE Adding /\ i = iid /\ j # iid
  BY <1>1, <1>3 DEF Owner, Keys
<1>4. CASE Adding /\ j = iid /\ i # iid
  BY <1>1, <1>4 DEF Owner, Keys, Same
<1> QED
  BY <1>2, <1>3, <1>4

\* report_sm_xapp_api, control_sm_xapp_api and rm_report_sm_xapp_api begin a call.
LEMMA AskStep ==
  ASSUME Routing, Next, abort' = "none", NEW x \in XApps, NEW n \in Nodes, NEW op \in {"sub", "ctrl"},
         XRequest(x, n, op)
  PROVE  Service!Ask(x, op)
<1>1. UNCHANGED <<alive, xsubs, toX, tasks, up, active>>
  BY DEF XRequest, nodeVars
<1>2. ~\E t \in tasks : TRemove(t)
  BY <1>1 DEF TRemove, Finish, Fail
<1>3. Serving' = Serving /\ Returning' = Returning
  BY <1>1, <1>2, ServingStays, ReturningSame DEF Routing
<1> QED
  BY <1>1, <1>3 DEF XRequest, Service!Ask

\* A deletion is asked for what the xApp holds.
LEMMA AskDeleteStep ==
  ASSUME Routing, Next, abort' = "none", NEW x \in XApps, NEW l \in Locals, XDelete(x, l)
  PROVE  Service!AskDelete(x, l)
<1>1. UNCHANGED <<alive, xsubs, toX, tasks, up, active>>
  BY DEF XDelete, nodeVars
<1>2. ~\E t \in tasks : TRemove(t)
  BY <1>1 DEF TRemove, Finish, Fail
<1>3. Serving' = Serving /\ Returning' = Returning
  BY <1>1, <1>2, ServingStays, ReturningSame DEF Routing
<1> QED
  BY <1>1, <1>3 DEF XDelete, Service!AskDelete

\* An xApp vanishes only by itself: no answer makes one fail an assertion.
LEMMA VanishStep ==
  ASSUME Routing, Next, abort' = "none", NEW x \in XApps, XDie(x)
  PROVE  Service!Vanish(x)
<1>0. alive \in [XApps -> BOOLEAN] /\ alive' = [alive EXCEPT ![x] = FALSE] /\ ~alive'[x]
  BY DEF Routing, Types, XAppTypes, XDie
<1>1. UNCHANGED <<xcall, xnext, xsubs, toX, tasks, up, active, map, ipc, ireq, iid>>
  BY DEF XDie, msgVars, ricVars, iappVars, nodeVars
<1>2. \A i : Owner(i)' = Owner(i)
  BY <1>1 DEF Owner, Adding
<1>3. AnswersTo(x)' = {} /\ \A y \in XApps \ {x} : AnswersTo(y)' = AnswersTo(y)
  BY <1>0, <1>1 DEF AnswersTo
<1>4. ServingFor(x)' = {} /\ \A y \in XApps \ {x} : ServingFor(y)' = ServingFor(y)
  BY <1>0, <1>1, <1>2 DEF ServingFor, ServedBy
<1>5. Returning' = [Returning EXCEPT ![x] = {}]
  BY <1>3 DEF Returning
<1>6. Serving' = [Serving EXCEPT ![x] = {}]
  BY <1>4 DEF Serving
<1> QED
  BY <1>0, <1>1, <1>5, <1>6 DEF XDie, Service!Vanish

\* An answer returns the call it answers.
LEMMA ReturnStep ==
  ASSUME Routing, Next, abort' = "none", NEW m \in toX, XReceive(m), m.op # "ind"
  PROVE  Service!Return(m.x)
<1> DEFINE x == m.x
<1>0. Types /\ OneCarrier /\ Located /\ x \in XApps /\ alive[x]
  BY DEF Routing, Types, MessageTypes, ToXApp, XReceive
<1>1. xcall[x] = <<m.op, m.l>> /\ Replies(x) # {}
  BY <1>0, Carried
<1>2. /\ toX' = toX \ {m} /\ xcall' = [xcall EXCEPT ![x] = <<>>]
      /\ xsubs' = [xsubs EXCEPT ![x] = CASE m.op = "sub" -> xsubs[x] \cup {m.l}
                                         [] m.op = "del" -> xsubs[x] \ {m.l}
                                         [] OTHER -> xsubs[x]]
      /\ UNCHANGED <<alive, xnext, tasks, up, active>>
  BY <1>0, <1>1 DEF XReceive, nodeVars, Types, XAppTypes
<1>3. \A r \in toX : r.op # "ind" /\ r.x = x => r = m
  <2> SUFFICES ASSUME NEW r \in toX, r.op # "ind", r.x = x PROVE r = m
    OBVIOUS
  <2> DEFINE c == <<"msg", m, <<m.op, m.l>> >>
             d == <<"msg", r, <<r.op, r.l>> >>
  <2>1. c \in Carriers(x) /\ d \in Carriers(x)
    BY DEF Carriers, Replies
  <2>2. c = d
    <3> HIDE DEF c, d
    <3> QED
      BY <1>0, <2>1 DEF OneCarrier, Single
  <2> QED
    BY <2>2
<1>4. AnswersTo(x) = {<<m.op, m.l>>} /\ AnswersTo(x)' = {}
  <2>1. {r \in toX : alive[x] /\ r.op # "ind" /\ r.x = x} = {m}
    BY <1>0, <1>3
  <2>2. {r \in toX' : alive'[x] /\ r.op # "ind" /\ r.x = x} = {}
    BY <1>2, <1>3
  <2>3. AnswersTo(x) = {<<r.op, r.l>> : r \in {m}}
    BY <2>1 DEF AnswersTo
  <2>4. AnswersTo(x)' = {<<r.op, r.l>> : r \in {}}
    BY <2>2 DEF AnswersTo
  <2> QED
    BY <2>3, <2>4
<1>5. \A y \in XApps \ {x} : AnswersTo(y)' = AnswersTo(y)
  <2> SUFFICES ASSUME NEW y \in XApps \ {x} PROVE AnswersTo(y)' = AnswersTo(y)
    OBVIOUS
  <2>1. {r \in toX' : alive'[y] /\ r.op # "ind" /\ r.x = y} = {r \in toX : alive[y] /\ r.op # "ind" /\ r.x = y}
    BY <1>2
  <2> QED
    BY <2>1 DEF AnswersTo
<1> HIDE DEF x
<1>6. Returning' = [Returning EXCEPT ![x] = Returning[x] \ {xcall[x]}] /\ xcall[x] \in Returning[x]
  BY <1>0, <1>1, <1>4, <1>5 DEF Returning
<1>7. Serving' = Serving
  <2>1. ~\E t \in tasks : TRemove(t)
    BY <1>2 DEF TRemove, Finish, Fail
  <2> QED
    BY <1>0, <1>2, <2>1, ServingStays
<1>8. xcall[x][1] = m.op /\ xcall[x][2] = m.l
  BY <1>1
<1>9. Service!Return(x)
  BY <1>0, <1>2, <1>6, <1>7, <1>8 DEF Service!Return
<1> QED
  BY <1>9 DEF x

\* A live xApp that has no answer on its way has none in the service.
LEMMA NoAnswers ==
  ASSUME NEW x, Replies(x) = {}
  PROVE  AnswersTo(x) = {}
<1>1. {r \in toX : alive[x] /\ r.op # "ind" /\ r.x = x} = {}
  BY DEF Replies
<1>2. AnswersTo(x) = {<<r.op, r.l>> : r \in {}}
  BY <1>1 DEF AnswersTo
<1> QED
  BY <1>2

\* The worker that found the xApp: whose entry it has, and that no other answer is due.
LEMMA AnsweringTask ==
  ASSUME Routing, NEW t \in tasks, t.pc = "tx", t.op # "ind", alive[t.to.x]
  PROVE  /\ t.to.x \in XApps /\ t.to \in Entries /\ t.i \in Ids /\ t.op \in Ops
         /\ xcall[t.to.x] = <<t.op, t.to.l>> /\ Replies(t.to.x) = {}
         /\ Owner(t.i) = t.to /\ t.to # NoEntry
         /\ t.to.op = KindOf(t.op)
<1>0. Types /\ OneCarrier /\ Held /\ Kinds /\ Issued
  BY DEF Routing
<1>1. t.to \in Entries /\ t.to.x \in XApps /\ t.to # NoEntry /\ t.i \in Ids /\ t.op \in Ops
  BY <1>0, Entry DEF Types, TaskTypes, Tasks
<1>2. xcall[t.to.x] = <<t.op, t.to.l>> /\ Replies(t.to.x) = {}
  BY <1>0, <1>1, Carried
<1>3. map[t.i] = t.to
  BY <1>0, <1>1 DEF Held, HeldBy
<1>4. Owner(t.i) = t.to
  BY <1>0, <1>1, <1>3 DEF Owner, Issued
<1> QED
  BY <1>0, <1>1, <1>2, <1>4 DEF Kinds

\* A subscription is granted once it is served, and is over once its deletion is answered.
LEMMA EffectFirst ==
  ASSUME Routing, NEW t \in tasks, t.pc = "tx", t.op # "ind", alive[t.to.x]
  PROVE  /\ t.op = "sub" => t.to.l \in Service!ServedTo(t.to.x) \/ \E n \in Nodes : ~up[n]
         /\ t.op = "del" => t.to.l \notin Service!ServedTo(t.to.x)
<1> DEFINE x == t.to.x
           i == t.i
<1>0. Types /\ Issued /\ OneCarrier /\ Held /\ Served /\ Quiet /\ Keys
  BY DEF Routing
<1>1. /\ x \in XApps /\ t.to \in Entries /\ i \in Ids /\ t.op \in Ops /\ alive[x]
      /\ xcall[x] = <<t.op, t.to.l>> /\ Replies(x) = {}
      /\ Owner(i) = t.to /\ t.to # NoEntry /\ t.to.op = KindOf(t.op)
  BY AnsweringTask
<1>2. \A op \in Ops : <<op, i>> \notin Tokens \cup Finding
  BY <1>0, <1>1, OneOperation
<1>3. ASSUME t.op = "sub", \A n \in Nodes : up[n] PROVE t.to.l \in Service!ServedTo(x)
  <2>1. t.to.op = "sub" /\ t.to.n \in Nodes /\ t.to.l \in Locals
    BY <1>1, <1>3, Entry DEF KindOf
  <2>2. Serves(i)
    BY <1>0, <1>1, <2>1 DEF Served
  <2>3. ~\E u \in tasks : u.pc \in {"tx", "rm"} /\ u.op = "del" /\ u.i = i /\ u.to = Owner(i)
    <3> SUFFICES ASSUME NEW u \in tasks, u.pc \in {"tx", "rm"}, u.op = "del", u.to = t.to PROVE FALSE
      BY <1>1
    <3>1. CASE u.pc = "tx"
      <4>1. xcall[x] = <<"del", t.to.l>>
        BY <1>0, <1>1, <3>1, Carried
      <4> QED
        BY <1>1, <1>3, <4>1
    <3>2. CASE u.pc = "rm"
      BY <1>0, <1>1, <1>3, <3>2 DEF Held, HeldBy
    <3> QED
      BY <3>1, <3>2
  <2>4. i \in active[t.to.n]
    <3>1. <<"sub", i>> \notin Tokens /\ <<"del", i>> \notin Tokens \cup Finding
      BY <1>2 DEF Ops
    <3> QED
      BY <1>1, <1>3, <2>1, <2>2, <2>3, <3>1 DEF Serves, Tokens
  <2> DEFINE s == <<t.to.l, t.to.n>>
  <2>5. s \in ServingFor(x) /\ s[1] = t.to.l
    BY <1>1, <2>1, <2>4 DEF ServingFor, ServedBy
  <2> HIDE DEF s
  <2> QED
    BY <1>1, <2>5 DEF Service!ServedTo, Serving
<1>4. ASSUME t.op = "del", t.to.l \in Service!ServedTo(x) PROVE FALSE
  <2>1. PICK s \in ServingFor(x) : s[1] = t.to.l
    BY <1>1, <1>4 DEF Service!ServedTo, Serving
  <2>2. PICK j \in active[s[2]] : ServedBy(x, j) /\ Owner(j).l = t.to.l
    BY <2>1 DEF ServingFor
  <2>3. s[2] \in Nodes /\ j \in Ids
    BY <1>0, <2>1, <2>2 DEF ServingFor, Types, NodeTypes
  <2>4. j = i
    BY <1>0, <1>1, <2>2, <2>3, OwnersKeys DEF ServedBy, Same
  <2>5. Idle(i)
    BY <1>0, <1>1, <1>4 DEF Quiet, QuietFor
  <2> QED
    BY <2>2, <2>3, <2>4, <2>5 DEF Idle
<1> QED
  BY <1>3, <1>4

\* e2ap_send_sctp_msg_iapp answers the call.
LEMMA AnswerStep ==
  ASSUME Routing, Next, abort' = "none", NEW t \in tasks, TSend(t), t.op # "ind", alive[t.to.x]
  PROVE  Service!Answer(t.to.x)
<1> DEFINE x == t.to.x
           r == [x |-> x, l |-> t.to.l, op |-> t.op]
<1>0. t.pc = "tx"
  BY DEF TSend
<1>1. /\ x \in XApps /\ xcall[x] = <<t.op, t.to.l>> /\ Replies(x) = {} /\ alive[x]
      /\ Types /\ Located
  BY <1>0, AnsweringTask DEF Routing
<1>2. /\ toX' = toX \cup {r} /\ r.x = x /\ r.op = t.op /\ r.l = t.to.l
      /\ UNCHANGED <<alive, xcall, xnext, xsubs, up, active, map>>
  BY DEF TSend, xVars, ricVars, nodeVars
<1> HIDE DEF r
<1>3. AnswersTo(x) = {}
  BY <1>1, NoAnswers
<1>4. AnswersTo(x)' = {<<t.op, t.to.l>>}
  <2>1. {m \in toX : alive[x] /\ m.op # "ind" /\ m.x = x} = {}
    BY <1>1 DEF Replies
  <2>2. {m \in toX' : alive'[x] /\ m.op # "ind" /\ m.x = x} = {r}
    BY <1>1, <1>2, <2>1
  <2>3. AnswersTo(x)' = {<<m.op, m.l>> : m \in {r}}
    BY <2>2 DEF AnswersTo
  <2> QED
    BY <1>2, <2>3
<1>5. \A y \in XApps \ {x} : AnswersTo(y)' = AnswersTo(y)
  <2> SUFFICES ASSUME NEW y \in XApps \ {x} PROVE AnswersTo(y)' = AnswersTo(y)
    OBVIOUS
  <2>1. {m \in toX' : alive'[y] /\ m.op # "ind" /\ m.x = y} = {m \in toX : alive[y] /\ m.op # "ind" /\ m.x = y}
    BY <1>2
  <2> QED
    BY <2>1 DEF AnswersTo
<1>6. Returning' = [Returning EXCEPT ![x] = {xcall[x]}] /\ Returning[x] = {}
  BY <1>1, <1>3, <1>4, <1>5 DEF Returning
<1>7. Serving' = Serving
  <2>1. \A n \in Nodes : \A i \in active[n] : Owner(i)' = Owner(i)
    <3>1. UNCHANGED <<ipc, ireq, iid, map>>
      BY DEF TSend, iappVars, ricVars
    <3> QED
      BY <3>1 DEF Owner, Adding
  <2> QED
    BY <1>1, <1>2, <2>1, ServingSame
<1>8. /\ xcall[x] # <<>> /\ xcall[x][1] = t.op /\ xcall[x][2] = t.to.l
  BY <1>1
<1>9. /\ t.op = "sub" => t.to.l \in Service!ServedTo(x) \/ \E n \in Nodes : ~up[n]
      /\ t.op = "del" => t.to.l \notin Service!ServedTo(x)
  BY <1>0, EffectFirst
<1> HIDE DEF x
<1>10. Service!Answer(x)
  BY <1>1, <1>2, <1>6, <1>7, <1>8, <1>9 DEF Service!Answer
<1> QED
  BY <1>10 DEF x

\* rm_map_ric_id removes no entry that is served.
LEMMA RemoveServes ==
  ASSUME Routing, Next, abort' = "none", NEW t \in tasks, TRemove(t)
  PROVE  Serving' = Serving
<1>0. Types /\ Keys /\ Kinds /\ Held /\ Quiet /\ Issued
  BY DEF Routing
<1>1. t.pc = "rm" /\ t.op \in {"del", "ctrl"} /\ t.to \in Entries /\ t.i \in Ids /\ t.op # "ind"
  BY <1>0 DEF TRemove, Types, TaskTypes, Tasks
<1>2. ~Adding
  BY <1>0 DEF TRemove, Adding, Types, IAppTypes
<1>3. ASSUME NEW x \in XApps, NEW n \in Nodes, NEW i \in active[n], alive[x]
      PROVE  Owner(i)' = Owner(i) \/ ~(ServedBy(x, i) \/ ServedBy(x, i)')
  <2>0. i \in Ids
    BY <1>0 DEF Types, NodeTypes
  <2>1. Owner(i)' = IF i \in Owned(t.to) THEN NoEntry ELSE Owner(i)
    BY <1>0, <2>0, OwnerStep
  <2>2. CASE i \notin Owned(t.to)
    BY <2>1, <2>2
  <2>3. CASE i \in Owned(t.to)
    <3>1. ~ServedBy(x, i)'
      BY <2>1, <2>3 DEF ServedBy
    <3>2. ASSUME ServedBy(x, i) PROVE FALSE
      <4>1. map[i] # NoEntry /\ map[i].x = x /\ map[i].op = "sub" /\ t.to.x = x /\ map[i].l = t.to.l
        BY <1>2, <2>3, <3>2 DEF ServedBy, Owner, Owned
      <4>2. map[t.i] = t.to /\ t.to # NoEntry
        BY <1>0, <1>1, <1>3, <4>1, Entry DEF Held, HeldBy
      <4>3. i = t.i
        BY <1>0, <1>1, <2>0, <4>1, <4>2 DEF Keys, Same
      <4>4. t.op = "del"
        <5>1. t.to.op = KindOf(t.op)
          BY <1>0, <1>1 DEF Kinds
        <5> QED
          BY <1>1, <4>1, <4>2, <4>3, <5>1 DEF KindOf
      <4>5. Idle(t.i)
        BY <1>0, <1>1, <1>3, <4>1, <4>4 DEF Quiet, QuietFor
      <4> QED
        BY <4>3, <4>5 DEF Idle
    <3> QED
      BY <3>1, <3>2
  <2> QED
    BY <2>2, <2>3
<1>4. alive' = alive /\ active' = active
  BY TaskFrame DEF TaskStep, xVars, nodeVars
<1> QED
  BY <1>0, <1>3, <1>4, ServingSame

\* A node answers: what becomes of its subscriptions.
LEMMA NodeAnswers ==
  ASSUME Types, OneAnswer, NEW n \in Nodes, NAnswer(n)
  PROVE  /\ Head(toN[n]) \in Queued /\ Head(toN[n]) \in Ops \X Ids
         /\ active' = [active EXCEPT ![n] = CASE Head(toN[n])[1] = "sub" -> active[n] \cup {Head(toN[n])[2]}
                                              [] Head(toN[n])[1] = "del" -> active[n] \ {Head(toN[n])[2]}
                                              [] OTHER -> active[n]]
         /\ \A i : Owner(i)' = Owner(i)
         /\ UNCHANGED <<alive, xcall, xnext, xsubs, toX, up>>
         /\ Returning' = Returning
<1>1. Head(toN[n]) \in Queued /\ Head(toN[n]) \in Ops \X Ids
  BY TokensAfterAnswer DEF Queued
<1>2. UNCHANGED <<alive, xcall, xnext, xsubs, toX, map, ipc, ireq, iid, up>>
  BY DEF NAnswer, xVars, ricVars, iappVars
<1>3. \A i : Owner(i)' = Owner(i)
  BY <1>2 DEF Owner, Adding
<1>4. Returning' = Returning
  BY <1>2, ReturningSame
<1> QED
  BY <1>1, <1>2, <1>3, <1>4 DEF NAnswer, Types, NodeTypes

\* A node starts to serve what the xApp waits for.
LEMMA StartStep ==
  ASSUME Routing, NEW n \in Nodes, NAnswer(n), NEW i \in Ids, Head(toN[n]) = <<"sub", i>>,
         Owner(i) # NoEntry, alive[Owner(i).x]
  PROVE  Service!Start(Owner(i).x, Owner(i).l, n)
<1> DEFINE h == Head(toN[n])
<1>0. /\ Types /\ OneAnswer /\ Issued /\ Kinds /\ Keys /\ OneCarrier /\ Held /\ Quiet
      /\ active \in [Nodes -> SUBSET Ids]
  BY DEF Routing, Types, NodeTypes
<1>1. PICK x, l : x = Owner(i).x /\ l = Owner(i).l
  OBVIOUS
<1>2. x \in XApps /\ l \in Locals /\ alive[x]
  BY <1>0, <1>1, OwnerTyped, Entry
<1>3. /\ h \in Queued /\ h[1] = "sub" /\ h[2] = i
      /\ active' = [active EXCEPT ![n] = active[n] \cup {i}]
      /\ \A j : Owner(j)' = Owner(j)
      /\ UNCHANGED <<alive, xcall, xnext, xsubs, up>> /\ Returning' = Returning
  <2>1. Head(toN[n])[1] = "sub" /\ Head(toN[n])[2] = i
    OBVIOUS
  <2> QED
    BY <1>0, <2>1, NodeAnswers
<1>4. h \in Tokens \cup Finding /\ OfX(x, h)
  BY <1>1, <1>3 DEF Tokens, OfX
<1>5. xcall[x] = <<"sub", l>> /\ Replies(x) = {} /\ Owner(i).op = "sub"
  <2> HIDE DEF h
  <2>1. xcall[x] = <<h[1], Owner(h[2]).l>> /\ Replies(x) = {}
    BY <1>0, <1>2, <1>4, Carried
  <2>2. Owner(h[2]).op = KindOf(h[1])
    BY <1>0, <1>4 DEF Kinds, OfX
  <2> QED
    BY <1>1, <1>3, <2>1, <2>2 DEF KindOf
<1>6. Returning[x] = {}
  BY <1>2, <1>5, NoAnswers DEF Returning
<1>7. l \notin Service!ServedTo(x)
  <2> SUFFICES ASSUME NEW s \in ServingFor(x), s[1] = l PROVE FALSE
    BY <1>2 DEF Service!ServedTo, Serving
  <2>1. PICK j \in active[s[2]] : ServedBy(x, j) /\ Owner(j).l = l
    BY DEF ServingFor
  <2>2. s[2] \in Nodes /\ j \in Ids
    BY <1>0, <2>1 DEF ServingFor
  <2>3. j = i
    BY <1>0, <1>1, <2>1, <2>2, OwnersKeys DEF ServedBy, Same
  <2>4. Idle(i)
    BY <1>0, <1>1, <1>2, <1>3 DEF Quiet, QuietFor
  <2> QED
    BY <2>1, <2>2, <2>3, <2>4 DEF Idle
<1>8. ServingFor(x)' = ServingFor(x) \cup {<<l, n>>}
  <2>1. ASSUME NEW s \in Locals \X Nodes
        PROVE  s \in ServingFor(x)' <=> s \in ServingFor(x) \/ s = <<l, n>>
    <3>1. s \in ServingFor(x)' <=> \E j \in active'[s[2]] : ServedBy(x, j) /\ Owner(j).l = s[1]
      BY <1>2, <1>3 DEF ServingFor, ServedBy
    <3>2. s \in ServingFor(x) <=> \E j \in active[s[2]] : ServedBy(x, j) /\ Owner(j).l = s[1]
      BY <1>2 DEF ServingFor
    <3>3. \A j : j \in active'[s[2]] <=> j \in active[s[2]] \/ (s[2] = n /\ j = i)
      BY <1>0, <1>3
    <3>4. ServedBy(x, i) /\ Owner(i).l = l
      BY <1>1, <1>5 DEF ServedBy
    <3>5. s = <<l, n>> <=> s[1] = l /\ s[2] = n
      OBVIOUS
    <3> QED
      BY <3>1, <3>2, <3>3, <3>4, <3>5
  <2>2. ServingFor(x)' \subseteq Locals \X Nodes /\ ServingFor(x) \subseteq Locals \X Nodes
    BY DEF ServingFor
  <2>3. <<l, n>> \in Locals \X Nodes
    BY <1>2
  <2> QED
    BY <2>1, <2>2, <2>3
<1>9. \A y \in XApps \ {x} : ServingFor(y)' = ServingFor(y)
  <2> SUFFICES ASSUME NEW y \in XApps \ {x} PROVE ServingFor(y)' = ServingFor(y)
    OBVIOUS
  <2>1. ~ServedBy(y, i)
    BY <1>1 DEF ServedBy
  <2>2. ASSUME NEW s \in Locals \X Nodes
        PROVE  (\E j \in active'[s[2]] : ServedBy(y, j) /\ Owner(j).l = s[1])
                 <=> \E j \in active[s[2]] : ServedBy(y, j) /\ Owner(j).l = s[1]
    <3>1. \A j : j \in active'[s[2]] <=> j \in active[s[2]] \/ (s[2] = n /\ j = i)
      BY <1>0, <1>3
    <3> QED
      BY <2>1, <3>1
  <2> QED
    BY <1>3, <2>2 DEF ServingFor, ServedBy
<1>10. Serving' = [Serving EXCEPT ![x] = Serving[x] \cup {<<l, n>>}]
  BY <1>2, <1>8, <1>9 DEF Serving
<1> QED
  BY <1>1, <1>2, <1>3, <1>5, <1>6, <1>7, <1>10 DEF Service!Start

\* A node stops serving what the xApp deletes.
LEMMA StopStep ==
  ASSUME Routing, NEW n \in Nodes, NAnswer(n), NEW i \in Ids, Head(toN[n]) = <<"del", i>>,
         Owner(i) # NoEntry, alive[Owner(i).x]
  PROVE  Service!Stop(Owner(i).x, Owner(i).l)
<1> DEFINE h == Head(toN[n])
<1>0. /\ Types /\ OneAnswer /\ Issued /\ Kinds /\ Keys /\ OneCarrier /\ Placed /\ Located
      /\ active \in [Nodes -> SUBSET Ids]
  BY DEF Routing, Types, NodeTypes
<1>1. PICK x, l : x = Owner(i).x /\ l = Owner(i).l
  OBVIOUS
<1>2. x \in XApps /\ l \in Locals /\ alive[x]
  BY <1>0, <1>1, OwnerTyped, Entry
<1>3. /\ h \in Queued /\ h[1] = "del" /\ h[2] = i
      /\ active' = [active EXCEPT ![n] = active[n] \ {i}]
      /\ \A j : Owner(j)' = Owner(j)
      /\ UNCHANGED <<alive, xcall, xnext, xsubs, up>> /\ Returning' = Returning
  <2>1. Head(toN[n])[1] = "del" /\ Head(toN[n])[2] = i
    OBVIOUS
  <2> QED
    BY <1>0, <2>1, NodeAnswers
<1>4. h \in Tokens \cup Finding /\ OfX(x, h)
  BY <1>1, <1>3 DEF Tokens, OfX
<1>5. xcall[x] = <<"del", l>> /\ Replies(x) = {}
  <2> HIDE DEF h
  <2>1. xcall[x] = <<h[1], Owner(h[2]).l>> /\ Replies(x) = {}
    BY <1>0, <1>2, <1>4, Carried
  <2> QED
    BY <1>1, <1>3, <2>1
<1>6. Returning[x] = {}
  BY <1>2, <1>5, NoAnswers DEF Returning
<1>7. Idle(i)'
  <2>1. 1 \in 1..Len(toN[n]) /\ toN[n][1] = <<"del", i>>
    BY <1>0, QueuedAfterAnswer
  <2>2. Owner(i).n = n
    BY <1>0, <2>1 DEF Placed, Ops
  <2> QED
    BY <1>0, <1>3, <2>2 DEF Located, Idle
<1>8. ASSUME NEW s \in Locals \X Nodes, NEW y \in XApps
      PROVE  s \in ServingFor(y)' <=> s \in ServingFor(y) /\ ~(y = x /\ s[1] = l)
  <2>1. s \in ServingFor(y)' <=> alive[y] /\ \E j \in active'[s[2]] : ServedBy(y, j) /\ Owner(j).l = s[1]
    BY <1>3 DEF ServingFor, ServedBy
  <2>2. s \in ServingFor(y) <=> alive[y] /\ \E j \in active[s[2]] : ServedBy(y, j) /\ Owner(j).l = s[1]
    BY DEF ServingFor
  <2>3. \A j : j \in active'[s[2]] <=> j \in active[s[2]] /\ j # i
    BY <1>0, <1>3, <1>7 DEF Idle
  <2>4. ServedBy(y, i) => y = x
    BY <1>1 DEF ServedBy
  <2>5. \A j \in active[s[2]] : ServedBy(x, j) /\ Owner(j).l = l => j = i
    <3> SUFFICES ASSUME NEW j \in active[s[2]], ServedBy(x, j), Owner(j).l = l PROVE j = i
      OBVIOUS
    <3>1. j \in Ids
      BY <1>0
    <3> QED
      BY <1>0, <1>1, <3>1, OwnersKeys DEF ServedBy, Same
  <2>6. CASE y = x /\ s[1] = l
    BY <2>1, <2>3, <2>5, <2>6
  <2>7. CASE ~(y = x /\ s[1] = l)
    BY <1>1, <2>1, <2>2, <2>3, <2>4, <2>7
  <2> QED
    BY <2>6, <2>7
<1>9. \A y \in XApps : ServingFor(y)' \subseteq Locals \X Nodes /\ ServingFor(y) \subseteq Locals \X Nodes
  BY DEF ServingFor
<1>10. ServingFor(x)' = {s \in ServingFor(x) : s[1] # l}
  BY <1>2, <1>8, <1>9
<1>11. \A y \in XApps \ {x} : ServingFor(y)' = ServingFor(y)
  BY <1>8, <1>9
<1>12. Serving' = [Serving EXCEPT ![x] = {s \in Serving[x] : s[1] # l}]
  BY <1>2, <1>10, <1>11 DEF Serving
<1> QED
  BY <1>1, <1>2, <1>3, <1>5, <1>6, <1>12 DEF Service!Stop

\* What a node answers is of no live xApp, or starts or stops a subscription of one.
LEMMA NodeAnswersStep ==
  ASSUME Routing, NEW n \in Nodes, NAnswer(n)
  PROVE  \/ \E x \in XApps, l \in Locals : Service!Start(x, l, n) \/ Service!Stop(x, l)
         \/ UNCHANGED <<alive, xcall, xnext, xsubs, Returning, Serving, up>>
<1>0. Types /\ OneAnswer
  BY DEF Routing
<1>1. PICK op \in Ops, i \in Ids : Head(toN[n]) = <<op, i>>
  BY <1>0, NodeAnswers
<1>2. Head(toN[n])[1] = op /\ Head(toN[n])[2] = i
  BY <1>1
<1>3. /\ \A j : Owner(j)' = Owner(j)
      /\ UNCHANGED <<alive, xcall, xnext, xsubs, up>> /\ Returning' = Returning
      /\ active' = [active EXCEPT ![n] = CASE op = "sub" -> active[n] \cup {i}
                                           [] op = "del" -> active[n] \ {i}
                                           [] OTHER -> active[n]]
  BY <1>0, <1>2, NodeAnswers
<1>4. CASE op # "ctrl" /\ Owner(i) # NoEntry /\ alive[Owner(i).x]
  <2>1. Owner(i).x \in XApps /\ Owner(i).l \in Locals
    BY <1>0, <1>4, OwnerTyped, Entry
  <2>2. op = "sub" \/ op = "del"
    BY <1>4 DEF Ops
  <2> QED
    BY <1>1, <1>4, <2>1, <2>2, StartStep, StopStep
<1>5. CASE ~(op # "ctrl" /\ Owner(i) # NoEntry /\ alive[Owner(i).x])
  <2>1. ASSUME NEW y \in XApps PROVE ServingFor(y)' = ServingFor(y)
    <3>1. CASE op = "ctrl"
      <4>1. active' = active
        BY <1>0, <1>3, <3>1 DEF Types, NodeTypes
      <4> QED
        BY <1>3, <4>1 DEF ServingFor, ServedBy
    <3>2. CASE op # "ctrl"
      <4>1. ASSUME NEW m \in Nodes, NEW j, j # i PROVE j \in active'[m] <=> j \in active[m]
        BY <1>0, <1>3, <4>1 DEF Types, NodeTypes
      <4>2. ~(alive[y] /\ ServedBy(y, i))
        BY <1>5, <3>2 DEF ServedBy
      <4>3. ASSUME NEW s \in Locals \X Nodes, alive[y]
            PROVE  (\E j \in active'[s[2]] : ServedBy(y, j) /\ Owner(j).l = s[1])
                     <=> \E j \in active[s[2]] : ServedBy(y, j) /\ Owner(j).l = s[1]
        BY <4>1, <4>2, <4>3
      <4> QED
        BY <1>3, <4>3 DEF ServingFor, ServedBy
    <3> QED
      BY <3>1, <3>2
  <2>2. Serving' = Serving
    BY <2>1 DEF Serving
  <2> QED
    BY <1>3, <2>2
<1> QED
  BY <1>4, <1>5

\* A node that leaves serves nobody.
LEMMA LeaveStep ==
  ASSUME Routing, NEW n \in Nodes, NLeave(n)
  PROVE  Service!Leave(n)
<1>0. active \in [Nodes -> SUBSET Ids]
  BY DEF Routing, Types, NodeTypes
<1>1. UNCHANGED <<alive, xcall, xnext, xsubs, toX, map, ipc, ireq, iid>>
  BY DEF NLeave, xVars, ricVars, iappVars
<1>2. \A j : Owner(j)' = Owner(j)
  BY <1>1 DEF Owner, Adding
<1>3. Returning' = Returning
  BY <1>1, ReturningSame
<1>4. \A m \in Nodes : active'[m] = IF m = n THEN {} ELSE active[m]
  BY <1>0 DEF NLeave
<1>5. \A x \in XApps : ServingFor(x)' = {s \in ServingFor(x) : s[2] # n}
  BY <1>1, <1>2, <1>4 DEF ServingFor, ServedBy
<1>6. Serving' = [x \in XApps |-> {s \in Serving[x] : s[2] # n}]
  BY <1>5 DEF Serving
<1> QED
  BY <1>1, <1>3, <1>6 DEF NLeave, Service!Leave

\* Every step of the iApp thread, the workers, the event loop, the nodes and the xApps is a
\* step of the service or invisible to the xApps.
LEMMA ServiceStep ==
  ASSUME OwnRanFunc, Routing, [Next]_vars
  PROVE  Service!Next \/ UNCHANGED Service!vars
<1> DEFINE Hidden == UNCHANGED <<alive, xcall, xnext, xsubs, Returning, Serving, up>>
<1>0. Types /\ Located
  BY DEF Routing
<1>1. Hidden => UNCHANGED Service!vars
  BY DEF Service!vars
<1>2. CASE UNCHANGED <<xVars, msgVars, ricVars, iappVars, loopVars, tasks, nodeVars>>
  <2>1. UNCHANGED <<alive, xcall, xnext, xsubs, toX, map, ipc, ireq, iid, active, up>>
    BY <1>2 DEF xVars, msgVars, ricVars, iappVars, nodeVars
  <2>2. \A j : Owner(j)' = Owner(j)
    BY <2>1 DEF Owner, Adding
  <2>3. Returning' = Returning /\ Serving' = Serving
    BY <1>0, <2>1, <2>2, ReturningSame, ServingSame
  <2> QED
    BY <1>1, <2>1, <2>3
<1> SUFFICES ASSUME Next, abort' = "none" PROVE Service!Next \/ Hidden
  BY <1>1, <1>2, Stops DEF vars
<1>3. CASE IAppStep
  <2>1. UNCHANGED <<alive, xcall, xnext, xsubs, toX, active, up, tasks>>
    BY <1>3, IAppFrame DEF xVars, nodeVars
  <2>2. ~\E t \in tasks : TRemove(t)
    BY <2>1 DEF TRemove, Finish, Fail
  <2>3. Returning' = Returning /\ Serving' = Serving
    BY <1>0, <2>1, <2>2, ReturningSame, ServingStays
  <2> QED
    BY <2>1, <2>3
<1>4. CASE LoopStep
  <2>1. UNCHANGED <<alive, xcall, xnext, xsubs, toX, active, up, tasks>>
    BY <1>4, LoopFrame DEF xVars, msgVars, nodeVars
  <2>2. ~\E t \in tasks : TRemove(t)
    BY <2>1 DEF TRemove, Finish, Fail
  <2>3. Returning' = Returning /\ Serving' = Serving
    BY <1>0, <2>1, <2>2, ReturningSame, ServingStays
  <2> QED
    BY <2>1, <2>3
<1>5. ASSUME NEW m \in toX, XReceive(m) \/ SendFailed(m) PROVE Service!Next \/ Hidden
  <2>0. m.x \in XApps
    BY <1>0 DEF Types, MessageTypes, ToXApp
  <2>1. CASE XReceive(m) /\ m.op # "ind"
    BY <2>0, <2>1, ReturnStep DEF Service!Next
  <2>2. CASE SendFailed(m) \/ (XReceive(m) /\ m.op = "ind")
    <3>1. /\ UNCHANGED <<alive, xcall, xnext, xsubs, active, up, tasks>> /\ toX' = toX \ {m}
          /\ m.op # "ind" => ~alive[m.x]
      BY <2>2 DEF SendFailed, XReceive, xVars, nodeVars
    <3>2. ~\E t \in tasks : TRemove(t)
      BY <3>1 DEF TRemove, Finish, Fail
    <3>3. Returning' = Returning /\ Serving' = Serving
      BY <1>0, <3>1, <3>2, ReturningSame, ServingStays
    <3> QED
      BY <3>1, <3>3
  <2> QED
    BY <1>5, <2>1, <2>2
<1>6. ASSUME NEW t \in tasks, TaskStep(t) PROVE Service!Next \/ Hidden
  <2>0. UNCHANGED <<alive, xcall, xnext, xsubs, active, up>>
    BY <1>6, TaskFrame DEF xVars, nodeVars
  <2>1. CASE TStop(t) \/ TFind(t)
    <3>1. UNCHANGED <<toX, map, ipc, ireq, iid>>
      BY <2>1 DEF TStop, TFind, Fail, msgVars, ricVars, iappVars
    <3>2. \A j : Owner(j)' = Owner(j)
      BY <3>1 DEF Owner, Adding
    <3>3. Returning' = Returning /\ Serving' = Serving
      BY <1>0, <2>0, <3>1, <3>2, ReturningSame, ServingSame
    <3> QED
      BY <2>0, <3>3
  <2>2. CASE TSend(t)
    <3>1. t.to.x \in XApps
      BY <1>0, <2>2, SendMoves, Entry
    <3>2. CASE t.op # "ind" /\ alive[t.to.x]
      BY <2>2, <3>1, <3>2, AnswerStep DEF Service!Next
    <3>3. CASE ~(t.op # "ind" /\ alive[t.to.x])
      <4>1. UNCHANGED <<map, ipc, ireq, iid>>
        BY <2>2 DEF TSend, ricVars, iappVars
      <4>2. \A j : Owner(j)' = Owner(j)
        BY <4>1 DEF Owner, Adding
      <4>3. \A m \in toX \cup toX' : m.op # "ind" /\ alive[m.x] => m \in toX \cap toX'
        <5> DEFINE r == [x |-> t.to.x, l |-> t.to.l, op |-> t.op]
        <5>1. toX' = toX \cup {r} /\ r.op = t.op /\ r.x = t.to.x
          BY <2>2 DEF TSend
        <5> HIDE DEF r
        <5> QED
          BY <3>3, <5>1
      <4>4. Returning' = Returning /\ Serving' = Serving
        BY <1>0, <2>0, <4>2, <4>3, ReturningSame, ServingSame
      <4> QED
        BY <2>0, <4>4
    <3> QED
      BY <3>2, <3>3
  <2>3. CASE TRemove(t)
    <3>1. toX' = toX
      BY <2>3 DEF TRemove, Fail, msgVars
    <3>2. Returning' = Returning /\ Serving' = Serving
      BY <2>0, <2>3, <3>1, ReturningSame, RemoveServes
    <3> QED
      BY <2>0, <3>2
  <2> QED
    BY <1>6, <2>1, <2>2, <2>3 DEF TaskStep
<1>7. ASSUME NEW x \in XApps, XStep(x) PROVE Service!Next
  BY <1>7, AskStep, AskDeleteStep, VanishStep DEF XStep, Service!Next, Locals
<1>8. ASSUME NEW n \in Nodes, NodeStep(n) PROVE Service!Next \/ Hidden
  <2>1. CASE NAnswer(n)
    BY <2>1, NodeAnswersStep DEF Service!Next, Locals
  <2>2. CASE NLeave(n)
    BY <2>2, LeaveStep DEF Service!Next
  <2>3. ASSUME NEW i \in Ids, NIndicate(n, i) PROVE Hidden
    <3>1. UNCHANGED <<alive, xcall, xnext, xsubs, toX, map, ipc, ireq, iid, active, up>>
      BY <2>3 DEF NIndicate, xVars, msgVars, ricVars, iappVars
    <3>2. \A j : Owner(j)' = Owner(j)
      BY <3>1 DEF Owner, Adding
    <3>3. Returning' = Returning /\ Serving' = Serving
      BY <1>0, <3>1, <3>2, ReturningSame, ServingSame
    <3> QED
      BY <3>1, <3>3
  <2> QED
    BY <1>8, <2>1, <2>2, <2>3 DEF NodeStep
<1> HIDE DEF Hidden
<1> QED
  BY <1>3, <1>4, <1>5, <1>6, <1>7, <1>8 DEF Next, Deliver

\* iApp thread, workers, event loop and nodes implement the service of RequestService:
\* each call of a live xApp gets its own answer once and after it has had its effect, a
\* node serves what was granted until the xApp asks otherwise, whoever else vanishes and
\* however the answers overtake each other.
THEOREM ServiceImplemented ==
  ASSUME OwnRanFunc
  PROVE  Spec => ImplementsService
<1>1. Init => Service!Init
  <2> SUFFICES ASSUME Init PROVE Service!Init
    OBVIOUS
  <2>1. \A x \in XApps : AnswersTo(x) = {} /\ ServingFor(x) = {}
    BY DEF Init, AnswersTo, ServingFor
  <2> QED
    BY <2>1 DEF Init, Service!Init, Returning, Serving
<1>2. Routing /\ [Next]_vars => [Service!Next]_(Service!vars)
  BY ServiceStep
<1> QED
  BY <1>1, <1>2, RoutingAlways, PTL DEF Spec, ImplementsService, Service!Spec

=============================================================================
