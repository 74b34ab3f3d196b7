--------------------------- MODULE RequestService ---------------------------
(***************************************************************************)
(* What the near-RT RIC promises the xApps connected to it, and what an    *)
(* xApp does in return.  A call (subscription, control, deletion) gets at  *)
(* most one answer, which is the answer to that call.  A subscription is   *)
(* granted when a node serves it, and served from then on until the xApp   *)
(* has asked for its deletion, the xApp has vanished, or the node has      *)
(* left.  An answered deletion is over: nothing is served any more.        *)
(* Of an xApp that has vanished the service promises nothing.              *)
(***************************************************************************)
EXTENDS Naturals

CONSTANTS XApps, Nodes, MaxLocal, XAppsMayDie, NodesMayLeave

VARIABLES
  alive,     \* alive[x]: xApp x runs
  call,      \* call[x]: the call x waits for, <<>> if none
  next,      \* next[x]: the next request id of x
  held,      \* held[x]: the subscriptions x was granted and has not deleted
  answers,   \* answers[x]: the answers on their way to x
  serving,   \* serving[x]: <<l, n>> if node n serves subscription l of x
  up         \* up[n]: node n is connected

vars == <<alive, call, next, held, answers, serving, up>>

ServedTo(x) == {s[1] : s \in serving[x]}

Init ==
  /\ alive = [x \in XApps |-> TRUE]
  /\ call = [x \in XApps |-> <<>>]
  /\ next = [x \in XApps |-> 1]
  /\ held = [x \in XApps |-> {}]
  /\ answers = [x \in XApps |-> {}]
  /\ serving = [x \in XApps |-> {}]
  /\ up = [n \in Nodes |-> TRUE]

\* A subscription or control request gets an id of its own.
Ask(x, op) ==
  /\ alive[x] /\ call[x] = <<>> /\ next[x] <= MaxLocal
  /\ call' = [call EXCEPT ![x] = <<op, next[x]>>]
  /\ next' = [next EXCEPT ![x] = @ + 1]
  /\ UNCHANGED <<alive, held, answers, serving, up>>

AskDelete(x, l) ==
  /\ alive[x] /\ call[x] = <<>> /\ l \in held[x]
  /\ call' = [call EXCEPT ![x] = <<"del", l>>]
  /\ UNCHANGED <<alive, next, held, answers, serving, up>>

\* A node begins to serve a subscription only while the xApp waits for it, and no
\* other node does.
Start(x, l, n) ==
  /\ alive[x] /\ call[x] = <<"sub", l>> /\ answers[x] = {}
  /\ l \notin ServedTo(x)
  /\ serving' = [serving EXCEPT ![x] = @ \cup {<<l, n>>}]
  /\ UNCHANGED <<alive, call, next, held, answers, up>>

\* It stops only because the xApp asked for it.
Stop(x, l) ==
  /\ alive[x] /\ call[x] = <<"del", l>> /\ answers[x] = {}
  /\ serving' = [serving EXCEPT ![x] = {s \in @ : s[1] # l}]
  /\ UNCHANGED <<alive, call, next, held, answers, up>>

\* One answer to a call, after it has had its effect.
Answer(x) ==
  /\ alive[x] /\ call[x] # <<>> /\ answers[x] = {}
  /\ call[x][1] = "sub" => call[x][2] \in ServedTo(x) \/ \E n \in Nodes : ~up[n]
  /\ call[x][1] = "del" => call[x][2] \notin ServedTo(x)
  /\ answers' = [answers EXCEPT ![x] = {call[x]}]
  /\ UNCHANGED <<alive, call, next, held, serving, up>>

Return(x) ==
  /\ alive[x] /\ call[x] \in answers[x]
  /\ answers' = [answers EXCEPT ![x] = @ \ {call[x]}]
  /\ call' = [call EXCEPT ![x] = <<>>]
  /\ held' = [held EXCEPT ![x] = CASE call[x][1] = "sub" -> @ \cup {call[x][2]}
                                   [] call[x][1] = "del" -> @ \ {call[x][2]}
                                   [] OTHER -> @]
  /\ UNCHANGED <<alive, next, serving, up>>

Vanish(x) ==
  /\ XAppsMayDie /\ alive[x]
  /\ alive' = [alive EXCEPT ![x] = FALSE]
  /\ answers' = [answers EXCEPT ![x] = {}]
  /\ serving' = [serving EXCEPT ![x] = {}]
  /\ UNCHANGED <<call, next, held, up>>

Leave(n) ==
  /\ NodesMayLeave /\ up[n]
  /\ up' = [up EXCEPT ![n] = FALSE]
  /\ serving' = [x \in XApps |-> {s \in serving[x] : s[2] # n}]
  /\ UNCHANGED <<alive, call, next, held, answers>>

Next ==
  \/ \E x \in XApps :
       \/ \E op \in {"sub", "ctrl"} : Ask(x, op)
       \/ \E l \in 1..MaxLocal : AskDelete(x, l) \/ Stop(x, l) \/ \E n \in Nodes : Start(x, l, n)
       \/ Answer(x) \/ Return(x) \/ Vanish(x)
  \/ \E n \in Nodes : Leave(n)

Spec == Init /\ [][Next]_vars

=============================================================================
