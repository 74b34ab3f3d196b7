------------------------------ MODULE TaskPool ------------------------------
(***************************************************************************)
(* What the task manager promises to near_ric.c, which hands it one task   *)
(* per message received: an accepted task is executed once, in no          *)
(* particular order, and none is given up before free_task_manager.        *)
(***************************************************************************)
EXTENDS Naturals

CONSTANT MaxTasks

VARIABLES
  accepted,   \* number of tasks accepted; task t is the t-th, from 0
  pending,    \* accepted, not executed
  finished,   \* executed
  dropped,    \* given up when the pool was freed
  open        \* FALSE once the pool is being freed

vars == <<accepted, pending, finished, dropped, open>>

Init == accepted = 0 /\ pending = {} /\ finished = {} /\ dropped = {} /\ open = TRUE

Submit ==
  /\ open
  /\ accepted < MaxTasks
  /\ pending' = pending \cup {accepted}
  /\ accepted' = accepted + 1
  /\ UNCHANGED <<finished, dropped, open>>

Execute(t) ==
  /\ t \in pending
  /\ pending' = pending \ {t}
  /\ finished' = finished \cup {t}
  /\ UNCHANGED <<accepted, dropped, open>>

Close == open /\ open' = FALSE /\ UNCHANGED <<accepted, pending, finished, dropped>>

Drop ==
  /\ ~open
  /\ dropped' = dropped \cup pending
  /\ pending' = {}
  /\ UNCHANGED <<accepted, finished, open>>

Next == Submit \/ Close \/ Drop \/ \E t \in pending : Execute(t)

Spec == Init /\ [][Next]_vars

\* every accepted task is executed, or given up by a pool that was freed
FairSpec == Spec /\ \A t \in 0..MaxTasks-1 : WF_vars(Execute(t) \/ (Drop /\ pending # {}))

=============================================================================
