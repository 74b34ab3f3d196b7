------------------------------ MODULE XAppSync ------------------------------
(***************************************************************************)
(* The synchronous procedures of an xApp (flexric/src/xApp): report, its   *)
(* removal and control.  A thread of the application (a UI thread) calls   *)
(* report_sm_xapp_api, rm_report_sm_xapp_api or control_sm_xapp_api; the   *)
(* call registers the procedure in act_proc, arms a timer that it adds to  *)
(* the pending events, sends the request and then sleeps in                *)
(* cond_wait_sync_ui.  The event loop thread receives the answer, stops    *)
(* the timer and wakes the UI thread.  The two threads share act_proc,     *)
(* pending and sync, each behind a mutex of its own: every mutex section   *)
(* is one step here, and what lies between two sections is not.            *)
(*                                                                         *)
(* An assertion that fails stops the program: the variable "abort" then    *)
(* names it and no further step is possible.  One Tick is one second.      *)
(***************************************************************************)
EXTENDS Integers, FiniteSets

CONSTANTS
  UIs,           \* the threads of the application that call the API
  MaxReq,        \* bound on the RIC request ids drawn from act_proc
  MaxDelay,      \* the RIC answers a request within MaxDelay seconds
  PromptDelay    \* an answer within PromptDelay seconds is a prompt one

ASSUME MaxReqAssumption   == MaxReq \in Nat
ASSUME MaxDelayAssumption == MaxDelay \in Nat
ASSUME PromptDelayAssumption == PromptDelay \in Nat

VARIABLES
  nextId,    \* act_proc.reg: the next key of the registry
  procs,     \* procs[i]: type of the active procedure i, "none" if not registered
  pending,   \* pending: the events whose answer is awaited, each with its timer
  left,      \* left[e]: seconds until the timer of pending event e expires
  flag,      \* sync.flag_sync
  ack,       \* sync.msg_ack
  upc,       \* upc[u]: where UI thread u is
  op,        \* op[u]: the procedure u is executing
  cur,       \* cur[u]: its RIC request id
  uleft,     \* uleft[u]: seconds until pthread_cond_timedwait of u gives up
  handles,   \* the handles the application holds
  lpc,       \* where the event loop is
  lev,       \* the event whose answer the event loop is handling
  requests,  \* requests on the way to the RIC
  answers,   \* answers on the way to the xApp
  active,    \* the subscriptions that exist at the RIC
  prompt,    \* history: every answer so far was prompt, and found its caller asleep
  abort      \* the assertion that failed

registry == <<nextId, procs>>
timers   == <<pending, left>>
sync     == <<flag, ack>>
uiVars   == <<upc, op, cur, uleft, handles>>
loopVars == <<lpc, lev>>
netVars  == <<requests, answers, active, prompt>>
vars     == <<registry, timers, sync, uiVars, loopVars, netVars, abort>>

Ids    == 1..MaxReq
Ops    == {"sub", "del", "ctrl"}
Events == Ops \X Ids

\* seconds of the timers that guard the three requests
WaitS(o) == IF o = "sub" THEN 5 ELSE 10

\* ts.tv_sec += wait_ms/1000 + 1, with sync.wait_ms = 5000
UiWaitMs == 5000      \* fault: milliseconds added to tv_sec
UiWait   == 6

\* Types, and the bounds of the timers: none outlives the value it was armed with.
TypeOK ==
  /\ nextId \in 1..MaxReq+1
  /\ procs \in [Ids -> {"none", "sub", "ctrl"}]
  /\ pending \subseteq Events
  /\ left \in [Events -> 0..10]
  /\ flag \in BOOLEAN /\ ack \in BOOLEAN
  /\ upc \in [UIs -> {"idle", "arm", "send", "block", "wait", "woken", "return"}]
  /\ op \in [UIs -> Ops]
  /\ cur \in [UIs -> Ids \cup {0}]
  /\ uleft \in [UIs -> 0..6]
  /\ handles \subseteq Ids
  /\ lpc \in {"epoll", "rm", "signal"}
  /\ lev \in Events \cup {<<>>}
  /\ requests \subseteq Events
  /\ answers \subseteq Events
  /\ active \subseteq Ids /\ prompt \in BOOLEAN
  /\ abort \in {"none", "not registered", "no pending event", "ui timeout",
                "no msg_ack", "timer expired"}

Init ==
  /\ nextId = 1
  /\ procs = [i \in Ids |-> "none"]
  /\ pending = {}
  /\ left = [e \in Events |-> 0]
  /\ flag = FALSE /\ ack = FALSE
  /\ upc = [u \in UIs |-> "idle"]
  /\ op = [u \in UIs |-> "sub"]
  /\ cur = [u \in UIs |-> 0]
  /\ uleft = [u \in UIs |-> 0]
  /\ handles = {}
  /\ lpc = "epoll" /\ lev = <<>>
  /\ requests = {} /\ answers = {} /\ active = {} /\ prompt = TRUE
  /\ abort = "none"

Fail(what) ==
  /\ abort' = what
  /\ UNCHANGED <<registry, timers, sync, uiVars, loopVars, netVars>>

----------------------------------------------------------------------------
(* The UI threads *)

\* generate_ric_gen_id of report_sm_sync_xapp and control_sm_sync_xapp
Register(u, type) ==
  /\ upc[u] = "idle"
  /\ nextId <= MaxReq
  /\ nextId' = nextId + 1
  /\ procs' = [procs EXCEPT ![nextId] = type]
  /\ op' = [op EXCEPT ![u] = type]
  /\ cur' = [cur EXCEPT ![u] = nextId]
  /\ upc' = [upc EXCEPT ![u] = "arm"]
  /\ UNCHANGED <<timers, sync, uleft, handles, loopVars, netVars, abort>>

Report(u)  == Register(u, "sub")
Control(u) == Register(u, "ctrl")

\* rm_report_sm_sync_xapp, called with a handle that report returned
RmReportUnregisters(u, i) ==     \* fault: the procedure is removed before the answer
  /\ upc[u] = "idle"
  /\ i \in handles
  /\ handles' = handles \ {i}
  /\ procs' = [procs EXCEPT ![i] = "none"]
  /\ op' = [op EXCEPT ![u] = "del"]
  /\ cur' = [cur EXCEPT ![u] = i]
  /\ upc' = [upc EXCEPT ![u] = "send"]
  /\ UNCHANGED <<nextId, timers, sync, uleft, loopVars, netVars, abort>>

RmReport(u, i) ==
  /\ upc[u] = "idle"
  /\ i \in handles
  /\ IF procs[i] = "none"
       THEN Fail("not registered")
       ELSE /\ handles' = handles \ {i}
            /\ op' = [op EXCEPT ![u] = "del"]
            /\ cur' = [cur EXCEPT ![u] = i]
            /\ upc' = [upc EXCEPT ![u] = "send"]
            /\ UNCHANGED <<registry, timers, sync, uleft, loopVars, netVars, abort>>

Event(u) == <<op[u], cur[u]>>

\* add_pending_event_xapp: a subscription or a control arms its timer and then
\* sends; a delete sends first
Arm(u) ==
  /\ upc[u] = "arm"
  /\ pending' = pending \cup {Event(u)}
  /\ left' = [left EXCEPT ![Event(u)] = WaitS(op[u])]
  /\ upc' = [upc EXCEPT ![u] = IF op[u] = "del" THEN "block" ELSE "send"]
  /\ UNCHANGED <<registry, sync, op, cur, uleft, handles, loopVars, netVars, abort>>

SendRequest(u) ==
  /\ upc[u] = "send"
  /\ requests' = requests \cup {Event(u)}
  /\ upc' = [upc EXCEPT ![u] = IF op[u] = "del" THEN "arm" ELSE "block"]
  /\ UNCHANGED <<registry, timers, sync, op, cur, uleft, handles, loopVars, answers, active, prompt, abort>>

\* cond_wait_sync_ui: lock, clear both flags, compute the deadline, block
CondWaitStale(u) ==     \* fault: the flags of the previous call are not cleared
  /\ upc[u] = "block"
  /\ uleft' = [uleft EXCEPT ![u] = UiWait]
  /\ upc' = [upc EXCEPT ![u] = IF flag THEN "return" ELSE "wait"]
  /\ UNCHANGED <<registry, timers, sync, op, cur, handles, loopVars, netVars, abort>>

CondWait(u) ==
  /\ upc[u] = "block"
  /\ flag' = FALSE /\ ack' = FALSE
  /\ uleft' = [uleft EXCEPT ![u] = UiWait]
  /\ upc' = [upc EXCEPT ![u] = "wait"]
  /\ UNCHANGED <<registry, timers, op, cur, handles, loopVars, netVars, abort>>

\* pthread_cond_timedwait returns without a signal: the while loop tests the flag
SpuriousWake(u) ==
  /\ upc[u] = "wait"
  /\ upc' = [upc EXCEPT ![u] = "woken"]
  /\ UNCHANGED <<registry, timers, sync, op, cur, uleft, handles, loopVars, netVars, abort>>

TestFlag(u) ==
  /\ upc[u] = "woken"
  /\ upc' = [upc EXCEPT ![u] = IF flag THEN "return" ELSE "wait"]
  /\ UNCHANGED <<registry, timers, sync, op, cur, uleft, handles, loopVars, netVars, abort>>

\* ETIMEDOUT: the loop ends whatever the flag says, and the assertion fails
UiTimeout(u) ==
  /\ upc[u] = "wait"
  /\ uleft[u] = 0
  /\ Fail("ui timeout")

\* after the unlock: assert(msg_ack), then what the caller does with the answer.
\* A report keeps its procedure; a delete and a control unregister it.
Return(u) ==
  /\ upc[u] = "return"
  /\ IF ~ack THEN Fail("no msg_ack")
     ELSE IF op[u] # "sub" /\ procs[cur[u]] = "none" THEN Fail("not registered")
     ELSE /\ handles' = IF op[u] = "sub" THEN handles \cup {cur[u]} ELSE handles
          /\ procs' = IF op[u] = "sub" THEN procs ELSE [procs EXCEPT ![cur[u]] = "none"]
          /\ upc' = [upc EXCEPT ![u] = "idle"]
          /\ uleft' = [uleft EXCEPT ![u] = 0]
          /\ UNCHANGED <<nextId, timers, sync, op, cur, loopVars, netVars, abort>>

----------------------------------------------------------------------------
(* The event loop thread: e2_event_loop_xapp takes one ready fd at a time *)

\* a response or an acknowledge: find_act_proc, with its assertion
RxAnswer(e) ==
  /\ lpc = "epoll"
  /\ e \in answers
  /\ IF procs[e[2]] = "none"
       THEN Fail("not registered")
       ELSE /\ answers' = answers \ {e}
            /\ lpc' = "rm" /\ lev' = e
            /\ UNCHANGED <<registry, timers, sync, uiVars, requests, active, prompt, abort>>

\* rm_pending_event_xapp: asserts that one event was extracted, closes the timer
StopTimerForgets ==     \* fault: the timer is left running
  /\ lpc = "rm"
  /\ lpc' = "signal"
  /\ UNCHANGED <<registry, timers, sync, uiVars, lev, netVars, abort>>

StopTimer ==
  /\ lpc = "rm"
  /\ IF lev \notin pending
       THEN Fail("no pending event")
       ELSE /\ pending' = pending \ {lev}
            /\ left' = [left EXCEPT ![lev] = 0]
            /\ lpc' = "signal"
            /\ UNCHANGED <<registry, sync, uiVars, lev, netVars, abort>>

\* signal_sync_ui: both flags, and pthread_cond_signal wakes one waiter if any
SignalNobody ==     \* fault: the flag is set, no thread is woken
  /\ lpc = "signal"
  /\ flag' = TRUE /\ ack' = TRUE
  /\ lpc' = "epoll" /\ lev' = <<>>
  /\ UNCHANGED <<registry, timers, uiVars, netVars, abort>>

Waiting == {u \in UIs : upc[u] = "wait"}

SignalUi ==
  /\ lpc = "signal"
  /\ flag' = TRUE /\ ack' = TRUE
  /\ lpc' = "epoll" /\ lev' = <<>>
  /\ IF Waiting = {}
       THEN UNCHANGED upc
       ELSE \E u \in Waiting : upc' = [upc EXCEPT ![u] = "woken"]
  /\ UNCHANGED <<registry, timers, op, cur, uleft, handles, netVars, abort>>

\* an expired timer of one of the three requests: each has its own assertion
TimerEvent(e) ==
  /\ lpc = "epoll"
  /\ e \in pending /\ left[e] = 0
  /\ Fail("timer expired")

----------------------------------------------------------------------------
(* The near-RT RIC and its E2 nodes, as the handlers of the xApp see them:  *)
(* every request is answered once, with the positive answer (the negative   *)
(* ones are not implemented in the xApp).                                   *)

Answer(e) ==
  /\ e \in requests
  /\ prompt' = (prompt /\ \A u \in UIs : Event(u) = e => upc[u] \in {"wait", "woken"})
  /\ requests' = requests \ {e}
  /\ answers' = answers \cup {e}
  /\ active' = CASE e[1] = "sub" -> active \cup {e[2]}
                 [] e[1] = "del" -> active \ {e[2]}
                 [] OTHER -> active
  /\ UNCHANGED <<registry, timers, sync, uiVars, loopVars, abort>>

----------------------------------------------------------------------------
(* Time.  A second passes only while both threads sleep, and not beyond an  *)
(* expired timer or past MaxDelay: no thread is delayed by a second.        *)

Age(e) == WaitS(e[1]) - left[e]

LessOne(n) == IF n = 0 THEN 0 ELSE n - 1

Tick ==
  /\ pending # {} \/ Waiting # {}
  /\ lpc = "epoll"
  /\ \A u \in UIs : upc[u] = "idle" \/ (upc[u] = "wait" /\ uleft[u] > 0)
  /\ \A e \in pending : left[e] > 0
  /\ \A e \in requests \cup answers : Age(e) < MaxDelay
  /\ left' = [e \in Events |-> LessOne(left[e])]
  /\ uleft' = [u \in UIs |-> LessOne(uleft[u])]
  /\ prompt' = (prompt /\ \A e \in requests \cup answers : Age(e) < PromptDelay)
  /\ UNCHANGED <<registry, pending, sync, upc, op, cur, handles, loopVars, requests, answers,
                 active, abort>>

----------------------------------------------------------------------------
UiStep(u) ==
  \/ Arm(u) \/ SendRequest(u) \/ CondWait(u) \/ TestFlag(u) \/ UiTimeout(u) \/ Return(u)

LoopStep == StopTimer \/ SignalUi \/ \E e \in Events : RxAnswer(e) \/ TimerEvent(e)

Next ==
  /\ abort = "none"
  /\ \/ \E u \in UIs : \/ Report(u) \/ Control(u) \/ UiStep(u) \/ SpuriousWake(u)
                       \/ \E i \in Ids : RmReport(u, i)
     \/ LoopStep
     \/ \E e \in Events : Answer(e)
     \/ Tick

Spec == Init /\ [][Next]_vars

\* The threads run, requests are answered in the end and time passes.  Whether
\* and when the application calls the API is its own business.
Fairness ==
  /\ \A u \in UIs : WF_vars(abort = "none" /\ UiStep(u))
  /\ WF_vars(abort = "none" /\ LoopStep)
  /\ \A e \in Events : WF_vars(abort = "none" /\ Answer(e))
  /\ WF_vars(abort = "none" /\ Tick)

FairSpec == Spec /\ Fairness

----------------------------------------------------------------------------
(* Properties *)

\* A pending event belongs to a procedure that is still registered: the handlers
\* rebuild the key of the pending event from the registry (find_act_proc), so an
\* event that outlives its procedure could never be removed from the map again.
PendingIsRegistered == \A e \in pending : procs[e[2]] # "none"

\* Whenever no call is in progress, the registry of the xApp, the handles of the
\* application and the subscriptions at the RIC are the same set, and no timer runs:
\* no order of answers, wake-ups and timers lets a call return on somebody else's
\* answer, leak a procedure or leave a timer behind.
SubscriptionsAgree ==
  abort = "none" /\ (\A u \in UIs : upc[u] = "idle") =>
    /\ {i \in Ids : procs[i] # "none"} = handles
    /\ handles = active
    /\ pending = {}

\* The assertions on the registry and on msg_ack never fail, however late or early
\* the answers are (e42_xapp.c:464, act_proc.c:100, sync_ui.c:87 and the response
\* handlers): only a timer, the UI deadline and the size check of the pending
\* events can stop the program.
RegistryAssertsHold == abort \notin {"not registered", "no msg_ack"}

\* As long as every answer comes after the caller sleeps and within PromptDelay seconds,
\* no assertion fails.
NoAbort == prompt => abort = "none"

\* As long as the answers are such, every call of the API returns.
CallsReturn == \A u \in UIs : upc[u] # "idle" ~> (upc[u] = "idle" \/ ~prompt)

\* sync_ui.c:82 calls the expiry of pthread_cond_timedwait an "Unforeseen path".
UiDeadlineUnforeseen == abort # "ui timeout"

=============================================================================
