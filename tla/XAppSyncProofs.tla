--------------------------- MODULE XAppSyncProofs ---------------------------
(***************************************************************************)
(* The calls of one thread of the application, for every number of calls   *)
(* and any delay of the answers.                                           *)
(*                                                                         *)
(* The invariant follows the one answer a call waits for: it is in one     *)
(* place only, on its way to the RIC or back, in the hands of the event    *)
(* loop, or handed over (Carried, HandedOver).  Where it is decides        *)
(* whether the call's timer runs (Timed) and which subscriptions the RIC   *)
(* has (Recorded).                                                         *)
(***************************************************************************)
EXTENDS XAppSync, TLAPS

Caller    == CHOOSE u \in UIs : TRUE
OneCaller == UIs = {Caller}         \* the application calls the API from one thread
At        == upc[Caller]
Ev        == Event(Caller)

-----------------------------------------------------------------------------
(* The invariant *)

Unsent == At = "send" \/ (At = "arm" /\ op[Caller] # "del")
OnWay  == requests \cup answers # {}
Quiet  == ~OnWay /\ lpc = "epoll"

\* The request or answer of the call in progress, and no other, is under way or
\* in the hands of the event loop, in one place.
Carried ==
  /\ requests \subseteq {Ev} /\ answers \subseteq {Ev}
  /\ requests = {} \/ answers = {}
  /\ lpc # "epoll" => lev = Ev /\ ~OnWay
  /\ Unsent \/ At \in {"idle", "return"} => Quiet
  /\ At = "arm" /\ op[Caller] = "del" => OnWay \/ lpc = "rm"

\* The flags say that the answer was handed over.
HandedOver ==
  /\ flag = ack
  /\ At = "return" => flag
  /\ At = "wait" => ~flag
  /\ At = "woken" /\ flag => Quiet

\* A call's timer runs from its arming until its answer is handled.
Timed ==
  /\ pending \subseteq {Ev}
  /\ Ev \in pending <=> \/ At = "send" /\ op[Caller] # "del"
                        \/ At \in {"block", "wait", "woken"} /\ (OnWay \/ lpc = "rm")

\* The procedures are those of the handles and of the call in progress, and so are
\* the subscriptions of the RIC, but for the one it has not heard of yet.
Recorded ==
  /\ At # "idle" => cur[Caller] \in Ids \ handles
  /\ \A i \in Ids : procs[i] # "none" <=> i \in handles \/ (At # "idle" /\ i = cur[Caller])
  /\ \A i \in Ids : i >= nextId => procs[i] = "none"
  /\ active = handles \cup
       IF At # "idle" /\ \/ op[Caller] = "sub" /\ ~Unsent /\ requests = {}
                         \/ op[Caller] = "del" /\ (Unsent \/ requests # {})
         THEN {cur[Caller]} ELSE {}

\* While every answer is prompt it finds its caller asleep and its timer running.
InTime ==
  prompt =>
    /\ abort = "none"
    /\ At \in {"arm", "block"} => answers = {} /\ lpc = "epoll"
    /\ At = "block" => OnWay
    /\ At \in {"wait", "woken"} /\ Quiet => flag
    /\ At \in {"wait", "woken"} => uleft[Caller] > 0
    /\ At \in {"send", "block"} => (Ev \in pending => left[Ev] = WaitS(op[Caller]))
    /\ At \in {"wait", "woken"} /\ OnWay =>
         /\ Age(Ev) \in 0..PromptDelay
         /\ uleft[Caller] = UiWait - Age(Ev)

CallInv == TypeOK /\ Carried /\ HandedOver /\ Timed /\ Recorded /\ RegistryAssertsHold
-----------------------------------------------------------------------------
(* Lemmas *)

\* The key of the call in progress.
LEMMA CallsEvent ==
  ASSUME OneCaller, TypeOK, Recorded, At # "idle"
  PROVE  /\ Ev \in Events /\ Ev = <<op[Caller], cur[Caller]>>
         /\ cur[Caller] \in Ids /\ op[Caller] \in Ops
         /\ WaitS(op[Caller]) \in Nat /\ 1 <= WaitS(op[Caller]) /\ WaitS(op[Caller]) <= 10
<1>1. cur[Caller] \in Ids
  BY DEF Recorded
<1>2. op[Caller] \in Ops
  BY DEF TypeOK, OneCaller
<1> QED
  BY <1>1, <1>2 DEF Ev, Event, Events, Ops, WaitS

\* Only the call in progress has an event whose answer or timer is awaited.
LEMMA AwaitedByCall ==
  ASSUME OneCaller, CallInv
  PROVE  /\ \A e \in pending : e = Ev /\ At \in {"send", "block", "wait", "woken"}
         /\ \A e \in requests \cup answers :
              e = Ev /\ At \in {"arm", "block", "wait", "woken"} /\ ~Unsent
         /\ lpc # "epoll" => lev = Ev /\ At \in {"arm", "block", "wait", "woken"} /\ ~Unsent
<1> USE DEF CallInv
<1>1. At \in {"idle", "arm", "send", "block", "wait", "woken", "return"}
  BY DEF TypeOK, OneCaller, At
<1>2. Unsent \/ At \in {"idle", "return"} => requests = {} /\ answers = {} /\ lpc = "epoll"
  BY DEF Carried, Quiet, OnWay
<1> QED
  BY <1>1, <1>2 DEF Carried, Timed, Unsent

\* An assertion that fails changes nothing but abort.
LEMMA FailKeeps ==
  ASSUME CallInv, NEW what, Fail(what)
  PROVE  /\ Carried' /\ HandedOver' /\ Timed' /\ Recorded'
         /\ what \in {"no pending event", "ui timeout", "timer expired"} => CallInv'
<1>1. UNCHANGED <<registry, timers, sync, uiVars, loopVars, netVars>> /\ abort' = what
  BY DEF Fail
<1> USE DEF registry, timers, sync, uiVars, loopVars, netVars, CallInv, At, Ev, Event, OnWay,
            Quiet, Unsent
<1>2. Carried' /\ HandedOver' /\ Timed' /\ Recorded'
  BY <1>1 DEF Carried, HandedOver, Timed, Recorded
<1>3. what \in {"no pending event", "ui timeout", "timer expired"} =>
        TypeOK' /\ RegistryAssertsHold'
  BY <1>1 DEF TypeOK, RegistryAssertsHold
<1> QED
  BY <1>2, <1>3

\* The assertions on the registry and on msg_ack hold.
LEMMA Registered ==
  ASSUME OneCaller, CallInv
  PROVE  /\ \A i \in handles : i \in Ids /\ procs[i] # "none"
         /\ At = "return" => ack /\ procs[cur[Caller]] # "none"
         /\ \A e \in answers : procs[e[2]] # "none"
<1> USE DEF CallInv
<1>1. \A i \in handles : i \in Ids /\ procs[i] # "none"
  BY DEF TypeOK, Recorded
<1>2. At # "idle" => procs[cur[Caller]] # "none"
  BY DEF Recorded
<1>3. At = "return" => ack
  BY DEF HandedOver
<1>4. \A e \in answers : At # "idle" /\ e[2] = cur[Caller]
  BY AwaitedByCall DEF Ev, Event
<1> QED
  BY <1>1, <1>2, <1>3, <1>4

\* Steps keep the types.
LEMMA TypeStep ==
  ASSUME OneCaller, CallInv, [Next]_vars
  PROVE  TypeOK'
<1>0. Caller \in UIs /\ \A u \in UIs : u = Caller
  BY DEF OneCaller
<1>a. ASSUME At # "idle"
      PROVE  /\ Ev \in Events /\ cur[Caller] \in Ids /\ op[Caller] \in Ops
             /\ WaitS(op[Caller]) \in 0..10
  BY <1>a, CallsEvent DEF CallInv
<1>b. /\ \A n \in 0..10 : LessOne(n) \in 0..10
      /\ \A n \in 0..6 : LessOne(n) \in 0..6
  BY DEF LessOne
<1>c. 0 \in 0..10 /\ 0 \in 0..6 /\ UiWait \in 0..6
  BY DEF UiWait
<1>d. nextId \in 1..MaxReq+1 /\ nextId <= MaxReq => nextId \in Ids /\ nextId + 1 \in 1..MaxReq+1
  BY MaxReqAssumption DEF Ids
<1> USE DEF TypeOK, CallInv, registry, timers, sync, uiVars, loopVars, netVars
<1>1. ASSUME NEW type \in {"sub", "ctrl"}, Register(Caller, type) PROVE TypeOK'
  <2>1. nextId \in Ids /\ type \in Ops
    BY <1>1, <1>d DEF Register, Ops
  <2>2. nextId' \in 1..MaxReq+1
    BY <1>1, <1>d DEF Register
  <2>3. procs' \in [Ids -> {"none", "sub", "ctrl"}]
    BY <1>1, <2>1 DEF Register
  <2>4. /\ op' \in [UIs -> Ops] /\ cur' \in [UIs -> Ids \cup {0}]
        /\ upc' \in [UIs -> {"idle", "arm", "send", "block", "wait", "woken", "return"}]
    BY <1>1, <2>1 DEF Register
  <2> QED
    BY <1>1, <2>2, <2>3, <2>4 DEF Register
<1>2. ASSUME Arm(Caller) PROVE TypeOK'
  <2>1. Event(Caller) \in Events /\ WaitS(op[Caller]) \in 0..10
    BY <1>2, <1>a DEF Arm, At, Ev
  <2> QED
    BY <1>2, <2>1 DEF Arm
<1>3. ASSUME SendRequest(Caller) PROVE TypeOK'
  <2>1. Event(Caller) \in Events
    BY <1>3, <1>a DEF SendRequest, At, Ev
  <2> QED
    BY <1>3, <2>1 DEF SendRequest
<1>4. ASSUME CondWait(Caller) PROVE TypeOK'
  <2>1. uleft' \in [UIs -> 0..6]
    BY <1>4, <1>c DEF CondWait
  <2> QED
    BY <1>4, <2>1 DEF CondWait
<1>5. ASSUME TestFlag(Caller) \/ SpuriousWake(Caller) PROVE TypeOK'
  BY <1>5 DEF TestFlag, SpuriousWake
<1>6. ASSUME UiTimeout(Caller) PROVE TypeOK'
  BY <1>6 DEF UiTimeout, Fail
<1>7. ASSUME Return(Caller) PROVE TypeOK'
  <2>1. CASE Fail("no msg_ack") \/ Fail("not registered")
    BY <2>1 DEF Fail
  <2>2. CASE ~(Fail("no msg_ack") \/ Fail("not registered"))
    <3>1. cur[Caller] \in Ids
      BY <1>7, <1>a DEF Return, At
    <3>2. handles' \subseteq Ids
      BY <1>7, <2>2, <3>1 DEF Return
    <3>3. procs' \in [Ids -> {"none", "sub", "ctrl"}]
      BY <1>7, <2>2, <3>1 DEF Return
    <3>4. upc' \in [UIs -> {"idle", "arm", "send", "block", "wait", "woken", "return"}]
      <4>1. upc' = [upc EXCEPT ![Caller] = "idle"]
        BY <1>7, <2>2 DEF Return
      <4>2. upc \in [UIs -> {"idle", "arm", "send", "block", "wait", "woken", "return"}]
        OBVIOUS
      <4> QED
        BY ONLY <4>1, <4>2
    <3>5. uleft' \in [UIs -> 0..6]
      BY <1>7, <1>c, <2>2 DEF Return
    <3> QED
      BY <1>7, <2>2, <3>2, <3>3, <3>4, <3>5 DEF Return
  <2> QED
    BY <2>1, <2>2
<1>8. ASSUME NEW i \in Ids, RmReport(Caller, i) PROVE TypeOK'
  <2>1. CASE Fail("not registered")
    BY <2>1 DEF Fail
  <2>2. CASE ~Fail("not registered")
    <3>1. "del" \in Ops
      BY DEF Ops
    <3>2. /\ op' \in [UIs -> Ops] /\ cur' \in [UIs -> Ids \cup {0}]
          /\ upc' \in [UIs -> {"idle", "arm", "send", "block", "wait", "woken", "return"}]
      BY <1>8, <2>2, <3>1 DEF RmReport
    <3> QED
      BY <1>8, <2>2, <3>2 DEF RmReport
  <2> QED
    BY <2>1, <2>2
<1>9. ASSUME StopTimer PROVE TypeOK'
  <2>1. CASE Fail("no pending event")
    BY <2>1 DEF Fail
  <2>2. CASE ~Fail("no pending event")
    <3>1. lev \in Events
      BY <1>9, <2>2 DEF StopTimer
    <3>2. left' \in [Events -> 0..10]
      BY <1>9, <1>c, <2>2, <3>1 DEF StopTimer
    <3> QED
      BY <1>9, <2>2, <3>2 DEF StopTimer
  <2> QED
    BY <2>1, <2>2
<1>10. ASSUME SignalUi PROVE TypeOK'
  <2>1. upc' \in [UIs -> {"idle", "arm", "send", "block", "wait", "woken", "return"}]
    BY <1>10 DEF SignalUi, Waiting
  <2> QED
    BY <1>10, <2>1 DEF SignalUi
<1>11. ASSUME NEW e \in Events, RxAnswer(e) PROVE TypeOK'
  BY <1>11 DEF RxAnswer, Fail
<1>12. ASSUME NEW e \in Events, TimerEvent(e) PROVE TypeOK'
  BY <1>12 DEF TimerEvent, Fail
<1>13. ASSUME NEW e \in Events, Answer(e) PROVE TypeOK'
  <2>1. e[2] \in Ids
    BY DEF Events
  <2>2. active' \subseteq Ids
    BY <1>13, <2>1 DEF Answer
  <2>3. prompt' \in BOOLEAN
    BY <1>13 DEF Answer
  <2> QED
    BY <1>13, <2>2, <2>3 DEF Answer
<1>14. ASSUME Tick PROVE TypeOK'
  <2>3. left' \in [Events -> 0..10] /\ uleft' \in [UIs -> 0..6]
    BY <1>14, <1>b DEF Tick
  <2>4. prompt' \in BOOLEAN
    BY <1>14 DEF Tick
  <2> QED
    BY <1>14, <2>3, <2>4 DEF Tick
<1>15. ASSUME UNCHANGED vars PROVE TypeOK'
  BY <1>15 DEF vars
<1> QED
  BY <1>0, <1>1, <1>2, <1>3, <1>4, <1>5, <1>6, <1>7, <1>8, <1>9, <1>10, <1>11, <1>12, <1>13,
     <1>14, <1>15 DEF Next, UiStep, LoopStep, Report, Control

\* A new call registers its procedure.
LEMMA RegisterStep ==
  ASSUME OneCaller, CallInv, TypeOK', NEW type \in {"sub", "ctrl"}, Register(Caller, type)
  PROVE  CallInv'
<1> USE DEF CallInv, Event, registry, timers, sync, uiVars, loopVars, netVars
<1>a. /\ nextId \in Ids /\ nextId' = nextId + 1
      /\ \A i \in Ids : i >= nextId + 1 => i >= nextId /\ i # nextId
  <2>1. nextId \in 1..MaxReq+1
    BY DEF TypeOK
  <2>2. nextId <= MaxReq /\ nextId' = nextId + 1
    BY DEF Register
  <2> QED
    BY ONLY <2>1, <2>2, MaxReqAssumption DEF Ids
<1>b. /\ Caller \in UIs
      /\ upc \in [UIs -> {"idle", "arm", "send", "block", "wait", "woken", "return"}]
      /\ op \in [UIs -> Ops] /\ cur \in [UIs -> Ids \cup {0}]
      /\ procs \in [Ids -> {"none", "sub", "ctrl"}]
  BY DEF OneCaller, TypeOK
<1>1. /\ At = "idle" /\ At' = "arm" /\ op'[Caller] = type /\ cur'[Caller] = nextId
      /\ \A i \in Ids : procs'[i] = IF i = nextId THEN type ELSE procs[i]
      /\ UNCHANGED <<timers, sync, handles, loopVars, netVars, abort>>
  BY <1>b DEF Register, At
<1>2. Quiet /\ pending = {} /\ active = handles
  <2>1. Quiet
    BY <1>1 DEF Carried
  <2>2. pending = {}
    BY <1>1, <2>1 DEF Timed, Quiet
  <2> QED
    BY <1>1, <2>1, <2>2 DEF Recorded
<1>3. Carried'
  BY <1>1, <1>2 DEF Carried, Quiet, OnWay
<1>4. HandedOver'
  BY <1>1 DEF HandedOver
<1>5. Timed'
  BY <1>1, <1>2 DEF Timed
<1>6. Recorded'
  <2>1. nextId \in Ids \ handles
    <3>1. nextId >= nextId
      BY <1>a DEF Ids
    <3> QED
      BY <1>1, <1>a, <3>1 DEF Recorded
  <2>2. \A i \in Ids : procs'[i] # "none" <=> i \in handles \/ i = nextId
    BY <1>1, <1>a, <2>1 DEF Recorded
  <2>3. \A i \in Ids : i >= nextId' => procs'[i] = "none"
    BY <1>1, <1>a DEF Recorded
  <2>4. Unsent'
    BY <1>1 DEF Unsent
  <2> QED
    BY <1>1, <1>2, <2>1, <2>2, <2>3, <2>4 DEF Recorded
<1>7. RegistryAssertsHold'
  BY <1>1 DEF RegistryAssertsHold
<1> QED
  BY <1>3, <1>4, <1>5, <1>6, <1>7

\* The timer of a request is armed: before a subscription or control is sent, after a
\* delete was.
LEMMA ArmStep ==
  ASSUME OneCaller, CallInv, TypeOK', Arm(Caller)
  PROVE  CallInv'
<1> USE DEF CallInv, registry, timers, sync, uiVars, loopVars, netVars
<1>1. /\ At = "arm" /\ At' = (IF op[Caller] = "del" THEN "block" ELSE "send")
      /\ pending' = pending \cup {Ev} /\ Ev' = Ev
      /\ UNCHANGED <<registry, sync, op, cur, handles, loopVars, netVars, abort>>
  BY DEF Arm, At, Ev, Event, OneCaller, TypeOK
<1>2. (Unsent' <=> Unsent) /\ (OnWay' <=> OnWay)
  BY <1>1 DEF Unsent, OnWay
<1>3. Carried'
  BY <1>1, <1>2 DEF Carried, Quiet
<1>4. HandedOver'
  BY <1>1 DEF HandedOver
<1>5. Timed'
  BY <1>1, <1>2 DEF Timed, Carried
<1>6. Recorded'
  BY <1>1, <1>2 DEF Recorded
<1>7. RegistryAssertsHold'
  BY <1>1 DEF RegistryAssertsHold
<1> QED
  BY <1>3, <1>4, <1>5, <1>6, <1>7

\* The request of the call in progress is sent.
LEMMA SendStep ==
  ASSUME OneCaller, CallInv, TypeOK', SendRequest(Caller)
  PROVE  CallInv'
<1> USE DEF CallInv, registry, timers, sync, uiVars, loopVars, netVars
<1>1. /\ At = "send" /\ At' = (IF op[Caller] = "del" THEN "arm" ELSE "block")
      /\ requests' = requests \cup {Ev} /\ Ev' = Ev
      /\ UNCHANGED <<registry, timers, sync, op, cur, handles, loopVars, answers, active, abort>>
  BY DEF SendRequest, At, Ev, Event, OneCaller, TypeOK
<1>2. Unsent /\ ~Unsent' /\ OnWay' /\ Quiet
  BY <1>1 DEF Unsent, OnWay, Carried
<1>3. Carried'
  BY <1>1, <1>2 DEF Carried, Quiet, OnWay
<1>4. HandedOver'
  BY <1>1 DEF HandedOver
<1>5. Timed'
  BY <1>1, <1>2 DEF Timed, Quiet
<1>6. Recorded'
  <2>1. requests' # {} /\ requests = {}
    BY <1>1, <1>2 DEF Quiet, OnWay
  <2> QED
    BY <1>1, <1>2, <2>1 DEF Recorded
<1>7. RegistryAssertsHold'
  BY <1>1 DEF RegistryAssertsHold
<1> QED
  BY <1>3, <1>4, <1>5, <1>6, <1>7

\* cond_wait_sync_ui and its loop keep the flags and the answer apart.
LEMMA WaitStep ==
  ASSUME OneCaller, CallInv, TypeOK', CondWait(Caller) \/ TestFlag(Caller) \/ SpuriousWake(Caller)
  PROVE  CallInv'
<1> USE DEF CallInv, registry, timers, sync, uiVars, loopVars, netVars
<1>1. /\ \/ At = "block" /\ At' = "wait" /\ flag' = FALSE /\ ack' = FALSE
         \/ At = "woken" /\ At' = (IF flag THEN "return" ELSE "wait") /\ UNCHANGED <<flag, ack>>
         \/ At = "wait" /\ At' = "woken" /\ UNCHANGED <<flag, ack>>
      /\ Ev' = Ev
      /\ UNCHANGED <<registry, timers, op, cur, handles, loopVars, netVars, abort>>
  BY DEF CondWait, TestFlag, SpuriousWake, At, Ev, Event, OneCaller, TypeOK
<1>2. ~Unsent /\ ~Unsent' /\ (OnWay' <=> OnWay) /\ (Quiet' <=> Quiet)
  BY <1>1 DEF Unsent, OnWay, Quiet
<1>3. Carried'
  BY <1>1, <1>2 DEF Carried, HandedOver
<1>4. HandedOver'
  <2>1. CASE At = "block"
    BY <1>1, <2>1 DEF HandedOver
  <2>2. CASE At = "woken"
    BY <1>1, <1>2, <2>2 DEF HandedOver
  <2>3. CASE At = "wait"
    BY <1>1, <2>3 DEF HandedOver
  <2> QED
    BY <1>1, <2>1, <2>2, <2>3
<1>5. Timed'
  BY <1>1, <1>2 DEF Timed, HandedOver, Quiet
<1>6. Recorded'
  BY <1>1, <1>2 DEF Recorded
<1>7. RegistryAssertsHold'
  BY <1>1 DEF RegistryAssertsHold
<1> QED
  BY <1>3, <1>4, <1>5, <1>6, <1>7

\* A call returns only after its answer was handled.
LEMMA ReturnStep ==
  ASSUME OneCaller, CallInv, TypeOK', Return(Caller)
  PROVE  CallInv'
<1> USE DEF CallInv, registry, timers, sync, uiVars, loopVars, netVars
<1>1. At = "return" /\ ack /\ procs[cur[Caller]] # "none"
  BY Registered DEF Return, At
<1>2. /\ At' = "idle" /\ Ev' = Ev
      /\ handles' = IF op[Caller] = "sub" THEN handles \cup {cur[Caller]} ELSE handles
      /\ procs' = IF op[Caller] = "sub" THEN procs ELSE [procs EXCEPT ![cur[Caller]] = "none"]
      /\ UNCHANGED <<nextId, timers, sync, op, cur, loopVars, netVars, abort>>
  BY <1>1 DEF Return, At, Ev, Event, OneCaller, TypeOK
<1>3. Quiet /\ Quiet' /\ pending = {} /\ ~Unsent
  <2>1. Quiet /\ ~Unsent
    BY <1>1 DEF Carried, Unsent
  <2> QED
    BY <1>1, <1>2, <2>1 DEF Timed, Quiet, OnWay
<1>4. Carried'
  BY <1>2, <1>3 DEF Carried, Quiet, OnWay
<1>5. HandedOver'
  BY <1>2 DEF HandedOver
<1>6. Timed'
  BY <1>2, <1>3 DEF Timed
<1>7. Recorded'
  <2>1. cur[Caller] \in Ids \ handles /\ requests = {}
    BY <1>1, <1>3 DEF Recorded, Quiet, OnWay
  <2>2. active = handles'
    BY <1>1, <1>2, <1>3, <2>1 DEF Recorded
  <2>a. \A i \in Ids : procs'[i] =
          IF op[Caller] # "sub" /\ i = cur[Caller] THEN "none" ELSE procs[i]
    <3>1. procs \in [Ids -> {"none", "sub", "ctrl"}]
      BY DEF TypeOK
    <3> QED
      BY ONLY <1>2, <2>1, <3>1
  <2>3. \A i \in Ids : procs'[i] # "none" <=> i \in handles'
    BY <1>1, <1>2, <2>1, <2>a DEF Recorded
  <2>4. \A i \in Ids : i >= nextId => procs'[i] = "none"
    BY <2>a DEF Recorded
  <2> QED
    BY <1>2, <2>2, <2>3, <2>4 DEF Recorded
<1>8. RegistryAssertsHold'
  BY <1>2 DEF RegistryAssertsHold
<1> QED
  BY <1>4, <1>5, <1>6, <1>7, <1>8

\* The removal of a report begins.
LEMMA RmReportStep ==
  ASSUME OneCaller, CallInv, TypeOK', NEW i \in Ids, RmReport(Caller, i)
  PROVE  CallInv'
<1> USE DEF CallInv, registry, timers, sync, uiVars, loopVars, netVars
<1>1. At = "idle" /\ i \in handles /\ procs[i] # "none"
  BY Registered DEF RmReport, At
<1>2. /\ At' = "send" /\ op'[Caller] = "del" /\ cur'[Caller] = i /\ handles' = handles \ {i}
      /\ UNCHANGED <<registry, timers, sync, loopVars, netVars, abort>>
  BY <1>1 DEF RmReport, At, OneCaller, TypeOK
<1>3. Quiet /\ pending = {} /\ active = handles
  <2>1. Quiet
    BY <1>1 DEF Carried
  <2> QED
    BY <1>1, <2>1 DEF Timed, Quiet, Recorded
<1>4. Carried'
  BY <1>2, <1>3 DEF Carried, Quiet, OnWay
<1>5. HandedOver'
  BY <1>2 DEF HandedOver
<1>6. Timed'
  BY <1>2, <1>3 DEF Timed
<1>7. Recorded'
  <2>1. Unsent'
    BY <1>2 DEF Unsent
  <2>2. \A j \in Ids : procs[j] # "none" <=> j \in handles
    BY <1>1 DEF Recorded
  <2>3. active' = handles' \cup {i}
    BY <1>1, <1>2, <1>3
  <2>4. \A j \in Ids : procs'[j] # "none" <=> j \in handles' \/ j = i
    BY <1>1, <1>2, <2>2
  <2>5. \A j \in Ids : j >= nextId' => procs'[j] = "none"
    BY <1>2 DEF Recorded
  <2> QED
    BY <1>2, <2>1, <2>3, <2>4, <2>5 DEF Recorded
<1>8. RegistryAssertsHold'
  BY <1>2 DEF RegistryAssertsHold
<1> QED
  BY <1>4, <1>5, <1>6, <1>7, <1>8

\* The event loop stops the timer of the call, and no other.
LEMMA StopTimerStep ==
  ASSUME OneCaller, CallInv, TypeOK', StopTimer
  PROVE  CallInv'
<1> USE DEF CallInv, registry, timers, sync, uiVars, loopVars, netVars
<1>1. CASE lev \notin pending
  BY <1>1, FailKeeps DEF StopTimer
<1>2. CASE lev \in pending
  <2>1. /\ lpc = "rm" /\ lpc' = "signal" /\ pending' = pending \ {Ev} /\ At' = At /\ Ev' = Ev
        /\ lev = Ev
        /\ UNCHANGED <<registry, sync, uiVars, lev, netVars, abort>>
    BY <1>2 DEF StopTimer, Carried, At, Ev, Event
  <2>2. At \in {"send", "block", "wait", "woken"} /\ ~Unsent /\ ~OnWay /\ ~Quiet
    BY <1>2, <2>1, AwaitedByCall DEF Quiet, Carried
  <2>3. At' # "send" /\ ~Unsent' /\ ~OnWay' /\ ~Quiet'
    BY <2>1, <2>2 DEF Unsent, OnWay, Quiet
  <2>4. Carried'
    BY <2>1, <2>2, <2>3 DEF Carried
  <2>5. HandedOver'
    BY <2>1, <2>2 DEF HandedOver
  <2>6. Timed'
    BY <2>1, <2>2, <2>3 DEF Timed, Unsent
  <2>7. Recorded'
    BY <2>1, <2>2, <2>3 DEF Recorded
  <2>8. RegistryAssertsHold'
    BY <2>1 DEF RegistryAssertsHold
  <2> QED
    BY <2>4, <2>5, <2>6, <2>7, <2>8
<1> QED
  BY <1>1, <1>2

\* The event loop hands the answer over.
LEMMA SignalStep ==
  ASSUME OneCaller, CallInv, TypeOK', SignalUi
  PROVE  CallInv'
<1> USE DEF CallInv, registry, timers, sync, uiVars, loopVars, netVars
<1>1. /\ lpc = "signal" /\ lpc' = "epoll" /\ flag' = TRUE /\ ack' = TRUE /\ Ev' = Ev
      /\ At' = IF At = "wait" THEN "woken" ELSE At
      /\ UNCHANGED <<registry, timers, op, cur, handles, requests, answers, active, abort>>
  BY DEF SignalUi, Waiting, At, Ev, Event, OneCaller, TypeOK
<1>2. At \in {"block", "wait", "woken"} /\ ~Unsent /\ ~OnWay
  BY <1>1, AwaitedByCall DEF Carried, Unsent
<1>3. At' \in {"block", "woken"} /\ ~Unsent' /\ ~OnWay' /\ Quiet'
  BY <1>1, <1>2 DEF Unsent, OnWay, Quiet
<1>4. Carried'
  BY <1>1, <1>2, <1>3 DEF Carried
<1>5. HandedOver'
  BY <1>1, <1>3 DEF HandedOver
<1>6. Timed'
  BY <1>1, <1>2, <1>3 DEF Timed
<1>7. Recorded'
  <2>1. cur'[Caller] = cur[Caller] /\ op'[Caller] = op[Caller] /\ At # "idle" /\ At' # "idle"
    BY <1>1, <1>2, <1>3
  <2> QED
    BY <1>1, <1>2, <1>3, <2>1 DEF Recorded
<1>8. RegistryAssertsHold'
  BY <1>1 DEF RegistryAssertsHold
<1> QED
  BY <1>4, <1>5, <1>6, <1>7, <1>8

\* The event loop finds the procedure of an answer.
LEMMA RxAnswerStep ==
  ASSUME OneCaller, CallInv, TypeOK', NEW e \in Events, RxAnswer(e)
  PROVE  CallInv'
<1> USE DEF CallInv, registry, timers, sync, uiVars, loopVars, netVars
<1>1. e \in answers /\ procs[e[2]] # "none" /\ e = Ev /\ requests = {} /\ answers = {e}
  BY Registered DEF RxAnswer, Carried
<1>2. /\ lpc = "epoll" /\ lpc' = "rm" /\ lev' = e /\ answers' = {} /\ At' = At /\ Ev' = Ev
      /\ UNCHANGED <<registry, timers, sync, uiVars, requests, active, abort>>
  BY <1>1 DEF RxAnswer, At, Ev, Event
<1>3. /\ At \in {"arm", "block", "wait", "woken"} /\ ~Unsent /\ OnWay
      /\ ~Unsent' /\ ~OnWay' /\ ~Quiet'
  BY <1>1, <1>2, AwaitedByCall DEF Unsent, OnWay, Quiet
<1>4. Carried'
  BY <1>1, <1>2, <1>3 DEF Carried
<1>5. HandedOver'
  BY <1>1, <1>2, <1>3 DEF HandedOver, Quiet
<1>6. Timed'
  BY <1>1, <1>2, <1>3 DEF Timed
<1>7. Recorded'
  BY <1>1, <1>2, <1>3 DEF Recorded
<1>8. RegistryAssertsHold'
  BY <1>2 DEF RegistryAssertsHold
<1> QED
  BY <1>4, <1>5, <1>6, <1>7, <1>8

\* The RIC answers the request of the call in progress.
LEMMA AnswerStep ==
  ASSUME OneCaller, CallInv, TypeOK', NEW e \in Events, Answer(e)
  PROVE  CallInv'
<1> USE DEF CallInv, registry, timers, sync, uiVars, loopVars, netVars
<1>1. /\ e = Ev /\ requests = {Ev} /\ requests' = {} /\ answers = {} /\ answers' = {Ev}
      /\ At' = At /\ Ev' = Ev
      /\ active' = CASE e[1] = "sub" -> active \cup {e[2]}
                     [] e[1] = "del" -> active \ {e[2]}
                     [] OTHER -> active
      /\ UNCHANGED <<registry, timers, sync, uiVars, loopVars, abort>>
  BY DEF Answer, Carried, At, Ev, Event
<1>2. /\ At \in {"arm", "block", "wait", "woken"} /\ ~Unsent /\ OnWay /\ ~Unsent' /\ OnWay'
  BY <1>1, AwaitedByCall DEF Unsent, OnWay
<1>3. e[1] = op[Caller] /\ e[2] = cur[Caller]
  BY <1>1 DEF Ev, Event
<1>4. Carried'
  BY <1>1, <1>2 DEF Carried
<1>5. HandedOver'
  BY <1>1, <1>2 DEF HandedOver, Quiet
<1>6. Timed'
  BY <1>1, <1>2 DEF Timed
<1>7. Recorded'
  <2>1. cur[Caller] \in Ids \ handles /\ requests # {} /\ At # "idle"
    BY <1>1, <1>2 DEF Recorded
  <2>2. CASE op[Caller] = "sub"
    BY <1>1, <1>2, <1>3, <2>1, <2>2 DEF Recorded
  <2>3. CASE op[Caller] = "del"
    BY <1>1, <1>2, <1>3, <2>1, <2>3 DEF Recorded
  <2>4. CASE op[Caller] \notin {"sub", "del"}
    BY <1>1, <1>2, <1>3, <2>1, <2>4 DEF Recorded
  <2> QED
    BY <2>2, <2>3, <2>4
<1>8. RegistryAssertsHold'
  BY <1>1 DEF RegistryAssertsHold
<1> QED
  BY <1>4, <1>5, <1>6, <1>7, <1>8

\* Time, and steps of others, leave what the invariant speaks of alone.
LEMMA StillStep ==
  ASSUME CallInv, TypeOK', Tick \/ UNCHANGED vars
  PROVE  CallInv'
<1> USE DEF CallInv, registry, timers, sync, uiVars, loopVars, netVars
<1>1. UNCHANGED <<registry, pending, sync, upc, op, cur, handles, loopVars, requests, answers,
                  active, abort>>
  BY DEF Tick, vars
<1>2. UNCHANGED <<At, Ev, Unsent, OnWay, Quiet>>
  BY <1>1 DEF At, Ev, Event, Unsent, OnWay, Quiet
<1>3. Carried'
  BY <1>1, <1>2 DEF Carried
<1>4. HandedOver' /\ RegistryAssertsHold'
  BY <1>1, <1>2 DEF HandedOver, RegistryAssertsHold
<1>5. Timed'
  BY <1>1, <1>2 DEF Timed
<1>6. Recorded'
  BY <1>1, <1>2 DEF Recorded
<1> QED
  BY <1>3, <1>4, <1>5, <1>6

\* Every step keeps the invariant.
LEMMA CallStep ==
  ASSUME OneCaller, CallInv, [Next]_vars
  PROVE  CallInv'
<1>1. TypeOK'
  BY TypeStep
<1>2. \A u \in UIs : u = Caller
  BY DEF OneCaller
<1>3. ASSUME UiTimeout(Caller) \/ \E e \in Events : TimerEvent(e) PROVE CallInv'
  BY <1>3, FailKeeps DEF UiTimeout, TimerEvent
<1> QED
  BY <1>1, <1>2, <1>3, RegisterStep, ArmStep, SendStep, WaitStep, ReturnStep, RmReportStep,
     StopTimerStep, SignalStep, RxAnswerStep, AnswerStep, StillStep
  DEF Next, UiStep, LoopStep, Report, Control

\* The invariant holds at first.
LEMMA CallStart ==
  ASSUME OneCaller, Init
  PROVE  CallInv
<1> USE DEF Init
<1>1. Caller \in UIs /\ At = "idle"
  BY DEF OneCaller, At
<1>2. TypeOK
  <2>1. nextId \in 1..MaxReq+1
    BY MaxReqAssumption
  <2>2. left \in [Events -> 0..10] /\ uleft \in [UIs -> 0..6]
    BY 0 \in 0..10, 0 \in 0..6
  <2>3. op \in [UIs -> Ops]
    BY DEF Ops
  <2> QED
    BY <2>1, <2>2, <2>3 DEF TypeOK
<1>3. Carried /\ HandedOver /\ Timed
  BY <1>1 DEF Carried, HandedOver, Timed, Unsent, OnWay, Quiet
<1>4. Recorded /\ RegistryAssertsHold
  BY <1>1 DEF Recorded, RegistryAssertsHold
<1> QED
  BY <1>2, <1>3, <1>4 DEF CallInv

-----------------------------------------------------------------------------
(* Prompt answers *)

\* Prompt answers keep finding their caller asleep and its timers running.
LEMMA InTimeStep ==
  ASSUME OneCaller, PromptDelay < 5, CallInv, InTime, abort = "none", [Next]_vars
  PROVE  InTime'
<1> SUFFICES ASSUME prompt' PROVE InTime'
  BY DEF InTime
<1>0. \A u \in UIs : u = Caller
  BY DEF OneCaller
<1>a. CallInv'
  BY CallStep
<1>b. prompt
  <2>1. ASSUME NEW u \in UIs, UiStep(u) \/ Report(u) \/ Control(u) \/ SpuriousWake(u) PROVE prompt
    BY <2>1 DEF UiStep, Report, Control, SpuriousWake, Register, Arm, SendRequest, CondWait,
                TestFlag, UiTimeout, Return, Fail, netVars
  <2>2. ASSUME NEW u \in UIs, NEW i \in Ids, RmReport(u, i) PROVE prompt
    BY <2>2 DEF RmReport, Fail, netVars
  <2>3. ASSUME LoopStep PROVE prompt
    BY <2>3 DEF LoopStep, StopTimer, SignalUi, RxAnswer, TimerEvent, Fail, netVars
  <2>4. ASSUME Tick \/ (\E e \in Events : Answer(e)) \/ UNCHANGED vars PROVE prompt
    BY <2>4 DEF Tick, Answer, vars, netVars
  <2> QED
    BY <2>1, <2>2, <2>3, <2>4 DEF Next
<1>c. /\ Carried /\ HandedOver /\ Timed /\ Recorded /\ Caller \in UIs
      /\ upc \in [UIs -> {"idle", "arm", "send", "block", "wait", "woken", "return"}]
      /\ op \in [UIs -> Ops] /\ cur \in [UIs -> Ids \cup {0}] /\ left \in [Events -> 0..10]
      /\ uleft \in [UIs -> 0..6]
  BY DEF CallInv, TypeOK, OneCaller
<1>d. /\ At \in {"arm", "block"} => answers = {} /\ lpc = "epoll"
      /\ At = "block" => OnWay
      /\ At \in {"wait", "woken"} /\ Quiet => flag
      /\ At \in {"wait", "woken"} => uleft[Caller] > 0
      /\ At \in {"send", "block"} => (Ev \in pending => left[Ev] = WaitS(op[Caller]))
      /\ At \in {"wait", "woken"} /\ OnWay =>
           Age(Ev) \in 0..PromptDelay /\ uleft[Caller] = UiWait - Age(Ev)
  BY <1>b DEF InTime
<1> USE DEF registry, timers, sync, uiVars, loopVars, netVars
<1>1. ASSUME NEW type \in {"sub", "ctrl"}, Register(Caller, type) PROVE InTime'
  <2>1. At = "idle" /\ At' = "arm" /\ UNCHANGED <<loopVars, netVars, abort>>
    BY <1>1, <1>c DEF Register, At
  <2> QED
    BY <2>1, <1>c DEF InTime, Carried, Quiet, OnWay
<1>2. ASSUME Arm(Caller) PROVE InTime'
  <2>1. /\ At = "arm" /\ At' = (IF op[Caller] = "del" THEN "block" ELSE "send") /\ Ev' = Ev
        /\ left' = [left EXCEPT ![Ev] = WaitS(op[Caller])]
        /\ UNCHANGED <<op, loopVars, netVars, abort>>
    BY <1>2, <1>c DEF Arm, At, Ev, Event
  <2>2. Ev \in Events
    BY <2>1, CallsEvent DEF CallInv
  <2>3. left'[Ev] = WaitS(op[Caller])
    BY <2>1, <2>2, <1>c
  <2>4. OnWay' <=> OnWay
    BY <2>1 DEF OnWay
  <2>5. WaitS(op[Caller])' = WaitS(op[Caller])
    BY <2>1 DEF WaitS
  <2> QED
    BY <2>1, <2>3, <2>4, <2>5, <1>c, <1>d DEF InTime, Carried
<1>3. ASSUME SendRequest(Caller) PROVE InTime'
  <2>1. /\ At = "send" /\ At' = (IF op[Caller] = "del" THEN "arm" ELSE "block") /\ Ev' = Ev
        /\ requests' = requests \cup {Ev}
        /\ UNCHANGED <<op, timers, loopVars, answers, abort>>
    BY <1>3, <1>c DEF SendRequest, At, Ev, Event
  <2>2. answers = {} /\ lpc = "epoll" /\ OnWay'
    BY <2>1, <1>c DEF Carried, Unsent, Quiet, OnWay
  <2>3. WaitS(op[Caller])' = WaitS(op[Caller])
    BY <2>1 DEF WaitS
  <2> QED
    BY <2>1, <2>2, <2>3, <1>d DEF InTime
<1>4. ASSUME CondWait(Caller) PROVE InTime'
  <2>1. /\ At = "block" /\ At' = "wait" /\ Ev' = Ev /\ uleft'[Caller] = 6
        /\ UNCHANGED <<timers, requests, answers, lpc, abort>>
    BY <1>4, <1>c DEF CondWait, At, Ev, Event, UiWait
  <2>2. OnWay /\ OnWay' /\ ~Quiet'
    BY <2>1, <1>d DEF OnWay, Quiet
  <2>3. Ev \in pending /\ left[Ev] = WaitS(op[Caller])
    BY <2>1, <2>2, <1>c, <1>d DEF Timed
  <2>4. Age(Ev) = 0 /\ Age(Ev)' = 0
    <3>1. Ev[1] = op[Caller] /\ WaitS(op[Caller]) \in Nat
      BY <2>1, CallsEvent DEF CallInv, Ev, Event
    <3> QED
      BY <2>1, <2>3, <3>1 DEF Age
  <2> QED
    BY <2>1, <2>2, <2>4, PromptDelayAssumption DEF InTime, UiWait
<1>5. ASSUME TestFlag(Caller) \/ SpuriousWake(Caller) PROVE InTime'
  <2>1. /\ At \in {"wait", "woken"} /\ At' \in {"wait", "woken", "return"} /\ Ev' = Ev
        /\ UNCHANGED <<timers, sync, uleft, requests, answers, lpc, abort>>
    BY <1>5, <1>c DEF TestFlag, SpuriousWake, At, Ev, Event
  <2>2. UNCHANGED <<OnWay, Quiet, Age(Ev)>>
    BY <2>1 DEF OnWay, Quiet, Age
  <2> QED
    BY <2>1, <2>2, <1>d DEF InTime
<1>6. ASSUME UiTimeout(Caller) PROVE FALSE
  <2>1. At = "wait" /\ uleft[Caller] = 0
    BY <1>6 DEF UiTimeout, At
  <2> QED
    BY <2>1, <1>d
<1>7. ASSUME Return(Caller) PROVE InTime'
  <2>1. At = "return" /\ ack /\ procs[cur[Caller]] # "none"
    BY <1>7, Registered DEF Return, At
  <2>2. At' = "idle" /\ UNCHANGED abort
    BY <1>7, <1>c, <2>1 DEF Return, At
  <2> QED
    BY <2>2 DEF InTime
<1>8. ASSUME NEW i \in Ids, RmReport(Caller, i) PROVE InTime'
  <2>1. At = "idle" /\ procs[i] # "none"
    BY <1>8, Registered DEF RmReport, At
  <2>2. At' = "send" /\ UNCHANGED <<pending, abort>>
    BY <1>8, <1>c, <2>1 DEF RmReport, At
  <2>3. pending = {}
    BY <2>1, AwaitedByCall
  <2> QED
    BY <2>2, <2>3 DEF InTime
<1>9. ASSUME StopTimer PROVE InTime'
  <2>1. At \in {"wait", "woken"} /\ lev = Ev /\ lev \in pending
    <3>1. lpc = "rm" /\ lev = Ev /\ At \in {"arm", "block", "wait", "woken"}
      BY <1>9, AwaitedByCall DEF StopTimer
    <3> QED
      BY <3>1, <1>c, <1>d DEF Timed
  <2>2. /\ At' = At /\ lpc' = "signal" /\ UNCHANGED <<uleft, requests, answers, abort>>
    BY <1>9, <2>1 DEF StopTimer, At
  <2>3. ~OnWay' /\ ~Quiet'
    BY <1>9, <2>2, <1>c DEF StopTimer, Carried, OnWay, Quiet
  <2> QED
    BY <2>1, <2>2, <2>3, <1>d DEF InTime
<1>10. ASSUME SignalUi PROVE InTime'
  <2>1. At \in {"wait", "woken"} /\ ~OnWay
    BY <1>10, AwaitedByCall, <1>c, <1>d DEF SignalUi, Carried
  <2>2. At' = "woken" /\ flag' /\ UNCHANGED <<uleft, requests, answers, abort>>
    BY <1>10, <1>0, <1>c, <2>1 DEF SignalUi, Waiting, At
  <2>3. ~OnWay'
    BY <2>1, <2>2 DEF OnWay
  <2> QED
    BY <2>1, <2>2, <2>3, <1>d DEF InTime
<1>11. ASSUME NEW e \in Events, RxAnswer(e) PROVE InTime'
  <2>1. e \in answers /\ procs[e[2]] # "none"
    BY <1>11, Registered DEF RxAnswer
  <2>2. At \in {"wait", "woken"} /\ requests = {} /\ answers = {e}
    BY <2>1, AwaitedByCall, <1>c, <1>d DEF Carried
  <2>3. At' = At /\ lpc' = "rm" /\ answers' = {} /\ UNCHANGED <<uleft, requests, abort>>
    BY <1>11, <2>1, <2>2 DEF RxAnswer, At
  <2>4. ~OnWay' /\ ~Quiet'
    BY <2>2, <2>3 DEF OnWay, Quiet
  <2> QED
    BY <2>2, <2>3, <2>4, <1>d DEF InTime
<1>12. ASSUME NEW e \in Events, TimerEvent(e) PROVE FALSE
  <2>1. e = Ev /\ Ev \in pending /\ left[Ev] = 0 /\ At \in {"send", "block", "wait", "woken"} /\
          lpc = "epoll"
    BY <1>12, AwaitedByCall DEF TimerEvent
  <2>2. Age(Ev) = WaitS(op[Caller]) /\ WaitS(op[Caller]) \in Nat /\ WaitS(op[Caller]) >= 5
    <3>1. Ev[1] = op[Caller] /\ op[Caller] \in Ops
      BY <2>1, CallsEvent DEF CallInv
    <3> QED
      BY <2>1, <3>1 DEF Age, WaitS, Ops
  <2>3. At \in {"wait", "woken"}
    BY <2>1, <2>2, <1>d
  <2>4. OnWay
    BY <2>1, <2>3, <1>c DEF Timed
  <2> QED
    BY <2>2, <2>3, <2>4, <1>d, PromptDelayAssumption
<1>13. ASSUME NEW e \in Events, Answer(e) PROVE InTime'
  <2>1. e = Ev /\ OnWay
    BY <1>13, AwaitedByCall DEF Answer, OnWay
  <2>2. At \in {"wait", "woken"} /\ At' = At /\ Ev' = Ev /\ answers' # {}
    BY <1>13, <1>c, <2>1 DEF Answer, At, Ev, Event
  <2>3. OnWay' /\ ~Quiet' /\ UNCHANGED <<uleft, abort, Age(Ev)>>
    BY <1>13, <2>2 DEF Answer, OnWay, Quiet, Age
  <2> QED
    BY <2>1, <2>2, <2>3, <1>d DEF InTime
<1>14. ASSUME Tick PROVE InTime'
  <2>1. At \in {"idle", "wait"} /\ At' = At /\ Ev' = Ev /\ lpc = "epoll" /\
          UNCHANGED <<pending, lpc, requests, answers, sync, abort>>
    BY <1>14, <1>c DEF Tick, At, Ev, Event
  <2>2. CASE At = "idle"
    BY <2>1, <2>2 DEF InTime
  <2>3. CASE At = "wait"
    <3>1. OnWay /\ OnWay' /\ ~Quiet' /\ (Ev \in requests \cup answers)
      BY <2>1, <2>3, <1>c, <1>d DEF OnWay, Quiet, HandedOver, Carried
    <3>2. Ev \in pending /\ Ev \in Events
      BY <2>3, <3>1, <1>c, CallsEvent DEF Timed, CallInv
    <3>3. Age(Ev) < PromptDelay /\ left[Ev] > 0 /\ uleft[Caller] > 0
      BY <1>14, <2>3, <3>1, <3>2, <1>c DEF Tick, At
    <3>4. left'[Ev] = left[Ev] - 1 /\ uleft'[Caller] = uleft[Caller] - 1
      BY <1>14, <3>2, <3>3, <1>c DEF Tick, LessOne
    <3>5. left[Ev] \in Int /\ Ev[1] = op[Caller] /\ WaitS(Ev[1]) \in Nat
      BY <2>3, <3>2, <1>c, CallsEvent DEF CallInv
    <3>6. Age(Ev)' = Age(Ev) + 1 /\ Age(Ev) \in Int
      BY <2>1, <3>4, <3>5 DEF Age
    <3>7. Age(Ev) \in 0..PromptDelay /\ uleft[Caller] = 6 - Age(Ev)
      BY <2>3, <3>1, <1>d DEF UiWait
    <3>8. Age(Ev)' \in 0..PromptDelay /\ uleft'[Caller] = 6 - Age(Ev)' /\ uleft'[Caller] > 0
      BY <3>3, <3>4, <3>6, <3>7, PromptDelayAssumption
    <3> QED
      BY <2>1, <2>3, <3>1, <3>8, <1>d DEF InTime, UiWait
  <2> QED
    BY <2>1, <2>2, <2>3
<1>15. ASSUME UNCHANGED vars PROVE InTime'
  <2>1. UNCHANGED <<At, Ev, OnWay, Quiet, Age(Ev), WaitS(op[Caller])>> /\
          UNCHANGED <<answers, lpc, flag, uleft, pending, left, abort>>
    BY <1>15 DEF vars, At, Ev, Event, OnWay, Quiet, Age
  <2> QED
    BY <2>1, <1>d DEF InTime
<1> QED
  BY <1>0, <1>1, <1>2, <1>3, <1>4, <1>5, <1>6, <1>7, <1>8, <1>9, <1>10, <1>11, <1>12, <1>13,
     <1>14, <1>15 DEF Next, UiStep, LoopStep, Report, Control

-----------------------------------------------------------------------------
(* Theorems *)

\* The invariant of the calls.
LEMMA CallsInvariant ==
  ASSUME OneCaller
  PROVE  Spec => []CallInv
<1>1. Init => CallInv
  BY CallStart
<1>2. CallInv /\ [Next]_vars => CallInv'
  BY CallStep
<1> QED
  BY <1>1, <1>2, PTL DEF Spec

\* The state has its types.
THEOREM TypeCorrect ==
  ASSUME OneCaller
  PROVE  Spec => []TypeOK
<1>1. CallInv => TypeOK
  BY DEF CallInv
<1> QED
  BY <1>1, CallsInvariant, PTL

\* No pending event outlives its procedure.
THEOREM PendingHasProcedure ==
  ASSUME OneCaller
  PROVE  Spec => []PendingIsRegistered
<1>1. CallInv => PendingIsRegistered
  <2> SUFFICES ASSUME CallInv, NEW e \in pending PROVE procs[e[2]] # "none"
    BY DEF PendingIsRegistered
  <2>1. e = Ev /\ At # "idle"
    BY AwaitedByCall
  <2>2. e[2] = cur[Caller]
    BY <2>1 DEF Ev, Event
  <2> QED
    BY <2>1, <2>2 DEF CallInv, Recorded
<1> QED
  BY <1>1, CallsInvariant, PTL

\* Between calls the registry, the handles and the subscriptions are the same set.
THEOREM RecordsAgree ==
  ASSUME OneCaller
  PROVE  Spec => []SubscriptionsAgree
<1>1. CallInv => SubscriptionsAgree
  <2> SUFFICES ASSUME CallInv, \A u \in UIs : upc[u] = "idle"
               PROVE  /\ {i \in Ids : procs[i] # "none"} = handles
                      /\ handles = active
                      /\ pending = {}
    BY DEF SubscriptionsAgree
  <2>1. At = "idle"
    BY DEF OneCaller, At
  <2>2. pending = {}
    BY <2>1, AwaitedByCall
  <2>3. active = handles
    BY <2>1 DEF CallInv, Recorded
  <2>4. handles \subseteq Ids /\ \A i \in Ids : procs[i] # "none" <=> i \in handles
    BY <2>1 DEF CallInv, Recorded, TypeOK
  <2> QED
    BY <2>2, <2>3, <2>4
<1> QED
  BY <1>1, CallsInvariant, PTL

\* The assertions on the registry and on msg_ack never fail.
THEOREM AssertionsHold ==
  ASSUME OneCaller
  PROVE  Spec => []RegistryAssertsHold
<1>1. CallInv => RegistryAssertsHold
  BY DEF CallInv
<1> QED
  BY <1>1, CallsInvariant, PTL

\* While every answer comes after its caller sleeps, and in less than five seconds,
\* no assertion fails.
THEOREM PromptAnswersSuffice ==
  ASSUME OneCaller, PromptDelay < 5
  PROVE  Spec => []NoAbort
<1>1. Init => InTime
  BY DEF Init, InTime, OneCaller, At
<1>2. CallInv /\ InTime /\ [Next]_vars => InTime'
  <2> SUFFICES ASSUME CallInv, InTime, [Next]_vars PROVE InTime'
    OBVIOUS
  <2>1. CASE abort = "none"
    BY <2>1, InTimeStep
  <2>2. CASE abort # "none"
    <3>1. UNCHANGED vars /\ ~prompt
      BY <2>2 DEF Next, InTime
    <3> QED
      BY <3>1 DEF InTime, vars, netVars
  <2> QED
    BY <2>1, <2>2
<1>3. InTime => NoAbort
  BY DEF InTime, NoAbort
<1> QED
  BY <1>1, <1>2, <1>3, CallsInvariant, PTL DEF Spec
=============================================================================
