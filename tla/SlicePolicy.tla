----------------------------- MODULE SlicePolicy -----------------------------
(***************************************************************************)
(* The downlink policies that share a slot among the UEs of a slice:       *)
(* scheduler_time_rr, which gives every UE its turn, and scheduler_time_ai *)
(* (the policy this project adds to the gNB), which ranks the UEs by a     *)
(* neural network and a bonus for waiting; and the step of                 *)
(* intra_slice_scheduler that asks a policy for priorities, grants the     *)
(* slot to the UEs with the highest and reports the grants back.  The      *)
(* scheduler of a cell runs in one thread, so a slot is one step.          *)
(*                                                                         *)
(* The network, the channel and the buffers are abstracted to an arbitrary *)
(* score; the choice of the UEs that compete in a slot (the UE group, the  *)
(* HARQ state) and the reasons why an allocation may fail are left open.   *)
(***************************************************************************)
EXTENDS Integers, FiniteSets

CONSTANTS UEs,         \* indices of the UEs of the slice
          CountMod,    \* number of values of the unsigned allocation counters
          MaxGrants,   \* most grants of a slot
          Scores,      \* what the network may say of a UE
          BonusCap,    \* waits after which the bonus grows no more (15)
          MissCap      \* bound on the history variable missed

ASSUME PolicyAssumption ==
    /\ UEs \subseteq Nat /\ 0 \in UEs
    /\ CountMod \in Nat /\ CountMod > 1
    /\ MaxGrants \in Nat \ {0}
    /\ Scores \subseteq Int
    /\ {BonusCap, MissCap} \subseteq Nat

VARIABLES policy,      \* the alternative of policy_cfg the cell was given
          present,     \* UEs that are in the slice
          allocCount,  \* scheduler_time_rr: dl_alloc_count
          last,        \* scheduler_time_rr: ue_last_dl_alloc_count
          wait,        \* scheduler_time_ai: wait_slots of each context
          halted,      \* an assertion has failed
          missed       \* history: slots a UE has lost to others since its grant

vars == <<policy, present, allocCount, last, wait, halted, missed>>

\* The context that a cancelled grant is charged to: its ue_index was never
\* written, and emplace_back left it zero.
Unwritten == 0

AtMost(n, bound) == IF n < bound THEN n ELSE bound

-----------------------------------------------------------------------------
Init == /\ policy \in {"time_rr", "time_ai"}
        /\ present = {}
        /\ allocCount = 0
        /\ last = [u \in UEs |-> 0]
        /\ wait = [u \in UEs |-> 0]
        /\ halted = FALSE
        /\ missed = [u \in UEs |-> 0]

\* scheduler_time_ai makes a new context; scheduler_time_rr does nothing, so
\* that a UE inherits the turn of the one that had its index before.
AddUe(u) == /\ u \notin present
            /\ present' = present \cup {u}
            /\ wait' = [wait EXCEPT ![u] = 0]
            /\ UNCHANGED <<policy, allocCount, last, halted, missed>>

RemUe(u) == /\ u \in present
            /\ present' = present \ {u}
            /\ missed' = [missed EXCEPT ![u] = 0]
            /\ UNCHANGED <<policy, allocCount, last, wait, halted>>

\* Not the code: the difference of the counters is taken as a signed number.
TurnSigned == [u \in UEs |-> allocCount - last[u]]

\* candidate.priority = dl_alloc_count - ue_last_dl_alloc_count[u], unsigned.
TurnPriority == [u \in UEs |-> (allocCount - last[u]) % CountMod]

\* The score of the network and the rates, and the waiting bonus on top.
ScorePriority(score) ==
    [u \in DOMAIN score |-> score[u] + AtMost(wait[u], BonusCap)]

\* The loop over the candidates, sorted by priority, takes those that can be
\* allocated until the slot is full or something stops it.
TakesHighest(able, granted, priority) ==
    /\ granted # {}
    /\ Cardinality(granted) <= MaxGrants
    /\ \A g \in granted, u \in able \ granted : priority[g] >= priority[u]

-----------------------------------------------------------------------------
\* A grant is "sent" with bytes, is "empty" when no code rate fits, or is
\* "cancelled" when no resource block is left for it.
Outcomes == {"sent", "empty", "cancelled"}

With(outcome, o) == {g \in DOMAIN outcome : outcome[g] = o}

\* The UEs the policy is told about.
Reported(outcome) ==
    With(outcome, "sent") \cup With(outcome, "empty")
        \cup (IF With(outcome, "cancelled") = {} THEN {} ELSE {Unwritten})

\* Not the code: the counter has no width.
SaveUnbounded(outcome) ==
    /\ last' = [u \in UEs |->
                   IF u \in Reported(outcome) THEN allocCount ELSE last[u]]
    /\ allocCount' = allocCount + 1
    /\ UNCHANGED <<wait, halted>>

\* The UEs granted in a slot get the count of that slot, and the count moves on.
SaveTurns(outcome) ==
    /\ last' = [u \in UEs |->
                   IF u \in Reported(outcome) THEN allocCount ELSE last[u]]
    /\ allocCount' = (allocCount + 1) % CountMod
    /\ UNCHANGED <<wait, halted>>

\* save_dl_alloc: a grant with bytes ends the wait, one without lengthens it.
\* UE 0 may be reported several times in a slot, its own grant before or after
\* the cancelled ones, whose size reads as 0.
SaveWaits(outcome) ==
    LET Gone == Cardinality(With(outcome, "cancelled"))
        Own(u) == IF u \in DOMAIN outcome THEN outcome[u] ELSE "none"
        Count(u, before, after) ==
            CASE Own(u) = "sent"  -> after
              [] Own(u) = "empty" -> wait[u] + before + 1 + after
              [] OTHER            -> wait[u] + before + after
    IN /\ Gone > 0 => Unwritten \in present
       /\ \E n \in 0 .. Gone :
              wait' = [u \in UEs |->
                  AtMost(IF u = Unwritten THEN Count(u, Gone - n, n)
                                          ELSE Count(u, 0, 0), BonusCap)]
       /\ UNCHANGED <<allocCount, last, halted>>

\* Both policies read codewords[0] of every grant, and a cancelled grant has no
\* codeword: in a build with assertions the bounds check of static_vector (or
\* the look-up of UE 0 in ue_history_db) ends the program.  A build with
\* ASSERT_LEVEL MINIMAL reads the zeros that emplace_back left and goes on.
BoundsCheckFails(outcome) ==
    /\ With(outcome, "cancelled") # {}
    /\ halted' = TRUE
    /\ UNCHANGED <<allocCount, last, wait>>

\* What the history keeps: how many slots in a row a UE that could have been
\* served has lost to others.  A slot in which a grant was cancelled is not one.
Record(able, outcome) ==
    missed' = [u \in UEs |->
        IF u \in able \ DOMAIN outcome /\ With(outcome, "cancelled") = {}
        THEN AtMost(missed[u] + 1, MissCap)
        ELSE 0]

\* One downlink slot under either policy: schedule_dl_newtx_candidates.
TurnSlot(able, granted, outcome) ==
    /\ policy = "time_rr"
    /\ TakesHighest(able, granted, TurnPriority)
    /\ SaveTurns(outcome) \/ BoundsCheckFails(outcome)
    /\ Record(able, outcome)
    /\ UNCHANGED <<policy, present>>

ScoreSlot(able, granted, score, outcome) ==
    /\ policy = "time_ai"
    /\ TakesHighest(able, granted, ScorePriority(score))
    /\ SaveWaits(outcome) \/ BoundsCheckFails(outcome)
    /\ Record(able, outcome)
    /\ UNCHANGED <<policy, present>>

Change == \E u \in UEs : AddUe(u) \/ RemUe(u)

Next == /\ ~halted
        /\ \/ Change
           \/ \E able \in SUBSET present : \E granted \in SUBSET able :
              \E outcome \in [granted -> Outcomes] :
                 \/ TurnSlot(able, granted, outcome)
                 \/ \E score \in [able -> Scores] :
                        ScoreSlot(able, granted, score, outcome)

Spec == Init /\ [][Next]_vars

-----------------------------------------------------------------------------
\* The types; the counters stay unsigned.
TypeOK == /\ policy \in {"time_rr", "time_ai"}
          /\ present \subseteq UEs
          /\ allocCount \in 0 .. CountMod - 1
          /\ last \in [UEs -> 0 .. CountMod - 1]
          /\ wait \in [UEs -> 0 .. BonusCap]
          /\ halted \in BOOLEAN
          /\ missed \in [UEs -> 0 .. MissCap]

\* Round robin keeps its promise: whoever enters and leaves, and whichever
\* allocations fail, a UE that can be served loses in a row at most two slots to
\* each other UE.  One is the other's turn; the second comes when the unsigned
\* counters wrap around (the UE with the highest priority becomes the last), or
\* at the start (counter and marks are 0, and the first grant leaves no trace).
\* UE 0 is left out: the grants cancelled for others are charged to it.
RoundRobin == policy = "time_rr" =>
    \A u \in UEs \ {Unwritten} : missed[u] <= 2 * (Cardinality(UEs) - 1)

\* scheduler_time_ai.cpp:210 says of the bonus: "If the UE was not scheduled in
\* the previous slot,increase its waiting time."
WaitingIsCounted == policy = "time_ai" =>
                        \A u \in present : missed[u] > 1 => wait[u] > 0

=============================================================================
