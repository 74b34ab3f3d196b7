-------------------------- MODULE SlicePolicyProofs --------------------------
(***************************************************************************)
(* Round robin gives every UE its turn, for any number of UEs, of grants   *)
(* in a slot and of values of the counters, if there are more values than  *)
(* UEs.                                                                    *)
(*                                                                         *)
(* The argument counts the UEs behind u, those with a lower priority.  A   *)
(* slot that u loses goes to a UE that was not behind it, and is behind it *)
(* afterwards; so u can lose no more slots than there are others, unless   *)
(* its priority wraps around to 0, behind everybody.  That happens at most *)
(* once while u loses every slot, and by then somebody who was served      *)
(* before is behind u, which saves one slot.                               *)
(***************************************************************************)
EXTENDS SlicePolicy, FiniteSetTheorems, TLAPS

Turn(v)   == TurnPriority[v]
Behind(u) == {v \in UEs \ {u} : Turn(v) < Turn(u)}
Others    == Cardinality(UEs) - 1

\* Somebody was served in the last slot, unless there was none.
Served == (\A v \in UEs : Turn(v) = 0) \/ (\E v \in UEs : Turn(v) = 1)

\* What u may have lost: nothing; fewer slots than there are UEs behind it; as many
\* as that before its priority wrapped around to 0; or those and as many again.
Losses(u) ==
  \/ missed[u] = 0
  \/ Turn(u) >= 1 /\ missed[u] + 1 <= Cardinality(Behind(u))
  \/ Turn(u) = 0 /\ missed[u] <= Others - 1
  \/ /\ 1 <= Turn(u) /\ Turn(u) <= Cardinality(Behind(u)) + 1
     /\ missed[u] <= Others + Cardinality(Behind(u))

TurnInv ==
  /\ TypeOK
  /\ policy = "time_rr" => Served /\ \A u \in UEs \ {Unwritten} : Losses(u)

-----------------------------------------------------------------------------
(* Arithmetic of the counters *)

\* What % does to the numbers a counter takes.
LEMMA BelowModulus ==
  ASSUME NEW M \in Nat, M > 1, NEW x \in 0..M-1
  PROVE  x % M = x
BY SMT

\* ... to a negative difference,
LEMMA BelowZero ==
  ASSUME NEW M \in Nat, M > 1, NEW x \in Int, -M < x, x < 0
  PROVE  x % M = x + M
BY SMT

\* ... and to a counter that wraps around.
LEMMA AtModulus ==
  ASSUME NEW M \in Nat, M > 1
  PROVE  M % M = 0
BY SMT

\* The difference of two unsigned numbers.
LEMMA UnsignedDifference ==
  ASSUME NEW M \in Nat, M > 1, NEW a \in 0..M-1, NEW l \in 0..M-1
  PROVE  (a - l) % M = IF a >= l THEN a - l ELSE a - l + M
<1> DEFINE x == a - l
<1>1. CASE a >= l
  <2>1. x \in 0..M-1
    BY <1>1
  <2> HIDE DEF x
  <2>2. x % M = x
    BY <2>1, BelowModulus
  <2> QED
    BY <1>1, <2>2 DEF x
<1>2. CASE a < l
  <2>1. x \in Int /\ -M < x /\ x < 0
    BY <1>2
  <2> HIDE DEF x
  <2>2. x % M = x + M
    BY <2>1, BelowZero
  <2> QED
    BY <1>2, <2>2 DEF x
<1> QED
  BY <1>1, <1>2

\* The distance of two counters, and how it grows when the first one moves on.
LEMMA Distance ==
  ASSUME NEW M \in Nat, M > 1, NEW a \in 0..M-1, NEW l \in 0..M-1
  PROVE  /\ (a - l) % M \in 0..M-1
         /\ (((a + 1) % M) - l) % M = IF (a - l) % M = M - 1 THEN 0 ELSE ((a - l) % M) + 1
         /\ (((a + 1) % M) - a) % M = 1
         /\ (a + 1) % M \in 0..M-1
<1>1. (a - l) % M = IF a >= l THEN a - l ELSE a - l + M
  BY UnsignedDifference
<1>2. (a + 1) % M = IF a = M - 1 THEN 0 ELSE a + 1
  <2>1. CASE a = M - 1
    BY <2>1, AtModulus
  <2>2. CASE a # M - 1
    <3>1. a + 1 \in 0..M-1
      BY <2>2
    <3> QED
      BY <2>2, <3>1, BelowModulus
  <2> QED
    BY <2>1, <2>2
<1> DEFINE b == (a + 1) % M
<1>4. b \in 0..M-1 /\ b = IF a = M - 1 THEN 0 ELSE a + 1
  BY <1>2
<1> HIDE DEF b
<1>5. /\ (b - l) % M = IF b >= l THEN b - l ELSE b - l + M
      /\ (b - a) % M = IF b >= a THEN b - a ELSE b - a + M
  BY <1>4, UnsignedDifference
<1>6. (b - l) % M = IF (a - l) % M = M - 1 THEN 0 ELSE ((a - l) % M) + 1
  BY ONLY <1>1, <1>4, <1>5, M \in Nat, M > 1, a \in 0..M-1, l \in 0..M-1
<1>7. (b - a) % M = 1
  BY ONLY <1>4, <1>5, M \in Nat, M > 1, a \in 0..M-1
<1>8. (a - l) % M \in 0..M-1
  BY <1>1
<1> QED
  BY <1>4, <1>6, <1>7, <1>8 DEF b

\* The priorities of round robin.
LEMMA Turns ==
  ASSUME TypeOK
  PROVE  \A v \in UEs : Turn(v) = (allocCount - last[v]) % CountMod /\ Turn(v) \in 0..CountMod-1
<1> SUFFICES ASSUME NEW v \in UEs
             PROVE Turn(v) = (allocCount - last[v]) % CountMod /\ Turn(v) \in 0..CountMod-1
  OBVIOUS
<1>1. /\ allocCount \in 0..CountMod-1 /\ last[v] \in 0..CountMod-1
      /\ CountMod \in Nat /\ CountMod > 1
  BY PolicyAssumption DEF TypeOK
<1>2. Turn(v) = (allocCount - last[v]) % CountMod
  BY DEF Turn, TurnPriority
<1> QED
  BY <1>1, <1>2, Distance

\* A slot takes the UEs it reports to priority 1 and the others one further.
LEMMA TurnsMoveOn ==
  ASSUME TypeOK, NEW outcome, SaveTurns(outcome), TypeOK'
  PROVE  \A v \in UEs :
           Turn(v)' = IF v \in Reported(outcome) THEN 1
                      ELSE IF Turn(v) = CountMod - 1 THEN 0 ELSE Turn(v) + 1
<1> SUFFICES ASSUME NEW v \in UEs
             PROVE Turn(v)' = IF v \in Reported(outcome) THEN 1
                              ELSE IF Turn(v) = CountMod - 1 THEN 0 ELSE Turn(v) + 1
  OBVIOUS
<1>1. /\ allocCount \in 0..CountMod-1 /\ last[v] \in 0..CountMod-1
      /\ CountMod \in Nat /\ CountMod > 1
  BY PolicyAssumption DEF TypeOK
<1>2. /\ Turn(v)' = (allocCount' - last'[v]) % CountMod
      /\ Turn(v) = (allocCount - last[v]) % CountMod
  BY DEF Turn, TurnPriority
<1>3. /\ allocCount' = (allocCount + 1) % CountMod
      /\ last'[v] = IF v \in Reported(outcome) THEN allocCount ELSE last[v]
  BY DEF SaveTurns
<1>4. CASE v \in Reported(outcome)
  <2>1. Turn(v)' = (((allocCount + 1) % CountMod) - allocCount) % CountMod
    BY <1>2, <1>3, <1>4
  <2>2. (((allocCount + 1) % CountMod) - allocCount) % CountMod = 1
    BY <1>1, Distance
  <2> QED
    BY <1>4, <2>1, <2>2
<1>5. CASE v \notin Reported(outcome)
  <2>1. Turn(v)' = (((allocCount + 1) % CountMod) - last[v]) % CountMod
    BY <1>2, <1>3, <1>5
  <2> DEFINE d == (allocCount - last[v]) % CountMod
  <2>2. Turn(v)' = IF d = CountMod - 1 THEN 0 ELSE d + 1
    BY <1>1, <2>1, Distance
  <2> HIDE DEF d
  <2>3. Turn(v) = d
    BY <1>2 DEF d
  <2> QED
    BY <1>5, <2>2, <2>3
<1> QED
  BY <1>4, <1>5

\* The UEs behind u are others, and a finite set.
LEMMA BehindCounted ==
  ASSUME IsFiniteSet(UEs), NEW u \in UEs
  PROVE  /\ IsFiniteSet(Behind(u)) /\ Cardinality(Behind(u)) \in Nat
         /\ Others \in Nat /\ Cardinality(Behind(u)) <= Others
         /\ (\E g \in UEs \ {u} : g \notin Behind(u)) => Cardinality(Behind(u)) + 1 <= Others
<1> DEFINE R == UEs \ {u}
<1>1. IsFiniteSet(R) /\ Cardinality(R) = Others /\ Others \in Nat
  <2>1. IsFiniteSet(R) /\ Cardinality(R) = Others
    BY FS_RemoveElement DEF Others
  <2>2. Cardinality(R) \in Nat
    BY <2>1, FS_CardinalityType
  <2> QED
    BY <2>1, <2>2
<1>2. Behind(u) \subseteq R
  BY DEF Behind
<1>3. IsFiniteSet(Behind(u)) /\ Cardinality(Behind(u)) <= Others
  BY <1>1, <1>2, FS_Subset
<1>4. ASSUME NEW g \in R, g \notin Behind(u) PROVE Cardinality(Behind(u)) + 1 <= Others
  <2>1. Behind(u) \cup {g} \subseteq R
    BY <1>2
  <2>2. Cardinality(Behind(u) \cup {g}) <= Others
    BY <1>1, <2>1, FS_Subset
  <2>3. Cardinality(Behind(u) \cup {g}) = Cardinality(Behind(u)) + 1
    BY <1>3, <1>4, FS_AddElement
  <2> QED
    BY <2>2, <2>3
<1> QED
  BY <1>1, <1>3, <1>4, FS_CardinalityType

-----------------------------------------------------------------------------
(* Types *)

\* A saturating number stays below its bound.
LEMMA Bounded ==
  ASSUME NEW bound \in Nat, NEW n \in Nat
  PROVE  AtMost(n, bound) \in 0..bound /\ AtMost(n, bound) <= n
BY DEF AtMost

\* The history of losses is bounded.
LEMMA Counted ==
  ASSUME TypeOK, NEW able, NEW outcome, Record(able, outcome)
  PROVE  missed' \in [UEs -> 0..MissCap]
<1>1. MissCap \in Nat /\ \A u \in UEs : missed[u] \in Nat
  BY PolicyAssumption DEF TypeOK
<1>2. \A u \in UEs : AtMost(missed[u] + 1, MissCap) \in 0..MissCap
  BY <1>1, Bounded
<1>3. 0 \in 0..MissCap
  BY <1>1
<1> QED
  BY <1>2, <1>3 DEF Record

\* The grants of a slot are finitely many.
LEMMA FewGrants ==
  ASSUME IsFiniteSet(UEs), present \subseteq UEs,
         NEW able \in SUBSET present, NEW granted \in SUBSET able,
         NEW outcome \in [granted -> Outcomes]
  PROVE  Cardinality(With(outcome, "cancelled")) \in Nat
<1>1. With(outcome, "cancelled") \subseteq UEs
  BY DEF With
<1> QED
  BY <1>1, FS_Subset, FS_CardinalityType

\* save_dl_alloc keeps the types of the waits.
LEMMA WaitsCounted ==
  ASSUME TypeOK, NEW outcome, Cardinality(With(outcome, "cancelled")) \in Nat, SaveWaits(outcome)
  PROVE  wait' \in [UEs -> 0..BonusCap]
<1> DEFINE Gone == Cardinality(With(outcome, "cancelled"))
           Own(u) == IF u \in DOMAIN outcome THEN outcome[u] ELSE "none"
           Count(u, before, after) ==
             CASE Own(u) = "sent"  -> after
               [] Own(u) = "empty" -> wait[u] + before + 1 + after
               [] OTHER            -> wait[u] + before + after
<1>1. PICK n \in 0..Gone :
        wait' = [u \in UEs |-> AtMost(IF u = Unwritten THEN Count(u, Gone - n, n)
                                                       ELSE Count(u, 0, 0), BonusCap)]
  BY DEF SaveWaits
<1>2. /\ BonusCap \in Nat /\ n \in Nat /\ Gone - n \in Nat /\ 0 \in Nat
      /\ \A u \in UEs : wait[u] \in Nat
  BY PolicyAssumption DEF TypeOK
<1> HIDE DEF Gone, Own
<1>3. ASSUME NEW u \in UEs, NEW before \in Nat, NEW after \in Nat
      PROVE  Count(u, before, after) \in Nat
  BY <1>2
<1> HIDE DEF Count
<1>4. \A u \in UEs : AtMost(IF u = Unwritten THEN Count(u, Gone - n, n)
                                             ELSE Count(u, 0, 0), BonusCap) \in 0..BonusCap
  BY <1>2, <1>3, Bounded
<1> QED
  BY <1>1, <1>4

\* Every step keeps the types.
LEMMA TypeStep ==
  ASSUME IsFiniteSet(UEs), TypeOK, [Next]_vars
  PROVE  TypeOK'
<1>0. /\ CountMod \in Nat /\ CountMod > 1 /\ BonusCap \in Nat /\ MissCap \in Nat
      /\ 0 \in 0..BonusCap /\ 0 \in 0..MissCap
  BY PolicyAssumption
<1>1. ASSUME NEW u \in UEs, AddUe(u) PROVE TypeOK'
  BY <1>0, <1>1 DEF AddUe, TypeOK
<1>2. ASSUME NEW u \in UEs, RemUe(u) PROVE TypeOK'
  BY <1>0, <1>2 DEF RemUe, TypeOK
<1>3. ASSUME NEW able \in SUBSET present, NEW granted \in SUBSET able,
             NEW outcome \in [granted -> Outcomes], TurnSlot(able, granted, outcome)
      PROVE  TypeOK'
  <2>1. missed' \in [UEs -> 0..MissCap]
    BY <1>3, Counted DEF TurnSlot
  <2>2. UNCHANGED <<policy, present>>
    BY <1>3 DEF TurnSlot
  <2>3. CASE SaveTurns(outcome)
    <3>1. allocCount \in 0..CountMod-1 /\ last \in [UEs -> 0..CountMod-1]
      BY DEF TypeOK
    <3>2. (allocCount + 1) % CountMod \in 0..CountMod-1
      BY <1>0, <3>1, Distance
    <3>3. last' \in [UEs -> 0..CountMod-1]
      BY <2>3, <3>1 DEF SaveTurns
    <3> QED
      BY <2>1, <2>2, <2>3, <3>2, <3>3 DEF SaveTurns, TypeOK
  <2>4. CASE BoundsCheckFails(outcome)
    BY <2>1, <2>2, <2>4 DEF BoundsCheckFails, TypeOK
  <2> QED
    BY <1>3, <2>3, <2>4 DEF TurnSlot
<1>4. ASSUME NEW able \in SUBSET present, NEW granted \in SUBSET able,
             NEW outcome \in [granted -> Outcomes], NEW score \in [able -> Scores],
             ScoreSlot(able, granted, score, outcome)
      PROVE  TypeOK'
  <2>1. missed' \in [UEs -> 0..MissCap]
    BY <1>4, Counted DEF ScoreSlot
  <2>2. UNCHANGED <<policy, present>>
    BY <1>4 DEF ScoreSlot
  <2>3. CASE SaveWaits(outcome)
    <3>1. present \subseteq UEs
      BY DEF TypeOK
    <3>2. wait' \in [UEs -> 0..BonusCap]
      BY <2>3, <3>1, FewGrants, WaitsCounted
    <3> QED
      BY <2>1, <2>2, <2>3, <3>2 DEF SaveWaits, TypeOK
  <2>4. CASE BoundsCheckFails(outcome)
    BY <2>1, <2>2, <2>4 DEF BoundsCheckFails, TypeOK
  <2> QED
    BY <1>4, <2>3, <2>4 DEF ScoreSlot
<1>5. ASSUME UNCHANGED vars PROVE TypeOK'
  BY <1>5 DEF vars, TypeOK
<1> QED
  BY <1>1, <1>2, <1>3, <1>4, <1>5 DEF Next, Change

-----------------------------------------------------------------------------
(* Losses *)

\* A step that moves no counter and counts no loss.
LEMMA NothingLost ==
  ASSUME UNCHANGED <<policy, allocCount, last>>,
         NEW u \in UEs, missed'[u] \in {0, missed[u]}, Losses(u)
  PROVE  Losses(u)'
<1>1. \A v \in UEs : Turn(v)' = Turn(v)
  BY DEF Turn, TurnPriority
<1>2. Behind(u)' = Behind(u) /\ Others' = Others
  BY <1>1 DEF Behind, Others
<1> QED
  BY <1>1, <1>2 DEF Losses

\* After a slot somebody has been served.
LEMMA ServedAfter ==
  ASSUME TypeOK, TypeOK', NEW outcome, SaveTurns(outcome), NEW g \in UEs, g \in Reported(outcome)
  PROVE  Served'
<1>1. Turn(g)' = 1
  BY TurnsMoveOn
<1> QED
  BY <1>1 DEF Served

\* Somebody is reported in every slot.
LEMMA SomeoneReported ==
  ASSUME present \subseteq UEs, NEW able \in SUBSET present, NEW granted \in SUBSET able,
         granted # {}, NEW outcome \in [granted -> Outcomes]
  PROVE  \E g \in UEs : g \in Reported(outcome)
<1>1. CASE With(outcome, "cancelled") = {}
  <2>1. PICK g \in granted : TRUE
    OBVIOUS
  <2>2. outcome[g] \in {"sent", "empty"} /\ g \in UEs
    BY <1>1 DEF With, Outcomes
  <2> QED
    BY <2>1, <2>2 DEF Reported, With
<1>2. CASE With(outcome, "cancelled") # {}
  BY <1>2, PolicyAssumption DEF Reported, Unwritten
<1> QED
  BY <1>1, <1>2

\* A slot that u loses: those behind it stay there until its priority wraps around,
\* and from priority 1 on somebody else joins them.
LEMMA LostSlot ==
  ASSUME IsFiniteSet(UEs), TypeOK, TypeOK', NEW u \in UEs,
         NEW able \in SUBSET present, NEW granted \in SUBSET able,
         NEW outcome \in [granted -> Outcomes],
         TakesHighest(able, granted, TurnPriority), SaveTurns(outcome),
         u \in able \ granted, With(outcome, "cancelled") = {}
  PROVE  /\ Cardinality(Behind(u)) + 1 <= Others
         /\ Turn(u)' = IF Turn(u) = CountMod - 1 THEN 0 ELSE Turn(u) + 1
         /\ Turn(u) # CountMod - 1 => Cardinality(Behind(u)) <= Cardinality(Behind(u)')
         /\ Turn(u) # CountMod - 1 /\ Turn(u) >= 1 =>
              Cardinality(Behind(u)) + 1 <= Cardinality(Behind(u)')
<1>0. present \subseteq UEs /\ CountMod \in Nat /\ CountMod > 1
  BY PolicyAssumption DEF TypeOK
<1>1. Reported(outcome) = granted
  BY DEF Reported, With, Outcomes
<1>2. PICK g \in granted : Turn(g) >= Turn(u)
  BY DEF TakesHighest, Turn
<1>3. g \in UEs \ {u}
  BY <1>0
<1>4. \A v \in UEs : Turn(v) \in 0..CountMod-1
  BY Turns
<1>5. g \notin Behind(u)
  BY <1>2, <1>3, <1>4 DEF Behind
<1>6. Cardinality(Behind(u)) + 1 <= Others
  BY <1>3, <1>5, BehindCounted
<1>7. \A v \in UEs : Turn(v)' = IF v \in granted THEN 1
                                ELSE IF Turn(v) = CountMod - 1 THEN 0 ELSE Turn(v) + 1
  BY <1>1, TurnsMoveOn
<1>8. Turn(u)' = IF Turn(u) = CountMod - 1 THEN 0 ELSE Turn(u) + 1
  BY <1>7
<1>9. IsFiniteSet(Behind(u)') /\ IsFiniteSet(Behind(u))
  <2>1. Behind(u)' \subseteq UEs /\ Behind(u) \subseteq UEs
    BY DEF Behind
  <2> QED
    BY <2>1, FS_Subset
<1>10. ASSUME Turn(u) # CountMod - 1 PROVE Behind(u) \subseteq Behind(u)'
  <2> SUFFICES ASSUME NEW v \in UEs \ {u}, Turn(v) < Turn(u) PROVE Turn(v)' < Turn(u)'
    BY DEF Behind
  <2>1. Turn(u)' = Turn(u) + 1 /\ Turn(u) \in 0..CountMod-1 /\ Turn(v) \in 0..CountMod-1
    BY <1>4, <1>8, <1>10
  <2>2. Turn(v)' = 1 \/ Turn(v)' = Turn(v) + 1
    BY <1>0, <1>7, <2>1
  <2> QED
    BY <2>1, <2>2
<1>11. ASSUME Turn(u) # CountMod - 1, Turn(u) >= 1 PROVE g \in Behind(u)'
  <2>1. Turn(u)' = Turn(u) + 1 /\ Turn(u) \in 0..CountMod-1 /\ Turn(g)' = 1
    BY <1>3, <1>4, <1>7, <1>8, <1>11
  <2> QED
    BY <1>3, <1>11, <2>1 DEF Behind
<1>12. Turn(u) # CountMod - 1 => Cardinality(Behind(u)) <= Cardinality(Behind(u)')
  BY <1>9, <1>10, FS_Subset
<1>13. ASSUME Turn(u) # CountMod - 1, Turn(u) >= 1
       PROVE  Cardinality(Behind(u)) + 1 <= Cardinality(Behind(u)')
  <2>1. Behind(u) \cup {g} \subseteq Behind(u)'
    BY <1>10, <1>11, <1>13
  <2>2. Cardinality(Behind(u) \cup {g}) <= Cardinality(Behind(u)')
    BY <1>9, <2>1, FS_Subset
  <2>3. Cardinality(Behind(u) \cup {g}) = Cardinality(Behind(u)) + 1
    BY <1>5, <1>9, FS_AddElement
  <2> QED
    BY <2>2, <2>3
<1> QED
  BY <1>6, <1>8, <1>12, <1>13

\* A UE that was served in the last slot is behind every UE from priority 2 on.
LEMMA ServedIsBehind ==
  ASSUME IsFiniteSet(UEs), TypeOK, Served, NEW u \in UEs, Turn(u) >= 2
  PROVE  Cardinality(Behind(u)) >= 1
<1>1. \A v \in UEs : Turn(v) \in Nat
  BY Turns, PolicyAssumption
<1>2. PICK v \in UEs : Turn(v) = 1
  BY <1>1 DEF Served
<1>3. v \in Behind(u)
  BY <1>1, <1>2 DEF Behind
<1>4. IsFiniteSet(Behind(u)) /\ Cardinality(Behind(u)) \in Nat
  BY BehindCounted
<1>5. Cardinality(Behind(u)) # 0
  BY <1>3, <1>4, FS_EmptySet
<1> QED
  BY <1>4, <1>5

\* The counting argument, slot by slot.
LEMMA LossesStep ==
  ASSUME IsFiniteSet(UEs), Cardinality(UEs) < CountMod, TypeOK, TypeOK', Served,
         NEW u \in UEs, Losses(u),
         NEW able \in SUBSET present, NEW granted \in SUBSET able,
         NEW outcome \in [granted -> Outcomes],
         TakesHighest(able, granted, TurnPriority), SaveTurns(outcome), Record(able, outcome)
  PROVE  Losses(u)'
<1> DEFINE m == missed[u]
           p == Turn(u)
           b == Cardinality(Behind(u))
           c == Cardinality(Behind(u)')
<1>1. CASE missed'[u] = 0
  BY <1>1 DEF Losses
<1>2. CASE missed'[u] # 0
  <2>1. /\ u \in able \ granted /\ With(outcome, "cancelled") = {}
        /\ missed'[u] = AtMost(m + 1, MissCap)
    BY <1>2 DEF Record
  <2>2. m \in Nat /\ MissCap \in Nat
    BY PolicyAssumption DEF TypeOK
  <2>3. missed'[u] \in Nat /\ missed'[u] <= m + 1
    BY <2>1, <2>2, Bounded
  <2>4. /\ b + 1 <= Others
        /\ Turn(u)' = IF p = CountMod - 1 THEN 0 ELSE p + 1
        /\ p # CountMod - 1 => b <= c
        /\ p # CountMod - 1 /\ p >= 1 => b + 1 <= c
    BY <2>1, LostSlot
  <2>5. b \in Nat /\ Others \in Nat /\ p \in 0..CountMod-1 /\ Others' = Others /\ CountMod \in Nat
        /\ CountMod > Others + 1
    <3>1. Others' = Others /\ CountMod \in Nat
      BY PolicyAssumption DEF Others
    <3>2. Cardinality(UEs) \in Nat
      BY FS_CardinalityType
    <3>3. CountMod > Others + 1
      BY <3>1, <3>2 DEF Others
    <3> QED
      BY <3>1, <3>3, BehindCounted, Turns
  <2>6. c \in Nat
    <3>1. Behind(u)' \subseteq UEs
      BY DEF Behind
    <3> QED
      BY <3>1, FS_Subset, FS_CardinalityType
  <2>7. p >= 2 => b >= 1
    BY ServedIsBehind
  <2>8. \/ m = 0
        \/ p >= 1 /\ m + 1 <= b
        \/ p = 0 /\ m <= Others - 1
        \/ 1 <= p /\ p <= b + 1 /\ m <= Others + b
    BY DEF Losses
  <2> DEFINE q == Turn(u)'
             n == missed'[u]
  <2>9. \/ q >= 1 /\ n + 1 <= c
        \/ q = 0 /\ n <= Others - 1
        \/ 1 <= q /\ q <= c + 1 /\ n <= Others + c
    <3> HIDE DEF m, p, b, c, q, n
    <3>1. n \in Nat /\ n <= m + 1 /\ q = (IF p = CountMod - 1 THEN 0 ELSE p + 1) /\ m \in Nat
      BY <2>2, <2>3, <2>4 DEF n, q
    <3>2. CASE m = 0
      BY <2>4, <2>5, <2>6, <2>7, <3>1, <3>2
    <3>3. CASE p >= 1 /\ m + 1 <= b
      BY <2>4, <2>5, <2>6, <3>1, <3>3
    <3>4. CASE p = 0 /\ m <= Others - 1
      BY <2>4, <2>5, <2>6, <3>1, <3>4
    <3>5. CASE 1 <= p /\ p <= b + 1 /\ m <= Others + b
      BY <2>4, <2>5, <2>6, <3>1, <3>5
    <3> QED
      BY <2>8, <3>2, <3>3, <3>4, <3>5
  <2> QED
    BY <2>5, <2>9 DEF Losses
<1> QED
  BY <1>1, <1>2

\* Every step keeps the invariant.
LEMMA TurnStep ==
  ASSUME IsFiniteSet(UEs), Cardinality(UEs) < CountMod, TurnInv, [Next]_vars
  PROVE  TurnInv'
<1>0. TypeOK /\ TypeOK' /\ policy' = policy
  <2>1. TypeOK /\ TypeOK'
    BY TypeStep DEF TurnInv
  <2>2. policy' = policy
    BY DEF Next, Change, AddUe, RemUe, TurnSlot, ScoreSlot, vars
  <2> QED
    BY <2>1, <2>2
<1> SUFFICES ASSUME policy = "time_rr"
             PROVE  Served' /\ \A u \in UEs \ {Unwritten} : Losses(u)'
  BY <1>0 DEF TurnInv
<1>1. Served /\ \A u \in UEs \ {Unwritten} : Losses(u)
  BY DEF TurnInv
<1>2. ASSUME UNCHANGED <<allocCount, last>>, \A u \in UEs : missed'[u] \in {0, missed[u]}
      PROVE  Served' /\ \A u \in UEs \ {Unwritten} : Losses(u)'
  <2>1. \A v \in UEs : Turn(v)' = Turn(v)
    BY <1>2 DEF Turn, TurnPriority
  <2>2. Served'
    BY <1>1, <2>1 DEF Served
  <2>3. \A u \in UEs \ {Unwritten} : Losses(u)'
    BY <1>0, <1>1, <1>2, NothingLost
  <2> QED
    BY <2>2, <2>3
<1>3. ASSUME NEW able \in SUBSET present, NEW granted \in SUBSET able,
             NEW outcome \in [granted -> Outcomes], TurnSlot(able, granted, outcome)
      PROVE  Served' /\ \A u \in UEs \ {Unwritten} : Losses(u)'
  <2>1. TakesHighest(able, granted, TurnPriority) /\ Record(able, outcome)
    BY <1>3 DEF TurnSlot
  <2>2. CASE SaveTurns(outcome)
    <3>1. PICK g \in UEs : g \in Reported(outcome)
      BY <1>0, <2>1, SomeoneReported DEF TypeOK, TakesHighest
    <3>2. Served'
      BY <1>0, <2>2, <3>1, ServedAfter
    <3>3. \A u \in UEs \ {Unwritten} : Losses(u)'
      BY <1>0, <1>1, <2>1, <2>2, LossesStep
    <3> QED
      BY <3>2, <3>3
  <2>3. CASE BoundsCheckFails(outcome)
    BY <1>2, <2>1, <2>3 DEF BoundsCheckFails, Record
  <2> QED
    BY <1>3, <2>2, <2>3 DEF TurnSlot
<1>4. ASSUME NEW u \in UEs, AddUe(u) \/ RemUe(u)
      PROVE  Served' /\ \A v \in UEs \ {Unwritten} : Losses(v)'
  <2>1. UNCHANGED <<allocCount, last>>
    BY <1>4 DEF AddUe, RemUe
  <2>2. \A v \in UEs : missed'[v] \in {0, missed[v]}
    BY <1>0, <1>4 DEF AddUe, RemUe, TypeOK
  <2> QED
    BY <1>2, <2>1, <2>2
<1>5. CASE UNCHANGED vars
  BY <1>2, <1>5 DEF vars
<1> QED
  BY <1>3, <1>4, <1>5 DEF Next, Change, ScoreSlot

-----------------------------------------------------------------------------
(* Theorems *)

\* Initially nobody has lost a slot.
LEMMA TurnStart ==
  ASSUME Init
  PROVE  TurnInv
<1>1. CountMod \in Nat /\ CountMod > 1 /\ BonusCap \in Nat /\ MissCap \in Nat
  BY PolicyAssumption
<1>2. TypeOK
  <2>1. 0 \in 0..CountMod-1 /\ 0 \in 0..BonusCap /\ 0 \in 0..MissCap
    BY <1>1
  <2> QED
    BY <2>1 DEF Init, TypeOK
<1>3. \A v \in UEs : Turn(v) = 0
  <2> SUFFICES ASSUME NEW v \in UEs PROVE Turn(v) = 0
    OBVIOUS
  <2>1. Turn(v) = (0 - 0) % CountMod
    BY DEF Init, Turn, TurnPriority
  <2>2. (0 - 0) % CountMod = 0
    BY <1>1, UnsignedDifference
  <2> QED
    BY <2>1, <2>2
<1> QED
  BY <1>2, <1>3 DEF TurnInv, Served, Losses, Init

\* The invariant of round robin.
LEMMA TurnsInvariant ==
  ASSUME IsFiniteSet(UEs), Cardinality(UEs) < CountMod
  PROVE  Spec => []TurnInv
<1>1. Init => TurnInv
  BY TurnStart
<1>2. TurnInv /\ [Next]_vars => TurnInv'
  BY TurnStep
<1> QED
  BY <1>1, <1>2, PTL DEF Spec

\* The state has its types under either policy; the counters stay unsigned.
THEOREM TypeCorrect ==
  ASSUME IsFiniteSet(UEs)
  PROVE  Spec => []TypeOK
<1>1. Init => TypeOK
  BY TurnStart DEF TurnInv
<1>2. TypeOK /\ [Next]_vars => TypeOK'
  BY TypeStep
<1> QED
  BY <1>1, <1>2, PTL DEF Spec

\* Under round robin a UE that can be served loses in a row at most two slots to each
\* other UE, if the counters have more values than there are UEs.
THEOREM EveryoneGetsATurn ==
  ASSUME IsFiniteSet(UEs), Cardinality(UEs) < CountMod
  PROVE  Spec => []RoundRobin
<1>1. TurnInv => RoundRobin
  <2> SUFFICES ASSUME TurnInv, policy = "time_rr", NEW u \in UEs \ {Unwritten}
               PROVE  missed[u] <= 2 * Others
    BY DEF RoundRobin, Others
  <2>1. Losses(u) /\ missed[u] \in Nat
    BY PolicyAssumption DEF TurnInv, TypeOK
  <2>2. Cardinality(Behind(u)) \in Nat /\ Others \in Nat /\ Cardinality(Behind(u)) <= Others
    BY BehindCounted
  <2> QED
    BY <2>1, <2>2 DEF Losses
<1> QED
  BY <1>1, TurnsInvariant, PTL
===============================================================================
