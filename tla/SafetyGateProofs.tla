--------------------------- MODULE SafetyGateProofs ---------------------------
(***************************************************************************)
(* A gate run, for any number of layers and questions, any budgets and any *)
(* lateness of the timers.                                                 *)
(***************************************************************************)
EXTENDS SafetyGate, SequenceTheorems, TLAPS

VerdictType == [layer : Layers \cup {"gate"}, outcome : Outcomes, ran : BOOLEAN]
ResultType == [buyable : BOOLEAN, complete : BOOLEAN]

\* The types of what TypeOK does not speak of.
Typed ==
    /\ failClosed \in BOOLEAN /\ gone \in BOOLEAN /\ decided \in BOOLEAN
    /\ verdicts \in Seq(VerdictType) /\ skipped \in Seq(Layers)
    /\ result \in ResultType \cup {None}

\* The current layer is one of the order, and later ones have not been started.
Ordered ==
    /\ phase = "running" => at <= Len(Order)
    /\ \A j \in DOMAIN Order : (j > at \/ (j = at /\ phase # "running")) =>
                                  work[Order[j]] = "none"

LoopInv == TypeOK /\ Typed /\ Ordered

LEMMA OrderShape ==
    /\ Len(Order) \in Nat /\ DOMAIN Order = 1..Len(Order)
    /\ \A j \in DOMAIN Order : Order[j] \in Layers
    /\ \A l \in Layers : \E j \in DOMAIN Order : l = Order[j]
    /\ \A i, j \in DOMAIN Order : i # j => Order[i] # Order[j]
<1>1. Order \in Seq(Layers)
    BY GateAssumption
<1>2. Len(Order) \in Nat /\ DOMAIN Order = 1..Len(Order)
    BY <1>1, LenProperties
<1>. QED  BY <1>2, GateAssumption DEF Layers

LEMMA CombineType ==
    ASSUME NEW vs \in Seq(VerdictType)
    PROVE  combine(vs) \in ResultType /\ combine(vs) # None
<1>1. combine(vs) \in ResultType
    BY DEF combine, ResultType
<1>. QED  BY <1>1, GateAssumption DEF ResultType

\* A verdict is appended: what the list looks like then.
LEMMA AppendVerdict ==
    ASSUME NEW vs \in Seq(VerdictType), NEW v \in VerdictType
    PROVE  /\ Append(vs, v) \in Seq(VerdictType)
           /\ Len(Append(vs, v)) = Len(vs) + 1
           /\ \A i \in 1..Len(vs) : Append(vs, v)[i] = vs[i]
           /\ Append(vs, v)[Len(vs) + 1] = v
    BY AppendProperties

-----------------------------------------------------------------------------
(* The loop. *)

LEMMA InitLoop == Init => LoopInv
<1> SUFFICES ASSUME Init PROVE LoopInv
    OBVIOUS
<1>1. TypeOK
    BY OrderShape DEF Init, TypeOK
<1>2. Typed
    BY EmptySeq DEF Init, Typed
<1>3. Ordered
    BY OrderShape DEF Init, Ordered
<1>. QED  BY <1>1, <1>2, <1>3 DEF LoopInv

\* The verdict of a running layer is recorded, and its work may have settled.
LEMMA RecordLoop ==
    ASSUME LoopInv, NEW outcome \in Outcomes, Record(outcome),
           at <= Len(Order), work' = work \/ phase = "running",
           work' \in [Layers -> {"none", "busy"} \cup Outcomes],
           \A j \in DOMAIN Order : j > at => work'[Order[j]] = work[Order[j]],
           phase # "done", clock' \in Nat, gone' \in BOOLEAN, failClosed' = failClosed,
           cell' \in [Questions -> {"empty", "pending", "ok", "failed"}]
    PROVE  LoopInv'
<1>1. /\ verdicts' = Append(verdicts, Verdict(Order[at], outcome, TRUE))
      /\ decided' = Decisive(outcome) /\ phase' = "choose" /\ at' = at + 1
      /\ due' = due /\ skipped' = skipped /\ result' = result
    BY DEF Record
<1>2. at \in DOMAIN Order /\ Order[at] \in Layers
    BY OrderShape DEF LoopInv, TypeOK
<1>3. TypeOK'
    BY <1>1, <1>2, OrderShape DEF LoopInv, TypeOK
<1>4. Typed'
    <2>1. Verdict(Order[at], outcome, TRUE) \in VerdictType
        BY <1>2 DEF Verdict, VerdictType
    <2>2. verdicts' \in Seq(VerdictType)
        BY <1>1, <2>1, AppendVerdict DEF LoopInv, Typed
    <2>3. decided' \in BOOLEAN
        BY <1>1 DEF Decisive, LoopInv, Typed
    <2>. QED  BY <1>1, <2>2, <2>3 DEF LoopInv, Typed
<1>5. Ordered'
    <2>1. ASSUME NEW j \in DOMAIN Order, j > at
          PROVE  work'[Order[j]] = "none"
        BY <2>1 DEF LoopInv, Ordered
    <2>2. \A j \in DOMAIN Order : j >= at' => work'[Order[j]] = "none"
        BY <1>1, <2>1, OrderShape DEF LoopInv, TypeOK
    <2>. QED  BY <1>1, <2>2, OrderShape DEF Ordered, LoopInv, TypeOK
<1>. QED  BY <1>3, <1>4, <1>5 DEF LoopInv

LEMMA StepLoop == LoopInv /\ [Next]_gateVars => LoopInv'
<1> SUFFICES ASSUME LoopInv, [Next]_gateVars PROVE LoopInv'
    OBVIOUS
<1> USE DEF background
<1>1. CASE Begin
    BY <1>1, OrderShape DEF Begin, LoopInv, TypeOK, Typed, Ordered
<1>2. CASE Preflight
    <2>1. Verdict("gate", "ERROR", FALSE) \in VerdictType
        BY DEF Verdict, VerdictType, Outcomes
    <2>2. verdicts' \in Seq(VerdictType)
        <3>1. ASSUME NEW v \in VerdictType
              PROVE  <<v>> \in Seq(VerdictType)
            OBVIOUS
        <3>. QED  BY <1>2, <2>1, <3>1 DEF Preflight
    <2>3. result' \in ResultType /\ result' # None
        <3>1. result' = combine(verdicts')
            BY <1>2 DEF Preflight
        <3>. QED  BY <2>2, <3>1, CombineType
    <2>4. skipped' \in Seq(Layers)
        BY <1>2, GateAssumption DEF Preflight
    <2>. QED  BY <1>2, <2>2, <2>3, <2>4, OrderShape
              DEF Preflight, LoopInv, TypeOK, Typed, Ordered
<1>3. CASE SkipLayer
    <2>1. Order[at] \in Layers
        BY <1>3, OrderShape DEF SkipLayer, LoopInv, TypeOK
    <2>2. skipped' \in Seq(Layers)
        BY <1>3, <2>1, AppendProperties DEF SkipLayer, LoopInv, Typed
    <2>. QED  BY <1>3, <2>2, OrderShape DEF SkipLayer, LoopInv, TypeOK, Typed, Ordered
<1>4. CASE BudgetGone
    <2>1. Verdict(Order[at], "ERROR", FALSE) \in VerdictType
        BY <1>4, OrderShape DEF BudgetGone, LoopInv, TypeOK, Verdict, VerdictType, Outcomes
    <2>2. verdicts' \in Seq(VerdictType)
        BY <1>4, <2>1, AppendVerdict DEF BudgetGone, LoopInv, Typed
    <2>3. TypeOK'
        BY <1>4, OrderShape DEF BudgetGone, LoopInv, TypeOK
    <2>4. Typed'
        BY <1>4, <2>2 DEF BudgetGone, LoopInv, Typed
    <2>5. Ordered'
        BY <1>4, OrderShape DEF BudgetGone, LoopInv, TypeOK, Ordered
    <2>. QED  BY <2>3, <2>4, <2>5 DEF LoopInv
<1>5. CASE RefuseLayer
    <2>1. /\ Record("ERROR") /\ at <= Len(Order) /\ phase = "choose"
          /\ UNCHANGED <<failClosed, clock, gone, work, cell>>
        BY <1>5 DEF RefuseLayer
    <2>. QED  BY <2>1, RecordLoop DEF Outcomes, LoopInv, TypeOK, Typed
<1>6. CASE StartLayer
    <2>1. /\ at \in DOMAIN Order /\ Order[at] \in Layers
          /\ work' = [work EXCEPT ![Order[at]] = "busy"]
          /\ phase' = "running" /\ ~ gone /\ phase = "choose"
          /\ UNCHANGED <<failClosed, at, decided, verdicts, skipped, result, clock,
                         gone, cell>>
        BY <1>6, OrderShape DEF StartLayer, LoopInv, TypeOK
    <2>2. due' \in Nat
        <3>1. due' = clock + (IF PerLayer <= Total - clock THEN PerLayer ELSE Total - clock)
            BY <1>6 DEF StartLayer, Deadline, Remaining
        <3>2. Total - clock > 0
            BY <1>6 DEF StartLayer, Remaining
        <3>. QED  BY <3>1, <3>2, GateAssumption DEF LoopInv, TypeOK
    <2>3. \A j \in DOMAIN Order : j > at => work'[Order[j]] = "none"
        BY <2>1, OrderShape DEF LoopInv, Ordered, TypeOK
    <2>4. TypeOK'
        BY <2>1, <2>2 DEF LoopInv, TypeOK
    <2>5. Typed'
        BY <2>1 DEF LoopInv, Typed
    <2>6. Ordered'
        BY <2>1, <2>3, OrderShape DEF Ordered, LoopInv, TypeOK
    <2>. QED  BY <2>4, <2>5, <2>6 DEF LoopInv
<1>7. CASE Finish
    <2>1. result' \in ResultType /\ result' # None
        <3>1. result' = combine(verdicts)
            BY <1>7 DEF Finish
        <3>. QED  BY <3>1, CombineType DEF LoopInv, Typed
    <2>. QED  BY <1>7, <2>1, OrderShape DEF Finish, LoopInv, TypeOK, Typed, Ordered
<1>8. CASE TimerFires
    <2>1. /\ Record("ERROR") /\ at <= Len(Order) /\ phase = "running"
          /\ UNCHANGED <<failClosed, clock, gone, work, cell>>
        BY <1>8 DEF TimerFires, LoopInv, Ordered
    <2>. QED  BY <2>1, RecordLoop DEF Outcomes, LoopInv, TypeOK, Typed
<1>9. CASE CallerAborts
    <2>1. /\ gone' = TRUE
          /\ UNCHANGED <<failClosed, clock, work, cell>>
        BY <1>9 DEF CallerAborts
    <2>2. CASE phase = "running"
        <3>1. Record("ERROR") /\ at <= Len(Order)
            BY <1>9, <2>2 DEF CallerAborts, LoopInv, Ordered
        <3>. QED  BY <2>1, <2>2, <3>1, RecordLoop DEF Outcomes, LoopInv, TypeOK, Typed
    <2>3. CASE phase # "running"
        <3>1. UNCHANGED race
            BY <1>9, <2>3 DEF CallerAborts
        <3>. QED  BY <2>1, <2>3, <3>1 DEF race, LoopInv, TypeOK, Typed, Ordered
    <2>. QED  BY <2>2, <2>3
<1>10. ASSUME NEW l \in Layers, NEW outcome \in Outcomes, Settle(l, outcome)
       PROVE  LoopInv'
    <2>1. /\ work[l] = "busy"
          /\ work' = [work EXCEPT ![l] = outcome]
          /\ UNCHANGED <<failClosed, clock, gone, cell>>
        BY <1>10 DEF Settle
    <2>2. \A j \in DOMAIN Order :
             (j > at \/ (j = at /\ phase # "running")) => work'[Order[j]] = work[Order[j]]
        BY <2>1 DEF LoopInv, Ordered, TypeOK
    <2>3. work' \in [Layers -> {"none", "busy"} \cup Outcomes]
        BY <2>1 DEF LoopInv, TypeOK
    <2>4. CASE Running(l)
        <3>1. Record(outcome) /\ at <= Len(Order) /\ phase = "running"
            BY <1>10, <2>4 DEF Settle, Running
        <3>. QED  BY <2>1, <2>2, <2>3, <3>1, RecordLoop DEF LoopInv, TypeOK, Typed
    <2>5. CASE ~ Running(l)
        <3>1. UNCHANGED race
            BY <1>10, <2>5 DEF Settle
        <3>2. phase = "running" => work'[Order[at]] = "busy"
            BY <2>1, <2>5, OrderShape DEF Running, LoopInv, TypeOK, Ordered
        <3>3. TypeOK'
            BY <2>1, <2>3, <3>1, <3>2 DEF race, LoopInv, TypeOK
        <3>4. Typed'
            BY <2>1, <3>1 DEF race, LoopInv, Typed
        <3>5. Ordered'
            BY <2>2, <3>1 DEF race, LoopInv, Ordered
        <3>. QED  BY <3>3, <3>4, <3>5 DEF LoopInv
    <2>. QED  BY <2>4, <2>5
<1>11. ASSUME NEW l \in Layers, NEW q \in Questions, Ask(l, q) \/ Hear(l, q)
       PROVE  LoopInv'
    BY <1>11 DEF Ask, Hear, race, LoopInv, TypeOK, Typed, Ordered
<1>12. ASSUME NEW q \in Questions, NEW value \in {"ok", "failed"}, Answer(q, value)
       PROVE  LoopInv'
    BY <1>12 DEF Answer, race, LoopInv, TypeOK, Typed, Ordered
<1>13. CASE PassTime
    BY <1>13 DEF PassTime, race, LoopInv, TypeOK, Typed, Ordered
<1>14. CASE UNCHANGED gateVars
    BY <1>14 DEF gateVars, race, LoopInv, TypeOK, Typed, Ordered
<1>. QED  BY <1>1, <1>2, <1>3, <1>4, <1>5, <1>6, <1>7, <1>8, <1>9, <1>10, <1>11,
             <1>12, <1>13, <1>14 DEF Next, Loop

\* The loop's bookkeeping is right for every order and budget: in particular no
\* layer is started for a caller that has aborted.
THEOREM GateTypeCorrect == Spec => []TypeOK
<1>1. LoopInv => TypeOK
    BY DEF LoopInv
<1>. QED  BY <1>1, InitLoop, StepLoop, PTL DEF Spec

-----------------------------------------------------------------------------
(* The budget. *)

\* A timer is due within the whole budget, so the clock stays within it, too.
BudgetInv == due <= Total /\ clock <= Total + MaxLate

LEMMA StepBudget == LoopInv /\ BudgetInv /\ [Next]_gateVars => BudgetInv'
<1> SUFFICES ASSUME LoopInv, BudgetInv, [Next]_gateVars PROVE BudgetInv'
    OBVIOUS
<1>1. CASE StartLayer
    <2>1. due' = clock + (IF PerLayer <= Total - clock THEN PerLayer ELSE Total - clock)
        BY <1>1 DEF StartLayer, Deadline, Remaining
    <2>2. due' <= Total
        BY <2>1, GateAssumption DEF LoopInv, TypeOK
    <2>. QED  BY <1>1, <2>2 DEF StartLayer, BudgetInv
<1>2. CASE PassTime
    <2>1. clock' <= due + MaxLate
        BY <1>2, GateAssumption DEF PassTime, LoopInv, TypeOK
    <2>2. due + MaxLate <= Total + MaxLate
        BY GateAssumption DEF BudgetInv, LoopInv, TypeOK
    <2>3. due' = due
        BY <1>2 DEF PassTime, race
    <2>. QED  BY <2>1, <2>2, <2>3, <1>2, GateAssumption
              DEF BudgetInv, PassTime, LoopInv, TypeOK
<1>3. ASSUME UNCHANGED <<clock, due>>
      PROVE  BudgetInv'
    BY <1>3 DEF BudgetInv
<1>4. CASE Begin \/ Preflight \/ SkipLayer \/ BudgetGone \/ RefuseLayer \/ Finish
    BY <1>3, <1>4 DEF Begin, Preflight, SkipLayer, BudgetGone, RefuseLayer, Record, Finish
<1>5. CASE TimerFires \/ CallerAborts
    BY <1>3, <1>5 DEF TimerFires, CallerAborts, Record, race
<1>6. ASSUME NEW l \in Layers, NEW outcome \in Outcomes, Settle(l, outcome)
      PROVE  BudgetInv'
    BY <1>3, <1>6 DEF Settle, Record, race
<1>7. ASSUME NEW l \in Layers, NEW q \in Questions, Ask(l, q) \/ Hear(l, q)
      PROVE  BudgetInv'
    BY <1>3, <1>7 DEF Ask, Hear, race
<1>8. ASSUME NEW q \in Questions, NEW value \in {"ok", "failed"}, Answer(q, value)
      PROVE  BudgetInv'
    BY <1>3, <1>8 DEF Answer, race
<1>9. CASE UNCHANGED gateVars
    BY <1>3, <1>9 DEF gateVars, race
<1>. QED  BY <1>1, <1>2, <1>4, <1>5, <1>6, <1>7, <1>8, <1>9 DEF Next, Loop

\* The result is there within the budget of the whole gate and the lateness of
\* one timer, however many layers there are.
THEOREM WithinBudget == Spec => []GateWithinBudget
<1>1. Init => BudgetInv
    BY GateAssumption DEF Init, BudgetInv
<1>2. BudgetInv => GateWithinBudget
    BY DEF BudgetInv, GateWithinBudget
<1>. QED  BY <1>1, <1>2, InitLoop, StepLoop, StepBudget, PTL DEF Spec

-----------------------------------------------------------------------------
(* The memo cells. *)

\* A question was asked if its cell is not empty, and whoever heard an answer
\* heard what is in the cell.
CellInv ==
    /\ cell \in [Questions -> {"empty", "pending", "ok", "failed"}]
    /\ calls \in [Questions -> 0..1]
    /\ heard \in [Layers -> UNION {[S -> {"ok", "failed"}] : S \in SUBSET Questions}]
    /\ \A q \in Questions : cell[q] = "empty" => calls[q] = 0
    /\ \A l \in Layers : \A q \in DOMAIN heard[l] : heard[l][q] = cell[q]

LEMMA HeardShape ==
    ASSUME CellInv, NEW l \in Layers
    PROVE  /\ DOMAIN heard[l] \subseteq Questions
           /\ \A q \in DOMAIN heard[l] : heard[l][q] \in {"ok", "failed"}
<1>1. PICK S \in SUBSET Questions : heard[l] \in [S -> {"ok", "failed"}]
    BY DEF CellInv
<1>. QED  BY <1>1

LEMMA InitCell == Init => CellInv
<1> SUFFICES ASSUME Init PROVE CellInv
    OBVIOUS
<1>1. << >> \in [{} -> {"ok", "failed"}]
    OBVIOUS
<1>2. heard \in [Layers -> UNION {[S -> {"ok", "failed"}] : S \in SUBSET Questions}]
    <2>1. << >> \in UNION {[S -> {"ok", "failed"}] : S \in SUBSET Questions}
        BY <1>1
    <2>. QED  BY <2>1 DEF Init
<1>3. \A l \in Layers : DOMAIN heard[l] = {}
    BY <1>1 DEF Init
<1>4. \A l \in Layers : \A q \in DOMAIN heard[l] : heard[l][q] = cell[q]
    BY <1>3
<1>5. /\ cell \in [Questions -> {"empty", "pending", "ok", "failed"}]
      /\ calls \in [Questions -> 0..1]
      /\ \A q \in Questions : cell[q] = "empty" => calls[q] = 0
    BY DEF Init
<1>. QED  BY <1>2, <1>4, <1>5 DEF CellInv

LEMMA StepCell == CellInv /\ [Next]_gateVars => CellInv'
<1> SUFFICES ASSUME CellInv, [Next]_gateVars PROVE CellInv'
    OBVIOUS
<1> USE DEF background
<1>1. ASSUME UNCHANGED <<cell, calls, heard>>
      PROVE  CellInv'
    BY <1>1 DEF CellInv
<1>2. CASE Loop
    BY <1>1, <1>2 DEF Loop, Begin, Preflight, SkipLayer, BudgetGone, RefuseLayer,
                      StartLayer, Finish
<1>3. CASE TimerFires \/ CallerAborts \/ PassTime
    BY <1>1, <1>3 DEF TimerFires, CallerAborts, PassTime
<1>4. ASSUME NEW l \in Layers, NEW outcome \in Outcomes, Settle(l, outcome)
      PROVE  CellInv'
    BY <1>1, <1>4 DEF Settle
<1>5. ASSUME NEW l \in Layers, NEW q \in Questions, Ask(l, q)
      PROVE  CellInv'
    <2>1. /\ cell[q] = "empty" /\ cell' = [cell EXCEPT ![q] = "pending"]
          /\ calls' = [calls EXCEPT ![q] = @ + 1] /\ heard' = heard
        BY <1>5 DEF Ask, Fetchable
    <2>2. calls' \in [Questions -> 0..1]
        BY <2>1 DEF CellInv
    <2>3. \A k \in Layers : \A r \in DOMAIN heard[k] : r # q
        BY <2>1, HeardShape DEF CellInv
    <2>. QED  BY <2>1, <2>2, <2>3, HeardShape DEF CellInv
<1>6. ASSUME NEW l \in Layers, NEW q \in Questions, Hear(l, q)
      PROVE  CellInv'
    <2> DEFINE new == [r \in DOMAIN heard[l] \cup {q} |->
                          IF r = q THEN cell[q] ELSE heard[l][r]]
    <2>1. /\ heard' = [heard EXCEPT ![l] = new]
          /\ cell[q] \in {"ok", "failed"} /\ UNCHANGED <<cell, calls>>
        BY <1>6 DEF Hear
    <2>2. new \in [DOMAIN heard[l] \cup {q} -> {"ok", "failed"}]
        BY <2>1, HeardShape
    <2>3. DOMAIN heard[l] \cup {q} \in SUBSET Questions
        BY HeardShape
    <2>4. new \in UNION {[S -> {"ok", "failed"}] : S \in SUBSET Questions}
        BY <2>2, <2>3
    <2>5. \A r \in DOMAIN new : new[r] = cell[r]
        BY DEF CellInv
    <2> HIDE DEF new
    <2>6. heard' \in [Layers -> UNION {[S -> {"ok", "failed"}] : S \in SUBSET Questions}]
        BY <2>1, <2>4 DEF CellInv
    <2>7. \A k \in Layers : \A r \in DOMAIN heard'[k] : heard'[k][r] = cell'[r]
        BY <2>1, <2>5 DEF CellInv
    <2>. QED  BY <2>1, <2>6, <2>7 DEF CellInv
<1>7. ASSUME NEW q \in Questions, NEW value \in {"ok", "failed"}, Answer(q, value)
      PROVE  CellInv'
    <2>1. /\ cell[q] = "pending" /\ cell' = [cell EXCEPT ![q] = value]
          /\ UNCHANGED <<calls, heard>>
        BY <1>7 DEF Answer
    <2>2. \A k \in Layers : \A r \in DOMAIN heard[k] : r # q
        BY <2>1, HeardShape DEF CellInv
    <2>. QED  BY <2>1, <2>2, HeardShape DEF CellInv
<1>8. CASE UNCHANGED gateVars
    BY <1>1, <1>8 DEF gateVars
<1>. QED  BY <1>2, <1>3, <1>4, <1>5, <1>6, <1>7, <1>8 DEF Next

\* Layers that share a question hear one answer, of one call, cut off or not.
THEOREM OneAnswer == Spec => []OneAnswerPerQuestion
<1>1. CellInv => OneAnswerPerQuestion
    <2> SUFFICES ASSUME CellInv PROVE OneAnswerPerQuestion
        OBVIOUS
    <2>1. \A q \in Questions : calls[q] <= 1
        BY DEF CellInv
    <2>. QED  BY <2>1 DEF CellInv, OneAnswerPerQuestion
<1>. QED  BY <1>1, InitCell, StepCell, PTL DEF Spec

-----------------------------------------------------------------------------
(* The account. *)

\* The i-th verdict decides the gate.
Settles(i) == verdicts[i].ran /\ Decisive(verdicts[i].outcome)

\* Verdicts and skipped layers are the order up to the current layer, only the
\* last verdict can have decided, and no layer past the verdicts has been started
\* but the running one.
Accounted ==
    LET n == Len(verdicts)
    IN /\ n + Len(skipped) = at - 1
       /\ \A i \in 1..n : verdicts[i].layer = Order[i]
       /\ \A i \in 1..Len(skipped) : skipped[i] = Order[n + i]
       /\ Len(skipped) > 0 => decided
       /\ decided <=> n > 0 /\ Settles(n)
       /\ \A i \in 1..(n - 1) : ~ Settles(i)
       /\ phase = "running" => ~ decided
       /\ phase = "done" => at = Len(Order) + 1
       /\ \A j \in DOMAIN Order :
            j > n /\ ~ (phase = "running" /\ j = n + 1) => work[Order[j]] = "none"

AccountInv ==
    \/ phase = "done" /\ verdicts = <<Verdict("gate", "ERROR", FALSE)>>
    \/ Accounted

LEMMA LoopShape ==
    ASSUME LoopInv
    PROVE  /\ Len(verdicts) \in Nat /\ DOMAIN verdicts = 1..Len(verdicts)
           /\ Len(skipped) \in Nat /\ DOMAIN skipped = 1..Len(skipped)
           /\ at \in Nat /\ at >= 1 /\ at <= Len(Order) + 1
    BY OrderShape, LenProperties DEF LoopInv, TypeOK, Typed

\* The account when a verdict is appended that decides the gate or does not.
LEMMA AppendAccount ==
    ASSUME LoopInv, Accounted, NEW outcome \in Outcomes, NEW ran \in BOOLEAN,
           at <= Len(Order), ~ decided, phase # "done", phase' = "choose",
           verdicts' = Append(verdicts, Verdict(Order[at], outcome, ran)),
           decided' = (ran /\ Decisive(outcome)), at' = at + 1,
           skipped' = skipped, failClosed' = failClosed,
           \A j \in DOMAIN Order : j > at => work'[Order[j]] = work[Order[j]]
    PROVE  Accounted'
<1> DEFINE n == Len(verdicts)
           v == Verdict(Order[at], outcome, ran)
<1>1. n \in Nat /\ Len(skipped) = 0 /\ at = n + 1
    BY LoopShape DEF Accounted
<1>2. v \in VerdictType /\ v.layer = Order[n + 1] /\ v.outcome = outcome /\ v.ran = ran
    BY <1>1, OrderShape DEF Verdict, VerdictType, LoopInv, TypeOK
<1>3. /\ Len(verdicts') = n + 1
      /\ \A i \in 1..n : verdicts'[i] = verdicts[i]
      /\ verdicts'[n + 1] = v
    BY <1>2, AppendVerdict DEF LoopInv, Typed
<1>4. \A i \in 1..n : ~ Settles(i)
    BY <1>1 DEF Accounted
<1>5. \A i \in 1..n : ~ Settles(i)'
    BY <1>3, <1>4 DEF Settles, Decisive
<1>7. \A j \in DOMAIN Order : j > n + 1 => work'[Order[j]] = "none"
    BY <1>1, OrderShape DEF Accounted
<1> HIDE DEF v
<1>8. n' = n + 1
    BY <1>3
<1>9. \A i \in 1..n' : verdicts'[i].layer = Order[i]
    BY <1>1, <1>2, <1>3 DEF Accounted
<1>10. n' + Len(skipped') = at' - 1
    BY <1>1, <1>8
<1>11. decided' <=> n' > 0 /\ Settles(n)'
    <2>1. verdicts'[n'] = v
        BY <1>3, <1>8
    <2>2. Settles(n)' <=> ran /\ Decisive(outcome)
        BY <1>2, <2>1 DEF Settles, Decisive
    <2>3. n' > 0
        BY <1>1, <1>8
    <2>. QED  BY <2>2, <2>3
<1>12. \A i \in 1..(n' - 1) : ~ Settles(i)'
    BY <1>1, <1>5, <1>8
<1>13. \A j \in DOMAIN Order :
            j > n' /\ ~ (phase' = "running" /\ j = n' + 1) => work'[Order[j]] = "none"
    BY <1>7, <1>8
<1> HIDE DEF n
<1>. QED  BY <1>1, <1>9, <1>10, <1>11, <1>12, <1>13 DEF Accounted, n

LEMMA RecordAccount ==
    ASSUME LoopInv, Accounted, NEW outcome \in Outcomes, Record(outcome),
           at <= Len(Order), ~ decided, phase # "done", failClosed' = failClosed,
           \A j \in DOMAIN Order : j > at => work'[Order[j]] = work[Order[j]]
    PROVE  Accounted'
<1>1. decided' \in BOOLEAN /\ decided' = (TRUE /\ Decisive(outcome))
    BY DEF Record, Decisive
<1>. QED  BY <1>1, AppendAccount DEF Record

\* A step that leaves the bookkeeping alone, and starts no layer.
LEMMA KeepAccount ==
    ASSUME Accounted, UNCHANGED <<at, verdicts, skipped, decided, failClosed>>,
           phase' = phase \/ (phase = "start" /\ phase' = "choose"),
           \A j \in DOMAIN Order : work[Order[j]] = "none" => work'[Order[j]] = "none"
    PROVE  Accounted'
    BY DEF Accounted, Settles, Decisive

LEMMA StepAccount == LoopInv /\ AccountInv /\ [Next]_gateVars => AccountInv'
<1> SUFFICES ASSUME LoopInv, AccountInv, [Next]_gateVars PROVE AccountInv'
    OBVIOUS
<1> USE DEF background
<1>1. CASE phase = "done" /\ verdicts = <<Verdict("gate", "ERROR", FALSE)>>
    <2>1. UNCHANGED <<phase, verdicts>>
        BY <1>1 DEF Next, Loop, Begin, Preflight, SkipLayer, BudgetGone, RefuseLayer,
                    StartLayer, Finish, TimerFires, CallerAborts, Settle, Running, Ask,
                    Hear, Answer, PassTime, race, gateVars
    <2>. QED  BY <1>1, <2>1 DEF AccountInv, Verdict
<1>2. CASE Accounted
    <2>1. CASE Begin
        BY <1>2, <2>1, KeepAccount DEF Begin, AccountInv
    <2>2. CASE Preflight
        BY <2>2 DEF Preflight, AccountInv, Verdict
    <2>3. CASE SkipLayer
        <3> DEFINE n == Len(verdicts)
                   s == Len(skipped)
        <3>1. /\ decided /\ at <= Len(Order) /\ phase = "choose" /\ at' = at + 1
              /\ skipped' = Append(skipped, Order[at])
              /\ UNCHANGED <<failClosed, phase, decided, verdicts, work>>
            BY <2>3 DEF SkipLayer
        <3>2. at = n + s + 1 /\ n \in Nat /\ s \in Nat
            <4>1. n \in Nat /\ s \in Nat /\ at \in Nat
                BY LoopShape
            <4>2. n + s = at - 1
                BY <1>2 DEF Accounted
            <4>. QED  BY <4>1, <4>2
        <3>3. Order[at] \in Layers
            BY <3>1, OrderShape DEF LoopInv, TypeOK
        <3>4. /\ Len(skipped') = s + 1
              /\ \A i \in 1..s : skipped'[i] = skipped[i]
              /\ skipped'[s + 1] = Order[at]
            BY <3>1, <3>3, AppendProperties DEF LoopInv, Typed
        <3>5. \A i \in 1..Len(skipped') : skipped'[i] = Order[n + i]
            <4>1. \A i \in 1..s : skipped[i] = Order[n + i]
                BY <1>2 DEF Accounted
            <4>2. 1..(s + 1) = (1..s) \cup {s + 1} /\ n + (s + 1) = at
                BY <3>2
            <4>. QED  BY <3>4, <4>1, <4>2
        <3>6. Accounted'
            BY <1>2, <3>1, <3>2, <3>4, <3>5 DEF Accounted, Settles, Decisive
        <3>. QED  BY <3>6 DEF AccountInv
    <2>4. CASE BudgetGone
        <3>1. /\ verdicts' = Append(verdicts, Verdict(Order[at], "ERROR", FALSE))
              /\ at <= Len(Order) /\ ~ decided /\ at' = at + 1 /\ phase = "choose"
              /\ UNCHANGED <<failClosed, phase, decided, skipped, work>>
            BY <2>4 DEF BudgetGone
        <3>2. decided' = (FALSE /\ Decisive("ERROR"))
            BY <3>1 DEF LoopInv, Typed
        <3>. QED  BY <1>2, <3>1, <3>2, AppendAccount DEF AccountInv, Outcomes
    <2>5. CASE RefuseLayer
        BY <1>2, <2>5, RecordAccount DEF RefuseLayer, AccountInv, Outcomes
    <2>6. CASE StartLayer
        <3> DEFINE n == Len(verdicts)
        <3>1. /\ ~ decided /\ at <= Len(Order) /\ phase = "choose" /\ phase' = "running"
              /\ work' = [work EXCEPT ![Order[at]] = "busy"]
              /\ UNCHANGED <<at, decided, verdicts, skipped, failClosed>>
            BY <2>6 DEF StartLayer
        <3>2. at = n + 1 /\ n \in Nat /\ Len(skipped) = 0
            BY <1>2, <3>1, LoopShape DEF Accounted
        <3>3. \A j \in DOMAIN Order : j > n + 1 => work'[Order[j]] = "none"
            BY <1>2, <3>1, <3>2, OrderShape DEF Accounted, LoopInv, TypeOK
        <3>4. \A j \in DOMAIN Order : j > n /\ j # n + 1 => work'[Order[j]] = "none"
            BY <3>2, <3>3, OrderShape
        <3>5. Accounted'
            BY <1>2, <3>1, <3>2, <3>4 DEF Accounted, Settles, Decisive
        <3>. QED  BY <3>5 DEF AccountInv
    <2>7. CASE Finish
        <3>1. /\ at > Len(Order) /\ phase = "choose" /\ phase' = "done"
              /\ UNCHANGED <<failClosed, at, decided, verdicts, skipped, work>>
            BY <2>7 DEF Finish
        <3>2. at = Len(Order) + 1
            BY <3>1, LoopShape, OrderShape
        <3>3. Accounted'
            BY <1>2, <3>1, <3>2 DEF Accounted, Settles, Decisive
        <3>. QED  BY <3>3 DEF AccountInv
    <2>8. ASSUME phase = "running", NEW outcome \in Outcomes, Record(outcome),
                 failClosed' = failClosed,
                 \A j \in DOMAIN Order : j > at => work'[Order[j]] = work[Order[j]]
          PROVE  AccountInv'
        <3>1. at <= Len(Order) /\ ~ decided
            BY <1>2, <2>8 DEF LoopInv, Ordered, Accounted
        <3>. QED  BY <1>2, <2>8, <3>1, RecordAccount DEF AccountInv
    <2>9. CASE TimerFires
        BY <2>8, <2>9 DEF TimerFires, Outcomes
    <2>10. CASE CallerAborts
        <3>1. CASE phase = "running"
            BY <2>8, <2>10, <3>1 DEF CallerAborts, Outcomes
        <3>2. CASE phase # "running"
            BY <1>2, <2>10, <3>2, KeepAccount DEF CallerAborts, race, AccountInv
        <3>. QED  BY <3>1, <3>2
    <2>11. ASSUME NEW l \in Layers, NEW outcome \in Outcomes, Settle(l, outcome)
           PROVE  AccountInv'
        <3>1. /\ work[l] = "busy" /\ work' = [work EXCEPT ![l] = outcome]
              /\ failClosed' = failClosed
            BY <2>11 DEF Settle
        <3>2. \A j \in DOMAIN Order : work[Order[j]] = "none" => work'[Order[j]] = "none"
            BY <3>1, OrderShape DEF LoopInv, TypeOK
        <3>3. \A j \in DOMAIN Order : j > at => work'[Order[j]] = work[Order[j]]
            BY <3>1, OrderShape DEF LoopInv, Ordered, TypeOK
        <3>4. CASE Running(l)
            BY <2>8, <2>11, <3>1, <3>3, <3>4 DEF Settle, Running
        <3>5. CASE ~ Running(l)
            BY <1>2, <2>11, <3>1, <3>2, <3>5, KeepAccount DEF Settle, race, AccountInv
        <3>. QED  BY <3>4, <3>5
    <2>12. ASSUME UNCHANGED <<at, verdicts, skipped, decided, failClosed, phase, work>>
           PROVE  AccountInv'
        BY <1>2, <2>12, KeepAccount DEF AccountInv
    <2>13. ASSUME NEW l \in Layers, NEW q \in Questions, Ask(l, q) \/ Hear(l, q)
           PROVE  AccountInv'
        BY <2>12, <2>13 DEF Ask, Hear, race
    <2>14. ASSUME NEW q \in Questions, NEW value \in {"ok", "failed"}, Answer(q, value)
           PROVE  AccountInv'
        BY <2>12, <2>14 DEF Answer, race
    <2>15. CASE PassTime \/ UNCHANGED gateVars
        BY <2>12, <2>15 DEF PassTime, gateVars, race
    <2>. QED  BY <2>1, <2>2, <2>3, <2>4, <2>5, <2>6, <2>7, <2>9, <2>10, <2>11, <2>13,
                 <2>14, <2>15 DEF Next, Loop
<1>. QED  BY <1>1, <1>2 DEF AccountInv

LEMMA InitAccount == Init => AccountInv
<1> SUFFICES ASSUME Init PROVE Accounted
    BY DEF AccountInv
<1>1. Len(verdicts) = 0 /\ Len(skipped) = 0
    BY EmptySeq DEF Init
<1>. QED  BY <1>1, OrderShape DEF Init, Accounted, Settles

LEMMA AccountSplits ==
    ASSUME LoopInv, Accounted, phase = "done"
    PROVE  [i \in 1..Len(verdicts) |-> verdicts[i].layer] \o skipped = Order
<1> DEFINE n == Len(verdicts)
           s == Len(skipped)
           tried == [i \in 1..n |-> verdicts[i].layer]
<1>1. n \in Nat /\ s \in Nat /\ n + s = Len(Order)
    BY LoopShape, OrderShape DEF Accounted
<1>2. tried \in Seq(Layers) /\ Len(tried) = n
    <2>1. \A i \in 1..n : verdicts[i].layer \in Layers
        BY <1>1, OrderShape DEF Accounted
    <2>2. tried \in Seq(Layers)
        BY <1>1, <2>1, IsASeq
    <2>3. Len(tried) = n
        BY <1>1, <2>2, LenProperties
    <2>. QED  BY <2>2, <2>3
<1>3. skipped \in Seq(Layers)
    BY DEF LoopInv, Typed
<1>4. \A i \in 1..n : tried[i] = Order[i]
    BY DEF Accounted
<1> HIDE DEF tried, n, s
<1>a. s = Len(skipped)
    BY DEF s
<1>b. /\ tried \o skipped \in Seq(Layers)
      /\ Len(tried \o skipped) = Len(tried) + Len(skipped)
      /\ \A i \in 1..(Len(tried) + Len(skipped)) :
            (tried \o skipped)[i] = IF i <= Len(tried) THEN tried[i]
                                    ELSE skipped[i - Len(tried)]
    BY <1>2, <1>3, ConcatProperties, Zenon
<1>5. /\ tried \o skipped \in Seq(Layers)
      /\ Len(tried \o skipped) = n + s
      /\ \A i \in 1..(n + s) : (tried \o skipped)[i] = IF i <= n THEN tried[i]
                                                       ELSE skipped[i - n]
    BY <1>2, <1>a, <1>b, Zenon
<1>6. ASSUME NEW i \in 1..(n + s)
      PROVE  (tried \o skipped)[i] = Order[i]
    <2>1. CASE i <= n
        BY <1>4, <1>5, <2>1
    <2>2. CASE ~ i <= n
        <3>1. i - n \in 1..s /\ n + (i - n) = i
            BY <1>1, <2>2
        <3>2. skipped[i - n] = Order[i]
            BY <3>1 DEF Accounted, n, s
        <3>. QED  BY <1>5, <2>2, <3>2
    <2>. QED  BY <2>1, <2>2
<1>7. Order \in Seq(Layers)
    BY GateAssumption
<1>. QED  BY <1>1, <1>5, <1>6, <1>7, SeqEqual DEF tried, n

LEMMA AccountHolds == LoopInv /\ AccountInv => EveryLayerAccountedFor
<1> SUFFICES ASSUME LoopInv, AccountInv PROVE EveryLayerAccountedFor
    OBVIOUS
<1>1. CASE verdicts = <<Verdict("gate", "ERROR", FALSE)>>
    <2>1. verdicts[1].layer = "gate" /\ verdicts[1].ran = FALSE /\ DOMAIN verdicts = {1}
        BY <1>1 DEF Verdict
    <2>. QED  BY <2>1 DEF EveryLayerAccountedFor
<1>2. CASE Accounted
    <2> DEFINE n == Len(verdicts)
    <2>1. n \in Nat /\ DOMAIN verdicts = 1..n /\ Len(skipped) \in Nat
        BY LoopShape
    <2>2. \A i \in 1..(n - 1) : ~ Settles(i)
        BY <1>2 DEF Accounted
    <2>3. skipped # << >> => Settles(n)
        <3>1. ASSUME skipped # << >> PROVE Len(skipped) > 0
            BY <2>1, <3>1, EmptySeq DEF LoopInv, Typed
        <3>. QED  BY <1>2, <3>1 DEF Accounted
    <2>4. ASSUME NEW i \in DOMAIN verdicts, Settles(i), NEW j \in (i + 1)..Len(Order)
          PROVE  work[Order[j]] = "none"
        <3>1. i = n
            BY <2>1, <2>2, <2>4
        <3>2. decided
            BY <1>2, <2>1, <2>4, <3>1 DEF Accounted
        <3>3. j \in DOMAIN Order /\ j > n
            BY <2>1, <2>4, <3>1, OrderShape
        <3>. QED  BY <1>2, <3>2, <3>3 DEF Accounted
    <2>. QED  BY <1>2, <2>2, <2>3, <2>4, AccountSplits DEF EveryLayerAccountedFor, Settles
<1>. QED  BY <1>1, <1>2 DEF AccountInv

\* Verdicts and skipped layers split the order, and nothing after the verdict
\* that decided was ever started, for every order, budget and failClosed.
THEOREM EveryLayerCounted == Spec => []EveryLayerAccountedFor
    BY InitLoop, StepLoop, InitAccount, StepAccount, AccountHolds, PTL DEF Spec

-----------------------------------------------------------------------------
(* What makes a result buyable. *)

\* The layer passed, uncut, on the answers it needs or went on to ask.
Earned(l) ==
    /\ work[l] = "PASS" /\ l \notin aborted
    /\ \A q \in Needs[l] : heard[l][q] = "ok"
    /\ \A q \in Follows[l] \cap DOMAIN heard[l] : heard[l][q] = "ok"

\* Only layers whose verdict is in were cut; a PASS on the list was earned.
EarnedInv ==
    /\ phase # "done" =>
         /\ \A j \in DOMAIN Order : Order[j] \in aborted => j < at
         /\ \A i \in DOMAIN verdicts : verdicts[i].outcome = "PASS" => Earned(Order[i])
    /\ BuyableIsEarned

\* A layer that has returned asks nothing more, and is cut no more.
LEMMA EarnedStays ==
    ASSUME LoopInv, CellInv, NEW l \in Layers, Earned(l),
           l \in aborted' => l \in aborted,
           work' = work \/ \E k \in Layers, outcome \in Outcomes :
                              /\ work[k] = "busy"
                              /\ work' = [work EXCEPT ![k] = outcome],
           heard' = heard \/ \E k \in Layers, q \in Questions : Hear(k, q)
    PROVE  Earned(l)'
<1>1. work'[l] = "PASS"
    BY DEF Earned, LoopInv, TypeOK
<1>2. heard'[l] = heard[l]
    BY DEF Earned, Hear, CellInv
<1>. QED  BY <1>1, <1>2 DEF Earned

\* What MayReturn asks of a PASS.
LEMMA PassIsEarned ==
    ASSUME LoopInv, CellInv, NEW l \in Layers, MayReturn(l, "PASS")
    PROVE  /\ \A q \in Needs[l] : heard[l][q] = "ok"
           /\ \A q \in Follows[l] \cap DOMAIN heard[l] : heard[l][q] = "ok"
<1>1. /\ Needs[l] \subseteq DOMAIN heard[l]
      /\ \A q \in DOMAIN heard[l] \ Wants[l] : heard[l][q] # "failed"
    BY DEF MayReturn
<1>2. \A q \in DOMAIN heard[l] \ Wants[l] : heard[l][q] = "ok"
    BY <1>1, HeardShape
<1>. QED  BY <1>1, <1>2, GateAssumption

\* A verdict of the running layer is recorded.
LEMMA RecordEarned ==
    ASSUME LoopInv, Accounted, EarnedInv, NEW outcome \in Outcomes, Record(outcome),
           at <= Len(Order), ~ decided, phase # "done",
           NEW current \in Layers, current = Order[at],
           aborted' \subseteq aborted \cup {current},
           outcome = "PASS" => Earned(current)',
           \A l \in Layers : l # current => (Earned(l) => Earned(l)')
    PROVE  EarnedInv'
<1> DEFINE n == Len(verdicts)
           v == Verdict(Order[at], outcome, TRUE)
<1>1. n \in Nat /\ at = n + 1 /\ DOMAIN verdicts = 1..n
    <2>1. n \in Nat /\ Len(skipped) \in Nat /\ at \in Nat /\ DOMAIN verdicts = 1..n
        BY LoopShape
    <2>2. n + Len(skipped) = at - 1 /\ ~ Len(skipped) > 0
        BY DEF Accounted
    <2>. QED  BY <2>1, <2>2
<1>2. v \in VerdictType /\ v.outcome = outcome
    BY <1>1, OrderShape DEF Verdict, VerdictType, LoopInv, TypeOK
<1>3. /\ verdicts' = Append(verdicts, v) /\ phase' = "choose" /\ at' = at + 1
    BY DEF Record
<1>4. /\ DOMAIN verdicts' = 1..(n + 1)
      /\ \A i \in 1..n : verdicts'[i] = verdicts[i]
      /\ verdicts'[n + 1] = v
    <2>1. /\ Append(verdicts, v) \in Seq(VerdictType) /\ Len(Append(verdicts, v)) = n + 1
          /\ \A i \in 1..n : Append(verdicts, v)[i] = verdicts[i]
          /\ Append(verdicts, v)[n + 1] = v
        BY <1>2, AppendVerdict DEF LoopInv, Typed
    <2>2. DOMAIN Append(verdicts, v) = 1..(n + 1)
        BY <2>1, LenProperties
    <2>. QED  BY <1>3, <2>1, <2>2
<1> HIDE DEF v
<1>5. ASSUME NEW j \in DOMAIN Order, Order[j] \in aborted'
      PROVE  j < at'
    <2>1. CASE Order[j] \in aborted
        BY <1>3, <2>1, OrderShape, LoopShape DEF EarnedInv
    <2>2. CASE Order[j] = Order[at]
        <3>1. at \in DOMAIN Order
            BY OrderShape, LoopShape
        <3>2. j = at
            BY <2>2, <3>1, OrderShape
        <3>. QED  BY <1>3, <3>2, LoopShape
    <2>. QED  BY <1>5, <2>1, <2>2
<1>6. ASSUME NEW i \in DOMAIN verdicts', verdicts'[i].outcome = "PASS"
      PROVE  Earned(Order[i])'
    <2>1. CASE i = n + 1
        <3>1. outcome = "PASS"
            BY <1>2, <1>4, <1>6, <2>1
        <3>2. Earned(current)'
            BY <3>1
        <3>. QED  BY <1>1, <2>1, <3>2
    <2>2. CASE i # n + 1
        <3>1. i \in DOMAIN verdicts /\ i \in DOMAIN Order /\ at \in DOMAIN Order /\ i # at
            BY <1>1, <1>4, <2>2, OrderShape
        <3>2. Earned(Order[i])
            BY <1>1, <1>4, <1>6, <3>1 DEF EarnedInv
        <3>. QED  BY <3>1, <3>2, OrderShape
    <2>. QED  BY <2>1, <2>2
<1>7. BuyableIsEarned'
    BY <1>3 DEF BuyableIsEarned
<1>. QED  BY <1>5, <1>6, <1>7 DEF EarnedInv

\* A step that adds no verdict and ends nothing.
LEMMA KeepEarned ==
    ASSUME EarnedInv, UNCHANGED <<aborted, result>>,
           phase # "done" => verdicts' = verdicts /\ at' >= at,
           LoopInv, LoopInv', AccountInv, phase' = "done" <=> phase = "done",
           \A l \in Layers : Earned(l) => Earned(l)'
    PROVE  EarnedInv'
<1>1. CASE phase # "done"
    <2>1. \A j \in DOMAIN Order : Order[j] \in aborted' => j < at'
        <3>1. at \in Nat /\ at' \in Nat /\ DOMAIN Order \subseteq Nat
            BY OrderShape DEF LoopInv, TypeOK
        <3>. QED  BY <1>1, <3>1 DEF EarnedInv
    <2>2. ASSUME NEW i \in DOMAIN verdicts, verdicts[i].outcome = "PASS"
          PROVE  Earned(Order[i])'
        <3>1. Earned(Order[i])
            BY <1>1, <2>2 DEF EarnedInv
        <3>2. i \in DOMAIN Order
            <4>1. Len(verdicts) + Len(skipped) = at - 1
                BY <1>1 DEF AccountInv, Accounted
            <4>. QED  BY <4>1, LoopShape, OrderShape
        <3>. QED  BY <3>1, <3>2, OrderShape
    <2>. QED  BY <1>1, <2>1, <2>2 DEF EarnedInv, BuyableIsEarned
<1>2. CASE phase = "done"
    <2>1. BuyableIsEarned'
        <3>1. ASSUME result.buyable
              PROVE  result.complete /\ \A l \in Layers : Earned(l)
            BY <1>2, <3>1 DEF EarnedInv, BuyableIsEarned, Earned
        <3>. QED  BY <3>1 DEF BuyableIsEarned, Earned
    <2>. QED  BY <1>2, <2>1 DEF EarnedInv
<1>. QED  BY <1>1, <1>2

LEMMA StepEarned ==
    LoopInv /\ AccountInv /\ CellInv /\ EarnedInv /\ [Next]_gateVars => EarnedInv'
<1> SUFFICES ASSUME LoopInv, AccountInv, CellInv, EarnedInv, [Next]_gateVars
             PROVE  EarnedInv'
    OBVIOUS
<1> USE DEF background
<1>0. LoopInv'
    BY StepLoop
<1>1. ASSUME UNCHANGED <<work, aborted, heard, result>>,
             phase # "done" => verdicts' = verdicts /\ at' >= at,
             phase' = "done" <=> phase = "done"
      PROVE  EarnedInv'
    <2>1. \A l \in Layers : Earned(l) => Earned(l)'
        BY <1>1 DEF Earned
    <2>. QED  BY <1>0, <1>1, <2>1, KeepEarned
<1>2. CASE Begin \/ SkipLayer
    BY <1>1, <1>2 DEF Begin, SkipLayer, LoopInv, TypeOK
<1>3. CASE Preflight
    <2>1. verdicts' = <<Verdict("gate", "ERROR", FALSE)>> /\ result' = combine(verdicts')
          /\ phase' = "done"
        BY <1>3 DEF Preflight
    <2>2. With(verdicts', "PASS") # DOMAIN verdicts'
        BY <2>1 DEF With, Verdict
    <2>3. ~ result'.buyable
        BY <2>1, <2>2 DEF combine
    <2>. QED  BY <2>1, <2>3 DEF EarnedInv, BuyableIsEarned
<1>4. CASE BudgetGone
    <2> DEFINE v == Verdict(Order[at], "ERROR", FALSE)
               n == Len(verdicts)
    <2>1. /\ phase = "choose" /\ phase' = "choose" /\ verdicts' = Append(verdicts, v)
          /\ at' = at + 1 /\ UNCHANGED <<work, aborted, heard>>
        BY <1>4 DEF BudgetGone
    <2>2. v \in VerdictType /\ v.outcome = "ERROR"
        BY <1>4, OrderShape DEF BudgetGone, LoopInv, TypeOK, Verdict, VerdictType, Outcomes
    <2> HIDE DEF v
    <2>3. /\ DOMAIN verdicts' = 1..(n + 1) /\ DOMAIN verdicts = 1..n /\ n \in Nat
          /\ \A i \in 1..n : verdicts'[i] = verdicts[i]
          /\ verdicts'[n + 1] = v
        <3>1. /\ Append(verdicts, v) \in Seq(VerdictType)
              /\ Len(Append(verdicts, v)) = n + 1
              /\ \A i \in 1..n : Append(verdicts, v)[i] = verdicts[i]
              /\ Append(verdicts, v)[n + 1] = v
            BY <2>2, AppendVerdict DEF LoopInv, Typed
        <3>2. DOMAIN Append(verdicts, v) = 1..(n + 1)
            BY <3>1, LenProperties
        <3>. QED  BY <2>1, <3>1, <3>2, LoopShape
    <2>4. ASSUME NEW i \in DOMAIN verdicts', verdicts'[i].outcome = "PASS"
          PROVE  Earned(Order[i])'
        <3>1. i \in DOMAIN verdicts /\ verdicts[i].outcome = "PASS"
            BY <2>2, <2>3, <2>4
        <3>2. Earned(Order[i])
            BY <2>1, <3>1 DEF EarnedInv
        <3>. QED  BY <2>1, <3>2 DEF Earned
    <2>5. \A j \in DOMAIN Order : Order[j] \in aborted' => j < at'
        BY <2>1, OrderShape, LoopShape DEF EarnedInv
    <2>. QED  BY <2>1, <2>4, <2>5 DEF EarnedInv, BuyableIsEarned
<1>5. ASSUME NEW outcome \in Outcomes, Record(outcome), at <= Len(Order),
             phase # "done", ~ decided, outcome # "PASS",
             work' = work \/ \E k \in Layers, o \in Outcomes :
                                /\ work[k] = "busy" /\ work' = [work EXCEPT ![k] = o],
             heard' = heard, aborted' \subseteq aborted \cup {Order[at]}
      PROVE  EarnedInv'
    <2>1. PICK current \in Layers : current = Order[at]
        BY <1>5, OrderShape, LoopShape
    <2>2. Accounted
        BY <1>5 DEF AccountInv
    <2>3. ASSUME NEW l \in Layers, l # current, Earned(l)
          PROVE  Earned(l)'
        <3>1. l \in aborted' => l \in aborted
            BY <1>5, <2>1, <2>3
        <3>. QED  BY <1>5, <2>3, <3>1, EarnedStays
    <2>. QED  BY <1>5, <2>1, <2>2, <2>3, RecordEarned
<1>6. phase = "running" => ~ decided /\ at <= Len(Order)
    BY DEF AccountInv, Accounted, LoopInv, Ordered
<1>7. CASE RefuseLayer
    BY <1>5, <1>7 DEF RefuseLayer, Outcomes
<1>8. CASE TimerFires
    BY <1>5, <1>6, <1>8 DEF TimerFires, Outcomes
<1>9. CASE CallerAborts
    <2>1. CASE phase = "running"
        BY <1>5, <1>6, <1>9, <2>1 DEF CallerAborts, Outcomes
    <2>2. CASE phase # "running"
        <3>1. UNCHANGED <<work, aborted, heard, result, verdicts, at, phase>>
            BY <1>9, <2>2 DEF CallerAborts, race
        <3>. QED  BY <1>1, <3>1 DEF LoopInv, TypeOK
    <2>. QED  BY <2>1, <2>2
<1>10. CASE StartLayer
    <2>1. /\ phase # "done" /\ phase' # "done" /\ work[Order[at]] = "none"
          /\ work' = [work EXCEPT ![Order[at]] = "busy"]
          /\ UNCHANGED <<aborted, heard, result, verdicts, at>>
        BY <1>10, OrderShape DEF StartLayer, LoopInv, Ordered, TypeOK
    <2>2. ASSUME NEW l \in Layers, Earned(l)
          PROVE  Earned(l)'
        <3>1. work'[l] = work[l]
            BY <2>1, <2>2 DEF Earned, LoopInv, TypeOK
        <3>. QED  BY <2>1, <2>2, <3>1 DEF Earned
    <2>3. at' >= at
        BY <2>1 DEF LoopInv, TypeOK
    <2>. QED  BY <1>0, <2>1, <2>2, <2>3, KeepEarned
<1>11. CASE Finish
    <2>1. /\ phase = "choose" /\ at > Len(Order) /\ phase' = "done"
          /\ result' = combine(verdicts)
          /\ UNCHANGED <<work, aborted, heard, verdicts, at, failClosed>>
        BY <1>11 DEF Finish
    <2>2. ASSUME result'.buyable
          PROVE  result'.complete /\ \A l \in Layers : Earned(l)
        <3> DEFINE n == Len(verdicts)
        <3>1. With(verdicts, "PASS") = DOMAIN verdicts /\ verdicts # << >>
            BY <2>1, <2>2 DEF combine
        <3>2. \A i \in DOMAIN verdicts : verdicts[i].outcome = "PASS"
            BY <3>1 DEF With
        <3>3. result'.complete
            BY <2>1, <3>1, <3>2 DEF combine, With
        <3>4. ~ decided
            <4>1. decided <=> n > 0 /\ Settles(n)
                BY <2>1 DEF AccountInv, Accounted
            <4>2. n > 0 => ~ Settles(n)
                BY <3>2, LoopShape DEF Settles, Decisive
            <4>. QED  BY <4>1, <4>2
        <3>5. n = Len(Order)
            <4>1. n + Len(skipped) = at - 1 /\ ~ Len(skipped) > 0
                BY <2>1, <3>4 DEF AccountInv, Accounted
            <4>2. n \in Nat /\ Len(skipped) \in Nat /\ at \in Nat /\ at <= Len(Order) + 1
                BY LoopShape
            <4>3. Len(Order) \in Nat
                BY OrderShape
            <4> HIDE DEF n
            <4>. QED  BY <2>1, <4>1, <4>2, <4>3
        <3>6. ASSUME NEW l \in Layers
              PROVE  Earned(l)
            <4>1. PICK j \in DOMAIN Order : l = Order[j]
                BY OrderShape
            <4>2. j \in DOMAIN verdicts
                BY <3>5, OrderShape, LoopShape
            <4>. QED  BY <2>1, <3>2, <4>1, <4>2 DEF EarnedInv
        <3>. QED  BY <3>3, <3>6
    <2>3. BuyableIsEarned'
        BY <2>1, <2>2 DEF BuyableIsEarned, Earned
    <2>. QED  BY <2>1, <2>3 DEF EarnedInv
<1>12. ASSUME NEW l \in Layers, NEW outcome \in Outcomes, Settle(l, outcome)
       PROVE  EarnedInv'
    <2>1. /\ work[l] = "busy" /\ work' = [work EXCEPT ![l] = outcome]
          /\ MayReturn(l, outcome) /\ aborted' = aborted /\ heard' = heard
        BY <1>12 DEF Settle
    <2>2. \A k \in Layers : Earned(k) => Earned(k)'
        BY <2>1, EarnedStays
    <2>3. CASE Running(l)
        <3>1. /\ Record(outcome) /\ phase = "running" /\ at <= Len(Order) /\ l = Order[at]
              /\ ~ decided /\ Accounted
            BY <1>6, <1>12, <2>3 DEF Settle, Running, AccountInv
        <3>2. ASSUME outcome = "PASS" PROVE Earned(l)'
            <4>1. l \notin aborted
                BY <3>1, OrderShape, LoopShape DEF EarnedInv
            <4>2. work'[l] = "PASS"
                BY <2>1, <3>2 DEF LoopInv, TypeOK
            <4>. QED  BY <2>1, <3>2, <4>1, <4>2, PassIsEarned DEF Earned
        <3>. QED  BY <2>1, <2>2, <3>1, <3>2, RecordEarned
    <2>4. CASE ~ Running(l)
        <3>1. UNCHANGED race
            BY <1>12, <2>4 DEF Settle
        <3>2. at' >= at
            BY <3>1 DEF race, LoopInv, TypeOK
        <3>. QED  BY <1>0, <2>1, <2>2, <3>1, <3>2, KeepEarned DEF race
    <2>. QED  BY <2>3, <2>4
<1>13. ASSUME UNCHANGED race, UNCHANGED aborted, work' = work,
              heard' = heard \/ \E k \in Layers, q \in Questions : Hear(k, q)
       PROVE  EarnedInv'
    <2>1. \A k \in Layers : Earned(k) => Earned(k)'
        BY <1>13, EarnedStays
    <2>2. at' >= at
        BY <1>13 DEF race, LoopInv, TypeOK
    <2>. QED  BY <1>0, <1>13, <2>1, <2>2, KeepEarned DEF race
<1>14. ASSUME NEW l \in Layers, NEW q \in Questions, Ask(l, q) \/ Hear(l, q)
       PROVE  EarnedInv'
    BY <1>13, <1>14 DEF Ask, Hear
<1>15. ASSUME NEW q \in Questions, NEW value \in {"ok", "failed"}, Answer(q, value)
       PROVE  EarnedInv'
    BY <1>13, <1>15 DEF Answer
<1>16. CASE PassTime \/ UNCHANGED gateVars
    BY <1>13, <1>16 DEF PassTime, gateVars
<1>. QED  BY <1>2, <1>3, <1>4, <1>7, <1>8, <1>9, <1>10, <1>11, <1>12, <1>14, <1>15,
             <1>16 DEF Next, Loop

LEMMA InitEarned == Init => EarnedInv
    BY DEF Init, EarnedInv, BuyableIsEarned

\* Whatever the layers, what they share, how late and in what order anything
\* settles: buyable means that every layer's own function passed, uncut, on what
\* it needs.
THEOREM BuyableEarned == Spec => []BuyableIsEarned
<1>1. EarnedInv => BuyableIsEarned
    BY DEF EarnedInv
<1>. QED  BY <1>1, InitLoop, StepLoop, InitAccount, StepAccount, InitCell, StepCell,
             InitEarned, StepEarned, PTL DEF Spec
=============================================================================
