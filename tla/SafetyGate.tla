------------------------------ MODULE SafetyGate ------------------------------
(***************************************************************************)
(* src/safety: one run of runGate over its layers.                         *)
(*                                                                         *)
(* The layers run one after the other, each in a race with a timer         *)
(* (gate-timeout.js) and with the caller's abort.  A layer that lost its   *)
(* race goes on in the background: it may ask questions and settle while   *)
(* later layers run, and nothing it does then may count.  The questions    *)
(* go through memo cells shared by the whole run (gate-context.js).        *)
(*                                                                         *)
(* A layer is its promise: it asks what it needs and what it only wants,   *)
(* throws when a needed answer is a failure, and passes only on the        *)
(* answers it has heard.  What it concludes from them is left open.        *)
(***************************************************************************)
EXTENDS Integers, Sequences, FiniteSets

CONSTANTS
    Order,     \* the layers of this run, LAYER_ORDER or RECHECK_LAYERS
    Questions, \* the fetchers of the gate context
    Needs,     \* layer -> questions whose failure is an ERROR of the layer
    Wants,     \* layer -> questions whose failure it takes as "unverified"
    Follows,   \* layer -> questions that an earlier answer may call for, whose
               \* failure is then an ERROR too
    PerLayer,  \* SAFETY.perLayerTimeoutMs, in clock ticks
    Total,     \* SAFETY.totalGateTimeoutMs
    MaxLate,   \* bound: how late the event loop runs a timer
    None

Layers == {Order[i] : i \in DOMAIN Order}
Asks(l) == Needs[l] \cup Wants[l] \cup Follows[l]

ASSUME GateAssumption ==
    /\ Order \in Seq(Layers)
    /\ \A i, j \in DOMAIN Order : i # j => Order[i] # Order[j]
    /\ \A l \in Layers : /\ Asks(l) \subseteq Questions
                         /\ (Needs[l] \cup Follows[l]) \cap Wants[l] = {}
    /\ PerLayer \in Nat \ {0} /\ Total \in Nat \ {0} /\ MaxLate \in Nat
    /\ None \notin Layers \cup [buyable : BOOLEAN, complete : BOOLEAN]

VARIABLES
    failClosed, \* SAFETY.failClosed
    phase,      \* "start", "choose" the next layer, "running" it, "done"
    at,         \* index of the layer it is about to run or running
    clock,      \* time since the run started
    due,        \* when the running layer's timer expires
    decided,    \* decidedBy # null
    verdicts,   \* the verdicts so far
    skipped,    \* the layers reported as skipped
    result,     \* buyable and complete of the GateResult, or None
    gone,       \* deps.signal is aborted
    work,       \* layer -> what its own promise did: "none", "busy", an outcome
    aborted,    \* the layers whose signal was aborted
    cell,       \* question -> its memo cell: "empty", "pending", "ok", "failed"
    calls,      \* question -> how often the network was asked
    heard       \* layer -> the answers it has consumed, by question

race == <<phase, at, due, decided, verdicts, skipped, result>>
gateVars == <<failClosed, race, clock, gone, work, aborted, cell, calls, heard>>

Outcomes == {"PASS", "REJECT", "ERROR"}

-----------------------------------------------------------------------------
(* verdict.js *)
Verdict(l, outcome, ran) == [layer |-> l, outcome |-> outcome, ran |-> ran]

With(vs, outcome) == {i \in DOMAIN vs : vs[i].outcome = outcome}

\* Mutant of combine: buyable is the negation of blocked.
combineNothingObjected(vs) ==
    [buyable |-> With(vs, "REJECT") = {} /\ (failClosed => With(vs, "ERROR") = {}),
     complete |-> vs # << >> /\ With(vs, "ERROR") = {}]

\* Buyable is a whitelist: nothing blocks it and every verdict is a PASS.  (An
\* unrecognised outcome never gets here: normaliseVerdict makes it an ERROR.)
combine(vs) ==
    LET blocked == With(vs, "REJECT") # {} \/ (failClosed /\ With(vs, "ERROR") # {})
    IN [buyable |-> ~ blocked /\ vs # << >> /\ With(vs, "PASS") = DOMAIN vs,
        complete |-> vs # << >> /\ With(vs, "ERROR") = {}]

Decisive(outcome) == outcome = "REJECT" \/ (outcome = "ERROR" /\ failClosed)

-----------------------------------------------------------------------------
Init ==
    /\ failClosed \in BOOLEAN
    /\ phase = "start" /\ at = 1 /\ clock = 0 /\ due = 0 /\ decided = FALSE
    /\ verdicts = << >> /\ skipped = << >> /\ result = None
    /\ gone \in BOOLEAN
    /\ work = [l \in Layers |-> "none"] /\ aborted = {}
    /\ cell = [q \in Questions |-> "empty"]
    /\ calls = [q \in Questions |-> 0]
    /\ heard = [l \in Layers |-> << >>]

background == <<work, aborted, cell, calls, heard>>

\* The arguments are fine: on to the first layer.
Begin ==
    /\ phase = "start" /\ phase' = "choose"
    /\ UNCHANGED <<failClosed, at, due, decided, verdicts, skipped, result,
                   clock, gone, background>>

\* preflightFailure: a bad mint, order or override is one ERROR verdict of the
\* gate itself, with every layer skipped.
Preflight ==
    /\ phase = "start" /\ phase' = "done"
    /\ verdicts' = <<Verdict("gate", "ERROR", FALSE)>>
    /\ skipped' = Order
    /\ result' = combine(verdicts')
    /\ UNCHANGED <<failClosed, at, due, decided, clock, gone, background>>

\* The current layer's verdict is in, and the loop goes on to the next one.
Record(outcome) ==
    /\ verdicts' = Append(verdicts, Verdict(Order[at], outcome, TRUE))
    /\ decided' = Decisive(outcome)
    /\ phase' = "choose"
    /\ at' = at + 1
    /\ UNCHANGED <<due, skipped, result>>

\* The gate is decided: the layer is skipped, and never run.
SkipLayer ==
    /\ phase = "choose" /\ at <= Len(Order)
    /\ decided
    /\ skipped' = Append(skipped, Order[at])
    /\ at' = at + 1
    /\ UNCHANGED <<failClosed, phase, due, decided, verdicts, result, clock,
                   gone, background>>

Remaining == Total - clock

\* Mutant of BudgetGone: the exhausted budget decides the gate like an ERROR.
BudgetGoneDecides ==
    /\ phase = "choose" /\ at <= Len(Order)
    /\ ~ decided /\ Remaining <= 0
    /\ verdicts' = Append(verdicts, Verdict(Order[at], "ERROR", FALSE))
    /\ decided' = failClosed
    /\ at' = at + 1
    /\ UNCHANGED <<failClosed, phase, due, skipped, result, clock, gone,
                   background>>

\* The budget of the whole gate is gone: an ERROR that decides nothing.
BudgetGone ==
    /\ phase = "choose" /\ at <= Len(Order)
    /\ ~ decided /\ Remaining <= 0
    /\ verdicts' = Append(verdicts, Verdict(Order[at], "ERROR", FALSE))
    /\ at' = at + 1
    /\ UNCHANGED <<failClosed, phase, due, decided, skipped, result, clock, gone,
                   background>>

\* withTimeout refuses to start a layer whose caller has already aborted.
RefuseLayer ==
    /\ phase = "choose" /\ at <= Len(Order)
    /\ ~ decided /\ Remaining > 0 /\ gone
    /\ Record("ERROR")
    /\ UNCHANGED <<failClosed, clock, gone, background>>

\* Mutant of Deadline: a layer always has its own budget.
DeadlineOfItsOwn == clock + PerLayer

\* A layer may never outlive the gate: the smaller budget wins.
Deadline == clock + (IF PerLayer <= Remaining THEN PerLayer ELSE Remaining)

\* runLayer: start the layer's function and its timer.
StartLayer ==
    /\ phase = "choose" /\ at <= Len(Order)
    /\ ~ decided /\ Remaining > 0 /\ ~ gone
    /\ phase' = "running"
    /\ due' = Deadline
    /\ work' = [work EXCEPT ![Order[at]] = "busy"]
    /\ UNCHANGED <<failClosed, at, decided, verdicts, skipped, result, clock,
                   gone, aborted, cell, calls, heard>>

\* Every layer has been dealt with: combine the verdicts.
Finish ==
    /\ phase = "choose" /\ at > Len(Order)
    /\ result' = combine(verdicts)
    /\ phase' = "done"
    /\ UNCHANGED <<failClosed, at, due, decided, verdicts, skipped, clock, gone,
                   background>>

-----------------------------------------------------------------------------
(* The race. *)
Running(l) == phase = "running" /\ at <= Len(Order) /\ Order[at] = l

\* Mutant of TimerFires: it only aborts the signal, and waits for the layer to
\* notice.
TimerWaitsForLayer ==
    /\ phase = "running" /\ clock >= due
    /\ work[Order[at]] # "busy"
    /\ aborted' = aborted \cup {Order[at]}
    /\ Record("ERROR")
    /\ UNCHANGED <<failClosed, clock, gone, work, cell, calls, heard>>

\* The running layer's timer fires: its signal is aborted, its verdict is ERROR.
TimerFires ==
    /\ phase = "running" /\ clock >= due
    /\ aborted' = aborted \cup {Order[at]}
    /\ Record("ERROR")
    /\ UNCHANGED <<failClosed, clock, gone, work, cell, calls, heard>>

\* The caller aborts the run, in which at most one layer listens.
CallerAborts ==
    /\ phase \in {"choose", "running"} /\ ~ gone
    /\ gone' = TRUE
    /\ IF phase = "running"
       THEN Record("ERROR") /\ aborted' = aborted \cup {Order[at]}
       ELSE UNCHANGED <<race, aborted>>
    /\ UNCHANGED <<failClosed, clock, work, cell, calls, heard>>

\* What a layer's function may return, given the answers it has heard.  ERROR
\* stands for a throw, a verdict normaliseVerdict refuses, and errored().
MayReturn(l, outcome) ==
    LET got == heard[l]
        lost == {q \in DOMAIN got \ Wants[l] : got[q] = "failed"}
    IN CASE outcome = "PASS" -> Needs[l] \cup Wants[l] \subseteq DOMAIN got /\ lost = {}
         [] outcome = "REJECT" -> DOMAIN got # {} /\ lost = {}
         [] OTHER -> TRUE

\* A layer's promise settles.  The running layer wins its race if no timer or
\* abort came first, however late the clock; any other layer is too late.
Settle(l, outcome) ==
    /\ work[l] = "busy"
    /\ MayReturn(l, outcome)
    /\ work' = [work EXCEPT ![l] = outcome]
    /\ IF Running(l) THEN Record(outcome) ELSE UNCHANGED race
    /\ UNCHANGED <<failClosed, clock, gone, aborted, cell, calls, heard>>

-----------------------------------------------------------------------------
(* gate-context.js *)

\* memoCell.get calls the network only if nothing was asked before.
Fetchable(q) == cell[q] = "empty"

Ask(l, q) ==
    /\ work[l] = "busy" /\ q \in Asks(l) \ DOMAIN heard[l]
    /\ Fetchable(q)
    /\ cell' = [cell EXCEPT ![q] = "pending"]
    /\ calls' = [calls EXCEPT ![q] = @ + 1]
    /\ UNCHANGED <<failClosed, race, clock, gone, work, aborted, heard>>

\* The network answers or fails, also because the signal it was given, that of
\* the layer that asked first, was aborted.
Answer(q, value) ==
    /\ cell[q] = "pending"
    /\ cell' = [cell EXCEPT ![q] = value]
    /\ UNCHANGED <<failClosed, race, clock, gone, work, aborted, calls, heard>>

\* The layer awaits the cell and goes on with what is in it.
Hear(l, q) ==
    /\ work[l] = "busy" /\ q \in Asks(l) \ DOMAIN heard[l]
    /\ cell[q] \in {"ok", "failed"}
    /\ heard' = [heard EXCEPT ![l] =
                    [r \in DOMAIN @ \cup {q} |-> IF r = q THEN cell[q] ELSE @[r]]]
    /\ UNCHANGED <<failClosed, race, clock, gone, work, aborted, cell, calls>>

\* Time passes while a layer runs; a timer fires at most MaxLate after it is due.
PassTime ==
    /\ phase = "running" /\ clock < due + MaxLate
    /\ clock' = clock + 1
    /\ UNCHANGED <<failClosed, race, gone, background>>

Loop == Begin \/ Preflight \/ SkipLayer \/ BudgetGone \/ RefuseLayer
          \/ StartLayer \/ Finish

Next ==
    \/ Loop
    \/ TimerFires \/ CallerAborts
    \/ \E l \in Layers, outcome \in Outcomes : Settle(l, outcome)
    \/ \E l \in Layers, q \in Questions : Ask(l, q) \/ Hear(l, q)
    \/ \E q \in Questions, value \in {"ok", "failed"} : Answer(q, value)
    \/ PassTime

\* Fairness: the loop's own synchronous code runs, the clock advances, and a
\* timer that is due fires.  Nothing is assumed of the layers or the network.
Spec == Init /\ [][Next]_gateVars
             /\ WF_gateVars(Loop) /\ WF_gateVars(TimerFires) /\ WF_gateVars(PassTime)

-----------------------------------------------------------------------------
\* The loop's bookkeeping: only the running layer can be the current one of a
\* race, its function is at work or has just settled, and a result exists
\* exactly at the end.
TypeOK ==
    /\ phase \in {"start", "choose", "running", "done"}
    /\ at \in 1..(Len(Order) + 1)
    /\ clock \in Nat /\ due \in Nat
    /\ work \in [Layers -> {"none", "busy"} \cup Outcomes]
    /\ cell \in [Questions -> {"empty", "pending", "ok", "failed"}]
    /\ phase = "running" => work[Order[at]] = "busy" /\ ~ gone
    /\ (phase = "done") = (result # None)

\* "Every layer in the requested order RAN TO COMPLETION ... and returned PASS"
\* (index.js:5): a buyable result means that every layer's own function passed,
\* uncut, on an answer to every question it needs or went on to ask, whatever
\* timed-out layers, shared failures and late settlements happened on the way,
\* and with failClosed off as well.
BuyableIsEarned ==
    phase = "done" /\ result.buyable =>
        /\ result.complete
        /\ \A l \in Layers : /\ work[l] = "PASS"
                             /\ l \notin aborted
                             /\ \A q \in Needs[l] : heard[l][q] = "ok"
                             /\ \A q \in Follows[l] \cap DOMAIN heard[l] :
                                  heard[l][q] = "ok"

\* "A skipped layer is reported as skipped, never as a pass", and a budget that
\* ran out is "a different fact" from a decided gate (index.js:14-30): verdicts
\* and skipped layers split the order, only a layer that was tried can decide
\* the gate, and what is skipped is what comes after it and was "never paid for"
\* (index.js:20): at no time after a decision is a later layer's function started.
EveryLayerAccountedFor ==
    /\ phase = "done" /\ verdicts[1].layer # "gate" =>
         LET n == Len(verdicts)
         IN /\ [i \in 1..n |-> verdicts[i].layer] \o skipped = Order
            /\ \A i \in 1..(n - 1) : ~ (verdicts[i].ran /\ Decisive(verdicts[i].outcome))
            /\ skipped # << >> => verdicts[n].ran /\ Decisive(verdicts[n].outcome)
    /\ \A i \in DOMAIN verdicts : verdicts[i].ran /\ Decisive(verdicts[i].outcome) =>
         \A j \in (i + 1)..Len(Order) : work[Order[j]] = "none"

\* "one question, one answer, per run" (gate-context.js:104-108), rejections
\* included: layers that share a question hear the same, from one call, also
\* when the first of them was cut off while the call was in flight.
OneAnswerPerQuestion ==
    /\ \A q \in Questions : calls[q] <= 1
    /\ \A l, k \in Layers : \A q \in DOMAIN heard[l] \cap DOMAIN heard[k] :
         heard[l][q] = heard[k][q]

\* "A layer may never outlive the gate" (index.js:149): the answer comes within
\* the budget of the whole gate and the lateness of one timer, not of each.
GateWithinBudget == phase = "done" => clock <= Total + MaxLate

\* "A slow layer can therefore never hang the gate" (gate-timeout.js:56): with
\* layers and a network that may never answer, there is always a result.
GateAnswers == <>(phase = "done")
=============================================================================
