----------------------------- MODULE EngineProofs -----------------------------
(***************************************************************************)
(* Theorems of Engine and Bot, for every strategy percentage, size, price  *)
(* set and number of mints, for ticks without end (MaxTime is any natural) *)
(* and for every number of crashes.                                        *)
(*                                                                         *)
(* What a restart finds on disk is proved while the day's file can be read *)
(* (~ Unreadable).  Without that SpendNeverForgotten is false: an          *)
(* unreadable file looks like no file, and the next book line starts the   *)
(* spend again from zero.                                                  *)
(***************************************************************************)
EXTENDS Bot, LedgerProofs

-----------------------------------------------------------------------------
(* The exit rules. *)

Fractions3 == {Whole, LadderOne, LadderTwo}

LEMMA FirstOfSix ==
    ASSUME NEW S, S \subseteq 1..6, S # {}
    PROVE  \E i \in S : \A j \in S : i <= j
<1>1. CASE 1 \in S
    BY <1>1
<1>2. CASE 1 \notin S /\ 2 \in S
    BY <1>2
<1>3. CASE 1 \notin S /\ 2 \notin S /\ 3 \in S
    BY <1>3
<1>4. CASE 1 \notin S /\ 2 \notin S /\ 3 \notin S /\ 4 \in S
    BY <1>4
<1>5. CASE 1 \notin S /\ 2 \notin S /\ 3 \notin S /\ 4 \notin S /\ 5 \in S
    BY <1>5
<1>6. CASE 1 \notin S /\ 2 \notin S /\ 3 \notin S /\ 4 \notin S /\ 5 \notin S
    <2>1. S \subseteq {6}
        BY <1>6
    <2>2. \A j \in S : j = 6
        BY <2>1
    <2>3. \E j \in S : j = 6
        BY <2>2
    <2>. QED  BY <2>2, <2>3
<1>. QED  BY <1>1, <1>2, <1>3, <1>4, <1>5, <1>6

LEMMA RulesShape ==
    ASSUME NEW pos, NEW x, NEW peak, NEW ts
    PROVE  /\ DOMAIN ExitRules(pos, x, peak, ts) = 1..6
           /\ \A i \in 1..6 : ExitRules(pos, x, peak, ts)[i].fraction \in Fractions3
<1> DEFINE rules == ExitRules(pos, x, peak, ts)
<1>1. DOMAIN rules = 1..6
    BY DEF ExitRules
<1>2. /\ rules[1] = Rule(StopHit(pos, x), Whole)
      /\ rules[2] = Rule(RungDue(pos, x, 0, LadderOnePct), LadderOne)
      /\ rules[3] = Rule(RungDue(pos, x, 1, LadderTwoPct), LadderTwo)
      /\ rules[4] = Rule(AtFloor(pos, x, peak), Whole)
      /\ rules[5] = Rule(OffTrail(pos, x, peak), Whole)
      /\ rules[6] = Rule(TimeUp(pos, ts), Whole)
    BY DEF ExitRules
<1>3. \A cond, fraction : Rule(cond, fraction).fraction = fraction
    BY DEF Rule
<1> HIDE DEF rules
<1>4. /\ rules[1].fraction = Whole /\ rules[2].fraction = LadderOne
      /\ rules[3].fraction = LadderTwo /\ rules[4].fraction = Whole
      /\ rules[5].fraction = Whole /\ rules[6].fraction = Whole
    BY <1>2, <1>3
<1>5. ASSUME NEW i \in 1..6
      PROVE  rules[i].fraction \in Fractions3
    <2>1. i = 1 \/ i = 2 \/ i = 3 \/ i = 4 \/ i = 5 \/ i = 6
        OBVIOUS
    <2>. QED  BY <1>4, <2>1 DEF Fractions3
<1>. QED  BY <1>1, <1>5 DEF rules

\* Whatever decideExit says, it sells all of the position or a ladder rung.
LEMMA VerdictFraction ==
    ASSUME NEW pos, NEW x, NEW peak, NEW ts
    PROVE  decideExit(pos, x, peak, ts).fraction \in Fractions3
<1> DEFINE rules == ExitRules(pos, x, peak, ts)
           fired == {i \in DOMAIN rules : rules[i].when}
           first == CHOOSE i \in fired : \A j \in fired : i <= j
<1>1. fired \subseteq 1..6
    BY RulesShape
<1>2. CASE fired = {}
    BY <1>2 DEF decideExit, NoExit, Rule, Fractions3
<1>3. CASE fired # {}
    <2>1. \E i \in fired : \A j \in fired : i <= j
        BY <1>1, <1>3, FirstOfSix
    <2>2. first \in fired
        BY <2>1
    <2>3. rules[first].fraction \in Fractions3
        BY <1>1, <2>2, RulesShape
    <2>4. decideExit(pos, x, peak, ts) = rules[first]
        BY <1>3 DEF decideExit
    <2>. QED  BY <2>3, <2>4
<1>. QED  BY <1>2, <1>3

LEMMA FractionType ==
    ASSUME NEW f \in Fractions3
    PROVE  f[1] \in Nat /\ f[2] \in Nat \ {0}
    BY DEF Fractions3, Whole, LadderOne, LadderTwo

-----------------------------------------------------------------------------
(* The steps. *)

LEMMA ExitCostType ==
    ASSUME TypeOK, NEW m \in todo
    PROVE  ExitCosts(draft.positions[m]) \subseteq Int
<1>1. draft.positions[m] \in PositionType
    BY DEF TypeOK, BookOK
<1>2. draft.positions[m].entryCostUsd \in Int
    BY <1>1 DEF PositionType
<1>3. \A legs \in LegCosts : legs[2] \in Int
    BY EngineAssumption
<1>. QED  BY <1>2, <1>3 DEF ExitCosts

\* What EngineNext can do, each case with the types of its parameters.
LEMMA StepCases ==
    ASSUME TypeOK, [EngineNext]_engineVars
    PROVE  \/ \E prices \in SomePrices : BeginTick(now + 1, prices)
           \/ \E m \in todo : Hold(m)
           \/ \E m \in todo : \E cost \in Int : CloseOut(m, cost)
           \/ \E m \in todo : \E cost \in Int : ScaleOut(m, cost)
           \/ KillSwitch
           \/ SwitchClear
           \/ \E m \in Mints, legs \in LegCosts : Enter(m, legs)
           \/ EndTick
           \/ ThrowInTick
           \/ UNCHANGED engineVars
<1>1. CASE Exit
    <2>1. PICK m \in todo :
             Hold(m) \/ \E cost \in ExitCosts(draft.positions[m]) :
                           CloseOut(m, cost) \/ ScaleOut(m, cost)
        BY <1>1 DEF Exit
    <2>2. ExitCosts(draft.positions[m]) \subseteq Int
        BY ExitCostType
    <2>. QED  BY <2>1, <2>2
<1>2. CASE Tick
    BY <1>2 DEF Tick
<1>. QED  BY <1>1, <1>2 DEF EngineNext

\* The fields of a sale, in the terms of the actions that make it.
LEMMA CloseOutBook ==
    ASSUME TypeOK, NEW m \in todo, NEW cost \in Int, CloseOut(m, cost)
    PROVE  /\ BookOK(draft')
           /\ Held(draft') = Held(draft) \ {m}
           /\ \A k \in Held(draft') : draft'.positions[k] = draft.positions[k]
<1>1. /\ m \in Held(draft) /\ BookOK(draft) /\ now \in Nat
      /\ price[m] \in Nat \ {0} /\ cost \in Nat
    <2>1. m \in DOMAIN price /\ cost >= 0
        BY Zenon DEF CloseOut, CanSell
    <2>2. price[m] \in Nat \ {0}
        BY <2>1, EngineAssumption DEF TypeOK
    <2>. QED  BY <2>1, <2>2 DEF TypeOK
<1>2. draft' = closePosition(draft, m, price[m], now, cost)
    BY DEF CloseOut
<1>3. BookOK(draft')
    BY <1>1, <1>2, CloseBook
<1>4. draft'.positions = Drop(draft.positions, m)
    BY <1>1, <1>2, BookNumbers, RealiseFields DEF closePosition
<1>5. /\ DOMAIN draft'.positions = DOMAIN draft.positions \ {m}
      /\ \A k \in DOMAIN draft.positions \ {m} :
            draft'.positions[k] = draft.positions[k]
    BY <1>4, Zenon DEF Drop
<1>. QED  BY <1>3, <1>5 DEF Held

LEMMA ScaleOutBook ==
    ASSUME TypeOK, NEW m \in todo, NEW cost \in Int, ScaleOut(m, cost)
    PROVE  /\ BookOK(draft')
           /\ Held(draft') = Held(draft)
           /\ draft'.positions[m].entryPriceUsd = draft.positions[m].entryPriceUsd
           /\ draft'.positions[m].lastPriceUsd = price[m]
           /\ \A k \in Held(draft) \ {m} :
                 draft'.positions[k] = draft.positions[k]
<1> DEFINE verdict == decideExit(draft.positions[m], price[m], high[m], now)
           num == verdict.fraction[1]
           den == verdict.fraction[2]
           share == Share(cost, verdict.fraction)
           slice == PartSlice(draft.positions[m], num, den)
           rest == Remainder(draft.positions[m], slice, price[m])
<1>1. num \in Nat /\ den \in Nat \ {0}
    BY VerdictFraction, FractionType
<1>2. share \in Int
    <2>1. cost * num \in Int
        BY <1>1
    <2>. QED  BY <1>1, <2>1 DEF Share
<1>3. /\ m \in Held(draft) /\ BookOK(draft) /\ now \in Nat
      /\ price[m] \in Nat \ {0} /\ share >= 0
    BY EngineAssumption DEF TypeOK, ScaleOut, CanSell
<1>4. draft' = reducePosition(draft, m, num, den, price[m], now, share)
    BY DEF ScaleOut
<1> HIDE DEF verdict, num, den, share
<1>5. BookOK(draft')
    BY <1>1, <1>2, <1>3, <1>4, ReduceBook
<1>6. draft'.positions = Put(draft.positions, m, rest)
    BY <1>3, <1>4, BookNumbers, RealiseFields DEF reducePosition
<1> HIDE DEF rest
<1>7. /\ DOMAIN draft'.positions = DOMAIN draft.positions \cup {m}
      /\ draft'.positions[m] = rest
      /\ \A k \in DOMAIN draft.positions \ {m} :
            draft'.positions[k] = draft.positions[k]
    BY <1>6, Zenon DEF Put
<1>8. /\ rest.entryPriceUsd = draft.positions[m].entryPriceUsd
      /\ rest.lastPriceUsd = price[m]
    <2>1. draft.positions[m] \in PositionType
        BY <1>3 DEF BookOK
    <2>2. DOMAIN draft.positions[m] =
             {"sizeUsd", "entryPriceUsd", "qty", "openedTs", "entryCostUsd",
              "lastPriceUsd", "unrealisedPnlUsd", "scaleOutCount"}
        BY <2>1 DEF PositionType
    <2>. QED  BY <2>2, Zenon DEF rest, Remainder, Marked
<1>. QED  BY <1>3, <1>5, <1>7, <1>8 DEF Held

\* The buy of an entry.
LEMMA EnterBook ==
    ASSUME TypeOK, NEW m \in Mints, NEW legs \in LegCosts, Enter(m, legs)
    PROVE  /\ BookOK(draft') /\ Usable(draft')
           /\ Held(draft') = Held(draft) \cup {m}
           /\ draft'.positions[m].entryPriceUsd = price[m]
           /\ draft'.positions[m].lastPriceUsd = price[m]
           /\ \A k \in Held(draft) : draft'.positions[k] = draft.positions[k]
<1> DEFINE cost == EntryCharge(legs)
<1>1. /\ BookOK(draft) /\ now \in Nat /\ cost \in Nat
      /\ PositionSize \in Nat \ {0} /\ price[m] \in Nat \ {0}
    BY EngineAssumption DEF TypeOK, Enter, EntryCharge
<1>2. draft' = openPosition(draft, m, PositionSize, price[m], now, cost)
    BY DEF Enter
<1>3. BookOK(draft')
    BY <1>1, <1>2, OpenBook
<1>4. /\ m \notin Held(draft)
      /\ PositionSize + cost <= draft.cashUsd
    BY DEF Enter, CanOpen
<1> HIDE DEF cost
<1>5. /\ Held(draft') = Held(draft) \cup {m}
      /\ \A k \in Held(draft) \cup {m} :
            draft'.positions[k] = IF k = m
                                  THEN NewPosition(PositionSize, price[m], now, cost)
                                  ELSE draft.positions[k]
      /\ draft'.cashUsd = draft.cashUsd - (PositionSize + cost)
      /\ draft'.grossSpentUsd = draft.grossSpentUsd + (PositionSize + cost)
    BY <1>1, <1>2, BookNumbers, OpenFields
<1>6. Usable(draft')
    BY <1>1, <1>4, <1>5, BookNumbers DEF Usable
<1>7. draft'.positions[m] = NewPosition(PositionSize, price[m], now, cost)
    BY <1>5
<1>8. /\ draft'.positions[m].entryPriceUsd = price[m]
      /\ draft'.positions[m].lastPriceUsd = price[m]
    BY <1>7 DEF NewPosition
<1>9. \A k \in Held(draft) : draft'.positions[k] = draft.positions[k]
    BY <1>4, <1>5
<1>. QED  BY <1>3, <1>5, <1>6, <1>8, <1>9

\* The marks of a tick, and what the book holds after them.
LEMMA BeginTickBook ==
    ASSUME TypeOK, NEW prices \in SomePrices, BeginTick(now + 1, prices)
    PROVE  /\ DOMAIN prices \subseteq Mints
           /\ \A m \in DOMAIN prices : prices[m] \in Prices
           /\ BookOK(draft')
           /\ Held(draft') = Held(book)
           /\ \A m \in Held(book) :
                 /\ draft'.positions[m].entryPriceUsd = book.positions[m].entryPriceUsd
                 /\ m \in DOMAIN prices =>
                      draft'.positions[m].lastPriceUsd = prices[m]
                 /\ m \notin DOMAIN prices =>
                      draft'.positions[m] = book.positions[m]
<1> DEFINE marks == MarksOf(book, prices)
<1>1. /\ DOMAIN prices \subseteq Mints
      /\ \A m \in DOMAIN prices : prices[m] \in Prices
    BY DEF SomePrices
<1>2. /\ DOMAIN marks = Held(book) \cap DOMAIN prices
      /\ \A m \in DOMAIN marks : marks[m] = prices[m]
    BY Zenon DEF MarksOf
<1>3. \A m \in DOMAIN marks : marks[m] \in Nat \ {0}
    BY <1>1, <1>2, EngineAssumption
<1>4. BookOK(book) /\ DOMAIN book = BookFields
    BY BookNumbers DEF TypeOK
<1>5. CASE marks = << >>
    <2>1. draft' = book
        BY <1>5 DEF BeginTick
    <2>2. Held(book) \cap DOMAIN prices = {}
        BY <1>2, <1>5
    <2>. QED  BY <1>1, <1>4, <2>1, <2>2
<1>6. CASE marks # << >>
    <2>1. draft' = markPositions(book, marks)
        BY <1>6 DEF BeginTick
    <2> HIDE DEF marks
    <2>2. BookOK(draft')
        BY <1>3, <1>4, <2>1, MarkBook
    <2>3. /\ Held(draft') = Held(book)
          /\ \A m \in Held(book) :
                draft'.positions[m] = IF m \in DOMAIN marks
                                      THEN Marked(book.positions[m], marks[m])
                                      ELSE book.positions[m]
        BY <1>4, <2>1, MarkFields
    <2>4. ASSUME NEW m \in Held(book)
          PROVE  /\ draft'.positions[m].entryPriceUsd = book.positions[m].entryPriceUsd
                 /\ m \in DOMAIN prices =>
                      draft'.positions[m].lastPriceUsd = prices[m]
                 /\ m \notin DOMAIN prices =>
                      draft'.positions[m] = book.positions[m]
        <3>1. DOMAIN book.positions[m] =
                 {"sizeUsd", "entryPriceUsd", "qty", "openedTs", "entryCostUsd",
                  "lastPriceUsd", "unrealisedPnlUsd", "scaleOutCount"}
            BY <1>4 DEF BookOK, PositionType
        <3>2. /\ Marked(book.positions[m], marks[m]).entryPriceUsd
                   = book.positions[m].entryPriceUsd
              /\ Marked(book.positions[m], marks[m]).lastPriceUsd = marks[m]
            BY <3>1, Zenon DEF Marked
        <3>3. CASE m \in DOMAIN marks
            BY <1>2, <2>3, <3>2, <3>3
        <3>4. CASE m \notin DOMAIN marks
            BY <1>2, <2>3, <3>4
        <3>. QED  BY <3>3, <3>4
    <2>. QED  BY <1>1, <2>2, <2>3, <2>4
<1>. QED  BY <1>5, <1>6

-----------------------------------------------------------------------------
(* Type correctness. *)

LEMMA TypeInit == Init => TypeOK
    BY EmptyBook DEF Init, TypeOK

LEMMA TypeStep == TypeOK /\ [EngineNext]_engineVars => TypeOK'
<1> SUFFICES ASSUME TypeOK, [EngineNext]_engineVars
             PROVE  TypeOK'
    OBVIOUS
<1>1. ASSUME NEW prices \in SomePrices, BeginTick(now + 1, prices)
      PROVE  TypeOK'
    BY <1>1, BeginTickBook DEF BeginTick, committed, TypeOK
<1>2. ASSUME NEW m \in todo, Hold(m)
      PROVE  TypeOK'
    BY <1>2 DEF Hold, committed, TypeOK
<1>3. ASSUME NEW m \in todo, NEW cost \in Int, CloseOut(m, cost)
      PROVE  TypeOK'
    <2>1. BookOK(draft') /\ Held(draft') = Held(draft) \ {m}
        BY <1>3, CloseOutBook
    <2>2. /\ pc = "exits" /\ todo' = todo \ {m}
          /\ UNCHANGED <<committed, now, pc, price>>
        BY <1>3, Zenon DEF CloseOut
    <2>. QED  BY <2>1, <2>2 DEF committed, TypeOK
<1>4. ASSUME NEW m \in todo, NEW cost \in Int, ScaleOut(m, cost)
      PROVE  TypeOK'
    <2>1. BookOK(draft') /\ Held(draft') = Held(draft)
        BY <1>4, ScaleOutBook
    <2>2. /\ pc = "exits" /\ todo' = todo \ {m}
          /\ UNCHANGED <<committed, now, pc, price>>
        BY <1>4, Zenon DEF ScaleOut
    <2>. QED  BY <2>1, <2>2 DEF committed, TypeOK
<1>5. CASE KillSwitch
    BY <1>5 DEF KillSwitch, Commit, TypeOK
<1>6. CASE SwitchClear
    BY <1>6 DEF SwitchClear, committed, local, TypeOK
<1>7. ASSUME NEW m \in Mints, NEW legs \in LegCosts, Enter(m, legs)
      PROVE  TypeOK'
    <2>1. BookOK(draft') /\ Usable(draft') /\ Held(draft') = Held(draft) \cup {m}
        BY <1>7, EnterBook
    <2>. QED  BY <1>7, <2>1 DEF Enter, committed, TypeOK
<1>8. CASE EndTick
    BY <1>8 DEF EndTick, Commit, TypeOK
<1>9. CASE ThrowInTick
    BY <1>9 DEF ThrowInTick, committed, TypeOK
<1>10. CASE UNCHANGED engineVars
    BY <1>10 DEF engineVars, TypeOK, Usable
<1>. QED
    BY <1>1, <1>2, <1>3, <1>4, <1>5, <1>6, <1>7, <1>8, <1>9, <1>10, StepCases

\* Whatever prices a tick sees, and wherever a throw cuts it off, the engine
\* keeps two well-formed books and never takes a half-decided one to its end.
THEOREM EngineTypeCorrect == Spec => []TypeOK
    BY TypeInit, TypeStep, PTL DEF Spec, Next

-----------------------------------------------------------------------------
(* The committed book is usable. *)

UsableInv == TypeOK /\ CommittedBookUsable

LEMMA UsableStep == UsableInv /\ [EngineNext]_engineVars => UsableInv'
<1> SUFFICES ASSUME UsableInv, [EngineNext]_engineVars
             PROVE  CommittedBookUsable'
    BY TypeStep DEF UsableInv
<1>1. CASE UNCHANGED book
    BY <1>1 DEF UsableInv, CommittedBookUsable
<1>2. CASE KillSwitch
    BY <1>2 DEF KillSwitch, Commit, Usable, CommittedBookUsable
<1>3. CASE EndTick
    BY <1>3 DEF EndTick, Commit, Usable, CommittedBookUsable, UsableInv, TypeOK
<1>4. UNCHANGED book \/ KillSwitch \/ EndTick
    BY StepCases, Zenon
       DEF UsableInv, BeginTick, Hold, CloseOut, ScaleOut, SwitchClear, Enter,
           ThrowInTick, committed, engineVars
<1>. QED  BY <1>1, <1>2, <1>3, <1>4

\* However deep a rug and however dear the exit, the book the caller gets back
\* passes assertPortfolio: a sale that overdraws the cash makes the tick throw,
\* at the kill switch's own assertion at the latest.
THEOREM CommittedStaysUsable == Spec => []CommittedBookUsable
<1>1. Init => UsableInv
    BY TypeInit, EmptyFields, BookSizeAssumption DEF Init, UsableInv, CommittedBookUsable
<1>2. UsableInv => CommittedBookUsable
    BY DEF UsableInv
<1>. QED  BY <1>1, <1>2, UsableStep, PTL DEF Spec, Next

-----------------------------------------------------------------------------
(* The high-water marks. *)

PeaksOf(b, h) ==
    /\ DOMAIN h = Held(b)
    /\ \A m \in Held(b) : /\ h[m] \in Nat
                          /\ h[m] >= b.positions[m].entryPriceUsd
                          /\ h[m] >= b.positions[m].lastPriceUsd

\* The local marks follow the local book, and an undecided position that has a
\* price was marked at it.
PeaksInv ==
    /\ TypeOK
    /\ PeaksOf(book, peaks)
    /\ pc # "idle" => PeaksOf(draft, high)
    /\ \A m \in todo \cap DOMAIN price : draft.positions[m].lastPriceUsd = price[m]

LEMMA PositionPrices ==
    ASSUME NEW b, BookOK(b), NEW m \in Held(b)
    PROVE  /\ b.positions[m].entryPriceUsd \in Nat \ {0}
           /\ b.positions[m].lastPriceUsd \in Nat \ {0}
    BY DEF BookOK, PositionType

LEMMA RaisedPeaks ==
    ASSUME NEW b, BookOK(b), NEW old, DOMAIN old = Held(b),
           \A m \in Held(b) : old[m] \in Nat /\ old[m] >= b.positions[m].entryPriceUsd
    PROVE  /\ PeaksOf(b, Raised(b, old))
           /\ \A m \in Held(b) :
                 old[m] >= b.positions[m].lastPriceUsd => Raised(b, old)[m] = old[m]
<1>1. DOMAIN Raised(b, old) = Held(b)
    BY DEF Raised
<1>2. ASSUME NEW m \in Held(b)
      PROVE  Raised(b, old)[m] = MaxOf(old[m], b.positions[m].lastPriceUsd)
    BY DEF Raised
<1>3. ASSUME NEW m \in Held(b)
      PROVE  /\ Raised(b, old)[m] \in Nat
             /\ Raised(b, old)[m] >= b.positions[m].entryPriceUsd
             /\ Raised(b, old)[m] >= b.positions[m].lastPriceUsd
             /\ old[m] >= b.positions[m].lastPriceUsd => Raised(b, old)[m] = old[m]
    <2>1. /\ b.positions[m].entryPriceUsd \in Nat
          /\ b.positions[m].lastPriceUsd \in Nat
          /\ old[m] \in Nat /\ old[m] >= b.positions[m].entryPriceUsd
        BY PositionPrices
    <2>. QED  BY <1>2, <2>1 DEF MaxOf
<1>. QED  BY <1>1, <1>3 DEF PeaksOf

LEMMA PeaksStep == PeaksInv /\ [EngineNext]_engineVars => PeaksInv'
<1> DEFINE Marked_(t, d, p) ==
               \A m \in t \cap DOMAIN p : d.positions[m].lastPriceUsd = p[m]
<1> SUFFICES ASSUME PeaksInv, [EngineNext]_engineVars
             PROVE  /\ PeaksOf(book', peaks')
                    /\ pc' # "idle" => PeaksOf(draft', high')
                    /\ Marked_(todo', draft', price')
    BY TypeStep DEF PeaksInv, PeaksOf
<1>0. /\ TypeOK /\ PeaksOf(book, peaks)
      /\ pc # "idle" => PeaksOf(draft, high)
      /\ Marked_(todo, draft, price)
    BY DEF PeaksInv
<1>1. ASSUME NEW prices \in SomePrices, BeginTick(now + 1, prices)
      PROVE  /\ PeaksOf(book', peaks')
             /\ pc' # "idle" => PeaksOf(draft', high')
             /\ Marked_(todo', draft', price')
    <2>1. /\ BookOK(draft') /\ Held(draft') = Held(book)
          /\ \A m \in Held(book) :
                /\ draft'.positions[m].entryPriceUsd = book.positions[m].entryPriceUsd
                /\ m \in DOMAIN prices =>
                     draft'.positions[m].lastPriceUsd = prices[m]
        BY <1>0, <1>1, BeginTickBook
    <2>2. /\ high' = Raised(draft', peaks) /\ todo' = Held(book) /\ price' = prices
          /\ book' = book /\ peaks' = peaks
        BY <1>1, Zenon DEF BeginTick, committed
    <2>3. PeaksOf(draft', high')
        BY <1>0, <2>1, <2>2, RaisedPeaks DEF PeaksOf
    <2>. QED  BY <1>0, <2>1, <2>2, <2>3
<1>2. ASSUME NEW m \in todo, Hold(m)
      PROVE  /\ PeaksOf(book', peaks')
             /\ pc' # "idle" => PeaksOf(draft', high')
             /\ Marked_(todo', draft', price')
    BY <1>0, <1>2 DEF Hold, committed
<1>3. ASSUME NEW m \in todo, NEW cost \in Int, CloseOut(m, cost)
      PROVE  /\ PeaksOf(book', peaks')
             /\ pc' # "idle" => PeaksOf(draft', high')
             /\ Marked_(todo', draft', price')
    <2>1. /\ Held(draft') = Held(draft) \ {m}
          /\ \A k \in Held(draft') : draft'.positions[k] = draft.positions[k]
        BY <1>0, <1>3, CloseOutBook
    <2>2. /\ pc = "exits" /\ high' = ForgetPeak(high, m) /\ todo' = todo \ {m}
          /\ price' = price /\ book' = book /\ peaks' = peaks
        BY <1>3, Zenon DEF CloseOut, committed
    <2>3. /\ DOMAIN high' = DOMAIN high \ {m}
          /\ \A k \in DOMAIN high \ {m} : high'[k] = high[k]
        BY <2>2, DropFields DEF ForgetPeak
    <2>4. PeaksOf(draft', high')
        BY <1>0, <2>1, <2>2, <2>3 DEF PeaksOf
    <2>5. todo \subseteq Held(draft)
        BY <1>0 DEF TypeOK
    <2>6. Marked_(todo', draft', price')
        BY <1>0, <2>1, <2>2, <2>5
    <2>. QED  BY <1>0, <2>2, <2>4, <2>6
<1>4. ASSUME NEW m \in todo, NEW cost \in Int, ScaleOut(m, cost)
      PROVE  /\ PeaksOf(book', peaks')
             /\ pc' # "idle" => PeaksOf(draft', high')
             /\ Marked_(todo', draft', price')
    <2>1. /\ Held(draft') = Held(draft)
          /\ draft'.positions[m].entryPriceUsd = draft.positions[m].entryPriceUsd
          /\ draft'.positions[m].lastPriceUsd = price[m]
          /\ \A k \in Held(draft) \ {m} :
                draft'.positions[k] = draft.positions[k]
        BY <1>0, <1>4, ScaleOutBook
    <2>2. /\ pc = "exits" /\ high' = high /\ todo' = todo \ {m}
          /\ price' = price /\ book' = book /\ peaks' = peaks
          /\ m \in DOMAIN price
        BY <1>4, Zenon DEF ScaleOut, committed
    <2>3. draft.positions[m].lastPriceUsd = price[m]
        BY <1>0, <2>2
    <2>4. PeaksOf(draft', high')
        BY <1>0, <2>1, <2>2, <2>3 DEF PeaksOf
    <2>5. todo \subseteq Held(draft)
        BY <1>0 DEF TypeOK
    <2>6. Marked_(todo', draft', price')
        BY <1>0, <2>1, <2>2, <2>5
    <2>. QED  BY <1>0, <2>2, <2>4, <2>6
<1>5. CASE KillSwitch
    BY <1>0, <1>5 DEF KillSwitch, Commit
<1>6. CASE SwitchClear
    BY <1>0, <1>6 DEF SwitchClear, committed, local
<1>7. ASSUME NEW m \in Mints, NEW legs \in LegCosts, Enter(m, legs)
      PROVE  /\ PeaksOf(book', peaks')
             /\ pc' # "idle" => PeaksOf(draft', high')
             /\ Marked_(todo', draft', price')
    <2>1. /\ Held(draft') = Held(draft) \cup {m}
          /\ draft'.positions[m].entryPriceUsd = price[m]
          /\ draft'.positions[m].lastPriceUsd = price[m]
          /\ \A k \in Held(draft) : draft'.positions[k] = draft.positions[k]
        BY <1>0, <1>7, EnterBook
    <2>2. /\ pc = "entries" /\ high' = Put(high, m, price[m]) /\ todo' = todo
          /\ price' = price /\ book' = book /\ peaks' = peaks
          /\ m \in DOMAIN price /\ m \notin Held(draft)
        BY <1>7, Zenon DEF Enter, committed
    <2>3. /\ DOMAIN high' = DOMAIN high \cup {m}
          /\ \A k \in DOMAIN high \cup {m} :
                high'[k] = IF k = m THEN price[m] ELSE high[k]
        BY <2>2, Zenon DEF Put
    <2>4. price[m] \in Nat /\ todo = {}
        BY <1>0, <2>2, EngineAssumption DEF TypeOK
    <2>5. PeaksOf(draft', high')
        BY <1>0, <2>1, <2>2, <2>3, <2>4 DEF PeaksOf
    <2>. QED  BY <1>0, <2>2, <2>4, <2>5
<1>8. CASE EndTick
    BY <1>0, <1>8 DEF EndTick, Commit
<1>9. CASE ThrowInTick
    BY <1>0, <1>9 DEF ThrowInTick, committed
<1>10. CASE UNCHANGED engineVars
    BY <1>0, <1>10 DEF engineVars
<1>. QED
    BY <1>0, <1>1, <1>2, <1>3, <1>4, <1>5, <1>6, <1>7, <1>8, <1>9, <1>10, StepCases

\* The high-water marks and the positions never come apart, over ticks, partial
\* sales, closes, re-entries and throws: the trailing stop of a position only
\* ever looks at a peak of its own.
THEOREM PeaksFollow == Spec => []PeaksFollowPositions
<1>1. Init => PeaksInv
    <2>1. ASSUME Init
          PROVE  PeaksOf(book, peaks) /\ pc = "idle" /\ todo = {}
        BY <2>1, EmptyFields DEF Init, PeaksOf
    <2>. QED  BY <2>1, TypeInit DEF PeaksInv
<1>2. PeaksInv => PeaksFollowPositions
    BY DEF PeaksInv, PeaksOf, PeaksFollowPositions, MaxOf
<1>. QED  BY <1>1, <1>2, PeaksStep, PTL DEF Spec, Next

-----------------------------------------------------------------------------
(* The stop and the floor. *)

\* What StopAndFloorHeld says of one position and its high-water mark.
Safe(pos, peak) ==
    /\ ~ GainAtMost(pos, pos.lastPriceUsd, -StopLossPct)
    /\ Armed(pos, peak) => ~ GainAtMost(pos, pos.lastPriceUsd, FloorPct)

\* In a tick, the positions that are decided, and those without a price.
SafeInv ==
    /\ PeaksInv
    /\ StopAndFloorHeld
    /\ pc # "idle" => \A m \in Held(draft) :
                         (m \in todo /\ m \in DOMAIN price) \/ Safe(draft.positions[m], high[m])

\* Safe depends on two prices of the position.
LEMMA SafeDepends ==
    ASSUME NEW p, NEW q, NEW peak,
           p.entryPriceUsd = q.entryPriceUsd, p.lastPriceUsd = q.lastPriceUsd,
           Safe(p, peak)
    PROVE  Safe(q, peak)
    BY Zenon DEF Safe, Armed, GainAtMost, GainAtLeast

\* When decideExit holds, none of its conditions does.
LEMMA NoExitNoRule ==
    ASSUME NEW pos, NEW x, NEW peak, NEW ts, ~ decideExit(pos, x, peak, ts).when
    PROVE  ~ StopHit(pos, x) /\ ~ AtFloor(pos, x, peak)
<1> DEFINE rules == ExitRules(pos, x, peak, ts)
           fired == {i \in DOMAIN rules : rules[i].when}
           first == CHOOSE i \in fired : \A j \in fired : i <= j
<1>1. DOMAIN rules = 1..6
    BY RulesShape
<1>2. fired = {}
    <2> SUFFICES ASSUME fired # {}
                 PROVE  FALSE
        OBVIOUS
    <2>1. \E i \in fired : \A j \in fired : i <= j
        BY <1>1, FirstOfSix
    <2>2. first \in fired
        BY <2>1
    <2>3. decideExit(pos, x, peak, ts) = rules[first]
        BY DEF decideExit
    <2>. QED  BY <2>2, <2>3
<1>3. rules[1].when = StopHit(pos, x) /\ rules[4].when = AtFloor(pos, x, peak)
    <2>1. /\ rules[1] = Rule(StopHit(pos, x), Whole)
          /\ rules[4] = Rule(AtFloor(pos, x, peak), Whole)
        BY DEF ExitRules
    <2>2. \A cond, fraction : Rule(cond, fraction).when = cond
        BY DEF Rule
    <2>. QED  BY <2>1, <2>2, Zenon
<1> HIDE DEF rules
<1>4. ~ rules[1].when /\ ~ rules[4].when
    BY <1>1, <1>2
<1>. QED  BY <1>3, <1>4, Zenon

\* When it sells a rung, the price is above the stop and above the floor.
LEMMA RungAboveFloor ==
    ASSUME NEW pos \in PositionType, NEW x \in Nat, NEW peak, NEW ts,
           decideExit(pos, x, peak, ts).when,
           decideExit(pos, x, peak, ts).fraction # Whole
    PROVE  /\ ~ GainAtMost(pos, x, -StopLossPct)
           /\ ~ GainAtMost(pos, x, FloorPct)
<1> DEFINE rules == ExitRules(pos, x, peak, ts)
           fired == {i \in DOMAIN rules : rules[i].when}
           first == CHOOSE i \in fired : \A j \in fired : i <= j
<1>1. DOMAIN rules = 1..6
    BY RulesShape
<1>2. fired # {}
    BY DEF decideExit, NoExit, Rule
<1>3. first \in fired
    <2>1. \E i \in fired : \A j \in fired : i <= j
        BY <1>1, <1>2, FirstOfSix
    <2>. QED  BY <2>1
<1>4. decideExit(pos, x, peak, ts) = rules[first]
    BY <1>2 DEF decideExit
<1>5. /\ rules[1] = Rule(StopHit(pos, x), Whole)
      /\ rules[2] = Rule(RungDue(pos, x, 0, LadderOnePct), LadderOne)
      /\ rules[3] = Rule(RungDue(pos, x, 1, LadderTwoPct), LadderTwo)
      /\ rules[4] = Rule(AtFloor(pos, x, peak), Whole)
      /\ rules[5] = Rule(OffTrail(pos, x, peak), Whole)
      /\ rules[6] = Rule(TimeUp(pos, ts), Whole)
    BY DEF ExitRules
<1>6. \A cond, fraction : /\ Rule(cond, fraction).when = cond
                          /\ Rule(cond, fraction).fraction = fraction
    BY DEF Rule
<1> HIDE DEF rules
<1>7. first = 2 \/ first = 3
    <2>1. first \in 1..6
        BY <1>1, <1>3
    <2>2. rules[first].fraction # Whole
        BY <1>4
    <2>3. rules[1].fraction = Whole /\ rules[4].fraction = Whole
        BY <1>5, <1>6, SMT
    <2>5. rules[5].fraction = Whole /\ rules[6].fraction = Whole
        BY <1>5, <1>6, SMT
    <2> HIDE DEF first
    <2>4. first = 1 \/ first = 2 \/ first = 3 \/ first = 4 \/ first = 5 \/ first = 6
        BY <2>1
    <2>. QED  BY <2>2, <2>3, <2>4, <2>5
<1>8. rules[first].when
    BY <1>3
<1>9. GainAtLeast(pos, x, LadderOnePct) \/ GainAtLeast(pos, x, LadderTwoPct)
    <2>1. /\ rules[2].when => GainAtLeast(pos, x, LadderOnePct)
          /\ rules[3].when => GainAtLeast(pos, x, LadderTwoPct)
        BY <1>5, <1>6, Zenon DEF RungDue
    <2> HIDE DEF first
    <2>. QED  BY <1>7, <1>8, <2>1
<1>10. pos.entryPriceUsd \in Nat \ {0}
    BY DEF PositionType
<1>11. Hundred * (x - pos.entryPriceUsd) >= 25 * pos.entryPriceUsd
    BY <1>9, <1>10 DEF GainAtLeast, LadderOnePct, LadderTwoPct, Hundred
<1>12. ~ GainAtMost(pos, x, FloorPct)
    BY <1>10, <1>11 DEF GainAtMost, FloorPct, Hundred
<1>13. ~ GainAtMost(pos, x, -StopLossPct)
    <2>1. (-StopLossPct) * pos.entryPriceUsd <= 0
        BY <1>10, EngineAssumption
    <2>2. Hundred * (x - pos.entryPriceUsd) > 0
        BY <1>10, <1>11 DEF Hundred
    <2>3. (-StopLossPct) * pos.entryPriceUsd \in Int
        BY <1>10, EngineAssumption
    <2>4. Hundred * (x - pos.entryPriceUsd) \in Int
        BY <1>10 DEF Hundred
    <2>. QED  BY <2>1, <2>2, <2>3, <2>4 DEF GainAtMost
<1>. QED  BY <1>12, <1>13

\* A position bought at the price it is marked at is at no stop and not armed.
LEMMA NewPositionSafe ==
    ASSUME NEW pos, NEW x \in Nat \ {0}, pos.entryPriceUsd = x, pos.lastPriceUsd = x
    PROVE  Safe(pos, x)
<1>1. /\ StopLossPct * x \in Nat /\ StopLossPct * x > 0
      /\ (-StopLossPct) * x = -(StopLossPct * x)
      /\ TrailingArmsAtPct * x \in Nat /\ TrailingArmsAtPct * x > 0
    BY EngineAssumption
<1>2. Hundred * (x - x) = 0
    BY DEF Hundred
<1>3. ~ GainAtMost(pos, pos.lastPriceUsd, -StopLossPct)
    BY <1>1, <1>2 DEF GainAtMost
<1>4. ~ Armed(pos, x)
    BY <1>1, <1>2 DEF Armed, GainAtLeast
<1>. QED  BY <1>3, <1>4 DEF Safe
\* Each step keeps it: the local half while the tick runs, the committed half
\* when the tick ends with every position decided.
LEMMA SafeStep == SafeInv /\ [EngineNext]_engineVars => SafeInv'
<1> DEFINE Decided(d, h, t, p) ==
               \A m \in Held(d) : (m \in t /\ m \in DOMAIN p) \/ Safe(d.positions[m], h[m])
<1> SUFFICES ASSUME SafeInv, [EngineNext]_engineVars
             PROVE  /\ StopAndFloorHeld'
                    /\ pc' # "idle" => Decided(draft', high', todo', price')
    BY PeaksStep DEF SafeInv
<1>0. /\ TypeOK /\ PeaksOf(book, peaks)
      /\ pc # "idle" => PeaksOf(draft, high)
      /\ \A m \in todo \cap DOMAIN price : draft.positions[m].lastPriceUsd = price[m]
      /\ \A m \in Held(book) : Safe(book.positions[m], peaks[m])
      /\ pc # "idle" => Decided(draft, high, todo, price)
    BY DEF SafeInv, PeaksInv, StopAndFloorHeld, Safe
<1>a. ASSUME UNCHANGED <<book, peaks>>
      PROVE  StopAndFloorHeld'
    BY <1>a DEF SafeInv, StopAndFloorHeld
<1>b. ASSUME book' = draft, peaks' = high, todo = {}, pc # "idle"
      PROVE  StopAndFloorHeld'
    BY <1>0, <1>b DEF StopAndFloorHeld, Safe
<1>1. ASSUME NEW prices \in SomePrices, BeginTick(now + 1, prices)
      PROVE  Decided(draft', high', todo', price')
    <2>1. /\ BookOK(draft') /\ Held(draft') = Held(book)
          /\ \A m \in Held(book) :
                /\ draft'.positions[m].entryPriceUsd = book.positions[m].entryPriceUsd
                /\ m \notin DOMAIN prices => draft'.positions[m] = book.positions[m]
        BY <1>0, <1>1, BeginTickBook
    <2>2. /\ high' = Raised(draft', peaks) /\ todo' = Held(book) /\ price' = prices
        BY <1>1, Zenon DEF BeginTick
    <2>3. ASSUME NEW m \in Held(book), m \notin DOMAIN prices
          PROVE  Safe(draft'.positions[m], high'[m])
        <3>1. high'[m] = peaks[m]
            BY <1>0, <2>1, <2>2, <2>3, RaisedPeaks DEF PeaksOf
        <3>. QED  BY <1>0, <2>1, <2>3, <3>1
    <2>. QED  BY <2>1, <2>2, <2>3
<1>2. ASSUME NEW m \in todo, Hold(m)
      PROVE  Decided(draft', high', todo', price')
    <2>1. /\ pc = "exits" /\ todo' = todo \ {m}
          /\ draft' = draft /\ high' = high /\ price' = price
          /\ m \in DOMAIN price =>
               ~ decideExit(draft.positions[m], price[m], high[m], now).when
        BY <1>2, Zenon DEF Hold
    <2>2. ASSUME m \in DOMAIN price
          PROVE  Safe(draft.positions[m], high[m])
        <3>1. draft.positions[m].lastPriceUsd = price[m]
            BY <1>0, <2>2
        <3>2. /\ ~ StopHit(draft.positions[m], price[m])
              /\ ~ AtFloor(draft.positions[m], price[m], high[m])
            BY <2>1, <2>2, NoExitNoRule
        <3>. QED  BY <3>1, <3>2, Zenon DEF StopHit, AtFloor, Safe
    <2>. QED  BY <1>0, <2>1, <2>2
<1>3. ASSUME NEW m \in todo, NEW cost \in Int, CloseOut(m, cost)
      PROVE  Decided(draft', high', todo', price')
    <2>1. /\ Held(draft') = Held(draft) \ {m}
          /\ \A k \in Held(draft') : draft'.positions[k] = draft.positions[k]
        BY <1>0, <1>3, CloseOutBook
    <2>2. /\ pc = "exits" /\ high' = ForgetPeak(high, m) /\ todo' = todo \ {m}
          /\ price' = price
        BY <1>3, Zenon DEF CloseOut
    <2>3. \A k \in DOMAIN high \ {m} : high'[k] = high[k]
        BY <2>2, DropFields DEF ForgetPeak
    <2>4. DOMAIN high = Held(draft)
        BY <1>0, <2>2 DEF PeaksOf
    <2>5. ASSUME NEW k \in Held(draft')
          PROVE  (k \in todo' /\ k \in DOMAIN price') \/ Safe(draft'.positions[k], high'[k])
        <3>1. k \in Held(draft) /\ k # m
            BY <2>1
        <3>2. draft'.positions[k] = draft.positions[k] /\ high'[k] = high[k]
            BY <2>1, <2>3, <2>4, <3>1
        <3>3. (k \in todo /\ k \in DOMAIN price) \/ Safe(draft.positions[k], high[k])
            BY <1>0, <2>2, <3>1
        <3>. QED  BY <2>2, <3>1, <3>2, <3>3
    <2>. QED  BY <2>5
<1>4. ASSUME NEW m \in todo, NEW cost \in Int, ScaleOut(m, cost)
      PROVE  Decided(draft', high', todo', price')
    <2>1. /\ Held(draft') = Held(draft)
          /\ draft'.positions[m].entryPriceUsd = draft.positions[m].entryPriceUsd
          /\ draft'.positions[m].lastPriceUsd = price[m]
          /\ \A k \in Held(draft) \ {m} : draft'.positions[k] = draft.positions[k]
        BY <1>0, <1>4, ScaleOutBook
    <2>2. /\ pc = "exits" /\ high' = high /\ todo' = todo \ {m} /\ price' = price
          /\ m \in DOMAIN price
          /\ decideExit(draft.positions[m], price[m], high[m], now).when
          /\ decideExit(draft.positions[m], price[m], high[m], now).fraction # Whole
        BY <1>4, Zenon DEF ScaleOut
    <2>3. draft.positions[m] \in PositionType /\ price[m] \in Nat
        BY <1>0, <2>2, EngineAssumption DEF TypeOK, BookOK
    <2>4. /\ ~ GainAtMost(draft.positions[m], price[m], -StopLossPct)
          /\ ~ GainAtMost(draft.positions[m], price[m], FloorPct)
        BY <2>2, <2>3, RungAboveFloor
    <2>5. Safe(draft'.positions[m], high'[m])
        BY <2>1, <2>4, Zenon DEF Safe, GainAtMost
    <2>6. ASSUME NEW k \in Held(draft'), k # m
          PROVE  (k \in todo' /\ k \in DOMAIN price') \/ Safe(draft'.positions[k], high'[k])
        <3>1. k \in Held(draft) /\ draft'.positions[k] = draft.positions[k]
            BY <2>1, <2>6
        <3>2. (k \in todo /\ k \in DOMAIN price) \/ Safe(draft.positions[k], high[k])
            BY <1>0, <2>2, <3>1
        <3>. QED  BY <2>2, <2>6, <3>1, <3>2
    <2>. QED  BY <2>5, <2>6
<1>5. CASE KillSwitch
    BY <1>b, <1>5 DEF KillSwitch, Commit
<1>6. ASSUME SwitchClear
      PROVE  Decided(draft', high', todo', price')
    BY <1>0, <1>6 DEF SwitchClear, committed, local
<1>7. ASSUME NEW m \in Mints, NEW legs \in LegCosts, Enter(m, legs)
      PROVE  Decided(draft', high', todo', price')
    <2>1. /\ Held(draft') = Held(draft) \cup {m}
          /\ draft'.positions[m].entryPriceUsd = price[m]
          /\ draft'.positions[m].lastPriceUsd = price[m]
          /\ \A k \in Held(draft) : draft'.positions[k] = draft.positions[k]
        BY <1>0, <1>7, EnterBook
    <2>2. /\ pc = "entries" /\ high' = Put(high, m, price[m]) /\ m \in DOMAIN price
          /\ m \notin Held(draft)
        BY <1>7, Zenon DEF Enter
    <2>3. \A k \in DOMAIN high \cup {m} :
             high'[k] = IF k = m THEN price[m] ELSE high[k]
        BY <2>2, Zenon DEF Put
    <2>4. price[m] \in Nat \ {0} /\ todo = {}
        BY <1>0, <2>2, EngineAssumption DEF TypeOK
    <2>5. Safe(draft'.positions[m], high'[m])
        BY <2>1, <2>3, <2>4, NewPositionSafe
    <2>6. DOMAIN high = Held(draft)
        BY <1>0, <2>2 DEF PeaksOf
    <2>7. ASSUME NEW k \in Held(draft), k # m
          PROVE  Safe(draft'.positions[k], high'[k])
        BY <1>0, <2>1, <2>2, <2>3, <2>4, <2>6, <2>7
    <2>. QED  BY <2>1, <2>5, <2>7
<1>8. CASE EndTick
    BY <1>0, <1>b, <1>8 DEF EndTick, Commit, TypeOK
<1>9. CASE ThrowInTick
    BY <1>a, <1>9 DEF ThrowInTick, committed
<1>10. CASE UNCHANGED engineVars
    BY <1>0, <1>10, <1>a DEF engineVars
<1>c. ASSUME UNCHANGED committed
      PROVE  StopAndFloorHeld'
    BY <1>a, <1>c DEF committed
<1>d. UNCHANGED committed \/ KillSwitch \/ EndTick
    BY <1>0, StepCases, Zenon
       DEF BeginTick, Hold, CloseOut, ScaleOut, SwitchClear, Enter,
           ThrowInTick, committed, engineVars
<1>e. StopAndFloorHeld'
    BY <1>5, <1>8, <1>c, <1>d, <1>b, <1>0 DEF KillSwitch, EndTick, Commit, TypeOK
<1> HIDE DEF Decided
<1>f. pc' # "idle" => Decided(draft', high', todo', price')
    BY <1>0, <1>1, <1>2, <1>3, <1>4, <1>6, <1>7, <1>9, <1>10, StepCases
       DEF KillSwitch, EndTick, ThrowInTick, Commit
<1>. QED  BY <1>e, <1>f

\* No position is ever left, at the end of a tick, at or below its stop, or
\* armed and at or below the breakeven floor: for every strategy and every
\* run of prices, gaps included, except where a tick throws.
THEOREM StopAndFloor == Spec => []StopAndFloorHeld
<1>1. Init => SafeInv
    <2>1. ASSUME Init
          PROVE  PeaksOf(book, peaks) /\ pc = "idle" /\ todo = {} /\ Held(book) = {}
        BY <2>1, EmptyFields DEF Init, PeaksOf
    <2>. QED  BY <2>1, TypeInit DEF SafeInv, PeaksInv, StopAndFloorHeld
<1>2. SafeInv => StopAndFloorHeld
    BY DEF SafeInv
<1>. QED  BY <1>1, <1>2, SafeStep, PTL DEF Spec, Next
-----------------------------------------------------------------------------
(* The refinement. *)

\* What ImplementsPortfolio asks of a step is no less than Portfolio asks: a
\* LedgerCall is a step of Portfolio, whose caller could have passed this
\* tick's marks, clock and prices.
THEOREM LedgerCallIsAStep ==
    ASSUME TypeOK, TypeOK', now \in 0..MaxTime, LedgerCall
    PROVE  Ledger_!Next
<1>1. CASE Ledger_!Keep
    BY <1>1 DEF Ledger_!Next
<1>2. CASE Ledger_!Revert
    BY <1>2 DEF Ledger_!Next
<1>3. CASE Ledger_!Mark(MarksOf(draft, price'))
    <2> DEFINE held == Held(draft) \cap DOMAIN price'
    <2>1. held \in SUBSET Ledger_!Held(draft)
        BY DEF Held, Ledger_!Held
    <2>2. \A m \in held : price'[m] \in Prices
        BY DEF TypeOK
    <2>3. MarksOf(draft, price') \in [held -> Prices]
        BY <2>2 DEF MarksOf
    <2> QED
        BY <1>3, <2>1, <2>3 DEF Ledger_!Next
<1>4. ASSUME NEW mint \in DOMAIN price, NEW cost \in Charges,
             \/ Ledger_!Open(mint, PositionSize, price[mint], now, cost)
             \/ Ledger_!Sell(mint, price[mint], now, cost)
      PROVE  Ledger_!Next
    <2>1. mint \in Mints /\ price[mint] \in Prices /\ PositionSize \in {PositionSize}
        BY DEF TypeOK
    <2>2. CASE Ledger_!Open(mint, PositionSize, price[mint], now, cost)
        BY <2>1, <2>2 DEF Ledger_!Next
    <2>3. CASE Ledger_!Sell(mint, price[mint], now, cost)
        BY <2>1, <2>3 DEF Ledger_!Next
    <2> QED
        BY <1>4, <2>2, <2>3
<1> QED
    BY <1>1, <1>2, <1>3, <1>4 DEF LedgerCall

-----------------------------------------------------------------------------
(* Sales and dates. *)

SalesOf(b, m) == {i \in DOMAIN b.closedTrades : b.closedTrades[i].mint = m}

\* The sales of the position open in m: its trades carry its opening time.
OwnSales(b, m) ==
    {i \in SalesOf(b, m) : b.closedTrades[i].openedTs = b.positions[m].openedTs}

\* What OneDecisionPerMintPerTick says of a book.
OneDecision(b) ==
    \A m \in Held(b) :
        /\ \A i \in SalesOf(b, m) \ OwnSales(b, m) :
              b.closedTrades[i].closedTs < b.positions[m].openedTs
        /\ \A i, j \in OwnSales(b, m) :
              i # j => b.closedTrades[i].closedTs # b.closedTrades[j].closedTs
        /\ Cardinality(OwnSales(b, m)) = b.positions[m].scaleOutCount
        /\ b.positions[m].scaleOutCount <= 2

\* Nothing in a book is dated after t, and no sale before its purchase.
DatedBy(b, t) ==
    /\ \A i \in DOMAIN b.closedTrades :
          /\ b.closedTrades[i].openedTs <= b.closedTrades[i].closedTs
          /\ b.closedTrades[i].closedTs <= t
    /\ \A m \in Held(b) : b.positions[m].openedTs <= t

\* The last sale of m, if any, was before t.
SoldBefore(b, m, t) ==
    \A i \in SalesOf(b, m) : b.closedTrades[i].closedTs < t

\* r is b with one more trade: a sale of m at ts.
OneSale(b, r, m, ts) ==
    \E t \in TradeType : /\ t.mint = m /\ t.closedTs = ts
                         /\ t.openedTs = b.positions[m].openedTs
                         /\ r.closedTrades = Append(b.closedTrades, t)

\* A position of r is the one b has, up to its marks.
SamePosition(b, r, k) ==
    /\ r.positions[k].openedTs = b.positions[k].openedTs
    /\ r.positions[k].scaleOutCount = b.positions[k].scaleOutCount
    /\ r.positions[k].entryCostUsd = b.positions[k].entryCostUsd

LEMMA TradeTimes ==
    ASSUME NEW b, BookOK(b)
    PROVE  /\ Len(b.closedTrades) \in Nat
           /\ DOMAIN b.closedTrades = 1..Len(b.closedTrades)
           /\ \A i \in DOMAIN b.closedTrades :
                 /\ b.closedTrades[i] \in TradeType
                 /\ b.closedTrades[i].openedTs \in Nat
                 /\ b.closedTrades[i].closedTs \in Nat
           /\ \A m \in Held(b) : /\ b.positions[m].openedTs \in Nat
                                 /\ b.positions[m].scaleOutCount \in Nat
<1>1. b.closedTrades \in Seq(TradeType)
    BY DEF BookOK
<1>2. \A i \in DOMAIN b.closedTrades : b.closedTrades[i] \in TradeType
    BY <1>1
<1>3. \A t \in TradeType : t.openedTs \in Nat /\ t.closedTs \in Nat
    BY DEF TradeType
<1>4. \A m \in Held(b) : b.positions[m] \in PositionType
    BY DEF BookOK
<1>. QED  BY <1>1, <1>2, <1>3, <1>4, PositionFields

\* The trades after a sale of m.
LEMMA SaleTrades ==
    ASSUME NEW b, BookOK(b), NEW r, BookOK(r), NEW m, NEW ts,
           OneSale(b, r, m, ts)
    PROVE  LET n == Len(b.closedTrades) + 1
           IN /\ DOMAIN r.closedTrades = DOMAIN b.closedTrades \cup {n}
              /\ n \notin DOMAIN b.closedTrades
              /\ \A i \in DOMAIN b.closedTrades :
                    r.closedTrades[i] = b.closedTrades[i]
              /\ r.closedTrades[n].mint = m
              /\ r.closedTrades[n].closedTs = ts
              /\ r.closedTrades[n].openedTs = b.positions[m].openedTs
              /\ SalesOf(r, m) = SalesOf(b, m) \cup {n}
              /\ \A k : k # m => SalesOf(r, k) = SalesOf(b, k)
<1> DEFINE n == Len(b.closedTrades) + 1
<1>1. PICK t \in TradeType : /\ t.mint = m /\ t.closedTs = ts
                             /\ t.openedTs = b.positions[m].openedTs
                             /\ r.closedTrades = Append(b.closedTrades, t)
    BY DEF OneSale
<1>2. b.closedTrades \in Seq(TradeType)
    BY DEF BookOK
<1>3. /\ DOMAIN r.closedTrades = DOMAIN b.closedTrades \cup {n}
      /\ n \notin DOMAIN b.closedTrades
      /\ \A i \in DOMAIN b.closedTrades : r.closedTrades[i] = b.closedTrades[i]
      /\ r.closedTrades[n] = t
    BY <1>1, <1>2
<1> HIDE DEF n
<1>4. SalesOf(r, m) = SalesOf(b, m) \cup {n}
    BY <1>1, <1>3 DEF SalesOf
<1>5. ASSUME NEW k, k # m
      PROVE  SalesOf(r, k) = SalesOf(b, k)
    BY <1>1, <1>3, <1>5 DEF SalesOf
<1>. QED  BY <1>1, <1>3, <1>4, <1>5 DEF n

\* A sale of a mint not yet sold in this tick keeps a book in order: the slice
\* is one more of the position's own sales, or the position is gone.
LEMMA SaleKeepsOrder ==
    ASSUME NEW b, BookOK(b), NEW r, BookOK(r), NEW ts \in Nat, NEW m \in Held(b),
           OneSale(b, r, m, ts), OneDecision(b), DatedBy(b, ts), SoldBefore(b, m, ts),
           Held(r) \subseteq Held(b),
           \A k \in Held(r) \ {m} : SamePosition(b, r, k),
           m \in Held(r) =>
              /\ r.positions[m].openedTs = b.positions[m].openedTs
              /\ r.positions[m].scaleOutCount = b.positions[m].scaleOutCount + 1
              /\ b.positions[m].scaleOutCount <= 1
    PROVE  /\ OneDecision(r) /\ DatedBy(r, ts)
           /\ \A k \in Mints \ {m} : SoldBefore(b, k, ts) => SoldBefore(r, k, ts)
<1> DEFINE n == Len(b.closedTrades) + 1
<1>1. /\ DOMAIN r.closedTrades = DOMAIN b.closedTrades \cup {n}
      /\ n \notin DOMAIN b.closedTrades
      /\ \A i \in DOMAIN b.closedTrades : r.closedTrades[i] = b.closedTrades[i]
      /\ r.closedTrades[n].mint = m
      /\ r.closedTrades[n].closedTs = ts
      /\ r.closedTrades[n].openedTs = b.positions[m].openedTs
      /\ SalesOf(r, m) = SalesOf(b, m) \cup {n}
      /\ \A k : k # m => SalesOf(r, k) = SalesOf(b, k)
    BY SaleTrades
<1>t. DOMAIN b.closedTrades = 1..Len(b.closedTrades) /\ Len(b.closedTrades) \in Nat
    BY TradeTimes
<1> HIDE DEF n
<1>2. \A k : SalesOf(b, k) \subseteq DOMAIN b.closedTrades
    BY DEF SalesOf
<1>3. DatedBy(r, ts)
    <2>1. ASSUME NEW i \in DOMAIN r.closedTrades
          PROVE  /\ r.closedTrades[i].openedTs <= r.closedTrades[i].closedTs
                 /\ r.closedTrades[i].closedTs <= ts
        <3>1. CASE i = n
            BY <3>1, <1>1 DEF DatedBy
        <3>2. CASE i # n
            BY <3>2, <1>1 DEF DatedBy
        <3>. QED  BY <3>1, <3>2
    <2>2. \A k \in Held(r) : r.positions[k].openedTs <= ts
        BY DEF DatedBy, SamePosition
    <2>. QED  BY <2>1, <2>2 DEF DatedBy
<1>4. ASSUME NEW k \in Mints \ {m}, SoldBefore(b, k, ts)
      PROVE  SoldBefore(r, k, ts)
    BY <1>1, <1>2, <1>4 DEF SoldBefore
<1>5. ASSUME NEW k \in Held(r) \ {m}
      PROVE  /\ \A i \in SalesOf(r, k) \ OwnSales(r, k) :
                   r.closedTrades[i].closedTs < r.positions[k].openedTs
             /\ \A i, j \in OwnSales(r, k) :
                   i # j => r.closedTrades[i].closedTs # r.closedTrades[j].closedTs
             /\ Cardinality(OwnSales(r, k)) = r.positions[k].scaleOutCount
             /\ r.positions[k].scaleOutCount <= 2
    <2>1. k \in Held(b) /\ SamePosition(b, r, k) /\ SalesOf(r, k) = SalesOf(b, k)
        BY <1>1
    <2>2. \A i \in SalesOf(b, k) : r.closedTrades[i] = b.closedTrades[i]
        BY <1>1, <1>2
    <2>3. OwnSales(r, k) = OwnSales(b, k)
        BY <2>1, <2>2 DEF OwnSales, SamePosition
    <2>4. OwnSales(b, k) \subseteq SalesOf(b, k)
        BY DEF OwnSales
    <2>. QED  BY <2>1, <2>2, <2>3, <2>4 DEF OneDecision, SamePosition
<1>6. ASSUME m \in Held(r)
      PROVE  /\ \A i \in SalesOf(r, m) \ OwnSales(r, m) :
                   r.closedTrades[i].closedTs < r.positions[m].openedTs
             /\ \A i, j \in OwnSales(r, m) :
                   i # j => r.closedTrades[i].closedTs # r.closedTrades[j].closedTs
             /\ Cardinality(OwnSales(r, m)) = r.positions[m].scaleOutCount
             /\ r.positions[m].scaleOutCount <= 2
    <2>1. /\ r.positions[m].openedTs = b.positions[m].openedTs
          /\ r.positions[m].scaleOutCount = b.positions[m].scaleOutCount + 1
          /\ b.positions[m].scaleOutCount <= 1
        BY <1>6
    <2>2. OwnSales(r, m) = OwnSales(b, m) \cup {n}
        BY <1>1, <1>2, <2>1 DEF OwnSales
    <2>3. OwnSales(b, m) \subseteq SalesOf(b, m)
        BY DEF OwnSales
    <2>4. \A i \in SalesOf(b, m) : /\ r.closedTrades[i] = b.closedTrades[i]
                                   /\ b.closedTrades[i].closedTs \in Nat
                                   /\ b.closedTrades[i].closedTs < ts
        BY <1>1, <1>2, TradeTimes DEF SoldBefore
    <2>5. \A i \in SalesOf(r, m) \ OwnSales(r, m) :
             r.closedTrades[i].closedTs < r.positions[m].openedTs
        BY <1>1, <2>1, <2>2, <2>4 DEF OneDecision
    <2>6. ASSUME NEW i \in OwnSales(r, m), NEW j \in OwnSales(r, m), i # j
          PROVE  r.closedTrades[i].closedTs # r.closedTrades[j].closedTs
        <3>1. CASE i # n /\ j # n
            BY <3>1, <2>2, <2>3, <2>4, <2>6 DEF OneDecision
        <3>2. CASE i = n
            BY <3>2, <1>1, <2>2, <2>3, <2>4, <2>6
        <3>3. CASE j = n
            BY <3>3, <1>1, <2>2, <2>3, <2>4, <2>6
        <3>. QED  BY <3>1, <3>2, <3>3
    <2>7. Cardinality(OwnSales(r, m)) = r.positions[m].scaleOutCount
        <3>1. IsFiniteSet(OwnSales(b, m)) /\ n \notin OwnSales(b, m)
            <4>1. IsFiniteSet(DOMAIN b.closedTrades)
                BY <1>t, FS_Interval
            <4>2. OwnSales(b, m) \subseteq DOMAIN b.closedTrades
                BY <1>2, <2>3
            <4>. QED  BY <1>1, <4>1, <4>2, FS_Subset
        <3>2. Cardinality(OwnSales(b, m) \cup {n}) = Cardinality(OwnSales(b, m)) + 1
            BY <3>1, FS_AddElement
        <3>. QED  BY <2>1, <2>2, <3>2 DEF OneDecision
    <2>8. r.positions[m].scaleOutCount <= 2
        BY <2>1, TradeTimes
    <2>. QED  BY <2>5, <2>6, <2>7, <2>8
<1>. QED  BY <1>3, <1>4, <1>5, <1>6 DEF OneDecision

\* With the same trades and the same positions up to marks nothing changes.
LEMMA SameKeepsOrder ==
    ASSUME NEW b, NEW r, r.closedTrades = b.closedTrades, Held(r) = Held(b),
           \A k \in Held(b) : SamePosition(b, r, k)
    PROVE  /\ OneDecision(b) => OneDecision(r)
           /\ \A t : DatedBy(b, t) => DatedBy(r, t)
           /\ \A k, t : SoldBefore(b, k, t) => SoldBefore(r, k, t)
<1>1. \A k : SalesOf(r, k) = SalesOf(b, k)
    BY DEF SalesOf
<1>2. \A k \in Held(b) : OwnSales(r, k) = OwnSales(b, k)
    BY <1>1 DEF OwnSales, SamePosition
<1>3. OneDecision(b) => OneDecision(r)
    BY <1>1, <1>2 DEF OneDecision, SamePosition
<1>4. \A t : DatedBy(b, t) => DatedBy(r, t)
    BY DEF DatedBy, SamePosition
<1>5. \A k, t : SoldBefore(b, k, t) => SoldBefore(r, k, t)
    BY <1>1 DEF SoldBefore
<1>. QED  BY <1>3, <1>4, <1>5

\* A purchase of a mint not sold at its own time starts a position without sales.
LEMMA PurchaseKeepsOrder ==
    ASSUME NEW b, BookOK(b), NEW r, NEW m \in Mints, NEW ts \in Nat,
           m \notin Held(b), r.closedTrades = b.closedTrades,
           Held(r) = Held(b) \cup {m},
           \A k \in Held(b) : SamePosition(b, r, k),
           r.positions[m].openedTs = ts, r.positions[m].scaleOutCount = 0,
           OneDecision(b), DatedBy(b, ts), SoldBefore(b, m, ts)
    PROVE  OneDecision(r) /\ DatedBy(r, ts)
<1>1. \A k : SalesOf(r, k) = SalesOf(b, k)
    BY DEF SalesOf
<1>2. \A k \in Held(b) : OwnSales(r, k) = OwnSales(b, k)
    BY <1>1 DEF OwnSales, SamePosition
<1>3. \A i \in SalesOf(b, m) : /\ b.closedTrades[i].openedTs \in Nat
                               /\ b.closedTrades[i].openedTs < ts
                               /\ b.closedTrades[i].closedTs < ts
    <2>1. SalesOf(b, m) \subseteq DOMAIN b.closedTrades
        BY DEF SalesOf
    <2>2. ASSUME NEW i \in SalesOf(b, m)
          PROVE  /\ b.closedTrades[i].openedTs \in Nat
                 /\ b.closedTrades[i].openedTs < ts
                 /\ b.closedTrades[i].closedTs < ts
        <3>1. /\ b.closedTrades[i].openedTs \in Nat
              /\ b.closedTrades[i].closedTs \in Nat
            BY <2>1, TradeTimes
        <3>2. b.closedTrades[i].openedTs <= b.closedTrades[i].closedTs
            BY <2>1 DEF DatedBy
        <3>3. b.closedTrades[i].closedTs < ts
            BY DEF SoldBefore
        <3>. QED  BY <3>1, <3>2, <3>3
    <2>. QED  BY <2>2
<1>4. OwnSales(r, m) = {}
    BY <1>1, <1>3 DEF OwnSales
<1>5. /\ \A i \in SalesOf(r, m) \ OwnSales(r, m) :
            r.closedTrades[i].closedTs < r.positions[m].openedTs
      /\ Cardinality(OwnSales(r, m)) = r.positions[m].scaleOutCount
      /\ r.positions[m].scaleOutCount <= 2
    BY <1>1, <1>3, <1>4, FS_EmptySet
<1>6. ASSUME NEW k \in Held(b)
      PROVE  /\ \A i \in SalesOf(r, k) \ OwnSales(r, k) :
                   r.closedTrades[i].closedTs < r.positions[k].openedTs
             /\ \A i, j \in OwnSales(r, k) :
                   i # j => r.closedTrades[i].closedTs # r.closedTrades[j].closedTs
             /\ Cardinality(OwnSales(r, k)) = r.positions[k].scaleOutCount
             /\ r.positions[k].scaleOutCount <= 2
    BY <1>1, <1>2 DEF OneDecision, SamePosition
<1>7. OneDecision(r)
    BY <1>4, <1>5, <1>6 DEF OneDecision
<1>8. DatedBy(r, ts)
    BY DEF DatedBy, SamePosition
<1>. QED  BY <1>7, <1>8

-----------------------------------------------------------------------------
(* The steps again, with what they do to dates, counts and charges. *)

\* A rung is sold once: the first from an untouched position, the second after it.
LEMMA RungOnce ==
    ASSUME NEW pos \in PositionType, NEW x \in Nat, NEW peak, NEW ts,
           decideExit(pos, x, peak, ts).when,
           decideExit(pos, x, peak, ts).fraction # Whole
    PROVE  \/ /\ decideExit(pos, x, peak, ts).fraction = LadderOne
              /\ pos.scaleOutCount = 0
           \/ /\ decideExit(pos, x, peak, ts).fraction = LadderTwo
              /\ pos.scaleOutCount = 1
<1> DEFINE rules == ExitRules(pos, x, peak, ts)
           fired == {i \in DOMAIN rules : rules[i].when}
           first == CHOOSE i \in fired : \A j \in fired : i <= j
<1>1. DOMAIN rules = 1..6
    BY RulesShape
<1>2. fired # {}
    BY DEF decideExit, NoExit, Rule
<1>3. first \in fired
    <2>1. \E i \in fired : \A j \in fired : i <= j
        BY <1>1, <1>2, FirstOfSix
    <2>. QED  BY <2>1
<1>4. decideExit(pos, x, peak, ts) = rules[first]
    BY <1>2 DEF decideExit
<1>5. /\ rules[1] = Rule(StopHit(pos, x), Whole)
      /\ rules[2] = Rule(RungDue(pos, x, 0, LadderOnePct), LadderOne)
      /\ rules[3] = Rule(RungDue(pos, x, 1, LadderTwoPct), LadderTwo)
      /\ rules[4] = Rule(AtFloor(pos, x, peak), Whole)
      /\ rules[5] = Rule(OffTrail(pos, x, peak), Whole)
      /\ rules[6] = Rule(TimeUp(pos, ts), Whole)
    BY DEF ExitRules
<1>6. \A cond, fraction : /\ Rule(cond, fraction).when = cond
                          /\ Rule(cond, fraction).fraction = fraction
    BY DEF Rule
<1> HIDE DEF rules
<1>7. first = 2 \/ first = 3
    <2>1. first \in 1..6
        BY <1>1, <1>3
    <2>2. rules[first].fraction # Whole
        BY <1>4
    <2>3. rules[1].fraction = Whole /\ rules[4].fraction = Whole
        BY <1>5, <1>6, SMT
    <2>4. rules[5].fraction = Whole /\ rules[6].fraction = Whole
        BY <1>5, <1>6, SMT
    <2> HIDE DEF first
    <2>5. first = 1 \/ first = 2 \/ first = 3 \/ first = 4 \/ first = 5 \/ first = 6
        BY <2>1
    <2>. QED  BY <2>2, <2>3, <2>4, <2>5
<1>8. rules[first].when
    BY <1>3
<1>9. /\ rules[2].when => pos.scaleOutCount = 0
      /\ rules[3].when => pos.scaleOutCount = 1
      /\ rules[2].fraction = LadderOne /\ rules[3].fraction = LadderTwo
    <2>1. /\ rules[2].when => pos.scaleOutCount = 0
          /\ rules[3].when => pos.scaleOutCount = 1
        BY <1>5, <1>6, Zenon DEF RungDue
    <2>2. rules[2].fraction = LadderOne /\ rules[3].fraction = LadderTwo
        BY <1>5, <1>6, SMT
    <2>. QED  BY <2>1, <2>2
<1> HIDE DEF first
<1>. QED  BY <1>4, <1>7, <1>8, <1>9

LEMMA CloseOutSale ==
    ASSUME TypeOK, NEW m \in todo, NEW cost \in Int, CloseOut(m, cost)
    PROVE  /\ OneSale(draft, draft', m, now)
           /\ \A k \in Held(draft') : SamePosition(draft, draft', k)
           /\ draft'.closedCount = draft.closedCount + 1
           /\ draft'.positions = Drop(draft.positions, m)
           /\ draft'.unrealisedPnlUsd = sumUnrealised(draft'.positions)
           /\ m \in Mints /\ m \in Held(draft)
<1>1. /\ m \in Held(draft) /\ BookOK(draft) /\ now \in Nat
      /\ price[m] \in Nat \ {0} /\ cost \in Nat /\ m \in Mints
    <2>1. m \in DOMAIN price /\ cost >= 0
        BY Zenon DEF CloseOut, CanSell
    <2>2. price[m] \in Nat \ {0}
        BY <2>1, EngineAssumption DEF TypeOK
    <2>3. m \in Held(draft) /\ BookOK(draft) /\ now \in Nat
        BY DEF TypeOK
    <2>4. m \in Mints
        BY <2>3 DEF BookOK
    <2>. QED  BY <2>1, <2>2, <2>3, <2>4
<1> DEFINE pos == draft.positions[m]
           slice == WholeSlice(pos)
           trade == Trade(m, pos, slice, price[m], now, cost)
<1>2. draft' = Realise(draft, m, slice, price[m], now, cost, Drop(draft.positions, m))
    BY DEF CloseOut, closePosition
<1>3. /\ draft'.closedTrades = Append(draft.closedTrades, trade)
      /\ draft'.closedCount = draft.closedCount + 1
      /\ draft'.positions = Drop(draft.positions, m)
      /\ draft'.unrealisedPnlUsd = sumUnrealised(Drop(draft.positions, m))
    BY <1>1, <1>2, BookNumbers, RealiseFields
<1>4. trade \in TradeType
    <2>1. pos \in PositionType /\ slice \in SliceType
        BY <1>1, WholeSliceType DEF BookOK
    <2>2. NetPnl(pos, slice, price[m], cost) \in Int
        BY <1>1, <2>1, NetPnlType
    <2> HIDE DEF slice
    <2>. QED  BY <1>1, <2>1, <2>2 DEF Trade, TradeType, SliceType, PositionType
<1>5. trade.mint = m /\ trade.closedTs = now /\ trade.openedTs = pos.openedTs
    BY DEF Trade
<1> HIDE DEF trade
<1>6. OneSale(draft, draft', m, now)
    BY <1>3, <1>4, <1>5 DEF OneSale
<1>7. \A k \in Held(draft') : SamePosition(draft, draft', k)
    BY CloseOutBook DEF SamePosition
<1>. QED  BY <1>1, <1>3, <1>6, <1>7

LEMMA ScaleOutSale ==
    ASSUME TypeOK, NEW m \in todo, NEW cost \in Int, ScaleOut(m, cost)
    PROVE  /\ OneSale(draft, draft', m, now)
           /\ \A k \in Held(draft') \ {m} : SamePosition(draft, draft', k)
           /\ draft'.closedCount = draft.closedCount + 1
           /\ draft'.unrealisedPnlUsd = sumUnrealised(draft'.positions)
           /\ m \in Mints /\ m \in Held(draft)
           /\ draft'.positions[m].openedTs = draft.positions[m].openedTs
           /\ draft'.positions[m].scaleOutCount = draft.positions[m].scaleOutCount + 1
           /\ \E f \in {LadderOne, LadderTwo} :
                 /\ f = decideExit(draft.positions[m], price[m], high[m], now).fraction
                 /\ draft.positions[m].scaleOutCount = (IF f = LadderOne THEN 0 ELSE 1)
                 /\ draft'.positions[m].entryCostUsd =
                      draft.positions[m].entryCostUsd
                        - Share(draft.positions[m].entryCostUsd, f)
<1> DEFINE f == decideExit(draft.positions[m], price[m], high[m], now).fraction
           share == Share(cost, f)
           pos == draft.positions[m]
           slice == PartSlice(pos, f[1], f[2])
           rest == Remainder(pos, slice, price[m])
           trade == Trade(m, pos, slice, price[m], now, share)
<1>1. f[1] \in Nat /\ f[2] \in Nat \ {0}
    BY VerdictFraction, FractionType
<1>2. share \in Int
    <2>1. cost * f[1] \in Int
        BY <1>1
    <2>. QED  BY <1>1, <2>1 DEF Share
<1>3. /\ m \in Held(draft) /\ BookOK(draft) /\ now \in Nat /\ m \in Mints
      /\ price[m] \in Nat \ {0} /\ share >= 0
    BY EngineAssumption DEF TypeOK, ScaleOut, CanSell, BookOK
<1>4. /\ draft' = Realise(draft, m, slice, price[m], now, share,
                          Put(draft.positions, m, rest))
      /\ decideExit(pos, price[m], high[m], now).when
      /\ f # Whole
    BY DEF ScaleOut, reducePosition
<1>5. \/ f = LadderOne /\ pos.scaleOutCount = 0
      \/ f = LadderTwo /\ pos.scaleOutCount = 1
    <2>1. pos \in PositionType
        BY <1>3 DEF BookOK
    <2>. QED  BY <1>3, <1>4, <2>1, RungOnce
<1> HIDE DEF f, share
<1>6. /\ draft'.closedTrades = Append(draft.closedTrades, trade)
      /\ draft'.closedCount = draft.closedCount + 1
      /\ draft'.positions = Put(draft.positions, m, rest)
      /\ draft'.unrealisedPnlUsd = sumUnrealised(Put(draft.positions, m, rest))
    BY <1>3, <1>4, BookNumbers, RealiseFields
<1>7. pos \in PositionType /\ slice \in SliceType
    BY <1>1, <1>3, PartSliceType DEF BookOK
<1>8. slice.entryCostUsd = Share(pos.entryCostUsd, f)
    BY DEF PartSlice, Share
<1> HIDE DEF slice
<1>9. trade \in TradeType
    <2>1. NetPnl(pos, slice, price[m], share) \in Int
        BY <1>2, <1>3, <1>7, NetPnlType
    <2>. QED  BY <1>2, <1>3, <1>7, <2>1 DEF Trade, TradeType, SliceType, PositionType
<1>10. trade.mint = m /\ trade.closedTs = now /\ trade.openedTs = pos.openedTs
    BY DEF Trade
<1> HIDE DEF trade
<1>11. OneSale(draft, draft', m, now)
    BY <1>6, <1>9, <1>10 DEF OneSale
<1>12. \A k \in Held(draft') \ {m} : SamePosition(draft, draft', k)
    BY ScaleOutBook DEF SamePosition
<1>13. /\ rest.openedTs = pos.openedTs
       /\ rest.scaleOutCount = pos.scaleOutCount + 1
       /\ rest.entryCostUsd = pos.entryCostUsd - slice.entryCostUsd
    BY <1>7, RemainderFields
<1> HIDE DEF rest
<1>14. draft'.positions[m] = rest
    BY <1>6, Zenon DEF Put
<1>15. LadderOne # LadderTwo
    BY DEF LadderOne, LadderTwo
<1>16. \E g \in {LadderOne, LadderTwo} :
          /\ g = f
          /\ pos.scaleOutCount = (IF g = LadderOne THEN 0 ELSE 1)
          /\ draft'.positions[m].entryCostUsd =
               pos.entryCostUsd - Share(pos.entryCostUsd, g)
    BY <1>5, <1>8, <1>13, <1>14, <1>15
<1>. QED  BY <1>3, <1>6, <1>11, <1>12, <1>13, <1>14, <1>16 DEF f

LEMMA EnterPosition ==
    ASSUME TypeOK, NEW m \in Mints, NEW legs \in LegCosts, Enter(m, legs)
    PROVE  /\ draft'.closedTrades = draft.closedTrades
           /\ draft'.closedCount = draft.closedCount
           /\ draft'.consecutiveLosses = draft.consecutiveLosses
           /\ draft'.daily = draft.daily
           /\ \A k \in Held(draft) : SamePosition(draft, draft', k)
           /\ draft'.positions =
                Put(draft.positions, m,
                    NewPosition(PositionSize, price[m], now, legs[1]))
           /\ draft'.unrealisedPnlUsd = sumUnrealised(draft'.positions)
           /\ draft'.positions[m] = NewPosition(PositionSize, price[m], now, legs[1])
           /\ NewPosition(PositionSize, price[m], now, legs[1]) \in PositionType
<1>1. /\ BookOK(draft) /\ now \in Nat /\ legs[1] \in Nat
      /\ PositionSize \in Nat \ {0} /\ price[m] \in Nat \ {0}
    BY EngineAssumption DEF TypeOK, Enter
<1>2. draft' = openPosition(draft, m, PositionSize, price[m], now, legs[1])
    BY DEF Enter, EntryCharge
<1> DEFINE pos == NewPosition(PositionSize, price[m], now, legs[1])
<1>3. pos \in PositionType
    BY <1>1, NewPositionType
<1>4. /\ draft'.positions = Put(draft.positions, m, pos)
      /\ draft'.unrealisedPnlUsd = sumUnrealised(Put(draft.positions, m, pos))
    BY <1>1, <1>2, BookNumbers, Zenon DEF openPosition, BookFields
<1>5. /\ draft'.closedTrades = draft.closedTrades
      /\ draft'.closedCount = draft.closedCount
      /\ draft'.consecutiveLosses = draft.consecutiveLosses
      /\ draft'.daily = draft.daily
    BY <1>1, <1>2, BookNumbers, OpenFields
<1> HIDE DEF pos
<1>6. draft'.positions[m] = pos
    BY <1>4, Zenon DEF Put
<1>7. \A k \in Held(draft) : SamePosition(draft, draft', k)
    BY EnterBook DEF SamePosition
<1>. QED  BY <1>3, <1>4, <1>5, <1>6, <1>7 DEF pos

LEMMA BeginTickPositions ==
    ASSUME TypeOK, NEW prices \in SomePrices, BeginTick(now + 1, prices)
    PROVE  /\ draft'.closedTrades = book.closedTrades
           /\ draft'.closedCount = book.closedCount
           /\ \A k \in Held(book) : SamePosition(book, draft', k)
           /\ book.unrealisedPnlUsd = sumUnrealised(book.positions) =>
                draft'.unrealisedPnlUsd = sumUnrealised(draft'.positions)
<1> DEFINE marks == MarksOf(book, prices)
<1>1. BookOK(book) /\ DOMAIN book = BookFields
    BY BookNumbers DEF TypeOK
<1>2. CASE marks = << >>
    <2>1. draft' = book
        BY <1>2 DEF BeginTick
    <2>. QED  BY <2>1 DEF SamePosition
<1>3. CASE marks # << >>
    <2>1. draft' = markPositions(book, marks)
        BY <1>3 DEF BeginTick
    <2> HIDE DEF marks
    <2>2. /\ Held(draft') = Held(book)
          /\ draft'.closedTrades = book.closedTrades
          /\ draft'.closedCount = book.closedCount
          /\ \A m \in Held(book) :
                draft'.positions[m] = IF m \in DOMAIN marks
                                      THEN Marked(book.positions[m], marks[m])
                                      ELSE book.positions[m]
        BY <1>1, <2>1, MarkFields
    <2>3. \A k \in Held(book) : SamePosition(book, draft', k)
        <3>1. \A k \in Held(book) : book.positions[k] \in PositionType
            BY <1>1 DEF BookOK
        <3>. QED  BY <2>2, <3>1, MarkedFields DEF SamePosition
    <2>4. draft'.unrealisedPnlUsd = sumUnrealised(draft'.positions)
        BY <1>1, <2>1, Zenon DEF markPositions, BookFields
    <2>. QED  BY <2>2, <2>3, <2>4
<1>. QED  BY <1>2, <1>3

-----------------------------------------------------------------------------
(* One decision per mint and tick. *)

ActionType == [kind : {"open", "reduce", "close"}, mint : Mints]

ClosedIn(l) == {l[i].mint : i \in {j \in DOMAIN l : l[j].kind = "close"}}

\* A mint that is still to be decided, or that the tick may still buy, was not
\* sold at this tick's clock.
DecisionInv ==
    /\ TypeOK
    /\ log \in Seq(ActionType)
    /\ OneDecision(book) /\ OneDecision(draft)
    /\ DatedBy(book, now) /\ DatedBy(draft, now)
    /\ \A m \in todo : SoldBefore(draft, m, now)
    /\ pc # "idle" => \A m \in Mints :
          m \notin Held(draft) /\ m \notin ClosedIn(log) => SoldBefore(draft, m, now)

LEMMA LogGrows ==
    ASSUME NEW l \in Seq(ActionType), NEW m \in Mints,
           NEW kind \in {"open", "reduce", "close"}
    PROVE  /\ Append(l, Action(kind, m)) \in Seq(ActionType)
           /\ ClosedIn(Append(l, Action(kind, m))) =
                IF kind = "close" THEN ClosedIn(l) \cup {m} ELSE ClosedIn(l)
<1> DEFINE a == Action(kind, m)
           n == Len(l) + 1
<1>1. a \in ActionType /\ a.kind = kind /\ a.mint = m
    BY DEF Action, ActionType
<1> HIDE DEF a
<1>2. /\ Append(l, a) \in Seq(ActionType)
      /\ DOMAIN Append(l, a) = DOMAIN l \cup {n}
      /\ n \notin DOMAIN l
      /\ \A i \in DOMAIN l : Append(l, a)[i] = l[i]
      /\ Append(l, a)[n] = a
    BY <1>1
<1> DEFINE r == Append(l, a)
<1> HIDE DEF n, r
<1>3. /\ DOMAIN r = DOMAIN l \cup {n}
      /\ \A i \in DOMAIN l : r[i] = l[i]
      /\ r[n].kind = kind /\ r[n].mint = m
    BY <1>1, <1>2 DEF r
<1>4. ClosedIn(r) = IF kind = "close" THEN ClosedIn(l) \cup {m} ELSE ClosedIn(l)
    BY <1>3 DEF ClosedIn
<1>. QED  BY <1>2, <1>4 DEF r, a

\* A day's clock that moves on leaves every sale behind it.
LEMMA TimePasses ==
    ASSUME NEW b, BookOK(b), NEW t \in Nat, DatedBy(b, t)
    PROVE  DatedBy(b, t + 1) /\ \A m : SoldBefore(b, m, t + 1)
<1>1. \A i \in DOMAIN b.closedTrades : b.closedTrades[i].closedTs \in Nat
    BY TradeTimes
<1>2. \A m \in Held(b) : b.positions[m].openedTs \in Nat
    BY TradeTimes
<1>3. DatedBy(b, t + 1)
    BY <1>1, <1>2 DEF DatedBy
<1>4. \A m : SoldBefore(b, m, t + 1)
    BY <1>1 DEF SoldBefore, DatedBy, SalesOf
<1>. QED  BY <1>3, <1>4

LEMMA DecisionStep == DecisionInv /\ [EngineNext]_engineVars => DecisionInv'
<1> SUFFICES ASSUME DecisionInv, [EngineNext]_engineVars
             PROVE  DecisionInv'
    OBVIOUS
<1>0. TypeOK /\ BookOK(book) /\ BookOK(draft) /\ now \in Nat /\ todo \subseteq Held(draft)
      /\ log \in Seq(ActionType)
    BY DEF DecisionInv, TypeOK
<1>t. TypeOK'
    BY <1>0, TypeStep
<1>c. ASSUME book' = draft, draft' = draft, pc' = "idle", todo' = {}, log' = << >>,
             now' = now
      PROVE  DecisionInv'
    BY <1>t, <1>c DEF DecisionInv
<1>1. ASSUME NEW prices \in SomePrices, BeginTick(now + 1, prices)
      PROVE  DecisionInv'
    <2>1. /\ draft'.closedTrades = book.closedTrades
          /\ Held(draft') = Held(book)
          /\ \A k \in Held(book) : SamePosition(book, draft', k)
        BY <1>0, <1>1, BeginTickPositions, BeginTickBook
    <2>2. /\ now' = now + 1 /\ book' = book /\ log' = << >> /\ todo' = Held(book)
        BY <1>1, Zenon DEF BeginTick, committed
    <2>3. /\ DatedBy(book, now + 1) /\ \A m : SoldBefore(book, m, now + 1)
        BY <1>0, TimePasses DEF DecisionInv
    <2>4. /\ OneDecision(draft') /\ DatedBy(draft', now + 1)
          /\ \A m : SoldBefore(draft', m, now + 1)
        BY <2>1, <2>3, SameKeepsOrder DEF DecisionInv
    <2>. QED  BY <1>t, <2>2, <2>3, <2>4 DEF DecisionInv
<1>2. ASSUME NEW m \in todo, Hold(m)
      PROVE  DecisionInv'
    BY <1>t, <1>2 DEF Hold, committed, DecisionInv
<1>3. ASSUME NEW m \in todo, NEW cost \in Int, CloseOut(m, cost)
      PROVE  DecisionInv'
    <2>1. /\ OneSale(draft, draft', m, now) /\ m \in Mints /\ m \in Held(draft)
          /\ \A k \in Held(draft') : SamePosition(draft, draft', k)
        BY <1>0, <1>3, CloseOutSale
    <2>2. BookOK(draft') /\ Held(draft') = Held(draft) \ {m}
        BY <1>0, <1>3, CloseOutBook
    <2>3. /\ pc = "exits" /\ todo' = todo \ {m} /\ log' = Append(log, Action("close", m))
          /\ UNCHANGED <<book, now, pc>>
        BY <1>3, Zenon DEF CloseOut, committed
    <2>4. /\ OneDecision(draft') /\ DatedBy(draft', now)
          /\ \A k \in Mints \ {m} : SoldBefore(draft, k, now) => SoldBefore(draft', k, now)
        BY <1>0, <2>1, <2>2, SaleKeepsOrder DEF DecisionInv
    <2>5. log' \in Seq(ActionType) /\ ClosedIn(log') = ClosedIn(log) \cup {m}
        BY <1>0, <2>1, <2>3, LogGrows
    <2>6. \A k \in todo : k \in Mints
        BY <1>0 DEF BookOK
    <2>. QED  BY <1>t, <2>2, <2>3, <2>4, <2>5, <2>6 DEF DecisionInv
<1>4. ASSUME NEW m \in todo, NEW cost \in Int, ScaleOut(m, cost)
      PROVE  DecisionInv'
    <2>1. /\ OneSale(draft, draft', m, now) /\ m \in Mints /\ m \in Held(draft)
          /\ \A k \in Held(draft') \ {m} : SamePosition(draft, draft', k)
          /\ draft'.positions[m].openedTs = draft.positions[m].openedTs
          /\ draft'.positions[m].scaleOutCount = draft.positions[m].scaleOutCount + 1
          /\ draft.positions[m].scaleOutCount <= 1
        BY <1>0, <1>4, ScaleOutSale
    <2>2. BookOK(draft') /\ Held(draft') = Held(draft)
        BY <1>0, <1>4, ScaleOutBook
    <2>3. /\ pc = "exits" /\ todo' = todo \ {m} /\ log' = Append(log, Action("reduce", m))
          /\ UNCHANGED <<book, now, pc>>
        BY <1>4, Zenon DEF ScaleOut, committed
    <2>4. /\ OneDecision(draft') /\ DatedBy(draft', now)
          /\ \A k \in Mints \ {m} : SoldBefore(draft, k, now) => SoldBefore(draft', k, now)
        BY <1>0, <2>1, <2>2, SaleKeepsOrder DEF DecisionInv
    <2>5. log' \in Seq(ActionType) /\ ClosedIn(log') = ClosedIn(log)
        BY <1>0, <2>1, <2>3, LogGrows
    <2>6. \A k \in todo : k \in Mints
        BY <1>0 DEF BookOK
    <2>. QED  BY <1>t, <2>1, <2>2, <2>3, <2>4, <2>5, <2>6 DEF DecisionInv
<1>5. CASE KillSwitch
    BY <1>c, <1>5 DEF KillSwitch, Commit
<1>6. CASE SwitchClear
    BY <1>t, <1>6 DEF SwitchClear, committed, local, DecisionInv
<1>7. ASSUME NEW m \in Mints, NEW legs \in LegCosts, Enter(m, legs)
      PROVE  DecisionInv'
    <2>1. /\ draft'.closedTrades = draft.closedTrades
          /\ \A k \in Held(draft) : SamePosition(draft, draft', k)
          /\ draft'.positions[m].openedTs = now
          /\ draft'.positions[m].scaleOutCount = 0
        <3>1. \A size, x, ts, c : /\ NewPosition(size, x, ts, c).openedTs = ts
                                  /\ NewPosition(size, x, ts, c).scaleOutCount = 0
            BY DEF NewPosition
        <3>. QED  BY <1>0, <1>7, <3>1, EnterPosition
    <2>2. Held(draft') = Held(draft) \cup {m}
        BY <1>0, <1>7, EnterBook
    <2>3. /\ pc = "entries" /\ m \notin Held(draft) /\ m \notin ClosedIn(log)
          /\ todo' = todo /\ log' = Append(log, Action("open", m))
          /\ UNCHANGED <<book, now, pc>>
        BY <1>7, Zenon DEF Enter, committed, ClosedThisTick, ClosedIn
    <2>4. OneDecision(draft') /\ DatedBy(draft', now)
        BY <1>0, <2>1, <2>2, <2>3, PurchaseKeepsOrder DEF DecisionInv
    <2>5. log' \in Seq(ActionType) /\ ClosedIn(log') = ClosedIn(log)
        BY <1>0, <2>3, LogGrows
    <2>6. \A k : SoldBefore(draft, k, now) => SoldBefore(draft', k, now)
        BY <2>1 DEF SoldBefore, SalesOf
    <2>. QED  BY <1>t, <2>2, <2>3, <2>4, <2>5, <2>6 DEF DecisionInv
<1>8. CASE EndTick
    BY <1>c, <1>8 DEF EndTick, Commit
<1>9. CASE ThrowInTick
    BY <1>t, <1>9 DEF ThrowInTick, committed, DecisionInv
<1>10. CASE UNCHANGED engineVars
    BY <1>t, <1>10 DEF engineVars, DecisionInv
<1>. QED
    BY <1>0, <1>1, <1>2, <1>3, <1>4, <1>5, <1>6, <1>7, <1>8, <1>9, <1>10, StepCases

LEMMA DecisionInit == Init => DecisionInv
<1> SUFFICES ASSUME Init
             PROVE  DecisionInv
    OBVIOUS
<1>1. /\ Held(emptyPortfolio) = {} /\ emptyPortfolio.closedTrades = << >>
    BY EmptyFields
<1>2. OneDecision(emptyPortfolio) /\ DatedBy(emptyPortfolio, 0)
    BY <1>1 DEF OneDecision, DatedBy
<1>. QED  BY <1>2, TypeInit DEF Init, DecisionInv

\* A mint is decided once in a tick: it is never bought at the clock of a sale
\* of it, no position is sold twice at one clock, and its sales are the rungs it
\* has counted, two at most, over any number of ticks, re-entries and throws.
THEOREM OneDecisionPerTick == Spec => []OneDecisionPerMintPerTick
<1>1. DecisionInv => OneDecisionPerMintPerTick
    BY DEF DecisionInv, OneDecision, OneDecisionPerMintPerTick, SalesOf, OwnSales
<1>. QED  BY <1>1, DecisionInit, DecisionStep, PTL DEF Spec, Next

-----------------------------------------------------------------------------
(* The kill switch. *)

\* The book's unrealised figure is the sum over its positions.
GainsUpToDate(b) == b.unrealisedPnlUsd = Total(OpenGains(b.positions))

\* The sales of a tick buy nothing, and its entries leave the limits clear: a
\* position bought at the tick's own price adds nothing to the unrealised P&L.
SwitchInv ==
    /\ TypeOK
    /\ GainsUpToDate(book) /\ GainsUpToDate(draft)
    /\ pc = "exits" => Held(draft) \subseteq Held(book)
    /\ pc = "entries" => ~ shouldKillSwitch(draft, now)

LEMMA GainsAreSummed ==
    ASSUME NEW ps
    PROVE  sumUnrealised(ps) = Total(OpenGains(ps))
    BY DEF sumUnrealised, Total, OpenGains

\* The limits read three figures of a book.
LEMMA SwitchReads ==
    ASSUME NEW b, NEW r, NEW ts, r.daily = b.daily,
           r.consecutiveLosses = b.consecutiveLosses,
           r.unrealisedPnlUsd = b.unrealisedPnlUsd
    PROVE  shouldKillSwitch(r, ts) = shouldKillSwitch(b, ts)
    BY Zenon DEF shouldKillSwitch, DailyLossTripped, DailyPnl, RealisedOn

LEMMA SwitchStep == SwitchInv /\ [EngineNext]_engineVars => SwitchInv'
<1> SUFFICES ASSUME SwitchInv, [EngineNext]_engineVars
             PROVE  SwitchInv'
    OBVIOUS
<1>0. TypeOK /\ BookOK(book) /\ BookOK(draft) /\ todo \subseteq Held(draft)
    BY DEF SwitchInv, TypeOK
<1>t. TypeOK'
    BY <1>0, TypeStep
<1>c. ASSUME book' = draft, draft' = draft, pc' = "idle"
      PROVE  SwitchInv'
    BY <1>t, <1>c DEF SwitchInv
<1>1. ASSUME NEW prices \in SomePrices, BeginTick(now + 1, prices)
      PROVE  SwitchInv'
    <2>1. Held(draft') = Held(book)
        BY <1>0, <1>1, BeginTickBook
    <2>2. GainsUpToDate(draft')
        BY <1>0, <1>1, BeginTickPositions, GainsAreSummed DEF SwitchInv, GainsUpToDate
    <2>3. pc' = "exits" /\ book' = book
        BY <1>1, Zenon DEF BeginTick, committed
    <2>. QED  BY <1>t, <2>1, <2>2, <2>3 DEF SwitchInv
<1>2. ASSUME NEW m \in todo, Hold(m)
      PROVE  SwitchInv'
    BY <1>t, <1>2 DEF Hold, committed, SwitchInv
<1>3. ASSUME NEW m \in todo, NEW cost \in Int, CloseOut(m, cost)
      PROVE  SwitchInv'
    <2>1. Held(draft') = Held(draft) \ {m}
        BY <1>0, <1>3, CloseOutBook
    <2>2. GainsUpToDate(draft')
        BY <1>0, <1>3, CloseOutSale, GainsAreSummed DEF GainsUpToDate
    <2>3. pc = "exits" /\ pc' = pc /\ book' = book
        BY <1>3, Zenon DEF CloseOut, committed
    <2>. QED  BY <1>t, <2>1, <2>2, <2>3 DEF SwitchInv
<1>4. ASSUME NEW m \in todo, NEW cost \in Int, ScaleOut(m, cost)
      PROVE  SwitchInv'
    <2>1. Held(draft') = Held(draft)
        BY <1>0, <1>4, ScaleOutBook
    <2>2. GainsUpToDate(draft')
        BY <1>0, <1>4, ScaleOutSale, GainsAreSummed DEF GainsUpToDate
    <2>3. pc = "exits" /\ pc' = pc /\ book' = book
        BY <1>4, Zenon DEF ScaleOut, committed
    <2>. QED  BY <1>t, <2>1, <2>2, <2>3 DEF SwitchInv
<1>5. CASE KillSwitch
    BY <1>c, <1>5 DEF KillSwitch, Commit
<1>6. CASE SwitchClear
    BY <1>t, <1>6 DEF SwitchClear, committed, local, SwitchInv
<1>7. ASSUME NEW m \in Mints, NEW legs \in LegCosts, Enter(m, legs)
      PROVE  SwitchInv'
    <2> DEFINE pos == NewPosition(PositionSize, price[m], now, legs[1])
    <2>1. /\ draft'.daily = draft.daily
          /\ draft'.consecutiveLosses = draft.consecutiveLosses
          /\ draft'.positions = Put(draft.positions, m, pos)
          /\ draft'.unrealisedPnlUsd = sumUnrealised(draft'.positions)
          /\ pos \in PositionType
        BY <1>0, <1>7, EnterPosition
    <2>2. pos.unrealisedPnlUsd = 0
        BY DEF NewPosition
    <2> HIDE DEF pos
    <2>3. /\ pc = "entries" /\ pc' = pc /\ book' = book /\ now' = now
          /\ m \notin DOMAIN draft.positions
        BY <1>7, Zenon DEF Enter, committed, Held
    <2>4. Positions(draft.positions) /\ Total(OpenGains(draft.positions)) \in Int
        BY <1>0, BookPositions, OpenSumsType
    <2>5. Total(OpenGains(draft'.positions)) = Total(OpenGains(draft.positions))
        <3>1. Total(OpenGains(Put(draft.positions, m, pos))) =
                 Total(OpenGains(draft.positions))
                   - (IF m \in DOMAIN draft.positions
                      THEN draft.positions[m].unrealisedPnlUsd ELSE 0)
                   + pos.unrealisedPnlUsd
            BY <2>1, <2>4, PutSums
        <3>. QED  BY <2>1, <2>2, <2>3, <2>4, <3>1
    <2>6. GainsUpToDate(draft') /\ draft'.unrealisedPnlUsd = draft.unrealisedPnlUsd
        BY <2>1, <2>5, GainsAreSummed DEF SwitchInv, GainsUpToDate
    <2>7. ~ shouldKillSwitch(draft', now')
        BY <2>1, <2>3, <2>6, SwitchReads DEF SwitchInv
    <2>. QED  BY <1>t, <2>3, <2>6, <2>7 DEF SwitchInv
<1>8. CASE EndTick
    BY <1>c, <1>8 DEF EndTick, Commit
<1>9. CASE ThrowInTick
    BY <1>t, <1>9 DEF ThrowInTick, committed, SwitchInv
<1>10. CASE UNCHANGED engineVars
    BY <1>t, <1>10 DEF engineVars, SwitchInv, shouldKillSwitch, DailyLossTripped,
                       DailyPnl, RealisedOn
<1>. QED
    BY <1>0, <1>1, <1>2, <1>3, <1>4, <1>5, <1>6, <1>7, <1>8, <1>9, <1>10, StepCases

LEMMA SwitchInit == Init => SwitchInv
<1> SUFFICES ASSUME Init
             PROVE  SwitchInv
    OBVIOUS
<1>1. Held(emptyPortfolio) = {} /\ BookOK(emptyPortfolio)
    BY EmptyFields, EmptyBook
<1>2. GainsUpToDate(emptyPortfolio)
    <2>1. emptyPortfolio.unrealisedPnlUsd = 0
        BY DEF emptyPortfolio
    <2>2. DOMAIN OpenGains(emptyPortfolio.positions) = {}
        BY <1>1 DEF OpenGains, Held
    <2>. QED  BY <2>1, <2>2, TotalEmpty DEF GainsUpToDate
<1>. QED  BY <1>2, TypeInit DEF Init, SwitchInv

\* Only the end of a tick changes the committed book.
LEMMA BookChanges ==
    ASSUME TypeOK, [EngineNext]_engineVars, book' # book
    PROVE  KillSwitch \/ EndTick
    BY StepCases, Zenon
       DEF BeginTick, Hold, CloseOut, ScaleOut, SwitchClear, Enter,
           ThrowInTick, committed, engineVars

\* No tick ends with a position bought while the limits were tripped, whatever
\* its marks and sales did to the day's P&L and to the streak before.
THEOREM SwitchStopsEntries == Spec => KillSwitchStopsEntries
<1> DEFINE Step == Held(book') \ Held(book) # {} => ~ shouldKillSwitch(book', now)
<1>1. SwitchInv /\ [EngineNext]_engineVars => [Step]_book
    <2> SUFFICES ASSUME SwitchInv, [EngineNext]_engineVars, book' # book
                 PROVE  Step
        OBVIOUS
    <2>1. KillSwitch \/ EndTick
        BY BookChanges DEF SwitchInv
    <2>2. CASE KillSwitch
        <3>1. book' = draft /\ pc = "exits"
            BY <2>2 DEF KillSwitch, Commit
        <3>. QED  BY <3>1 DEF SwitchInv
    <2>3. CASE EndTick
        <3>1. book' = draft /\ pc = "entries"
            BY <2>3 DEF EndTick, Commit
        <3>. QED  BY <3>1 DEF SwitchInv
    <2>. QED  BY <2>1, <2>2, <2>3
<1>. QED
    BY <1>1, SwitchInit, SwitchStep, PTL DEF Spec, Next, KillSwitchStopsEntries

-----------------------------------------------------------------------------
(* Every exit is decided. *)

Reduced(l, k) == \E i \in DOMAIN l : l[i] = Action("reduce", k)

\* Asked again about k, decideExit holds, or k has just been scaled out of.
Settled(b, h, p, l, k, ts) ==
    \/ Reduced(l, k)
    \/ ~ decideExit(b.positions[k], p[k], h[k], ts).when

CompleteInv ==
    /\ PeaksInv /\ DecisionInv
    /\ pc # "idle" => \A k \in Held(draft) \cap DOMAIN price :
                         k \in todo \/ Settled(draft, high, price, log, k, now)

\* A position bought at this tick's price and clock meets no exit rule.
LEMMA QuietAtEntry ==
    ASSUME NEW pos, NEW x \in Nat \ {0}, NEW ts \in Nat,
           pos.entryPriceUsd = x, pos.openedTs = ts
    PROVE  ~ decideExit(pos, x, x, ts).when
<1> DEFINE rules == ExitRules(pos, x, x, ts)
<1>1. Hundred * (x - x) = 0
    BY DEF Hundred
<1>2. /\ StopLossPct * x > 0 /\ (-StopLossPct) * x = -(StopLossPct * x)
      /\ StopLossPct * x \in Nat
      /\ TrailingArmsAtPct * x \in Nat /\ TrailingArmsAtPct * x > 0
      /\ LadderOnePct * x > 0 /\ LadderTwoPct * x > 0
    BY EngineAssumption DEF LadderOnePct, LadderTwoPct
<1>3. ~ StopHit(pos, x)
    BY <1>1, <1>2 DEF StopHit, GainAtMost
<1>4. ~ RungDue(pos, x, 0, LadderOnePct) /\ ~ RungDue(pos, x, 1, LadderTwoPct)
    BY <1>1, <1>2 DEF RungDue, GainAtLeast, LadderOnePct, LadderTwoPct
<1>5. ~ AtFloor(pos, x, x) /\ ~ OffTrail(pos, x, x)
    <2>1. ~ Armed(pos, x)
        BY <1>1, <1>2 DEF Armed, GainAtLeast
    <2>. QED  BY <2>1 DEF AtFloor, OffTrail
<1>6. ~ TimeUp(pos, ts)
    BY EngineAssumption DEF TimeUp
<1>7. /\ rules[1] = Rule(StopHit(pos, x), Whole)
      /\ rules[2] = Rule(RungDue(pos, x, 0, LadderOnePct), LadderOne)
      /\ rules[3] = Rule(RungDue(pos, x, 1, LadderTwoPct), LadderTwo)
      /\ rules[4] = Rule(AtFloor(pos, x, x), Whole)
      /\ rules[5] = Rule(OffTrail(pos, x, x), Whole)
      /\ rules[6] = Rule(TimeUp(pos, ts), Whole)
    BY DEF ExitRules
<1>8. DOMAIN rules = 1..6
    BY RulesShape
<1>9. \A cond, fraction : Rule(cond, fraction).when = cond
    BY DEF Rule
<1> HIDE DEF rules
<1>10. rules[1].when = StopHit(pos, x) /\ rules[4].when = AtFloor(pos, x, x)
    BY <1>7, <1>9, Zenon
<1>11. rules[5].when = OffTrail(pos, x, x) /\ rules[6].when = TimeUp(pos, ts)
    BY <1>7, <1>9, Zenon
<1>14. /\ rules[2].when = RungDue(pos, x, 0, LadderOnePct)
       /\ rules[3].when = RungDue(pos, x, 1, LadderTwoPct)
    BY <1>7, <1>9, Zenon
<1>12. {i \in DOMAIN rules : rules[i].when} = {}
    <2>1. ASSUME NEW i \in 1..6
          PROVE  ~ rules[i].when
        <3>1. i = 1 \/ i = 2 \/ i = 3 \/ i = 4 \/ i = 5 \/ i = 6
            OBVIOUS
        <3>2. i \in {1, 4} => ~ rules[i].when
            BY <1>3, <1>5, <1>10, Zenon
        <3>3. i \in {5, 6} => ~ rules[i].when
            BY <1>5, <1>6, <1>11, Zenon
        <3>4. i \in {2, 3} => ~ rules[i].when
            BY <1>4, <1>14, Zenon
        <3>. QED  BY <3>1, <3>2, <3>3, <3>4
    <2>. QED  BY <1>8, <2>1
<1>13. ~ NoExit.when
    BY DEF NoExit, Rule
<1>. QED  BY <1>12, <1>13, Zenon DEF decideExit, rules

\* What is settled stays so while the log grows and others are decided.
LEMMA StaysSettled ==
    ASSUME NEW b, NEW h, NEW p, NEW l \in Seq(ActionType), NEW k, NEW ts,
           NEW c, NEW g, NEW a \in ActionType,
           Settled(b, h, p, l, k, ts),
           c.positions[k] = b.positions[k], g[k] = h[k]
    PROVE  Settled(c, g, p, Append(l, a), k, ts)
<1>1. /\ DOMAIN l \subseteq DOMAIN Append(l, a)
      /\ \A i \in DOMAIN l : Append(l, a)[i] = l[i]
    OBVIOUS
<1>2. Reduced(l, k) => Reduced(Append(l, a), k)
    BY <1>1, Zenon DEF Reduced
<1>. QED  BY <1>2, Zenon DEF Settled

LEMMA ActionIsTyped ==
    ASSUME NEW m \in Mints
    PROVE  /\ Action("open", m) \in ActionType
           /\ Action("reduce", m) \in ActionType
           /\ Action("close", m) \in ActionType
    BY DEF Action, ActionType

LEMMA CompleteStep == CompleteInv /\ [EngineNext]_engineVars => CompleteInv'
<1> DEFINE Complete(b, h, p, l, t, ts) ==
               \A k \in Held(b) \cap DOMAIN p : k \in t \/ Settled(b, h, p, l, k, ts)
<1> SUFFICES ASSUME CompleteInv, [EngineNext]_engineVars
             PROVE  pc' # "idle" => Complete(draft', high', price', log', todo', now')
    BY PeaksStep, DecisionStep DEF CompleteInv
<1>0. /\ TypeOK /\ BookOK(draft) /\ now \in Nat /\ todo \subseteq Held(draft)
      /\ log \in Seq(ActionType)
      /\ pc # "idle" => DOMAIN high = Held(draft)
      /\ pc # "idle" => Complete(draft, high, price, log, todo, now)
    BY DEF CompleteInv, DecisionInv, TypeOK, PeaksInv, PeaksOf
<1>m. todo \subseteq Mints
    BY <1>0 DEF BookOK
<1>1. ASSUME NEW prices \in SomePrices, BeginTick(now + 1, prices)
      PROVE  Complete(draft', high', price', log', todo', now')
    <2>1. Held(draft') = Held(book)
        BY <1>0, <1>1, BeginTickBook
    <2>2. todo' = Held(book)
        BY <1>1, Zenon DEF BeginTick
    <2>. QED  BY <2>1, <2>2
<1>2. ASSUME NEW m \in todo, Hold(m)
      PROVE  Complete(draft', high', price', log', todo', now')
    <2>1. /\ pc = "exits" /\ todo' = todo \ {m}
          /\ UNCHANGED <<draft, high, price, log, now>>
          /\ m \in DOMAIN price =>
               ~ decideExit(draft.positions[m], price[m], high[m], now).when
        BY <1>2, Zenon DEF Hold
    <2>2. m \in DOMAIN price => Settled(draft, high, price, log, m, now)
        BY <2>1 DEF Settled
    <2>. QED  BY <1>0, <2>1, <2>2
<1>3. ASSUME NEW m \in todo, NEW cost \in Int, CloseOut(m, cost)
      PROVE  Complete(draft', high', price', log', todo', now')
    <2>1. /\ Held(draft') = Held(draft) \ {m}
          /\ \A k \in Held(draft') : draft'.positions[k] = draft.positions[k]
        BY <1>0, <1>3, CloseOutBook
    <2>2. /\ pc = "exits" /\ high' = ForgetPeak(high, m) /\ todo' = todo \ {m}
          /\ price' = price /\ now' = now /\ log' = Append(log, Action("close", m))
        BY <1>3, Zenon DEF CloseOut
    <2>3. \A k \in DOMAIN high \ {m} : high'[k] = high[k]
        BY <2>2, DropFields DEF ForgetPeak
    <2>4. Action("close", m) \in ActionType
        BY <1>m, ActionIsTyped
    <2>5. ASSUME NEW k \in Held(draft') \cap DOMAIN price'
          PROVE  k \in todo' \/ Settled(draft', high', price', log', k, now')
        <3>1. /\ k \in Held(draft) /\ k # m /\ k \in DOMAIN price
              /\ draft'.positions[k] = draft.positions[k] /\ high'[k] = high[k]
            BY <1>0, <2>1, <2>2, <2>3, <2>5
        <3>2. k \in todo \/ Settled(draft, high, price, log, k, now)
            BY <1>0, <2>2, <3>1
        <3>. QED  BY <1>0, <2>2, <2>4, <3>1, <3>2, StaysSettled
    <2>. QED  BY <2>5
<1>4. ASSUME NEW m \in todo, NEW cost \in Int, ScaleOut(m, cost)
      PROVE  Complete(draft', high', price', log', todo', now')
    <2>1. /\ Held(draft') = Held(draft)
          /\ \A k \in Held(draft) \ {m} : draft'.positions[k] = draft.positions[k]
        BY <1>0, <1>4, ScaleOutBook
    <2>2. /\ pc = "exits" /\ high' = high /\ todo' = todo \ {m}
          /\ price' = price /\ now' = now /\ log' = Append(log, Action("reduce", m))
        BY <1>4, Zenon DEF ScaleOut
    <2>3. Action("reduce", m) \in ActionType
        BY <1>m, ActionIsTyped
    <2>4. Reduced(log', m)
        <3>1. /\ Len(log) + 1 \in DOMAIN Append(log, Action("reduce", m))
              /\ Append(log, Action("reduce", m))[Len(log) + 1] = Action("reduce", m)
            BY <1>0, <2>3
        <3>. QED  BY <2>2, <3>1, Zenon DEF Reduced
    <2>5. ASSUME NEW k \in Held(draft') \cap DOMAIN price', k # m
          PROVE  k \in todo' \/ Settled(draft', high', price', log', k, now')
        <3>1. k \in Held(draft) /\ draft'.positions[k] = draft.positions[k]
            BY <2>1, <2>5
        <3>2. k \in todo \/ Settled(draft, high, price, log, k, now)
            BY <1>0, <2>2, <2>5, <3>1
        <3>. QED  BY <1>0, <2>2, <2>3, <2>5, <3>1, <3>2, StaysSettled
    <2>6. Settled(draft', high', price', log', m, now')
        BY <2>4 DEF Settled
    <2>. QED  BY <2>5, <2>6
<1>5. KillSwitch \/ EndTick \/ ThrowInTick => pc' = "idle"
    BY DEF KillSwitch, EndTick, ThrowInTick, Commit
<1>6. ASSUME SwitchClear
      PROVE  Complete(draft', high', price', log', todo', now')
    BY <1>0, <1>6 DEF SwitchClear, committed, local
<1>7. ASSUME NEW m \in Mints, NEW legs \in LegCosts, Enter(m, legs)
      PROVE  Complete(draft', high', price', log', todo', now')
    <2>1. /\ Held(draft') = Held(draft) \cup {m}
          /\ draft'.positions[m].entryPriceUsd = price[m]
          /\ \A k \in Held(draft) : draft'.positions[k] = draft.positions[k]
        BY <1>0, <1>7, EnterBook
    <2>2. draft'.positions[m].openedTs = now
        <3>1. \A size, x, ts, c : NewPosition(size, x, ts, c).openedTs = ts
            BY DEF NewPosition
        <3>. QED  BY <1>0, <1>7, <3>1, EnterPosition
    <2>3. /\ pc = "entries" /\ high' = Put(high, m, price[m]) /\ todo' = todo
          /\ price' = price /\ now' = now /\ log' = Append(log, Action("open", m))
          /\ m \in DOMAIN price /\ m \notin Held(draft)
        BY <1>7, Zenon DEF Enter
    <2>4. \A k \in DOMAIN high \cup {m} : high'[k] = IF k = m THEN price[m] ELSE high[k]
        BY <2>3, Zenon DEF Put
    <2>5. price[m] \in Nat \ {0} /\ todo = {}
        BY <1>0, <2>3, EngineAssumption DEF TypeOK
    <2>6. Settled(draft', high', price', log', m, now')
        <3>1. high'[m] = price[m]
            BY <2>4
        <3>2. ~ decideExit(draft'.positions[m], price[m], price[m], now).when
            BY <1>0, <2>1, <2>2, <2>5, QuietAtEntry
        <3>. QED  BY <2>3, <3>1, <3>2, Zenon DEF Settled
    <2>7. Action("open", m) \in ActionType
        BY ActionIsTyped
    <2>8. ASSUME NEW k \in Held(draft') \cap DOMAIN price', k # m
          PROVE  Settled(draft', high', price', log', k, now')
        <3>1. /\ k \in Held(draft) /\ draft'.positions[k] = draft.positions[k]
              /\ high'[k] = high[k]
            BY <1>0, <2>1, <2>3, <2>4, <2>8
        <3>2. Settled(draft, high, price, log, k, now)
            BY <1>0, <2>3, <2>5, <2>8, <3>1
        <3>. QED  BY <1>0, <2>3, <2>7, <3>1, <3>2, StaysSettled
    <2>. QED  BY <2>6, <2>8
<1>8. CASE UNCHANGED engineVars
    BY <1>0, <1>8 DEF engineVars
<1> HIDE DEF Complete
<1>. QED
    BY <1>0, <1>1, <1>2, <1>3, <1>4, <1>5, <1>6, <1>7, <1>8, StepCases

\* No committed tick has left an exit undecided: gaps in the prices, sales of
\* other positions and purchases in the same tick included.
THEOREM ExitsAreDecided == Spec => ExitsAreComplete
<1> DEFINE Step == \A m \in Held(book') \cap DOMAIN price :
                      \/ \E i \in DOMAIN actions' : actions'[i] = Action("reduce", m)
                      \/ ~ decideExit(book'.positions[m], price[m], peaks'[m], now).when
<1>1. CompleteInv /\ [EngineNext]_engineVars => [Step]_book
    <2> SUFFICES ASSUME CompleteInv, [EngineNext]_engineVars, book' # book
                 PROVE  Step
        OBVIOUS
    <2>1. KillSwitch \/ EndTick
        BY BookChanges DEF CompleteInv, DecisionInv
    <2>2. \E more : /\ actions' = log \o more
                    /\ more \in {<< >>, <<[kind |-> "kill-switch"]>>}
        BY <2>1 DEF KillSwitch, EndTick, Commit
    <2>3. book' = draft /\ peaks' = high /\ pc # "idle" /\ todo = {}
        BY <2>1 DEF KillSwitch, EndTick, Commit, CompleteInv, DecisionInv, TypeOK
    <2>4. \A i \in DOMAIN log : i \in DOMAIN actions' /\ actions'[i] = log[i]
        <3> DEFINE Entry == ActionType \cup {[kind |-> "kill-switch"]}
        <3>1. PICK more : /\ actions' = log \o more
                          /\ more \in {<< >>, <<[kind |-> "kill-switch"]>>}
            BY <2>2
        <3>2. log \in Seq(Entry)
            BY DEF CompleteInv, DecisionInv
        <3>3. more \in Seq(Entry)
            <4>1. [kind |-> "kill-switch"] \in Entry
                OBVIOUS
            <4> HIDE DEF Entry
            <4>2. << >> \in Seq(Entry)
                OBVIOUS
            <4>3. \A e \in Entry : <<e>> \in Seq(Entry)
                OBVIOUS
            <4>4. <<[kind |-> "kill-switch"]>> \in Seq(Entry)
                BY <4>1, <4>3, Zenon
            <4>. QED  BY <3>1, <4>2, <4>4, Zenon
        <3> HIDE DEF Entry
        <3>. QED  BY <3>1, <3>2, <3>3
    <2>5. ASSUME NEW m \in Held(book') \cap DOMAIN price
          PROVE  \/ \E i \in DOMAIN actions' : actions'[i] = Action("reduce", m)
                 \/ ~ decideExit(book'.positions[m], price[m], peaks'[m], now).when
        <3>1. Settled(draft, high, price, log, m, now)
            BY <2>3 DEF CompleteInv
        <3>. QED  BY <2>3, <2>4, <3>1, Zenon DEF Settled, Reduced
    <2>. QED  BY <2>5
<1>2. Init => CompleteInv
    <2> SUFFICES ASSUME Init
                 PROVE  CompleteInv
        OBVIOUS
    <2>1. PeaksOf(emptyPortfolio, << >>)
        BY EmptyFields DEF PeaksOf
    <2>. QED  BY <2>1, TypeInit, DecisionInit DEF Init, CompleteInv, PeaksInv
<1>. QED
    BY <1>1, <1>2, CompleteStep, PTL DEF Spec, Next, ExitsAreComplete

-----------------------------------------------------------------------------
(* Portfolio's operators, as Engine sees them, are Ledger's. *)

LEMMA SameOperators ==
    /\ Ledger_!emptyPortfolio = emptyPortfolio
    /\ \A b : Ledger_!Held(b) = Held(b)
    /\ \A b : Ledger_!Usable(b) = Usable(b)
    /\ \A ps, m, pos : Ledger_!Put(ps, m, pos) = Put(ps, m, pos)
    /\ \A ps, m : Ledger_!Drop(ps, m) = Drop(ps, m)
    /\ \A pos, x : Ledger_!Marked(pos, x) = Marked(pos, x)
    /\ \A pos : Ledger_!WholeSlice(pos) = WholeSlice(pos)
    /\ \A pos, n, d : Ledger_!PartSlice(pos, n, d) = PartSlice(pos, n, d)
    /\ \A s, x, ts, c : Ledger_!NewPosition(s, x, ts, c) = NewPosition(s, x, ts, c)
<1>1. Ledger_!emptyPortfolio = emptyPortfolio
    BY DEF Ledger_!emptyPortfolio, emptyPortfolio
<1>2. \A b : Ledger_!Held(b) = Held(b)
    BY DEF Ledger_!Held, Held
<1>3. \A b : Ledger_!Usable(b) = Usable(b)
    BY DEF Ledger_!Usable, Usable
<1>4. \A ps, m, pos : Ledger_!Put(ps, m, pos) = Put(ps, m, pos)
    BY DEF Ledger_!Put, Put
<1>5. \A ps, m : Ledger_!Drop(ps, m) = Drop(ps, m)
    BY DEF Ledger_!Drop, Drop
<1>6. \A pos, x : Ledger_!Marked(pos, x) = Marked(pos, x)
    BY DEF Ledger_!Marked, Marked, Ledger_!Gross, Gross
<1>7. \A pos : Ledger_!WholeSlice(pos) = WholeSlice(pos)
    BY DEF Ledger_!WholeSlice, WholeSlice
<1>8. \A pos, n, d : Ledger_!PartSlice(pos, n, d) = PartSlice(pos, n, d)
    BY DEF Ledger_!PartSlice, PartSlice
<1>9. \A s, x, ts, c : Ledger_!NewPosition(s, x, ts, c) = NewPosition(s, x, ts, c)
    BY DEF Ledger_!NewPosition, NewPosition
<1>. QED  BY <1>1, <1>2, <1>3, <1>4, <1>5, <1>6, <1>7, <1>8, <1>9

LEMMA SameSumOperator == \A ps : Ledger_!sumUnrealised(ps) = sumUnrealised(ps)
    BY Zenon DEF Ledger_!sumUnrealised, sumUnrealised, Ledger_!FoldFunction, FoldFunction,
           Ledger_!FoldFunctionOnSet, FoldFunctionOnSet, Ledger_!MapThenFoldSet, MapThenFoldSet

LEMMA SameRealise ==
    ASSUME NEW b, NEW m, NEW slice, NEW x, NEW ts, NEW c, NEW ps
    PROVE  Ledger_!Realise(b, m, slice, x, ts, c, ps) = Realise(b, m, slice, x, ts, c, ps)
<1>1. Ledger_!Gross(slice.qty, b.positions[m].entryPriceUsd, x)
          = Gross(slice.qty, b.positions[m].entryPriceUsd, x)
    BY DEF Ledger_!Gross, Gross
<1>2. Ledger_!NetPnl(b.positions[m], slice, x, c) = NetPnl(b.positions[m], slice, x, c)
    BY <1>1 DEF Ledger_!NetPnl, NetPnl
<1>3. Ledger_!Trade(m, b.positions[m], slice, x, ts, c)
          = Trade(m, b.positions[m], slice, x, ts, c)
    BY <1>2 DEF Ledger_!Trade, Trade
<1>4. \A net : Ledger_!StreakAfter(b, net) = StreakAfter(b, net)
    BY DEF Ledger_!StreakAfter, StreakAfter
<1>5. \A net : Ledger_!DailyAfter(b, Ledger_!dayKey(ts), net)
                   = DailyAfter(b, dayKey(ts), net)
    BY DEF Ledger_!DailyAfter, DailyAfter, Ledger_!RealisedOn, RealisedOn,
           Ledger_!dayKey, dayKey, Ledger_!Put, Put
<1>6. Ledger_!sumUnrealised(ps) = sumUnrealised(ps)
    BY SameSumOperator
<1>. QED
    BY <1>1, <1>2, <1>3, <1>4, <1>5, <1>6, Zenon DEF Ledger_!Realise, Realise

LEMMA SameOpen ==
    ASSUME NEW b, NEW m, NEW s, NEW x, NEW ts, NEW c
    PROVE  Ledger_!openPosition(b, m, s, x, ts, c) = openPosition(b, m, s, x, ts, c)
<1>1. Ledger_!Put(b.positions, m, Ledger_!NewPosition(s, x, ts, c))
          = Put(b.positions, m, NewPosition(s, x, ts, c))
    BY SameOperators
<1>2. Ledger_!sumUnrealised(Put(b.positions, m, NewPosition(s, x, ts, c)))
          = sumUnrealised(Put(b.positions, m, NewPosition(s, x, ts, c)))
    BY SameSumOperator
<1>. QED
    BY <1>1, <1>2, Zenon
       DEF Ledger_!openPosition, openPosition, Ledger_!Spend, Spend

LEMMA SameSales ==
    ASSUME NEW b, NEW m, NEW n, NEW d, NEW x, NEW ts, NEW c
    PROVE  /\ Ledger_!closePosition(b, m, x, ts, c) = closePosition(b, m, x, ts, c)
           /\ Ledger_!reducePosition(b, m, n, d, x, ts, c)
                 = reducePosition(b, m, n, d, x, ts, c)
           /\ Ledger_!CanSell(b, m, x, ts, c) = CanSell(b, m, x, ts, c)
<1>1. /\ Ledger_!WholeSlice(b.positions[m]) = WholeSlice(b.positions[m])
      /\ Ledger_!PartSlice(b.positions[m], n, d) = PartSlice(b.positions[m], n, d)
      /\ Ledger_!Drop(b.positions, m) = Drop(b.positions, m)
    BY SameOperators
<1> DEFINE slice == PartSlice(b.positions[m], n, d)
           rest == Remainder(b.positions[m], slice, x)
<1>2. Ledger_!Remainder(b.positions[m], slice, x) = rest
    BY Zenon DEF Ledger_!Remainder, Remainder, Ledger_!Marked, Marked, Ledger_!Gross, Gross
<1>3. Ledger_!Put(b.positions, m, rest) = Put(b.positions, m, rest)
    BY SameOperators
<1>4. /\ Ledger_!Realise(b, m, slice, x, ts, c, Put(b.positions, m, rest))
           = Realise(b, m, slice, x, ts, c, Put(b.positions, m, rest))
      /\ Ledger_!Realise(b, m, WholeSlice(b.positions[m]), x, ts, c, Drop(b.positions, m))
           = Realise(b, m, WholeSlice(b.positions[m]), x, ts, c, Drop(b.positions, m))
    BY SameRealise
<1>5. Ledger_!closePosition(b, m, x, ts, c) = closePosition(b, m, x, ts, c)
    BY <1>1, <1>4, Zenon DEF Ledger_!closePosition, closePosition
<1>6. Ledger_!reducePosition(b, m, n, d, x, ts, c) = reducePosition(b, m, n, d, x, ts, c)
    BY <1>1, <1>2, <1>3, <1>4, Zenon DEF Ledger_!reducePosition, reducePosition
<1>7. Ledger_!CanSell(b, m, x, ts, c) = CanSell(b, m, x, ts, c)
    BY Zenon DEF Ledger_!CanSell, CanSell, Ledger_!Usable, Usable, Ledger_!Held, Held
<1>. QED  BY <1>5, <1>6, <1>7

LEMMA SameMarks ==
    ASSUME NEW b, NEW marks
    PROVE  /\ Ledger_!markPositions(b, marks) = markPositions(b, marks)
           /\ Ledger_!CanMark(b, marks) = CanMark(b, marks)
<1> DEFINE ps == [m \in Held(b) |-> IF m \in DOMAIN marks
                                    THEN Marked(b.positions[m], marks[m])
                                    ELSE b.positions[m]]
           qs == [m \in Ledger_!Held(b) |-> IF m \in DOMAIN marks
                                    THEN Ledger_!Marked(b.positions[m], marks[m])
                                    ELSE b.positions[m]]
<1>1. ps = qs
    BY SameOperators
<1>2. Ledger_!sumUnrealised(ps) = sumUnrealised(ps)
    BY SameSumOperator
<1>3. markPositions(b, marks) = [b EXCEPT !.positions = ps,
                                          !.unrealisedPnlUsd = sumUnrealised(ps)]
    BY Zenon DEF markPositions
<1>4. Ledger_!markPositions(b, marks) =
          [b EXCEPT !.positions = qs, !.unrealisedPnlUsd = Ledger_!sumUnrealised(qs)]
    BY Zenon DEF Ledger_!markPositions
<1> HIDE DEF ps, qs
<1>5. Ledger_!CanMark(b, marks) = CanMark(b, marks)
    BY Zenon DEF Ledger_!CanMark, CanMark, Ledger_!Usable, Usable, Ledger_!Held, Held
<1>. QED  BY <1>1, <1>2, <1>3, <1>4, <1>5

LEMMA SameCanOpen ==
    \A b, m, s, x, c, ok :
          Ledger_!CanOpen(b, m, s, x, c, ok) = CanOpen(b, m, s, x, c, ok)
    BY Zenon DEF Ledger_!CanOpen, CanOpen, Ledger_!Usable, Usable, Ledger_!Held, Held,
                 Ledger_!Cardinality, Cardinality

-----------------------------------------------------------------------------
(* Every step is a call of portfolio.js. *)

\* What is left of an entry leg after no rung, one and two.
EntryLegs == {legs[1] : legs \in LegCosts}
LeftAfterOne == {c - Share(c, LadderOne) : c \in EntryLegs}
LeftAfterTwo == {c - Share(c, LadderTwo) : c \in LeftAfterOne}

LeftAfter(sold) == IF sold = 0 THEN EntryLegs
                   ELSE IF sold = 1 THEN LeftAfterOne ELSE LeftAfterTwo

ChargesOf(b) ==
    \A m \in Held(b) : b.positions[m].entryCostUsd
                           \in LeftAfter(b.positions[m].scaleOutCount)

\* A tick sells each mint once at most, so the trade list cannot outgrow the
\* clock, and what is charged is a leg or a share of what is left of one.
RefInv ==
    /\ TypeOK
    /\ now <= MaxTime
    /\ ChargesOf(book) /\ ChargesOf(draft)
    /\ book.closedCount <= now * Cardinality(Mints)
    /\ draft.closedCount + Cardinality(todo) <= now * Cardinality(Mints)

\* StepCases, with the bound of the clock and the charges of a sale.
LEMMA ExactSteps ==
    ASSUME [EngineNext]_engineVars
    PROVE  \/ \E prices \in SomePrices : now < MaxTime /\ BeginTick(now + 1, prices)
           \/ \E m \in todo : Hold(m)
           \/ \E m \in todo : \E cost \in ExitCosts(draft.positions[m]) : CloseOut(m, cost)
           \/ \E m \in todo : \E cost \in ExitCosts(draft.positions[m]) : ScaleOut(m, cost)
           \/ KillSwitch
           \/ SwitchClear
           \/ \E m \in Mints, legs \in LegCosts : Enter(m, legs)
           \/ EndTick
           \/ ThrowInTick
           \/ UNCHANGED engineVars
<1>1. CASE Exit
    <2>1. PICK m \in todo :
             Hold(m) \/ \E cost \in ExitCosts(draft.positions[m]) :
                           CloseOut(m, cost) \/ ScaleOut(m, cost)
        BY <1>1 DEF Exit
    <2>. QED  BY <2>1
<1>2. CASE Tick
    BY <1>2 DEF Tick
<1>. QED  BY <1>1, <1>2 DEF EngineNext

LEMMA ChargesKept ==
    ASSUME NEW b, NEW r, Held(r) \subseteq Held(b), ChargesOf(b),
           \A k \in Held(r) : SamePosition(b, r, k)
    PROVE  ChargesOf(r)
    BY DEF ChargesOf, SamePosition

\* The mints that are counted.
LEMMA MintCount ==
    ASSUME NEW S, S \subseteq Mints
    PROVE  /\ IsFiniteSet(S) /\ Cardinality(S) \in Nat
           /\ Cardinality(S) <= Cardinality(Mints) /\ Cardinality(Mints) \in Nat
           /\ \A m \in S : Cardinality(S \ {m}) = Cardinality(S) - 1
    BY MintsAssumption, FS_Subset, FS_CardinalityType, FS_RemoveElement

LEMMA RefInit == Init => RefInv
<1> SUFFICES ASSUME Init
             PROVE  RefInv
    OBVIOUS
<1>1. Held(emptyPortfolio) = {} /\ emptyPortfolio.closedCount = 0
    BY EmptyFields
<1>2. ChargesOf(emptyPortfolio)
    BY <1>1 DEF ChargesOf
<1>3. Cardinality(Mints) \in Nat /\ Cardinality({}) = 0
    BY MintCount, FS_EmptySet
<1>. QED  BY <1>1, <1>2, <1>3, TypeInit, EngineAssumption DEF Init, RefInv

LEMMA RefStep == RefInv /\ [EngineNext]_engineVars => RefInv'
<1> SUFFICES ASSUME RefInv, [EngineNext]_engineVars
             PROVE  RefInv'
    OBVIOUS
<1> DEFINE C == Cardinality(Mints)
<1>0. /\ TypeOK /\ BookOK(book) /\ BookOK(draft) /\ now \in Nat /\ todo \subseteq Held(draft)
      /\ ChargesOf(book) /\ ChargesOf(draft)
      /\ book.closedCount <= now * C
      /\ draft.closedCount + Cardinality(todo) <= now * C
      /\ now <= MaxTime
    BY DEF RefInv, TypeOK
<1>n. /\ C \in Nat /\ now * C \in Nat /\ MaxTime \in Nat
      /\ book.closedCount \in Nat /\ draft.closedCount \in Nat
      /\ todo \subseteq Mints /\ Cardinality(todo) \in Nat
    <2>1. C \in Nat
        BY MintCount
    <2>2. todo \subseteq Mints
        BY <1>0 DEF BookOK
    <2>. QED  BY <1>0, <2>1, <2>2, BookNumbers, MintCount, EngineAssumption
<1>t. TypeOK'
    BY <1>0, TypeStep
<1> HIDE DEF C
<1>z. Cardinality({}) = 0
    BY FS_EmptySet
<1>c. ASSUME book' = draft, draft' = draft, todo = {}, todo' = {}, now' = now
      PROVE  RefInv'
    BY <1>0, <1>n, <1>t, <1>c, <1>z DEF RefInv, C
<1>1. ASSUME NEW prices \in SomePrices, now < MaxTime, BeginTick(now + 1, prices)
      PROVE  RefInv'
    <2>1. /\ Held(draft') = Held(book) /\ draft'.closedCount = book.closedCount
          /\ \A k \in Held(book) : SamePosition(book, draft', k)
        BY <1>0, <1>1, BeginTickPositions, BeginTickBook
    <2>2. now' = now + 1 /\ book' = book /\ todo' = Held(book)
        BY <1>1, Zenon DEF BeginTick, committed
    <2>3. ChargesOf(draft')
        BY <1>0, <2>1, ChargesKept
    <2>4. Cardinality(Held(book)) <= C /\ Cardinality(Held(book)) \in Nat
        BY <1>0, MintCount DEF BookOK, C
    <2>5. (now + 1) * C = now * C + C
        BY <1>0, <1>n
    <2>6. now + 1 <= MaxTime
        BY <1>0, <1>1, <1>n
    <2>7. /\ book.closedCount <= (now + 1) * C
          /\ book.closedCount + Cardinality(Held(book)) <= (now + 1) * C
        BY <1>0, <1>n, <2>4, <2>5
    <2>. QED  BY <1>0, <1>t, <2>1, <2>2, <2>3, <2>6, <2>7 DEF RefInv, C
<1>2. ASSUME NEW m \in todo, Hold(m)
      PROVE  RefInv'
    <2>1. todo' = todo \ {m} /\ UNCHANGED <<book, now, draft>>
        BY <1>2, Zenon DEF Hold, committed
    <2>2. Cardinality(todo') = Cardinality(todo) - 1
        BY <1>n, <2>1, MintCount
    <2>3. draft.closedCount + Cardinality(todo') <= now * C
        BY <1>0, <1>n, <2>2
    <2>. QED  BY <1>0, <1>t, <2>1, <2>3 DEF RefInv, C
<1>3. ASSUME NEW m \in todo, NEW cost \in Int, CloseOut(m, cost)
      PROVE  RefInv'
    <2>1. /\ Held(draft') = Held(draft) \ {m}
          /\ draft'.closedCount = draft.closedCount + 1
          /\ \A k \in Held(draft') : SamePosition(draft, draft', k)
        BY <1>0, <1>3, CloseOutBook, CloseOutSale
    <2>2. todo' = todo \ {m} /\ UNCHANGED <<book, now>>
        BY <1>3, Zenon DEF CloseOut, committed
    <2>3. Cardinality(todo') = Cardinality(todo) - 1
        BY <1>n, <2>2, MintCount
    <2>4. draft'.closedCount + Cardinality(todo') <= now * C
        BY <1>0, <1>n, <2>1, <2>3
    <2>5. ChargesOf(draft')
        BY <1>0, <2>1, ChargesKept
    <2>. QED  BY <1>0, <1>t, <2>2, <2>4, <2>5 DEF RefInv, C
<1>4. ASSUME NEW m \in todo, NEW cost \in Int, ScaleOut(m, cost)
      PROVE  RefInv'
    <2>1. /\ Held(draft') = Held(draft) /\ m \in Held(draft)
          /\ draft'.closedCount = draft.closedCount + 1
          /\ \A k \in Held(draft') \ {m} : SamePosition(draft, draft', k)
          /\ draft'.positions[m].scaleOutCount = draft.positions[m].scaleOutCount + 1
        BY <1>0, <1>4, ScaleOutBook, ScaleOutSale
    <2>2. todo' = todo \ {m} /\ UNCHANGED <<book, now>>
        BY <1>4, Zenon DEF ScaleOut, committed
    <2>3. Cardinality(todo') = Cardinality(todo) - 1
        BY <1>n, <2>2, MintCount
    <2>4. draft'.closedCount + Cardinality(todo') <= now * C
        BY <1>0, <1>n, <2>1, <2>3
    <2>5. draft'.positions[m].entryCostUsd
              \in LeftAfter(draft'.positions[m].scaleOutCount)
        <3>1. PICK f \in {LadderOne, LadderTwo} :
                 /\ draft.positions[m].scaleOutCount = (IF f = LadderOne THEN 0 ELSE 1)
                 /\ draft'.positions[m].entryCostUsd =
                      draft.positions[m].entryCostUsd
                        - Share(draft.positions[m].entryCostUsd, f)
            BY <1>0, <1>4, ScaleOutSale
        <3>2. draft.positions[m].entryCostUsd
                  \in LeftAfter(draft.positions[m].scaleOutCount)
            BY <1>0, <2>1 DEF ChargesOf
        <3>3. CASE f = LadderOne
            <4>1. draft.positions[m].entryCostUsd \in EntryLegs
                BY <3>1, <3>2, <3>3 DEF LeftAfter
            <4>2. draft'.positions[m].entryCostUsd \in LeftAfterOne
                BY <3>1, <3>3, <4>1 DEF LeftAfterOne
            <4>3. draft'.positions[m].scaleOutCount = 1
                BY <2>1, <3>1, <3>3
            <4>. QED  BY <4>2, <4>3 DEF LeftAfter
        <3>4. CASE f # LadderOne
            <4>1. draft.positions[m].entryCostUsd \in LeftAfterOne
                BY <3>1, <3>2, <3>4 DEF LeftAfter
            <4>2. draft'.positions[m].entryCostUsd \in LeftAfterTwo
                BY <3>1, <3>4, <4>1 DEF LeftAfterTwo
            <4>3. draft'.positions[m].scaleOutCount = 2
                BY <2>1, <3>1, <3>4
            <4>. QED  BY <4>2, <4>3 DEF LeftAfter
        <3>. QED  BY <3>3, <3>4
    <2>6. ChargesOf(draft')
        BY <1>0, <2>1, <2>5 DEF ChargesOf, SamePosition
    <2>. QED  BY <1>0, <1>t, <2>2, <2>4, <2>6 DEF RefInv, C
<1>5. CASE KillSwitch
    BY <1>c, <1>5 DEF KillSwitch, Commit
<1>6. CASE SwitchClear
    BY <1>t, <1>6 DEF SwitchClear, committed, local, RefInv
<1>7. ASSUME NEW m \in Mints, NEW legs \in LegCosts, Enter(m, legs)
      PROVE  RefInv'
    <2>1. /\ Held(draft') = Held(draft) \cup {m}
          /\ draft'.closedCount = draft.closedCount
          /\ \A k \in Held(draft) : SamePosition(draft, draft', k)
          /\ draft'.positions[m] = NewPosition(PositionSize, price[m], now, legs[1])
        BY <1>0, <1>7, EnterBook, EnterPosition
    <2>2. m \notin Held(draft) /\ UNCHANGED <<book, now, todo>>
        BY <1>7, Zenon DEF Enter, committed
    <2>3. /\ draft'.positions[m].scaleOutCount = 0
          /\ draft'.positions[m].entryCostUsd \in EntryLegs
        <3>1. \A size, x, ts, c : /\ NewPosition(size, x, ts, c).entryCostUsd = c
                                  /\ NewPosition(size, x, ts, c).scaleOutCount = 0
            BY DEF NewPosition
        <3>. QED  BY <2>1, <3>1 DEF EntryLegs
    <2>4. ChargesOf(draft')
        BY <1>0, <2>1, <2>2, <2>3 DEF ChargesOf, SamePosition, LeftAfter
    <2>. QED  BY <1>0, <1>t, <2>1, <2>2, <2>4 DEF RefInv, C
<1>8. CASE EndTick
    BY <1>0, <1>c, <1>8 DEF EndTick, Commit, TypeOK
<1>9. CASE ThrowInTick
    <2>1. book' = book /\ draft' = book /\ todo' = {} /\ now' = now
        BY <1>9, Zenon DEF ThrowInTick, committed
    <2>. QED  BY <1>0, <1>n, <1>t, <1>z, <2>1 DEF RefInv, C
<1>10. CASE UNCHANGED engineVars
    BY <1>0, <1>t, <1>10 DEF engineVars, RefInv, C
<1>e. ASSUME NEW m \in todo
      PROVE  ExitCosts(draft.positions[m]) \subseteq Int
    BY <1>0, ExitCostType
<1>. QED
    BY <1>1, <1>2, <1>3, <1>4, <1>5, <1>6, <1>7, <1>8, <1>9, <1>10, <1>e, ExactSteps

LEMMA MoneyIsSummed ==
    ASSUME NEW b
    PROVE  MoneyIn(b) = Total(OpenCosts(b.positions))
    BY Zenon DEF MoneyIn, Total, OpenCosts, CostOfPosition, Held

\* Portfolio's actions and their frames, in the terms of Engine.
LEMMA LedgerVars ==
    ASSUME UNCHANGED <<draft, book>>
    PROVE  UNCHANGED Ledger_!vars
    BY DEF Ledger_!vars

LEMMA KeepCall ==
    ASSUME book' = draft, draft' = draft
    PROVE  Ledger_!Keep
    BY DEF Ledger_!Keep

LEMMA RevertCall ==
    ASSUME draft' = book, book' = book
    PROVE  Ledger_!Revert
    BY DEF Ledger_!Revert

LEMMA MarkCall ==
    ASSUME NEW marks, CanMark(draft, marks), draft' = markPositions(draft, marks),
           MoneyIn(draft') = MoneyIn(draft), book' = book
    PROVE  Ledger_!Mark(marks)
<1>1. /\ Ledger_!CanMark(draft, marks)
      /\ Ledger_!markPositions(draft, marks) = markPositions(draft, marks)
    BY SameMarks, Zenon
<1>. QED  BY <1>1 DEF Ledger_!Mark

LEMMA OpenCall ==
    ASSUME NEW m, NEW s, NEW x, NEW ts, NEW c,
           CanOpen(draft, m, s, x, c, TRUE),
           draft' = openPosition(draft, m, s, x, ts, c),
           MoneyIn(draft') = MoneyIn(draft) + s + c, book' = book
    PROVE  Ledger_!Open(m, s, x, ts, c)
<1>1. Ledger_!CanOpen(draft, m, s, x, c, TRUE)
    BY SameCanOpen, Zenon
<1>2. Ledger_!openPosition(draft, m, s, x, ts, c) = openPosition(draft, m, s, x, ts, c)
    BY SameOpen
<1>. QED  BY <1>1, <1>2 DEF Ledger_!Open

LEMMA CloseCall ==
    ASSUME NEW m, NEW x, NEW ts, NEW c, CanSell(draft, m, x, ts, c),
           draft.closedCount < 3 * MaxTime * Cardinality(Mints),
           draft' = closePosition(draft, m, x, ts, c),
           MoneyIn(draft') = MoneyIn(draft) - CostOfPosition(draft.positions[m]),
           book' = book
    PROVE  Ledger_!Sell(m, x, ts, c)
<1>2. /\ Ledger_!CanSell(draft, m, x, ts, c)
      /\ Ledger_!closePosition(draft, m, x, ts, c) = closePosition(draft, m, x, ts, c)
    BY SameSales, Zenon
<1>3. Ledger_!CostOf(draft.positions[m]) = CostOfPosition(draft.positions[m])
    BY DEF Ledger_!CostOf, CostOfPosition
<1>1. Ledger_!Close(m, x, ts, c)
    BY <1>2, <1>3 DEF Ledger_!Close
<1>. QED  BY <1>1 DEF Ledger_!Sell

LEMMA ReduceCall ==
    ASSUME NEW m, NEW f \in {LadderOne, LadderTwo}, NEW x, NEW ts, NEW c,
           CanSell(draft, m, x, ts, c),
           draft.closedCount < 3 * MaxTime * Cardinality(Mints),
           draft' = reducePosition(draft, m, f[1], f[2], x, ts, c),
           MoneyIn(draft') = MoneyIn(draft)
               - CostOfPosition(PartSlice(draft.positions[m], f[1], f[2])),
           book' = book
    PROVE  Ledger_!Sell(m, x, ts, c)
<1>1. 0 < f[1]
    BY DEF LadderOne, LadderTwo
<1>2. Ledger_!PartSlice(draft.positions[m], f[1], f[2])
          = PartSlice(draft.positions[m], f[1], f[2])
    BY SameOperators
<1>4. /\ Ledger_!CanSell(draft, m, x, ts, c)
      /\ Ledger_!reducePosition(draft, m, f[1], f[2], x, ts, c)
            = reducePosition(draft, m, f[1], f[2], x, ts, c)
    BY SameSales, Zenon
<1>5. Ledger_!CostOf(PartSlice(draft.positions[m], f[1], f[2]))
          = CostOfPosition(PartSlice(draft.positions[m], f[1], f[2]))
    BY DEF Ledger_!CostOf, CostOfPosition
<1>3. Ledger_!Reduce(m, f, x, ts, c)
    BY <1>1, <1>2, <1>4, <1>5 DEF Ledger_!Reduce
<1>. QED  BY <1>3 DEF Ledger_!Sell

LEMMA ShareOfWhole ==
    ASSUME NEW c \in Int
    PROVE  Share(c, Whole) = c
<1>1. c * 1 = c /\ c \div 1 = c
    OBVIOUS
<1>. QED  BY <1>1 DEF Share, Whole

FullCharges == EntryLegs \cup LeftAfterOne \cup LeftAfterTwo
                  \cup {legs[2] : legs \in LegCosts}

LEMMA ChargeSet ==
    ASSUME NEW c \in FullCharges, NEW f \in Fractions3
    PROVE  Share(c, f) \in Charges
<1> DEFINE full == EntryLegs \cup {c_ - Share(c_, LadderOne) : c_ \in EntryLegs}
                   \cup {d - Share(d, LadderTwo) :
                            d \in {c_ - Share(c_, LadderOne) : c_ \in EntryLegs}}
                   \cup {legs[2] : legs \in LegCosts}
<1>1. Charges = {Share(q, g) : q \in full, g \in {Whole, LadderOne, LadderTwo}}
    BY DEF Charges, EntryLegs
<1>2. full = FullCharges
    BY DEF FullCharges, LeftAfterOne, LeftAfterTwo
<1> HIDE DEF full
<1>. QED  BY <1>1, <1>2 DEF Fractions3

\* What the engine charges is a leg, what the ladder left of one, or a share.
LEMMA ChargeOfSale ==
    ASSUME RefInv, NEW m \in todo, NEW c \in ExitCosts(draft.positions[m]),
           NEW f \in Fractions3
    PROVE  draft.positions[m].scaleOutCount <= 2 => Share(c, f) \in Charges
<1> SUFFICES ASSUME draft.positions[m].scaleOutCount <= 2
             PROVE  Share(c, f) \in Charges
    OBVIOUS
<1>1. m \in Held(draft)
    BY DEF RefInv, TypeOK
<1>2. draft.positions[m].entryCostUsd \in EntryLegs \cup LeftAfterOne \cup LeftAfterTwo
    BY <1>1 DEF RefInv, ChargesOf, LeftAfter
<1>3. c \in EntryLegs \cup LeftAfterOne \cup LeftAfterTwo \cup {legs[2] : legs \in LegCosts}
    BY <1>2 DEF ExitCosts
<1>. QED  BY <1>3, ChargeSet DEF Fractions3, FullCharges

LEMMA ChargeOfEntry ==
    ASSUME NEW legs \in LegCosts
    PROVE  legs[1] \in Charges
<1>1. Share(legs[1], Whole) = legs[1]
    BY ShareOfWhole, EngineAssumption
<1>2. legs[1] \in FullCharges
    BY DEF EntryLegs, FullCharges
<1>3. Share(legs[1], Whole) \in Charges
    BY <1>2, ChargeSet DEF Fractions3
<1>. QED  BY <1>1, <1>3

LEMMA RoomForSale ==
    ASSUME RefInv, NEW m \in todo
    PROVE  draft.closedCount < 3 * MaxTime * Cardinality(Mints)
<1> DEFINE C == Cardinality(Mints)
<1>1. todo \subseteq Mints /\ BookOK(draft) /\ now \in Nat
    BY DEF RefInv, TypeOK, BookOK
<1>2. IsFiniteSet(todo) /\ Cardinality(todo) \in Nat /\ C \in Nat
    BY <1>1, MintCount
<1>3. Cardinality(todo) # 0
    BY <1>2, FS_EmptySet
<1>4. draft.closedCount + Cardinality(todo) <= now * C /\ now <= MaxTime
    BY DEF RefInv
<1> HIDE DEF C
<1>5. draft.closedCount \in Nat /\ MaxTime \in Nat
    BY <1>1, BookNumbers, EngineAssumption
<1>6. now * C <= MaxTime * C /\ MaxTime * C \in Nat
    BY <1>1, <1>2, <1>4, <1>5
<1>7. 3 * MaxTime * C = 3 * (MaxTime * C)
    BY <1>2, <1>5
<1>8. now * C \in Nat
    BY <1>1, <1>2
<1>9. draft.closedCount < 3 * (MaxTime * C)
    BY <1>2, <1>3, <1>4, <1>5, <1>6, <1>8
<1>. QED  BY <1>7, <1>9 DEF C

LEMMA RefinementStep ==
    ASSUME RefInv, DecisionInv, [EngineNext]_engineVars
    PROVE  LedgerCall \/ UNCHANGED Ledger_!vars
<1>0. /\ TypeOK /\ BookOK(draft) /\ BookOK(book) /\ todo \subseteq Held(draft)
    BY DEF RefInv, TypeOK
<1>1. ASSUME NEW prices \in SomePrices, BeginTick(now + 1, prices)
      PROVE  LedgerCall \/ UNCHANGED Ledger_!vars
    <2> DEFINE marks == MarksOf(draft, price')
    <2>1. draft = book
        BY <1>0, <1>1 DEF BeginTick, TypeOK
    <2>2. price' = prices /\ book' = book
        BY <1>1, Zenon DEF BeginTick, committed
    <2>3. marks = MarksOf(book, prices)
        BY <2>1, <2>2
    <2>4. CASE marks = << >>
        BY <1>1, <2>1, <2>2, <2>3, <2>4, LedgerVars DEF BeginTick
    <2>5. CASE marks # << >>
        <3>1. CanMark(draft, marks) /\ draft' = markPositions(draft, marks)
            BY <1>1, <2>1, <2>3, <2>5, Zenon DEF BeginTick
        <3>2. MoneyIn(draft') = MoneyIn(draft)
            BY <1>0, <3>1, MarkSums, MoneyIsSummed
        <3> HIDE DEF marks
        <3>3. Ledger_!Mark(marks)
            BY <2>2, <3>1, <3>2, MarkCall
        <3>. QED  BY <3>3 DEF LedgerCall, marks
    <2>. QED  BY <2>4, <2>5
<1>2. ASSUME NEW m \in todo, Hold(m)
      PROVE  UNCHANGED Ledger_!vars
    BY <1>2, LedgerVars DEF Hold, committed
<1>3. ASSUME NEW m \in todo, NEW cost \in ExitCosts(draft.positions[m]), CloseOut(m, cost)
      PROVE  LedgerCall
    <2>0. cost \in Int
        BY <1>0, ExitCostType
    <2>1. /\ m \in DOMAIN price /\ book' = book /\ m \in Held(draft)
          /\ CanSell(draft, m, price[m], now, cost)
          /\ draft' = closePosition(draft, m, price[m], now, cost)
        BY <1>0, <1>3, Zenon DEF CloseOut, committed
    <2>2. draft'.positions = Drop(draft.positions, m)
        BY <1>0, <1>3, <2>0, CloseOutSale
    <2>3. MoneyIn(draft') = MoneyIn(draft) - CostOfPosition(draft.positions[m])
        <3>1. Positions(draft.positions) /\ m \in DOMAIN draft.positions
            BY <1>0, <2>1, BookPositions DEF Held
        <3>2. /\ Total(OpenCosts(draft.positions)) =
                   Total(OpenCosts(draft'.positions)) + CostOfPosition(draft.positions[m])
              /\ Positions(draft'.positions)
            BY <2>2, <3>1, DropSums
        <3>3. CostOfPosition(draft.positions[m]) \in Int
            BY <3>1, PositionFields DEF CostOfPosition, Positions
        <3>4. Total(OpenCosts(draft'.positions)) \in Int
            BY <3>2, OpenSumsType
        <3>. QED  BY <3>2, <3>3, <3>4, MoneyIsSummed
    <2>4. cost \in Charges
        <3>1. draft.positions[m].scaleOutCount <= 2
            BY <2>1 DEF DecisionInv, OneDecision
        <3>2. Share(cost, Whole) \in Charges
            BY <3>1, ChargeOfSale DEF Fractions3
        <3>. QED  BY <2>0, <3>2, ShareOfWhole
    <2>5. Ledger_!Sell(m, price[m], now, cost)
        BY <2>1, <2>3, RoomForSale, CloseCall
    <2>. QED  BY <2>1, <2>4, <2>5 DEF LedgerCall
<1>4. ASSUME NEW m \in todo, NEW cost \in ExitCosts(draft.positions[m]), ScaleOut(m, cost)
      PROVE  LedgerCall
    <2> DEFINE f == decideExit(draft.positions[m], price[m], high[m], now).fraction
               share == Share(cost, f)
               pos == draft.positions[m]
               slice == PartSlice(pos, f[1], f[2])
               rest == Remainder(pos, slice, price[m])
    <2>0. cost \in Int
        BY <1>0, ExitCostType
    <2>1. /\ m \in DOMAIN price /\ book' = book /\ m \in Held(draft)
          /\ CanSell(draft, m, price[m], now, share)
          /\ draft' = reducePosition(draft, m, f[1], f[2], price[m], now, share)
        BY <1>0, <1>4, Zenon DEF ScaleOut, committed
    <2>2. f \in {LadderOne, LadderTwo}
        BY <1>0, <1>4, <2>0, ScaleOutSale
    <2>3. pos \in PositionType /\ price[m] \in Nat \ {0}
        BY <1>0, <2>1, EngineAssumption DEF TypeOK, BookOK
    <2>4. slice \in SliceType
        BY <2>2, <2>3, FractionType, PartSliceType DEF Fractions3
    <2>5. draft'.positions = Put(draft.positions, m, rest)
        BY <1>0, <2>1, BookNumbers, RealiseFields DEF reducePosition
    <2> HIDE DEF f, share
    <2>6. MoneyIn(draft') = MoneyIn(draft) - CostOfPosition(slice)
        <3> HIDE DEF slice
        <3>1. /\ rest \in PositionType
              /\ rest.sizeUsd = pos.sizeUsd - slice.sizeUsd
              /\ rest.entryCostUsd = pos.entryCostUsd - slice.entryCostUsd
            BY <2>3, <2>4, RemainderType, RemainderFields
        <3>2. /\ pos.sizeUsd \in Int /\ pos.entryCostUsd \in Int
              /\ slice.sizeUsd \in Int /\ slice.entryCostUsd \in Int
            BY <2>3, <2>4, PositionFields DEF SliceType
        <3> HIDE DEF rest
        <3>3. CostOfPosition(rest) = CostOfPosition(pos) - CostOfPosition(slice)
            BY <3>1, <3>2 DEF CostOfPosition
        <3>4. Positions(draft.positions) /\ m \in DOMAIN draft.positions
            BY <1>0, <2>1, BookPositions DEF Held
        <3>5. Total(OpenCosts(draft'.positions)) =
                 Total(OpenCosts(draft.positions))
                   - CostOfPosition(pos) + CostOfPosition(rest)
            BY <2>5, <3>1, <3>4, PutSums
        <3>6. /\ CostOfPosition(pos) \in Int /\ CostOfPosition(slice) \in Int
              /\ Total(OpenCosts(draft.positions)) \in Int
            BY <3>2, <3>4, OpenSumsType DEF CostOfPosition
        <3>. QED  BY <3>3, <3>5, <3>6, MoneyIsSummed
    <2>7. share \in Charges
        <3>1. draft.positions[m].scaleOutCount <= 2
            BY <2>1 DEF DecisionInv, OneDecision
        <3>. QED  BY <2>2, <3>1, ChargeOfSale DEF Fractions3, share
    <2>8. Ledger_!Sell(m, price[m], now, share)
        BY <2>1, <2>2, <2>6, RoomForSale, ReduceCall
    <2>. QED  BY <2>1, <2>7, <2>8 DEF LedgerCall
<1>5. ASSUME KillSwitch \/ EndTick
      PROVE  LedgerCall
    BY <1>5, KeepCall DEF KillSwitch, EndTick, Commit, LedgerCall
<1>6. ASSUME SwitchClear
      PROVE  UNCHANGED Ledger_!vars
    BY <1>6, LedgerVars DEF SwitchClear, committed, local
<1>7. ASSUME NEW m \in Mints, NEW legs \in LegCosts, Enter(m, legs)
      PROVE  LedgerCall
    <2> DEFINE pos == NewPosition(PositionSize, price[m], now, legs[1])
    <2>1. /\ m \in DOMAIN price /\ book' = book /\ m \notin Held(draft)
          /\ CanOpen(draft, m, PositionSize, price[m], legs[1], TRUE)
          /\ draft' = openPosition(draft, m, PositionSize, price[m], now, legs[1])
        BY <1>7, Zenon DEF Enter, EntryCharge, committed
    <2>2. draft'.positions = Put(draft.positions, m, pos) /\ pos \in PositionType
        BY <1>0, <1>7, EnterPosition
    <2>3. CostOfPosition(pos) = PositionSize + legs[1]
        BY DEF NewPosition, CostOfPosition
    <2> HIDE DEF pos
    <2>4. MoneyIn(draft') = MoneyIn(draft) + PositionSize + legs[1]
        <3>1. Positions(draft.positions) /\ m \notin DOMAIN draft.positions
            BY <1>0, <2>1, BookPositions DEF Held
        <3>2. Total(OpenCosts(draft'.positions)) =
                 Total(OpenCosts(draft.positions)) - 0 + CostOfPosition(pos)
            BY <2>2, <3>1, PutSums
        <3>3. /\ PositionSize \in Int /\ legs[1] \in Int
              /\ Total(OpenCosts(draft.positions)) \in Int
            BY <3>1, EngineAssumption, OpenSumsType
        <3>. QED  BY <2>3, <3>2, <3>3, MoneyIsSummed
    <2>5. Ledger_!Open(m, PositionSize, price[m], now, legs[1])
        BY <2>1, <2>4, OpenCall
    <2>. QED  BY <2>1, <2>5, ChargeOfEntry DEF LedgerCall
<1>8. ASSUME ThrowInTick
      PROVE  LedgerCall
    BY <1>8, RevertCall, Zenon DEF ThrowInTick, committed, LedgerCall
<1>9. ASSUME UNCHANGED engineVars
      PROVE  UNCHANGED Ledger_!vars
    BY <1>9, LedgerVars DEF engineVars
<1>. QED
    BY <1>1, <1>2, <1>3, <1>4, <1>5, <1>6, <1>7, <1>8, <1>9, ExactSteps

LEMMA LedgerStarts == Init => Ledger_!Init
<1> SUFFICES ASSUME Init
             PROVE  Ledger_!Init
    OBVIOUS
<1>1. MoneyIn(emptyPortfolio) = 0
    <2>1. DOMAIN OpenCosts(emptyPortfolio.positions) = {}
        BY EmptyFields DEF OpenCosts, Held
    <2>. QED  BY <2>1, MoneyIsSummed, TotalEmpty
<1>2. MoneyIn(draft) = 0 /\ MoneyIn(book) = 0
    BY <1>1 DEF Init
<1>. QED  BY <1>2, SameOperators DEF Init, Ledger_!Init, MoneyIn

\* The reducer implements Portfolio, tick by tick: every step is one call of
\* portfolio.js at this tick's clock and prices and with a leg of a cost
\* breakdown (or a ladder share of one), the commit keeps the book, a throw
\* falls back to the kept one.
THEOREM EngineCallsPortfolio == Spec => ImplementsPortfolio
<1>1. RefInv /\ DecisionInv /\ [EngineNext]_engineVars => [LedgerCall]_(Ledger_!vars)
    BY RefinementStep
<1>. QED
    BY <1>1, RefInit, RefStep, DecisionInit, DecisionStep, LedgerStarts, PTL
       DEF Spec, Next, ImplementsPortfolio

\* So what Portfolio's caller can rely on, the engine's book has: the abstract
\* specification, for every schedule of prices, gaps and throws.
THEOREM EngineImplementsPortfolio == Spec => Ledger_!Spec
<1>1. /\ RefInv /\ RefInv' /\ DecisionInv /\ [EngineNext]_engineVars
      => [Ledger_!Next]_(Ledger_!vars)
    <2> SUFFICES ASSUME RefInv, RefInv', DecisionInv, [EngineNext]_engineVars, LedgerCall
                 PROVE  Ledger_!Next
        BY RefinementStep
    <2>1. TypeOK /\ TypeOK' /\ now \in 0..MaxTime
        BY EngineAssumption DEF RefInv, TypeOK
    <2>. QED  BY <2>1, LedgerCallIsAStep
<1>. QED
    BY <1>1, RefInit, RefStep, DecisionInit, DecisionStep, LedgerStarts, PTL
       DEF Spec, Next, Ledger_!Spec

-----------------------------------------------------------------------------
(* A book line, and the portfolio made from it. *)

\* Every line on disk was written by buildBookRecord from a book.
LineOK(l) == l = NoLine \/ \E b : BookOK(b) /\ l = buildBookRecord(b)

LineFields == BookFields \ {"closedTrades", "daily"}

LEMMA LineOfBook ==
    ASSUME NEW b
    PROVE  LET l == buildBookRecord(b)
           IN /\ DOMAIN l = LineFields
              /\ l # NoLine
              /\ l.cashUsd = b.cashUsd
              /\ l.positions = [m \in Held(b) |-> PositionRecord(b.positions[m])]
              /\ l.realisedPnlUsd = b.realisedPnlUsd
              /\ l.costsPaidUsd = b.costsPaidUsd
              /\ l.grossSpentUsd = b.grossSpentUsd
              /\ l.consecutiveLosses = b.consecutiveLosses
              /\ l.wins = b.wins /\ l.losses = b.losses
              /\ l.openedCount = b.openedCount
              /\ l.closedCount = b.closedCount
<1>1. DOMAIN buildBookRecord(b) = LineFields
    BY DEF buildBookRecord, LineFields, BookFields
<1>2. DOMAIN NoLine = {}
    BY DEF NoLine
<1>3. "wins" \in LineFields
    BY DEF LineFields, BookFields
<1>4. buildBookRecord(b) # NoLine
    BY <1>1, <1>2, <1>3
<1>. QED  BY <1>1, <1>4 DEF buildBookRecord

\* A position that went through a line is a position.
LEMMA RestoredPositionType ==
    ASSUME NEW pos \in PositionType
    PROVE  RestoredPosition(PositionRecord(pos)) \in PositionType
<1> DEFINE rec == PositionRecord(pos)
           r == RestoredPosition(rec)
           fields == {"sizeUsd", "entryPriceUsd", "qty", "openedTs",
                      "entryCostUsd", "lastPriceUsd", "unrealisedPnlUsd"}
<1>1. /\ DOMAIN rec = fields
      /\ rec.sizeUsd = pos.sizeUsd /\ rec.entryPriceUsd = pos.entryPriceUsd
      /\ rec.qty = pos.qty /\ rec.openedTs = pos.openedTs
      /\ rec.entryCostUsd = pos.entryCostUsd
      /\ rec.lastPriceUsd = pos.lastPriceUsd
      /\ rec.unrealisedPnlUsd = pos.unrealisedPnlUsd
    BY DEF PositionRecord
<1> HIDE DEF rec
<1>2. /\ r = [f \in fields \cup {"scaleOutCount"} |-> r[f]]
      /\ r.sizeUsd = pos.sizeUsd /\ r.entryPriceUsd = pos.entryPriceUsd
      /\ r.qty = pos.qty /\ r.openedTs = pos.openedTs
      /\ r.entryCostUsd = pos.entryCostUsd
      /\ r.lastPriceUsd = pos.lastPriceUsd
      /\ r.unrealisedPnlUsd = pos.unrealisedPnlUsd
      /\ r.scaleOutCount = 0
    BY <1>1 DEF RestoredPosition
<1> HIDE DEF r
<1>3. r \in PositionType
    BY <1>2 DEF PositionType
<1>. QED  BY <1>3 DEF r, rec

\* What readJournal computes from the trade lines is a whole number.
LEMMA TradeNumbers ==
    ASSUME NEW ts \in Seq(TradeType)
    PROVE  /\ TradePnl(ts) \in Int
           /\ WinCount(ts) \in Nat /\ LossCount(ts) \in Nat
<1> DEFINE nets == [i \in DOMAIN ts |-> ts[i].netPnlUsd]
<1>1. IsFiniteSet(DOMAIN ts)
    BY FS_Interval
<1>2. \A i \in DOMAIN ts : ts[i] \in TradeType
    OBVIOUS
<1>3. \A i \in DOMAIN ts : nets[i] \in Int
    BY <1>2 DEF TradeType
<1>4. DOMAIN nets = DOMAIN ts
    OBVIOUS
<1>5. TradePnl(ts) = Total(nets)
    BY DEF TradePnl, Total
<1>6. \A S \in SUBSET DOMAIN ts : Cardinality(S) \in Nat
    BY <1>1, FS_Subset, FS_CardinalityType
<1>7. WinCount(ts) \in Nat /\ LossCount(ts) \in Nat
    BY <1>6 DEF WinCount, LossCount
<1> HIDE DEF nets
<1>. QED  BY <1>1, <1>3, <1>4, <1>5, <1>7, TotalType

LEMMA ReadLine ==
    ASSUME NEW b, BookOK(b), NEW ts \in Seq(TradeType)
    PROVE  LET l == readJournal(buildBookRecord(b), ts)
           IN /\ l # NoLine
              /\ l.positions = [m \in Held(b) |-> PositionRecord(b.positions[m])]
              /\ l.cashUsd \in Int /\ l.realisedPnlUsd \in Int
              /\ l.wins \in Nat /\ l.losses \in Nat
              /\ l.costsPaidUsd = b.costsPaidUsd
              /\ l.grossSpentUsd = b.grossSpentUsd
              /\ l.consecutiveLosses = b.consecutiveLosses
              /\ l.openedCount = b.openedCount
              /\ l.closedCount = MaxOf(b.closedCount, Len(ts))
<1> DEFINE old == buildBookRecord(b)
           l == readJournal(old, ts)
           realised == IfUnset(old.realisedPnlUsd, 0, TradePnl(ts))
<1>1. /\ DOMAIN old = LineFields /\ old # NoLine
      /\ old.cashUsd = b.cashUsd
      /\ old.positions = [m \in Held(b) |-> PositionRecord(b.positions[m])]
      /\ old.realisedPnlUsd = b.realisedPnlUsd
      /\ old.costsPaidUsd = b.costsPaidUsd
      /\ old.grossSpentUsd = b.grossSpentUsd
      /\ old.consecutiveLosses = b.consecutiveLosses
      /\ old.wins = b.wins /\ old.losses = b.losses
      /\ old.openedCount = b.openedCount
      /\ old.closedCount = b.closedCount
    BY LineOfBook
<1>2. /\ b.cashUsd \in Int /\ b.realisedPnlUsd \in Int
      /\ b.wins \in Nat /\ b.losses \in Nat /\ b.closedCount \in Nat
    BY BookNumbers
<1>3. /\ TradePnl(ts) \in Int /\ WinCount(ts) \in Nat /\ LossCount(ts) \in Nat
      /\ Len(ts) \in Nat
    BY TradeNumbers
<1> HIDE DEF old
<1>4. CASE ts = << >>
    <2>1. l = old /\ Len(ts) = 0
        BY <1>4 DEF readJournal
    <2>2. MaxOf(b.closedCount, Len(ts)) = b.closedCount
        BY <1>2, <2>1 DEF MaxOf
    <2>. QED  BY <1>1, <1>2, <2>1, <2>2 DEF old
<1>5. CASE ts # << >>
    <2>1. l = [old EXCEPT
               !.realisedPnlUsd = realised,
               !.cashUsd = IfUnset(@, BookSize, BookSize + realised),
               !.wins = IfUnset(@, 0, WinCount(ts)),
               !.losses = IfUnset(@, 0, LossCount(ts)),
               !.closedCount = MaxOf(@, Len(ts))]
        BY <1>1, <1>5 DEF readJournal
    <2> HIDE DEF l
    <2>2. /\ DOMAIN l = LineFields
          /\ l.positions = old.positions
          /\ l.realisedPnlUsd = realised
          /\ l.cashUsd = IfUnset(old.cashUsd, BookSize, BookSize + realised)
          /\ l.wins = IfUnset(old.wins, 0, WinCount(ts))
          /\ l.losses = IfUnset(old.losses, 0, LossCount(ts))
          /\ l.closedCount = MaxOf(old.closedCount, Len(ts))
          /\ l.costsPaidUsd = old.costsPaidUsd
          /\ l.grossSpentUsd = old.grossSpentUsd
          /\ l.consecutiveLosses = old.consecutiveLosses
          /\ l.openedCount = old.openedCount
        BY <1>1, <2>1, Zenon DEF LineFields, BookFields
    <2>3. realised \in Int
        BY <1>1, <1>2, <1>3 DEF IfUnset
    <2> HIDE DEF realised
    <2>4. l.cashUsd \in Int /\ l.wins \in Nat /\ l.losses \in Nat
        BY <1>1, <1>2, <1>3, <2>2, <2>3, BookSizeAssumption DEF IfUnset
    <2>5. l # NoLine
        <3>1. DOMAIN NoLine = {} /\ "wins" \in LineFields
            BY DEF NoLine, LineFields, BookFields
        <3>. QED  BY <2>2, <3>1
    <2>6. l.realisedPnlUsd \in Int
        BY <2>2, <2>3
    <2>. QED  BY <1>1, <2>2, <2>4, <2>5, <2>6 DEF l, old
<1>. QED  BY <1>4, <1>5

\* What a restart makes of the disk.
Restored(l, ts) == restorePortfolio(readJournal(l, ts), ts)

LEMMA RestoredBook ==
    ASSUME NEW l, LineOK(l), NEW ts \in Seq(TradeType), l = NoLine => ts = << >>
    PROVE  LET r == Restored(l, ts)
           IN /\ BookOK(r)
              /\ r.closedTrades = ts
              /\ l = NoLine => /\ r.closedCount = 0
                               /\ r.consecutiveLosses = 0
                               /\ r.grossSpentUsd = 0
              /\ l # NoLine => /\ r.closedCount = MaxOf(l.closedCount, Len(ts))
                               /\ r.consecutiveLosses = l.consecutiveLosses
                               /\ r.grossSpentUsd = l.grossSpentUsd
<1> DEFINE r == Restored(l, ts)
<1>1. CASE l = NoLine
    <2>1. r = emptyPortfolio
        BY <1>1 DEF Restored, readJournal, restorePortfolio
    <2>. QED  BY <1>1, <2>1, EmptyBook, EmptyFields
<1>2. CASE l # NoLine
    <2>1. PICK b : BookOK(b) /\ l = buildBookRecord(b)
        BY <1>2 DEF LineOK
    <2> DEFINE k == readJournal(l, ts)
    <2>2. /\ k # NoLine
          /\ k.positions = [m \in Held(b) |-> PositionRecord(b.positions[m])]
          /\ k.cashUsd \in Int /\ k.realisedPnlUsd \in Int
          /\ k.wins \in Nat /\ k.losses \in Nat
          /\ k.costsPaidUsd = b.costsPaidUsd
          /\ k.grossSpentUsd = b.grossSpentUsd
          /\ k.consecutiveLosses = b.consecutiveLosses
          /\ k.openedCount = b.openedCount
          /\ k.closedCount = MaxOf(b.closedCount, Len(ts))
        BY <2>1, ReadLine
    <2>3. r = FromLine(k, ts)
        BY <2>2 DEF Restored, restorePortfolio
    <2> HIDE DEF r, k
    <2>4. /\ DOMAIN r = BookFields
          /\ r.positions = [m \in DOMAIN k.positions |-> RestoredPosition(k.positions[m])]
          /\ r.closedTrades = ts
          /\ r.cashUsd = k.cashUsd /\ r.realisedPnlUsd = k.realisedPnlUsd
          /\ r.costsPaidUsd = k.costsPaidUsd /\ r.grossSpentUsd = k.grossSpentUsd
          /\ r.consecutiveLosses = k.consecutiveLosses
          /\ r.wins = k.wins /\ r.losses = k.losses
          /\ r.openedCount = k.openedCount /\ r.closedCount = k.closedCount
        BY <2>3 DEF FromLine, BookFields
    <2>5. /\ Held(r) = Held(b)
          /\ \A m \in Held(b) :
                r.positions[m] = RestoredPosition(PositionRecord(b.positions[m]))
        BY <2>2, <2>4 DEF Held
    <2>6. \A m \in Held(r) : r.positions[m] \in PositionType
        BY <2>1, <2>5, RestoredPositionType DEF BookOK
    <2>7. Held(r) \subseteq Mints
        BY <2>1, <2>5 DEF BookOK
    <2>8. /\ b.grossSpentUsd \in Nat /\ b.costsPaidUsd \in Nat
          /\ b.consecutiveLosses \in Nat
          /\ b.openedCount \in Nat /\ b.closedCount \in Nat
        BY <2>1, BookNumbers
    <2>9. MaxOf(b.closedCount, Len(ts)) \in Nat
        BY <2>8 DEF MaxOf
    <2>10. BookOK(r)
        BY <2>2, <2>4, <2>6, <2>7, <2>8, <2>9 DEF BookOK
    <2>11. /\ l.closedCount = b.closedCount /\ l.grossSpentUsd = b.grossSpentUsd
           /\ l.consecutiveLosses = b.consecutiveLosses
        BY <2>1, LineOfBook
    <2>. QED  BY <1>2, <2>2, <2>4, <2>10, <2>11 DEF r
<1>. QED  BY <1>1, <1>2

-----------------------------------------------------------------------------
(* The losing tail of a list of trades. *)

\* The last k trades lost money, and the one before them did not.
TailLoses(ts, k) ==
    /\ k \in Nat /\ k <= Len(ts)
    /\ \A i \in (Len(ts) - k + 1)..Len(ts) : ts[i].netPnlUsd < 0
    /\ k < Len(ts) => ~ (ts[Len(ts) - k].netPnlUsd < 0)

LEMMA TailAfter ==
    ASSUME NEW ts \in Seq(TradeType), NEW k, TailLoses(ts, k), NEW t \in TradeType
    PROVE  TailLoses(Append(ts, t), IF t.netPnlUsd < 0 THEN k + 1 ELSE 0)
<1> DEFINE r == Append(ts, t)
           n == Len(ts)
<1>1. /\ Len(r) = n + 1 /\ r[n + 1] = t
      /\ \A i \in 1..n : r[i] = ts[i]
      /\ n \in Nat
    OBVIOUS
<1>2. /\ k \in Nat /\ k <= n
      /\ \A i \in (n - k + 1)..n : ts[i].netPnlUsd < 0
      /\ k < n => ~ (ts[n - k].netPnlUsd < 0)
    BY DEF TailLoses
<1> HIDE DEF r, n
<1>3. CASE t.netPnlUsd < 0
    <2>1. ASSUME NEW i \in ((n + 1) - (k + 1) + 1)..(n + 1)
          PROVE  r[i].netPnlUsd < 0
        <3>1. CASE i = n + 1
            BY <3>1, <1>1, <1>3
        <3>2. CASE i # n + 1
            <4>1. i \in (n - k + 1)..n /\ i \in 1..n
                BY <3>2, <1>1, <1>2
            <4>. QED  BY <4>1, <1>1, <1>2
        <3>. QED  BY <3>1, <3>2
    <2>2. ASSUME k + 1 < n + 1
          PROVE  ~ (r[(n + 1) - (k + 1)].netPnlUsd < 0)
        <3>1. (n + 1) - (k + 1) = n - k /\ n - k \in 1..n /\ k < n
            BY <2>2, <1>1, <1>2
        <3>. QED  BY <3>1, <1>1, <1>2
    <2>3. k + 1 \in Nat /\ k + 1 <= n + 1
        BY <1>1, <1>2
    <2>4. TailLoses(r, k + 1)
        BY <1>1, <2>1, <2>2, <2>3 DEF TailLoses
    <2>. QED  BY <1>3, <2>4 DEF r
<1>4. CASE ~ (t.netPnlUsd < 0)
    <2>1. ~ (r[n + 1].netPnlUsd < 0)
        BY <1>1, <1>4
    <2>2. TailLoses(r, 0)
        BY <1>1, <2>1 DEF TailLoses
    <2>. QED  BY <1>4, <2>2 DEF r
<1>. QED  BY <1>3, <1>4

-----------------------------------------------------------------------------
(* What a tick does to the trades, the streak and the spend. *)

\* r is b after the sale of m at ts.
SaleOf(b, r, m, ts) ==
    \E t \in TradeType :
       /\ t.mint = m /\ t.closedTs = ts
       /\ r.closedTrades = Append(b.closedTrades, t)
       /\ r.closedCount = b.closedCount + 1
       /\ r.consecutiveLosses = IF t.netPnlUsd < 0 THEN b.consecutiveLosses + 1 ELSE 0
       /\ r.grossSpentUsd = b.grossSpentUsd

\* r has the trades of b.
SameTrades(b, r) ==
    /\ r.closedTrades = b.closedTrades
    /\ r.closedCount = b.closedCount
    /\ r.consecutiveLosses = b.consecutiveLosses

LEMMA RealiseIsSale ==
    ASSUME NEW b, BookOK(b), NEW m \in Held(b), NEW slice \in SliceType,
           NEW p \in Nat \ {0}, NEW ts \in Nat, NEW c \in Nat, NEW positions
    PROVE  SaleOf(b, Realise(b, m, slice, p, ts, c, positions), m, ts)
<1> DEFINE pos == b.positions[m]
           net == NetPnl(pos, slice, p, c)
           t == Trade(m, pos, slice, p, ts, c)
           r == Realise(b, m, slice, p, ts, c, positions)
<1>1. pos \in PositionType /\ m \in Mints
    BY DEF BookOK
<1>2. net \in Int
    BY <1>1, NetPnlType
<1>3. t \in TradeType
    BY <1>1, <1>2 DEF Trade, TradeType, SliceType, PositionType
<1>4. t.mint = m /\ t.closedTs = ts /\ t.netPnlUsd = net
    BY DEF Trade
<1>5. /\ r.closedTrades = Append(b.closedTrades, t)
      /\ r.closedCount = b.closedCount + 1
      /\ r.consecutiveLosses = StreakAfter(b, net)
      /\ r.grossSpentUsd = b.grossSpentUsd
    BY BookNumbers, RealiseFields
<1> HIDE DEF t, r, net
<1>6. SaleOf(b, r, m, ts)
    BY <1>3, <1>4, <1>5 DEF SaleOf, StreakAfter
<1>. QED  BY <1>6 DEF r

LEMMA CloseOutIsSale ==
    ASSUME TypeOK, NEW m \in todo, NEW cost \in Int, CloseOut(m, cost)
    PROVE  SaleOf(draft, draft', m, now)
<1>1. m \in Held(draft) /\ BookOK(draft) /\ now \in Nat
    BY DEF TypeOK
<1>2. m \in DOMAIN price /\ cost >= 0
    BY Zenon DEF CloseOut, CanSell
<1>3. price[m] \in Nat \ {0}
    BY <1>2, EngineAssumption DEF TypeOK
<1>4. draft' = Realise(draft, m, WholeSlice(draft.positions[m]), price[m], now,
                       cost, Drop(draft.positions, m))
    BY DEF CloseOut, closePosition
<1>5. WholeSlice(draft.positions[m]) \in SliceType
    BY <1>1, WholeSliceType DEF BookOK
<1>. QED  BY <1>1, <1>2, <1>3, <1>4, <1>5, RealiseIsSale

LEMMA ScaleOutIsSale ==
    ASSUME TypeOK, NEW m \in todo, NEW cost \in Int, ScaleOut(m, cost)
    PROVE  SaleOf(draft, draft', m, now)
<1> DEFINE f == decideExit(draft.positions[m], price[m], high[m], now).fraction
           share == Share(cost, f)
           pos == draft.positions[m]
           slice == PartSlice(pos, f[1], f[2])
           rest == Put(draft.positions, m, Remainder(pos, slice, price[m]))
<1>1. f[1] \in Nat /\ f[2] \in Nat \ {0}
    BY VerdictFraction, FractionType
<1>2. share \in Int
    <2>1. cost * f[1] \in Int
        BY <1>1
    <2>. QED  BY <1>1, <2>1 DEF Share
<1>3. /\ m \in Held(draft) /\ BookOK(draft) /\ now \in Nat
      /\ price[m] \in Nat \ {0} /\ share >= 0
    BY EngineAssumption DEF TypeOK, ScaleOut, CanSell
<1>4. draft' = Realise(draft, m, slice, price[m], now, share, rest)
    BY DEF ScaleOut, reducePosition
<1>5. slice \in SliceType
    BY <1>1, <1>3, PartSliceType DEF BookOK
<1> HIDE DEF f, share, slice, rest
<1>. QED  BY <1>2, <1>3, <1>4, <1>5, RealiseIsSale

\* An entry adds no trade and keeps the spend under the cap.
LEMMA EnterSpends ==
    ASSUME TypeOK, NEW m \in Mints, NEW legs \in LegCosts, Enter(m, legs)
    PROVE  /\ SameTrades(draft, draft')
           /\ draft.grossSpentUsd <= draft'.grossSpentUsd
           /\ draft'.grossSpentUsd <= SpendCap
<1> DEFINE cost == EntryCharge(legs)
<1>1. /\ BookOK(draft) /\ cost \in Nat /\ PositionSize \in Nat \ {0}
    BY EngineAssumption DEF TypeOK, EntryCharge
<1>2. /\ draft' = openPosition(draft, m, PositionSize, price[m], now, cost)
      /\ draft.grossSpentUsd + PositionSize + cost <= SpendCap
    BY DEF Enter, CanOpen
<1> HIDE DEF cost
<1>3. draft'.grossSpentUsd = draft.grossSpentUsd + (PositionSize + cost)
    BY <1>1, <1>2, BookNumbers, OpenFields
<1>4. draft.grossSpentUsd \in Nat /\ SpendCap \in Nat
    BY <1>1, BookNumbers, LimitsAssumption
<1>5. SameTrades(draft, draft')
    BY EnterPosition DEF SameTrades
<1>. QED  BY <1>1, <1>2, <1>3, <1>4, <1>5

\* The marks at the start of a tick add nothing.
LEMMA BeginTickKeeps ==
    ASSUME TypeOK, NEW prices \in SomePrices, BeginTick(now + 1, prices)
    PROVE  SameTrades(book, draft') /\ draft'.grossSpentUsd = book.grossSpentUsd
<1>1. DOMAIN book = BookFields
    BY BookNumbers DEF TypeOK
<1>2. draft' = book \/ draft' = markPositions(book, MarksOf(book, prices))
    BY DEF BeginTick
<1>. QED  BY <1>1, <1>2, MarkFields DEF SameTrades

-----------------------------------------------------------------------------
(* The trades a tick has added to the book it started from. *)

\* new is old after the sales of one tick at `at', each of another mint and none
\* of a mint in `left'.
FreshSales(old, new, at, left) ==
    LET was == Len(old.closedTrades)
        fresh == was + 1 .. Len(new.closedTrades)
    IN /\ was <= Len(new.closedTrades)
       /\ new.closedCount - old.closedCount = Len(new.closedTrades) - was
       /\ \A i \in 1..was : new.closedTrades[i] = old.closedTrades[i]
       /\ \A i \in fresh : /\ new.closedTrades[i].closedTs = at
                           /\ new.closedTrades[i].mint \notin left
       /\ \A i, j \in fresh :
             i # j => new.closedTrades[i].mint # new.closedTrades[j].mint

LEMMA NoSaleYet ==
    ASSUME NEW b, BookOK(b), NEW r, SameTrades(b, r), NEW at, NEW left
    PROVE  FreshSales(b, r, at, left)
<1>1. Len(b.closedTrades) \in Nat /\ b.closedCount \in Nat
    BY TradeTimes, BookNumbers
<1>. QED  BY <1>1 DEF FreshSales, SameTrades

LEMMA OneMoreSale ==
    ASSUME NEW b, BookOK(b), NEW d, BookOK(d), NEW r, NEW m, NEW at, NEW left,
           m \in left, FreshSales(b, d, at, left), SaleOf(d, r, m, at)
    PROVE  FreshSales(b, r, at, left \ {m})
<1> DEFINE was == Len(b.closedTrades)
           n == Len(d.closedTrades)
<1>1. was \in Nat /\ b.closedCount \in Nat /\ n \in Nat /\ d.closedCount \in Nat
    BY TradeTimes, BookNumbers
<1>2. /\ was <= n
      /\ d.closedCount - b.closedCount = n - was
      /\ \A i \in 1..was : d.closedTrades[i] = b.closedTrades[i]
      /\ \A i \in was + 1 .. n : /\ d.closedTrades[i].closedTs = at
                                 /\ d.closedTrades[i].mint \notin left
      /\ \A i, j \in was + 1 .. n :
            i # j => d.closedTrades[i].mint # d.closedTrades[j].mint
    BY DEF FreshSales
<1>3. PICK t \in TradeType :
         /\ t.mint = m /\ t.closedTs = at
         /\ r.closedTrades = Append(d.closedTrades, t)
         /\ r.closedCount = d.closedCount + 1
    BY DEF SaleOf
<1>4. d.closedTrades \in Seq(TradeType)
    BY DEF BookOK
<1>5. /\ Len(r.closedTrades) = n + 1
      /\ r.closedTrades[n + 1] = t
      /\ \A i \in 1..n : r.closedTrades[i] = d.closedTrades[i]
    BY <1>3, <1>4
<1> HIDE DEF was, n
<1>6. /\ was <= n + 1
      /\ r.closedCount - b.closedCount = (n + 1) - was
    BY <1>1, <1>2, <1>3
<1>7. \A i \in 1..was : r.closedTrades[i] = b.closedTrades[i]
    BY <1>1, <1>2, <1>5
<1>8. ASSUME NEW i \in was + 1 .. n + 1
      PROVE  i = n + 1 \/ (i \in was + 1 .. n /\ i \in 1..n)
    BY <1>1
<1>9. \A i \in was + 1 .. n + 1 : /\ r.closedTrades[i].closedTs = at
                                  /\ r.closedTrades[i].mint \notin left \ {m}
    BY <1>2, <1>3, <1>5, <1>8
<1>10. \A i, j \in was + 1 .. n + 1 :
          i # j => r.closedTrades[i].mint # r.closedTrades[j].mint
    BY <1>2, <1>3, <1>5, <1>8
<1>. QED  BY <1>5, <1>6, <1>7, <1>9, <1>10 DEF FreshSales, was

\* What publishBook appends.
LEMMA Published ==
    ASSUME NEW b, BookOK(b), NEW d, BookOK(d), NEW at, NEW left,
           FreshSales(b, d, at, left)
    PROVE  LET was == Len(b.closedTrades)
               n == Len(d.closedTrades)
               sold == newlyClosed(b, d)
           IN /\ was \in Nat /\ n \in Nat /\ was <= n
              /\ Len(sold) = n - was
              /\ \A i \in 1..(n - was) : sold[i] = d.closedTrades[was + i]
              /\ sold \in Seq(TradeType)
              /\ d.closedCount - b.closedCount = n - was
<1> DEFINE was == Len(b.closedTrades)
           n == Len(d.closedTrades)
           seq == d.closedTrades
<1>1. /\ was \in Nat /\ b.closedCount \in Nat /\ n \in Nat /\ d.closedCount \in Nat
      /\ was <= n
      /\ d.closedCount - b.closedCount = n - was
      /\ seq \in Seq(TradeType)
    BY TradeTimes, BookNumbers DEF FreshSales, BookOK
<1>2. newlyClosed(b, d) = SubSeq(seq, n - (n - was) + 1, n)
    BY <1>1 DEF newlyClosed
<1> HIDE DEF was
<1>3. n - (n - was) + 1 = was + 1
    BY <1>1
<1>4. newlyClosed(b, d) = SubSeq(seq, was + 1, n)
    BY <1>2, <1>3
<1> HIDE DEF n, seq
<1>5. n = Len(seq)
    BY DEF n, seq
<1>6. /\ SubSeq(seq, was + 1, n) \in Seq(TradeType)
      /\ Len(SubSeq(seq, was + 1, n)) = n - was
      /\ \A i \in 1..(n - was) : SubSeq(seq, was + 1, n)[i] = seq[was + i]
    BY <1>1, <1>5
<1>. QED  BY <1>1, <1>4, <1>6 DEF was, n, seq

-----------------------------------------------------------------------------
(* The invariant of the loop. *)

Running == stage \in {"tick", "publish"}

\* The portfolio whose trades the disk should have: the one of the last publish.
Kept == IF Running THEN before ELSE book

StageOK ==
    /\ stage \in {"cycle", "tick", "publish", "down"}
    /\ stage = "tick" <=> pc # "idle"
    /\ stage = "tick" => before = book
    /\ Running => FreshSales(before, draft, now, todo)

\* The trades on disk are dated, before the clock of the tick in progress.
Dated(ts, t) == \A i \in DOMAIN ts : ts[i].closedTs <= t
DatedBefore(ts, t) == \A i \in DOMAIN ts : ts[i].closedTs < t

Distinct(ts) ==
    \A i, j \in DOMAIN ts :
       i # j => \/ ts[i].mint # ts[j].mint
                \/ ts[i].closedTs # ts[j].closedTs

StampsOK ==
    /\ Dated(trades, now) /\ Distinct(trades)
    /\ Running => DatedBefore(trades, now)

\* The trade lines ts are trades of b, and all of them when b counts no more.
Covers(b, ts) ==
    /\ Len(ts) <= Len(b.closedTrades) /\ Len(b.closedTrades) <= b.closedCount
    /\ Len(ts) = b.closedCount => ts = b.closedTrades

\* A book that has every trade it counts has the losing tail of them.
StreakOK(b) ==
    b.closedCount = Len(b.closedTrades) => TailLoses(b.closedTrades, b.consecutiveLosses)

\* What the newest line says of the trade lines, and of the spend.
LineSaysSo(l, ts) ==
    IF l = NoLine THEN ts = << >>
    ELSE /\ Len(ts) <= l.closedCount
         /\ l.closedCount = Len(ts) => TailLoses(ts, l.consecutiveLosses)
         /\ l.grossSpentUsd <= SpendCap

BooksOK ==
    stage # "down" =>
       /\ Covers(Kept, trades)
       /\ StreakOK(book) /\ StreakOK(draft)
       /\ draft.grossSpentUsd <= SpendCap
       /\ book.grossSpentUsd <= draft.grossSpentUsd
       /\ line # NoLine => line.grossSpentUsd <= book.grossSpentUsd

DiskOK == trades \in Seq(TradeType) /\ LineOK(line) /\ LineSaysSo(line, trades)

BotInv ==
    /\ TypeOK /\ BookOK(before)
    /\ StageOK /\ StampsOK /\ BooksOK /\ DiskOK

LEMMA BotInvInit == BotInit => BotInv
<1> SUFFICES ASSUME BotInit
             PROVE  BotInv
    OBVIOUS
<1>1. TypeOK /\ BookOK(before) /\ BookOK(emptyPortfolio)
    BY TypeInit, EmptyBook DEF BotInit
<1>2. /\ stage = "cycle" /\ pc = "idle" /\ trades = << >>
      /\ book = emptyPortfolio /\ draft = emptyPortfolio
      /\ line = NoLine \/ line = buildBookRecord(emptyPortfolio)
    BY DEF BotInit, Init
<1>3. /\ trades \in Seq(TradeType) /\ Len(trades) = 0 /\ DOMAIN trades = {}
    BY <1>2
<1>4. TailLoses(<< >>, 0)
    BY DEF TailLoses
<1>5. line # NoLine => /\ line.closedCount = 0 /\ line.consecutiveLosses = 0
                       /\ line.grossSpentUsd = 0
    BY <1>2, EmptyFields, LineOfBook
<1>6. LineOK(line)
    BY <1>1, <1>2 DEF LineOK
<1>7. StageOK /\ StampsOK
    BY <1>2, <1>3 DEF StageOK, StampsOK, Running, Dated, Distinct
<1>8. DiskOK
    BY <1>2, <1>3, <1>4, <1>5, <1>6, LimitsAssumption DEF DiskOK, LineSaysSo
<1>9. /\ emptyPortfolio.closedTrades = << >> /\ emptyPortfolio.closedCount = 0
      /\ emptyPortfolio.consecutiveLosses = 0
      /\ emptyPortfolio.grossSpentUsd = 0
    BY EmptyFields
<1>10. BooksOK
    BY <1>2, <1>3, <1>4, <1>5, <1>9, LimitsAssumption
       DEF BooksOK, Covers, Kept, Running, StreakOK
<1>. QED  BY <1>1, <1>7, <1>8, <1>10 DEF BotInv

\* A sale keeps the streak.
LEMMA SaleKeepsStreakOK ==
    ASSUME NEW b, BookOK(b), StreakOK(b), NEW r, NEW m, NEW at, SaleOf(b, r, m, at)
    PROVE  StreakOK(r)
<1>1. PICK t \in TradeType :
         /\ r.closedTrades = Append(b.closedTrades, t)
         /\ r.closedCount = b.closedCount + 1
         /\ r.consecutiveLosses = IF t.netPnlUsd < 0 THEN b.consecutiveLosses + 1 ELSE 0
    BY DEF SaleOf
<1>2. b.closedTrades \in Seq(TradeType) /\ b.closedCount \in Nat
    BY BookNumbers DEF BookOK
<1>3. Len(r.closedTrades) = Len(b.closedTrades) + 1
    BY <1>1, <1>2
<1>4. SUFFICES ASSUME r.closedCount = Len(r.closedTrades)
               PROVE  TailLoses(r.closedTrades, r.consecutiveLosses)
    BY DEF StreakOK
<1>5. b.closedCount = Len(b.closedTrades)
    BY <1>1, <1>2, <1>3, <1>4
<1>6. TailLoses(b.closedTrades, b.consecutiveLosses)
    BY <1>5 DEF StreakOK
<1>. QED  BY <1>1, <1>2, <1>6, TailAfter

LEMMA SameKeepsStreakOK ==
    ASSUME NEW b, StreakOK(b), NEW r, SameTrades(b, r)
    PROVE  StreakOK(r)
    BY DEF StreakOK, SameTrades

\* Trades and marks a tick leaves alone.
LEMMA SameKeepsFresh ==
    ASSUME NEW b, NEW d, NEW r, SameTrades(d, r), NEW at, NEW left, NEW rest,
           rest \subseteq left, FreshSales(b, d, at, left)
    PROVE  FreshSales(b, r, at, rest)
    BY DEF FreshSales, SameTrades

LEMMA InsideTickStep ==
    ASSUME BotInv, InsideTick
    PROVE  BotInv'
<1>0. /\ TypeOK /\ BookOK(before) /\ StageOK /\ StampsOK /\ BooksOK /\ DiskOK
      /\ BookOK(draft)
    BY DEF BotInv, TypeOK
<1>1. /\ stage = "tick" /\ stage' = "tick"
      /\ before' = before /\ line' = line /\ trades' = trades
    BY DEF InsideTick, disk
<1>2. EngineNext
    BY DEF InsideTick, EngineNext
<1>3. TypeOK'
    BY <1>0, <1>2, TypeStep
<1>4. /\ pc # "idle" /\ before = book
      /\ FreshSales(before, draft, now, todo)
      /\ Covers(before, trades)
      /\ StreakOK(book) /\ StreakOK(draft)
      /\ draft.grossSpentUsd <= SpendCap
      /\ book.grossSpentUsd <= draft.grossSpentUsd
      /\ line # NoLine => line.grossSpentUsd <= book.grossSpentUsd
    BY <1>0, <1>1 DEF StageOK, BooksOK, Running, Kept
<1>5. /\ draft.grossSpentUsd \in Nat /\ book.grossSpentUsd \in Nat /\ SpendCap \in Nat
    BY <1>0, BookNumbers, LimitsAssumption DEF TypeOK
\* What is left to show of each of the four kinds of step.
<1> DEFINE Goal == /\ book' = book /\ now' = now /\ pc' # "idle"
                   /\ FreshSales(before, draft', now, todo')
                   /\ StreakOK(draft')
                   /\ draft'.grossSpentUsd <= SpendCap
                   /\ book.grossSpentUsd <= draft'.grossSpentUsd
<1>6. ASSUME NEW m \in todo, Hold(m)
      PROVE  Goal
    <2>1. /\ book' = book /\ now' = now /\ pc' = pc /\ draft' = draft
          /\ todo' = todo \ {m}
        BY <1>6 DEF Hold, committed
    <2>2. SameTrades(draft, draft')
        BY <2>1 DEF SameTrades
    <2>3. FreshSales(before, draft', now, todo')
        BY <1>4, <2>1, <2>2, SameKeepsFresh
    <2>. QED  BY <1>4, <2>1, <2>3
<1>7. ASSUME NEW m \in todo, SaleOf(draft, draft', m, now),
             todo' = todo \ {m}, book' = book, now' = now, pc' = pc
      PROVE  Goal
    <2>1. FreshSales(before, draft', now, todo')
        BY <1>0, <1>4, <1>7, OneMoreSale
    <2>2. StreakOK(draft')
        BY <1>0, <1>4, <1>7, SaleKeepsStreakOK
    <2>3. draft'.grossSpentUsd = draft.grossSpentUsd
        BY <1>7 DEF SaleOf
    <2>. QED  BY <1>4, <1>7, <2>1, <2>2, <2>3
<1>8. ASSUME NEW m \in todo, NEW cost \in Int, CloseOut(m, cost)
      PROVE  Goal
    <2>1. SaleOf(draft, draft', m, now)
        BY <1>0, <1>8, CloseOutIsSale
    <2>2. todo' = todo \ {m} /\ book' = book /\ now' = now /\ pc' = pc
        BY <1>8, Zenon DEF CloseOut, committed
    <2>. QED  BY <1>7, <2>1, <2>2
<1>9. ASSUME NEW m \in todo, NEW cost \in Int, ScaleOut(m, cost)
      PROVE  Goal
    <2>1. SaleOf(draft, draft', m, now)
        BY <1>0, <1>9, ScaleOutIsSale
    <2>2. todo' = todo \ {m} /\ book' = book /\ now' = now /\ pc' = pc
        BY <1>9, Zenon DEF ScaleOut, committed
    <2>. QED  BY <1>7, <2>1, <2>2
<1>10. ASSUME SwitchClear
       PROVE  Goal
    <2>1. /\ book' = book /\ now' = now /\ pc' = "entries" /\ draft' = draft
          /\ todo' = todo
        BY <1>10 DEF SwitchClear, committed, local
    <2>. QED  BY <1>4, <2>1
<1>11. ASSUME NEW m \in Mints, NEW legs \in LegCosts, Enter(m, legs)
       PROVE  Goal
    <2>1. /\ SameTrades(draft, draft')
          /\ draft.grossSpentUsd <= draft'.grossSpentUsd
          /\ draft'.grossSpentUsd <= SpendCap
        BY <1>0, <1>11, EnterSpends
    <2>2. book' = book /\ now' = now /\ pc' = pc /\ todo' = todo
        BY <1>11 DEF Enter, committed
    <2>3. FreshSales(before, draft', now, todo')
        BY <1>4, <2>1, <2>2, SameKeepsFresh
    <2>4. StreakOK(draft')
        BY <1>4, <2>1, SameKeepsStreakOK
    <2>5. draft'.grossSpentUsd \in Nat
        BY <1>3, BookNumbers DEF TypeOK
    <2>6. book.grossSpentUsd <= draft'.grossSpentUsd
        BY <1>4, <1>5, <2>1, <2>5
    <2>. QED  BY <1>4, <2>1, <2>2, <2>3, <2>4, <2>6
<1>12. Goal
    <2>1. CASE SwitchClear
        BY <2>1, <1>10
    <2>2. CASE Exit
        <3>1. PICK m \in todo :
                 Hold(m) \/ \E cost \in ExitCosts(draft.positions[m]) :
                               CloseOut(m, cost) \/ ScaleOut(m, cost)
            BY <2>2 DEF Exit
        <3>2. ExitCosts(draft.positions[m]) \subseteq Int
            BY <1>0, ExitCostType
        <3> HIDE DEF Goal
        <3>. QED  BY <3>1, <3>2, <1>6, <1>8, <1>9
    <2>3. CASE \E m \in Mints, legs \in LegCosts : Enter(m, legs)
        BY <2>3, <1>11
    <2>. QED  BY <2>1, <2>2, <2>3 DEF InsideTick
<1>13. StageOK'
    BY <1>1, <1>4, <1>12 DEF StageOK, Running
<1>14. StampsOK'
    BY <1>0, <1>1, <1>12 DEF StampsOK, Running
<1>15. BooksOK'
    BY <1>1, <1>4, <1>12 DEF BooksOK, Kept, Running
<1>16. DiskOK'
    BY <1>0, <1>1 DEF DiskOK
<1>. QED  BY <1>0, <1>1, <1>3, <1>13, <1>14, <1>15, <1>16 DEF BotInv

-----------------------------------------------------------------------------
(* The other steps of the loop. *)

LEMMA TradeDates ==
    ASSUME NEW ts \in Seq(TradeType)
    PROVE  \A i \in DOMAIN ts : ts[i].closedTs \in Nat
<1>1. \A i \in DOMAIN ts : ts[i] \in TradeType
    OBVIOUS
<1>. QED  BY <1>1 DEF TradeType

\* What the parts of the invariant say at each stage.
LEMMA AtPublish ==
    ASSUME BotInv, stage = "publish"
    PROVE  /\ TypeOK /\ BookOK(before) /\ BookOK(book) /\ draft = book /\ pc = "idle"
           /\ now \in Nat
           /\ FreshSales(before, book, now, todo)
           /\ Dated(trades, now) /\ Distinct(trades) /\ DatedBefore(trades, now)
           /\ Covers(before, trades)
           /\ StreakOK(book)
           /\ book.grossSpentUsd <= SpendCap
           /\ line # NoLine => line.grossSpentUsd <= book.grossSpentUsd
           /\ trades \in Seq(TradeType) /\ LineOK(line) /\ LineSaysSo(line, trades)
<1>1. TypeOK /\ BookOK(before) /\ BookOK(book) /\ pc = "idle" /\ draft = book /\ now \in Nat
    BY DEF BotInv, StageOK, TypeOK
<1>. QED
    BY <1>1 DEF BotInv, StageOK, StampsOK, BooksOK, DiskOK, Running, Kept

LEMMA AtCycle ==
    ASSUME BotInv, stage = "cycle"
    PROVE  /\ TypeOK /\ BookOK(before) /\ BookOK(book) /\ draft = book /\ pc = "idle"
           /\ now \in Nat
           /\ Dated(trades, now) /\ Distinct(trades)
           /\ Covers(book, trades)
           /\ StreakOK(book)
           /\ book.grossSpentUsd <= SpendCap
           /\ line # NoLine => line.grossSpentUsd <= book.grossSpentUsd
           /\ trades \in Seq(TradeType) /\ LineOK(line) /\ LineSaysSo(line, trades)
<1>1. TypeOK /\ BookOK(before) /\ BookOK(book) /\ pc = "idle" /\ draft = book /\ now \in Nat
    BY DEF BotInv, StageOK, TypeOK
<1>. QED
    BY <1>1 DEF BotInv, StageOK, StampsOK, BooksOK, DiskOK, Running, Kept

LEMMA AtTick ==
    ASSUME BotInv, stage = "tick"
    PROVE  /\ TypeOK /\ BookOK(before) /\ BookOK(book) /\ BookOK(draft)
           /\ before = book /\ now \in Nat
           /\ FreshSales(before, draft, now, todo)
           /\ Dated(trades, now) /\ Distinct(trades) /\ DatedBefore(trades, now)
           /\ Covers(before, trades)
           /\ StreakOK(book) /\ StreakOK(draft)
           /\ draft.grossSpentUsd <= SpendCap
           /\ book.grossSpentUsd <= draft.grossSpentUsd
           /\ line # NoLine => line.grossSpentUsd <= book.grossSpentUsd
           /\ trades \in Seq(TradeType) /\ LineOK(line) /\ LineSaysSo(line, trades)
<1>1. TypeOK /\ BookOK(before) /\ BookOK(book) /\ BookOK(draft) /\ now \in Nat
    BY DEF BotInv, TypeOK
<1>. QED
    BY <1>1 DEF BotInv, StageOK, StampsOK, BooksOK, DiskOK, Running, Kept

\* The same books and the same disk at the start of a cycle.
LEMMA CycleAgain ==
    ASSUME TypeOK', BookOK(before'), stage' = "cycle", pc' = "idle", draft' = book',
           Dated(trades', now'), Distinct(trades'), Covers(book', trades'),
           StreakOK(book'),
           book'.grossSpentUsd \in Nat,
           book'.grossSpentUsd <= SpendCap,
           line' # NoLine => line'.grossSpentUsd <= book'.grossSpentUsd,
           trades' \in Seq(TradeType), LineOK(line'), LineSaysSo(line', trades')
    PROVE  BotInv'
    BY DEF BotInv, StageOK, StampsOK, BooksOK, DiskOK, Running, Kept

LEMMA StaleCycleStep ==
    ASSUME BotInv, StaleCycle
    PROVE  BotInv'
<1>1. /\ stage = "cycle" /\ now' = now + 1
      /\ book' = book /\ draft' = draft /\ pc' = pc /\ todo' = todo /\ price' = price
      /\ stage' = stage /\ before' = before /\ line' = line /\ trades' = trades
    BY DEF StaleCycle, committed, local, disk
<1>2. /\ TypeOK /\ BookOK(before) /\ BookOK(book) /\ draft = book /\ pc = "idle"
      /\ now \in Nat
      /\ Dated(trades, now) /\ Distinct(trades)
      /\ Covers(book, trades)
      /\ StreakOK(book)
      /\ book.grossSpentUsd <= SpendCap
      /\ line # NoLine => line.grossSpentUsd <= book.grossSpentUsd
      /\ trades \in Seq(TradeType) /\ LineOK(line) /\ LineSaysSo(line, trades)
    BY <1>1, AtCycle
<1>3. TypeOK'
    BY <1>1, <1>2 DEF TypeOK, Usable
<1>4. \A i \in DOMAIN trades : trades[i].closedTs \in Nat
    BY <1>2, TradeDates
<1>5. Dated(trades, now + 1)
    BY <1>2, <1>4 DEF Dated
<1>6. book.grossSpentUsd \in Nat
    BY <1>2, BookNumbers
<1>. QED  BY <1>1, <1>2, <1>3, <1>5, <1>6, CycleAgain

LEMMA StartTickStep ==
    ASSUME BotInv, StartTick
    PROVE  BotInv'
<1>1. /\ stage = "cycle" /\ stage' = "tick" /\ before' = book
      /\ line' = line /\ trades' = trades
    BY DEF StartTick, disk
<1>2. PICK prices \in SomePrices : BeginTick(now + 1, prices)
    BY DEF StartTick, Tick
<1>3. /\ TypeOK /\ BookOK(before) /\ BookOK(book) /\ draft = book /\ pc = "idle"
      /\ now \in Nat
      /\ Dated(trades, now) /\ Distinct(trades)
      /\ Covers(book, trades)
      /\ StreakOK(book)
      /\ book.grossSpentUsd <= SpendCap
      /\ line # NoLine => line.grossSpentUsd <= book.grossSpentUsd
      /\ trades \in Seq(TradeType) /\ LineOK(line) /\ LineSaysSo(line, trades)
    BY <1>1, AtCycle
<1>4. EngineNext
    BY DEF StartTick, EngineNext
<1>5. TypeOK'
    BY <1>3, <1>4, TypeStep
<1>6. book' = book /\ pc' = "exits" /\ now' = now + 1
    BY <1>2 DEF BeginTick, committed
<1>7. SameTrades(book, draft') /\ draft'.grossSpentUsd = book.grossSpentUsd
    BY <1>2, <1>3, BeginTickKeeps
<1>8. FreshSales(book, draft', now', todo')
    BY <1>3, <1>7, NoSaleYet
<1>9. StreakOK(draft')
    BY <1>3, <1>7, SameKeepsStreakOK
<1>10. \A i \in DOMAIN trades : trades[i].closedTs \in Nat
    BY <1>3, TradeDates
<1>11. Dated(trades, now + 1) /\ DatedBefore(trades, now + 1)
    BY <1>3, <1>10 DEF Dated, DatedBefore
<1>12. book.grossSpentUsd \in Nat
    BY <1>3, BookNumbers
<1>13. StageOK'
    BY <1>1, <1>6, <1>8 DEF StageOK, Running
<1>14. StampsOK'
    BY <1>1, <1>3, <1>6, <1>11 DEF StampsOK, Running
<1>15. BooksOK'
    BY <1>1, <1>3, <1>6, <1>7, <1>9, <1>12 DEF BooksOK, Kept, Running
<1>16. DiskOK'
    BY <1>1, <1>3 DEF DiskOK
<1>. QED  BY <1>1, <1>3, <1>5, <1>13, <1>14, <1>15, <1>16 DEF BotInv

LEMMA FinishTickStep ==
    ASSUME BotInv, FinishTick
    PROVE  BotInv'
<1>1. /\ stage = "tick" /\ stage' = "publish" /\ before' = before
      /\ line' = line /\ trades' = trades
    BY DEF FinishTick, disk
<1>2. /\ book' = draft /\ draft' = draft /\ pc' = "idle" /\ todo' = {} /\ now' = now
    BY DEF FinishTick, KillSwitch, EndTick, Commit
<1>3. /\ TypeOK /\ BookOK(before) /\ BookOK(draft) /\ before = book
      /\ FreshSales(before, draft, now, todo)
      /\ Dated(trades, now) /\ Distinct(trades) /\ DatedBefore(trades, now)
      /\ Covers(before, trades)
      /\ StreakOK(draft)
      /\ draft.grossSpentUsd <= SpendCap
      /\ book.grossSpentUsd <= draft.grossSpentUsd
      /\ line # NoLine => line.grossSpentUsd <= book.grossSpentUsd
      /\ trades \in Seq(TradeType) /\ LineOK(line) /\ LineSaysSo(line, trades)
      /\ BookOK(book)
    BY <1>1, AtTick
<1>4. EngineNext
    BY DEF FinishTick, EngineNext
<1>5. TypeOK'
    BY <1>3, <1>4, TypeStep
<1>6. SameTrades(draft, draft)
    BY DEF SameTrades
<1>7. FreshSales(before, draft, now, {})
    BY <1>3, <1>6, SameKeepsFresh
<1>8. line # NoLine => line.grossSpentUsd <= draft.grossSpentUsd
    <2>1. CASE line # NoLine
        <3>1. PICK b : BookOK(b) /\ line = buildBookRecord(b)
            BY <1>3, <2>1 DEF LineOK
        <3>2. line.grossSpentUsd \in Nat
            BY <3>1, BookNumbers, LineOfBook
        <3>3. draft.grossSpentUsd \in Nat /\ book.grossSpentUsd \in Nat
            BY <1>3, BookNumbers
        <3>. QED  BY <1>3, <2>1, <3>2, <3>3
    <2>. QED  BY <2>1
<1>9. draft.grossSpentUsd \in Nat
    BY <1>3, BookNumbers
<1>10. StageOK'
    BY <1>1, <1>2, <1>7 DEF StageOK, Running
<1>11. StampsOK'
    BY <1>1, <1>2, <1>3 DEF StampsOK, Running
<1>12. BooksOK'
    BY <1>1, <1>2, <1>3, <1>8, <1>9 DEF BooksOK, Kept, Running
<1>13. DiskOK'
    BY <1>1, <1>3 DEF DiskOK
<1>. QED  BY <1>1, <1>3, <1>5, <1>10, <1>11, <1>12, <1>13 DEF BotInv

LEMMA FailedCycleStep ==
    ASSUME BotInv, FailedCycle
    PROVE  BotInv'
<1>1. /\ stage = "tick" /\ stage' = "cycle" /\ before' = before
      /\ line' = line /\ trades' = trades
    BY DEF FailedCycle, disk
<1>2. /\ book' = book /\ draft' = book /\ pc' = "idle" /\ now' = now
    BY DEF FailedCycle, ThrowInTick, committed
<1>3. /\ TypeOK /\ BookOK(before) /\ BookOK(draft) /\ before = book
      /\ Dated(trades, now) /\ Distinct(trades)
      /\ Covers(before, trades)
      /\ StreakOK(book)
      /\ draft.grossSpentUsd <= SpendCap
      /\ book.grossSpentUsd <= draft.grossSpentUsd
      /\ line # NoLine => line.grossSpentUsd <= book.grossSpentUsd
      /\ trades \in Seq(TradeType) /\ LineOK(line) /\ LineSaysSo(line, trades)
      /\ BookOK(book)
    BY <1>1, AtTick
<1>4. EngineNext
    BY DEF FailedCycle, EngineNext
<1>5. TypeOK'
    BY <1>3, <1>4, TypeStep
<1>6. book.grossSpentUsd \in Nat /\ draft.grossSpentUsd \in Nat /\ SpendCap \in Nat
    BY <1>3, BookNumbers, LimitsAssumption
<1>7. book.grossSpentUsd <= SpendCap
    BY <1>3, <1>6
<1>. QED  BY <1>1, <1>2, <1>3, <1>5, <1>6, <1>7, CycleAgain

-----------------------------------------------------------------------------
(* The append, and a restart. *)

LEMMA SameList ==
    ASSUME NEW s \in Seq(TradeType), NEW t \in Seq(TradeType), Len(s) = Len(t),
           \A i \in 1..Len(s) : s[i] = t[i]
    PROVE  s = t
    OBVIOUS

LEMMA JoinedLists ==
    ASSUME NEW s \in Seq(TradeType), NEW t \in Seq(TradeType)
    PROVE  /\ s \o t \in Seq(TradeType)
           /\ Len(s \o t) = Len(s) + Len(t)
           /\ \A i \in 1..Len(s) : (s \o t)[i] = s[i]
           /\ \A i \in 1..Len(t) : (s \o t)[Len(s) + i] = t[i]
    OBVIOUS

\* An append that stops anywhere leaves the newest book line and a first part
\* of the trades it was to write: nothing, or j of them after the book line.
Appended(k, j) ==
    LET was == Len(before.closedTrades)
        n == Len(book.closedTrades)
    IN /\ j \in 0..(n - was)
       /\ trades' \in Seq(TradeType)
       /\ Len(trades') = Len(trades) + j
       /\ \A i \in 1..Len(trades) : trades'[i] = trades[i]
       /\ \A i \in 1..j : trades'[Len(trades) + i] = book.closedTrades[was + i]
       /\ IF k = 0 THEN j = 0 /\ line' = line ELSE line' = buildBookRecord(book)
       /\ k = LineCount(before, book) => j = n - was

LEMMA AppendedLines ==
    ASSUME BotInv, stage = "publish", NEW k \in 0..LineCount(before, book),
           Append_(before, book, k)
    PROVE  \E j : Appended(k, j)
<1> DEFINE was == Len(before.closedTrades)
           n == Len(book.closedTrades)
           sold == newlyClosed(before, book)
<1>1. /\ was \in Nat /\ n \in Nat /\ was <= n
      /\ Len(sold) = n - was
      /\ \A i \in 1..(n - was) : sold[i] = book.closedTrades[was + i]
      /\ sold \in Seq(TradeType)
      /\ LineCount(before, book) = 1 + (n - was)
      /\ trades \in Seq(TradeType)
    BY AtPublish, Published DEF LineCount
<1>2. /\ line' = IF k >= 1 THEN buildBookRecord(book) ELSE line
      /\ trades' = IF k >= 2 THEN trades \o SubSeq(sold, 1, k - 1) ELSE trades
    BY DEF Append_
<1> HIDE DEF was, n, sold
<1>3. CASE k = 0 \/ k = 1
    <2>1. trades' = trades /\ Len(trades) \in Nat
        BY <1>1, <1>2, <1>3
    <2>2. IF k = 0 THEN line' = line ELSE line' = buildBookRecord(book)
        BY <1>2, <1>3
    <2>3. k = LineCount(before, book) => 0 = n - was
        BY <1>1, <1>3
    <2>4. Appended(k, 0)
        BY <1>1, <2>1, <2>2, <2>3 DEF Appended, was, n
    <2>. QED  BY <2>4
<1>4. CASE k \in 2..(1 + (n - was))
    <2> DEFINE part == SubSeq(sold, 1, k - 1)
    <2>1. /\ part \in Seq(TradeType) /\ Len(part) = k - 1
          /\ \A i \in 1..(k - 1) : part[i] = sold[i]
        BY <1>1, <1>4
    <2>2. trades' = trades \o part /\ line' = buildBookRecord(book) /\ k # 0
        BY <1>1, <1>2, <1>4
    <2> HIDE DEF part
    <2>3. /\ trades' \in Seq(TradeType)
          /\ Len(trades') = Len(trades) + (k - 1)
          /\ \A i \in 1..Len(trades) : trades'[i] = trades[i]
          /\ \A i \in 1..(k - 1) : trades'[Len(trades) + i] = part[i]
        BY <1>1, <2>1, <2>2, JoinedLists
    <2>4. \A i \in 1..(k - 1) : trades'[Len(trades) + i] = book.closedTrades[was + i]
        <3> SUFFICES ASSUME NEW i \in 1..(k - 1)
                     PROVE  trades'[Len(trades) + i] = book.closedTrades[was + i]
            OBVIOUS
        <3>1. i \in 1..(n - was)
            BY <1>1, <1>4
        <3>. QED  BY <1>1, <2>1, <2>3, <3>1
    <2>5. k - 1 \in 0..(n - was)
        BY <1>1, <1>4
    <2>6. k = LineCount(before, book) => k - 1 = n - was
        BY <1>1
    <2>7. Appended(k, k - 1)
        BY <2>2, <2>3, <2>4, <2>5, <2>6 DEF Appended, was, n
    <2>. QED  BY <2>7
<1>5. k \in 0..(1 + (n - was))
    BY <1>1
<1>. QED  BY <1>1, <1>3, <1>4, <1>5

\* Whatever part of the append reached the disk, what is there is in order.
LEMMA AppendKeepsDisk ==
    ASSUME BotInv, stage = "publish", NEW k, NEW j, Appended(k, j)
    PROVE  /\ trades' \in Seq(TradeType)
           /\ Dated(trades', now) /\ Distinct(trades')
           /\ LineOK(line') /\ LineSaysSo(line', trades')
           /\ line' # NoLine => line'.grossSpentUsd <= book.grossSpentUsd
           /\ k = 0 \/ k = LineCount(before, book) => Covers(book, trades')
<1> DEFINE was == Len(before.closedTrades)
           n == Len(book.closedTrades)
           old == Len(trades)
<1>1. /\ BookOK(before) /\ BookOK(book) /\ now \in Nat
      /\ FreshSales(before, book, now, todo)
      /\ Dated(trades, now) /\ Distinct(trades) /\ DatedBefore(trades, now)
      /\ Covers(before, trades)
      /\ StreakOK(book)
      /\ book.grossSpentUsd <= SpendCap
      /\ line # NoLine => line.grossSpentUsd <= book.grossSpentUsd
      /\ trades \in Seq(TradeType) /\ LineOK(line) /\ LineSaysSo(line, trades)
    BY AtPublish
<1>2. /\ was \in Nat /\ n \in Nat /\ was <= n
      /\ book.closedCount - before.closedCount = n - was
      /\ \A i \in 1..was : book.closedTrades[i] = before.closedTrades[i]
      /\ \A i \in was + 1 .. n : book.closedTrades[i].closedTs = now
      /\ \A i, i2 \in was + 1 .. n :
            i # i2 => book.closedTrades[i].mint # book.closedTrades[i2].mint
      /\ before.closedCount \in Nat /\ book.closedCount \in Nat
      /\ old \in Nat /\ DOMAIN trades = 1..old
      /\ before.closedTrades \in Seq(TradeType) /\ book.closedTrades \in Seq(TradeType)
    <2>1. /\ was \in Nat /\ n \in Nat
          /\ before.closedCount \in Nat /\ book.closedCount \in Nat
        BY <1>1, TradeTimes, BookNumbers
    <2>2. /\ was <= n
          /\ book.closedCount - before.closedCount = n - was
          /\ \A i \in 1..was : book.closedTrades[i] = before.closedTrades[i]
          /\ \A i \in was + 1 .. n : book.closedTrades[i].closedTs = now
          /\ \A i, i2 \in was + 1 .. n :
                i # i2 => book.closedTrades[i].mint # book.closedTrades[i2].mint
        BY <1>1 DEF FreshSales
    <2>3. old \in Nat /\ DOMAIN trades = 1..old
        BY <1>1
    <2>4. before.closedTrades \in Seq(TradeType) /\ book.closedTrades \in Seq(TradeType)
        BY <1>1 DEF BookOK
    <2>. QED  BY <2>1, <2>2, <2>3, <2>4
<1>3. /\ j \in 0..(n - was)
      /\ trades' \in Seq(TradeType)
      /\ Len(trades') = old + j
      /\ \A i \in 1..old : trades'[i] = trades[i]
      /\ \A i \in 1..j : trades'[old + i] = book.closedTrades[was + i]
      /\ IF k = 0 THEN j = 0 /\ line' = line ELSE line' = buildBookRecord(book)
      /\ k = LineCount(before, book) => j = n - was
    BY DEF Appended
<1>4. /\ old <= was /\ was <= before.closedCount
      /\ old = before.closedCount => trades = before.closedTrades
    BY <1>1 DEF Covers
<1> DEFINE ts == trades'
<1> HIDE DEF was, n, old
<1>5. DOMAIN ts = 1..(old + j) /\ j \in Nat
    BY <1>2, <1>3
\* A line of the append is a trade of this tick.
<1>6. ASSUME NEW i \in (old + 1)..(old + j)
      PROVE  /\ ts[i] = book.closedTrades[was + (i - old)]
             /\ was + (i - old) \in was + 1 .. n
    <2>1. i - old \in 1..j /\ old + (i - old) = i
        BY <1>2, <1>5
    <2>2. was + (i - old) \in was + 1 .. n
        BY <1>2, <1>3, <2>1
    <2>. QED  BY <1>3, <2>1, <2>2
<1>7. \A i \in 1..(old + j) : i \in 1..old \/ i \in (old + 1)..(old + j)
    BY <1>2, <1>5
<1>8. ASSUME NEW i \in (old + 1)..(old + j)
      PROVE  ts[i].closedTs = now
    <2>1. book.closedTrades[was + (i - old)].closedTs = now
        BY <1>2, <1>6
    <2>. QED  BY <1>6, <2>1
<1>9. \A i \in 1..old : ts[i].closedTs < now /\ ts[i].closedTs \in Nat
    BY <1>1, <1>2, <1>3, TradeDates DEF DatedBefore
<1>10. Dated(ts, now)
    BY <1>1, <1>5, <1>7, <1>8, <1>9 DEF Dated
<1>11. Distinct(ts)
    <2> SUFFICES ASSUME NEW i \in 1..(old + j), NEW i2 \in 1..(old + j), i # i2
                 PROVE  ts[i].mint # ts[i2].mint \/ ts[i].closedTs # ts[i2].closedTs
        BY <1>5 DEF Distinct
    <2>1. CASE i \in 1..old /\ i2 \in 1..old
        <3>1. ts[i] = trades[i] /\ ts[i2] = trades[i2]
            BY <1>3, <2>1
        <3>2. i \in DOMAIN trades /\ i2 \in DOMAIN trades
            BY <1>2, <2>1
        <3>. QED  BY <1>1, <3>1, <3>2 DEF Distinct
    <2>2. CASE i \in 1..old /\ i2 \in (old + 1)..(old + j)
        BY <1>1, <1>8, <1>9, <2>2
    <2>3. CASE i \in (old + 1)..(old + j) /\ i2 \in 1..old
        BY <1>1, <1>8, <1>9, <2>3
    <2>4. CASE i \in (old + 1)..(old + j) /\ i2 \in (old + 1)..(old + j)
        <3>1. was + (i - old) # was + (i2 - old)
            BY <1>2
        <3>2. /\ was + (i - old) \in was + 1 .. n
              /\ was + (i2 - old) \in was + 1 .. n
              /\ ts[i] = book.closedTrades[was + (i - old)]
              /\ ts[i2] = book.closedTrades[was + (i2 - old)]
            BY <1>6, <2>4
        <3>3. book.closedTrades[was + (i - old)].mint
                # book.closedTrades[was + (i2 - old)].mint
            BY <1>2, <3>1, <3>2
        <3>. QED  BY <3>2, <3>3
    <2>. QED  BY <1>7, <2>1, <2>2, <2>3, <2>4
<1>12. LineOK(line')
    BY <1>1, <1>3 DEF LineOK
\* The disk has every trade the book counts exactly when nothing was lost before
\* and all of this tick's lines arrived.
<1>13. /\ old + j <= n /\ n <= book.closedCount
       /\ old + j = book.closedCount => ts = book.closedTrades
    <2>1. old + j <= n /\ n <= book.closedCount
        BY <1>2, <1>3, <1>4
    <2>2. ASSUME old + j = book.closedCount
          PROVE  ts = book.closedTrades
        <3>1. old = before.closedCount /\ j = n - was /\ old = was
            BY <1>2, <1>3, <1>4, <2>2
        <3>2. \A i \in 1..old : ts[i] = book.closedTrades[i]
            BY <1>2, <1>3, <1>4, <3>1
        <3>3. \A i \in (old + 1)..(old + j) : ts[i] = book.closedTrades[i]
            <4>1. \A i \in (old + 1)..(old + j) : was + (i - old) = i
                BY <1>2, <3>1
            <4>. QED  BY <1>6, <4>1
        <3>4. \A i \in 1..n : ts[i] = book.closedTrades[i]
            BY <1>2, <1>7, <3>1, <3>2, <3>3
        <3>5. Len(ts) = n /\ n = Len(book.closedTrades)
            BY <1>2, <1>3, <3>1 DEF n
        <3>. QED  BY <1>2, <1>3, <3>4, <3>5, SameList
    <2>. QED  BY <2>1, <2>2
<1>14. Covers(book, ts)
    BY <1>3, <1>13 DEF Covers, n
<1>15. CASE k = 0
    <2>1. line' = line /\ Len(ts) = Len(trades) /\ ts = trades
        <3>1. Len(ts) = old /\ \A i \in 1..old : ts[i] = trades[i]
            BY <1>2, <1>3, <1>15
        <3>. QED  BY <1>1, <1>3, <1>15, <3>1 DEF old
    <2>. QED  BY <1>1, <1>3, <1>10, <1>11, <1>12, <1>14, <2>1
<1>16. CASE k # 0
    <2>1. line' = buildBookRecord(book)
        BY <1>3, <1>16
    <2>2. /\ line' # NoLine /\ line'.closedCount = book.closedCount
          /\ line'.consecutiveLosses = book.consecutiveLosses
          /\ line'.grossSpentUsd = book.grossSpentUsd
        BY <2>1, LineOfBook
    <2>3. book.closedCount = Len(ts) => TailLoses(ts, book.consecutiveLosses)
        <3>1. ASSUME book.closedCount = Len(ts)
              PROVE  TailLoses(ts, book.consecutiveLosses)
            <4>1. ts = book.closedTrades
                BY <1>3, <1>13, <3>1
            <4>. QED  BY <1>1, <3>1, <4>1 DEF StreakOK
        <3>. QED  BY <3>1
    <2>4. Len(ts) <= book.closedCount
        BY <1>2, <1>3, <1>5, <1>13
    <2>5. LineSaysSo(line', ts)
        BY <1>1, <2>2, <2>3, <2>4 DEF LineSaysSo
    <2>6. book.grossSpentUsd \in Nat
        BY <1>1, BookNumbers
    <2>. QED  BY <1>3, <1>10, <1>11, <1>12, <1>14, <2>2, <2>5, <2>6
<1>. QED  BY <1>15, <1>16

LEMMA LineSpend ==
    ASSUME NEW l, LineOK(l), l # NoLine
    PROVE  l.grossSpentUsd \in Nat /\ l.closedCount \in Nat /\ l.consecutiveLosses \in Nat
<1>1. PICK b : BookOK(b) /\ l = buildBookRecord(b)
    BY DEF LineOK
<1>. QED  BY <1>1, BookNumbers, LineOfBook

\* The append of a publish, whether it works, fails or is cut off.
LEMMA PublishAppends ==
    ASSUME BotInv, stage = "publish", NEW k \in 0..LineCount(before, book),
           Append_(before, book, IF Changed(before, book) THEN k ELSE 0)
    PROVE  \E i, j : Appended(i, j) /\ i \in {0, k}
<1>1. LineCount(before, book) \in Nat
    <2>1. Len(newlyClosed(before, book)) \in Nat
        BY AtPublish, Published
    <2>. QED  BY <2>1 DEF LineCount
<1>2. 0 \in 0..LineCount(before, book)
    BY <1>1
<1>. QED  BY <1>2, AppendedLines

LEMMA PublishStep ==
    ASSUME BotInv, PublishBook
    PROVE  BotInv'
<1>1. /\ stage = "publish" /\ stage' = "cycle" /\ before' = before
      /\ book' = book /\ draft' = draft /\ pc' = pc /\ now' = now
      /\ UNCHANGED engineVars
    BY DEF PublishBook, engineVars
<1>2. PICK k \in {0, LineCount(before, book)} :
         Append_(before, book, IF Changed(before, book) THEN k ELSE 0)
    BY DEF PublishBook
<1>3. LineCount(before, book) \in Nat
    BY <1>1, AtPublish, Published DEF LineCount
<1>4. k \in 0..LineCount(before, book)
    BY <1>2, <1>3
<1>5. PICK i, j : Appended(i, j) /\ i \in {0, k}
    BY <1>1, <1>2, <1>4, PublishAppends
<1>6. i = 0 \/ i = LineCount(before, book)
    BY <1>2, <1>5
<1>7. /\ trades' \in Seq(TradeType)
      /\ Dated(trades', now) /\ Distinct(trades')
      /\ LineOK(line') /\ LineSaysSo(line', trades')
      /\ line' # NoLine => line'.grossSpentUsd <= book.grossSpentUsd
      /\ Covers(book, trades')
    BY <1>1, <1>5, <1>6, AppendKeepsDisk
<1>8. /\ TypeOK /\ BookOK(before) /\ BookOK(book) /\ draft = book /\ pc = "idle"
      /\ StreakOK(book) /\ book.grossSpentUsd <= SpendCap
    BY <1>1, AtPublish
<1>9. TypeOK'
    BY <1>1, <1>8, TypeStep
<1>10. book.grossSpentUsd \in Nat
    BY <1>8, BookNumbers
<1>. QED  BY <1>1, <1>7, <1>8, <1>9, <1>10, CycleAgain

\* A dead process leaves the disk.
LEMMA DownStep ==
    ASSUME Die, now \in Nat,
           Dated(trades', now), Distinct(trades'),
           trades' \in Seq(TradeType), LineOK(line'), LineSaysSo(line', trades')
    PROVE  BotInv'
<1>1. /\ stage' = "down" /\ pc' = "idle" /\ now' = now /\ todo' = {} /\ price' = << >>
      /\ book' = emptyPortfolio /\ draft' = emptyPortfolio /\ before' = emptyPortfolio
    BY DEF Die
<1>2. TypeOK' /\ BookOK(before')
    BY <1>1, EmptyBook DEF TypeOK
<1>. QED
    BY <1>1, <1>2 DEF BotInv, StageOK, StampsOK, BooksOK, DiskOK, Running

LEMMA CrashStep ==
    ASSUME BotInv, Crash
    PROVE  BotInv'
<1>1. stage = "cycle" /\ Die /\ line' = line /\ trades' = trades
    BY DEF Crash, disk
<1>. QED  BY <1>1, AtCycle, DownStep

LEMMA CrashWhilePublishingStep ==
    ASSUME BotInv, CrashWhilePublishing
    PROVE  BotInv'
<1>1. stage = "publish" /\ Die
    BY DEF CrashWhilePublishing
<1>2. PICK k \in 0..LineCount(before, book) :
         Append_(before, book, IF Changed(before, book) THEN k ELSE 0)
    BY DEF CrashWhilePublishing
<1>3. PICK i, j : Appended(i, j)
    BY <1>1, <1>2, PublishAppends
<1>4. /\ trades' \in Seq(TradeType)
      /\ Dated(trades', now) /\ Distinct(trades')
      /\ LineOK(line') /\ LineSaysSo(line', trades')
    BY <1>1, <1>3, AppendKeepsDisk
<1>. QED  BY <1>1, <1>4, AtPublish, DownStep

\* With a readable file the restart rebuilds the portfolio from the whole disk.
LEMMA RestartReads ==
    ASSUME ~ Unreadable, BotInv, Restart
    PROVE  LET r == Restored(line, trades)
           IN /\ book' = r /\ draft' = r /\ before' = r
              /\ line' = line \/ line' = buildBookRecord(r)
              /\ stage' = "cycle" /\ trades' = trades /\ now' = now
              /\ pc' = "idle" /\ todo' = {} /\ price' = price
              /\ TypeOK /\ now \in Nat
              /\ Dated(trades, now) /\ Distinct(trades)
              /\ trades \in Seq(TradeType) /\ LineOK(line) /\ LineSaysSo(line, trades)
<1>1. loadJournal = {<<line, trades>>}
    BY DEF loadJournal, disk
<1>2. stage = "down" /\ pc = "idle" /\ TypeOK
    BY DEF Restart, BotInv, StageOK
<1>3. todo = {} /\ now \in Nat
    BY <1>2 DEF TypeOK
<1>. QED
    BY <1>1, <1>2, <1>3 DEF Restart, Restored, BotInv, StampsOK, DiskOK

LEMMA RestartStep ==
    ASSUME ~ Unreadable, BotInv, Restart
    PROVE  BotInv'
<1> DEFINE r == Restored(line, trades)
<1>1. /\ book' = r /\ draft' = r /\ before' = r
      /\ line' = line \/ line' = buildBookRecord(r)
      /\ stage' = "cycle" /\ trades' = trades /\ now' = now
      /\ pc' = "idle" /\ todo' = {} /\ price' = price
      /\ TypeOK /\ now \in Nat
      /\ Dated(trades, now) /\ Distinct(trades)
      /\ trades \in Seq(TradeType) /\ LineOK(line) /\ LineSaysSo(line, trades)
    BY RestartReads
<1>2. line = NoLine => trades = << >>
    BY <1>1 DEF LineSaysSo
<1>3. /\ BookOK(r)
      /\ r.closedTrades = trades
      /\ line = NoLine => /\ r.closedCount = 0
                          /\ r.consecutiveLosses = 0
                          /\ r.grossSpentUsd = 0
      /\ line # NoLine => /\ r.closedCount = MaxOf(line.closedCount, Len(trades))
                          /\ r.consecutiveLosses = line.consecutiveLosses
                          /\ r.grossSpentUsd = line.grossSpentUsd
    BY <1>1, <1>2, RestoredBook
<1> HIDE DEF r
<1>4. TypeOK'
    BY <1>1, <1>3 DEF TypeOK
<1>5. Len(trades) \in Nat /\ SpendCap \in Nat
    BY <1>1, LimitsAssumption
<1>6. CASE line = NoLine
    <2>1. Len(trades) = 0 /\ trades = << >>
        BY <1>2, <1>6
    <2>2. TailLoses(trades, 0)
        BY <2>1 DEF TailLoses
    <2>3. Covers(r, trades) /\ StreakOK(r)
        BY <1>3, <1>6, <2>1, <2>2 DEF Covers, StreakOK
    <2>4. r.grossSpentUsd \in Nat /\ r.grossSpentUsd <= SpendCap
        BY <1>3, <1>5, <1>6
    <2>5. CASE line' = line
        BY <1>1, <1>3, <1>4, <1>6, <2>3, <2>4, <2>5, CycleAgain
    <2>6. CASE line' = buildBookRecord(r)
        <3>1. /\ line' # NoLine /\ line'.closedCount = 0
              /\ line'.consecutiveLosses = 0 /\ line'.grossSpentUsd = 0
            BY <1>3, <1>6, <2>6, LineOfBook
        <3>2. LineOK(line') /\ LineSaysSo(line', trades)
            BY <1>3, <1>5, <2>1, <2>2, <2>6, <3>1 DEF LineOK, LineSaysSo
        <3>. QED  BY <1>1, <1>3, <1>4, <2>3, <2>4, <3>1, <3>2, CycleAgain
    <2>. QED  BY <1>1, <2>5, <2>6
<1>7. CASE line # NoLine
    <2>1. /\ line.grossSpentUsd \in Nat /\ line.closedCount \in Nat
          /\ line.consecutiveLosses \in Nat
        BY <1>1, <1>7, LineSpend
    <2>2. /\ Len(trades) <= line.closedCount
          /\ line.closedCount = Len(trades) => TailLoses(trades, line.consecutiveLosses)
          /\ line.grossSpentUsd <= SpendCap
        BY <1>1, <1>7 DEF LineSaysSo
    <2>3. r.closedCount = line.closedCount
        BY <1>3, <1>5, <1>7, <2>1, <2>2 DEF MaxOf
    <2>4. Covers(r, trades) /\ StreakOK(r)
        BY <1>3, <1>5, <1>7, <2>1, <2>2, <2>3 DEF Covers, StreakOK
    <2>5. r.grossSpentUsd \in Nat /\ r.grossSpentUsd <= SpendCap
        BY <1>3, <1>7, <2>1, <2>2
    <2>6. CASE line' = line
        BY <1>1, <1>3, <1>4, <1>7, <2>1, <2>4, <2>5, <2>6, CycleAgain
    <2>7. CASE line' = buildBookRecord(r)
        <3>1. /\ line' # NoLine /\ line'.closedCount = r.closedCount
              /\ line'.consecutiveLosses = r.consecutiveLosses
              /\ line'.grossSpentUsd = r.grossSpentUsd
            BY <2>7, LineOfBook
        <3>2. LineOK(line') /\ LineSaysSo(line', trades)
            BY <1>3, <1>7, <2>2, <2>3, <2>7, <3>1 DEF LineOK, LineSaysSo
        <3>. QED  BY <1>1, <1>3, <1>4, <2>4, <2>5, <3>1, <3>2, CycleAgain
    <2>. QED  BY <1>1, <2>6, <2>7
<1>. QED  BY <1>6, <1>7

LEMMA BotStutter ==
    ASSUME BotInv, UNCHANGED botVars
    PROVE  BotInv'
<1>1. /\ UNCHANGED engineVars
      /\ stage' = stage /\ before' = before /\ line' = line /\ trades' = trades
    BY DEF botVars, disk
<1>2. TypeOK'
    BY <1>1, TypeStep DEF BotInv
<1>3. book' = book /\ draft' = draft /\ now' = now /\ pc' = pc /\ todo' = todo
    BY <1>1 DEF engineVars
<1>4. StageOK'
    BY <1>1, <1>3 DEF BotInv, StageOK, Running
<1>5. StampsOK'
    BY <1>1, <1>3 DEF BotInv, StampsOK, Running
<1>6. BooksOK'
    BY <1>1, <1>3 DEF BotInv, BooksOK, Kept, Running
<1>. QED  BY <1>1, <1>2, <1>4, <1>5, <1>6 DEF BotInv, DiskOK

LEMMA BotStep ==
    ASSUME ~ Unreadable
    PROVE  BotInv /\ [BotNext]_botVars => BotInv'
<1> SUFFICES ASSUME BotInv, [BotNext]_botVars
             PROVE  BotInv'
    OBVIOUS
<1>. QED
    BY StaleCycleStep, StartTickStep, InsideTickStep, FinishTickStep, FailedCycleStep,
       PublishStep, CrashStep, CrashWhilePublishingStep, RestartStep, BotStutter
       DEF BotNext

-----------------------------------------------------------------------------
(* The theorems. *)

\* However often the process dies, in whatever part of an append, a trade line
\* is on disk at most once and the newest book line counts them all.
THEOREM NoSaleTwiceOnDisk ==
    ASSUME ~ Unreadable
    PROVE  BotSpec => []NoTradeLineTwice
<1>1. BotInv => NoTradeLineTwice
    <2> SUFFICES ASSUME BotInv
                 PROVE  NoTradeLineTwice
        OBVIOUS
    <2>. QED  BY DEF BotInv, StampsOK, Distinct, DiskOK, LineSaysSo, NoTradeLineTwice
<1>2. BotInv /\ [BotNext]_botVars => BotInv'
    BY BotStep
<1>. QED  BY <1>1, <1>2, BotInvInit, PTL DEF BotSpec

\* While no trade line is lost, the streak in memory is the losing tail of the
\* lines on disk, after any number of restarts.
THEOREM StreakIsOnDisk ==
    ASSUME ~ Unreadable
    PROVE  BotSpec => []StreakSurvivesRestart
<1>1. BotInv => StreakSurvivesRestart
    <2> SUFFICES ASSUME BotInv, stage = "cycle", Len(trades) = book.closedCount
                 PROVE  LET n == Len(trades)
                            k == book.consecutiveLosses
                        IN /\ \A i \in (n - k + 1)..n : trades[i].netPnlUsd < 0
                           /\ k < n => trades[n - k].netPnlUsd >= 0
        BY DEF StreakSurvivesRestart
    <2>1. /\ Covers(book, trades) /\ StreakOK(book) /\ trades \in Seq(TradeType)
        BY AtCycle
    <2>2. TailLoses(trades, book.consecutiveLosses)
        BY <2>1 DEF Covers, StreakOK
    <2> DEFINE n == Len(trades)
               k == book.consecutiveLosses
    <2>3. /\ n \in Nat /\ k \in Nat /\ k <= n
          /\ \A i \in (n - k + 1)..n : trades[i].netPnlUsd < 0
          /\ k < n => ~ (trades[n - k].netPnlUsd < 0)
        BY <2>1, <2>2 DEF TailLoses
    <2>4. k < n => trades[n - k].netPnlUsd >= 0
        <3>1. ASSUME k < n
              PROVE  trades[n - k] \in TradeType
            <4>1. n - k \in 1..n
                BY <2>3, <3>1
            <4>. QED  BY <2>1, <4>1
        <3>2. \A t \in TradeType : t.netPnlUsd \in Int
            BY DEF TradeType
        <3>. QED  BY <2>3, <3>1, <3>2
    <2>. QED  BY <2>3, <2>4
<1>2. BotInv /\ [BotNext]_botVars => BotInv'
    BY BotStep
<1>. QED  BY <1>1, <1>2, BotInvInit, PTL DEF BotSpec

\* What an append or a restart may do to the newest line.
LEMMA SpendStep ==
    ASSUME ~ Unreadable, BotInv, [BotNext]_botVars, line' # line, line # NoLine
    PROVE  line' # NoLine /\ line'.grossSpentUsd \in line.grossSpentUsd..SpendCap
<1>0. SpendCap \in Nat
    BY LimitsAssumption
<1>1. ASSUME stage = "publish", NEW i, NEW j, Appended(i, j)
      PROVE  line' # NoLine /\ line'.grossSpentUsd \in line.grossSpentUsd..SpendCap
    <2>1. line' = buildBookRecord(book)
        BY <1>1 DEF Appended
    <2>2. /\ BookOK(book) /\ LineOK(line) /\ book.grossSpentUsd <= SpendCap
          /\ line.grossSpentUsd <= book.grossSpentUsd
        BY <1>1, AtPublish
    <2>3. line' # NoLine /\ line'.grossSpentUsd = book.grossSpentUsd
        BY <2>1, LineOfBook
    <2>4. book.grossSpentUsd \in Nat /\ line.grossSpentUsd \in Nat
        BY <2>2, BookNumbers, LineSpend
    <2>. QED  BY <1>0, <2>2, <2>3, <2>4
<1>2. CASE PublishBook
    <2>1. stage = "publish"
        BY <1>2 DEF PublishBook
    <2>2. PICK k \in {0, LineCount(before, book)} :
             Append_(before, book, IF Changed(before, book) THEN k ELSE 0)
        BY <1>2 DEF PublishBook
    <2>3. LineCount(before, book) \in Nat
        BY <2>1, AtPublish, Published DEF LineCount
    <2>4. k \in 0..LineCount(before, book)
        BY <2>2, <2>3
    <2>. QED  BY <1>1, <2>1, <2>2, <2>4, PublishAppends
<1>3. CASE CrashWhilePublishing
    <2>1. stage = "publish"
        BY <1>3 DEF CrashWhilePublishing
    <2>2. PICK k \in 0..LineCount(before, book) :
             Append_(before, book, IF Changed(before, book) THEN k ELSE 0)
        BY <1>3 DEF CrashWhilePublishing
    <2>. QED  BY <1>1, <2>1, <2>2, PublishAppends
<1>4. CASE Restart
    <2>1. /\ line' = buildBookRecord(Restored(line, trades))
          /\ trades \in Seq(TradeType) /\ LineOK(line) /\ LineSaysSo(line, trades)
        BY <1>4, RestartReads
    <2>2. Restored(line, trades).grossSpentUsd = line.grossSpentUsd
        BY <2>1, RestoredBook
    <2>3. line' # NoLine /\ line'.grossSpentUsd = line.grossSpentUsd
        BY <2>1, <2>2, LineOfBook
    <2>4. line.grossSpentUsd \in Nat /\ line.grossSpentUsd <= SpendCap
        BY <2>1, LineSpend DEF LineSaysSo
    <2>. QED  BY <1>0, <2>3, <2>4
<1>5. ~ (StaleCycle \/ StartTick \/ InsideTick \/ FinishTick \/ FailedCycle \/ Crash)
    BY DEF StaleCycle, StartTick, InsideTick, FinishTick, FailedCycle, Crash, disk
<1>6. ~ UNCHANGED botVars
    BY DEF botVars, disk
<1>. QED  BY <1>2, <1>3, <1>4, <1>5, <1>6 DEF BotNext

\* The money deployed, as the newest line has it, never goes down and never
\* passes the cap: no crash, failed append or restart buys a second budget.
THEOREM SpendIsNeverForgotten ==
    ASSUME ~ Unreadable
    PROVE  BotSpec => SpendNeverForgotten
<1>1. BotInv /\ [BotNext]_botVars => BotInv'
    BY BotStep
<1>2. BotInv /\ [BotNext]_botVars =>
        [line # NoLine => /\ line' # NoLine
                          /\ line'.grossSpentUsd \in line.grossSpentUsd..SpendCap]_line
    BY SpendStep
<1>. QED  BY <1>1, <1>2, BotInvInit, PTL DEF BotSpec, SpendNeverForgotten
=============================================================================
