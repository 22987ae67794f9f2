----------------------------- MODULE LedgerProofs -----------------------------
(***************************************************************************)
(* Lemmas about the operations of Ledger, for every limit and every set of *)
(* mints.  The first group is about sums over finite functions, which the  *)
(* totals of a book are; the field lemmas say what an operation leaves in  *)
(* each field of a book; the typing lemmas say that it returns a book when *)
(* given one.  PortfolioProofs, EngineProofs and LayersProofs build on them.*)
(*                                                                         *)
(* FoldFunction is a recursive function over the parts of its domain.      *)
(* What it computes is proved by least counterexample: a nonempty set of   *)
(* parts of a finite set has a smallest one (LeastSubset), so a statement  *)
(* about every part that fails fails at a part all of whose proper parts   *)
(* satisfy it.                                                             *)
(***************************************************************************)
EXTENDS Ledger, FiniteSetTheorems, WellFoundedInduction, TLAPS

-----------------------------------------------------------------------------
(* Sums. *)

LEMMA LeastNatural ==
    ASSUME NEW T \in SUBSET Nat, T # {}
    PROVE  \E n \in T : \A m \in T : n <= m
<1> DEFINE R == {ss \in Nat \X Nat : ss[1] < ss[2]}
<1>1. IsWellFoundedOn(R, Nat)
    BY NatLessThanWellFounded DEF OpToRel
<1> HIDE DEF R
<1>2. PICK n \in T : \A m \in T : ~ (<<m, n>> \in R)
    BY <1>1, WFMin
<1>3. ASSUME NEW m \in T
      PROVE  n <= m
    <2>1. ~ (m < n)
        BY <1>2 DEF R
    <2>. QED  BY <2>1
<1>. QED  BY <1>3

\* h gives the sum of g over every part of S, whatever the order.
Sums(h, g, S) ==
    /\ h \in [SUBSET S -> Int]
    /\ h[{}] = 0
    /\ \A s \in SUBSET S : \A x \in s : h[s] = g[x] + h[s \ {x}]

LEMMA LeastSubset ==
    ASSUME NEW S, IsFiniteSet(S), NEW B \in SUBSET (SUBSET S), B # {}
    PROVE  \E s \in B : \A t \in SUBSET s : t \in B => t = s
<1> DEFINE T == {Cardinality(s) : s \in B}
<1>1. \A s \in B : IsFiniteSet(s) /\ Cardinality(s) \in Nat
    BY FS_Subset, FS_CardinalityType
<1>2. T \in SUBSET Nat /\ T # {}
    BY <1>1
<1>3. PICK s \in B : \A t \in B : Cardinality(s) <= Cardinality(t)
    <2>1. PICK n \in T : \A m \in T : n <= m
        BY <1>2, LeastNatural
    <2>. QED  BY <2>1
<1>4. ASSUME NEW t \in SUBSET s, t \in B, t # s
      PROVE  FALSE
    <2>1. Cardinality(t) < Cardinality(s)
        BY <1>1, <1>4, FS_Subset, FS_CardinalityType
    <2>. QED  BY <1>1, <1>3, <1>4, <2>1
<1>. QED  BY <1>4

LEMMA SumsExist ==
    ASSUME NEW S, IsFiniteSet(S), NEW g, \A x \in S : g[x] \in Int
    PROVE  \E h : Sums(h, g, S)
<1> DEFINE B == {s \in SUBSET S : ~ \E h : Sums(h, g, s)}
<1>1. SUFFICES ASSUME B # {} PROVE FALSE
    <2>1. S \notin B
        BY <1>1
    <2>. QED BY <2>1
<1>2. PICK s \in B : \A t \in SUBSET s : t \in B => t = s
    <2>1. B \in SUBSET (SUBSET S)
        OBVIOUS
    <2> HIDE DEF B
    <2>. QED  BY <1>1, <2>1, LeastSubset
<1>3. CASE s = {}
    <2>1. Sums([t \in {{}} |-> 0], g, {})
        BY DEF Sums
    <2>. QED  BY <1>2, <1>3, <2>1
<1>4. CASE s # {}
    <2>1. PICK x \in s : TRUE
        BY <1>4
    <2> DEFINE rest == s \ {x}
    <2>2. rest \in SUBSET s /\ rest # s /\ rest \in SUBSET S
        OBVIOUS
    <2>3. PICK h : Sums(h, g, rest)
        BY <1>2, <2>2
    <2>4. /\ h \in [SUBSET rest -> Int] /\ h[{}] = 0
          /\ \A t \in SUBSET rest : \A y \in t : h[t] = g[y] + h[t \ {y}]
        BY <2>3 DEF Sums
    <2> DEFINE k == [t \in SUBSET s |-> IF x \in t THEN g[x] + h[t \ {x}] ELSE h[t]]
    <2>5. g[x] \in Int
        OBVIOUS
    <2>6. \A t \in SUBSET s : t \ {x} \in SUBSET rest /\ (x \notin t => t \in SUBSET rest)
        OBVIOUS
    <2>7. k \in [SUBSET s -> Int]
        BY <2>4, <2>5, <2>6
    <2>8. k[{}] = 0
        BY <2>4
    <2>9. ASSUME NEW t \in SUBSET s, NEW y \in t
          PROVE  k[t] = g[y] + k[t \ {y}]
        <3>0. t \ {y} \in SUBSET s /\ g[y] \in Int
            OBVIOUS
        <3>1. CASE x \notin t
            <4>1. k[t] = h[t] /\ k[t \ {y}] = h[t \ {y}]
                BY <3>1, <3>0
            <4>. QED  BY <4>1, <2>4, <2>6, <3>1
        <3>2. CASE y = x
            <4>1. k[t] = g[x] + h[t \ {x}] /\ k[t \ {x}] = h[t \ {x}]
                BY <3>2, <3>0
            <4>. QED  BY <4>1, <3>2
        <3>3. CASE x \in t /\ y # x
            <4>1. k[t] = g[x] + h[t \ {x}]
                BY <3>3
            <4>2. k[t \ {y}] = g[x] + h[(t \ {y}) \ {x}]
                BY <3>3, <3>0
            <4>3. /\ t \ {x} \in SUBSET rest /\ y \in t \ {x}
                  /\ (t \ {x}) \ {y} = (t \ {y}) \ {x}
                  /\ (t \ {y}) \ {x} \in SUBSET rest
                BY <3>3
            <4>4. h[t \ {x}] = g[y] + h[(t \ {y}) \ {x}]
                <5>1. h[t \ {x}] = g[y] + h[(t \ {x}) \ {y}]
                    BY <4>3, <2>4
                <5>. QED  BY <4>3, <5>1
            <4>5. h[(t \ {y}) \ {x}] \in Int
                BY <4>3, <2>4
            <4> HIDE DEF k
            <4>. QED  BY <4>1, <4>2, <4>4, <4>5, <3>0, <2>5
        <3>. QED  BY <3>1, <3>2, <3>3
    <2> HIDE DEF k
    <2>10. Sums(k, g, s)
        BY <2>7, <2>8, <2>9 DEF Sums
    <2>. QED  BY <2>10
<1>. QED  BY <1>3, <1>4

\* iter adds up g over the parts of S one element at a time, in an order of its own.
OneByOne(iter, g, S) ==
    /\ iter[{}] = 0
    /\ \A s \in SUBSET S : s # {} => \E x \in s : \/ iter[s] = g[x] + iter[s \ {x}]
                                                \/ iter[s] = iter[s \ {x}] + g[x]

\* Whatever the order, the result is the sum.
LEMMA SumsUnique ==
    ASSUME NEW S, IsFiniteSet(S), NEW g, \A x \in S : g[x] \in Int,
           NEW h, Sums(h, g, S), NEW iter, OneByOne(iter, g, S)
    PROVE  iter[S] = h[S]
<1>0. \A x \in S : g[x] \in Int
    OBVIOUS
<1> DEFINE B == {s \in SUBSET S : iter[s] # h[s]}
<1>1. SUFFICES ASSUME B # {} PROVE FALSE
    <2>1. S \notin B
        BY <1>1
    <2>. QED  BY <2>1
<1>2. PICK s \in B : \A t \in SUBSET s : t \in B => t = s
    <2>1. B \in SUBSET (SUBSET S)
        OBVIOUS
    <2> HIDE DEF B
    <2>. QED  BY <1>1, <2>1, LeastSubset
<1>3. s # {}
    BY DEF Sums, OneByOne
<1>4. PICK x \in s : iter[s] = g[x] + iter[s \ {x}] \/ iter[s] = iter[s \ {x}] + g[x]
    BY <1>3 DEF OneByOne
<1>5. iter[s \ {x}] = h[s \ {x}]
    BY <1>2
<1>6. h[s] = g[x] + h[s \ {x}] /\ h[s] \in Int /\ h[s \ {x}] \in Int
    BY DEF Sums
<1>7. g[x] \in Int
    BY <1>0
<1>. QED  BY <1>4, <1>5, <1>6, <1>7

\* The sum of f over its domain.
Total(f) == FoldFunction(+, 0, f)

LEMMA TotalIsSum ==
    ASSUME NEW f, IsFiniteSet(DOMAIN f), \A x \in DOMAIN f : f[x] \in Int
    PROVE  \E h : Sums(h, f, DOMAIN f) /\ Total(f) = h[DOMAIN f]
<1> DEFINE S == DOMAIN f
           Pick(s) == CHOOSE x \in s : TRUE
           Step(iter) == [s \in SUBSET S |-> IF s = {} THEN 0
                                             ELSE f[Pick(s)] + iter[s \ {Pick(s)}]]
<1>1. PICK h : Sums(h, f, S)
    BY SumsExist
<1>2. h = Step(h)
    <2>1. \A s \in SUBSET S : s # {} => Pick(s) \in s
        OBVIOUS
    <2>2. \A s \in SUBSET S : h[s] = Step(h)[s]
        BY <1>1, <2>1 DEF Sums
    <2>3. h = [s \in SUBSET S |-> h[s]]
        BY <1>1 DEF Sums
    <2>. QED BY <2>2, <2>3
<1>3. PICK iter : iter = Step(iter) /\ Total(f) = iter[S]
    <2> DEFINE iter0 == CHOOSE iter : iter = Step(iter)
    <2>1. iter0 = Step(iter0)
        BY <1>2
    <2>2. Total(f) = iter0[S]
        BY DEF Total, FoldFunction, FoldFunctionOnSet, MapThenFoldSet
    <2> HIDE DEF iter0
    <2>. QED  BY <2>1, <2>2
<1>4. OneByOne(iter, f, S)
    <2>1. \A s \in SUBSET S : s # {} => Pick(s) \in s
        OBVIOUS
    <2>2. \A s \in SUBSET S : s # {} => \E x \in s : iter[s] = f[x] + iter[s \ {x}]
        BY <1>3, <2>1
    <2>3. iter[{}] = 0
        BY <1>3
    <2>. QED  BY <2>2, <2>3 DEF OneByOne
<1> HIDE DEF Step, Pick
<1>5. iter[S] = h[S]
    BY <1>1, <1>4, SumsUnique
<1>. QED  BY <1>1, <1>3, <1>5

LEMMA TotalType ==
    ASSUME NEW f, IsFiniteSet(DOMAIN f), \A x \in DOMAIN f : f[x] \in Int
    PROVE  Total(f) \in Int
<1>1. PICK h : Sums(h, f, DOMAIN f) /\ Total(f) = h[DOMAIN f]
    BY TotalIsSum
<1>. QED  BY <1>1 DEF Sums

LEMMA TotalEmpty ==
    ASSUME NEW f, DOMAIN f = {}
    PROVE  Total(f) = 0
<1>1. IsFiniteSet(DOMAIN f)
    BY FS_EmptySet
<1>2. PICK h : Sums(h, f, DOMAIN f) /\ Total(f) = h[DOMAIN f]
    BY <1>1, TotalIsSum
<1>. QED  BY <1>2 DEF Sums

\* The sum over a part of the domain, by the function that sums the whole.
LEMMA TotalOfPart ==
    ASSUME NEW f, IsFiniteSet(DOMAIN f), \A x \in DOMAIN f : f[x] \in Int,
           NEW h, Sums(h, f, DOMAIN f),
           NEW g, DOMAIN g \subseteq DOMAIN f, \A x \in DOMAIN g : g[x] = f[x]
    PROVE  Total(g) = h[DOMAIN g]
<1>1. IsFiniteSet(DOMAIN g)
    BY FS_Subset
<1>2. PICK k : Sums(k, g, DOMAIN g) /\ Total(g) = k[DOMAIN g]
    BY <1>1, TotalIsSum
<1>3. OneByOne(h, g, DOMAIN g)
    <2>1. ASSUME NEW s \in SUBSET DOMAIN g, s # {}
          PROVE  \E x \in s : h[s] = g[x] + h[s \ {x}]
        <3>1. PICK x \in s : TRUE
            BY <2>1
        <3>2. h[s] = f[x] + h[s \ {x}]
            BY DEF Sums
        <3>. QED  BY <3>2
    <2>. QED  BY <2>1 DEF OneByOne, Sums
<1>4. k[DOMAIN g] = h[DOMAIN g]
    BY <1>1, <1>2, <1>3, SumsUnique
<1>. QED  BY <1>2, <1>4

LEMMA TotalSame ==
    ASSUME NEW f, IsFiniteSet(DOMAIN f), \A x \in DOMAIN f : f[x] \in Int,
           NEW g, DOMAIN g = DOMAIN f, \A x \in DOMAIN f : g[x] = f[x]
    PROVE  Total(g) = Total(f)
<1>1. PICK h : Sums(h, f, DOMAIN f) /\ Total(f) = h[DOMAIN f]
    BY TotalIsSum
<1>2. Total(g) = h[DOMAIN g]
    BY <1>1, TotalOfPart
<1>. QED  BY <1>1, <1>2

LEMMA TotalDrop ==
    ASSUME NEW f, IsFiniteSet(DOMAIN f), \A x \in DOMAIN f : f[x] \in Int,
           NEW m \in DOMAIN f,
           NEW g, DOMAIN g = DOMAIN f \ {m}, \A x \in DOMAIN g : g[x] = f[x]
    PROVE  Total(f) = Total(g) + f[m]
<1>1. PICK h : Sums(h, f, DOMAIN f) /\ Total(f) = h[DOMAIN f]
    BY TotalIsSum
<1>2. Total(g) = h[DOMAIN g]
    BY <1>1, TotalOfPart
<1>3. h[DOMAIN f] = f[m] + h[DOMAIN f \ {m}] /\ h[DOMAIN f \ {m}] \in Int
    BY <1>1 DEF Sums
<1>. QED  BY <1>1, <1>2, <1>3

LEMMA TotalAdd ==
    ASSUME NEW f, IsFiniteSet(DOMAIN f), \A x \in DOMAIN f : f[x] \in Int,
           NEW m, m \notin DOMAIN f,
           NEW g, DOMAIN g = DOMAIN f \cup {m}, g[m] \in Int,
           \A x \in DOMAIN f : g[x] = f[x]
    PROVE  Total(g) = Total(f) + g[m]
<1>1. IsFiniteSet(DOMAIN g) /\ m \in DOMAIN g
    BY FS_AddElement
<1>2. \A x \in DOMAIN g : g[x] \in Int
    OBVIOUS
<1>3. DOMAIN f = DOMAIN g \ {m} /\ \A x \in DOMAIN f : f[x] = g[x]
    OBVIOUS
<1>. QED  BY <1>1, <1>2, <1>3, TotalDrop

LEMMA TotalChange ==
    ASSUME NEW f, IsFiniteSet(DOMAIN f), \A x \in DOMAIN f : f[x] \in Int,
           NEW m \in DOMAIN f,
           NEW g, DOMAIN g = DOMAIN f, g[m] \in Int,
           \A x \in DOMAIN f \ {m} : g[x] = f[x]
    PROVE  Total(g) = Total(f) - f[m] + g[m]
<1> DEFINE rest == [x \in DOMAIN f \ {m} |-> f[x]]
<1>0. /\ DOMAIN rest = DOMAIN f \ {m}
      /\ \A x \in DOMAIN rest : rest[x] = f[x]
      /\ \A x \in DOMAIN rest : rest[x] = g[x]
      /\ \A x \in DOMAIN rest : rest[x] \in Int
    OBVIOUS
<1> HIDE DEF rest
<1>1. Total(f) = Total(rest) + f[m]
    BY <1>0, TotalDrop
<1>2. Total(g) = Total(rest) + g[m]
    <2>1. \A x \in DOMAIN g : g[x] \in Int
        <3>1. \A x \in DOMAIN f \ {m} : f[x] \in Int
            OBVIOUS
        <3>. QED  BY <3>1
    <2>2. IsFiniteSet(DOMAIN g) /\ m \in DOMAIN g /\ DOMAIN rest = DOMAIN g \ {m}
        BY <1>0
    <2>. QED  BY <1>0, <2>1, <2>2, TotalDrop
<1>3. Total(rest) \in Int
    <2>1. IsFiniteSet(DOMAIN rest)
        BY <1>0, FS_RemoveElement
    <2>. QED  BY <1>0, <2>1, TotalType
<1>. QED  BY <1>1, <1>2, <1>3

\* Writing one value of a function moves its sum by the difference.
LEMMA TotalPut ==
    ASSUME NEW f, IsFiniteSet(DOMAIN f), \A x \in DOMAIN f : f[x] \in Int,
           NEW m, NEW v \in Int
    PROVE  Total(Put(f, m, v)) =
               Total(f) - (IF m \in DOMAIN f THEN f[m] ELSE 0) + v
<1> DEFINE g == Put(f, m, v)
<1>1. /\ DOMAIN g = DOMAIN f \cup {m} /\ g[m] = v
      /\ \A x \in DOMAIN f \ {m} : g[x] = f[x]
    BY DEF Put
<1> HIDE DEF g
<1>2. CASE m \in DOMAIN f
    <2>1. DOMAIN g = DOMAIN f
        BY <1>1, <1>2
    <2>2. Total(g) = Total(f) - f[m] + g[m]
        BY <1>1, <1>2, <2>1, TotalChange
    <2>. QED  BY <1>1, <1>2, <2>2 DEF g
<1>3. CASE m \notin DOMAIN f
    <2>1. Total(g) = Total(f) + g[m]
        BY <1>1, <1>3, TotalAdd
    <2>2. Total(f) \in Int
        BY TotalType
    <2>. QED  BY <1>1, <1>3, <2>1, <2>2 DEF g
<1>. QED  BY <1>2, <1>3

-----------------------------------------------------------------------------
(* What the operations leave in each field. *)

LEMMA PutFields ==
    ASSUME NEW f, NEW m, NEW x
    PROVE  /\ DOMAIN Put(f, m, x) = DOMAIN f \cup {m}
           /\ \A k \in DOMAIN f \cup {m} :
                 Put(f, m, x)[k] = IF k = m THEN x ELSE f[k]
    BY DEF Put

LEMMA DropFields ==
    ASSUME NEW f, NEW m
    PROVE  /\ DOMAIN Drop(f, m) = DOMAIN f \ {m}
           /\ \A k \in DOMAIN f \ {m} : Drop(f, m)[k] = f[k]
    BY DEF Drop

LEMMA EmptyFields ==
    /\ DOMAIN emptyPortfolio = BookFields
    /\ Held(emptyPortfolio) = {}
    /\ emptyPortfolio.closedTrades = << >>
    /\ emptyPortfolio.cashUsd = BookSize
    /\ emptyPortfolio.realisedPnlUsd = 0
    /\ emptyPortfolio.grossSpentUsd = 0
    /\ emptyPortfolio.costsPaidUsd = 0
    /\ emptyPortfolio.consecutiveLosses = 0
    /\ emptyPortfolio.wins = 0 /\ emptyPortfolio.losses = 0
    /\ emptyPortfolio.openedCount = 0 /\ emptyPortfolio.closedCount = 0
    /\ emptyPortfolio.daily = << >>
    BY DEF emptyPortfolio, Held, BookFields

LEMMA OpenFields ==
    ASSUME NEW b, DOMAIN b = BookFields,
           NEW m, NEW s, NEW p, NEW ts, NEW c
    PROVE  LET r == openPosition(b, m, s, p, ts, c)
           IN /\ DOMAIN r = BookFields
              /\ Held(r) = Held(b) \cup {m}
              /\ \A k \in Held(b) \cup {m} :
                    r.positions[k] = IF k = m THEN NewPosition(s, p, ts, c)
                                     ELSE b.positions[k]
              /\ r.cashUsd = b.cashUsd - (s + c)
              /\ r.grossSpentUsd = b.grossSpentUsd + (s + c)
              /\ r.costsPaidUsd = b.costsPaidUsd + c
              /\ r.openedCount = b.openedCount + 1
              /\ r.closedTrades = b.closedTrades
              /\ r.realisedPnlUsd = b.realisedPnlUsd
              /\ r.consecutiveLosses = b.consecutiveLosses
              /\ r.wins = b.wins /\ r.losses = b.losses
              /\ r.closedCount = b.closedCount
              /\ r.daily = b.daily
    BY Zenon DEF openPosition, Spend, Put, Held, BookFields

LEMMA RealiseFields ==
    ASSUME NEW b, DOMAIN b = BookFields,
           NEW m, NEW slice, NEW p, NEW ts, NEW c, NEW positions
    PROVE  LET r == Realise(b, m, slice, p, ts, c, positions)
               pos == b.positions[m]
               net == NetPnl(pos, slice, p, c)
           IN /\ DOMAIN r = BookFields
              /\ r.positions = positions
              /\ r.cashUsd = b.cashUsd + slice.sizeUsd
                               + Gross(slice.qty, pos.entryPriceUsd, p) - c
              /\ r.realisedPnlUsd = b.realisedPnlUsd + net
              /\ r.costsPaidUsd = b.costsPaidUsd + c
              /\ r.closedTrades =
                   Append(b.closedTrades, Trade(m, pos, slice, p, ts, c))
              /\ r.consecutiveLosses = StreakAfter(b, net)
              /\ r.wins = (IF net > 0 THEN b.wins + 1 ELSE b.wins)
              /\ r.losses = (IF net < 0 THEN b.losses + 1 ELSE b.losses)
              /\ r.closedCount = b.closedCount + 1
              /\ r.grossSpentUsd = b.grossSpentUsd
              /\ r.openedCount = b.openedCount
              /\ r.unrealisedPnlUsd = sumUnrealised(positions)
              /\ r.daily = DailyAfter(b, dayKey(ts), net)
    BY Zenon DEF Realise, BookFields

LEMMA MarkFields ==
    ASSUME NEW b, DOMAIN b = BookFields, NEW marks
    PROVE  LET r == markPositions(b, marks)
           IN /\ DOMAIN r = BookFields
              /\ Held(r) = Held(b)
              /\ \A m \in Held(b) :
                    r.positions[m] = IF m \in DOMAIN marks
                                     THEN Marked(b.positions[m], marks[m])
                                     ELSE b.positions[m]
              /\ r.cashUsd = b.cashUsd
              /\ r.grossSpentUsd = b.grossSpentUsd
              /\ r.costsPaidUsd = b.costsPaidUsd
              /\ r.openedCount = b.openedCount
              /\ r.closedTrades = b.closedTrades
              /\ r.realisedPnlUsd = b.realisedPnlUsd
              /\ r.consecutiveLosses = b.consecutiveLosses
              /\ r.wins = b.wins /\ r.losses = b.losses
              /\ r.closedCount = b.closedCount
              /\ r.daily = b.daily
    BY ZenonT(60) DEF markPositions, Held, BookFields

-----------------------------------------------------------------------------
(* The operations return books. *)

LEMMA GrossType ==
    ASSUME NEW q \in Int, NEW e \in Int, NEW p \in Int
    PROVE  Gross(q, e, p) \in Int
    BY DEF Gross

SliceType == [qty : Int, sizeUsd : Int, entryCostUsd : Int]

LEMMA WholeSliceType ==
    ASSUME NEW pos \in PositionType
    PROVE  WholeSlice(pos) \in SliceType
    BY DEF WholeSlice, PositionType, SliceType

LEMMA PartSliceType ==
    ASSUME NEW pos \in PositionType, NEW num \in Nat, NEW den \in Nat \ {0}
    PROVE  PartSlice(pos, num, den) \in SliceType
<1>1. ASSUME NEW x \in Int
      PROVE  (x * num) \div den \in Int
    <2>1. x * num \in Int
        OBVIOUS
    <2>. QED  BY <2>1
<1>2. pos.qty \in Int /\ pos.sizeUsd \in Int /\ pos.entryCostUsd \in Int
    BY DEF PositionType
<1>. QED  BY <1>1, <1>2 DEF PartSlice, SliceType

LEMMA NetPnlType ==
    ASSUME NEW pos \in PositionType, NEW slice \in SliceType,
           NEW p \in Nat, NEW c \in Nat
    PROVE  /\ Gross(slice.qty, pos.entryPriceUsd, p) \in Int
           /\ NetPnl(pos, slice, p, c) \in Int
<1>1. Gross(slice.qty, pos.entryPriceUsd, p) \in Int
    BY GrossType DEF PositionType, SliceType
<1>. QED  BY <1>1 DEF NetPnl, SliceType

LEMMA NewPositionType ==
    ASSUME NEW s \in Nat \ {0}, NEW p \in Nat \ {0}, NEW ts \in Nat, NEW c \in Nat
    PROVE  NewPosition(s, p, ts, c) \in PositionType
    BY DEF NewPosition, PositionType

LEMMA MarkedType ==
    ASSUME NEW pos \in PositionType, NEW p \in Nat \ {0}
    PROVE  Marked(pos, p) \in PositionType
<1>1. Gross(pos.qty, pos.entryPriceUsd, p) \in Int
    BY GrossType DEF PositionType
<1>. QED  BY <1>1 DEF Marked, PositionType

LEMMA RemainderType ==
    ASSUME NEW pos \in PositionType, NEW slice \in SliceType, NEW p \in Nat \ {0}
    PROVE  Remainder(pos, slice, p) \in PositionType
<1> DEFINE left == [pos EXCEPT !.qty = @ - slice.qty,
                               !.sizeUsd = @ - slice.sizeUsd,
                               !.entryCostUsd = @ - slice.entryCostUsd,
                               !.scaleOutCount = @ + 1]
<1>1. /\ pos.qty - slice.qty \in Int
      /\ pos.sizeUsd - slice.sizeUsd \in Int
      /\ pos.entryCostUsd - slice.entryCostUsd \in Int
      /\ pos.scaleOutCount + 1 \in Nat
    BY DEF PositionType, SliceType
<1>2. left \in PositionType
    BY <1>1, Zenon DEF PositionType
<1>3. Marked(left, p) \in PositionType
    BY <1>2, MarkedType
<1>. QED  BY <1>3, Zenon DEF Remainder

\* The numbers of a book, without its positions and trades.
LEMMA BookNumbers ==
    ASSUME NEW b, BookOK(b)
    PROVE  /\ DOMAIN b = BookFields
           /\ b.cashUsd \in Int /\ b.realisedPnlUsd \in Int
           /\ b.grossSpentUsd \in Nat /\ b.costsPaidUsd \in Nat
           /\ b.consecutiveLosses \in Nat /\ b.wins \in Nat /\ b.losses \in Nat
           /\ b.openedCount \in Nat /\ b.closedCount \in Nat
    BY Zenon DEF BookOK

LEMMA EmptyBook == BookOK(emptyPortfolio)
<1>1. << >> \in Seq(TradeType)
    OBVIOUS
<1>. QED  BY <1>1, EmptyFields, BookSizeAssumption DEF BookOK

LEMMA OpenBook ==
    ASSUME NEW b, BookOK(b), NEW m \in Mints, NEW s \in Nat \ {0},
           NEW p \in Nat \ {0}, NEW ts \in Nat, NEW c \in Nat
    PROVE  BookOK(openPosition(b, m, s, p, ts, c))
<1> DEFINE r == openPosition(b, m, s, p, ts, c)
<1>1. DOMAIN b = BookFields
    BY BookNumbers
<1>2. /\ DOMAIN r = BookFields
      /\ Held(r) = Held(b) \cup {m}
      /\ \A k \in Held(b) \cup {m} :
            r.positions[k] = IF k = m THEN NewPosition(s, p, ts, c)
                             ELSE b.positions[k]
    BY <1>1, OpenFields
<1>3. /\ r.cashUsd = b.cashUsd - (s + c)
      /\ r.grossSpentUsd = b.grossSpentUsd + (s + c)
      /\ r.costsPaidUsd = b.costsPaidUsd + c
      /\ r.openedCount = b.openedCount + 1
      /\ r.closedTrades = b.closedTrades
      /\ r.realisedPnlUsd = b.realisedPnlUsd
      /\ r.consecutiveLosses = b.consecutiveLosses
      /\ r.wins = b.wins /\ r.losses = b.losses
      /\ r.closedCount = b.closedCount
    BY <1>1, OpenFields
<1> HIDE DEF r
<1>4. \A k \in Held(r) : r.positions[k] \in PositionType
    BY <1>2, NewPositionType DEF BookOK
<1>5. Held(r) \subseteq Mints
    BY <1>2 DEF BookOK
<1>6. /\ r.cashUsd \in Int /\ r.realisedPnlUsd \in Int
      /\ r.grossSpentUsd \in Nat /\ r.costsPaidUsd \in Nat
      /\ r.consecutiveLosses \in Nat /\ r.wins \in Nat /\ r.losses \in Nat
      /\ r.openedCount \in Nat /\ r.closedCount \in Nat
    BY <1>3, BookNumbers
<1>7. r.closedTrades \in Seq(TradeType)
    BY <1>3, Zenon DEF BookOK
<1>8. BookOK(r)
    BY <1>2, <1>4, <1>5, <1>6, <1>7, Zenon DEF BookOK
<1>. QED  BY <1>8 DEF r

LEMMA RealiseBook ==
    ASSUME NEW b, BookOK(b), NEW m \in Held(b), NEW slice \in SliceType,
           NEW p \in Nat \ {0}, NEW ts \in Nat, NEW c \in Nat, NEW positions,
           DOMAIN positions \subseteq Mints,
           \A k \in DOMAIN positions : positions[k] \in PositionType
    PROVE  BookOK(Realise(b, m, slice, p, ts, c, positions))
<1> DEFINE r == Realise(b, m, slice, p, ts, c, positions)
           pos == b.positions[m]
<1>0. /\ b.cashUsd \in Int /\ b.realisedPnlUsd \in Int
      /\ b.grossSpentUsd \in Nat /\ b.costsPaidUsd \in Nat
      /\ b.consecutiveLosses \in Nat /\ b.wins \in Nat /\ b.losses \in Nat
      /\ b.openedCount \in Nat /\ b.closedCount \in Nat
    BY BookNumbers
<1>1. /\ DOMAIN b = BookFields
      /\ pos \in PositionType
      /\ m \in Mints
    BY DEF BookOK
<1>2. /\ Gross(slice.qty, pos.entryPriceUsd, p) \in Int
      /\ NetPnl(pos, slice, p, c) \in Int
    BY <1>1, NetPnlType
<1>3. Trade(m, pos, slice, p, ts, c) \in TradeType
    BY <1>1, <1>2 DEF Trade, TradeType, SliceType, PositionType
<1>4. r.closedTrades = Append(b.closedTrades, Trade(m, pos, slice, p, ts, c))
    BY <1>1, RealiseFields
<1>5. r.closedTrades \in Seq(TradeType)
    BY <1>3, <1>4 DEF BookOK
<1>6. /\ DOMAIN r = BookFields
      /\ r.positions = positions
    BY <1>1, RealiseFields
<1>7. /\ Held(r) \subseteq Mints
      /\ \A k \in Held(r) : r.positions[k] \in PositionType
    BY <1>6 DEF Held
<1>8. slice.sizeUsd \in Int
    BY DEF SliceType
<1>9. r.cashUsd \in Int
    <2>1. r.cashUsd = b.cashUsd + slice.sizeUsd
                        + Gross(slice.qty, pos.entryPriceUsd, p) - c
        BY <1>1, RealiseFields
    <2>. QED  BY <2>1, <1>0, <1>2, <1>8
<1>10. r.realisedPnlUsd \in Int
    <2>1. r.realisedPnlUsd = b.realisedPnlUsd + NetPnl(pos, slice, p, c)
        BY <1>1, RealiseFields
    <2>. QED  BY <2>1, <1>0, <1>2
<1>11. r.consecutiveLosses \in Nat
    <2>1. r.consecutiveLosses = StreakAfter(b, NetPnl(pos, slice, p, c))
        BY <1>1, RealiseFields
    <2>. QED  BY <2>1, <1>0, <1>2 DEF StreakAfter
<1> HIDE DEF r
<1>12. /\ r.grossSpentUsd \in Nat /\ r.costsPaidUsd \in Nat
       /\ r.openedCount \in Nat /\ r.closedCount \in Nat
    <2>1. /\ r.grossSpentUsd = b.grossSpentUsd
          /\ r.costsPaidUsd = b.costsPaidUsd + c
          /\ r.openedCount = b.openedCount
          /\ r.closedCount = b.closedCount + 1
        BY <1>1, RealiseFields DEF r
    <2>. QED  BY <2>1, <1>0
<1>13. r.wins \in Nat /\ r.losses \in Nat
    <2> DEFINE net == NetPnl(pos, slice, p, c)
    <2>1. /\ r.wins = (IF net > 0 THEN b.wins + 1 ELSE b.wins)
          /\ r.losses = (IF net < 0 THEN b.losses + 1 ELSE b.losses)
        BY <1>1, RealiseFields DEF r
    <2>. QED  BY <2>1, <1>0
<1>14. BookOK(r)
    BY <1>5, <1>6, <1>7, <1>9, <1>10, <1>11, <1>12, <1>13, Zenon DEF BookOK
<1>. QED  BY <1>14 DEF r

LEMMA CloseBook ==
    ASSUME NEW b, BookOK(b), NEW m \in Held(b),
           NEW p \in Nat \ {0}, NEW ts \in Nat, NEW c \in Nat
    PROVE  BookOK(closePosition(b, m, p, ts, c))
<1> DEFINE positions == Drop(b.positions, m)
<1>1. /\ DOMAIN positions = Held(b) \ {m}
      /\ \A k \in DOMAIN positions : positions[k] = b.positions[k]
    BY Zenon DEF Drop, Held
<1>2. WholeSlice(b.positions[m]) \in SliceType
    BY WholeSliceType DEF BookOK
<1> HIDE DEF positions
<1>3. /\ DOMAIN positions \subseteq Mints
      /\ \A k \in DOMAIN positions : positions[k] \in PositionType
    BY <1>1 DEF BookOK
<1>4. BookOK(Realise(b, m, WholeSlice(b.positions[m]), p, ts, c, positions))
    BY <1>2, <1>3, RealiseBook
<1>. QED  BY <1>4, Zenon DEF closePosition, positions

LEMMA ReduceBook ==
    ASSUME NEW b, BookOK(b), NEW m \in Held(b),
           NEW num \in Nat, NEW den \in Nat \ {0},
           NEW p \in Nat \ {0}, NEW ts \in Nat, NEW c \in Nat
    PROVE  BookOK(reducePosition(b, m, num, den, p, ts, c))
<1> DEFINE slice == PartSlice(b.positions[m], num, den)
           rest == Remainder(b.positions[m], slice, p)
           positions == Put(b.positions, m, rest)
<1>1. /\ DOMAIN positions = Held(b) \cup {m}
      /\ \A k \in Held(b) \cup {m} :
            positions[k] = IF k = m THEN rest ELSE b.positions[k]
    BY Zenon DEF Put, Held
<1>2. slice \in SliceType
    BY PartSliceType DEF BookOK
<1> HIDE DEF slice, positions
<1>3. rest \in PositionType
    BY <1>2, RemainderType DEF BookOK
<1> HIDE DEF rest
<1>4. /\ DOMAIN positions \subseteq Mints
      /\ \A k \in DOMAIN positions : positions[k] \in PositionType
    BY <1>1, <1>3 DEF BookOK
<1>5. BookOK(Realise(b, m, slice, p, ts, c, positions))
    BY <1>2, <1>4, RealiseBook
<1>. QED  BY <1>5, Zenon DEF reducePosition, positions, rest, slice

LEMMA MarkBook ==
    ASSUME NEW b, BookOK(b), NEW marks,
           \A m \in DOMAIN marks : marks[m] \in Nat \ {0}
    PROVE  BookOK(markPositions(b, marks))
<1> DEFINE r == markPositions(b, marks)
<1>1. DOMAIN b = BookFields
    BY DEF BookOK
<1>2. \A m \in Held(r) : r.positions[m] \in PositionType
    BY <1>1, MarkFields, MarkedType DEF BookOK
<1>. QED  BY <1>1, <1>2, MarkFields DEF BookOK

-----------------------------------------------------------------------------
(* What a mark and a sale leave of a position. *)

LEMMA PositionFields ==
    ASSUME NEW pos \in PositionType
    PROVE  /\ DOMAIN pos =
                 {"sizeUsd", "entryPriceUsd", "qty", "openedTs", "entryCostUsd",
                  "lastPriceUsd", "unrealisedPnlUsd", "scaleOutCount"}
           /\ pos.sizeUsd \in Int /\ pos.entryCostUsd \in Int
           /\ pos.unrealisedPnlUsd \in Int
           /\ pos.openedTs \in Nat /\ pos.scaleOutCount \in Nat
    BY DEF PositionType

LEMMA MarkedFields ==
    ASSUME NEW pos \in PositionType, NEW p
    PROVE  /\ Marked(pos, p).sizeUsd = pos.sizeUsd
           /\ Marked(pos, p).entryCostUsd = pos.entryCostUsd
           /\ Marked(pos, p).openedTs = pos.openedTs
           /\ Marked(pos, p).scaleOutCount = pos.scaleOutCount
    BY PositionFields, Zenon DEF Marked

LEMMA RemainderFields ==
    ASSUME NEW pos \in PositionType, NEW slice, NEW p
    PROVE  /\ Remainder(pos, slice, p).sizeUsd = pos.sizeUsd - slice.sizeUsd
           /\ Remainder(pos, slice, p).entryCostUsd
                = pos.entryCostUsd - slice.entryCostUsd
           /\ Remainder(pos, slice, p).openedTs = pos.openedTs
           /\ Remainder(pos, slice, p).scaleOutCount = pos.scaleOutCount + 1
    BY PositionFields, Zenon DEF Remainder, Marked

-----------------------------------------------------------------------------
(* The sums over the open positions. *)

\* What a position cost: its size and its entry leg.
CostOfPosition(pos) == pos.sizeUsd + pos.entryCostUsd

OpenCosts(positions) == [m \in DOMAIN positions |-> CostOfPosition(positions[m])]
OpenCharges(positions) == [m \in DOMAIN positions |-> positions[m].entryCostUsd]
OpenGains(positions) == [m \in DOMAIN positions |-> positions[m].unrealisedPnlUsd]

\* The positions of a book, as the lemmas below want them.
Positions(ps) == IsFiniteSet(DOMAIN ps) /\ \A k \in DOMAIN ps : ps[k] \in PositionType

LEMMA BookPositions ==
    ASSUME NEW b, BookOK(b)
    PROVE  Positions(b.positions)
<1>1. IsFiniteSet(Held(b))
    BY MintsAssumption, FS_Subset DEF BookOK
<1>. QED  BY <1>1 DEF BookOK, Held, Positions

\* The sums are over whole numbers.
LEMMA OpenSumsType ==
    ASSUME NEW ps, Positions(ps)
    PROVE  /\ DOMAIN OpenCosts(ps) = DOMAIN ps
           /\ DOMAIN OpenCharges(ps) = DOMAIN ps
           /\ DOMAIN OpenGains(ps) = DOMAIN ps
           /\ \A k \in DOMAIN ps : /\ OpenCosts(ps)[k] \in Int
                                   /\ OpenCharges(ps)[k] \in Int
                                   /\ OpenGains(ps)[k] \in Int
           /\ Total(OpenCosts(ps)) \in Int
           /\ Total(OpenCharges(ps)) \in Int
           /\ Total(OpenGains(ps)) \in Int
<1>1. \A k \in DOMAIN ps : /\ CostOfPosition(ps[k]) \in Int
                           /\ ps[k].entryCostUsd \in Int
                           /\ ps[k].unrealisedPnlUsd \in Int
    BY PositionFields DEF Positions, CostOfPosition
<1>2. /\ DOMAIN OpenCosts(ps) = DOMAIN ps
      /\ DOMAIN OpenCharges(ps) = DOMAIN ps
      /\ DOMAIN OpenGains(ps) = DOMAIN ps
      /\ \A k \in DOMAIN ps : /\ OpenCosts(ps)[k] \in Int
                              /\ OpenCharges(ps)[k] \in Int
                              /\ OpenGains(ps)[k] \in Int
    BY <1>1 DEF OpenCosts, OpenCharges, OpenGains
<1>3. IsFiniteSet(DOMAIN ps)
    BY DEF Positions
<1>. QED  BY <1>2, <1>3, TotalType

\* A position written: over the one that was there, or as one more.
LEMMA PutSums ==
    ASSUME NEW ps, Positions(ps), NEW m, NEW pos \in PositionType
    PROVE  /\ Total(OpenCosts(Put(ps, m, pos))) =
                 Total(OpenCosts(ps))
                   - (IF m \in DOMAIN ps THEN CostOfPosition(ps[m]) ELSE 0)
                   + CostOfPosition(pos)
           /\ Total(OpenCharges(Put(ps, m, pos))) =
                 Total(OpenCharges(ps))
                   - (IF m \in DOMAIN ps THEN ps[m].entryCostUsd ELSE 0)
                   + pos.entryCostUsd
           /\ Total(OpenGains(Put(ps, m, pos))) =
                 Total(OpenGains(ps))
                   - (IF m \in DOMAIN ps THEN ps[m].unrealisedPnlUsd ELSE 0)
                   + pos.unrealisedPnlUsd
           /\ Positions(Put(ps, m, pos))
<1>1. /\ CostOfPosition(pos) \in Int /\ pos.entryCostUsd \in Int
      /\ pos.unrealisedPnlUsd \in Int
    BY PositionFields DEF CostOfPosition
<1>2. /\ OpenCosts(Put(ps, m, pos)) = Put(OpenCosts(ps), m, CostOfPosition(pos))
      /\ OpenCharges(Put(ps, m, pos)) = Put(OpenCharges(ps), m, pos.entryCostUsd)
      /\ OpenGains(Put(ps, m, pos)) = Put(OpenGains(ps), m, pos.unrealisedPnlUsd)
    BY DEF OpenCosts, OpenCharges, OpenGains, Put
<1>3. \A k \in DOMAIN ps : /\ OpenCosts(ps)[k] = CostOfPosition(ps[k])
                           /\ OpenCharges(ps)[k] = ps[k].entryCostUsd
                           /\ OpenGains(ps)[k] = ps[k].unrealisedPnlUsd
    BY DEF OpenCosts, OpenCharges, OpenGains
<1>4. Positions(Put(ps, m, pos))
    <2>1. DOMAIN Put(ps, m, pos) = DOMAIN ps \cup {m}
          /\ \A k \in DOMAIN ps \cup {m} :
                Put(ps, m, pos)[k] = IF k = m THEN pos ELSE ps[k]
        BY Zenon DEF Put
    <2>. QED  BY <2>1, FS_AddElement DEF Positions
<1>5. IsFiniteSet(DOMAIN ps)
    BY DEF Positions
<1>6. Total(OpenCosts(Put(ps, m, pos))) =
          Total(OpenCosts(ps))
            - (IF m \in DOMAIN ps THEN CostOfPosition(ps[m]) ELSE 0)
            + CostOfPosition(pos)
    BY <1>1, <1>2, <1>3, <1>5, OpenSumsType, TotalPut
<1>7. Total(OpenCharges(Put(ps, m, pos))) =
          Total(OpenCharges(ps))
            - (IF m \in DOMAIN ps THEN ps[m].entryCostUsd ELSE 0)
            + pos.entryCostUsd
    BY <1>1, <1>2, <1>3, <1>5, OpenSumsType, TotalPut
<1>8. Total(OpenGains(Put(ps, m, pos))) =
          Total(OpenGains(ps))
            - (IF m \in DOMAIN ps THEN ps[m].unrealisedPnlUsd ELSE 0)
            + pos.unrealisedPnlUsd
    BY <1>1, <1>2, <1>3, <1>5, OpenSumsType, TotalPut
<1>. QED  BY <1>4, <1>6, <1>7, <1>8

\* A position taken away.
LEMMA DropSums ==
    ASSUME NEW ps, Positions(ps), NEW m \in DOMAIN ps
    PROVE  /\ Total(OpenCosts(ps)) =
                 Total(OpenCosts(Drop(ps, m))) + CostOfPosition(ps[m])
           /\ Total(OpenCharges(ps)) =
                 Total(OpenCharges(Drop(ps, m))) + ps[m].entryCostUsd
           /\ Positions(Drop(ps, m))
<1>1. /\ OpenCosts(Drop(ps, m)) = Drop(OpenCosts(ps), m)
      /\ OpenCharges(Drop(ps, m)) = Drop(OpenCharges(ps), m)
    BY DEF OpenCosts, OpenCharges, Drop
<1>2. /\ OpenCosts(ps)[m] = CostOfPosition(ps[m])
      /\ OpenCharges(ps)[m] = ps[m].entryCostUsd
    BY DEF OpenCosts, OpenCharges
<1>3. Positions(Drop(ps, m))
    <2>1. DOMAIN Drop(ps, m) = DOMAIN ps \ {m}
          /\ \A k \in DOMAIN ps \ {m} : Drop(ps, m)[k] = ps[k]
        BY Zenon DEF Drop
    <2>. QED  BY <2>1, FS_RemoveElement DEF Positions
<1>4. IsFiniteSet(DOMAIN ps)
    BY DEF Positions
<1>5. ASSUME NEW f, DOMAIN f = DOMAIN ps, \A k \in DOMAIN ps : f[k] \in Int
      PROVE  Total(f) = Total(Drop(f, m)) + f[m]
    BY <1>4, <1>5, DropFields, TotalDrop
<1>. QED  BY <1>1, <1>2, <1>3, <1>5, OpenSumsType

\* Marks change no cost.
LEMMA SameSums ==
    ASSUME NEW ps, Positions(ps), NEW qs, DOMAIN qs = DOMAIN ps,
           \A k \in DOMAIN ps : /\ qs[k].sizeUsd = ps[k].sizeUsd
                                /\ qs[k].entryCostUsd = ps[k].entryCostUsd
    PROVE  /\ Total(OpenCosts(qs)) = Total(OpenCosts(ps))
           /\ Total(OpenCharges(qs)) = Total(OpenCharges(ps))
<1>1. OpenCosts(qs) = OpenCosts(ps)
    BY DEF OpenCosts, CostOfPosition
<1>2. OpenCharges(qs) = OpenCharges(ps)
    BY DEF OpenCharges
<1>. QED  BY <1>1, <1>2

LEMMA MarkSums ==
    ASSUME NEW b, BookOK(b), NEW marks
    PROVE  LET ps == markPositions(b, marks).positions
           IN /\ Total(OpenCosts(ps)) = Total(OpenCosts(b.positions))
              /\ Total(OpenCharges(ps)) = Total(OpenCharges(b.positions))
<1> DEFINE r == markPositions(b, marks)
<1>1. /\ Held(r) = Held(b)
      /\ \A m \in Held(b) : r.positions[m] = IF m \in DOMAIN marks
                                             THEN Marked(b.positions[m], marks[m])
                                             ELSE b.positions[m]
    BY BookNumbers, MarkFields
<1>2. Positions(b.positions)
    BY BookPositions
<1> HIDE DEF r
<1>3. \A k \in Held(b) : /\ r.positions[k].sizeUsd = b.positions[k].sizeUsd
                         /\ r.positions[k].entryCostUsd = b.positions[k].entryCostUsd
    BY <1>1, <1>2, MarkedFields DEF Positions, Held
<1>4. /\ Total(OpenCosts(r.positions)) = Total(OpenCosts(b.positions))
      /\ Total(OpenCharges(r.positions)) = Total(OpenCharges(b.positions))
    BY <1>1, <1>2, <1>3, SameSums DEF Held
<1>. QED  BY <1>4 DEF r
=============================================================================
