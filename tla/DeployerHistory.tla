---------------------------- MODULE DeployerHistory ----------------------------
(***************************************************************************)
(* What layer 4 is told about a wallet (src/rpc/history.js,                *)
(* src/rpc/deployer-history.js, fetchCreator of src/rpc/mint.js).          *)
(*                                                                         *)
(* An address has a growing list of transactions, oldest first, of which   *)
(* each node keeps only the newest part; every call of the client may be   *)
(* answered by another node (its fallback).  One walk lists signatures     *)
(* newest first, page by page; what it lists is then read one by one.      *)
(***************************************************************************)
EXTENDS Integers, Sequences, FiniteSets, FiniteSetsExt

CONSTANTS
    Kinds,          \* transactions: [payer, mints, dated]
    Wallet,         \* the deployer whose history is asked for
    Nodes,          \* the primary endpoint and the fallback
    Risks,          \* what the third party may say of the wallet, or None
    PageLimit,      \* SIGNATURE_PAGE_LIMIT
    MaxPages,       \* DEFAULT_MAX_SIGNATURE_PAGES
    MaxInspections, \* DEFAULT_MAX_TX_INSPECTIONS
    MaxLen,         \* bound: transactions of the address
    None

ASSUME HistoryAssumption ==
    /\ PageLimit \in Nat \ {0} /\ MaxPages \in Nat /\ MaxInspections \in Nat
    /\ MaxLen \in Nat
    /\ None \notin Int /\ None \notin Kinds
    /\ \A kind \in Kinds : IsFiniteSet(kind.mints)

VARIABLES
    asked,    \* "creator" of a mint or history of a "deployer"
    chain,    \* the transactions of the address, oldest first
    floor,    \* node -> how many of the oldest it has pruned
    edge,     \* the first transaction inside the lookback window
    gone,     \* deps.signal is aborted
    phase,    \* "walk", "read", "risk", "done"
    pages, before, entries, \* of walkSignatures; entries are positions in chain
    walkEnd,  \* how the walk ended: "open", "reachedEnd", "windowEdge", "cut", "threw"
    scanned, truncated, mints, at, \* of scanCreatedMints
    result,
    top,      \* history: the newest transaction when the walk began
    deepest,  \* history: what the node of the last page had pruned
    absent    \* history: listed transactions whose reader answered null

walk == <<pages, before, entries, walkEnd, top, deepest>>
scan == <<scanned, truncated, mints, at, absent>>
world == <<chain, floor>>
historyVars == <<asked, world, edge, gone, phase, walk, scan, result>>

-----------------------------------------------------------------------------
(* walkSignatures *)

\* A page of what a node keeps below `before', newest first.
Page(node) ==
    LET newest == IF before = None THEN Len(chain) ELSE before - 1
        kept == IF newest > floor[node] THEN newest - floor[node] ELSE 0
    IN [i \in 1..(IF kept < PageLimit THEN kept ELSE PageLimit) |-> newest + 1 - i]

\* An entry without a block time never ends the window, nor does a creation walk.
PastEdge(i) == asked = "deployer" /\ i < edge /\ chain[i].dated

\* The entries of a page up to the first that is older than the window.
Inside(page) ==
    SubSeq(page, 1, Min({Len(page)} \cup {i - 1 : i \in {j \in DOMAIN page : PastEdge(page[j])}}))

\* The end that a page puts to the walk, "open" if it goes on.
EndOf(page) ==
    IF page = << >> THEN "reachedEnd"
    ELSE IF \E i \in DOMAIN page : PastEdge(page[i]) THEN "windowEdge"
    ELSE IF Len(page) < PageLimit THEN "reachedEnd" ELSE "open"

HistoryInit ==
    /\ asked \in {"creator", "deployer"}
    /\ chain \in UNION {[1..n -> Kinds] : n \in 0..MaxLen}
    /\ floor \in [Nodes -> 0..Len(chain)]
    /\ edge \in IF asked = "creator" THEN {1} ELSE 1..(Len(chain) + 1)
    /\ gone = FALSE /\ phase = "walk"
    /\ pages = 0 /\ before = None /\ entries = << >> /\ walkEnd = "open"
    /\ scanned = 0 /\ truncated = FALSE /\ mints = {} /\ at = 1
    /\ result = None
    /\ top = Len(chain) /\ deepest = None /\ absent = {}

Walking == phase = "walk" /\ walkEnd = "open" /\ pages < MaxPages

FetchPage(node) ==
    /\ Walking /\ ~ gone
    /\ LET page == Page(node)
       IN /\ entries' = entries \o Inside(page)
          /\ walkEnd' = EndOf(page)
          /\ before' = IF page = << >> \/ EndOf(page) = "windowEdge"
                       THEN before ELSE page[Len(page)]
    /\ pages' = pages + 1
    /\ top' = IF before = None THEN Len(chain) ELSE top
    /\ deepest' = floor[node]
    /\ UNCHANGED <<asked, world, edge, gone, phase, scan, result>>

\* The call fails, or an entry cannot be read: no list at all.
PageThrows ==
    /\ Walking /\ ~ gone
    /\ walkEnd' = "threw"
    /\ UNCHANGED <<asked, world, edge, gone, phase, pages, before, entries, top,
                   deepest, scan, result>>

\* Aborted between two pages, or out of pages: the walk is truncated.
CutWalk ==
    /\ phase = "walk" /\ walkEnd = "open"
    /\ gone \/ pages = MaxPages
    /\ walkEnd' = "cut"
    /\ UNCHANGED <<asked, world, edge, gone, phase, pages, before, entries, top,
                   deepest, scan, result>>

-----------------------------------------------------------------------------
(* A parsed transaction, as a node gives it: null if it no longer has it. *)
Parsed(node, i) == IF i <= floor[node] THEN None ELSE chain[i]

feePayerOf(tx) == IF tx = None THEN None ELSE tx.payer
initialisedMintsIn(tx) == IF tx = None THEN {} ELSE tx.mints

-----------------------------------------------------------------------------
(* fetchCreator *)
Oldest == entries[Len(entries)]

\* Mutant of CreationSeen: the oldest entry listed is good enough.
CreationListed == entries # << >> /\ walkEnd # "threw"

CreationSeen == walkEnd = "reachedEnd" /\ entries # << >>

CreatorUnknown ==
    /\ asked = "creator" /\ phase = "walk" /\ walkEnd # "open"
    /\ ~ CreationSeen
    /\ phase' = "done" /\ UNCHANGED <<result>>
    /\ UNCHANGED <<asked, world, edge, gone, walk, scan>>

\* The payer of the oldest transaction; an unreadable one leaves it unknown.
ReadCreation ==
    /\ asked = "creator" /\ phase = "walk" /\ walkEnd # "open"
    /\ CreationSeen
    /\ \E payer \in {None} \cup {feePayerOf(Parsed(node, Oldest)) : node \in Nodes} :
         result' = IF payer = None THEN None
                   ELSE [creator |-> payer, signature |-> Oldest]
    /\ phase' = "done"
    /\ UNCHANGED <<asked, world, edge, gone, walk, scan>>

-----------------------------------------------------------------------------
(* scanCreatedMints *)
Candidates ==
    SubSeq(entries, 1, IF Len(entries) < MaxInspections THEN Len(entries) ELSE MaxInspections)

\* Mutant of TruncatedAtFirst: only the walk can be cut short.
TruncatedByWalk == walkEnd = "cut"

TruncatedAtFirst == walkEnd = "cut" \/ Len(Candidates) < Len(entries)

StartScan ==
    /\ asked = "deployer" /\ phase = "walk" /\ walkEnd \notin {"open", "threw"}
    /\ phase' = "read"
    /\ truncated' = TruncatedAtFirst
    /\ UNCHANGED <<asked, world, edge, gone, walk, scanned, mints, at, absent, result>>

\* The walk threw: nothing was looked at.
NoScan ==
    /\ asked = "deployer" /\ phase = "walk" /\ walkEnd = "threw"
    /\ phase' = "risk" /\ truncated' = TRUE
    /\ UNCHANGED <<asked, world, edge, gone, walk, scanned, mints, at, absent, result>>

\* Null counts as read: the node has no such transaction, and pays for nothing.
ReadTx(node) ==
    /\ phase = "read" /\ at <= Len(Candidates) /\ ~ gone
    /\ LET tx == Parsed(node, Candidates[at])
       IN /\ mints' = mints \cup (IF feePayerOf(tx) = Wallet
                                  THEN initialisedMintsIn(tx) ELSE {})
          /\ absent' = absent \cup {Candidates[i] : i \in {j \in {at} : tx = None}}
    /\ scanned' = scanned + 1 /\ at' = at + 1
    /\ UNCHANGED <<asked, world, edge, gone, phase, walk, truncated, result>>

ReadFails ==
    /\ phase = "read" /\ at <= Len(Candidates) /\ ~ gone
    /\ truncated' = TRUE /\ at' = at + 1
    /\ UNCHANGED <<asked, world, edge, gone, phase, walk, scanned, mints, absent, result>>

FinishScan ==
    /\ phase = "read" /\ (at > Len(Candidates) \/ gone)
    /\ truncated' = (truncated \/ at <= Len(Candidates))
    /\ phase' = "risk"
    /\ UNCHANGED <<asked, world, edge, gone, walk, scanned, mints, at, absent, result>>

-----------------------------------------------------------------------------
(* fetchDeployerHistory *)
Available == walkEnd # "threw" /\ pages > 0

\* A walk cut short before it found any mint established nothing.
onchainCount ==
    IF ~ Available \/ (truncated /\ mints = {}) THEN None ELSE Cardinality(mints)

Of(risk, field) == IF risk = None THEN None ELSE risk[field]

Conclude ==
    /\ phase = "risk"
    /\ \E risk \in Risks :
         result' = [onchain |-> onchainCount,
                    mintCount |-> IF onchainCount # None THEN onchainCount
                                  ELSE Of(risk, "mintCount"),
                    ruggedCount |-> Of(risk, "rugCount"),
                    priorRugRate |-> Of(risk, "priorRugRate"),
                    knownMints |-> mints,
                    mintCountIsLowerBound |-> ~ Available \/ truncated]
    /\ phase' = "done"
    /\ UNCHANGED <<asked, world, edge, gone, walk, scan>>

-----------------------------------------------------------------------------
(* The world meanwhile. *)
Abort == /\ phase # "done" /\ ~ gone /\ gone' = TRUE
         /\ UNCHANGED <<asked, world, edge, phase, walk, scan, result>>

\* A new transaction of the address lands.
Land == /\ phase = "walk" /\ Len(chain) < MaxLen
        /\ \E kind \in Kinds : chain' = Append(chain, kind)
        /\ UNCHANGED <<asked, floor, edge, gone, phase, walk, scan, result>>

\* A node drops its oldest transaction.
Prune(node) ==
    /\ phase # "done" /\ floor[node] < Len(chain)
    /\ floor' = [floor EXCEPT ![node] = @ + 1]
    /\ UNCHANGED <<asked, chain, edge, gone, phase, walk, scan, result>>

HistoryNext ==
    \/ \E node \in Nodes : FetchPage(node) \/ ReadTx(node) \/ Prune(node)
    \/ PageThrows \/ CutWalk \/ CreatorUnknown \/ ReadCreation
    \/ StartScan \/ NoScan \/ ReadFails \/ FinishScan \/ Conclude
    \/ Abort \/ Land

HistorySpec == HistoryInit /\ [][HistoryNext]_historyVars

-----------------------------------------------------------------------------
Listed == {entries[i] : i \in DOMAIN entries}

\* "A list we cannot parse must not be silently shortened into `this is the oldest
\* transaction'" (history.js:61), and the fee payer is "never a guess": whatever
\* lands, is pruned or fails between the pages, a creator is named only as the
\* payer of the transaction down to which everything was listed, without a gap,
\* from the newest there was, and below which the node that answered last kept
\* nothing.  (That it is the first transaction ever, as walkSignatures says of
\* reachedEnd, does not hold on a node that has pruned.)
CreatorIsOldestKept ==
    asked = "creator" /\ result # None =>
        /\ result.creator = chain[result.signature].payer
        /\ entries = [i \in 1..(top + 1 - result.signature) |-> top + 1 - i]
        /\ deepest >= result.signature - 1

\* What is in the window of the walk.
Window == {i \in 1..top : i >= edge}

\* "`mintCount' is a floor, not a census", "we could not look and we looked and
\* found none are different facts" (deployer-history.js:27, 63): a count is never
\* more than what the wallet paid for, it is null rather than 0 when the look
\* was cut short, and only called exact when every transaction of the window
\* that the last node kept was listed and read -- or was gone from the node that
\* was asked to read it, which the code takes for a transaction without a mint.
CountIsAFloor ==
    asked = "deployer" /\ phase = "done" =>
        LET paid(i) == IF chain[i].payer = Wallet THEN chain[i].mints ELSE {}
        IN /\ result.knownMints \subseteq UNION {paid(i) : i \in Listed}
           /\ result.onchain \in {None, Cardinality(result.knownMints)}
           /\ ~ result.mintCountIsLowerBound =>
                /\ result.mintCount = Cardinality(result.knownMints)
                /\ \A i \in Window : i > deepest => i \in Listed
                /\ UNION {paid(i) : i \in Listed \ absent} = result.knownMints
           /\ result.onchain = 0 => ~ truncated /\ scanned = Len(entries)
=============================================================================
