-------------------------------- MODULE Outbound --------------------------------
(***************************************************************************)
(* What the bot says and buys (src/notify/telegram.js, src/trade,          *)
(* announceActions and the command loop of scripts/bot.js).                *)
(*                                                                         *)
(* Three kinds of task send messages: the trading cycle and the command    *)
(* loop, which await each one, and the live buys, which nobody awaits.     *)
(* They share the notifier's two cooldowns.  Times are ages, capped, so    *)
(* that the loop can run for ever.                                         *)
(***************************************************************************)
EXTENDS Integers, Sequences, FiniteSets, SequencesExt

CONSTANTS
    Mints,
    AnyCooldown,  \* NOTIFY.minSecondsBetweenAnyAlert
    KeyCooldown,  \* NOTIFY.minSecondsBetweenAlertsPerMint
    MaxAttempts,  \* sendAndConfirmSwap: maxAttempts
    MaxOrders,    \* bound: positions opened in all
    MaxMail,      \* bound: commands that arrive in one poll
    None

ASSUME OutboundAssumption ==
    /\ IsFiniteSet(Mints)
    /\ AnyCooldown \in Nat /\ KeyCooldown \in Nat /\ AnyCooldown <= KeyCooldown
    /\ MaxAttempts \in Nat \ {0} /\ MaxOrders \in Nat /\ MaxMail \in Nat

Signal(m) == <<"signal", m>>
Recheck(m) == <<"recheck", m>>
Down == <<"data-source-down", "">>
Stale == <<"recorder-stale", "">>
Keys == {Signal(m) : m \in Mints} \cup {Recheck(m) : m \in Mints} \cup {Down, Stale}
Orders == 1..MaxOrders
TheCycle == <<"cycle", 0>>
TheCommands == <<"commands", 0>>
Buy(o) == <<"buy", o>>
Senders == {TheCycle, TheCommands} \cup {Buy(o) : o \in Orders}

VARIABLES
    paused,   \* state.alertsPaused
    held,     \* mints with an open paper position
    opened,   \* history: positions opened so far
    pc,       \* of the cycle: "idle", "rechecks", "publish", "announce",
              \* "signals", "failed"; "ended" with the process
    todo,     \* the messages the cycle still has to send: [key, force]
    actions,  \* mints opened and closed by the last step, to be announced
    batch,    \* the commands of the last poll
    deaf,     \* updatesConflicted
    pending,  \* sender -> the message it is sending, or None: [key, force, age]
              \* and, as history, since: how long before its test the last alert
              \* of that key was tested that is sent by now
    anyAge,   \* now - lastAnyAt
    keyAge,   \* key -> now - lastPerKey[key]
    gap,      \* history: the shortest time between two alerts of one key
    order,    \* a live buy: [mint, stage, attempt], or None; its stage is "lost"
              \* if the process ended before the buy did
    broadcast, chain \* signatures given to a node, signatures that landed

cycleVars == <<pc, todo, actions, held, opened>>
mailVars == <<paused, batch, deaf>>
sendVars == <<pending, anyAge, keyAge, gap>>
buyVars == <<order, broadcast, chain>>
outVars == <<cycleVars, mailVars, sendVars, buyVars>>

-----------------------------------------------------------------------------
(* send *)
Message(key, force) == [key |-> key, force |-> force]
Forced == Message(None, TRUE)

\* Mutant of Cooling: the key's own mark is not looked at.
CoolingGlobally(msg) == ~ msg.force /\ anyAge < AnyCooldown

Cooling(msg) ==
    /\ ~ msg.force
    /\ anyAge < AnyCooldown \/ (msg.key # None /\ keyAge[msg.key] < KeyCooldown)

\* Past the cooldowns: to the limiter and the network, with the time of the test.
Submit(sender, msg) ==
    pending' = [pending EXCEPT ![sender] =
        [key |-> msg.key, force |-> msg.force, age |-> 0,
         since |-> IF msg.key = None THEN None ELSE keyAge[msg.key]]]

Idle(sender) == pending[sender] = None

Shorter(a, b) == IF a < b THEN a ELSE b

\* The call failed or timed out: logged, nothing else.
SendFails(sender) ==
    /\ ~ Idle(sender)
    /\ pending' = [pending EXCEPT ![sender] = None]
    /\ UNCHANGED <<anyAge, keyAge, gap, cycleVars, mailVars, buyVars>>

\* What else is in flight about the key comes that much after this alert.
Closer(other, msg) ==
    LET apart == IF other.age < msg.age THEN msg.age - other.age ELSE other.age - msg.age
    IN [other EXCEPT !.since = Shorter(@, apart)]

\* Both marks are set to the time of the test, which may be older than they are.
SendWorks(sender) ==
    /\ ~ Idle(sender)
    /\ LET msg == pending[sender]
       IN /\ anyAge' = Shorter(msg.age, AnyCooldown)
          /\ IF msg.key = None THEN UNCHANGED <<keyAge, gap>>
             ELSE /\ keyAge' = [keyAge EXCEPT ![msg.key] = msg.age]
                  /\ gap' = Shorter(gap, msg.since)
          /\ pending' = [s \in Senders |->
                IF s = sender THEN None
                ELSE IF ~ Idle(s) /\ msg.key # None /\ pending[s].key = msg.key
                THEN Closer(pending[s], msg) ELSE pending[s]]
    /\ UNCHANGED <<cycleVars, mailVars, buyVars>>

\* Mutant of Settle: a message that could not be sent is sent again.
SettleRetrying(sender) ==
    \/ SendWorks(sender)
    \/ /\ ~ Idle(sender) /\ Submit(sender, pending[sender])
       /\ UNCHANGED <<anyAge, keyAge, gap, cycleVars, mailVars, buyVars>>

Settle(sender) == SendWorks(sender) \/ SendFails(sender)

-----------------------------------------------------------------------------
(* The trading cycle. *)
Init ==
    /\ paused = FALSE /\ held = {} /\ opened = 0
    /\ pc = "idle" /\ todo = << >> /\ actions = [open |-> {}, close |-> {}]
    /\ batch = << >> /\ deaf = FALSE
    /\ pending = [s \in Senders |-> None]
    /\ anyAge = AnyCooldown /\ keyAge = [k \in Keys |-> KeyCooldown]
    /\ gap = KeyCooldown
    /\ order = [o \in Orders |-> None]
    /\ broadcast = {} /\ chain = {}

\* The recorder has not written for too long: one alert, and the cycle is over.
RecorderStale ==
    /\ pc = "idle"
    /\ pc' = "failed" /\ todo' = <<Message(Stale, FALSE)>>
    /\ UNCHANGED <<actions, held, opened, mailVars, sendVars, buyVars>>

\* Alerts for the positions whose recheck failed come first.
StartCycle ==
    /\ pc = "idle"
    /\ \E failing \in SUBSET held :
         todo' = SetToSeq({Message(Recheck(m), FALSE) : m \in failing})
    /\ pc' = "rechecks"
    /\ UNCHANGED <<actions, held, opened, mailVars, sendVars, buyVars>>

\* One message of the cycle, awaited.  Keyed alerts heed /pause, which may come
\* in between; announcements do not.
SayNext ==
    /\ Idle(TheCycle) /\ todo # << >>
    /\ todo' = Tail(todo)
    /\ LET msg == Head(todo)
           muted == paused /\ msg.key \in Keys \ {Down}
       IN IF muted \/ Cooling(msg) THEN UNCHANGED pending ELSE Submit(TheCycle, msg)
    /\ UNCHANGED <<anyAge, keyAge, gap, pc, actions, held, opened,
                   mailVars, buyVars>>

Said == Idle(TheCycle) /\ todo = << >>

\* stepEngine, up to the await of publishBook.
Step ==
    /\ pc = "rechecks" /\ Said
    /\ \E open \in SUBSET (Mints \ held), close \in SUBSET held :
         /\ opened + Cardinality(open) <= MaxOrders
         /\ actions' = [open |-> open, close |-> close]
         /\ held' = (held \ close) \cup open
         /\ opened' = opened + Cardinality(open)
    /\ pc' = "publish"
    /\ UNCHANGED <<todo, mailVars, sendVars, buyVars>>

\* The first order that is not in use yet is the next position's.
FirstFree == 1 + Cardinality({o \in Orders : order[o] # None})

NewOrder(m) == [mint |-> m, stage |-> "quote", attempt |-> 1]

\* announceActions: nothing at all while paused; if the mode file, which the
\* dashboard writes, says real just then, the buys of this step are started, not
\* awaited; then the step is announced, a tripped kill switch included.
Announce ==
    /\ pc = "publish"
    /\ pc' = "announce"
    /\ IF paused THEN UNCHANGED <<todo, order>>
       ELSE LET opens == SetToSeq(actions.open)
                said == Len(opens) + Cardinality(actions.close)
            IN /\ \E switch \in 0..1 : todo' = [i \in 1..(said + switch) |-> Forced]
               /\ order' \in {order, [o \in Orders |->
                                IF o - FirstFree + 1 \in DOMAIN opens
                                THEN NewOrder(opens[o - FirstFree + 1]) ELSE order[o]]}
    /\ UNCHANGED <<actions, held, opened, mailVars, sendVars, broadcast, chain>>

Signals ==
    /\ pc = "announce" /\ Said
    /\ \E firing \in SUBSET Mints :
         todo' = SetToSeq({Message(Signal(m), FALSE) : m \in firing})
    /\ pc' = "signals"
    /\ UNCHANGED <<actions, held, opened, mailVars, sendVars, buyVars>>

\* A source fails before the step, or loadWallet throws after it: the cycle ends
\* with one alert.
CycleFails ==
    /\ \/ pc = "rechecks" /\ Said
       \/ pc = "publish" /\ ~ paused
    /\ pc' = "failed" /\ todo' = <<Message(Down, FALSE)>>
    /\ UNCHANGED <<actions, held, opened, mailVars, sendVars, buyVars>>

EndCycle ==
    /\ pc \in {"signals", "failed"} /\ Said
    /\ pc' = "idle" /\ actions' = [open |-> {}, close |-> {}]
    /\ UNCHANGED <<todo, held, opened, mailVars, sendVars, buyVars>>

Cycle == StartCycle \/ SayNext \/ Step \/ Announce \/ Signals \/ EndCycle

-----------------------------------------------------------------------------
(* The command loop. *)
\* "mode" stands for all commands that change nothing.
Poll ==
    /\ pc # "ended"
    /\ ~ deaf /\ batch = << >> /\ Idle(TheCommands)
    /\ \E n \in 1..MaxMail : batch' \in [1..n -> {"pause", "resume", "mode"}]
    /\ UNCHANGED <<paused, deaf, cycleVars, sendVars, buyVars>>

\* HTTP 409: another process polls this token.  Never tried again.
Conflict ==
    /\ pc # "ended"
    /\ ~ deaf /\ batch = << >> /\ Idle(TheCommands)
    /\ deaf' = TRUE
    /\ UNCHANGED <<paused, batch, cycleVars, sendVars, buyVars>>

\* The command is carried out, and its answer is sent.
handleCommand ==
    /\ batch # << >> /\ Idle(TheCommands)
    /\ batch' = Tail(batch)
    /\ paused' = IF Head(batch) = "mode" THEN paused ELSE Head(batch) = "pause"
    /\ Submit(TheCommands, Forced)
    /\ UNCHANGED <<deaf, anyAge, keyAge, gap, cycleVars, buyVars>>

Abandoned(o) ==
    IF order[o] # None /\ order[o].stage \in {"quote", "send", "confirm"}
    THEN [order[o] EXCEPT !.stage = "lost"] ELSE order[o]

\* loadWallet throws on a malformed key.  Nobody awaits the command loop while
\* cycles run, so the rejection ends the process, wherever the cycle is: what it
\* had to say, what was being sent and the buys in progress are gone.
CommandThrows ==
    /\ batch # << >> /\ Head(batch) = "mode" /\ Idle(TheCommands)
    /\ pc' = "ended" /\ todo' = << >> /\ batch' = << >>
    /\ pending' = [s \in Senders |-> None]
    /\ order' = [o \in Orders |-> Abandoned(o)]
    /\ UNCHANGED <<actions, held, opened, paused, deaf, anyAge, keyAge, gap,
                   broadcast, chain>>

-----------------------------------------------------------------------------
(* executeBuyOrder and sendAndConfirmSwap *)
At(o, stage) == order[o] # None /\ order[o].stage = stage
To(o, stage) == order' = [order EXCEPT ![o].stage = stage]

outside == <<cycleVars, mailVars>>

\* A quote and a signed transaction, or the end of it.
Prepare(o) ==
    /\ At(o, "quote")
    /\ To(o, "send") \/ To(o, "failed")
    /\ UNCHANGED <<broadcast, chain, outside, sendVars>>

\* Mutant of SignatureOf: every attempt builds and signs a transaction.
FreshSignature(o) == <<o, order[o].attempt>>

\* One transaction is signed per order, and every attempt sends that one.
SignatureOf(o) == <<o, 1>>

\* catch: the next attempt, or give up.
NextTry(o) ==
    LET buy == order[o]
    IN order' = [order EXCEPT ![o] =
          IF buy.attempt < MaxAttempts
          THEN [buy EXCEPT !.attempt = buy.attempt + 1, !.stage = "send"]
          ELSE [buy EXCEPT !.stage = "failed"]]

\* A call that fails may have reached the node all the same.
SendRaw(o) ==
    /\ At(o, "send")
    /\ \/ To(o, "confirm") /\ broadcast' = broadcast \cup {SignatureOf(o)}
       \/ NextTry(o) /\ broadcast' \in {broadcast, broadcast \cup {SignatureOf(o)}}
    /\ UNCHANGED <<chain, outside, sendVars>>

\* Confirmed, and the message is sent without waiting for it; or reverted,
\* expired, or no answer.
Confirm(o) ==
    /\ At(o, "confirm")
    /\ \/ SignatureOf(o) \in chain /\ To(o, "bought") /\ Submit(Buy(o), Forced)
       \/ NextTry(o) /\ UNCHANGED pending
    /\ UNCHANGED <<broadcast, chain, anyAge, keyAge, gap, outside>>

\* The chain takes a signature once, at any time after it was sent.
Land ==
    /\ \E sig \in broadcast \ chain : chain' = chain \cup {sig}
    /\ UNCHANGED <<order, broadcast, outside, sendVars>>

Older(age, most) == Shorter(age + 1, most)

PassTime ==
    /\ anyAge' = Older(anyAge, AnyCooldown)
    /\ keyAge' = [k \in Keys |-> Older(keyAge[k], KeyCooldown)]
    /\ pending' = [s \in Senders |->
          IF Idle(s) THEN None
          ELSE [pending[s] EXCEPT !.age =
                  Older(@, IF pending[s].force THEN AnyCooldown ELSE KeyCooldown)]]
    /\ UNCHANGED <<gap, cycleVars, mailVars, buyVars>>

Next ==
    \/ Cycle \/ CycleFails \/ RecorderStale \/ Poll \/ Conflict \/ handleCommand
    \/ CommandThrows
    \/ \E s \in Senders : Settle(s)
    \/ \E o \in Orders : Prepare(o) \/ SendRaw(o) \/ Confirm(o)
    \/ Land \/ PassTime

\* Fairness: the loop runs on, and every send settles: the limiter serves its
\* queue and call has a timeout.  Nothing is assumed of what it settles to.
Spec == /\ Init /\ [][Next]_outVars
        /\ WF_outVars(Cycle)
        /\ \A s \in Senders : WF_outVars(Settle(s))

-----------------------------------------------------------------------------
Landed(o) == {sig \in chain : sig[1] = o}

\* Live buys mirror the paper book at most once: however often a send is
\* retried after it already reached a node, and however late it lands, one
\* opened position is bought once, and a confirmed buy is on chain.  (A buy that
\* is reported failed may be on chain too.)
BoughtAtMostOnce ==
    /\ Cardinality({o \in Orders : order[o] # None}) <= opened
    /\ \A o \in Orders : /\ Cardinality(Landed(o)) <= 1
                         /\ At(o, "bought") => Landed(o) # {}

\* "Keeps one token from flooding a phone" (telegram.js:137): two alerts about one
\* thing are tested at least the cooldown apart, though the test comes before the
\* limiter and the network and the mark is only set after them, because the
\* cycle awaits each of its alerts, and though the other mark may go back.
KeyedAlertsSpaced == gap >= KeyCooldown

\* "A blocked trading loop is a bug" (telegram.js:19): with a Telegram that fails
\* every message, commands at any moment and buys in flight, every cycle ends.
\* Only a command whose handler throws (bot.js:740) may end the process first.
CycleReturns == (pc # "idle") ~> (pc \in {"idle", "ended"})

\* A phone may stop no cycle: "the notifier would be able to stop the thing it is
\* supposed to be watching" (telegram.js:14).  False of this code: MCOutboundEnds.
CommandsSpareTheCycle == pc # "ended"
=============================================================================
