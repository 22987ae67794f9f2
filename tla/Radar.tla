--------------------------------- MODULE Radar ---------------------------------
(***************************************************************************)
(* scripts/radar.js and the reader of its file in scripts/record.js: new   *)
(* mints seen on chain are polled until a market lists them, announced in  *)
(* radar.txt, and picked up by the recorder's next tick.                   *)
(*                                                                         *)
(* Two processes share radar.txt without a lock.  Only radar_seen.txt      *)
(* outlives the radar: its queue does not.  Lines are appended whole.      *)
(***************************************************************************)
EXTENDS Naturals, FiniteSets, Sequences, SequencesExt

CONSTANTS
    Mints,
    MaxRetries, \* polls after which an unlisted mint is dropped
    Batch,      \* mints asked about in one poll
    MaxPolls,   \* bound: polls in flight, were there more than one
    MaxDeaths   \* bound: deaths of the radar

ASSUME RadarAssumption ==
    /\ MaxRetries \in Nat \ {0} /\ Batch \in Nat \ {0}
    /\ MaxPolls \in Nat \ {0} /\ MaxDeaths \in Nat

VARIABLES
    seenFile,    \* radar_seen.txt
    radarFile,   \* radar.txt, a sequence of mints
    seenMints,
    mintRetries, \* the queued mints in order, each with its retries
    isPolling,
    polls,       \* the batches that getBestPairs was asked for
    recorder,    \* at: "idle", "read", "tick"; the mints in its hands
    deaths,
    announced,   \* history: the lines ever written to radar.txt
    recorded,    \* history: the mints a tick went through with
    excused      \* history: announced while the recorder had read and not yet
                 \* cleared the file, or in its hands when a tick failed

memory == <<seenMints, mintRetries, isPolling, polls>>
handed == <<recorder, recorded>>
radarVars == <<seenFile, radarFile, memory, handed, deaths, announced, excused>>

Queued == {mintRetries[i].mint : i \in DOMAIN mintRetries}

\* The elements of s at the indices in I, in their order.
Pick(s, I) ==
    [k \in 1..Cardinality(I) |->
        s[CHOOSE i \in I : Cardinality({j \in I : j <= i}) = k]]

RadarInit ==
    /\ seenFile = {} /\ radarFile = << >>
    /\ seenMints = {} /\ mintRetries = << >> /\ isPolling = FALSE /\ polls = << >>
    /\ recorder = [at |-> "idle", mints |-> {}]
    /\ deaths = 0 /\ announced = << >> /\ recorded = {} /\ excused = {}

-----------------------------------------------------------------------------
\* extractMint: the test and the mark come after the await, in one go; when the
\* line cannot be written the mint is marked and not queued.
extractMint(m) ==
    /\ m \notin seenMints
    /\ seenMints' = seenMints \cup {m}
    /\ \/ /\ seenFile' = seenFile \cup {m}
          /\ mintRetries' = Append(mintRetries, [mint |-> m, retries |-> 0])
       \/ UNCHANGED <<seenFile, mintRetries>>
    /\ UNCHANGED <<radarFile, isPolling, polls, handed, deaths, announced, excused>>

\* Mutant of MayPoll: the guard against a poll in flight is missing.
MayPollAgain == mintRetries # << >>

MayPoll == ~ isPolling /\ mintRetries # << >>

StartPoll ==
    /\ MayPoll /\ Len(polls) < MaxPolls
    /\ isPolling' = TRUE
    /\ LET n == IF Len(mintRetries) < Batch THEN Len(mintRetries) ELSE Batch
       IN polls' = Append(polls, [i \in 1..n |-> mintRetries[i].mint])
    /\ UNCHANGED <<seenFile, radarFile, seenMints, mintRetries, handed, deaths,
                   announced, excused>>

\* The first k of these mints are appended to radar.txt.
Announce(mints, k) ==
    LET lines == SubSeq(mints, 1, k)
    IN /\ radarFile' = radarFile \o lines
       /\ announced' = announced \o lines
       /\ excused' = IF recorder.at = "read" THEN excused \cup ToSet(lines) ELSE excused

\* Retries of the missed mints go up, and those that have had enough leave.
Retried(queue, missed) ==
    LET counted == [i \in DOMAIN queue |->
                      IF queue[i].mint \in missed
                      THEN [queue[i] EXCEPT !.retries = @ + 1] ELSE queue[i]]
    IN Pick(counted, {i \in DOMAIN counted : counted[i].retries < MaxRetries})

Without(mints) ==
    Pick(mintRetries, {i \in DOMAIN mintRetries : mintRetries[i].mint \notin mints})

\* The mints of a batch that the market lists, in the batch's order.
Hits(batch, listed) == Pick(batch, {i \in DOMAIN batch : batch[i] \in listed})

\* The market answers.  An append that throws ends the poll: that mint has left the
\* queue already, the rest stays, and nothing is counted.
PollAnswered(i) ==
    /\ \E listed \in SUBSET ToSet(polls[i]) :
          LET hits == Hits(polls[i], listed)
          IN \/ /\ Announce(hits, Len(hits))
                /\ mintRetries' = Retried(Without(listed), ToSet(polls[i]) \ listed)
             \/ \E k \in DOMAIN hits :
                   /\ Announce(hits, k - 1)
                   /\ mintRetries' = Without(ToSet(SubSeq(hits, 1, k)))
    /\ isPolling' = FALSE
    /\ polls' = RemoveAt(polls, i)
    /\ UNCHANGED <<seenFile, seenMints, handed, deaths>>

\* Mutant of PollFails: no finally.
PollFailsForGood(i) ==
    /\ polls' = RemoveAt(polls, i)
    /\ UNCHANGED <<seenFile, radarFile, seenMints, mintRetries, isPolling, handed,
                   deaths, announced, excused>>

\* getBestPairs throws: nothing is counted.
PollFails(i) ==
    /\ isPolling' = FALSE
    /\ polls' = RemoveAt(polls, i)
    /\ UNCHANGED <<seenFile, radarFile, seenMints, mintRetries, handed, deaths,
                   announced, excused>>

\* The radar dies, perhaps between two appends of a poll, and is started again.
RadarDies ==
    /\ deaths < MaxDeaths /\ deaths' = deaths + 1
    /\ \/ UNCHANGED <<radarFile, announced, excused>>
       \/ \E i \in DOMAIN polls : \E listed \in SUBSET ToSet(polls[i]) :
             LET hits == Hits(polls[i], listed)
             IN \E k \in DOMAIN hits : Announce(hits, k)
    /\ seenMints' = seenFile
    /\ mintRetries' = << >> /\ isPolling' = FALSE /\ polls' = << >>
    /\ UNCHANGED <<seenFile, handed>>

-----------------------------------------------------------------------------
\* Mutant of ReadRadar: the file is cleared before it is read.
ReadCleared ==
    /\ recorder.at = "idle"
    /\ recorder' = [at |-> "read", mints |-> {}]
    /\ radarFile' = << >>
    /\ UNCHANGED <<seenFile, memory, recorded, deaths, announced, excused>>

\* fetchRadarMints reads the file ...
ReadRadar ==
    /\ recorder.at = "idle"
    /\ recorder' = [at |-> "read", mints |-> ToSet(radarFile)]
    /\ UNCHANGED <<seenFile, radarFile, memory, recorded, deaths, announced, excused>>

\* ... and clears it.
ClearRadar ==
    /\ recorder.at = "read"
    /\ radarFile' = << >>
    /\ recorder' = [recorder EXCEPT !.at = "tick"]
    /\ UNCHANGED <<seenFile, memory, recorded, deaths, announced, excused>>

TickRecorded ==
    /\ recorder.at = "tick"
    /\ recorded' = recorded \cup recorder.mints
    /\ recorder' = [at |-> "idle", mints |-> {}]
    /\ UNCHANGED <<seenFile, radarFile, memory, deaths, announced, excused>>

\* The file cannot be cleared, or anything later in the tick throws, or the
\* recorder dies.
TickFails ==
    /\ recorder.at # "idle"
    /\ excused' = IF recorder.at = "tick" THEN excused \cup recorder.mints ELSE excused
    /\ recorder' = [at |-> "idle", mints |-> {}]
    /\ UNCHANGED <<seenFile, radarFile, memory, recorded, deaths, announced>>

-----------------------------------------------------------------------------
AnyAnswer == \E i \in DOMAIN polls : PollAnswered(i)

RadarNext ==
    \/ \E m \in Mints : extractMint(m)
    \/ StartPoll \/ AnyAnswer \/ (\E i \in DOMAIN polls : PollFails(i)) \/ RadarDies
    \/ ReadRadar \/ ClearRadar \/ TickRecorded \/ TickFails

\* The poll is on an interval timer, and the market answers now and then however
\* often it fails; nothing is asked of the recorder or the chain.
RadarSpec == RadarInit /\ [][RadarNext]_radarVars /\ WF_radarVars(StartPoll) /\ SF_radarVars(AnyAnswer)

-----------------------------------------------------------------------------
\* "Seen cache across restarts" (radar.js:29): however polls, failures and deaths
\* interleave, no mint is written to radar.txt twice, so that the gate is paid for
\* once.
AnnouncedAtMostOnce == Len(announced) = Cardinality(ToSet(announced))

\* "so the queue never clogs" (radar.js:130): every queued mint leaves the queue, one
\* way or the other, whatever share of the polls throws.
QueueDrains == \A m \in Mints : m \in Queued ~> m \notin Queued

\* What the hand-over through the file loses is what it must: a mint that was
\* announced is in the file, in the recorder's hands or recorded, unless it was
\* appended between the read and the clearing, or the tick that held it failed.
LossesAreKnown ==
    ToSet(announced) \ (ToSet(radarFile) \cup recorder.mints \cup recorded) \subseteq excused
=============================================================================
