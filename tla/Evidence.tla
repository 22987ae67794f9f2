------------------------------ MODULE Evidence -------------------------------
(***************************************************************************)
(* The recorded dataset: scripts/record.js appends snapshots and, now and  *)
(* then, runs a labelling pass over them (src/evidence/labeller.js);       *)
(* scripts/label.js runs the same pass from the command line, in another   *)
(* process, at any time and with the default thresholds; the bot reads the *)
(* newest snapshot (src/evidence/tail.js).                                 *)
(*                                                                         *)
(* The files of a directory are read in the order of their days.  A write  *)
(* that is cut short leaves a piece of its record, without a newline: what *)
(* is appended next is glued to it, and the reader skips both.  The facts  *)
(* in a snapshot and the training that follows a pass are left out.        *)
(***************************************************************************)
EXTENDS Naturals, Sequences

CONSTANTS
    Mints,
    MinAge,         \* LABELS.minAgeHoursBeforeLabelling
    RelabelAfter,   \* LABELS.relabelAfterHours
    LabelEvery,     \* LABELS.autoLabelEveryMinutes
    Interval,       \* pause between two ticks of the recorder
    TicksPerDay,
    MaxTime, MaxRuns, MaxCrashes   \* bounds: clock, runs of label.js, crashes

ASSUME EvidenceAssumption ==
    /\ MinAge \in Nat /\ LabelEvery \in Nat \ {0} /\ Interval \in Nat
    /\ RelabelAfter \in Nat \ {0} /\ TicksPerDay \in Nat \ {0}
    /\ MaxTime \in Nat /\ MaxRuns \in Nat /\ MaxCrashes \in Nat

VARIABLES
    now,
    files,        \* files[d]: the lines of day d
    torn,         \* days whose file does not end in a newline
    recorder,     \* at: "sleep" until t, at "collect" or "label" of the tick that
                  \* began at t, or "down"
    labelDueAt,   \* lastLabelAt + labelEveryMs
    pass,         \* pass[p]: the labelling pass of process p
    runs, crashes,
    contested     \* history: mints that two passes had due at the same time

evidenceVars == <<now, files, torn, recorder, labelDueAt, pass, runs, crashes, contested>>

Processes == {"recorder", "label"}
Days == 0..(MaxTime \div TicksPerDay)
dayFile(ts) == ts \div TicksPerDay

-----------------------------------------------------------------------------
(* Lines: what a snapshot shows, what a label record says of each mint.    *)

Snapshot(ts, seen) == [type |-> "snapshot", ts |-> ts, of |-> [m \in seen |-> "candidate"]]
Labels(ts, labels) == [type |-> "labels", ts |-> ts, of |-> labels]
Malformed == [type |-> "malformed", ts |-> 0, of |-> << >>]

\* One append of one line: after a torn one it only makes that piece longer.
Appended(d, line) ==
    /\ torn' = torn \ {d}
    /\ files' = IF d \in torn THEN files ELSE [files EXCEPT ![d] = Append(@, line)]

\* The process dies inside the append.
CutShort(d) ==
    /\ torn' = torn \cup {d}
    /\ files' = IF d \in torn THEN files ELSE [files EXCEPT ![d] = Append(@, Malformed)]

DiskUnchanged == UNCHANGED <<files, torn>>

-----------------------------------------------------------------------------
(* Reading: readDataset, latestSnapshot.                                   *)

Places == UNION {{<<d, i>> : i \in DOMAIN files[d]} : d \in Days}
LineAt(p) == files[p[1]][p[2]]
Precedes(p, q) == p[1] < q[1] \/ (p[1] = q[1] /\ p[2] < q[2])

Records(type, m) == {p \in Places : LineAt(p).type = type /\ m \in DOMAIN LineAt(p).of}
Sightings(m) == Records("snapshot", m)
Labelings(m) == Records("labels", m)

\* Mutant of recordedTs: the last observation wins.
lastRecordedTs(m) ==
    LET sightings == Sightings(m)
    IN LineAt(CHOOSE p \in sightings : \A q \in sightings \ {p} : Precedes(q, p)).ts

\* First observation wins.
recordedTs(m) ==
    LET sightings == Sightings(m)
    IN LineAt(CHOOSE p \in sightings : \A q \in sightings \ {p} : Precedes(p, q)).ts

\* The label that counts: the latest by its time, and of equals the last one read.
Supersedes(p, q) ==
    \/ LineAt(p).ts > LineAt(q).ts
    \/ LineAt(p).ts = LineAt(q).ts /\ (p = q \/ Precedes(q, p))

Latest(m) == LET labelings == Labelings(m)
             IN {p \in labelings : \A q \in labelings : Supersedes(p, q)}

Outcome(p, m) == LineAt(p).of[m].outcome

\* Mutant of shouldRelabel: the cooldown is all there is.
relabelAnything(m, ts) == \A p \in Latest(m) : ts >= LineAt(p).ts + RelabelAfter

\* Never labelled, or labelled long enough ago; rugged is terminal.
shouldRelabel(m, ts) ==
    \A p \in Latest(m) :
        Outcome(p, m) # "rugged" /\ ts >= LineAt(p).ts + RelabelAfter

Due(ts) == {m \in Mints : Sightings(m) # {} /\ shouldRelabel(m, ts)}

\* What the files of the newest day that has a snapshot end with, labels and
\* malformed lines skipped.
SnapshotsOn(d) == {i \in DOMAIN files[d] : files[d][i].type = "snapshot"}
SnapshotDays == {d \in Days : SnapshotsOn(d) # {}}

\* Mutant of newestDay: the files are walked from the oldest.
oldestDay == CHOOSE d \in SnapshotDays : \A e \in SnapshotDays : d <= e

newestDay == CHOOSE d \in SnapshotDays : \A e \in SnapshotDays : e <= d

latestSnapshot ==
    LET i == CHOOSE i \in SnapshotsOn(newestDay) : \A j \in SnapshotsOn(newestDay) : j <= i
    IN files[newestDay][i]

-----------------------------------------------------------------------------
(* decideOutcome.  The source answers that a pair is gone, that it has     *)
(* collapsed, that it is alive, or what concludes nothing: no depth to     *)
(* read now, or nothing recorded to compare it with.                       *)

Answers == {"none", "inconclusive", "collapsed", "alive"}

tooEarly(observedTs, ts) == ts < observedTs + MinAge

decideOutcome(observedTs, answer, ts, apiHealthy) ==
    IF tooEarly(observedTs, ts) THEN "too_early"
    ELSE CASE answer = "none" -> IF apiHealthy THEN "rugged" ELSE "unknown"
           [] answer = "inconclusive" -> "unknown"
           [] answer = "collapsed" -> "rugged"
           [] answer = "alive" -> "survived"

-----------------------------------------------------------------------------
NoPass == [stage |-> "none", ts |-> 0, due |-> << >>]
PassAt(ts) == [stage |-> "read", ts |-> ts, due |-> << >>]

Init ==
    /\ now = 0 /\ files = [d \in Days |-> << >>] /\ torn = {}
    /\ recorder = [at |-> "sleep", t |-> 0] /\ labelDueAt = 0
    /\ pass = [p \in Processes |-> NoPass]
    /\ runs = 0 /\ crashes = 0 /\ contested = {}

\* The recorder's loop comes round: screening and gating take their time.
StartTick ==
    /\ recorder.at = "sleep" /\ now >= recorder.t
    /\ recorder' = [at |-> "collect", t |-> now]
    /\ UNCHANGED <<now, files, torn, labelDueAt, pass, runs, crashes, contested>>

\* The end of a tick: a labelling pass with its ts if one is due, or the sleep.
Maintain ==
    /\ IF recorder.t >= labelDueAt
       THEN /\ labelDueAt' = recorder.t + LabelEvery
            /\ pass' = [pass EXCEPT !["recorder"] = PassAt(recorder.t)]
            /\ recorder' = [at |-> "label", t |-> recorder.t]
       ELSE /\ recorder' = [at |-> "sleep", t |-> now + Interval]
            /\ UNCHANGED <<labelDueAt, pass>>
    /\ UNCHANGED <<now, runs, crashes, contested>>

\* The snapshot is appended to the file of the day the tick began.
Record ==
    /\ recorder.at = "collect"
    /\ \E seen \in SUBSET Mints : Appended(dayFile(recorder.t), Snapshot(recorder.t, seen))
    /\ Maintain

\* A failed tick never kills the recorder.
TickFails == recorder.at = "collect" /\ DiskUnchanged /\ Maintain

\* npm run label.
RunLabel ==
    /\ pass["label"].stage = "none" /\ runs < MaxRuns
    /\ pass' = [pass EXCEPT !["label"] = PassAt(now)]
    /\ runs' = runs + 1
    /\ UNCHANGED <<now, files, torn, recorder, labelDueAt, crashes, contested>>

\* The recorder goes to sleep after its pass.
Resumed(p) == IF p = "recorder" THEN [at |-> "sleep", t |-> now + Interval] ELSE recorder

\* The pass of p is over.
Leave(p) ==
    /\ pass' = [pass EXCEPT ![p] = NoPass]
    /\ recorder' = Resumed(p)
    /\ UNCHANGED <<now, labelDueAt, runs, crashes>>

NothingDue(p) ==
    /\ pass[p].stage = "read" /\ Due(pass[p].ts) = {}
    /\ Leave(p) /\ DiskUnchanged /\ UNCHANGED contested

\* The whole dataset is read, and the source asked about what is due.
AskSource(p) ==
    /\ pass[p].stage = "read"
    /\ LET due == Due(pass[p].ts)
           others == UNION {DOMAIN pass[q].due : q \in Processes \ {p}}
       IN /\ due # {}
          /\ pass' = [pass EXCEPT ![p] = [stage |-> "ask", ts |-> pass[p].ts,
                                          due |-> [m \in due |-> recordedTs(m)]]]
          /\ contested' = contested \cup (due \cap others)
    /\ DiskUnchanged
    /\ UNCHANGED <<now, recorder, labelDueAt, runs, crashes>>

\* The source answers; what is conclusive is appended, in one line.
Label(p) ==
    /\ pass[p].stage = "ask"
    /\ \E answer \in [DOMAIN pass[p].due -> Answers] :
          LET due == pass[p].due
              healthy == \E m \in DOMAIN due : answer[m] # "none"
              decided == [m \in DOMAIN due |->
                            decideOutcome(due[m], answer[m], pass[p].ts, healthy)]
              writable == {m \in DOMAIN due : decided[m] \in {"rugged", "survived"}}
          IN IF writable = {}
             THEN DiskUnchanged
             ELSE Appended(dayFile(pass[p].ts),
                           Labels(pass[p].ts,
                                  [m \in writable |-> [outcome |-> decided[m],
                                                       observedTs |-> due[m]]]))
    /\ Leave(p) /\ UNCHANGED contested

\* The source cannot be reached, or the append throws: nothing is labelled.
LabelNothing(p) ==
    /\ pass[p].stage = "ask"
    /\ Leave(p) /\ DiskUnchanged /\ UNCHANGED contested

\* A process dies between two steps, or inside an append.
Die(p) ==
    /\ crashes < MaxCrashes
    /\ IF p = "recorder" THEN recorder.at # "down" ELSE pass[p].stage # "none"
    /\ \/ DiskUnchanged
       \/ pass[p].stage = "ask" /\ CutShort(dayFile(pass[p].ts))
       \/ p = "recorder" /\ recorder.at = "collect" /\ CutShort(dayFile(recorder.t))
    /\ pass' = [pass EXCEPT ![p] = NoPass]
    /\ recorder' = IF p = "recorder" THEN [at |-> "down", t |-> 0] ELSE recorder
    /\ labelDueAt' = IF p = "recorder" THEN 0 ELSE labelDueAt
    /\ crashes' = crashes + 1
    /\ UNCHANGED <<now, runs, contested>>

\* The recorder is started again: lastLabelAt is 0, there may be catching up to do.
Restart ==
    /\ recorder.at = "down"
    /\ recorder' = [at |-> "sleep", t |-> now]
    /\ UNCHANGED <<now, files, torn, labelDueAt, pass, runs, crashes, contested>>

PassTime ==
    /\ now < MaxTime
    /\ now' = now + 1
    /\ UNCHANGED <<files, torn, recorder, labelDueAt, pass, runs, crashes, contested>>

Next ==
    \/ StartTick \/ Record \/ TickFails \/ Restart
    \/ RunLabel
    \/ \E p \in Processes : NothingDue(p) \/ AskSource(p) \/ Label(p) \/ LabelNothing(p) \/ Die(p)
    \/ PassTime

Spec == Init /\ [][Next]_evidenceVars

-----------------------------------------------------------------------------
\* "FIRST observation wins: that is the decision the filter would have traded on"
\* (labeller.js:67), and nothing is judged before its time (config.js:411): every
\* label on disk measures its mint from the first sight of it the disk holds now,
\* at least MinAge later, whatever has been appended or torn since it was decided.
LabelsMeasureFirstSight ==
    \A m \in Mints :
        LET first == recordedTs(m)
        IN \A p \in Labelings(m) :
              /\ Sightings(m) # {} /\ LineAt(p).of[m].observedTs = first
              /\ LineAt(p).ts >= first + MinAge

FollowedBy(p, q, m) ==
    Outcome(p, m) # "rugged" /\ LineAt(q).ts >= LineAt(p).ts + RelabelAfter

\* "`rugged` is terminal" (outcome.js:170) and "re-label a mint at most this often"
\* (config.js:422), across crashes, restarts and passes of both processes: as long
\* as no two overlapping passes had a mint due, a label of it is never followed by
\* another within the cooldown, and one that says rugged is never followed at all.
LabelsAreSpaced ==
    \A m \in Mints \ contested : \A p, q \in Labelings(m) :
        \/ p = q
        \/ FollowedBy(p, q, m)
        \/ FollowedBy(q, p, m)

\* The bot trades on the newest snapshot and judges the recorder's health by its
\* age: what it reads is never older than any snapshot on disk, across day
\* boundaries, crashes, and late labels appended to the file of an earlier day.
NewestSnapshotIsRead ==
    LET read == latestSnapshot
    IN \A d \in Days : \A i \in SnapshotsOn(d) : files[d][i].ts <= read.ts
=============================================================================
