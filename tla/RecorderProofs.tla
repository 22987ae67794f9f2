---------------------------- MODULE RecorderProofs ----------------------------
(***************************************************************************)
(* Theorems of Evidence and of Handover.                                   *)
(*                                                                         *)
(* Evidence, for any number of mints, days, crashes, and passes of the two *)
(* processes: a rugged label is final and labels keep their distance, as   *)
(* long as no two overlapping passes had the mint due; a label measures    *)
(* from the first sight of its mint; the snapshot that is read is the      *)
(* newest.                                                                 *)
(*                                                                         *)
(* Handover, for any market, gate and survival model, any number of mints, *)
(* any profile of the universe and of momentum, and any interleaving of    *)
(* the recorder's tick with the bot's cycle.  What an entry rests on is    *)
(* carried along its way: the screened rows were eligible (RowsScreened),  *)
(* so were the candidates of the snapshot on disk (LineMade) and of the    *)
(* one a cycle holds, which was in date when it was read (CycleMade), and  *)
(* what was fetched is the market's (FreshFromMarket).                     *)
(***************************************************************************)
EXTENDS Evidence, Handover, SequenceTheorems, TLAPS

\* Files are sequences of lines, and lines have a time.
DiskShape ==
    /\ files = [d \in Days |-> files[d]]
    /\ \A d \in Days : \E S : files[d] \in Seq(S)
    /\ \A p \in Places : LineAt(p).ts \in Nat

PassShape ==
    /\ now \in Nat /\ recorder.t \in Nat
    /\ DOMAIN pass = Processes
    /\ \A p \in Processes : pass[p].ts \in Nat /\ DOMAIN pass[p].due \subseteq Mints

\* What two passes have due at the same time is contested.
Overlaps ==
    \A p, q \in Processes :
        p # q => DOMAIN pass[p].due \cap DOMAIN pass[q].due \subseteq contested

\* A pass that asks about a mint may follow every label on disk of that mint.
MayFollow(m, ts) ==
    \A q \in Labelings(m) : Outcome(q, m) # "rugged" /\ ts >= LineAt(q).ts + RelabelAfter

PassesMayFollow ==
    \A p \in Processes : \A m \in DOMAIN pass[p].due \ contested : MayFollow(m, pass[p].ts)

HasLatest == \A m \in Mints \ contested : Labelings(m) # {} => Latest(m) # {}

EvidenceInv ==
    /\ DiskShape /\ PassShape /\ Overlaps
    /\ PassesMayFollow /\ HasLatest /\ LabelsAreSpaced

-----------------------------------------------------------------------------
(* What a step may do to the labels on disk.                               *)

LabelsKept ==
    \A m \in Mints : /\ Labelings(m)' = Labelings(m)
                     /\ \A p \in Labelings(m) : LineAt(p)' = LineAt(p)

LabelsGrow(new, ts, labels) ==
    \A m \in Mints :
        /\ \A p \in Labelings(m) : LineAt(p)' = LineAt(p)
        /\ IF m \in DOMAIN labels
           THEN /\ Labelings(m)' = Labelings(m) \cup {new}
                /\ LineAt(new)' = Labels(ts, labels)
           ELSE Labelings(m)' = Labelings(m)

LEMMA AppendToFile ==
    ASSUME NEW f, \E S : f \in Seq(S), NEW text
    PROVE  /\ \E S : Append(f, text) \in Seq(S)
           /\ DOMAIN f = 1..Len(f) /\ Len(f) \in Nat
           /\ DOMAIN Append(f, text) = DOMAIN f \cup {Len(f) + 1}
           /\ \A i \in DOMAIN f : Append(f, text)[i] = f[i]
           /\ Append(f, text)[Len(f) + 1] = text
<1>1. PICK S : f \in Seq(S)
    OBVIOUS
<1> DEFINE T == S \cup {text}
<1>2. f \in Seq(T) /\ text \in T
    BY <1>1, SeqMonotonic
<1> HIDE DEF T
<1>3. /\ Append(f, text) \in Seq(T)
      /\ Len(Append(f, text)) = Len(f) + 1
      /\ \A i \in 1..Len(f) : Append(f, text)[i] = f[i]
      /\ Append(f, text)[Len(f) + 1] = text
    BY <1>2, AppendProperties
<1>4. /\ DOMAIN f = 1..Len(f) /\ Len(f) \in Nat
      /\ DOMAIN Append(f, text) = 1..Len(Append(f, text))
    BY <1>2, <1>3, LenProperties
<1>5. 1..Len(f) + 1 = (1..Len(f)) \cup {Len(f) + 1}
    BY <1>4
<1>. QED  BY <1>3, <1>4, <1>5

\* Appending one line adds one place and changes no other.
LEMMA AppendAddsPlace ==
    ASSUME DiskShape, NEW d \in Days, NEW text, text.ts \in Nat,
           files' = [files EXCEPT ![d] = Append(@, text)]
    PROVE  /\ DiskShape'
           /\ \E new : /\ new \notin Places /\ Places' = Places \cup {new}
                       /\ LineAt(new)' = text
                       /\ \A p \in Places : LineAt(p)' = LineAt(p)
                       /\ new[1] = d /\ new[2] \in Nat
                       /\ \A p \in Places : p[1] = d => p[2] < new[2]
<1> DEFINE n == Len(files[d]) + 1
           new == <<d, n>>
<1>1. /\ \E S : Append(files[d], text) \in Seq(S)
      /\ DOMAIN files[d] = 1..Len(files[d]) /\ Len(files[d]) \in Nat
      /\ DOMAIN Append(files[d], text) = DOMAIN files[d] \cup {n}
      /\ \A i \in DOMAIN files[d] : Append(files[d], text)[i] = files[d][i]
      /\ Append(files[d], text)[n] = text
    BY AppendToFile DEF DiskShape
<1>2. /\ files' = [e \in Days |-> files'[e]] /\ files'[d] = Append(files[d], text)
      /\ \A e \in Days \ {d} : files'[e] = files[e]
    BY DEF DiskShape
<1>3. /\ n \notin DOMAIN files[d] /\ n \in Nat
      /\ \A i \in DOMAIN files[d] : i < n
    BY <1>1
<1> HIDE DEF n
<1>4. Places' = Places \cup {new}
    <2>1. ASSUME NEW e \in Days, NEW i \in DOMAIN files'[e]
          PROVE  <<e, i>> \in Places \cup {new}
        <3>1. CASE e = d
            <4>1. i \in DOMAIN files[d] \/ i = n
                BY <1>1, <1>2, <2>1, <3>1
            <4>. QED  BY <3>1, <4>1 DEF Places
        <3>2. CASE e # d
            BY <1>2, <2>1, <3>2 DEF Places
        <3>. QED  BY <3>1, <3>2
    <2>2. ASSUME NEW e \in Days, NEW i \in DOMAIN files[e]
          PROVE  i \in DOMAIN files'[e]
        BY <1>1, <1>2, <2>2
    <2>3. n \in DOMAIN files'[d]
        BY <1>1, <1>2
    <2>. QED  BY <2>1, <2>2, <2>3 DEF Places
<1>5. new \notin Places
    BY <1>3 DEF Places
<1>6. files'[d][n] = text
    BY <1>1, <1>2
<1>7. \A p \in Places : files'[p[1]][p[2]] = files[p[1]][p[2]]
    <2> SUFFICES ASSUME NEW e \in Days, NEW i \in DOMAIN files[e]
                 PROVE  files'[e][i] = files[e][i]
        BY DEF Places
    <2>. QED  BY <1>1, <1>2
<1>8. \A e \in Days : \E S : files'[e] \in Seq(S)
    BY <1>1, <1>2 DEF DiskShape
<1>9. \A p \in Places' : files'[p[1]][p[2]].ts \in Nat
    <2>1. \A p \in Places : files[p[1]][p[2]].ts \in Nat
        BY DEF DiskShape, LineAt
    <2>2. new[1] = d /\ new[2] = n
        OBVIOUS
    <2>. QED  BY <1>4, <1>6, <1>7, <2>1, <2>2
<1>10. DiskShape'
    BY <1>2, <1>8, <1>9 DEF DiskShape, LineAt
<1>11. \E x : /\ x \notin Places /\ Places' = Places \cup {x}
              /\ files'[x[1]][x[2]] = text
              /\ x[1] = d /\ x[2] \in Nat
              /\ \A p \in Places : p[1] = d => p[2] < x[2]
    <2>1. new[1] = d /\ new[2] = n
        OBVIOUS
    <2>2. \A p \in Places : p[1] = d => p[2] < n
        <3> SUFFICES ASSUME NEW e \in Days, NEW i \in DOMAIN files[e], e = d
                     PROVE  i < n
            BY DEF Places
        <3>. QED  BY <1>3
    <2> HIDE DEF new
    <2>. QED  BY <1>3, <1>4, <1>5, <1>6, <2>1, <2>2
<1>. QED  BY <1>7, <1>10, <1>11 DEF LineAt

LEMMA SameDiskKeepsLabels ==
    ASSUME DiskShape, files' = files
    PROVE  DiskShape' /\ LabelsKept
    BY DEF DiskShape, LabelsKept, Labelings, Records, Places, LineAt

\* A line that is no label leaves the labels as they are.
LEMMA OtherLineKeepsLabels ==
    ASSUME DiskShape, NEW d, NEW text, text.ts \in Nat, text.type # "labels",
           files' = [files EXCEPT ![d] = Append(@, text)]
    PROVE  DiskShape' /\ LabelsKept
<1>1. CASE d \in Days
    <2>1. DiskShape'
        BY <1>1, AppendAddsPlace
    <2>2. PICK new : /\ Places' = Places \cup {new}
                     /\ LineAt(new)' = text
                     /\ \A p \in Places : LineAt(p)' = LineAt(p)
        BY <1>1, AppendAddsPlace
    <2>. QED  BY <2>1, <2>2 DEF LabelsKept, Labelings, Records
<1>2. CASE d \notin Days
    <2>1. files' = files
        BY <1>2 DEF DiskShape
    <2>. QED  BY <2>1, SameDiskKeepsLabels
<1>. QED  BY <1>1, <1>2

LEMMA LabelLineGrowsLabels ==
    ASSUME DiskShape, NEW d, NEW ts \in Nat, NEW labels, Appended(d, Labels(ts, labels))
    PROVE  DiskShape' /\ (LabelsKept \/ \E new : LabelsGrow(new, ts, labels))
<1> DEFINE text == Labels(ts, labels)
<1>1. CASE files' = files
    BY <1>1, SameDiskKeepsLabels
<1>2. CASE files' # files
    <2>1. files' = [files EXCEPT ![d] = Append(@, text)]
        BY <1>2 DEF Appended
    <2>2. d \in Days
        BY <1>2, <2>1 DEF DiskShape
    <2>3. text.ts \in Nat /\ text.type = "labels" /\ text.of = labels
        BY DEF Labels
    <2> HIDE DEF text
    <2>4. DiskShape'
        BY <2>1, <2>2, <2>3, AppendAddsPlace
    <2>5. PICK new : /\ Places' = Places \cup {new} /\ new \notin Places
                     /\ LineAt(new)' = text
                     /\ \A p \in Places : LineAt(p)' = LineAt(p)
        BY <2>1, <2>2, <2>3, AppendAddsPlace
    <2>6. ASSUME NEW m \in Mints
          PROVE  /\ \A p \in Labelings(m) : LineAt(p)' = LineAt(p)
                 /\ Labelings(m)' = IF m \in DOMAIN labels THEN Labelings(m) \cup {new}
                                                           ELSE Labelings(m)
        BY <2>3, <2>5 DEF Labelings, Records
    <2>7. LabelsGrow(new, ts, labels)
        BY <2>5, <2>6 DEF LabelsGrow, text
    <2>. QED  BY <2>4, <2>7
<1>. QED  BY <1>1, <1>2

-----------------------------------------------------------------------------
(* Steps.                                                                  *)

\* A pass ends, begins or goes on.
PassesQuiet ==
    \A p \in Processes : pass'[p] = pass[p] \/ DOMAIN pass'[p].due = {}

\* A step that writes no label and gives no pass anything to ask.
LEMMA QuietStep ==
    ASSUME EvidenceInv, LabelsKept, DiskShape', PassShape', PassesQuiet, contested' = contested
    PROVE  EvidenceInv'
<1>1. Overlaps'
    BY DEF EvidenceInv, Overlaps, PassesQuiet
<1>2. \A m \in Mints : \A p, q \in Labelings(m) :
         /\ Outcome(p, m)' = Outcome(p, m) /\ FollowedBy(p, q, m)' = FollowedBy(p, q, m)
         /\ Supersedes(p, q)' = Supersedes(p, q)
    BY DEF LabelsKept, Outcome, FollowedBy, Supersedes
<1>3. PassesMayFollow'
    <2> SUFFICES ASSUME NEW p \in Processes, NEW m \in DOMAIN pass'[p].due \ contested
                 PROVE  MayFollow(m, pass[p].ts)'
        BY DEF PassesMayFollow
    <2>1. pass'[p] = pass[p] /\ m \in Mints
        BY DEF PassesQuiet, EvidenceInv, PassShape
    <2>2. MayFollow(m, pass[p].ts)
        BY <2>1 DEF EvidenceInv, PassesMayFollow
    <2>. QED  BY <1>2, <2>1, <2>2 DEF MayFollow, LabelsKept
<1>4. HasLatest'
    <2> SUFFICES ASSUME NEW m \in Mints \ contested, Labelings(m)' # {}
                 PROVE  Latest(m)' # {}
        BY DEF HasLatest
    <2>1. Labelings(m)' = Labelings(m)
        BY DEF LabelsKept
    <2>2. PICK l \in Labelings(m) : \A q \in Labelings(m) : Supersedes(l, q)
        BY <2>1 DEF EvidenceInv, HasLatest, Latest
    <2>3. l \in Latest(m)'
        BY <1>2, <2>1, <2>2 DEF Latest
    <2>. QED  BY <2>3
<1>5. LabelsAreSpaced'
    BY <1>2 DEF EvidenceInv, LabelsAreSpaced, LabelsKept
<1>. QED  BY <1>1, <1>3, <1>4, <1>5 DEF EvidenceInv

\* What is due and not contested may follow all its labels: the latest of them is
\* no rug and is old enough, and the others come before it.
LEMMA DueMayFollow ==
    ASSUME EvidenceInv, NEW ts \in Nat, NEW m \in Due(ts) \ contested
    PROVE  MayFollow(m, ts)
<1> USE EvidenceAssumption
<1>1. m \in Mints /\ shouldRelabel(m, ts)
    BY DEF Due
<1>2. SUFFICES ASSUME NEW q \in Labelings(m)
               PROVE  Outcome(q, m) # "rugged" /\ ts >= LineAt(q).ts + RelabelAfter
    BY DEF MayFollow
<1>3. PICK l \in Labelings(m) : l \in Latest(m) /\ Supersedes(l, q)
    BY <1>1, <1>2 DEF EvidenceInv, HasLatest, Latest
<1>4. LineAt(l).ts \in Nat /\ LineAt(q).ts \in Nat
    BY <1>2, <1>3 DEF EvidenceInv, DiskShape, Labelings, Records
<1>5. Outcome(l, m) # "rugged" /\ ts >= LineAt(l).ts + RelabelAfter
    BY <1>1, <1>3 DEF shouldRelabel
<1>6. CASE q = l
    BY <1>5, <1>6
<1>7. CASE q # l
    <2>1. LineAt(l).ts >= LineAt(q).ts
        BY <1>3, <1>4 DEF Supersedes
    <2>2. FollowedBy(q, l, m) \/ FollowedBy(l, q, m)
        BY <1>1, <1>2, <1>3, <1>7 DEF EvidenceInv, LabelsAreSpaced
    <2>3. FollowedBy(q, l, m)
        BY <1>4, <2>1, <2>2 DEF FollowedBy
    <2>. QED  BY <1>4, <1>5, <2>3 DEF FollowedBy
<1>. QED  BY <1>6, <1>7

LEMMA AskStep ==
    ASSUME EvidenceInv, NEW p \in Processes, AskSource(p)
    PROVE  EvidenceInv'
<1> DEFINE ts == pass[p].ts
           due == Due(ts)
           others == UNION {DOMAIN pass[q].due : q \in Processes \ {p}}
<1>1. ts \in Nat /\ due \subseteq Mints /\ DOMAIN pass = Processes
    BY DEF EvidenceInv, PassShape, Due
<1>2. /\ files' = files /\ contested' = contested \cup (due \cap others)
      /\ now' = now /\ recorder' = recorder
      /\ DOMAIN pass' = Processes
      /\ \A q \in Processes \ {p} : pass'[q] = pass[q]
      /\ pass'[p].ts = ts /\ DOMAIN pass'[p].due = due
    BY <1>1 DEF AskSource, DiskUnchanged
<1>3. DiskShape' /\ LabelsKept
    BY <1>2, SameDiskKeepsLabels DEF EvidenceInv
<1>4. PassShape'
    BY <1>1, <1>2 DEF EvidenceInv, PassShape
<1>5. Overlaps'
    BY <1>2 DEF EvidenceInv, Overlaps
<1>6. \A m \in due \ contested : MayFollow(m, ts)
    BY <1>1, DueMayFollow
<1> HIDE DEF due, others
<1>7. PassesMayFollow'
    <2> SUFFICES ASSUME NEW q \in Processes, NEW m \in DOMAIN pass'[q].due \ contested'
                 PROVE  MayFollow(m, pass[q].ts)'
        BY DEF PassesMayFollow
    <2>1. MayFollow(m, pass[q].ts)
        <3>1. CASE q = p
            BY <1>2, <1>6, <3>1
        <3>2. CASE q # p
            BY <1>2, <3>2 DEF EvidenceInv, PassesMayFollow
        <3>. QED  BY <3>1, <3>2
    <2>2. pass'[q].ts = pass[q].ts
        BY <1>2
    <2>. QED  BY <1>2, <2>1, <2>2 DEF MayFollow, Labelings, Records, Places, LineAt, Outcome
<1>8. contested \subseteq contested'
    BY <1>2
<1>9. HasLatest'
    BY <1>2, <1>8 DEF EvidenceInv, HasLatest, Latest, Supersedes, Labelings, Records, Places, LineAt
<1>10. LabelsAreSpaced'
    BY <1>2, <1>8
    DEF EvidenceInv, LabelsAreSpaced, FollowedBy, Outcome, Labelings, Records, Places, LineAt
<1>. QED  BY <1>3, <1>4, <1>5, <1>7, <1>9, <1>10 DEF EvidenceInv

\* A label line follows all the labels of its mints, unless they are contested.
LEMMA LabelStep ==
    ASSUME EvidenceInv, NEW p \in Processes, Label(p)
    PROVE  EvidenceInv'
<1> USE EvidenceAssumption
<1> DEFINE ts == pass[p].ts
<1>1. /\ ts \in Nat /\ DOMAIN pass = Processes /\ DOMAIN pass[p].due \subseteq Mints
      /\ now \in Nat /\ recorder.t \in Nat
    BY DEF EvidenceInv, PassShape
<1>2. /\ contested' = contested /\ now' = now
      /\ pass' = [pass EXCEPT ![p] = NoPass]
      /\ recorder' = Resumed(p)
    BY DEF Label, Leave
<1>3. /\ DOMAIN pass' = Processes /\ pass'[p] = NoPass
      /\ \A q \in Processes \ {p} : pass'[q] = pass[q]
    BY <1>1, <1>2
<1>4. NoPass.ts = 0 /\ DOMAIN NoPass.due = {}
    BY DEF NoPass
<1>5. PassesQuiet
    BY <1>3, <1>4 DEF PassesQuiet
<1>6. recorder'.t \in Nat
    BY <1>1, <1>2 DEF Resumed
<1>7. PassShape'
    BY <1>2, <1>3, <1>4, <1>6 DEF EvidenceInv, PassShape
<1>8. \/ files' = files
      \/ \E labels : /\ DOMAIN labels \subseteq DOMAIN pass[p].due
                     /\ Appended(dayFile(ts), Labels(ts, labels))
    BY DEF Label, DiskUnchanged
<1>9. \/ DiskShape' /\ LabelsKept
      \/ \E labels : /\ DOMAIN labels \subseteq DOMAIN pass[p].due
                     /\ DiskShape' /\ \E new : LabelsGrow(new, ts, labels)
    BY <1>1, <1>8, SameDiskKeepsLabels, LabelLineGrowsLabels DEF EvidenceInv
<1>10. CASE DiskShape' /\ LabelsKept
    BY <1>2, <1>5, <1>7, <1>10, QuietStep
<1>11. ASSUME NEW labels, DOMAIN labels \subseteq DOMAIN pass[p].due,
              DiskShape', NEW new, LabelsGrow(new, ts, labels)
       PROVE  EvidenceInv'
    <2>1. ASSUME NEW m \in Mints
          PROVE  /\ \A q \in Labelings(m) : LineAt(q)' = LineAt(q)
                 /\ m \in DOMAIN labels => /\ Labelings(m)' = Labelings(m) \cup {new}
                                           /\ LineAt(new)' = Labels(ts, labels)
                 /\ m \notin DOMAIN labels => Labelings(m)' = Labelings(m)
        BY <1>11 DEF LabelsGrow
    <2>2. ASSUME NEW m \in Mints \ contested, m \in DOMAIN labels, NEW q \in Labelings(m)
          PROVE  Outcome(q, m) # "rugged" /\ ts >= LineAt(q).ts + RelabelAfter
        BY <1>11, <2>2 DEF EvidenceInv, PassesMayFollow, MayFollow
    <2>3. \A m \in Mints : \A q \in Labelings(m) : LineAt(q).ts \in Nat
        BY DEF EvidenceInv, DiskShape, Labelings, Records
    <2>4. Labels(ts, labels).ts = ts
        BY DEF Labels
    <2>5. Overlaps'
        BY <1>2, <1>5 DEF EvidenceInv, Overlaps, PassesQuiet
    <2>6. PassesMayFollow'
        <3> SUFFICES ASSUME NEW r \in Processes, NEW m \in DOMAIN pass'[r].due \ contested
                     PROVE  MayFollow(m, pass[r].ts)'
            BY <1>2 DEF PassesMayFollow
        <3>1. r # p /\ pass'[r] = pass[r] /\ m \in Mints
            BY <1>3, <1>4 DEF EvidenceInv, PassShape
        <3>2. m \notin DOMAIN labels
            BY <1>11, <3>1 DEF EvidenceInv, Overlaps
        <3>3. MayFollow(m, pass[r].ts)
            BY <3>1 DEF EvidenceInv, PassesMayFollow
        <3>. QED  BY <2>1, <3>1, <3>2, <3>3 DEF MayFollow, Outcome
    <2>7. HasLatest'
        <3> SUFFICES ASSUME NEW m \in Mints \ contested, Labelings(m)' # {}
                     PROVE  Latest(m)' # {}
            BY <1>2 DEF HasLatest
        <3>1. CASE m \in DOMAIN labels
            <4>1. \A q \in Labelings(m)' : Supersedes(new, q)'
                BY <1>1, <2>1, <2>2, <2>3, <2>4, <3>1 DEF Supersedes
            <4>2. new \in Labelings(m)'
                BY <2>1, <3>1
            <4>. QED  BY <4>1, <4>2 DEF Latest
        <3>2. CASE m \notin DOMAIN labels
            <4>1. PICK l \in Labelings(m) : \A q \in Labelings(m) : Supersedes(l, q)
                BY <2>1, <3>2 DEF EvidenceInv, HasLatest, Latest
            <4>2. \A q \in Labelings(m)' : Supersedes(l, q)'
                BY <2>1, <3>2, <4>1 DEF Supersedes
            <4>3. l \in Labelings(m)'
                BY <2>1, <3>2
            <4>. QED  BY <4>2, <4>3 DEF Latest
        <3>. QED  BY <3>1, <3>2
    <2>8. LabelsAreSpaced'
        <3> SUFFICES ASSUME NEW m \in Mints \ contested,
                            NEW q \in Labelings(m)', NEW r \in Labelings(m)', q # r
                     PROVE  FollowedBy(q, r, m)' \/ FollowedBy(r, q, m)'
            BY <1>2 DEF LabelsAreSpaced
        <3>1. CASE q \in Labelings(m) /\ r \in Labelings(m)
            <4>1. FollowedBy(q, r, m) \/ FollowedBy(r, q, m)
                BY <3>1 DEF EvidenceInv, LabelsAreSpaced
            <4>. QED  BY <2>1, <3>1, <4>1 DEF FollowedBy, Outcome
        <3>2. CASE m \in DOMAIN labels /\ q \in Labelings(m) /\ r = new
            BY <2>1, <2>2, <2>4, <3>2 DEF FollowedBy, Outcome
        <3>3. CASE m \in DOMAIN labels /\ r \in Labelings(m) /\ q = new
            BY <2>1, <2>2, <2>4, <3>3 DEF FollowedBy, Outcome
        <3>. QED  BY <2>1, <3>1, <3>2, <3>3
    <2>. QED  BY <1>7, <1>11, <2>5, <2>6, <2>7, <2>8 DEF EvidenceInv
<1>. QED  BY <1>9, <1>10, <1>11

\* The other steps write a snapshot, a piece of a line, or nothing.
LEMMA AppendSnapshotStep ==
    ASSUME EvidenceInv, NEW d, NEW ts \in Nat, NEW seen, Appended(d, Snapshot(ts, seen))
    PROVE  DiskShape' /\ LabelsKept
<1> DEFINE text == Snapshot(ts, seen)
<1>1. text.ts \in Nat /\ text.type # "labels"
    BY DEF Snapshot
<1> HIDE DEF text
<1>2. files' = files \/ files' = [files EXCEPT ![d] = Append(@, text)]
    BY DEF Appended, text
<1>. QED  BY <1>1, <1>2, SameDiskKeepsLabels, OtherLineKeepsLabels DEF EvidenceInv

LEMMA CutShortStep ==
    ASSUME EvidenceInv, NEW d, CutShort(d)
    PROVE  DiskShape' /\ LabelsKept
<1>1. Malformed.ts \in Nat /\ Malformed.type # "labels"
    BY DEF Malformed
<1>2. files' = files \/ files' = [files EXCEPT ![d] = Append(@, Malformed)]
    BY DEF CutShort
<1>. QED  BY <1>1, <1>2, SameDiskKeepsLabels, OtherLineKeepsLabels DEF EvidenceInv

LEMMA EvidenceInit == Init => EvidenceInv
<1> SUFFICES ASSUME Init
             PROVE  EvidenceInv
    OBVIOUS
<1>1. Places = {}
    BY DEF Init, Places
<1>2. DiskShape
    <2>1. \A d \in Days : files[d] \in Seq({})
        BY EmptySeq DEF Init
    <2>. QED  BY <1>1, <2>1 DEF Init, DiskShape
<1>3. PassShape /\ Overlaps /\ PassesMayFollow
    BY DEF Init, NoPass, PassShape, Overlaps, PassesMayFollow
<1>4. \A m \in Mints : Labelings(m) = {}
    BY <1>1 DEF Labelings, Records
<1>. QED  BY <1>2, <1>3, <1>4 DEF EvidenceInv, HasLatest, LabelsAreSpaced

LEMMA EvidenceStep ==
    ASSUME EvidenceInv, [Next]_evidenceVars
    PROVE  EvidenceInv'
<1> USE EvidenceAssumption
<1>1. /\ DiskShape /\ now \in Nat /\ recorder.t \in Nat
      /\ DOMAIN pass = Processes
      /\ \A p \in Processes : pass[p].ts \in Nat /\ DOMAIN pass[p].due \subseteq Mints
    BY DEF EvidenceInv, PassShape
<1>2. NoPass.ts \in Nat /\ DOMAIN NoPass.due = {}
    BY DEF NoPass
<1>3. \A ts : PassAt(ts).ts = ts /\ DOMAIN PassAt(ts).due = {}
    BY DEF PassAt
<1>4. files' = files => DiskShape' /\ LabelsKept
    BY <1>1, SameDiskKeepsLabels
<1>5. CASE StartTick
    <2>1. PassShape' /\ PassesQuiet
        BY <1>1, <1>5 DEF StartTick, PassShape, PassesQuiet
    <2>. QED  BY <1>4, <1>5, <2>1, QuietStep DEF StartTick
<1>6. ASSUME Maintain
      PROVE  PassShape' /\ PassesQuiet /\ contested' = contested
    <2>1. now' = now /\ contested' = contested
        BY <1>6 DEF Maintain
    <2>2. CASE recorder.t >= labelDueAt
        <3>1. /\ pass' = [pass EXCEPT !["recorder"] = PassAt(recorder.t)]
              /\ recorder' = [at |-> "label", t |-> recorder.t]
            BY <1>6, <2>2 DEF Maintain
        <3>2. recorder'.t = recorder.t
            BY <1>1, <3>1
        <3>3. PassesQuiet
            BY <1>1, <1>3, <3>1 DEF PassesQuiet
        <3>. QED  BY <1>1, <1>3, <2>1, <3>1, <3>2, <3>3 DEF PassShape
    <2>3. CASE ~ (recorder.t >= labelDueAt)
        <3>1. pass' = pass /\ recorder' = [at |-> "sleep", t |-> now + Interval]
            BY <1>6, <2>3 DEF Maintain
        <3>. QED  BY <1>1, <2>1, <3>1 DEF PassShape, PassesQuiet
    <2>. QED  BY <2>1, <2>2, <2>3
<1>7. CASE Record
    <2>1. DiskShape' /\ LabelsKept
        BY <1>1, <1>7, AppendSnapshotStep DEF Record
    <2>. QED  BY <1>6, <1>7, <2>1, QuietStep DEF Record
<1>8. CASE TickFails
    BY <1>4, <1>6, <1>8, QuietStep DEF TickFails, DiskUnchanged
<1>9. CASE Restart
    <2>1. PassShape' /\ PassesQuiet
        BY <1>1, <1>9 DEF Restart, PassShape, PassesQuiet
    <2>. QED  BY <1>4, <1>9, <2>1, QuietStep DEF Restart
<1>10. CASE RunLabel
    <2>1. PassShape' /\ PassesQuiet
        BY <1>1, <1>3, <1>10 DEF RunLabel, PassShape, PassesQuiet
    <2>. QED  BY <1>4, <1>10, <2>1, QuietStep DEF RunLabel
<1>11. ASSUME NEW p \in Processes, Leave(p)
       PROVE  PassShape' /\ PassesQuiet
    BY <1>1, <1>2, <1>11 DEF Leave, Resumed, PassShape, PassesQuiet
<1>12. ASSUME NEW p \in Processes, NothingDue(p) \/ LabelNothing(p)
       PROVE  EvidenceInv'
    <2>1. Leave(p) /\ files' = files /\ contested' = contested
        BY <1>12 DEF NothingDue, LabelNothing, DiskUnchanged
    <2>. QED  BY <1>4, <1>11, <2>1, QuietStep
<1>13. ASSUME NEW p \in Processes, Die(p)
       PROVE  EvidenceInv'
    <2>1. DiskShape' /\ LabelsKept
        BY <1>4, <1>13, CutShortStep DEF Die, DiskUnchanged
    <2>2. PassShape' /\ PassesQuiet
        BY <1>1, <1>2, <1>13 DEF Die, PassShape, PassesQuiet
    <2>. QED  BY <1>13, <2>1, <2>2, QuietStep DEF Die
<1>14. CASE PassTime
    <2>1. PassShape' /\ PassesQuiet
        BY <1>1, <1>14 DEF PassTime, PassShape, PassesQuiet
    <2>. QED  BY <1>4, <1>14, <2>1, QuietStep DEF PassTime
<1>15. CASE UNCHANGED evidenceVars
    <2>1. PassShape' /\ PassesQuiet
        BY <1>1, <1>15 DEF evidenceVars, PassShape, PassesQuiet
    <2>. QED  BY <1>4, <1>15, <2>1, QuietStep DEF evidenceVars
<1>. QED
    BY <1>5, <1>7, <1>8, <1>9, <1>10, <1>12, <1>13, <1>14, <1>15, AskStep, LabelStep DEF Next

\* However often processes die, tear their lines, overlap and catch up: a mint that
\* no two passes had due together is never labelled twice within the cooldown, nor
\* ever again once a label says rugged.
THEOREM LabelsSpaced == Spec => []LabelsAreSpaced
<1>1. EvidenceInv => LabelsAreSpaced
    BY DEF EvidenceInv
<1>. QED  BY <1>1, EvidenceInit, EvidenceStep, PTL DEF Spec

-----------------------------------------------------------------------------
(* Snapshots are appended in the order of their times, so the first one of *)
(* a mint stays its first, and the last one of all is the newest.          *)

Snaps == {p \in Places : LineAt(p).type = "snapshot"}

FirstSeen(m, s) == s \in Sightings(m) /\ \A q \in Sightings(m) \ {s} : Precedes(s, q)

IsNewest(l) ==
    l \in Snaps /\ \A q \in Snaps : LineAt(q).ts <= LineAt(l).ts /\ (q = l \/ Precedes(q, l))

\* A snapshot is in the file of its day and no newer than the tick that would
\* write the next one.
SnapsOK ==
    /\ recorder.at = "collect" =>
          recorder.t <= now /\ \A p \in Snaps : LineAt(p).ts <= recorder.t
    /\ \A p \in Snaps : LineAt(p).ts <= now /\ p[1] = dayFile(LineAt(p).ts)
    /\ Snaps # {} => \E l \in Snaps : IsNewest(l)
    /\ \A m \in Mints : Sightings(m) # {} => \E s \in Places : FirstSeen(m, s)

\* A label on disk, and a label about to be decided, measure from the first sight.
MeasuredOK ==
    /\ \A m \in Mints : \A p \in Labelings(m) : \E s \in Places :
          /\ FirstSeen(m, s) /\ LineAt(p).of[m].observedTs = LineAt(s).ts
          /\ LineAt(p).ts >= LineAt(s).ts + MinAge
    /\ \A p \in Processes : \A m \in DOMAIN pass[p].due : \E s \in Places :
          FirstSeen(m, s) /\ pass[p].due[m] = LineAt(s).ts

SightInv == SnapsOK /\ MeasuredOK

LEMMA DivMonotone ==
    ASSUME NEW a \in Nat, NEW b \in Nat, NEW k \in Nat \ {0}
    PROVE  /\ a \div k \in Nat /\ b \div k \in Nat
           /\ a <= b => a \div k <= b \div k
    OBVIOUS

LEMMA PlaceTypes ==
    ASSUME DiskShape, NEW p \in Places
    PROVE  p[1] \in Nat /\ p[2] \in Nat /\ LineAt(p).ts \in Nat
<1>0. PICK d \in Days : \E i \in DOMAIN files[d] : p = <<d, i>>
    BY DEF Places
<1>1. PICK i \in DOMAIN files[d] : p = <<d, i>>
    BY <1>0
<1>2. PICK S : files[d] \in Seq(S)
    BY DEF DiskShape
<1>3. i \in Nat
    BY <1>1, <1>2, LenProperties
<1>4. d \in Nat
    BY DivMonotone, EvidenceAssumption DEF Days
<1>. QED  BY <1>1, <1>3, <1>4 DEF DiskShape

\* A step that writes no snapshot.
SnapsKept == Snaps' = Snaps /\ \A p \in Places : p \in Places' /\ LineAt(p)' = LineAt(p)

\* What such a step, and one that writes a snapshot, keep of the first sights.
FirstsKept ==
    \A m \in Mints : \A s \in Places :
        FirstSeen(m, s) => s \in Places' /\ FirstSeen(m, s)' /\ LineAt(s)' = LineAt(s)

LEMMA NoSnapshotWritten ==
    ASSUME SnapsKept, SnapsOK, now \in Nat, recorder.t \in Nat,
           now' \in Nat, now' >= now, DiskShape,
           recorder'.at = "collect" =>
              \/ recorder.at = "collect" /\ recorder'.t = recorder.t
              \/ recorder'.t = now
    PROVE  SnapsOK' /\ FirstsKept
<1>1. \A p \in Snaps : p \in Places /\ LineAt(p)' = LineAt(p) /\ LineAt(p).ts \in Nat
    BY PlaceTypes DEF Snaps, SnapsKept
<1>2. \A m \in Mints : Sightings(m)' = Sightings(m)
    <2> SUFFICES ASSUME NEW m \in Mints
                 PROVE  Sightings(m)' = Sightings(m)
        OBVIOUS
    <2>1. Sightings(m) = {p \in Snaps : m \in DOMAIN LineAt(p).of}
        BY DEF Sightings, Records, Snaps
    <2>2. Sightings(m)' = {p \in Snaps' : m \in DOMAIN LineAt(p)'.of}
        BY DEF Sightings, Records, Snaps
    <2>. QED  BY <1>1, <2>1, <2>2 DEF SnapsKept
<1>3. FirstsKept
    BY <1>2 DEF FirstsKept, FirstSeen, SnapsKept, Precedes
<1>4. \A m \in Mints : Sightings(m)' # {} => \E s \in Places' : FirstSeen(m, s)'
    BY <1>2, <1>3 DEF SnapsOK, FirstsKept
<1>5. Snaps' # {} => \E l \in Snaps' : IsNewest(l)'
    <2> SUFFICES ASSUME Snaps # {}
                 PROVE  \E l \in Snaps : IsNewest(l)'
        BY DEF SnapsKept
    <2>1. PICK l \in Snaps : IsNewest(l)
        BY DEF SnapsOK
    <2>2. IsNewest(l)'
        BY <1>1, <2>1 DEF IsNewest, SnapsKept, Precedes
    <2>. QED  BY <2>2
<1>6. \A p \in Snaps' : LineAt(p)'.ts <= now' /\ p[1] = dayFile(LineAt(p)'.ts)
    BY <1>1 DEF SnapsOK, SnapsKept
<1>7. recorder'.at = "collect" =>
         recorder'.t <= now' /\ \A p \in Snaps' : LineAt(p)'.ts <= recorder'.t
    <2> SUFFICES ASSUME recorder'.at = "collect"
                 PROVE  recorder'.t <= now' /\ \A p \in Snaps' : LineAt(p)'.ts <= recorder'.t
        OBVIOUS
    <2>1. CASE recorder.at = "collect" /\ recorder'.t = recorder.t
        <3>1. recorder.t <= now /\ \A p \in Snaps : LineAt(p).ts <= recorder.t
            BY <2>1 DEF SnapsOK
        <3>2. recorder'.t <= now'
            BY <2>1, <3>1
        <3>. QED  BY <1>1, <2>1, <3>1, <3>2 DEF SnapsKept
    <2>2. CASE recorder'.t = now
        <3>1. \A p \in Snaps : LineAt(p).ts <= now
            BY DEF SnapsOK
        <3>. QED  BY <1>1, <2>2, <3>1 DEF SnapsKept
    <2>. QED  BY <2>1, <2>2
<1>. QED  BY <1>3, <1>4, <1>5, <1>6, <1>7 DEF SnapsOK, dayFile

\* A snapshot of the tick under way goes after everything in its file, and no file
\* of a later day has a snapshot yet.
LEMMA SnapshotWritten ==
    ASSUME EvidenceInv, SnapsOK, recorder.at = "collect",
           NEW seen, NEW new, new \notin Places, Places' = Places \cup {new},
           LineAt(new)' = Snapshot(recorder.t, seen),
           \A p \in Places : LineAt(p)' = LineAt(p),
           new[1] = dayFile(recorder.t), new[2] \in Nat,
           \A p \in Places : p[1] = dayFile(recorder.t) => p[2] < new[2],
           now' = now, recorder'.at # "collect"
    PROVE  SnapsOK' /\ FirstsKept
<1> USE EvidenceAssumption
<1>1. now \in Nat /\ recorder.t \in Nat /\ recorder.t <= now /\ DiskShape
    BY DEF EvidenceInv, PassShape, SnapsOK
<1>2. /\ LineAt(new)'.type = "snapshot" /\ LineAt(new)'.ts = recorder.t
      /\ DOMAIN LineAt(new)'.of = seen
    BY DEF Snapshot
<1>3. ASSUME NEW p \in Snaps
      PROVE  /\ p \in Places /\ LineAt(p)' = LineAt(p) /\ LineAt(p).ts \in Nat
             /\ LineAt(p).ts <= recorder.t /\ p[1] = dayFile(LineAt(p).ts)
             /\ Precedes(p, new)
    <2>1. p \in Places /\ LineAt(p)' = LineAt(p)
        BY DEF Snaps
    <2>2. LineAt(p).ts \in Nat /\ p[1] \in Nat /\ p[2] \in Nat
        BY <1>1, <2>1, PlaceTypes
    <2>3. LineAt(p).ts <= recorder.t /\ p[1] = dayFile(LineAt(p).ts)
        BY DEF SnapsOK
    <2>4. p[1] <= new[1] /\ new[1] \in Nat
        BY <1>1, <2>2, <2>3, DivMonotone DEF dayFile
    <2>5. p[1] = new[1] => p[2] < new[2]
        BY <2>1
    <2>. QED  BY <2>1, <2>2, <2>3, <2>4, <2>5 DEF Precedes
<1>4. Snaps' = Snaps \cup {new}
    BY <1>2 DEF Snaps
<1>5. ASSUME NEW m \in Mints
      PROVE  /\ Sightings(m) \subseteq Snaps
             /\ Sightings(m)' = IF m \in seen THEN Sightings(m) \cup {new} ELSE Sightings(m)
    <2>1. Sightings(m) = {p \in Places : LineAt(p).type = "snapshot" /\ m \in DOMAIN LineAt(p).of}
        BY DEF Sightings, Records
    <2>2. Sightings(m)' = {p \in Places' : /\ LineAt(p)'.type = "snapshot"
                                           /\ m \in DOMAIN LineAt(p)'.of}
        BY DEF Sightings, Records
    <2>. QED  BY <1>2, <2>1, <2>2 DEF Snaps
<1>6. FirstsKept
    <2> SUFFICES ASSUME NEW m \in Mints, NEW s \in Places, FirstSeen(m, s)
                 PROVE  s \in Places' /\ FirstSeen(m, s)' /\ LineAt(s)' = LineAt(s)
        BY DEF FirstsKept
    <2>1. s \in Snaps /\ Precedes(s, new)
        BY <1>3, <1>5 DEF FirstSeen
    <2>2. s \in Sightings(m)' /\ \A q \in Sightings(m)' \ {s} : Precedes(s, q)
        BY <1>5, <2>1 DEF FirstSeen
    <2>. QED  BY <2>2 DEF FirstSeen, Precedes
<1>7. ASSUME NEW m \in Mints, Sightings(m)' # {}
      PROVE  \E s \in Places' : FirstSeen(m, s)'
    <2>1. CASE Sightings(m) # {}
        BY <1>6, <2>1 DEF SnapsOK, FirstsKept
    <2>2. CASE Sightings(m) = {}
        <3>1. Sightings(m)' = {new}
            BY <1>5, <1>7, <2>2
        <3>2. FirstSeen(m, new)'
            BY <3>1 DEF FirstSeen
        <3>. QED  BY <3>2
    <2>. QED  BY <2>1, <2>2
<1>8. new \in Snaps' /\ IsNewest(new)'
    <2>1. \A q \in Snaps' : LineAt(q)'.ts <= LineAt(new)'.ts /\ (q = new \/ Precedes(q, new))
        BY <1>1, <1>2, <1>3, <1>4
    <2>. QED  BY <1>4, <2>1 DEF IsNewest, Precedes
<1>9. \A p \in Snaps' : LineAt(p)'.ts <= now' /\ p[1] = dayFile(LineAt(p)'.ts)
    BY <1>1, <1>2, <1>3, <1>4
<1>. QED  BY <1>6, <1>7, <1>8, <1>9 DEF SnapsOK, dayFile

\* What the invariant says of the published properties.
LEMMA RecordedFirst ==
    ASSUME DiskShape, NEW m, NEW s \in Places, FirstSeen(m, s)
    PROVE  recordedTs(m) = LineAt(s).ts
<1> DEFINE First(p) == \A q \in Sightings(m) \ {p} : Precedes(p, q)
<1>1. s \in Sightings(m) /\ First(s)
    BY DEF FirstSeen
<1>2. PICK r : r = (CHOOSE p \in Sightings(m) : First(p))
    OBVIOUS
<1>3. r \in Sightings(m) /\ First(r)
    BY <1>1, <1>2
<1>4. r = s
    <2> SUFFICES ASSUME r # s
                 PROVE  FALSE
        OBVIOUS
    <2>1. Precedes(r, s) /\ Precedes(s, r)
        BY <1>1, <1>3
    <2>2. r \in Places /\ s \in Places
        BY <1>3 DEF Sightings, Records
    <2>3. r[1] \in Nat /\ r[2] \in Nat /\ s[1] \in Nat /\ s[2] \in Nat
        BY <2>2, PlaceTypes
    <2>. QED  BY <2>1, <2>3 DEF Precedes
<1>5. recordedTs(m) = LineAt(r).ts
    BY <1>2 DEF recordedTs
<1>. QED  BY <1>4, <1>5

LEMMA MeasuresFirst ==
    ASSUME EvidenceInv, SightInv
    PROVE  LabelsMeasureFirstSight
<1> SUFFICES ASSUME NEW m \in Mints, NEW p \in Labelings(m)
             PROVE  /\ Sightings(m) # {} /\ LineAt(p).of[m].observedTs = recordedTs(m)
                    /\ LineAt(p).ts >= recordedTs(m) + MinAge
    BY DEF LabelsMeasureFirstSight
<1>1. PICK s \in Places : /\ FirstSeen(m, s)
                          /\ LineAt(p).of[m].observedTs = LineAt(s).ts
                          /\ LineAt(p).ts >= LineAt(s).ts + MinAge
    BY DEF SightInv, MeasuredOK
<1>2. recordedTs(m) = LineAt(s).ts
    BY <1>1, RecordedFirst DEF EvidenceInv
<1>. QED  BY <1>1, <1>2 DEF FirstSeen

LEMMA ReadsNewest ==
    ASSUME EvidenceInv, SightInv
    PROVE  NewestSnapshotIsRead
<1> SUFFICES ASSUME NEW d \in Days, NEW i \in SnapshotsOn(d)
             PROVE  files[d][i].ts <= latestSnapshot.ts
    BY DEF NewestSnapshotIsRead
<1>1. \A e \in Days : \A j \in SnapshotsOn(e) :
         /\ <<e, j>> \in Snaps /\ LineAt(<<e, j>>) = files[e][j]
         /\ e \in Nat /\ j \in Nat
    <2> SUFFICES ASSUME NEW e \in Days, NEW j \in SnapshotsOn(e)
                 PROVE  /\ <<e, j>> \in Snaps /\ LineAt(<<e, j>>) = files[e][j]
                        /\ e \in Nat /\ j \in Nat
        OBVIOUS
    <2>1. <<e, j>> \in Places /\ LineAt(<<e, j>>) = files[e][j]
        BY DEF SnapshotsOn, Places, LineAt
    <2>2. <<e, j>>[1] \in Nat /\ <<e, j>>[2] \in Nat
        BY <2>1, PlaceTypes DEF EvidenceInv
    <2>. QED  BY <2>1, <2>2 DEF Snaps, SnapshotsOn
<1>2. PICK l \in Snaps : IsNewest(l)
    BY <1>1 DEF SightInv, SnapsOK
<1>0. PICK e \in Days : \E j \in DOMAIN files[e] : l = <<e, j>>
    BY DEF Snaps, Places
<1>3. PICK j \in SnapshotsOn(e) : l = <<e, j>>
    BY <1>0 DEF Snaps, LineAt, SnapshotsOn
<1>4. e \in SnapshotDays /\ e \in Nat /\ j \in Nat
    BY <1>1 DEF SnapshotDays
<1>5. ASSUME NEW c \in SnapshotDays
      PROVE  c \in Nat /\ c <= e
    <2>1. PICK k : k \in SnapshotsOn(c)
        BY DEF SnapshotDays
    <2>2. <<c, k>> \in Snaps /\ c \in Nat
        BY <1>1, <2>1 DEF SnapshotDays
    <2>3. <<c, k>> = <<e, j>> \/ Precedes(<<c, k>>, <<e, j>>)
        BY <1>2, <1>3, <2>2 DEF IsNewest
    <2>. QED  BY <1>4, <2>2, <2>3 DEF Precedes
<1>6. newestDay = e
    <2>1. PICK n : n = newestDay
        OBVIOUS
    <2>2. n \in SnapshotDays /\ \A c \in SnapshotDays : c <= n
        BY <1>4, <1>5, <2>1 DEF newestDay
    <2>3. n = e
        BY <1>4, <1>5, <2>2
    <2>. QED  BY <2>1, <2>3
<1>7. ASSUME NEW k \in SnapshotsOn(e)
      PROVE  k \in Nat /\ k <= j
    <2>1. <<e, k>> \in Snaps /\ k \in Nat
        BY <1>1
    <2>2. <<e, k>> = <<e, j>> \/ Precedes(<<e, k>>, <<e, j>>)
        BY <1>2, <1>3, <2>1 DEF IsNewest
    <2>. QED  BY <1>4, <2>1, <2>2 DEF Precedes
<1>8. latestSnapshot = files[e][j]
    <2>1. PICK n : n = (CHOOSE k \in SnapshotsOn(e) : \A h \in SnapshotsOn(e) : h <= k)
        OBVIOUS
    <2>2. n \in SnapshotsOn(e) /\ \A h \in SnapshotsOn(e) : h <= n
        BY <1>7, <2>1
    <2>3. n = j
        BY <1>4, <1>7, <2>2
    <2>. QED  BY <1>6, <2>1, <2>3 DEF latestSnapshot
<1>9. LineAt(<<d, i>>).ts <= LineAt(l).ts
    BY <1>1, <1>2 DEF IsNewest
<1>. QED  BY <1>1, <1>3, <1>8, <1>9

LEMMA OtherLineKeepsSnaps ==
    ASSUME DiskShape, NEW d, NEW text, text.ts \in Nat, text.type # "snapshot",
           files' = files \/ files' = [files EXCEPT ![d] = Append(@, text)]
    PROVE  SnapsKept
<1>1. CASE files' = files
    BY <1>1 DEF SnapsKept, Snaps, Places, LineAt
<1>2. CASE files' = [files EXCEPT ![d] = Append(@, text)] /\ d \in Days
    <2>1. PICK new : /\ Places' = Places \cup {new}
                     /\ LineAt(new)' = text
                     /\ \A p \in Places : LineAt(p)' = LineAt(p)
        BY <1>2, AppendAddsPlace
    <2>. QED  BY <2>1 DEF SnapsKept, Snaps
<1>3. CASE files' = [files EXCEPT ![d] = Append(@, text)] /\ d \notin Days
    <2>1. files' = files
        BY <1>3 DEF DiskShape
    <2>. QED  BY <1>1, <2>1
<1>. QED  BY <1>1, <1>2, <1>3

\* A step that writes no label and gives no pass anything to ask.
LEMMA MeasuredKept ==
    ASSUME MeasuredOK, FirstsKept, LabelsKept, PassesQuiet,
           \A p \in Processes : DOMAIN pass[p].due \subseteq Mints
    PROVE  MeasuredOK'
<1>1. ASSUME NEW m \in Mints, NEW p \in Labelings(m)'
      PROVE  \E s \in Places' :
                /\ FirstSeen(m, s)' /\ LineAt(p)'.of[m].observedTs = LineAt(s)'.ts
                /\ LineAt(p)'.ts >= LineAt(s)'.ts + MinAge
    <2>1. p \in Labelings(m) /\ LineAt(p)' = LineAt(p)
        BY <1>1 DEF LabelsKept
    <2>2. PICK s \in Places : /\ FirstSeen(m, s)
                              /\ LineAt(p).of[m].observedTs = LineAt(s).ts
                              /\ LineAt(p).ts >= LineAt(s).ts + MinAge
        BY <2>1 DEF MeasuredOK
    <2>3. s \in Places' /\ FirstSeen(m, s)' /\ LineAt(s)' = LineAt(s)
        BY <2>2 DEF FirstsKept
    <2>. QED  BY <2>1, <2>2, <2>3
<1>2. ASSUME NEW p \in Processes, NEW m \in DOMAIN pass'[p].due
      PROVE  \E s \in Places' : FirstSeen(m, s)' /\ pass'[p].due[m] = LineAt(s)'.ts
    <2>1. pass'[p] = pass[p] /\ m \in Mints
        BY <1>2 DEF PassesQuiet
    <2>2. PICK s \in Places : FirstSeen(m, s) /\ pass[p].due[m] = LineAt(s).ts
        BY <1>2, <2>1 DEF MeasuredOK
    <2>3. s \in Places' /\ FirstSeen(m, s)' /\ LineAt(s)' = LineAt(s)
        BY <2>1, <2>2 DEF FirstsKept
    <2>. QED  BY <2>1, <2>2, <2>3
<1>. QED  BY <1>1, <1>2 DEF MeasuredOK

\* Nothing is decided before its time.
LEMMA DecidedInTime ==
    ASSUME NEW observedTs \in Nat, NEW answer, NEW ts \in Nat, NEW apiHealthy,
           decideOutcome(observedTs, answer, ts, apiHealthy) \in {"rugged", "survived"}
    PROVE  ts >= observedTs + MinAge
<1>1. CASE tooEarly(observedTs, ts)
    <2>1. decideOutcome(observedTs, answer, ts, apiHealthy) = "too_early"
        BY <1>1, Zenon DEF decideOutcome
    <2>. QED  BY <2>1
<1>2. CASE ~ tooEarly(observedTs, ts)
    BY <1>2, EvidenceAssumption DEF tooEarly
<1>. QED  BY <1>1, <1>2

\* What a pass appends is what it decided.
Decided(labels, due, ts) ==
    \A m \in DOMAIN labels :
        m \in DOMAIN due /\ labels[m].observedTs = due[m] /\ ts >= due[m] + MinAge

LEMMA PassDecides ==
    ASSUME NEW p \in Processes, Label(p), pass[p].ts \in Nat,
           \A m \in DOMAIN pass[p].due : pass[p].due[m] \in Nat
    PROVE  \/ files' = files
           \/ \E labels : /\ Decided(labels, pass[p].due, pass[p].ts)
                          /\ Appended(dayFile(pass[p].ts), Labels(pass[p].ts, labels))
<1> DEFINE due == pass[p].due
           ts == pass[p].ts
<1>1. PICK answer \in [DOMAIN due -> Answers] :
         LET healthy == \E m \in DOMAIN due : answer[m] # "none"
             decided == [m \in DOMAIN due |-> decideOutcome(due[m], answer[m], ts, healthy)]
             writable == {m \in DOMAIN due : decided[m] \in {"rugged", "survived"}}
         IN IF writable = {}
            THEN DiskUnchanged
            ELSE Appended(dayFile(ts), Labels(ts, [m \in writable |->
                            [outcome |-> decided[m], observedTs |-> due[m]]]))
    BY Zenon DEF Label
<1> DEFINE healthy == \E m \in DOMAIN due : answer[m] # "none"
           decided == [m \in DOMAIN due |-> decideOutcome(due[m], answer[m], ts, healthy)]
           writable == {m \in DOMAIN due : decided[m] \in {"rugged", "survived"}}
           labels == [m \in writable |-> [outcome |-> decided[m], observedTs |-> due[m]]]
<1>2. DiskUnchanged \/ Appended(dayFile(ts), Labels(ts, labels))
    BY <1>1, Zenon
<1>3. ASSUME NEW m \in DOMAIN labels
      PROVE  m \in DOMAIN due /\ labels[m].observedTs = due[m] /\ ts >= due[m] + MinAge
    <2>1. /\ m \in DOMAIN due /\ decided[m] \in {"rugged", "survived"}
          /\ labels[m].observedTs = due[m]
        OBVIOUS
    <2>2. decideOutcome(due[m], answer[m], ts, healthy) \in {"rugged", "survived"}
        BY <2>1
    <2>3. due[m] \in Nat
        BY <2>1
    <2> HIDE DEF due, ts, healthy
    <2>4. ts \in Nat
        BY DEF ts
    <2>5. ts >= due[m] + MinAge
        BY <2>2, <2>3, <2>4, DecidedInTime
    <2>. QED  BY <2>1, <2>5
<1>4. Decided(labels, due, ts)
    BY <1>3 DEF Decided
<1> HIDE DEF labels
<1>. QED  BY <1>2, <1>4 DEF DiskUnchanged

\* A pass that labels measures from the first sights it read.
LEMMA LabelMeasures ==
    ASSUME EvidenceInv, SightInv, FirstsKept, NEW p \in Processes,
           NEW labels, NEW ts, Decided(labels, pass[p].due, ts),
           NEW new, LabelsGrow(new, ts, labels), PassesQuiet
    PROVE  MeasuredOK'
<1>0. /\ \A q \in Processes : DOMAIN pass[q].due \subseteq Mints
      /\ MeasuredOK
    BY DEF EvidenceInv, PassShape, SightInv
<1>1. ASSUME NEW m \in Mints, NEW q \in Labelings(m)'
      PROVE  \E s \in Places' :
                /\ FirstSeen(m, s)' /\ LineAt(q)'.of[m].observedTs = LineAt(s)'.ts
                /\ LineAt(q)'.ts >= LineAt(s)'.ts + MinAge
    <2>1. CASE q \in Labelings(m) /\ LineAt(q)' = LineAt(q)
        <3>1. PICK s \in Places : /\ FirstSeen(m, s)
                                  /\ LineAt(q).of[m].observedTs = LineAt(s).ts
                                  /\ LineAt(q).ts >= LineAt(s).ts + MinAge
            BY <1>0, <2>1 DEF MeasuredOK
        <3>2. s \in Places' /\ FirstSeen(m, s)' /\ LineAt(s)' = LineAt(s)
            BY <3>1 DEF FirstsKept
        <3>. QED  BY <2>1, <3>1, <3>2
    <2>2. CASE m \in DOMAIN labels /\ LineAt(q)' = Labels(ts, labels)
        <3>1. /\ m \in DOMAIN pass[p].due /\ labels[m].observedTs = pass[p].due[m]
              /\ ts >= pass[p].due[m] + MinAge
            BY <2>2 DEF Decided
        <3>2. PICK s \in Places : FirstSeen(m, s) /\ pass[p].due[m] = LineAt(s).ts
            BY <1>0, <3>1 DEF MeasuredOK
        <3>3. s \in Places' /\ FirstSeen(m, s)' /\ LineAt(s)' = LineAt(s)
            BY <3>2 DEF FirstsKept
        <3>4. LineAt(q)'.ts = ts /\ LineAt(q)'.of = labels
            BY <2>2 DEF Labels
        <3>. QED  BY <3>1, <3>2, <3>3, <3>4
    <2>3. CASE m \in DOMAIN labels
        <3>1. /\ Labelings(m)' = Labelings(m) \cup {new}
              /\ LineAt(new)' = Labels(ts, labels)
              /\ \A r \in Labelings(m) : LineAt(r)' = LineAt(r)
            BY <2>3 DEF LabelsGrow
        <3>. QED  BY <1>1, <2>1, <2>2, <2>3, <3>1
    <2>4. CASE m \notin DOMAIN labels
        <3>1. /\ Labelings(m)' = Labelings(m)
              /\ \A r \in Labelings(m) : LineAt(r)' = LineAt(r)
            BY <2>4 DEF LabelsGrow
        <3>. QED  BY <1>1, <2>1, <3>1
    <2>. QED  BY <2>3, <2>4
<1>2. ASSUME NEW q \in Processes, NEW m \in DOMAIN pass'[q].due
      PROVE  \E s \in Places' : FirstSeen(m, s)' /\ pass'[q].due[m] = LineAt(s)'.ts
    <2>1. pass'[q] = pass[q] /\ m \in Mints
        BY <1>0, <1>2 DEF PassesQuiet
    <2>2. PICK s \in Places : FirstSeen(m, s) /\ pass[q].due[m] = LineAt(s).ts
        BY <1>0, <1>2, <2>1 DEF MeasuredOK
    <2>3. s \in Places' /\ FirstSeen(m, s)' /\ LineAt(s)' = LineAt(s)
        BY <2>1, <2>2 DEF FirstsKept
    <2>. QED  BY <2>1, <2>2, <2>3
<1>. QED  BY <1>1, <1>2 DEF MeasuredOK

\* A tick under way is the one that was, or begins now.
TickKept ==
    recorder'.at = "collect" =>
        \/ recorder.at = "collect" /\ recorder'.t = recorder.t
        \/ recorder'.t = now

\* A step that writes neither a snapshot nor a label.
LEMMA QuietSight ==
    ASSUME EvidenceInv, SightInv, now' \in Nat, now' >= now, TickKept, PassesQuiet,
           \/ files' = files
           \/ \E d : CutShort(d)
    PROVE  SightInv'
<1>1. /\ DiskShape /\ now \in Nat /\ recorder.t \in Nat
      /\ \A p \in Processes : DOMAIN pass[p].due \subseteq Mints
      /\ SnapsOK /\ MeasuredOK
    BY DEF EvidenceInv, PassShape, SightInv
<1>2. LabelsKept
    BY <1>1, SameDiskKeepsLabels, CutShortStep
<1>3. SnapsKept
    <2>1. Malformed.ts \in Nat /\ Malformed.type # "snapshot"
        BY DEF Malformed
    <2>2. CASE files' = files
        BY <1>1, <2>1, <2>2, OtherLineKeepsSnaps
    <2>3. ASSUME NEW d, CutShort(d)
          PROVE  SnapsKept
        <3>1. files' = files \/ files' = [files EXCEPT ![d] = Append(@, Malformed)]
            BY <2>3 DEF CutShort
        <3>. QED  BY <1>1, <2>1, <3>1, OtherLineKeepsSnaps
    <2>. QED  BY <2>2, <2>3
<1>4. SnapsOK' /\ FirstsKept
    BY <1>1, <1>3, NoSnapshotWritten DEF TickKept
<1>5. MeasuredOK'
    BY <1>1, <1>2, <1>4, MeasuredKept
<1>. QED  BY <1>4, <1>5 DEF SightInv

\* The end of a tick gives no pass anything to ask, and the tick is over.
LEMMA MaintainFacts ==
    ASSUME EvidenceInv, Maintain
    PROVE  PassesQuiet /\ now' = now /\ recorder'.at # "collect"
<1>1. DOMAIN pass = Processes
    BY DEF EvidenceInv, PassShape
<1>2. now' = now
    BY DEF Maintain
<1>3. CASE recorder.t >= labelDueAt
    <2>1. /\ pass' = [pass EXCEPT !["recorder"] = PassAt(recorder.t)]
          /\ recorder' = [at |-> "label", t |-> recorder.t]
        BY <1>3 DEF Maintain
    <2>2. DOMAIN PassAt(recorder.t).due = {}
        BY DEF PassAt
    <2>3. PassesQuiet
        BY <1>1, <2>1, <2>2 DEF PassesQuiet
    <2>. QED  BY <1>2, <2>1, <2>3
<1>4. CASE ~ (recorder.t >= labelDueAt)
    <2>1. pass' = pass /\ recorder' = [at |-> "sleep", t |-> now + Interval]
        BY <1>4 DEF Maintain
    <2>. QED  BY <1>2, <2>1 DEF PassesQuiet
<1>. QED  BY <1>3, <1>4

LEMMA RecordSight ==
    ASSUME EvidenceInv, SightInv, Record
    PROVE  SightInv'
<1>1. /\ recorder.at = "collect" /\ Maintain
      /\ DiskShape /\ now \in Nat /\ recorder.t \in Nat
      /\ \A p \in Processes : DOMAIN pass[p].due \subseteq Mints
      /\ SnapsOK /\ MeasuredOK
    BY DEF Record, EvidenceInv, PassShape, SightInv
<1>2. PassesQuiet /\ now' = now /\ recorder'.at # "collect"
    BY <1>1, MaintainFacts
<1>3. PICK seen : Appended(dayFile(recorder.t), Snapshot(recorder.t, seen))
    BY DEF Record
<1> DEFINE text == Snapshot(recorder.t, seen)
           d == dayFile(recorder.t)
<1>4. LabelsKept
    BY <1>1, <1>3, AppendSnapshotStep
<1>5. CASE files' = files
    BY <1>1, <1>2, <1>5, QuietSight DEF TickKept
<1>6. CASE files' # files
    <2>1. files' = [files EXCEPT ![d] = Append(@, text)]
        BY <1>3, <1>6 DEF Appended
    <2>2. d \in Days
        BY <1>1, <1>6, <2>1 DEF DiskShape
    <2>3. text.ts \in Nat
        BY <1>1 DEF Snapshot
    <2>4. PICK new : /\ new \notin Places /\ Places' = Places \cup {new}
                     /\ LineAt(new)' = text
                     /\ \A p \in Places : LineAt(p)' = LineAt(p)
                     /\ new[1] = d /\ new[2] \in Nat
                     /\ \A p \in Places : p[1] = d => p[2] < new[2]
        <3> HIDE DEF d, text
        <3>. QED  BY <1>1, <2>1, <2>2, <2>3, AppendAddsPlace
    <2>5. SnapsOK' /\ FirstsKept
        BY <1>1, <1>2, <2>4, SnapshotWritten
    <2>6. MeasuredOK'
        BY <1>1, <1>2, <1>4, <2>5, MeasuredKept
    <2>. QED  BY <2>5, <2>6 DEF SightInv
<1>. QED  BY <1>5, <1>6

LEMMA LeaveFacts ==
    ASSUME EvidenceInv, NEW p \in Processes, Leave(p)
    PROVE  PassesQuiet /\ now' = now /\ TickKept
<1>1. DOMAIN pass = Processes
    BY DEF EvidenceInv, PassShape
<1>2. DOMAIN NoPass.due = {}
    BY DEF NoPass
<1>3. pass' = [pass EXCEPT ![p] = NoPass] /\ recorder' = Resumed(p) /\ now' = now
    BY DEF Leave
<1>4. PassesQuiet
    BY <1>1, <1>2, <1>3 DEF PassesQuiet
<1>5. TickKept
    BY <1>3 DEF TickKept, Resumed
<1>. QED  BY <1>3, <1>4, <1>5

LEMMA LabelSight ==
    ASSUME EvidenceInv, SightInv, NEW p \in Processes, Label(p)
    PROVE  SightInv'
<1> DEFINE ts == pass[p].ts
           due == pass[p].due
<1>1. /\ DiskShape /\ now \in Nat /\ recorder.t \in Nat /\ ts \in Nat
      /\ DOMAIN due \subseteq Mints
      /\ SnapsOK /\ MeasuredOK
    BY DEF EvidenceInv, PassShape, SightInv
<1>2. PassesQuiet /\ now' = now /\ TickKept
    BY LeaveFacts DEF Label
<1>3. \A m \in DOMAIN due : due[m] \in Nat
    <2>1. \A m \in DOMAIN due : \E s \in Places : due[m] = LineAt(s).ts
        BY <1>1 DEF MeasuredOK
    <2>. QED  BY <1>1, <2>1, PlaceTypes
<1>4. CASE files' = files
    BY <1>1, <1>2, <1>4, QuietSight
<1>5. ASSUME NEW labels, Decided(labels, due, ts), files' # files,
             Appended(dayFile(ts), Labels(ts, labels))
      PROVE  SightInv'
    <2>1. LabelsKept \/ \E new : LabelsGrow(new, ts, labels)
        BY <1>1, <1>5, LabelLineGrowsLabels
    <2>2. SnapsKept
        <3> DEFINE text == Labels(ts, labels)
                   d == dayFile(ts)
        <3>1. text.ts \in Nat /\ text.type # "snapshot"
            BY <1>1 DEF Labels
        <3>2. files' = [files EXCEPT ![d] = Append(@, text)]
            BY <1>5 DEF Appended
        <3> HIDE DEF text, d
        <3>. QED  BY <1>1, <3>1, <3>2, OtherLineKeepsSnaps
    <2>3. SnapsOK' /\ FirstsKept
        BY <1>1, <1>2, <2>2, NoSnapshotWritten DEF TickKept
    <2>4. CASE LabelsKept
        <3>1. \A q \in Processes : DOMAIN pass[q].due \subseteq Mints
            BY DEF EvidenceInv, PassShape
        <3>2. MeasuredOK'
            BY <1>1, <1>2, <2>3, <2>4, <3>1, MeasuredKept
        <3>. QED  BY <2>3, <3>2 DEF SightInv
    <2>5. CASE \E new : LabelsGrow(new, ts, labels)
        <3>1. PICK new : LabelsGrow(new, ts, labels)
            BY <2>5
        <3> HIDE DEF ts
        <3>2. MeasuredOK'
            BY <1>2, <1>5, <2>3, <3>1, LabelMeasures
        <3>. QED  BY <2>3, <3>2 DEF SightInv
    <2>. QED  BY <2>1, <2>4, <2>5
<1>6. \/ files' = files
      \/ \E labels : /\ Decided(labels, due, ts)
                     /\ Appended(dayFile(ts), Labels(ts, labels))
    BY <1>1, <1>3, PassDecides
<1>. QED  BY <1>4, <1>5, <1>6

LEMMA AskSight ==
    ASSUME EvidenceInv, SightInv, NEW p \in Processes, AskSource(p)
    PROVE  SightInv'
<1> DEFINE due == Due(pass[p].ts)
<1>1. /\ DiskShape /\ now \in Nat /\ recorder.t \in Nat
      /\ DOMAIN pass = Processes
      /\ \A q \in Processes : DOMAIN pass[q].due \subseteq Mints
      /\ SnapsOK /\ MeasuredOK
    BY DEF EvidenceInv, PassShape, SightInv
<1>2. /\ files' = files /\ now' = now /\ recorder' = recorder
      /\ pass' = [pass EXCEPT ![p] = [stage |-> "ask", ts |-> pass[p].ts,
                                      due |-> [m \in due |-> recordedTs(m)]]]
    BY Zenon DEF AskSource, DiskUnchanged
<1>3. \A m \in due : m \in Mints /\ Sightings(m) # {}
    BY DEF Due
<1> HIDE DEF due
<1>4. /\ \A q \in Processes : q # p => pass'[q] = pass[q]
      /\ pass'[p].due = [m \in due |-> recordedTs(m)]
    BY <1>1, <1>2
<1>5. Places' = Places /\ \A q : LineAt(q)' = LineAt(q)
    BY <1>2 DEF Places, LineAt
<1>6. SnapsKept /\ LabelsKept
    BY <1>5 DEF SnapsKept, Snaps, LabelsKept, Labelings, Records
<1>7. SnapsOK' /\ FirstsKept
    BY <1>1, <1>2, <1>6, NoSnapshotWritten
<1>8. \A m \in Mints : \A q \in Labelings(m)' : \E s \in Places' :
         /\ FirstSeen(m, s)' /\ LineAt(q)'.of[m].observedTs = LineAt(s)'.ts
         /\ LineAt(q)'.ts >= LineAt(s)'.ts + MinAge
    <2> SUFFICES ASSUME NEW m \in Mints, NEW q \in Labelings(m)'
                 PROVE  \E s \in Places' :
                           /\ FirstSeen(m, s)' /\ LineAt(q)'.of[m].observedTs = LineAt(s)'.ts
                           /\ LineAt(q)'.ts >= LineAt(s)'.ts + MinAge
        OBVIOUS
    <2>1. q \in Labelings(m) /\ LineAt(q)' = LineAt(q)
        BY <1>6 DEF LabelsKept
    <2>2. PICK s \in Places : /\ FirstSeen(m, s)
                              /\ LineAt(q).of[m].observedTs = LineAt(s).ts
                              /\ LineAt(q).ts >= LineAt(s).ts + MinAge
        BY <1>1, <2>1 DEF MeasuredOK
    <2>3. s \in Places' /\ FirstSeen(m, s)' /\ LineAt(s)' = LineAt(s)
        BY <1>7, <2>2 DEF FirstsKept
    <2>. QED  BY <2>1, <2>2, <2>3
<1>9. ASSUME NEW q \in Processes, NEW m \in DOMAIN pass'[q].due
      PROVE  \E s \in Places' : FirstSeen(m, s)' /\ pass'[q].due[m] = LineAt(s)'.ts
    <2>1. PICK s \in Places : FirstSeen(m, s) /\ pass'[q].due[m] = LineAt(s).ts /\ m \in Mints
        <3>1. CASE q = p
            <4>1. m \in due /\ pass'[q].due[m] = recordedTs(m)
                BY <1>4, <1>9, <3>1
            <4>2. PICK s \in Places : FirstSeen(m, s)
                BY <1>1, <1>3, <4>1 DEF SnapsOK
            <4>3. recordedTs(m) = LineAt(s).ts
                BY <1>1, <4>2, RecordedFirst
            <4>. QED  BY <1>3, <4>1, <4>2, <4>3
        <3>2. CASE q # p
            BY <1>1, <1>4, <1>9, <3>2 DEF MeasuredOK
        <3>. QED  BY <3>1, <3>2
    <2>2. s \in Places' /\ FirstSeen(m, s)' /\ LineAt(s)' = LineAt(s)
        BY <1>7, <2>1 DEF FirstsKept
    <2>. QED  BY <2>1, <2>2
<1>. QED  BY <1>7, <1>8, <1>9 DEF SightInv, MeasuredOK

LEMMA SightInit == Init => SightInv
<1> SUFFICES ASSUME Init
             PROVE  SightInv
    OBVIOUS
<1>1. Places = {}
    BY DEF Init, Places
<1>2. Snaps = {} /\ \A m : Sightings(m) = {} /\ Labelings(m) = {}
    BY <1>1 DEF Snaps, Sightings, Labelings, Records
<1>3. recorder.at = "sleep"
    BY DEF Init
<1>4. \A p \in Processes : DOMAIN pass[p].due = {}
    BY DEF Init, NoPass
<1>. QED  BY <1>2, <1>3, <1>4 DEF SightInv, SnapsOK, MeasuredOK

LEMMA SightStep ==
    ASSUME EvidenceInv, SightInv, [Next]_evidenceVars
    PROVE  SightInv'
<1>1. now \in Nat /\ DOMAIN pass = Processes
    BY DEF EvidenceInv, PassShape
<1>2. DOMAIN NoPass.due = {} /\ \A ts : DOMAIN PassAt(ts).due = {}
    BY DEF NoPass, PassAt
<1>3. CASE StartTick
    BY <1>1, <1>3, QuietSight DEF StartTick, TickKept, PassesQuiet
<1>4. CASE Record
    BY <1>4, RecordSight
<1>5. CASE TickFails
    BY <1>1, <1>5, MaintainFacts, QuietSight DEF TickFails, DiskUnchanged, TickKept
<1>6. CASE Restart
    BY <1>1, <1>6, QuietSight DEF Restart, TickKept, PassesQuiet
<1>7. CASE RunLabel
    BY <1>1, <1>2, <1>7, QuietSight DEF RunLabel, TickKept, PassesQuiet
<1>8. ASSUME NEW p \in Processes, NothingDue(p) \/ LabelNothing(p)
      PROVE  SightInv'
    BY <1>1, <1>8, LeaveFacts, QuietSight DEF NothingDue, LabelNothing, DiskUnchanged
<1>9. ASSUME NEW p \in Processes, Die(p)
      PROVE  SightInv'
    <2>1. pass' = [pass EXCEPT ![p] = NoPass] /\ now' = now
        BY <1>9 DEF Die
    <2>2. PassesQuiet
        BY <1>1, <1>2, <2>1 DEF PassesQuiet
    <2>3. TickKept
        BY <1>9 DEF Die, TickKept
    <2>4. files' = files \/ \E d : CutShort(d)
        BY <1>9 DEF Die, DiskUnchanged
    <2>. QED  BY <1>1, <2>1, <2>2, <2>3, <2>4, QuietSight
<1>10. CASE PassTime
    BY <1>1, <1>10, QuietSight DEF PassTime, TickKept, PassesQuiet
<1>11. CASE UNCHANGED evidenceVars
    BY <1>1, <1>11, QuietSight DEF evidenceVars, TickKept, PassesQuiet
<1>. QED
    BY <1>3, <1>4, <1>5, <1>6, <1>7, <1>8, <1>9, <1>10, <1>11, AskSight, LabelSight DEF Next

\* Every label measures its mint from the first snapshot of it on disk, and never
\* before its time, whatever was torn, appended or restarted since it was decided.
THEOREM LabelsFromFirstSight == Spec => []LabelsMeasureFirstSight
<1>. QED
    BY EvidenceInit, EvidenceStep, SightInit, SightStep, MeasuresFirst, PTL DEF Spec

\* What the bot reads is the newest snapshot there is, across days, crashes and
\* labels appended late to an earlier day's file.
THEOREM NewestIsRead == Spec => []NewestSnapshotIsRead
<1>. QED
    BY EvidenceInit, EvidenceStep, SightInit, SightStep, ReadsNewest, PTL DEF Spec

-----------------------------------------------------------------------------
(* Handover.                                                               *)

\* What a candidate keeps of the pair and the gate it was made from.
Made(c) ==
    /\ c.raw \in Pairs /\ c.old \in BOOLEAN
    /\ c.old => c.buy = Unknown
    /\ ~ c.old =>
         /\ c.created = c.raw.created /\ c.created # Unknown
         /\ c.quote = c.raw.quote /\ c.quote \in QuoteMints
         /\ c.cap = c.raw.cap /\ c.volM5 = c.raw.volM5 /\ c.volH1 = c.raw.volH1
         /\ c.buys = c.raw.buys /\ c.sells = c.raw.sells /\ c.txnsH1 = c.raw.txnsH1
         /\ c.m5 = c.raw.m5 /\ c.h1 = c.raw.h1 /\ c.price = c.raw.price
         /\ c.buyable = c.gate.buyable /\ c.buy = c.gate.buy /\ c.sell = c.gate.sell

\* An eligible pair has an age and a permitted quote.
LEMMA EligibleKnows ==
    ASSUME NEW m, NEW pair, NEW hour, Eligible(m, readSignals(pair, hour))
    PROVE  /\ pair.created # Unknown /\ pair.quote \in QuoteMints /\ pair.quote # Unknown
           /\ m \notin QuoteMints
           /\ Unknown \notin {pair.cap, pair.volH1, pair.txnsH1}
<1> DEFINE s == readSignals(pair, hour)
<1>1. /\ s.age = (IF pair.created = Unknown THEN Unknown ELSE hour - pair.created)
      /\ s.quote = pair.quote /\ s.cap = pair.cap /\ s.volH1 = pair.volH1
      /\ s.txnsH1 = pair.txnsH1
    BY DEF readSignals
<1> HIDE DEF s
<1>2. /\ s.age # Unknown /\ s.cap # Unknown /\ s.volH1 # Unknown /\ s.txnsH1 # Unknown
      /\ s.quote \in QuoteMints /\ m \notin QuoteMints
    BY DEF Eligible, AtLeast, AtMost, s
<1>3. Unknown \notin QuoteMints
    BY RulesAssumption
<1>. QED  BY <1>1, <1>2, <1>3

\* A candidate of an eligible pair keeps what was read.
LEMMA CandidateMade ==
    ASSUME NEW m, NEW row, row.pair \in Pairs, Eligible(m, readSignals(row.pair, row.at)),
           NEW gate, NEW sol, NEW ts, NEW survives
    PROVE  Made(Candidate(m, row, gate, sol, ts, survives))
<1> DEFINE c == Candidate(m, row, gate, sol, ts, survives)
<1>1. /\ c.raw = row.pair /\ c.old = FALSE /\ c.gate = gate
      /\ c.created = row.pair.created /\ c.quote = row.pair.quote
      /\ c.cap = row.pair.cap /\ c.volM5 = row.pair.volM5 /\ c.volH1 = row.pair.volH1
      /\ c.buys = row.pair.buys /\ c.sells = row.pair.sells /\ c.txnsH1 = row.pair.txnsH1
      /\ c.m5 = row.pair.m5 /\ c.h1 = row.pair.h1 /\ c.price = row.pair.price
      /\ c.buyable = gate.buyable /\ c.buy = gate.buy /\ c.sell = gate.sell
    BY DEF Candidate
<1> HIDE DEF c
<1>2. row.pair.created # Unknown /\ row.pair.quote \in QuoteMints
    BY EligibleKnows
<1>3. Made(c)
    BY <1>1, <1>2 DEF Made
<1>. QED  BY <1>3 DEF c

\* One from before the upgrade has no impact to enter on.
LEMMA OldMade ==
    ASSUME NEW m, NEW row, row.pair \in Pairs,
           NEW gate, NEW sol, NEW ts, NEW survives
    PROVE  Made(Old(Candidate(m, row, gate, sol, ts, survives)))
<1> DEFINE c == Candidate(m, row, gate, sol, ts, survives)
<1>1. /\ {"raw", "old", "buy", "quote", "created", "buys", "sells", "txnsH1", "sell", "wouldEnter"}
           \subseteq DOMAIN c
      /\ c.raw = row.pair
    BY DEF Candidate
<1> HIDE DEF c
<1>2. Old(c).raw = c.raw /\ Old(c).old = TRUE /\ Old(c).buy = Unknown
    BY <1>1 DEF Old
<1>3. Made(Old(c))
    BY <1>1, <1>2 DEF Made
<1>. QED  BY <1>3 DEF c

\* The pair rebuilt from a candidate gives the signals of the pair it was made from.
LEMMA SignalsSame ==
    ASSUME NEW c, Made(c), ~ c.old, NEW ts, NEW t
    PROVE  readSignals(candidateToPair(c, ts), t) = readSignals(c.raw, t)
<1> DEFINE p == candidateToPair(c, ts)
           r == c.raw
<1>1. c.quote # Unknown /\ c.created # Unknown
    BY RulesAssumption DEF Made
<1>2. /\ p.created = r.created /\ p.quote = r.quote /\ p.cap = r.cap /\ p.volM5 = r.volM5
      /\ p.volH1 = r.volH1 /\ p.buys = r.buys /\ p.sells = r.sells /\ p.txnsH1 = r.txnsH1
      /\ p.m5 = r.m5 /\ p.h1 = r.h1 /\ p.price = r.price
    BY <1>1 DEF candidateToPair, Made
<1> HIDE DEF p, r
<1>3. readSignals(p, t) = readSignals(r, t)
    BY <1>2 DEF readSignals
<1>. QED  BY <1>3 DEF p, r

\* What the entry rules read, they have.
LEMMA RulesRead ==
    ASSUME NEW m, NEW pair \in Pairs, NEW hour \in Int,
           Eligible(m, readSignals(pair, hour)), Moving(readSignals(pair, hour))
    PROVE  /\ Unknown \notin {pair.created, pair.cap, pair.volM5, pair.volH1, pair.buys,
                              pair.sells, pair.txnsH1, pair.m5, pair.h1, pair.quote}
           /\ pair.sells # 0 /\ pair.volH1 # 0
           /\ pair.quote \in QuoteMints /\ m \notin QuoteMints
           /\ hour - pair.created \in Universe.minAge..Universe.maxAge
<1> DEFINE s == readSignals(pair, hour)
<1>1. /\ s.age = (IF pair.created = Unknown THEN Unknown ELSE hour - pair.created)
      /\ s.m5 = pair.m5 /\ s.h1 = pair.h1
      /\ s.ratio = (IF Unknown \in {pair.buys, pair.sells} \/ pair.sells = 0
                    THEN Unknown ELSE <<pair.buys, pair.sells>>)
      /\ s.accel = (IF Unknown \in {pair.volM5, pair.volH1} \/ pair.volH1 = 0
                    THEN Unknown ELSE <<pair.volM5 * M5WindowsPerHour, pair.volH1>>)
    BY DEF readSignals
<1> HIDE DEF s
<1>2. /\ s.m5 # Unknown /\ s.h1 # Unknown /\ s.ratio # Unknown /\ s.accel # Unknown
    BY DEF Moving, AtLeast, AtMost, RatioAtLeast, s
<1>3. s.age # Unknown /\ s.age >= Universe.minAge /\ s.age <= Universe.maxAge
    BY DEF Eligible, AtLeast, AtMost, s
<1>4. /\ pair.created # Unknown /\ pair.quote \in QuoteMints /\ pair.quote # Unknown
      /\ m \notin QuoteMints /\ Unknown \notin {pair.cap, pair.volH1, pair.txnsH1}
    BY EligibleKnows
<1>5. /\ Unknown \notin {pair.buys, pair.sells} /\ pair.sells # 0
      /\ Unknown \notin {pair.volM5, pair.volH1} /\ pair.volH1 # 0
    BY <1>1, <1>2
<1>7. pair.created \in Int
    BY <1>4, HandoverAssumption
<1>9. hour - pair.created \in Universe.minAge..Universe.maxAge
    <2>1. s.age = hour - pair.created
        BY <1>1, <1>4
    <2>. QED  BY <1>3, <1>7, <2>1, RulesAssumption
<1>10. pair.m5 # Unknown /\ pair.h1 # Unknown
    BY <1>1, <1>2
<1>. QED  BY <1>4, <1>5, <1>9, <1>10

\* Where a cycle has a snapshot in hand.
InHand == {"track", "gate", "step"}

\* The shape of the state, as far as the proofs need it.
HandTypeOK ==
    /\ clock \in Nat
    /\ screening = [at |-> screening.at, ts |-> screening.ts, rows |-> screening.rows]
    /\ cycle = [at |-> cycle.at, ts |-> cycle.ts, line |-> cycle.line, fresh |-> cycle.fresh,
                sol |-> cycle.sol, answered |-> cycle.answered]
    /\ cycle.ts \in Nat /\ screening.ts \in Nat
    /\ line # None => line.ts \in Nat
    /\ cycle.at \in InHand => cycle.line # None /\ cycle.line.ts \in Nat

\* Every pair on its way is one the market gave, and a recorded one passed the screen.
RowsScreened ==
    screening.at = "gate" =>
        \A m \in DOMAIN screening.rows :
            /\ screening.rows[m].pair \in Pairs
            /\ Eligible(m, readSignals(screening.rows[m].pair, screening.rows[m].at))

\* The newest snapshot on disk.
LineMade == line # None => \A m \in DOMAIN line.candidates : Made(line.candidates[m])

\* The one a cycle works on, which was in date when it was read.
CycleMade ==
    cycle.at \in InHand =>
        /\ cycle.ts - cycle.line.ts <= HealthyFor
        /\ \A m \in DOMAIN cycle.line.candidates : Made(cycle.line.candidates[m])

\* The pairs the cycle fetched itself.
FreshFromMarket ==
    cycle.at \in {"gate", "step"} => \A m \in DOMAIN cycle.fresh : cycle.fresh[m] \in Pairs

\* The inductive invariant.
HandoverInv ==
    /\ HandTypeOK /\ RowsScreened /\ LineMade /\ CycleMade /\ FreshFromMarket
    /\ EntryIsEarned

-----------------------------------------------------------------------------
\* The invariant holds of a directory with no recording or an old one.
LEMMA HandInit == HandoverInit => HandoverInv
<1> SUFFICES ASSUME HandoverInit PROVE HandoverInv
    OBVIOUS
<1>1. /\ clock = 0 /\ screening = IdleRecorder /\ cycle = IdleCycle /\ entries = {}
    BY DEF HandoverInit
<1>2. screening.at = "idle" /\ cycle.at = "idle" /\ cycle.ts = 0 /\ screening.ts = 0
    BY <1>1 DEF IdleRecorder, IdleCycle
<1>3. /\ screening = [at |-> screening.at, ts |-> screening.ts, rows |-> screening.rows]
      /\ cycle = [at |-> cycle.at, ts |-> cycle.ts, line |-> cycle.line, fresh |-> cycle.fresh,
                  sol |-> cycle.sol, answered |-> cycle.answered]
    BY <1>1 DEF IdleRecorder, IdleCycle
<1>4. line # None => line.ts \in Nat /\ \A m \in DOMAIN line.candidates : Made(line.candidates[m])
    <2>1. SUFFICES ASSUME line # None
                   PROVE  line.ts \in Nat /\ \A m \in DOMAIN line.candidates : Made(line.candidates[m])
        OBVIOUS
    <2>2. PICK n \in Tokens, gate \in Gates, pair \in Pairs : line = OldLine(n, gate, pair)
        BY <2>1 DEF HandoverInit
    <2>3. [pair |-> pair, at |-> 0].pair \in Pairs
        OBVIOUS
    <2>4. Made(Old(Candidate(n, [pair |-> pair, at |-> 0], gate, SolFallback, 0, TRUE)))
        BY <2>3, OldMade
    <2>5. line.ts = 0 /\ DOMAIN line.candidates = {n} /\ Made(line.candidates[n])
        BY <2>2, <2>4 DEF OldLine
    <2>. QED  BY <2>5
<1>. QED  BY <1>1, <1>2, <1>3, <1>4
          DEF HandoverInv, HandTypeOK, InHand, RowsScreened, LineMade, CycleMade,
              FreshFromMarket, EntryIsEarned

\* The recorder up to its gate, and its failures.
LEMMA RecorderKeeps ==
    ASSUME HandoverInv, BeginTick \/ AbandonTick \/ Screen
    PROVE  HandoverInv'
<1>1. HandTypeOK /\ LineMade /\ CycleMade /\ FreshFromMarket /\ EntryIsEarned
    BY DEF HandoverInv
<1>2. UNCHANGED <<clock, line, cycle, held, closed, entries>>
    BY DEF BeginTick, AbandonTick, Screen
<1>3. LineMade' /\ CycleMade' /\ FreshFromMarket' /\ EntryIsEarned'
    BY <1>1, <1>2 DEF LineMade, CycleMade, FreshFromMarket, EntryIsEarned, Earned
<1>4. SUFFICES /\ screening' = [at |-> screening'.at, ts |-> screening'.ts, rows |-> screening'.rows]
               /\ screening'.ts \in Nat /\ RowsScreened'
    BY <1>1, <1>2, <1>3 DEF HandoverInv, HandTypeOK
<1>5. /\ screening = [at |-> screening.at, ts |-> screening.ts, rows |-> screening.rows]
      /\ screening.ts \in Nat /\ clock \in Nat
    BY <1>1 DEF HandTypeOK
<1>6. CASE BeginTick
    <2>1. screening' = [at |-> "fetch", ts |-> clock, rows |-> << >>]
        BY <1>6 DEF BeginTick, IdleRecorder
    <2>. QED  BY <1>5, <2>1 DEF RowsScreened
<1>7. CASE AbandonTick
    <2>1. screening' = [at |-> "idle", ts |-> 0, rows |-> << >>]
        BY <1>7 DEF AbandonTick, IdleRecorder
    <2>. QED  BY <2>1 DEF RowsScreened
<1>8. CASE Screen
    <2>1. PICK found \in SUBSET Tokens : \E market \in [found -> Pairs] :
          LET screened == {m \in found : Eligible(m, readSignals(market[m], clock))}
          IN screening' = [screening EXCEPT
                            !.at = "gate",
                            !.rows = [m \in screened |-> [pair |-> market[m], at |-> clock]]]
        BY <1>8 DEF Screen
    <2>2. PICK market \in [found -> Pairs] :
          LET screened == {m \in found : Eligible(m, readSignals(market[m], clock))}
          IN screening' = [screening EXCEPT
                            !.at = "gate",
                            !.rows = [m \in screened |-> [pair |-> market[m], at |-> clock]]]
        BY <2>1
    <2> DEFINE screened == {m \in found : Eligible(m, readSignals(market[m], clock))}
               rows == [m \in screened |-> [pair |-> market[m], at |-> clock]]
    <2>3. \A m \in screened : market[m] \in Pairs /\ Eligible(m, readSignals(market[m], clock))
        OBVIOUS
    <2>4. DOMAIN rows = screened /\ \A m \in screened : rows[m].pair = market[m] /\ rows[m].at = clock
        OBVIOUS
    <2>5. screening' = [screening EXCEPT !.at = "gate", !.rows = rows]
        BY <2>2
    <2> HIDE DEF rows, screened
    <2>6. screening' = [at |-> "gate", ts |-> screening.ts, rows |-> rows]
        BY <1>5, <2>5
    <2>7. /\ screening'.at = "gate" /\ screening'.ts = screening.ts /\ screening'.rows = rows
        BY <2>6
    <2>8. \A m \in DOMAIN rows : /\ rows[m].pair \in Pairs
                                 /\ Eligible(m, readSignals(rows[m].pair, rows[m].at))
        BY <2>3, <2>4
    <2>9. RowsScreened'
        BY <2>7, <2>8 DEF RowsScreened
    <2>. QED  BY <1>5, <2>6, <2>7, <2>9
<1>. QED  BY <1>6, <1>7, <1>8

\* The append.
LEMMA RecordKeeps ==
    ASSUME HandoverInv, RecordTick
    PROVE  HandoverInv'
<1>1. HandTypeOK /\ RowsScreened /\ CycleMade /\ FreshFromMarket /\ EntryIsEarned
    BY DEF HandoverInv
<1>2. UNCHANGED <<clock, cycle, held, closed, entries>> /\ screening.at = "gate"
    BY DEF RecordTick
<1>3. CycleMade' /\ FreshFromMarket' /\ EntryIsEarned'
    BY <1>1, <1>2 DEF CycleMade, FreshFromMarket, EntryIsEarned, Earned
<1>4. screening' = [at |-> "idle", ts |-> 0, rows |-> << >>]
    BY DEF RecordTick, IdleRecorder
<1>5. RowsScreened'
    BY <1>4 DEF RowsScreened
<1> DEFINE rows == screening.rows
<1>6. PICK gates \in [DOMAIN rows -> Gates], survives \in [DOMAIN rows -> Survives],
           sol \in solPriceFrom({rows[m].pair : m \in DOMAIN rows}) :
        line' = [ts |-> screening.ts, wrote |-> clock,
                 candidates |-> [m \in DOMAIN rows |->
                    Candidate(m, rows[m], gates[m], sol, screening.ts, survives[m])]]
    BY DEF RecordTick
<1>7. /\ line'.ts = screening.ts /\ DOMAIN line'.candidates = DOMAIN rows
      /\ \A m \in DOMAIN rows :
           line'.candidates[m] = Candidate(m, rows[m], gates[m], sol, screening.ts, survives[m])
    BY <1>6
<1>8. \A m \in DOMAIN rows : rows[m].pair \in Pairs /\ Eligible(m, readSignals(rows[m].pair, rows[m].at))
    BY <1>1, <1>2 DEF RowsScreened
<1> HIDE DEF rows
<1>9. \A m \in DOMAIN rows : Made(line'.candidates[m])
    BY <1>7, <1>8, CandidateMade
<1>10. LineMade'
    BY <1>7, <1>9 DEF LineMade
<1>11. HandTypeOK'
    <2>1. line'.ts \in Nat
        BY <1>1, <1>7 DEF HandTypeOK
    <2>. QED  BY <1>1, <1>2, <1>4, <2>1 DEF HandTypeOK
<1>. QED  BY <1>3, <1>5, <1>10, <1>11 DEF HandoverInv

\* The cycle starts, and gives up on a stale recording.
LEMMA CycleStarts ==
    ASSUME HandoverInv, StartCycle \/ LeaveStale
    PROVE  HandoverInv'
<1>1. HandTypeOK /\ RowsScreened /\ LineMade /\ EntryIsEarned
    BY DEF HandoverInv
<1>2. UNCHANGED <<clock, line, screening>>
    BY DEF StartCycle, LeaveStale
<1>3. \E ts \in Nat, a \in {"idle", "read"} :
         cycle' = [at |-> a, ts |-> ts, line |-> None, fresh |-> << >>,
                   sol |-> SolFallback, answered |-> {}]
    <2>1. CASE StartCycle
        <3>1. cycle' = [at |-> "read", ts |-> clock, line |-> None, fresh |-> << >>,
                        sol |-> SolFallback, answered |-> {}]
            BY <2>1 DEF StartCycle, IdleCycle
        <3>2. clock \in Nat
            BY <1>1 DEF HandTypeOK
        <3>. QED  BY <3>1, <3>2
    <2>2. CASE LeaveStale
        BY <2>2 DEF LeaveStale, IdleCycle
    <2>. QED  BY <2>1, <2>2
<1>4. /\ cycle'.at \in {"idle", "read"} /\ cycle'.ts \in Nat
      /\ cycle' = [at |-> cycle'.at, ts |-> cycle'.ts, line |-> cycle'.line,
                   fresh |-> cycle'.fresh, sol |-> cycle'.sol, answered |-> cycle'.answered]
    BY <1>3
<1>5. EntryIsEarned'
    <2>1. entries' = {} \/ entries' = entries
        BY DEF StartCycle, LeaveStale
    <2>. QED  BY <1>1, <2>1 DEF EntryIsEarned, Earned
<1>6. HandTypeOK'
    BY <1>1, <1>2, <1>4 DEF HandTypeOK, InHand
<1>7. RowsScreened' /\ LineMade'
    BY <1>1, <1>2 DEF RowsScreened, LineMade
<1>8. CycleMade' /\ FreshFromMarket'
    BY <1>4 DEF CycleMade, FreshFromMarket, InHand
<1>. QED  BY <1>5, <1>6, <1>7, <1>8 DEF HandoverInv

\* The cycle's reads: the recording, the fresh pairs, the gate.
LEMMA CycleMoves ==
    ASSUME HandoverInv, Read \/ Track \/ GateTracked
    PROVE  HandoverInv'
<1>1. HandTypeOK /\ RowsScreened /\ LineMade /\ CycleMade /\ FreshFromMarket /\ EntryIsEarned
    BY DEF HandoverInv
<1>2. UNCHANGED <<clock, line, screening, held, closed, entries>>
    BY DEF Read, Track, GateTracked
<1>3. RowsScreened' /\ LineMade' /\ EntryIsEarned'
    BY <1>1, <1>2 DEF RowsScreened, LineMade, EntryIsEarned, Earned
<1>4. cycle = [at |-> cycle.at, ts |-> cycle.ts, line |-> cycle.line, fresh |-> cycle.fresh,
               sol |-> cycle.sol, answered |-> cycle.answered]
    BY <1>1 DEF HandTypeOK
<1> SUFFICES /\ cycle' = [at |-> cycle'.at, ts |-> cycle'.ts, line |-> cycle'.line,
                          fresh |-> cycle'.fresh, sol |-> cycle'.sol,
                          answered |-> cycle'.answered]
             /\ cycle'.ts \in Nat
             /\ cycle'.at \in InHand => cycle'.line # None /\ cycle'.line.ts \in Nat
             /\ CycleMade' /\ FreshFromMarket'
    BY <1>1, <1>2, <1>3 DEF HandoverInv, HandTypeOK
<1>5. CASE Read
    <2> DEFINE to == IF isRecorderHealthy(line) THEN "track" ELSE "stale"
    <2>1. cycle' = [cycle EXCEPT !.at = to, !.line = line]
        BY <1>5 DEF Read
    <2>2. to = "stale" \/ (to = "track" /\ isRecorderHealthy(line))
        OBVIOUS
    <2> HIDE DEF to
    <2>3. cycle' = [at |-> to, ts |-> cycle.ts, line |-> line, fresh |-> cycle.fresh,
                    sol |-> cycle.sol, answered |-> cycle.answered]
        BY <1>4, <2>1
    <2>4. cycle'.at = to /\ cycle'.ts = cycle.ts /\ cycle'.line = line
        BY <2>3
    <2>5. cycle'.at \in InHand => line # None /\ cycle.ts - line.ts <= HealthyFor
        BY <2>2, <2>4 DEF InHand, isRecorderHealthy
    <2>6. CycleMade'
        BY <1>1, <2>4, <2>5 DEF CycleMade, LineMade
    <2>7. FreshFromMarket'
        BY <2>2, <2>4 DEF FreshFromMarket
    <2>8. cycle'.ts \in Nat /\ (cycle'.at \in InHand => cycle'.line # None /\ cycle'.line.ts \in Nat)
        BY <1>1, <2>4, <2>5 DEF HandTypeOK
    <2>. QED  BY <2>3, <2>6, <2>7, <2>8
<1>6. CASE Track
    <2>1. PICK found \in SUBSET tracked : \E fresh \in [found -> Pairs] :
             cycle' = [cycle EXCEPT !.at = "gate", !.fresh = fresh]
        BY <1>6 DEF Track
    <2>2. PICK fresh \in [found -> Pairs] : cycle' = [cycle EXCEPT !.at = "gate", !.fresh = fresh]
        BY <2>1
    <2>3. cycle' = [at |-> "gate", ts |-> cycle.ts, line |-> cycle.line, fresh |-> fresh,
                    sol |-> cycle.sol, answered |-> cycle.answered]
        BY <1>4, <2>2
    <2>4. /\ cycle'.at = "gate" /\ cycle'.ts = cycle.ts /\ cycle'.line = cycle.line
          /\ cycle'.fresh = fresh /\ cycle.at = "track"
        BY <1>6, <2>3 DEF Track
    <2>5. CycleMade' /\ cycle'.ts \in Nat
          /\ (cycle'.at \in InHand => cycle'.line # None /\ cycle'.line.ts \in Nat)
        BY <1>1, <2>4 DEF CycleMade, HandTypeOK, InHand
    <2>6. FreshFromMarket'
        BY <2>4 DEF FreshFromMarket
    <2>. QED  BY <2>3, <2>5, <2>6
<1>7. CASE GateTracked
    <2>1. PICK sol : cycle' = [cycle EXCEPT !.at = "step", !.sol = sol,
                                 !.answered = DOMAIN cycle.fresh \ ScreenedMints]
        BY <1>7 DEF GateTracked
    <2> DEFINE answered == DOMAIN cycle.fresh \ ScreenedMints
    <2>2. cycle' = [cycle EXCEPT !.at = "step", !.sol = sol, !.answered = answered]
        BY <2>1
    <2> HIDE DEF answered
    <2>3. cycle' = [at |-> "step", ts |-> cycle.ts, line |-> cycle.line, fresh |-> cycle.fresh,
                    sol |-> sol, answered |-> answered]
        BY <1>4, <2>2
    <2>4. /\ cycle'.at = "step" /\ cycle'.ts = cycle.ts /\ cycle'.line = cycle.line
          /\ cycle'.fresh = cycle.fresh /\ cycle.at = "gate"
        BY <1>7, <2>3 DEF GateTracked
    <2>5. CycleMade' /\ cycle'.ts \in Nat
          /\ (cycle'.at \in InHand => cycle'.line # None /\ cycle'.line.ts \in Nat)
        BY <1>1, <2>4 DEF CycleMade, HandTypeOK, InHand
    <2>6. FreshFromMarket'
        BY <1>1, <2>4 DEF FreshFromMarket
    <2>. QED  BY <2>3, <2>5, <2>6
<1>. QED  BY <1>5, <1>6, <1>7

\* The first of at most two pairs of a mint.
LEMMA FirstOfTwo ==
    ASSUME NEW S, S \subseteq 1..2, S # {}
    PROVE  (CHOOSE i \in S : \A j \in S : i <= j) \in S
<1>1. CASE 1 \in S
    <2>1. \A j \in S : 1 <= j
        OBVIOUS
    <2>. QED  BY <1>1, <2>1
<1>2. CASE 1 \notin S
    <2>1. \A j \in S : j = 2
        BY <1>2
    <2>2. 2 \in S
        <3>1. PICK j \in S : TRUE
            OBVIOUS
        <3>. QED  BY <2>1, <3>1
    <2>3. \A j \in S : 2 <= j
        BY <2>1
    <2>. QED  BY <2>2, <2>3
<1>. QED  BY <1>1, <1>2

\* A pair of the step that qualifies has earned the entry.
LEMMA QualifiesEarned ==
    ASSUME HandoverInv, cycle.at = "step", NEW m, NEW i \in 1..2, NEW open, NEW survives,
           Qualifies(m, i, open, survives)
    PROVE  Earned(Entry(m, i))
<1> DEFINE c == cycle.line.candidates[m]
           raw == IF tickPairs[i] = cycle.fresh THEN cycle.fresh[m] ELSE c.raw
           hour == cycle.ts
           pair == tickPairs[i][m]
           s == readSignals(pair, hour)
<1>1. HandTypeOK /\ CycleMade /\ FreshFromMarket
    BY DEF HandoverInv
<1>2. /\ m \in DOMAIN tickPairs[i] /\ m \in ScreenedMints
      /\ costsFor(GateOf(m), cycle.sol) # Unknown
      /\ decideEntry(m, pair, hour, open, GateOf(m).buyable, costsFor(GateOf(m), cycle.sol), survives[m])
    BY DEF Qualifies
<1>3. Made(c) /\ cycle.ts - cycle.line.ts <= HealthyFor
    BY <1>1, <1>2 DEF CycleMade, InHand, ScreenedMints
<1>4. GateOf(m).buyable = c.buyable /\ GateOf(m).buy = c.buy /\ GateOf(m).sell = c.sell
    BY DEF GateOf
<1>5. c.buy # Unknown /\ c.sell # Unknown
    BY <1>2, <1>4 DEF costsFor
<1>6. ~ c.old
    BY <1>3, <1>5 DEF Made
<1>7. GateOf(m).buyable /\ Eligible(m, s) /\ Moving(s)
    BY <1>2 DEF decideEntry
<1>8. c.gate.buyable /\ c.gate.buy # Unknown /\ c.gate.sell # Unknown
    BY <1>3, <1>4, <1>5, <1>6, <1>7 DEF Made
<1>9. raw \in Pairs /\ s = readSignals(raw, hour)
    <2>1. tickPairs[1] = [n \in ScreenedMints |-> Recorded(n)] /\ tickPairs[2] = cycle.fresh
        BY DEF tickPairs
    <2>2. CASE tickPairs[i] = cycle.fresh
        BY <1>1, <1>2, <2>2 DEF FreshFromMarket
    <2>3. CASE tickPairs[i] # cycle.fresh
        <3>1. i = 1
            BY <2>1, <2>3
        <3>2. pair = candidateToPair(c, cycle.line.ts)
            BY <1>2, <2>1, <3>1 DEF Recorded
        <3>3. readSignals(candidateToPair(c, cycle.line.ts), hour) = readSignals(c.raw, hour)
            BY <1>3, <1>6, SignalsSame
        <3>4. c.raw \in Pairs
            BY <1>3 DEF Made
        <3>. QED  BY <2>3, <3>2, <3>3, <3>4
    <2>. QED  BY <2>2, <2>3
<1>10. cycle.ts \in Int
    BY <1>1 DEF HandTypeOK
<1>11. /\ Entry(m, i).mint = m /\ Entry(m, i).at = hour /\ Entry(m, i).raw = raw
       /\ Entry(m, i).gate = c.gate /\ Entry(m, i).gatedAt = cycle.line.ts
       /\ Entry(m, i).old = c.old
    BY DEF Entry
<1> HIDE DEF raw, s, c, pair
<1>12. Eligible(m, readSignals(raw, hour)) /\ Moving(readSignals(raw, hour))
    BY <1>7, <1>9
<1>13. /\ Unknown \notin {raw.created, raw.cap, raw.volM5, raw.volH1, raw.buys,
                          raw.sells, raw.txnsH1, raw.m5, raw.h1, raw.quote}
       /\ raw.sells # 0 /\ raw.volH1 # 0
       /\ raw.quote \in QuoteMints /\ m \notin QuoteMints
       /\ hour - raw.created \in Universe.minAge..Universe.maxAge
    BY <1>9, <1>10, <1>12, RulesRead
<1> HIDE DEF hour
<1>. QED  BY <1>3, <1>6, <1>8, <1>11, <1>13 DEF hour, Earned

\* The step of the engine opens what qualifies.
LEMMA StepKeeps ==
    ASSUME HandoverInv, Step
    PROVE  HandoverInv'
<1>1. HandTypeOK /\ RowsScreened /\ LineMade /\ CycleMade /\ FreshFromMarket /\ EntryIsEarned
    BY DEF HandoverInv
<1>2. UNCHANGED <<clock, line, screening>> /\ cycle' = IdleCycle /\ cycle.at = "step"
    BY DEF Step
<1>3. RowsScreened' /\ LineMade'
    BY <1>1, <1>2 DEF RowsScreened, LineMade
<1>4. HandTypeOK' /\ CycleMade' /\ FreshFromMarket'
    BY <1>1, <1>2 DEF HandTypeOK, CycleMade, FreshFromMarket, InHand, IdleCycle
<1>5. EntryIsEarned'
    <2>1. PICK sold \in SUBSET held, opened \in SUBSET Tokens, survives \in [Tokens -> Survives] :
             LET open == held \ sold
                 on == [m \in opened |-> {i \in 1..2 : Qualifies(m, i, open, survives)}]
             IN /\ opened \cap sold = {}
                /\ \A m \in opened : on[m] # {}
                /\ Cardinality(open \cup opened) <= MaxPositions
                /\ held' = open \cup opened
                /\ closed' = closed \cup sold
                /\ entries' = {Entry(m, CHOOSE i \in on[m] : \A j \in on[m] : i <= j) : m \in opened}
        BY Zenon DEF Step
    <2> DEFINE open == held \ sold
               on == [m \in opened |-> {i \in 1..2 : Qualifies(m, i, open, survives)}]
    <2>2. /\ \A m \in opened : on[m] # {}
          /\ entries' = {Entry(m, CHOOSE i \in on[m] : \A j \in on[m] : i <= j) : m \in opened}
        BY <2>1
    <2>3. \A m \in opened : on[m] = {i \in 1..2 : Qualifies(m, i, open, survives)}
        OBVIOUS
    <2> HIDE DEF on, open
    <2>4. SUFFICES ASSUME NEW e \in entries' PROVE Earned(e)'
        BY DEF EntryIsEarned, Earned
    <2>5. PICK m \in opened : e = Entry(m, CHOOSE i \in on[m] : \A j \in on[m] : i <= j)
        BY <2>2, <2>4
    <2> DEFINE i == CHOOSE i \in on[m] : \A j \in on[m] : i <= j
    <2>6. on[m] # {} /\ on[m] \subseteq 1..2
        BY <2>2, <2>3
    <2>7. i \in on[m]
        BY <2>6, FirstOfTwo
    <2> HIDE DEF i
    <2>8. i \in 1..2 /\ Qualifies(m, i, open, survives)
        BY <2>3, <2>7
    <2>9. e = Entry(m, i)
        BY <2>5 DEF i
    <2>10. Earned(e)
        BY <1>2, <2>8, <2>9, QualifiesEarned
    <2>. QED  BY <2>10 DEF Earned
<1>. QED  BY <1>3, <1>4, <1>5 DEF HandoverInv

\* Time takes nothing back: the age of a snapshot counts when it is read.
LEMMA ClockKeeps ==
    ASSUME HandoverInv, ClockTicks \/ UNCHANGED handVars
    PROVE  HandoverInv'
<1>1. HandTypeOK /\ RowsScreened /\ LineMade /\ CycleMade /\ FreshFromMarket /\ EntryIsEarned
    BY DEF HandoverInv
<1>2. /\ UNCHANGED <<line, screening, cycle, held, closed, entries>>
      /\ clock' = clock + 1 \/ clock' = clock
    BY DEF ClockTicks, handVars
<1>3. clock' \in Nat
    BY <1>1, <1>2 DEF HandTypeOK
<1>4. HandTypeOK'
    BY <1>1, <1>2, <1>3 DEF HandTypeOK, InHand
<1>5. RowsScreened' /\ LineMade'
    BY <1>1, <1>2 DEF RowsScreened, LineMade
<1>6. CycleMade' /\ FreshFromMarket'
    BY <1>1, <1>2 DEF CycleMade, FreshFromMarket, InHand
<1>7. EntryIsEarned'
    BY <1>1, <1>2 DEF EntryIsEarned, Earned
<1>. QED  BY <1>4, <1>5, <1>6, <1>7 DEF HandoverInv

\* Every step keeps the invariant.
LEMMA HandoverStep == HandoverInv /\ [HandoverNext]_handVars => HandoverInv'
<1> SUFFICES ASSUME HandoverInv, [HandoverNext]_handVars PROVE HandoverInv'
    OBVIOUS
<1>1. CASE BeginTick \/ Screen \/ AbandonTick
    BY <1>1, RecorderKeeps
<1>2. CASE RecordTick
    BY <1>2, RecordKeeps
<1>3. CASE StartCycle \/ LeaveStale
    BY <1>3, CycleStarts
<1>4. CASE Read \/ Track \/ GateTracked
    BY <1>4, CycleMoves
<1>5. CASE Step
    BY <1>5, StepKeeps
<1>6. CASE ClockTicks \/ UNCHANGED handVars
    BY <1>6, ClockKeeps
<1>. QED  BY <1>1, <1>2, <1>3, <1>4, <1>5, <1>6 DEF HandoverNext

\* The invariant of the way from the market to the book.
THEOREM HandoverHolds == HandoverSpec => []HandoverInv
<1>. QED  BY HandInit, HandoverStep, PTL DEF HandoverSpec

\* Whatever is opened rests on numbers the market gave, all of them known, on a gate
\* that passed with measured impacts, and on a snapshot in date (tail.js:41-42).
THEOREM EntriesAreEarned == HandoverSpec => []EntryIsEarned
<1>1. HandoverInv => EntryIsEarned
    BY DEF HandoverInv
<1>. QED  BY HandoverHolds, <1>1, PTL

\* A recorded candidate gives the signals of the pair it was made from, whenever it
\* is judged again (tail.js:36-38).
THEOREM SignalsAreKept == HandoverSpec => []SignalsSurviveTheFile
<1>1. HandoverInv => SignalsSurviveTheFile
    <2> SUFFICES ASSUME HandoverInv, line # None,
                        NEW m \in DOMAIN line.candidates,
                        ~ line.candidates[m].old, NEW t \in clock..MaxClock
                 PROVE  readSignals(candidateToPair(line.candidates[m], line.ts), t)
                          = readSignals(line.candidates[m].raw, t)
        BY DEF SignalsSurviveTheFile
    <2>1. Made(line.candidates[m])
        BY DEF HandoverInv, LineMade
    <2>. QED  BY <2>1, SignalsSame
<1>. QED  BY HandoverHolds, <1>1, PTL

\* Two pairs of one mint: the later one's price.
LEMMA LastOfTwo ==
    ASSUME NEW S, S \subseteq 1..2, 2 \in S
    PROVE  (CHOOSE i \in S : \A j \in S : j <= i) = 2
<1>1. \A j \in S : j <= 2
    OBVIOUS
<1>2. \A i \in S : (\A j \in S : j <= i) => i = 2
    OBVIOUS
<1> DEFINE P(i) == \A j \in S : j <= i
<1>3. \E i \in S : P(i)
    BY <1>1
<1>4. (CHOOSE i \in S : P(i)) \in S /\ P(CHOOSE i \in S : P(i))
    BY <1>3
<1>. QED  BY <1>2, <1>4

\* A held mint is marked at the fetched price whatever else the step's list says of
\* it (bot.js:439).
THEOREM FreshPricesWin == HandoverSpec => []FreshPriceWins
<1>1. FreshPriceWins
    <2> SUFFICES ASSUME NEW m \in held \cap DOMAIN cycle.fresh,
                        AtLeast(cycle.fresh[m].price, 1)
                 PROVE  priceOf(m) = cycle.fresh[m].price
        BY DEF FreshPriceWins
    <2> DEFINE priced == {i \in 1..2 : m \in DOMAIN tickPairs[i] /\ AtLeast(tickPairs[i][m].price, 1)}
    <2>1. tickPairs[2] = cycle.fresh
        BY DEF tickPairs
    <2>2. priced \subseteq 1..2 /\ 2 \in priced
        BY <2>1
    <2>3. priceOf(m) = IF priced = {} THEN Unknown
                       ELSE tickPairs[CHOOSE i \in priced : \A j \in priced : j <= i][m].price
        BY DEF priceOf
    <2> HIDE DEF priced
    <2>4. (CHOOSE i \in priced : \A j \in priced : j <= i) = 2
        BY <2>2, LastOfTwo
    <2>. QED  BY <2>1, <2>2, <2>3, <2>4
<1>. QED  BY <1>1, PTL
=============================================================================
