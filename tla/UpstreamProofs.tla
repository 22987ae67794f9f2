---------------------------- MODULE UpstreamProofs ----------------------------
(***************************************************************************)
(* The quota of an upstream, for every limit, window, number of callers,   *)
(* attempts and failures; and the attempts of the RPC client: each takes   *)
(* one slot, in turn and after its backoff, and none meets a connection    *)
(* already known to have failed.  What the chain readers conclude about a  *)
(* wallet, for every history, pruning, page size and limit.  And the radar *)
(* with the reader of its file, for any number of mints, retries, deaths   *)
(* and any batch: a mint in the queue is not announced, one that was is    *)
(* not queued, and the seen file knows both (SeenOnce).                    *)
(***************************************************************************)
EXTENDS RpcClient, DeployerHistory, Radar, FiniteSetTheorems, WellFoundedInduction, TLAPS

\* How many starts the limiter has forgotten.
Dropped == Len(starts) - Len(granted)

\* What the limiter still remembers is the tail of what it granted, and what it
\* has forgotten is out of the window for good.
Remembers ==
    /\ Dropped \in Nat
    /\ \A i \in 1..Len(granted) : granted[i] = starts[Dropped + i].at
    /\ \A i \in 1..Dropped : starts[i].at + WindowMs < now

\* About to grant, there is a slot free and somebody to take it.
GrantReady == pump = "grant" => Len(granted) < RequestsPerMinute /\ queue # << >>

LimiterInv == LimiterTypeOK /\ Remembers /\ GrantReady /\ WindowHolds

-----------------------------------------------------------------------------
LEMMA SlotType ==
    ASSUME NEW S, NEW f \in Seq(S), NEW i \in 1..Len(f)
    PROVE  f[i] \in S
    OBVIOUS

LEMMA EntryType ==
    ASSUME NEW f \in Seq([task : Tasks, at : Nat]), NEW i \in 1..Len(f)
    PROVE  f[i].at \in Nat
<1> DEFINE S == [task : Tasks, at : Nat]
<1>1. \A e \in S : e.at \in Nat
    OBVIOUS
<1>2. f \in Seq(S)
    OBVIOUS
<1> HIDE DEF S
<1>3. f[i] \in S
    BY <1>2, SlotType
<1>. QED  BY <1>1, <1>3

\* What a sequence leaves after its first k entries.
LEMMA TailFrom ==
    ASSUME NEW f \in Seq(Nat), NEW k \in 0..Len(f), NEW g,
           g = SubSeq(f, k + 1, Len(f))
    PROVE  /\ g \in Seq(Nat) /\ Len(g) \in Nat /\ Len(g) = Len(f) - k
           /\ \A i \in 1..Len(g) : k + i \in 1..Len(f) /\ g[i] = f[k + i]
<1>1. Len(f) \in Nat
    OBVIOUS
<1>2. g \in Seq(Nat)
    OBVIOUS
<1>3. Len(g) = Len(f) - k
    BY <1>1
<1>4. ASSUME NEW i \in 1..Len(g)
      PROVE  k + i \in 1..Len(f) /\ g[i] = f[k + i]
    <2>1. i \in Nat /\ 1 <= i /\ i <= Len(f) - k
        BY <1>1, <1>3
    <2>2. k + i \in 1..Len(f)
        BY <1>1, <2>1
    <2>3. i \in 1..((Len(f) - (k + 1)) + 1)
        BY <1>1, <2>1
    <2>4. g[i] = f[((k + 1) + i) - 1]
        BY <1>1, <2>3
    <2>5. ((k + 1) + i) - 1 = k + i
        BY <2>1
    <2>. QED  BY <2>2, <2>4, <2>5
<1>. QED  BY <1>1, <1>2, <1>3, <1>4

LEMMA LimiterInitOK == LimiterInit => LimiterInv
    BY LimiterAssumption
    DEF LimiterInit, LimiterInv, LimiterTypeOK, Remembers, Dropped, GrantReady, WindowHolds

\* The slot after a dropped one waits a whole window: the tail is shorter than
\* the limit, so the start a limit's length earlier is among the dropped.
LEMMA GrantKeepsWindow ==
    ASSUME LimiterInv, GrantSlot
    PROVE  LimiterInv'
<1> USE LimiterAssumption
<1> DEFINE s == [task |-> Head(queue), at |-> now]
<1>1. /\ now \in Nat /\ wakeAt \in Nat
      /\ granted \in Seq(Nat) /\ queue \in Seq(Tasks)
      /\ starts \in Seq([task : Tasks, at : Nat])
    BY DEF LimiterInv, LimiterTypeOK
<1>2. /\ pump = "grant" /\ pump' = "look"
      /\ queue' = Tail(queue) /\ granted' = Append(granted, now)
      /\ starts' = Append(starts, s)
      /\ now' = now /\ wakeAt' = wakeAt
    BY DEF GrantSlot, Rest
<1>3. Len(granted) < RequestsPerMinute /\ queue # << >>
    BY <1>2 DEF LimiterInv, GrantReady
<1>4. Head(queue) \in Tasks /\ Tail(queue) \in Seq(Tasks)
    BY <1>1, <1>3
<1>5. s \in [task : Tasks, at : Nat]
    BY <1>1, <1>4
<1> HIDE DEF s
<1>6. /\ Len(starts') = Len(starts) + 1
      /\ \A i \in 1..Len(starts) : starts'[i] = starts[i]
      /\ starts'[Len(starts) + 1] = s
    BY <1>1, <1>2, <1>5
<1>7. /\ Len(granted') = Len(granted) + 1
      /\ \A i \in 1..Len(granted) : granted'[i] = granted[i]
      /\ granted'[Len(granted) + 1] = now
    BY <1>1, <1>2
<1>8. s.at = now
    BY DEF s
<1>9. LimiterTypeOK'
    BY <1>1, <1>2, <1>4, <1>5 DEF LimiterTypeOK
<1>10. /\ Dropped \in Nat
       /\ \A i \in 1..Len(granted) : granted[i] = starts[Dropped + i].at
       /\ \A i \in 1..Dropped : starts[i].at + WindowMs < now
    BY DEF LimiterInv, Remembers
<1>11. Dropped' = Dropped /\ Len(starts) = Dropped + Len(granted)
    BY <1>1, <1>6, <1>7 DEF Dropped
<1>12. Remembers'
    <2>1. Len(starts) \in Nat /\ Len(granted) \in Nat
        BY <1>1
    <2>2. \A i \in 1..Dropped : starts'[i] = starts[i]
        BY <1>6, <1>10, <1>11, <2>1
    <2>3. ASSUME NEW i \in 1..Len(granted)'
          PROVE  granted'[i] = starts'[Dropped + i].at
        <3>1. CASE i \in 1..Len(granted)
            <4>1. Dropped + i \in 1..Len(starts)
                BY <1>10, <1>11, <2>1, <3>1
            <4>. QED  BY <1>6, <1>7, <1>10, <3>1, <4>1
        <3>2. CASE i = Len(granted) + 1
            <4>1. Dropped + i = Len(starts) + 1
                BY <1>10, <1>11, <2>1, <3>2
            <4>. QED  BY <1>6, <1>7, <1>8, <3>2, <4>1
        <3>. QED  BY <1>7, <2>1, <3>1, <3>2
    <2>4. \A i \in 1..Dropped : starts'[i].at + WindowMs < now'
        BY <1>2, <1>10, <2>2
    <2>. QED  BY <1>10, <1>11, <2>3, <2>4 DEF Remembers
<1>13. GrantReady'
    BY <1>2 DEF GrantReady
<1>14. WindowHolds'
    <2> SUFFICES ASSUME NEW i \in 1..Len(starts'), NEW j \in 1..Len(starts'),
                        j = i + RequestsPerMinute
                 PROVE  starts'[j].at > starts'[i].at + WindowMs
        BY DEF WindowHolds
    <2>0. Len(starts) \in Nat /\ Len(granted) \in Nat
        BY <1>1
    <2>1. CASE j \in 1..Len(starts)
        <3>1. i \in 1..Len(starts)
            BY <1>6, <2>0, <2>1
        <3>2. starts[j].at > starts[i].at + WindowMs
            BY <2>1, <3>1 DEF LimiterInv, WindowHolds
        <3>. QED  BY <1>6, <2>1, <3>1, <3>2
    <2>2. CASE j = Len(starts) + 1
        <3>1. i \in 1..Dropped
            BY <1>3, <1>6, <1>10, <1>11, <2>0, <2>2
        <3>2. starts[i].at + WindowMs < now
            BY <1>10, <3>1
        <3>3. starts'[i] = starts[i] /\ starts'[j].at = now
            <4>1. i \in 1..Len(starts)
                BY <1>10, <1>11, <2>0, <3>1
            <4>. QED  BY <1>6, <1>8, <2>2, <4>1
        <3>4. starts[i].at \in Nat
            <4>1. i \in 1..Len(starts)
                BY <1>10, <1>11, <2>0, <3>1
            <4>. QED  BY <1>1, <4>1, EntryType
        <3>. QED  BY <1>1, <3>2, <3>3, <3>4
    <2>. QED  BY <1>6, <2>0, <2>1, <2>2
<1>. QED  BY <1>9, <1>12, <1>13, <1>14 DEF LimiterInv

\* Forgetting the expired prefix forgets nothing that still counts.
LEMMA LookKeepsTail ==
    ASSUME LimiterInv, LookForSlot
    PROVE  LimiterInv'
<1> USE LimiterAssumption
<1>1. /\ now \in Nat /\ wakeAt \in Nat
      /\ granted \in Seq(Nat) /\ queue \in Seq(Tasks)
      /\ starts \in Seq([task : Tasks, at : Nat])
    BY DEF LimiterInv, LimiterTypeOK
<1>2. PICK k \in 0..Len(granted) :
          /\ Expired(k, now)
          /\ granted' = SubSeq(granted, k + 1, Len(granted))
          /\ LET wait == IF Len(granted') < RequestsPerMinute THEN 0
                         ELSE MsUntilFree(granted', now)
             IN IF wait = 0 THEN pump' = "grant" /\ wakeAt' = wakeAt
                            ELSE pump' = "sleep" /\ wakeAt' = now + wait
    BY DEF LookForSlot
<1>3. queue # << >> /\ now' = now /\ queue' = queue /\ starts' = starts
    BY DEF LookForSlot
<1>4. /\ granted' \in Seq(Nat) /\ Len(granted) \in Nat /\ Len(granted') \in Nat
      /\ Len(granted') = Len(granted) - k
      /\ \A i \in 1..Len(granted') : /\ k + i \in 1..Len(granted)
                                     /\ granted'[i] = granted[k + i]
    <2>1. granted' = SubSeq(granted, k + 1, Len(granted))
        BY <1>2
    <2>2. granted \in Seq(Nat) /\ k \in 0..Len(granted)
        BY <1>1
    <2>3. Len(granted) \in Nat
        BY <2>2
    <2>4. /\ granted' \in Seq(Nat) /\ Len(granted') \in Nat
          /\ Len(granted') = Len(granted) - k
          /\ \A i \in 1..Len(granted') : /\ k + i \in 1..Len(granted)
                                         /\ granted'[i] = granted[k + i]
        BY <2>1, <2>2, TailFrom, ZenonT(30)
    <2>. QED  BY <2>3, <2>4
<1>5. Len(granted') >= RequestsPerMinute => MsUntilFree(granted', now) \in Nat \ {0}
    <2> SUFFICES ASSUME Len(granted') >= RequestsPerMinute
                 PROVE  MsUntilFree(granted', now) \in Nat \ {0}
        OBVIOUS
    <2>1. Len(granted') >= 1
        BY <1>4
    <2>2. granted'[1] = granted[k + 1] /\ k + 1 \in 1..Len(granted)
        <3>1. 1 \in 1..Len(granted')
            BY <1>4, <2>1
        <3>. QED  BY <1>4, <3>1
    <2>3. granted[k + 1] \in Nat /\ ~ (granted[k + 1] + WindowMs < now)
        <3>1. granted[k + 1] \in Nat
            BY <1>1, <2>2, SlotType
        <3>2. ~ (k + 1 <= k)
            OBVIOUS
        <3>. QED  BY <1>2, <2>2, <3>1, <3>2 DEF Expired
    <2>4. (granted[k + 1] + WindowMs) - now \in Nat
        BY <1>1, <2>3
    <2>. QED  BY <2>2, <2>4 DEF MsUntilFree
<1>6. /\ pump' \in {"grant", "sleep"} /\ wakeAt' \in Nat
      /\ pump' = "grant" => Len(granted') < RequestsPerMinute
    <2>1. CASE Len(granted') < RequestsPerMinute
        BY <1>1, <1>2, <2>1
    <2>2. CASE ~ (Len(granted') < RequestsPerMinute)
        <3>1. MsUntilFree(granted', now) \in Nat \ {0}
            BY <1>4, <1>5, <2>2
        <3> DEFINE wait == MsUntilFree(granted', now)
        <3>2. /\ wait \in Nat /\ wait # 0
              /\ pump' = "sleep" /\ wakeAt' = now + wait
            BY <1>2, <2>2, <3>1
        <3> HIDE DEF wait
        <3>. QED  BY <1>1, <3>2
    <2>. QED  BY <2>1, <2>2
<1>7. LimiterTypeOK'
    BY <1>1, <1>3, <1>4, <1>6 DEF LimiterTypeOK
<1>8. GrantReady'
    BY <1>3, <1>6 DEF GrantReady
<1>9. WindowHolds'
    BY <1>3 DEF LimiterInv, WindowHolds
<1>10. /\ Dropped \in Nat
       /\ \A i \in 1..Len(granted) : granted[i] = starts[Dropped + i].at
       /\ \A i \in 1..Dropped : starts[i].at + WindowMs < now
    BY DEF LimiterInv, Remembers
<1>11. Dropped' = Dropped + k
    <2>1. Len(starts) \in Nat /\ Len(starts)' = Len(starts)
        BY <1>1, <1>3
    <2>. QED  BY <1>4, <2>1 DEF Dropped
<1>12. \A i \in 1..Dropped' : starts[i].at + WindowMs < now
    <2> SUFFICES ASSUME NEW i \in 1..Dropped'
                 PROVE  starts[i].at + WindowMs < now
        OBVIOUS
    <2>1. CASE i \in 1..Dropped
        BY <1>10, <2>1
    <2>2. CASE i \notin 1..Dropped
        <3>1. i - Dropped \in 1..k /\ i - Dropped \in 1..Len(granted)
            BY <1>4, <1>10, <1>11, <2>2
        <3>2. granted[i - Dropped] + WindowMs < now
            BY <1>2, <3>1 DEF Expired
        <3>3. granted[i - Dropped] = starts[i].at
            <4>1. Dropped + (i - Dropped) = i
                BY <1>10, <1>11
            <4>. QED  BY <1>10, <3>1, <4>1
        <3>. QED  BY <3>2, <3>3
    <2>. QED  BY <2>1, <2>2
<1>13. \A i \in 1..Len(granted') : granted'[i] = starts[Dropped' + i].at
    <2> SUFFICES ASSUME NEW i \in 1..Len(granted')
                 PROVE  granted'[i] = starts[Dropped' + i].at
        OBVIOUS
    <2>1. k + i \in 1..Len(granted) /\ Dropped + (k + i) = Dropped' + i
        <3>1. i \in Nat /\ k \in Nat /\ Dropped \in Nat
            BY <1>4, <1>10
        <3>. QED  BY <1>4, <1>11, <3>1
    <2>2. granted'[i] = granted[k + i]
        BY <1>4
    <2>3. granted[k + i] = starts[Dropped + (k + i)].at
        BY <1>10, <2>1
    <2>. QED  BY <2>1, <2>2, <2>3
<1>14. Remembers'
    BY <1>3, <1>10, <1>11, <1>12, <1>13 DEF Remembers
<1>. QED  BY <1>7, <1>8, <1>9, <1>14 DEF LimiterInv

\* Steps that grant nothing and forget nothing: the clock may only go on.
LEMMA RestKeeps ==
    ASSUME LimiterInv,
           granted' = granted, starts' = starts,
           now' \in Nat, now' >= now, wakeAt' = wakeAt,
           queue' \in Seq(Tasks),
           pump' \in {"idle", "look", "grant", "sleep"},
           pump' = "grant" => pump = "grant" /\ queue' = queue
    PROVE  LimiterInv'
<1> USE LimiterAssumption
<1>1. /\ now \in Nat /\ starts \in Seq([task : Tasks, at : Nat]) /\ granted \in Seq(Nat)
    BY DEF LimiterInv, LimiterTypeOK
<1>2. LimiterTypeOK'
    BY <1>1 DEF LimiterInv, LimiterTypeOK
<1>3. GrantReady'
    BY DEF LimiterInv, GrantReady
<1>4. WindowHolds'
    BY DEF LimiterInv, WindowHolds
<1>5. Dropped' = Dropped /\ Dropped \in Nat /\ Len(starts) = Dropped + Len(granted)
    BY <1>1 DEF LimiterInv, Remembers, Dropped
<1>6. \A i \in 1..Dropped : starts[i].at \in Nat
    <2>1. Len(granted) \in Nat
        BY <1>1
    <2>2. 1..Dropped \subseteq 1..Len(starts)
        BY <1>5, <2>1
    <2>. QED  BY <1>1, <2>2, EntryType
<1>7. Remembers'
    BY <1>1, <1>5, <1>6 DEF LimiterInv, Remembers
<1>. QED  BY <1>2, <1>3, <1>4, <1>7 DEF LimiterInv

LEMMA LimiterStep == LimiterInv /\ [LimiterNext]_limiterVars => LimiterInv'
<1> SUFFICES ASSUME LimiterInv, [LimiterNext]_limiterVars
             PROVE  LimiterInv'
    OBVIOUS
<1>0. /\ now \in Nat /\ queue \in Seq(Tasks)
      /\ pump \in {"idle", "look", "grant", "sleep"}
    BY DEF LimiterInv, LimiterTypeOK
<1>1. ASSUME NEW t \in Tasks, Schedule(t)
      PROVE  LimiterInv'
    <2>1. queue' = Append(queue, t) /\ queue' \in Seq(Tasks)
        BY <1>0, <1>1 DEF Schedule, Enqueue
    <2>2. pump' \in {"look", "sleep"}
        BY <1>1 DEF Schedule, Enqueue, PumpYields
    <2>. QED  BY <1>0, <1>1, <2>1, <2>2, RestKeeps DEF Schedule
<1>2. CASE LookForSlot
    BY <1>2, LookKeepsTail
<1>3. CASE GrantSlot
    BY <1>3, GrantKeepsWindow
<1>4. CASE Wake
    BY <1>0, <1>4, RestKeeps DEF Wake
<1>5. CASE QueueEmpty
    BY <1>0, <1>5, RestKeeps DEF QueueEmpty
<1>6. CASE Advance
    BY <1>0, <1>6, RestKeeps DEF Advance
<1>7. CASE UNCHANGED limiterVars
    BY <1>0, <1>7, RestKeeps DEF limiterVars
<1>. QED  BY <1>1, <1>2, <1>3, <1>4, <1>5, <1>6, <1>7 DEF LimiterNext

\* The limiter's promise (rateLimiter.js:12-13), for every limit, window and
\* set of tasks: no closed window ever contains more starts than the limit.
THEOREM QuotaHolds == LimiterSpec => []WindowHolds
<1>1. LimiterInv => WindowHolds
    BY DEF LimiterInv
<1>. QED  BY LimiterInitOK, LimiterStep, <1>1, PTL DEF LimiterSpec

-----------------------------------------------------------------------------
(* The RPC client schedules attempts, and does nothing else to the limiter. *)

\* Attempts are numbered within bounds: a call backs off only while attempts on
\* the primary are left.
AttemptsInBounds ==
    /\ stage \in [Calls -> Stages]
    /\ attempt \in [Calls -> 0..MaxAttempts]
    /\ \A c \in Calls : stage[c] = "backoff" => attempt[c] + 1 < MaxAttempts

LEMMA ScheduleAttempt ==
    ASSUME NEW c \in Calls, NEW n \in 0..MaxAttempts, AttemptOn(c, n), AttemptsInBounds
    PROVE  LimiterNext /\ AttemptsInBounds'
<1>1. <<c, n>> \in Tasks
    BY RpcAssumption
<1>2. Schedule(<<c, n>>)
    BY DEF AttemptOn, Schedule
<1>3. LimiterNext
    BY <1>1, <1>2 DEF LimiterNext
<1>4. AttemptsInBounds'
    BY Zenon DEF AttemptOn, AttemptsInBounds, Stages
<1>. QED  BY <1>3, <1>4

LEMMA SettleAttempt ==
    ASSUME NEW c \in Calls, NEW how \in Settled, Settle(c, how), AttemptsInBounds
    PROVE  UNCHANGED limiterVars /\ AttemptsInBounds'
<1>1. how \in Stages /\ how # "backoff"
    BY DEF Settled, Stages
<1>. QED  BY <1>1 DEF Settle, AttemptsInBounds, limiterVars

LEMMA ReleaseStages ==
    ASSUME NEW e \in Endpoints, NEW next \in {"asking", "rejected"},
           Release(e, next), attempt' = attempt, AttemptsInBounds
    PROVE  AttemptsInBounds'
<1>1. next \in Stages /\ next # "backoff"
    BY DEF Stages
<1>. QED  BY <1>1 DEF Release, AttemptsInBounds

LEMMA HandleStep ==
    ASSUME NEW c \in Calls, Handle(c), AttemptsInBounds
    PROVE  [LimiterNext]_limiterVars /\ AttemptsInBounds'
<1> USE RpcAssumption
<1>1. CASE GiveUp(c)
    BY <1>1, SettleAttempt DEF GiveUp, Settled
<1>2. CASE BackOff(c)
    BY <1>2 DEF BackOff, AttemptsInBounds, Stages, limiterVars
<1>3. CASE FallBack(c)
    BY <1>3, ScheduleAttempt DEF FallBack
<1>4. CASE Exhaust(c)
    BY <1>4, SettleAttempt DEF Exhaust, Settled
<1>. QED  BY <1>1, <1>2, <1>3, <1>4 DEF Handle

LEMMA RpcStep ==
    ASSUME AttemptsInBounds, [Next]_rpcVars
    PROVE  [LimiterNext]_limiterVars /\ AttemptsInBounds'
<1> USE RpcAssumption
<1>1. ASSUME Others
      PROVE  AttemptsInBounds'
    BY <1>1 DEF Others, AttemptsInBounds
<1>2. CASE LookForSlot /\ Others
    BY <1>1, <1>2 DEF LimiterNext
<1>3. CASE Begin
    <2>1. LimiterNext
        BY <1>3 DEF Begin, LimiterNext
    <2>2. AttemptsInBounds'
        BY <1>3 DEF Begin, AttemptsInBounds, Stages
    <2>. QED  BY <2>1, <2>2
<1>4. CASE Wake /\ Others
    BY <1>1, <1>4 DEF LimiterNext
<1>5. CASE QueueEmpty /\ Others
    BY <1>1, <1>5 DEF LimiterNext
<1>6. ASSUME NEW e \in Endpoints, Connected(e) \/ ConnectFails(e)
      PROVE  UNCHANGED limiterVars /\ AttemptsInBounds'
    BY <1>6, ReleaseStages DEF Connected, ConnectFails, limiterVars
<1>7. ASSUME NEW c \in Calls, Call(c)
      PROVE  LimiterNext /\ AttemptsInBounds'
    BY <1>7, ScheduleAttempt DEF Call
<1>8. ASSUME NEW c \in Calls, Answer(c)
      PROVE  UNCHANGED limiterVars /\ AttemptsInBounds'
    BY <1>8 DEF Answer, AttemptsInBounds, Stages, Settled, limiterVars
<1>9. ASSUME NEW c \in Calls, Retry(c)
      PROVE  LimiterNext /\ AttemptsInBounds'
    <2>1. attempt[c] \in 0..MaxAttempts /\ attempt[c] + 1 < MaxAttempts
        BY <1>9 DEF Retry, AttemptsInBounds
    <2>2. attempt[c] + 1 \in 0..MaxAttempts
        BY <2>1
    <2>. QED  BY <1>9, <2>2, ScheduleAttempt DEF Retry
<1>10. CASE PassTime
    BY <1>10 DEF PassTime, LimiterNext, AttemptsInBounds
<1>11. CASE UNCHANGED rpcVars
    BY <1>11 DEF rpcVars, limiterVars, AttemptsInBounds
<1>. QED
    BY <1>2, <1>3, <1>4, <1>5, <1>6, <1>7, <1>8, <1>9, <1>10, <1>11, HandleStep
    DEF Next, Pump

\* Whatever the calls, attempts, fallbacks and connections do, the client uses its
\* limiter as createRateLimiter (rateLimiter.js) lets any caller: a run of the client
\* is a run of the limiter.
THEOREM RpcImplementsLimiter == Spec => LimiterSpec
<1>1. Init => LimiterInit /\ AttemptsInBounds
    BY RpcAssumption DEF Init, AttemptsInBounds, Stages
<1>2. AttemptsInBounds /\ [Next]_rpcVars => [LimiterNext]_limiterVars /\ AttemptsInBounds'
    BY RpcStep
<1>. QED  BY <1>1, <1>2, PTL DEF Spec, LimiterSpec

\* "At most requestsPerSecond * 60 request STARTS entered any 60s window, retries
\* and fallback attempts included" (connection.js:9-10), as far as the limiter
\* counts a start: the moment it grants the slot.
THEOREM RpcQuotaHolds == Spec => []WindowHolds
BY RpcImplementsLimiter, QuotaHolds

-----------------------------------------------------------------------------
(* Attempts, the queue and the connections. *)

\* A power of two, as the number of subsets of a set.
LEMMA BackoffType ==
    ASSUME NEW n \in Nat
    PROVE  BackoffMs(n) \in Nat /\ BackoffMs(n) = 2^n * BackoffBaseMs
<1>1. IsFiniteSet(1..n) /\ Cardinality(1..n) = n
    BY FS_Interval
<1>2. IsFiniteSet(SUBSET (1..n)) /\ Cardinality(SUBSET (1..n)) = 2^n
    BY <1>1, FS_SUBSET
<1>3. 2^n \in Nat
    BY <1>2, FS_CardinalityType
<1> DEFINE p == 2^n
<1>4. p \in Nat
    BY <1>3
<1> HIDE DEF p
<1>5. p * BackoffBaseMs \in Nat
    BY <1>4, RpcAssumption
<1>. QED  BY <1>5 DEF p, BackoffMs

StagesOK ==
    /\ stage \in [Calls -> Stages] /\ attempt \in [Calls -> 0..MaxAttempts]
    /\ retryAt \in [Calls -> Nat]
    /\ \A c \in Calls : stage[c] = "backoff" => attempt[c] + 1 < MaxAttempts
    /\ \A c \in Calls : stage[c] = "new" => attempt[c] = 0

\* The queue holds the present attempt of each queued call, and nothing else.
QueueOK ==
    /\ \A i \in DOMAIN queue : /\ queue[i] = <<queue[i][1], attempt[queue[i][1]]>>
                               /\ stage[queue[i][1]] = "queued"
    /\ \A i, j \in DOMAIN queue : i # j => queue[i][1] # queue[j][1]
    /\ \A c \in Calls : stage[c] = "queued" => \E i \in DOMAIN queue : queue[i][1] = c

\* No failure stays in the map, and whoever awaits a connection awaits one that
\* is being built.
ConnectionsOK ==
    /\ connections \in [Endpoints -> {"none", "building", "up"}]
    /\ \A c \in Calls : stage[c] = "connecting" => connections[Target(c)] = "building"

\* The slots of a call are its attempts, one each and in order.
Numbered(c) ==
    /\ {starts[i].task[2] : i \in SlotsOf(c)} = 0..Begun(c) - 1
    /\ \A i, j \in SlotsOf(c) : i < j => starts[i].task[2] < starts[j].task[2]

\* An attempt of the primary starts a backoff after the one before it.
Spaced(c) ==
    \A i, j \in SlotsOf(c) :
       starts[j].task[2] = starts[i].task[2] + 1 /\ starts[j].task[2] < MaxAttempts =>
          starts[j].at >= starts[i].at + BackoffMs(starts[i].task[2])

\* A call in backoff waits it out, and a queued retry has waited it out.
Waited(c) ==
    \A i \in SlotsOf(c) :
       /\ stage[c] = "backoff" /\ starts[i].task[2] = attempt[c] =>
             starts[i].at + BackoffMs(attempt[c]) <= retryAt[c]
       /\ stage[c] = "queued" /\ starts[i].task[2] + 1 = attempt[c]
             /\ attempt[c] < MaxAttempts =>
                starts[i].at + BackoffMs(starts[i].task[2]) <= now

SlotsOK ==
    /\ \A i \in DOMAIN starts : starts[i].at <= now
    /\ \A c \in Calls : Numbered(c) /\ Spaced(c) /\ Waited(c)

RpcInv ==
    /\ LimiterInv
    /\ StagesOK /\ QueueOK /\ ConnectionsOK /\ SlotsOK

LEMMA ElementOfSeq ==
    ASSUME NEW S, NEW s \in Seq(S)
    PROVE  \A i \in DOMAIN s : s[i] \in S
    OBVIOUS

LEMMA SlotFacts ==
    ASSUME LimiterInv
    PROVE  /\ now \in Nat /\ queue \in Seq(Tasks)
           /\ starts \in Seq([task : Tasks, at : Nat])
           /\ DOMAIN queue = 1..Len(queue) /\ Len(queue) \in Nat
           /\ DOMAIN starts = 1..Len(starts) /\ Len(starts) \in Nat
           /\ \A i \in DOMAIN queue : queue[i] \in Tasks /\ queue[i][1] \in Calls
           /\ \A i \in DOMAIN starts : /\ starts[i].at \in Nat
                                       /\ starts[i].task[1] \in Calls
                                       /\ starts[i].task[2] \in Nat
<1>1. /\ now \in Nat /\ queue \in Seq(Tasks)
      /\ starts \in Seq([task : Tasks, at : Nat])
    BY DEF LimiterInv, LimiterTypeOK
<1>2. \A t \in Tasks : t[1] \in Calls /\ t[2] \in Nat
    BY RpcAssumption
<1>3. \A i \in DOMAIN queue : queue[i] \in Tasks
    BY <1>1
<1>4. \A i \in DOMAIN starts : starts[i] \in [task : Tasks, at : Nat]
    <2> DEFINE entry == [task : Tasks, at : Nat]
    <2>1. starts \in Seq(entry)
        BY <1>1
    <2> HIDE DEF entry
    <2>2. \A i \in DOMAIN starts : starts[i] \in entry
        BY <2>1
    <2>. QED  BY <2>2 DEF entry
<1>5. \A i \in DOMAIN starts : starts[i].task \in Tasks /\ starts[i].at \in Nat
    BY <1>4
<1>6. /\ DOMAIN queue = 1..Len(queue) /\ Len(queue) \in Nat
      /\ DOMAIN starts = 1..Len(starts) /\ Len(starts) \in Nat
    BY <1>1
<1>. QED  BY <1>1, <1>2, <1>3, <1>5, <1>6

\* What the parts of RpcInv give of the published properties.
LEMMA RpcTypes ==
    ASSUME RpcInv
    PROVE  TypeOK
<1>1. LimiterTypeOK /\ LimiterInv
    BY DEF RpcInv, LimiterInv
<1>2. ASSUME NEW c \in Calls
      PROVE  Cardinality({i \in DOMAIN queue : queue[i] = <<c, attempt[c]>>})
                = (IF stage[c] = "queued" THEN 1 ELSE 0)
    <2> DEFINE S == {i \in DOMAIN queue : queue[i] = <<c, attempt[c]>>}
    <2>1. \A i \in S : queue[i][1] = c /\ stage[c] = "queued"
        BY DEF RpcInv, QueueOK
    <2>2. CASE stage[c] = "queued"
        <3>1. PICK i \in DOMAIN queue : queue[i][1] = c
            BY <2>2 DEF RpcInv, QueueOK
        <3>2. i \in S
            BY <3>1 DEF RpcInv, QueueOK
        <3>3. \A j \in S : j = i
            BY <2>1, <3>1 DEF RpcInv, QueueOK
        <3> HIDE DEF S
        <3>4. S = {i}
            BY <3>2, <3>3
        <3>5. Cardinality(S) = 1
            BY <3>4, FS_Singleton
        <3>. QED  BY <2>2, <3>5 DEF S
    <2>3. CASE stage[c] # "queued"
        <3>1. S = {}
            BY <2>1, <2>3
        <3> HIDE DEF S
        <3>2. Cardinality(S) = 0
            BY <3>1, FS_EmptySet
        <3>. QED  BY <2>3, <3>2 DEF S
    <2>. QED  BY <2>2, <2>3
<1>3. connections \in [Endpoints -> {"none", "building", "up", "failed"}]
    BY DEF RpcInv, ConnectionsOK
<1>. QED  BY <1>1, <1>2, <1>3 DEF TypeOK, RpcInv, StagesOK, ConnectionsOK

LEMMA RpcPays ==
    ASSUME RpcInv
    PROVE  EveryAttemptPays
<1> SUFFICES ASSUME NEW c \in Calls
             PROVE  /\ {starts[i].task[2] : i \in SlotsOf(c)} = 0..Begun(c) - 1
                    /\ \A i, j \in SlotsOf(c) : i < j => starts[i].task[2] < starts[j].task[2]
                    /\ \A i, j \in SlotsOf(c) :
                         starts[j].task[2] = starts[i].task[2] + 1
                           /\ starts[j].task[2] < MaxAttempts =>
                            starts[j].at >= starts[i].at
                                              + 2^starts[i].task[2] * BackoffBaseMs
    BY DEF EveryAttemptPays
<1>1. Numbered(c) /\ Spaced(c)
    BY DEF RpcInv, SlotsOK
<1>2. \A i \in SlotsOf(c) : starts[i].task[2] \in Nat
    BY SlotFacts DEF RpcInv, SlotsOf
<1>3. \A i \in SlotsOf(c) :
         BackoffMs(starts[i].task[2]) = 2^starts[i].task[2] * BackoffBaseMs
    BY <1>2, BackoffType
<1>. QED  BY <1>1, <1>3 DEF Numbered, Spaced

LEMMA RpcInvInit == Init => RpcInv
<1> SUFFICES ASSUME Init
             PROVE  RpcInv
    OBVIOUS
<1>1. LimiterInv
    BY LimiterInitOK DEF Init
<1>2. /\ queue = << >> /\ starts = << >>
      /\ \A c \in Calls : stage[c] = "new" /\ attempt[c] = 0
    BY DEF Init, LimiterInit
<1>3. StagesOK
    BY <1>2, RpcAssumption DEF Init, StagesOK, Stages
<1>4. QueueOK
    BY <1>2 DEF QueueOK
<1>5. ConnectionsOK
    BY <1>2 DEF Init, ConnectionsOK
<1>6. \A c \in Calls : SlotsOf(c) = {} /\ Begun(c) = 0
    BY <1>2 DEF SlotsOf, Begun
<1>7. SlotsOK
    BY <1>2, <1>6 DEF SlotsOK, Numbered, Spaced, Waited
<1>. QED  BY <1>1, <1>3, <1>4, <1>5, <1>7 DEF RpcInv

\* What a step that grants no slot may do to the attempts of a call: its backoff
\* is the one of its last attempt, and a retry has waited its backoff out.
KeepsPace(c) ==
    /\ Begun(c)' = Begun(c)
    /\ stage'[c] = "backoff" =>
          /\ attempt'[c] = attempt[c]
          /\ \/ stage[c] = "backoff" /\ retryAt'[c] = retryAt[c]
             \/ retryAt'[c] = now + BackoffMs(attempt[c])
    /\ stage'[c] = "queued" =>
          \/ stage[c] = "queued" /\ attempt'[c] = attempt[c]
          \/ attempt'[c] \in {0, MaxAttempts}
          \/ /\ stage[c] = "backoff" /\ now >= retryAt[c]
             /\ attempt'[c] = attempt[c] + 1

LEMMA SlotsKept ==
    ASSUME RpcInv, starts' = starts, now' \in Nat, now' >= now,
           \A c \in Calls : KeepsPace(c)
    PROVE  SlotsOK'
<1> USE RpcAssumption
<1>1. /\ now \in Nat /\ SlotsOK /\ StagesOK
      /\ \A i \in DOMAIN starts : starts[i].at \in Nat /\ starts[i].task[2] \in Nat
    BY SlotFacts DEF RpcInv
<1>2. \A i \in DOMAIN starts' : starts'[i].at <= now'
    BY <1>1 DEF SlotsOK
<1>3. ASSUME NEW c \in Calls
      PROVE  Numbered(c)' /\ Spaced(c)' /\ Waited(c)'
    <2>1. KeepsPace(c) /\ Numbered(c) /\ Spaced(c) /\ Waited(c)
        BY <1>1, <1>3 DEF SlotsOK
    <2>2. SlotsOf(c)' = SlotsOf(c)
        BY DEF SlotsOf
    <2>3. Numbered(c)'
        BY <2>1, <2>2 DEF Numbered, KeepsPace
    <2>4. Spaced(c)'
        BY <2>1, <2>2 DEF Spaced
    <2>5. ASSUME NEW i \in SlotsOf(c), stage'[c] = "backoff",
                 starts[i].task[2] = attempt'[c]
          PROVE  starts[i].at + BackoffMs(attempt'[c]) <= retryAt'[c]
        <3>1. /\ attempt'[c] = attempt[c] /\ attempt[c] \in Nat
              /\ starts[i].at \in Nat /\ starts[i].at <= now
            BY <1>1, <2>1, <2>5 DEF KeepsPace, SlotsOf, SlotsOK, StagesOK
        <3>2. BackoffMs(attempt[c]) \in Nat
            BY <3>1, BackoffType
        <3>3. CASE stage[c] = "backoff" /\ retryAt'[c] = retryAt[c]
            BY <2>1, <2>5, <3>1, <3>3 DEF Waited
        <3>4. CASE retryAt'[c] = now + BackoffMs(attempt[c])
            BY <1>1, <3>1, <3>2, <3>4
        <3>. QED  BY <2>1, <2>5, <3>3, <3>4 DEF KeepsPace
    <2>6. ASSUME NEW i \in SlotsOf(c), stage'[c] = "queued",
                 starts[i].task[2] + 1 = attempt'[c], attempt'[c] < MaxAttempts
          PROVE  starts[i].at + BackoffMs(starts[i].task[2]) <= now'
        <3>1. /\ attempt[c] \in Nat /\ retryAt[c] \in Nat
              /\ starts[i].at \in Nat /\ starts[i].task[2] \in Nat
            BY <1>1 DEF SlotsOf, StagesOK
        <3>2. BackoffMs(starts[i].task[2]) \in Nat
            BY <3>1, BackoffType
        <3>3. CASE stage[c] = "queued" /\ attempt'[c] = attempt[c]
            <4>1. starts[i].at + BackoffMs(starts[i].task[2]) <= now
                BY <2>1, <2>6, <3>3 DEF Waited
            <4>. QED  BY <1>1, <3>1, <3>2, <4>1
        <3>4. CASE attempt'[c] \in {0, MaxAttempts}
            BY <2>6, <3>1, <3>4
        <3>5. CASE /\ stage[c] = "backoff" /\ now >= retryAt[c]
                   /\ attempt'[c] = attempt[c] + 1
            <4>1. starts[i].task[2] = attempt[c]
                BY <2>6, <3>1, <3>5
            <4>2. starts[i].at + BackoffMs(starts[i].task[2]) <= retryAt[c]
                BY <2>1, <3>5, <4>1 DEF Waited
            <4>. QED  BY <1>1, <3>1, <3>2, <3>5, <4>2
        <3>. QED  BY <2>1, <2>6, <3>3, <3>4, <3>5 DEF KeepsPace
    <2>7. Waited(c)'
        BY <2>2, <2>5, <2>6 DEF Waited
    <2>. QED  BY <2>3, <2>4, <2>7
<1>. QED  BY <1>2, <1>3 DEF SlotsOK

\* A step that touches no queued call and no queue.
LEMMA QueueKept ==
    ASSUME QueueOK, queue' = queue,
           \A i \in DOMAIN queue : queue[i][1] \in Calls,
           \A c \in Calls : /\ stage'[c] = "queued" <=> stage[c] = "queued"
                            /\ stage[c] = "queued" => attempt'[c] = attempt[c]
    PROVE  QueueOK'
    BY DEF QueueOK

LEMMA AddedLast ==
    ASSUME NEW S, NEW s \in Seq(S), NEW e \in S, NEW r, r = Append(s, e)
    PROVE  /\ Len(s) \in Nat /\ DOMAIN s = 1..Len(s)
           /\ DOMAIN r = 1..(Len(s) + 1)
           /\ \A i \in DOMAIN s : i \in DOMAIN r /\ r[i] = s[i]
           /\ Len(s) + 1 \in DOMAIN r /\ r[Len(s) + 1] = e
           /\ \A i \in DOMAIN r : i \in DOMAIN s \/ i = Len(s) + 1
    OBVIOUS

LEMMA FirstTaken ==
    ASSUME NEW S, NEW s \in Seq(S), s # << >>, NEW r, r = Tail(s)
    PROVE  /\ Head(s) = s[1] /\ 1 \in DOMAIN s
           /\ \A i \in DOMAIN r : i + 1 \in DOMAIN s /\ i + 1 # 1 /\ r[i] = s[i + 1]
           /\ \A i \in DOMAIN r : i \in Nat
           /\ \A i \in DOMAIN s : i = 1 \/ (i - 1 \in DOMAIN r /\ (i - 1) + 1 = i)
    OBVIOUS

\* What a step keeps beside the limiter's own invariant.
CallsOK == StagesOK /\ QueueOK /\ ConnectionsOK /\ SlotsOK

\* An attempt that starts meets no failed connection.
MeetsNoFailure == \A c \in Calls : stage[c] = "queued" => stage'[c] # "rejected"

\* A step that leaves the calls alone.
LEMMA CallsKept ==
    ASSUME RpcInv, Others, queue' = queue, starts' = starts,
           now' \in Nat, now' >= now
    PROVE  CallsOK' /\ MeetsNoFailure
<1>1. /\ stage' = stage /\ attempt' = attempt /\ retryAt' = retryAt
      /\ connections' = connections
    BY DEF Others
<1>2. StagesOK'
    BY <1>1 DEF RpcInv, StagesOK
<1>3. QueueOK'
    BY <1>1, Zenon DEF RpcInv, QueueOK
<1>4. ConnectionsOK'
    BY <1>1 DEF RpcInv, ConnectionsOK, Target
<1>5. \A c \in Calls : KeepsPace(c)
    BY <1>1 DEF KeepsPace, Begun
<1>6. SlotsOK'
    BY <1>5, SlotsKept
<1>7. MeetsNoFailure
    BY <1>1 DEF MeetsNoFailure
<1>. QED  BY <1>2, <1>3, <1>4, <1>6, <1>7 DEF CallsOK

\* A call moves on from an attempt that has begun, and schedules nothing.
MovesOn(c, next) ==
    /\ stage[c] \in {"asking", "rejected"}
    /\ stage' = [stage EXCEPT ![c] = next]
    /\ attempt' = attempt /\ connections' = connections
    /\ queue' = queue /\ starts' = starts /\ now' = now
    /\ \/ retryAt' = retryAt /\ next # "backoff"
       \/ /\ retryAt' = [retryAt EXCEPT ![c] = now + BackoffMs(attempt[c])]
          /\ attempt[c] + 1 < MaxAttempts

LEMMA CallMoves ==
    ASSUME RpcInv, NEW c \in Calls,
           NEW next \in {"succeeded", "failed", "exhausted", "backoff"},
           MovesOn(c, next)
    PROVE  CallsOK' /\ MeetsNoFailure
<1> USE RpcAssumption DEF MovesOn
<1>1. /\ now \in Nat /\ StagesOK /\ QueueOK /\ ConnectionsOK
      /\ \A i \in DOMAIN queue : queue[i][1] \in Calls
    BY SlotFacts DEF RpcInv
<1>2. /\ stage'[c] = next
      /\ \A b \in Calls : b # c => stage'[b] = stage[b]
    BY <1>1 DEF StagesOK
<1>3. \A b \in Calls : b # c => retryAt'[b] = retryAt[b]
    BY <1>1 DEF StagesOK
<1>4. attempt[c] \in Nat /\ BackoffMs(attempt[c]) \in Nat
    BY <1>1, BackoffType DEF StagesOK
<1>5. retryAt' \in [Calls -> Nat]
    <2>1. now + BackoffMs(attempt[c]) \in Nat
        BY <1>1, <1>4
    <2>. QED  BY <1>1, <2>1 DEF StagesOK
<1>6. StagesOK'
    <2>1. stage' \in [Calls -> Stages]
        BY <1>1 DEF StagesOK, Stages, Settled
    <2>. QED  BY <1>1, <1>2, <1>5, <2>1 DEF StagesOK
<1>7. QueueOK'
    BY <1>1, <1>2, QueueKept
<1>8. ConnectionsOK'
    BY <1>1, <1>2 DEF ConnectionsOK, Target
<1>9. ASSUME NEW b \in Calls
      PROVE  KeepsPace(b)
    <2>1. CASE b = c
        <3>1. Begun(b)' = Begun(b)
            BY <1>2, <2>1 DEF Begun
        <3>2. stage'[b] = "backoff" => retryAt'[b] = now + BackoffMs(attempt[b])
            BY <1>1, <1>2, <2>1 DEF StagesOK
        <3>. QED  BY <1>2, <2>1, <3>1, <3>2 DEF KeepsPace
    <2>2. CASE b # c
        BY <1>2, <1>3, <2>2 DEF KeepsPace, Begun
    <2>. QED  BY <2>1, <2>2
<1>10. SlotsOK'
    BY <1>1, <1>9, SlotsKept
<1>11. MeetsNoFailure
    BY <1>2 DEF MeetsNoFailure
<1>. QED  BY <1>6, <1>7, <1>8, <1>10, <1>11 DEF CallsOK

\* An attempt is scheduled: the first, a retry after its backoff, or the fallback.
LEMMA AttemptScheduled ==
    ASSUME RpcInv, NEW c \in Calls, NEW n \in 0..MaxAttempts, AttemptOn(c, n),
           \/ stage[c] = "new" /\ n = 0
           \/ stage[c] = "backoff" /\ now >= retryAt[c] /\ n = attempt[c] + 1
           \/ stage[c] \in {"asking", "rejected"} /\ n = attempt[c] + 1 /\ n = MaxAttempts
    PROVE  CallsOK' /\ MeetsNoFailure
<1> USE RpcAssumption
<1>1. /\ now \in Nat /\ StagesOK /\ QueueOK /\ ConnectionsOK
      /\ queue \in Seq(Tasks)
      /\ \A i \in DOMAIN queue : queue[i][1] \in Calls
    BY SlotFacts DEF RpcInv
<1>2. /\ queue' = Append(queue, <<c, n>>)
      /\ stage' = [stage EXCEPT ![c] = "queued"]
      /\ attempt' = [attempt EXCEPT ![c] = n]
      /\ now' = now /\ starts' = starts /\ retryAt' = retryAt
      /\ connections' = connections
    BY DEF AttemptOn, Enqueue
<1>3. /\ stage'[c] = "queued" /\ attempt'[c] = n
      /\ \A b \in Calls : b # c => stage'[b] = stage[b] /\ attempt'[b] = attempt[b]
    BY <1>1, <1>2 DEF StagesOK
<1>4. StagesOK'
    <2>1. stage' \in [Calls -> Stages]
        BY <1>1, <1>2 DEF StagesOK, Stages
    <2>2. attempt' \in [Calls -> 0..MaxAttempts]
        BY <1>1, <1>2 DEF StagesOK
    <2>. QED  BY <1>1, <1>2, <1>3, <2>1, <2>2 DEF StagesOK
<1>5. QueueOK'
    <2> DEFINE q == queue
               r == queue'
               L == Len(queue) + 1
    <2>0. <<c, n>> \in Tasks
        OBVIOUS
    <2>1. /\ DOMAIN r = 1..L /\ L \in DOMAIN r /\ r[L] = <<c, n>>
          /\ \A i \in DOMAIN q : i \in DOMAIN r /\ r[i] = q[i]
          /\ \A i \in DOMAIN r : i \in DOMAIN q \/ i = L
        BY <1>1, <1>2, <2>0, AddedLast
    <2> HIDE DEF q, r, L
    <2>2. \A i \in DOMAIN q : /\ q[i] = <<q[i][1], attempt[q[i][1]]>>
                              /\ stage[q[i][1]] = "queued"
                              /\ q[i][1] \in Calls /\ q[i][1] # c
        BY <1>1 DEF QueueOK, q
    <2>3. r[L][1] = c
        BY <2>1
    <2>4. ASSUME NEW i \in DOMAIN r
          PROVE  /\ r[i] = <<r[i][1], attempt'[r[i][1]]>>
                 /\ stage'[r[i][1]] = "queued"
        <3>1. CASE i \in DOMAIN q
            <4>1. /\ r[i] = q[i]
                  /\ attempt'[q[i][1]] = attempt[q[i][1]]
                  /\ stage'[q[i][1]] = stage[q[i][1]]
                BY <1>3, <2>1, <2>2, <3>1
            <4>. QED  BY <2>2, <3>1, <4>1
        <3>2. CASE i = L
            BY <1>3, <2>1, <2>3, <3>2
        <3>. QED  BY <2>1, <3>1, <3>2
    <2>5. ASSUME NEW i \in DOMAIN r, NEW j \in DOMAIN r, i # j
          PROVE  r[i][1] # r[j][1]
        <3>1. CASE i \in DOMAIN q /\ j \in DOMAIN q
            BY <1>1, <2>1, <2>5, <3>1 DEF QueueOK, q
        <3>2. CASE i = L
            BY <2>1, <2>2, <2>3, <2>5, <3>2
        <3>3. CASE j = L
            BY <2>1, <2>2, <2>3, <2>5, <3>3
        <3>. QED  BY <2>1, <3>1, <3>2, <3>3
    <2>6. ASSUME NEW b \in Calls, stage'[b] = "queued"
          PROVE  \E i \in DOMAIN r : r[i][1] = b
        <3>1. CASE b = c
            BY <2>1, <2>3, <3>1
        <3>2. CASE b # c
            <4>1. PICK i \in DOMAIN q : q[i][1] = b
                BY <1>1, <1>3, <2>6, <3>2 DEF QueueOK, q
            <4>. QED  BY <2>1, <4>1
        <3>. QED  BY <3>1, <3>2
    <2>. QED  BY <2>4, <2>5, <2>6 DEF QueueOK, r
<1>6. ConnectionsOK'
    BY <1>1, <1>2, <1>3 DEF ConnectionsOK, Target
<1>7. ASSUME NEW b \in Calls
      PROVE  KeepsPace(b)
    <2>1. CASE b = c
        <3>1. attempt[c] \in Nat /\ (stage[c] = "new" => attempt[c] = 0)
            BY <1>1 DEF StagesOK
        <3>2. Begun(b)' = Begun(b)
            BY <1>3, <2>1, <3>1 DEF Begun
        <3>. QED  BY <1>3, <2>1, <3>2 DEF KeepsPace
    <2>2. CASE b # c
        <3>1. stage'[b] = stage[b] /\ attempt'[b] = attempt[b] /\ retryAt'[b] = retryAt[b]
            BY <1>2, <1>3, <2>2
        <3>. QED  BY <3>1 DEF KeepsPace, Begun
    <2>. QED  BY <2>1, <2>2
<1>8. SlotsOK'
    BY <1>1, <1>2, <1>7, SlotsKept
<1>9. MeetsNoFailure
    BY <1>3 DEF MeetsNoFailure
<1>. QED  BY <1>4, <1>5, <1>6, <1>8, <1>9 DEF CallsOK

\* A construction ends, one way or the other.
LEMMA WaitersReleased ==
    ASSUME RpcInv, NEW e \in Endpoints, NEW next \in {"asking", "rejected"},
           NEW made \in {"up", "none"},
           connections' = [connections EXCEPT ![e] = made], Release(e, next),
           UNCHANGED <<now, queue, starts, attempt, retryAt>>
    PROVE  CallsOK' /\ MeetsNoFailure
<1>1. /\ now \in Nat /\ StagesOK /\ QueueOK /\ ConnectionsOK
      /\ \A i \in DOMAIN queue : queue[i][1] \in Calls
    BY SlotFacts DEF RpcInv
<1>2. /\ now' = now /\ queue' = queue /\ starts' = starts
      /\ attempt' = attempt /\ retryAt' = retryAt
    OBVIOUS
<1>3. \A c \in Calls :
         \/ stage'[c] = stage[c] /\ ~ (stage[c] = "connecting" /\ Target(c) = e)
         \/ stage[c] = "connecting" /\ stage'[c] = next
    BY DEF Release, Waiting
<1>4. StagesOK'
    <2>1. stage' \in [Calls -> Stages]
        BY <1>1 DEF Release, StagesOK, Stages
    <2>. QED  BY <1>1, <1>2, <1>3, <2>1 DEF StagesOK
<1>5. QueueOK'
    BY <1>1, <1>2, <1>3, QueueKept
<1>6. ConnectionsOK'
    <2>1. \A c \in Calls : Target(c)' = Target(c) /\ Target(c) \in Endpoints
        BY <1>2 DEF Target, Endpoints
    <2>2. connections' \in [Endpoints -> {"none", "building", "up"}]
        BY <1>1 DEF ConnectionsOK
    <2>3. ASSUME NEW c \in Calls, stage'[c] = "connecting"
          PROVE  connections'[Target(c)'] = "building"
        <3>1. stage[c] = "connecting" /\ Target(c) # e
            BY <1>3, <2>3
        <3>. QED  BY <1>1, <2>1, <3>1 DEF ConnectionsOK
    <2>. QED  BY <2>2, <2>3 DEF ConnectionsOK
<1>7. \A c \in Calls : KeepsPace(c)
    BY <1>2, <1>3 DEF KeepsPace, Begun
<1>8. SlotsOK'
    BY <1>1, <1>2, <1>7, SlotsKept
<1>9. MeetsNoFailure
    BY <1>3 DEF MeetsNoFailure
<1>. QED  BY <1>4, <1>5, <1>6, <1>8, <1>9 DEF CallsOK

\* What the grant of a slot does to the call it is for: it leaves the queue, asks
\* or waits for its connection, and its attempt is the newest of the slots.
LEMMA BeginFacts ==
    ASSUME RpcInv, Begin, NEW c, c = Head(queue)[1]
    PROVE  /\ c \in Calls /\ queue # << >> /\ stage[c] = "queued"
           /\ Head(queue) = <<c, attempt[c]>>
           /\ queue' = Tail(queue)
           /\ starts' = Append(starts, [task |-> <<c, attempt[c]>>, at |-> now])
           /\ now' = now /\ attempt' = attempt /\ retryAt' = retryAt
           /\ stage' \in [Calls -> Stages]
           /\ stage'[c] \in {"asking", "connecting"}
           /\ \A b \in Calls : b # c => stage'[b] = stage[b]
           /\ connections' \in [Endpoints -> {"none", "building", "up"}]
           /\ \A e \in Endpoints : connections[e] = "building" => connections'[e] = "building"
           /\ stage'[c] = "connecting" => connections'[Target(c)] = "building"
<1>1. /\ queue # << >> /\ queue \in Seq(Tasks) /\ StagesOK /\ QueueOK /\ ConnectionsOK
    BY SlotFacts DEF RpcInv, LimiterInv, GrantReady, Begin, GrantSlot
<1>2. Head(queue) = queue[1] /\ 1 \in DOMAIN queue
    BY <1>1
<1>3. /\ c \in Calls /\ stage[c] = "queued" /\ Head(queue) = <<c, attempt[c]>>
    <2>1. queue[1][1] \in Calls
        BY <1>2, SlotFacts DEF RpcInv
    <2>. QED  BY <1>1, <1>2, <2>1 DEF QueueOK
<1>4. /\ queue' = Tail(queue) /\ now' = now /\ attempt' = attempt /\ retryAt' = retryAt
      /\ starts' = Append(starts, [task |-> Head(queue), at |-> now])
    BY DEF Begin, GrantSlot, Rest
<1> DEFINE e == Target(c)
<1>5. e \in Endpoints /\ connections[e] \in {"none", "building", "up"}
    BY <1>1 DEF ConnectionsOK, Target, Endpoints
<1>6. /\ stage' = [stage EXCEPT ![c] =
                     CASE connections[e] = "up" -> "asking"
                       [] connections[e] = "failed" -> "rejected"
                       [] OTHER -> "connecting"]
      /\ connections' = [connections EXCEPT ![e] = IF @ = "none" THEN "building" ELSE @]
    BY Zenon DEF Begin
<1> HIDE DEF e
<1>7. PICK s \in {"asking", "connecting"} :
          /\ stage' = [stage EXCEPT ![c] = s]
          /\ s = "connecting" => connections[e] # "up"
    <2>1. CASE connections[e] = "up"
        <3>1. (CASE connections[e] = "up" -> "asking"
                 [] connections[e] = "failed" -> "rejected"
                 [] OTHER -> "connecting") = "asking"
            BY <2>1
        <3>. QED  BY <1>6, <3>1, <2>1, Zenon
    <2>2. CASE connections[e] # "up"
        <3>0. connections[e] # "failed"
            BY <1>5
        <3>1. (CASE connections[e] = "up" -> "asking"
                 [] connections[e] = "failed" -> "rejected"
                 [] OTHER -> "connecting") = "connecting"
            BY <2>2, <3>0, Zenon
        <3>. QED  BY <1>6, <3>1, <2>2, Zenon
    <2>. QED  BY <2>1, <2>2
<1>8. /\ stage' \in [Calls -> Stages] /\ stage'[c] = s
      /\ \A b \in Calls : b # c => stage'[b] = stage[b]
    BY <1>1, <1>3, <1>7 DEF StagesOK, Stages
<1>9. /\ connections' \in [Endpoints -> {"none", "building", "up"}]
      /\ \A d \in Endpoints : connections[d] = "building" => connections'[d] = "building"
      /\ connections[e] # "up" => connections'[e] = "building"
    BY <1>1, <1>5, <1>6 DEF ConnectionsOK
<1>. QED  BY <1>1, <1>3, <1>4, <1>7, <1>8, <1>9 DEF e

LEMMA BeginKeepsQueue ==
    ASSUME RpcInv, Begin
    PROVE  QueueOK'
<1> DEFINE c == Head(queue)[1]
<1>1. /\ c \in Calls /\ queue # << >> /\ queue' = Tail(queue) /\ attempt' = attempt
      /\ stage'[c] # "queued"
      /\ \A b \in Calls : b # c => stage'[b] = stage[b]
    BY BeginFacts
<1>2. /\ queue \in Seq(Tasks) /\ QueueOK
      /\ \A i \in DOMAIN queue : queue[i][1] \in Calls
    BY SlotFacts DEF RpcInv
<1> DEFINE r == queue'
<1>3. /\ c = queue[1][1] /\ 1 \in DOMAIN queue
      /\ \A i \in DOMAIN r : i + 1 \in DOMAIN queue /\ i + 1 # 1 /\ r[i] = queue[i + 1]
      /\ \A i \in DOMAIN r : i \in Nat
      /\ \A i \in DOMAIN queue : i = 1 \/ (i - 1 \in DOMAIN r /\ (i - 1) + 1 = i)
    BY <1>1, <1>2, FirstTaken
<1> HIDE DEF c, r
<1>4. ASSUME NEW i \in DOMAIN r
      PROVE  /\ r[i] = <<r[i][1], attempt'[r[i][1]]>>
             /\ stage'[r[i][1]] = "queued"
    <2>1. /\ i + 1 \in DOMAIN queue /\ i + 1 # 1 /\ r[i] = queue[i + 1]
          /\ queue[i + 1][1] \in Calls
        BY <1>2, <1>3
    <2>2. queue[i + 1][1] # c
        BY <1>2, <1>3, <2>1 DEF QueueOK
    <2>. QED  BY <1>1, <1>2, <2>1, <2>2 DEF QueueOK
<1>5. ASSUME NEW i \in DOMAIN r, NEW j \in DOMAIN r, i # j
      PROVE  r[i][1] # r[j][1]
    <2>1. /\ i + 1 \in DOMAIN queue /\ j + 1 \in DOMAIN queue /\ i + 1 # j + 1
          /\ r[i] = queue[i + 1] /\ r[j] = queue[j + 1]
        BY <1>3, <1>5
    <2>. QED  BY <1>2, <2>1 DEF QueueOK
<1>6. ASSUME NEW b \in Calls, stage'[b] = "queued"
      PROVE  \E i \in DOMAIN r : r[i][1] = b
    <2>1. b # c /\ stage[b] = "queued"
        BY <1>1, <1>6
    <2>2. PICK i \in DOMAIN queue : queue[i][1] = b
        BY <1>2, <2>1 DEF QueueOK
    <2>3. i # 1
        BY <1>3, <2>1, <2>2
    <2>4. i - 1 \in DOMAIN r /\ r[i - 1] = queue[i]
        BY <1>3, <2>2, <2>3
    <2>. QED  BY <2>2, <2>4
<1>. QED  BY <1>4, <1>5, <1>6 DEF QueueOK, r

LEMMA BeginKeepsSlots ==
    ASSUME RpcInv, Begin
    PROVE  SlotsOK'
<1> USE RpcAssumption
<1>0. PICK c \in Calls : c = Head(queue)[1]
    BY BeginFacts
<1> DEFINE L == Len(starts) + 1
           s == [task |-> <<c, attempt[c]>>, at |-> now]
           r == starts'
<1>1. /\ c \in Calls /\ stage[c] = "queued"
      /\ starts' = Append(starts, s)
      /\ now' = now /\ attempt' = attempt /\ retryAt' = retryAt
      /\ stage'[c] \in {"asking", "connecting"}
      /\ \A b \in Calls : b # c => stage'[b] = stage[b]
    BY <1>0, BeginFacts
<1>2. /\ now \in Nat /\ SlotsOK /\ StagesOK
      /\ starts \in Seq([task : Tasks, at : Nat])
      /\ \A i \in DOMAIN starts : /\ starts[i].at \in Nat /\ starts[i].task[1] \in Calls
                                  /\ starts[i].task[2] \in Nat
    BY SlotFacts DEF RpcInv
<1>3. attempt[c] \in Nat /\ attempt[c] \in 0..MaxAttempts
    BY <1>1, <1>2 DEF StagesOK
<1>4. s \in [task : Tasks, at : Nat]
    BY <1>1, <1>2, <1>3
<1>5. s.task[1] = c /\ s.task[2] = attempt[c] /\ s.at = now
    OBVIOUS
<1> HIDE DEF s
<1>6. /\ Len(starts) \in Nat /\ DOMAIN starts = 1..Len(starts)
      /\ \A i \in DOMAIN starts : i \in DOMAIN r /\ r[i] = starts[i]
      /\ L \in DOMAIN r /\ r[L] = s
      /\ \A i \in DOMAIN r : i \in DOMAIN starts \/ i = L
    BY <1>1, <1>2, <1>4, AddedLast
<1>7. L \notin DOMAIN starts /\ \A i \in DOMAIN starts : i < L /\ ~ (L < i)
    BY <1>6
<1> HIDE DEF L
<1>8. \A i \in DOMAIN r : r[i].at <= now'
    BY <1>1, <1>2, <1>5, <1>6 DEF SlotsOK
<1>9. \A b \in Calls : SlotsOf(b)' = {i \in DOMAIN r : r[i].task[1] = b}
    BY DEF SlotsOf, r
<1>10. \A b \in Calls : SlotsOf(b) = {i \in DOMAIN starts : starts[i].task[1] = b}
    BY DEF SlotsOf
<1>11. ASSUME NEW b \in Calls, b # c
       PROVE  Numbered(b)' /\ Spaced(b)' /\ Waited(b)'
    <2>1. Numbered(b) /\ Spaced(b) /\ Waited(b)
        BY <1>2 DEF SlotsOK
    <2>2. SlotsOf(b)' = SlotsOf(b)
        <3>1. \A i \in DOMAIN r : r[i].task[1] = b => i \in DOMAIN starts
            BY <1>5, <1>6, <1>11
        <3>. QED  BY <1>6, <1>9, <1>10, <3>1
    <2>3. \A i \in SlotsOf(b) : starts'[i] = starts[i]
        BY <1>6, <1>10 DEF r
    <2>4. Begun(b)' = Begun(b)
        BY <1>1, <1>11 DEF Begun
    <2>5. Numbered(b)'
        BY <2>1, <2>2, <2>3, <2>4 DEF Numbered
    <2>6. Spaced(b)'
        BY <2>1, <2>2, <2>3 DEF Spaced
    <2>7. Waited(b)'
        BY <1>1, <1>11, <2>1, <2>2, <2>3 DEF Waited
    <2>. QED  BY <2>5, <2>6, <2>7
<1>12. Numbered(c)' /\ Spaced(c)' /\ Waited(c)'
    <2> DEFINE n == attempt[c]
               Old == SlotsOf(c)
    <2>0. Numbered(c) /\ Spaced(c) /\ Waited(c)
        BY <1>1, <1>2 DEF SlotsOK
    <2>1. /\ SlotsOf(c)' = Old \cup {L}
          /\ \A i \in Old : i \in DOMAIN starts /\ starts'[i] = starts[i]
          /\ starts'[L] = s
        <3>1. SlotsOf(c)' = {i \in DOMAIN r : r[i].task[1] = c}
            BY <1>9
        <3>2. Old = {i \in DOMAIN starts : starts[i].task[1] = c}
            BY <1>10
        <3>3. r[L].task[1] = c
            BY <1>5, <1>6
        <3>4. {i \in DOMAIN r : r[i].task[1] = c}
                 = {i \in DOMAIN starts : starts[i].task[1] = c} \cup {L}
            BY <1>6, <3>3
        <3>5. \A i \in Old : i \in DOMAIN starts /\ starts'[i] = starts[i]
            BY <1>6, <3>2 DEF r
        <3>. QED  BY <1>6, <3>1, <3>2, <3>4, <3>5 DEF r
    <2>2. Begun(c) = n /\ Begun(c)' = n + 1
        BY <1>1, <1>3 DEF Begun
    <2>3. {starts[i].task[2] : i \in Old} = 0..n - 1
        BY <2>0, <2>2 DEF Numbered
    <2>4. \A i \in Old : starts[i].task[2] \in 0..n - 1
        BY <2>3
    <2> HIDE DEF n, Old
    <2>5. n \in Nat /\ s.task[2] = n
        BY <1>3, <1>5 DEF n
    <2>6. {starts'[i].task[2] : i \in SlotsOf(c)'} = 0..(n + 1) - 1
        <3>1. {starts'[i].task[2] : i \in SlotsOf(c)'} = {starts[i].task[2] : i \in Old} \cup {n}
            BY <2>1, <2>5
        <3>2. (0..n - 1) \cup {n} = 0..(n + 1) - 1
            BY <2>5
        <3>. QED  BY <2>3, <3>1, <3>2
    <2>7. \A i, j \in SlotsOf(c)' : i < j => starts'[i].task[2] < starts'[j].task[2]
        <3>1. ASSUME NEW i \in Old, NEW j \in Old, i < j
              PROVE  starts[i].task[2] < starts[j].task[2]
            BY <2>0, <3>1 DEF Numbered, Old
        <3>2. ASSUME NEW i \in Old
              PROVE  starts[i].task[2] < n
            BY <2>4, <2>5
        <3>3. ~ (L < L)
            BY <1>6 DEF L
        <3>. QED  BY <1>7, <2>1, <2>5, <3>1, <3>2, <3>3
    <2>8. Numbered(c)'
        BY <2>2, <2>6, <2>7 DEF Numbered
    <2>9. ASSUME NEW i \in SlotsOf(c)', NEW j \in SlotsOf(c)',
                 starts'[j].task[2] = starts'[i].task[2] + 1,
                 starts'[j].task[2] < MaxAttempts
          PROVE  starts'[j].at >= starts'[i].at + BackoffMs(starts'[i].task[2])
        <3>1. CASE i \in Old /\ j \in Old
            BY <2>0, <2>1, <2>9, <3>1 DEF Spaced, Old
        <3>2. CASE i \in Old /\ j = L
            <4>1. /\ starts[i].task[2] + 1 = n /\ n < MaxAttempts
                BY <2>1, <2>5, <2>9, <3>2
            <4>2. starts[i].at + BackoffMs(starts[i].task[2]) <= now
                BY <1>1, <2>0, <3>2, <4>1 DEF Waited, Old, n
            <4>3. starts[i].at \in Nat /\ BackoffMs(starts[i].task[2]) \in Nat
                BY <1>2, <2>1, <3>2, BackoffType
            <4>4. starts'[i] = starts[i] /\ starts'[j].at = now
                BY <1>5, <2>1, <3>2
            <4>. QED  BY <1>2, <4>2, <4>3, <4>4
        <3>3. CASE i = L /\ j \in Old
            <4>1. starts[j].task[2] = n + 1 /\ starts[j].task[2] \in 0..n - 1
                BY <2>1, <2>4, <2>5, <2>9, <3>3
            <4>. QED  BY <2>5, <4>1
        <3>4. CASE i = L /\ j = L
            <4>1. n = n + 1
                BY <2>1, <2>5, <2>9, <3>4
            <4>. QED  BY <2>5, <4>1
        <3>. QED  BY <2>1, <3>1, <3>2, <3>3, <3>4
    <2>10. Spaced(c)'
        BY <2>9 DEF Spaced
    <2>11. Waited(c)'
        BY <1>1 DEF Waited
    <2>. QED  BY <2>8, <2>10, <2>11
<1>13. \A b \in Calls : Numbered(b)' /\ Spaced(b)' /\ Waited(b)'
    BY <1>11, <1>12
<1>. QED  BY <1>8, <1>13 DEF SlotsOK, r

LEMMA CallBegins ==
    ASSUME RpcInv, Begin
    PROVE  CallsOK' /\ MeetsNoFailure
<1> DEFINE c == Head(queue)[1]
<1>1. /\ c \in Calls
      /\ attempt' = attempt /\ retryAt' = retryAt
      /\ stage' \in [Calls -> Stages]
      /\ stage'[c] \in {"asking", "connecting"}
      /\ \A b \in Calls : b # c => stage'[b] = stage[b]
      /\ connections' \in [Endpoints -> {"none", "building", "up"}]
      /\ \A e \in Endpoints : connections[e] = "building" => connections'[e] = "building"
      /\ stage'[c] = "connecting" => connections'[Target(c)] = "building"
    BY BeginFacts
<1> HIDE DEF c
<1>2. StagesOK /\ ConnectionsOK
    BY DEF RpcInv
<1>3. StagesOK'
    BY <1>1, <1>2 DEF StagesOK
<1>4. ConnectionsOK'
    <2>1. \A b \in Calls : Target(b)' = Target(b) /\ Target(b) \in Endpoints
        BY <1>1 DEF Target, Endpoints
    <2>. QED  BY <1>1, <1>2, <2>1 DEF ConnectionsOK
<1>5. MeetsNoFailure
    BY <1>1 DEF MeetsNoFailure
<1>. QED  BY <1>3, <1>4, <1>5, BeginKeepsQueue, BeginKeepsSlots DEF CallsOK

LEMMA HandleKeeps ==
    ASSUME RpcInv, NEW c \in Calls, Handle(c)
    PROVE  CallsOK' /\ MeetsNoFailure
<1> USE RpcAssumption
<1>1. stage[c] \in {"asking", "rejected"}
    BY DEF Handle, GiveUp, BackOff, FallBack, Exhaust, Throws
<1>2. CASE GiveUp(c)
    <2>1. MovesOn(c, "failed")
        BY <1>1, <1>2 DEF GiveUp, Settle, MovesOn
    <2>. QED  BY <2>1, CallMoves
<1>3. CASE BackOff(c)
    <2>1. MovesOn(c, "backoff")
        BY <1>1, <1>3 DEF BackOff, MovesOn
    <2>. QED  BY <2>1, CallMoves
<1>4. CASE FallBack(c)
    BY <1>1, <1>4, AttemptScheduled DEF FallBack
<1>5. CASE Exhaust(c)
    <2>1. MovesOn(c, "exhausted")
        BY <1>1, <1>5 DEF Exhaust, Settle, MovesOn
    <2>. QED  BY <2>1, CallMoves
<1>. QED  BY <1>2, <1>3, <1>4, <1>5 DEF Handle

LEMMA RpcCallsStep ==
    ASSUME RpcInv, [Next]_rpcVars
    PROVE  CallsOK' /\ MeetsNoFailure
<1> USE RpcAssumption
<1>0. now \in Nat /\ StagesOK
    BY SlotFacts DEF RpcInv
<1>1. CASE LookForSlot /\ Others
    BY <1>0, <1>1, CallsKept DEF LookForSlot
<1>2. CASE Begin
    BY <1>2, CallBegins
<1>3. CASE Wake /\ Others
    BY <1>0, <1>3, CallsKept DEF Wake
<1>4. CASE QueueEmpty /\ Others
    BY <1>0, <1>4, CallsKept DEF QueueEmpty
<1>5. ASSUME NEW e \in Endpoints, Connected(e)
      PROVE  CallsOK' /\ MeetsNoFailure
    BY <1>5, WaitersReleased DEF Connected
<1>6. ASSUME NEW e \in Endpoints, ConnectFails(e)
      PROVE  CallsOK' /\ MeetsNoFailure
    BY <1>6, WaitersReleased DEF ConnectFails, Forgotten
<1>7. ASSUME NEW c \in Calls, Call(c)
      PROVE  CallsOK' /\ MeetsNoFailure
    BY <1>7, AttemptScheduled DEF Call
<1>8. ASSUME NEW c \in Calls, Answer(c)
      PROVE  CallsOK' /\ MeetsNoFailure
    <2>1. MovesOn(c, "succeeded")
        BY <1>8 DEF Answer, MovesOn
    <2>. QED  BY <2>1, CallMoves
<1>9. ASSUME NEW c \in Calls, Retry(c)
      PROVE  CallsOK' /\ MeetsNoFailure
    <2>1. attempt[c] + 1 \in 0..MaxAttempts
        BY <1>0, <1>9 DEF Retry, StagesOK
    <2>. QED  BY <1>9, <2>1, AttemptScheduled DEF Retry
<1>10. CASE PassTime
    <2>1. /\ now' = now + 1 /\ queue' = queue /\ starts' = starts /\ Others
        BY <1>10 DEF PassTime, Advance, Others
    <2>. QED  BY <1>0, <2>1, CallsKept
<1>11. CASE UNCHANGED rpcVars
    <2>1. now' = now /\ queue' = queue /\ starts' = starts /\ Others
        BY <1>11 DEF rpcVars, Others
    <2>. QED  BY <1>0, <2>1, CallsKept
<1>. QED
    BY <1>1, <1>2, <1>3, <1>4, <1>5, <1>6, <1>7, <1>8, <1>9, <1>10, <1>11, HandleKeeps
    DEF Next, Pump

LEMMA RpcInvStep == RpcInv /\ [Next]_rpcVars => RpcInv' /\ MeetsNoFailure
<1> SUFFICES ASSUME RpcInv, [Next]_rpcVars
             PROVE  RpcInv' /\ MeetsNoFailure
    OBVIOUS
<1>1. AttemptsInBounds
    BY DEF RpcInv, StagesOK, AttemptsInBounds
<1>2. LimiterInv'
    BY <1>1, RpcStep, LimiterStep DEF RpcInv
<1>. QED  BY <1>2, RpcCallsStep DEF RpcInv, CallsOK

\* A queued call is in the queue once and no other is, and whoever awaits a
\* connection has somebody building it (connection.js, the map of connections).
THEOREM RpcTypeCorrect == Spec => []TypeOK
<1>. QED  BY RpcInvInit, RpcInvStep, RpcTypes, PTL DEF Spec

\* Each attempt, retries and the fallback included, takes one slot of its own and
\* none twice, and a retry starts at least its backoff after the attempt before it
\* (connection.js:9-10), for every number of calls and attempts.
THEOREM AttemptsPay == Spec => []EveryAttemptPays
<1>. QED  BY RpcInvInit, RpcInvStep, RpcPays, PTL DEF Spec

\* No failed construction stays in the map (connection.js:198-199): an attempt
\* that starts never meets a connection already known to have failed.
THEOREM FailureIsForgotten == Spec => FailureNotCached
<1>1. RpcInv /\ [Next]_rpcVars =>
         [\A c \in Calls : stage[c] = "queued" => stage'[c] # "rejected"]_rpcVars
    BY RpcInvStep DEF MeetsNoFailure
<1>. QED  BY RpcInvInit, RpcInvStep, <1>1, PTL DEF Spec, FailureNotCached

-----------------------------------------------------------------------------
(* The walk down the history of an address, and what is made of it.        *)

\* The n positions from here downwards.
Down(from, n) == [i \in 1..n |-> from + 1 - i]

\* What was listed is the chain from where the walk began, downwards, without a gap.
WalkInv ==
    /\ top \in Nat /\ top <= Len(chain)
    /\ entries = Down(top, Len(entries)) /\ Len(entries) \in 0..top
    /\ before = None /\ walkEnd \in {"open", "reachedEnd"} => entries = << >>
    /\ walkEnd \in {"open", "reachedEnd"} /\ before # None => before = top + 1 - Len(entries)
    /\ walkEnd = "reachedEnd" => deepest \in Nat /\ top - Len(entries) <= deepest
    /\ walkEnd = "windowEdge" => asked = "deployer" /\ top - Len(entries) < edge

\* What the wallet paid for.
Paid(i) == IF chain[i].payer = Wallet THEN chain[i].mints ELSE {}

\* Before the scan nothing was read.
Untouched ==
    phase = "walk" => /\ mints = {} /\ at = 1 /\ scanned = 0 /\ absent = {}
                      /\ ~ truncated /\ result = None

\* The positions read by a node that had the transaction.
ReadSoFar == {k \in 1..(at - 1) : entries[k] \notin absent}

\* What was read so far, when nothing has been missed;
Complete ==
    /\ walkEnd \in {"reachedEnd", "windowEdge"} /\ pages > 0
    /\ Len(Candidates) = Len(entries)
    /\ at <= Len(entries) + 1 /\ scanned = at - 1
    /\ absent \subseteq {entries[k] : k \in 1..(at - 1)}
    /\ mints = UNION {Paid(entries[k]) : k \in ReadSoFar}

\* and what is not truncated has missed nothing.
ScanInv ==
    /\ mints \subseteq UNION {Paid(i) : i \in Listed}
    /\ phase \in {"read", "risk", "done"} /\ asked = "deployer" /\ ~ truncated =>
         Complete /\ (phase # "read" => at = Len(entries) + 1)

\* Only a walk that was answered ends well, and only a deployer is scanned.
PhaseInv ==
    /\ walkEnd \in {"reachedEnd", "windowEdge"} => pages > 0
    /\ phase \in {"read", "risk"} => asked = "deployer"

\* A result says what was established when it was drawn up.
ResultInv ==
    /\ asked = "creator" /\ result # None =>
         /\ phase = "done" /\ CreationSeen
         /\ result.signature = Oldest /\ result.creator = chain[Oldest].payer
    /\ asked = "deployer" /\ phase = "done" =>
         \E risk \in Risks :
         result = [onchain |-> onchainCount,
                    mintCount |-> IF onchainCount # None THEN onchainCount
                                  ELSE Of(risk, "mintCount"),
                    ruggedCount |-> Of(risk, "rugCount"),
                    priorRugRate |-> Of(risk, "priorRugRate"),
                    knownMints |-> mints,
                    mintCountIsLowerBound |-> ~ Available \/ truncated]

\* The types.
HistoryTypeOK ==
    /\ asked \in {"creator", "deployer"} /\ chain \in Seq(Kinds) /\ floor \in [Nodes -> Nat]
    /\ edge \in Nat /\ gone \in BOOLEAN /\ phase \in {"walk", "read", "risk", "done"}
    /\ pages \in Nat /\ before \in Nat \cup {None}
    /\ walkEnd \in {"open", "reachedEnd", "windowEdge", "cut", "threw"}
    /\ scanned \in Nat /\ at \in Nat \ {0} /\ truncated \in BOOLEAN /\ IsFiniteSet(mints)
    /\ deepest \in Nat \cup {None}

\* The inductive invariant.
HistoryInv ==
    /\ HistoryTypeOK /\ WalkInv /\ Untouched /\ ScanInv /\ PhaseInv /\ ResultInv

-----------------------------------------------------------------------------
LEMMA LeastOf ==
    ASSUME NEW T \in SUBSET Nat, T # {}
    PROVE  Min(T) \in T /\ \A x \in T : Min(T) <= x
<1> DEFINE R == {ss \in Nat \X Nat : ss[1] < ss[2]}
<1>1. IsWellFoundedOn(R, Nat)
    BY NatLessThanWellFounded DEF OpToRel
<1> HIDE DEF R
<1>2. PICK x \in T : \A y \in T : ~ (<<y, x>> \in R)
    BY <1>1, WFMin
<1>3. ASSUME NEW y \in T
      PROVE  x <= y
    <2>1. ~ (y < x)
        BY <1>2 DEF R
    <2>. QED  BY <2>1
<1>. QED  BY <1>3 DEF Min

LEMMA DownIs ==
    ASSUME NEW from \in Int, NEW n \in Nat
    PROVE  /\ Down(from, n) \in Seq(Int) /\ Len(Down(from, n)) = n
           /\ DOMAIN Down(from, n) = 1..n
           /\ \A i \in 1..n : Down(from, n)[i] = from + 1 - i
    BY DEF Down

LEMMA DownJoined ==
    ASSUME NEW from \in Int, NEW n \in Nat, NEW m \in Nat
    PROVE  Down(from, n) \o Down(from - n, m) = Down(from, n + m)
<1> DEFINE a == Down(from, n)
           b == Down(from - n, m)
<1>1. a \in Seq(Int) /\ b \in Seq(Int) /\ Len(a) = n /\ Len(b) = m
    BY DownIs
<1>2. /\ \A i \in 1..n : a[i] = from + 1 - i
      /\ \A i \in 1..m : b[i] = from - n + 1 - i
    BY DownIs
<1> HIDE DEF a, b
<1> DEFINE c == a \o b
<1>3. c \in Seq(Int) /\ Len(c) = n + m
    BY <1>1
<1>4. ASSUME NEW i \in 1..(n + m)
      PROVE  c[i] = from + 1 - i
    <2>0. i \in Int /\ (i <= n \/ i > n)
        OBVIOUS
    <2>1. CASE i <= n
        BY <1>1, <1>2, <2>1
    <2>2. CASE i > n
        <3>1. i - n \in 1..m
            BY <2>2
        <3>2. c[i] = b[i - n]
            BY <1>1, <2>2
        <3>3. b[i - n] = from - n + 1 - (i - n)
            BY <1>2, <3>1
        <3>. QED  BY <3>2, <3>3
    <2>. QED  BY <2>0, <2>1, <2>2
<1> HIDE DEF c
<1>5. c = [i \in 1..(n + m) |-> c[i]]
    BY <1>3
<1>6. c = Down(from, n + m)
    BY <1>4, <1>5 DEF Down
<1>. QED  BY <1>6 DEF a, b, c

LEMMA DownCut ==
    ASSUME NEW from \in Int, NEW n \in Nat, NEW k \in 0..n
    PROVE  SubSeq(Down(from, n), 1, k) = Down(from, k)
<1> DEFINE a == Down(from, n)
<1>1. a \in Seq(Int) /\ Len(a) = n /\ \A i \in 1..n : a[i] = from + 1 - i
    BY DownIs
<1> HIDE DEF a
<1> DEFINE b == SubSeq(a, 1, k)
<1>2. b \in Seq(Int) /\ Len(b) = k /\ \A i \in 1..k : b[i] = a[i]
    BY <1>1
<1> HIDE DEF b
<1>3. b = [i \in 1..k |-> b[i]]
    BY <1>2
<1>4. b = Down(from, k)
    BY <1>1, <1>2, <1>3 DEF Down
<1>. QED  BY <1>4 DEF a, b

\* From where a page is listed.
Newest == IF before = None THEN Len(chain) ELSE before - 1

LEMMA LenType ==
    ASSUME NEW S, NEW s \in Seq(S)
    PROVE  Len(s) \in Nat
    OBVIOUS

LEMMA PageIs ==
    ASSUME HistoryTypeOK, NEW node \in Nodes
    PROVE  \E m \in Nat :
             /\ Page(node) = Down(Newest, m)
             /\ m > 0 => Newest - m >= floor[node]
             /\ m = 0 \/ m < PageLimit => Newest - m <= floor[node]
<1> DEFINE kept == IF Newest > floor[node] THEN Newest - floor[node] ELSE 0
           m == IF kept < PageLimit THEN kept ELSE PageLimit
<1>1. Newest \in Int /\ floor[node] \in Nat /\ PageLimit \in Nat \ {0}
    <2>1. Len(chain) \in Nat
        <3>1. chain \in Seq(Kinds)
            BY DEF HistoryTypeOK
        <3>. QED  BY <3>1, LenType
    <2>2. before # None => before \in Nat
        BY DEF HistoryTypeOK
    <2>3. floor[node] \in Nat
        BY DEF HistoryTypeOK
    <2>4. Newest \in Int
        BY <2>1, <2>2 DEF Newest
    <2>. QED  BY <2>3, <2>4, HistoryAssumption
<1>2. Page(node) = Down(Newest, m)
    BY DEF Page, Down, Newest
<1> HIDE DEF Newest
<1>3. kept \in Nat
    BY <1>1
<1>4. m \in Nat
    BY <1>1, <1>3
<1>5. m > 0 => Newest - m >= floor[node]
    BY <1>1
<1>6. m = 0 \/ m < PageLimit => Newest - m <= floor[node]
    BY <1>1
<1>. QED  BY <1>2, <1>4, <1>5, <1>6

LEMMA InsideIs ==
    ASSUME HistoryTypeOK, NEW from \in Int, NEW m \in Nat
    PROVE  LET page == Down(from, m)
               P == {j \in DOMAIN page : PastEdge(page[j])}
           IN \E k \in 0..m :
                /\ Inside(page) = Down(from, k)
                /\ P = {} => k = m
                /\ P # {} => from - k < edge /\ asked = "deployer"
<1> DEFINE page == Down(from, m)
           P == {j \in DOMAIN page : PastEdge(page[j])}
           T == {Len(page)} \cup {i - 1 : i \in P}
           k == Min(T)
<1>1. /\ Len(page) = m /\ DOMAIN page = 1..m
      /\ \A i \in 1..m : page[i] = from + 1 - i
    BY DownIs
<1>2. Inside(page) = SubSeq(page, 1, k)
    BY DEF Inside
<1>2a. \A j \in P : j \in 1..m /\ PastEdge(page[j])
    BY <1>1
<1> HIDE DEF page, P
<1>3. T \in SUBSET Nat /\ T # {} /\ m \in T
    BY <1>1, <1>2a
<1>3a. \A t \in T : t = m \/ \E j \in P : t = j - 1
    BY <1>1
<1>3b. \A j \in P : j - 1 \in T
    OBVIOUS
<1> HIDE DEF T
<1>4. k \in T /\ \A x \in T : k <= x
    BY <1>3, LeastOf
<1> HIDE DEF k
<1>5. k \in 0..m
    BY <1>3, <1>4
<1>6. P = {} => k = m
    BY <1>3a, <1>4
<1>7. ASSUME P # {}
      PROVE  from - k < edge /\ asked = "deployer"
    <2>1. k \in Nat /\ k < m
        <3>1. PICK j \in P : TRUE
            BY <1>7
        <3>. QED  BY <1>2a, <1>3b, <1>4, <1>5, <3>1
    <2>2. PICK j \in P : k = j - 1
        BY <1>3a, <1>4, <2>1
    <2>3. page[j] = from - k /\ PastEdge(page[j])
        BY <1>1, <1>2a, <2>2
    <2>. QED  BY <2>3 DEF PastEdge
<1>8. Inside(page) = Down(from, k)
    BY <1>2, <1>5, DownCut DEF page
<1>. QED  BY <1>5, <1>6, <1>7, <1>8 DEF page, P

LEMMA DownNone ==
    ASSUME NEW from \in Int
    PROVE  Down(from, 0) = << >>
    BY DEF Down

LEMMA EntriesAre ==
    ASSUME WalkInv
    PROVE  /\ entries \in Seq(Int) /\ DOMAIN entries = 1..Len(entries) /\ Len(entries) \in Nat
           /\ \A i \in DOMAIN entries : entries[i] = top + 1 - i /\ entries[i] \in 1..top
           /\ \A i, j \in DOMAIN entries : entries[i] = entries[j] => i = j
<1> DEFINE n == Len(entries)
<1>1. top \in Nat /\ n \in 0..top /\ entries = Down(top, n)
    BY DEF WalkInv
<1>1a. n \in Nat /\ top \in Int
    BY <1>1
<1> HIDE DEF n
<1>2. /\ Down(top, n) \in Seq(Int) /\ Len(Down(top, n)) = n /\ DOMAIN Down(top, n) = 1..n
      /\ \A i \in 1..n : Down(top, n)[i] = top + 1 - i
    BY <1>1a, DownIs
<1>3. /\ entries \in Seq(Int) /\ DOMAIN entries = 1..n /\ n \in Nat
      /\ \A i \in DOMAIN entries : entries[i] = top + 1 - i
    BY <1>1, <1>2
<1>4. \A i \in DOMAIN entries : entries[i] \in 1..top
    BY <1>1, <1>3
<1>5. \A i, j \in DOMAIN entries : entries[i] = entries[j] => i = j
    BY <1>1, <1>3
<1>. QED  BY <1>3, <1>4, <1>5 DEF n

LEMMA FetchPageWalks ==
    ASSUME HistoryTypeOK, WalkInv, NEW node \in Nodes, FetchPage(node)
    PROVE  WalkInv' /\ pages' > 0 /\ pages' \in Nat /\ before' \in Nat \cup {None}
           /\ walkEnd' \in {"open", "reachedEnd", "windowEdge"} /\ deepest' \in Nat
<1> DEFINE n == Len(entries)
           last == IF before = None THEN Len(chain) ELSE top
           page == Page(node)
           P == {j \in DOMAIN page : PastEdge(page[j])}
<1>1. walkEnd = "open" /\ pages' = pages + 1 /\ deepest' = floor[node]
    BY DEF FetchPage, Walking
<1>1a. chain' = chain /\ asked' = asked /\ edge' = edge
    BY DEF FetchPage, world
<1>1b. entries' = entries \o Inside(page)
    BY DEF FetchPage
<1>1c. walkEnd' = EndOf(page)
    BY DEF FetchPage
<1>1d. before' = IF page = << >> \/ walkEnd' = "windowEdge"
                 THEN before ELSE page[Len(page)]
    BY <1>1c DEF FetchPage
<1>1e. top' = last
    BY DEF FetchPage
<1>2. /\ Len(chain) \in Nat /\ floor[node] \in Nat /\ PageLimit \in Nat \ {0}
      /\ edge \in Nat /\ pages \in Nat
    <2>1. chain \in Seq(Kinds) /\ floor[node] \in Nat /\ edge \in Nat /\ pages \in Nat
        BY DEF HistoryTypeOK
    <2>. QED  BY <2>1, LenType, HistoryAssumption
<1>3. /\ top \in Nat /\ n \in 0..top /\ top <= Len(chain) /\ entries = Down(top, n)
      /\ before = None => entries = << >>
      /\ before # None => before = top + 1 - n
    BY <1>1 DEF WalkInv
<1>4. before = None => n = 0
    BY <1>3
<1>5. /\ last \in Nat /\ n \in 0..last /\ last <= Len(chain) /\ Newest = last - n
    BY <1>2, <1>3, <1>4 DEF Newest
<1>6. entries = Down(last, n)
    BY <1>3, <1>4, <1>2, DownNone
<1>7. PICK m \in Nat : /\ page = Down(Newest, m)
                       /\ m > 0 => Newest - m >= floor[node]
                       /\ m = 0 \/ m < PageLimit => Newest - m <= floor[node]
    BY PageIs
<1>8. Newest \in Int
    BY <1>5
<1>9. /\ Len(page) = m /\ DOMAIN page = 1..m /\ page \in Seq(Int)
      /\ \A i \in 1..m : page[i] = Newest + 1 - i
    BY <1>7, <1>8, DownIs
<1>10. page = << >> <=> m = 0
    BY <1>9
<1> HIDE DEF page, last, n, Newest
<1>11. PICK k \in 0..m : /\ Inside(page) = Down(Newest, k)
                         /\ P = {} => k = m
                         /\ P # {} => Newest - k < edge /\ asked = "deployer"
    BY <1>7, <1>8, InsideIs
<1>12. EndOf(page) = IF m = 0 THEN "reachedEnd" ELSE IF P # {} THEN "windowEdge"
                     ELSE IF m < PageLimit THEN "reachedEnd" ELSE "open"
    BY <1>9, <1>10 DEF EndOf
<1> HIDE DEF P
<1>13. entries' = Down(top', n + k)
    <2>1. Newest = last - n /\ last \in Int /\ n \in Nat /\ k \in Nat
        BY <1>5
    <2>2. Down(last, n) \o Down(last - n, k) = Down(last, n + k)
        BY <2>1, DownJoined
    <2>. QED  BY <1>1b, <1>1e, <1>6, <1>11, <2>1, <2>2
<1>14. n + k \in 0..top' /\ top' \in Nat /\ top' <= Len(chain')
    <2>1. k > 0 => last - n - m >= 0
        BY <1>2, <1>5, <1>7, <1>11
    <2>. QED  BY <1>1a, <1>1e, <1>2, <1>5, <1>7, <1>11, <2>1
<1>15. Len(entries') = n + k
    BY <1>13, <1>14, DownIs
<1>16. m > 0 => page[m] = Newest + 1 - m
    BY <1>7, <1>9
<1>17. m > 0 => Newest + 1 - m \in Nat
    BY <1>2, <1>7, <1>8
<1>18. before' = None /\ walkEnd' \in {"open", "reachedEnd"} => entries' = << >>
    <2>1. SUFFICES ASSUME before' = None, walkEnd' \in {"open", "reachedEnd"}
                   PROVE  entries' = << >>
        OBVIOUS
    <2>2. m = 0
        BY <1>1d, <1>7, <1>9, <1>10, <1>16, <1>17, <2>1, HistoryAssumption
    <2>3. before = None /\ k = 0
        BY <1>1d, <1>10, <1>11, <2>1, <2>2
    <2>4. top' \in Int /\ n = 0
        BY <1>4, <1>14, <2>3
    <2>. QED  BY <1>13, <2>3, <2>4, DownNone
<1>19. walkEnd' \in {"open", "reachedEnd"} /\ before' # None => before' = top' + 1 - Len(entries')
    <2>1. SUFFICES ASSUME walkEnd' \in {"open", "reachedEnd"}, before' # None
                   PROVE  before' = top' + 1 - (n + k)
        BY <1>15
    <2>2. CASE m = 0
        <3>1. k = 0 /\ before' = before
            BY <1>1d, <1>10, <1>11, <2>2
        <3>2. last = top
            BY <2>1, <3>1 DEF last
        <3>. QED  BY <1>1e, <1>3, <1>4, <1>5, <2>1, <3>1, <3>2
    <2>3. CASE m # 0
        <3>1. P = {} /\ k = m
            BY <1>1c, <1>11, <1>12, <2>1, <2>3
        <3>2. before' = page[m]
            BY <1>1d, <1>9, <1>10, <2>1, <2>3
        <3>. QED  BY <1>1e, <1>5, <1>7, <1>16, <2>3, <3>1, <3>2
    <2>. QED  BY <2>2, <2>3
<1>20. walkEnd' = "reachedEnd" => deepest' \in Nat /\ top' - Len(entries') <= deepest'
    <2>1. SUFFICES ASSUME walkEnd' = "reachedEnd"
                   PROVE  last - (n + k) <= floor[node]
        BY <1>1, <1>1e, <1>2, <1>15
    <2>2. k = m /\ (m = 0 \/ m < PageLimit)
        BY <1>1c, <1>11, <1>12, <2>1
    <2>. QED  BY <1>2, <1>5, <1>7, <2>2
<1>21. walkEnd' = "windowEdge" => asked' = "deployer" /\ top' - Len(entries') < edge'
    <2>1. SUFFICES ASSUME walkEnd' = "windowEdge"
                   PROVE  asked = "deployer" /\ last - (n + k) < edge
        BY <1>1a, <1>1e, <1>15
    <2>2. P # {}
        BY <1>1c, <1>12, <2>1
    <2>. QED  BY <1>2, <1>5, <1>11, <2>2
<1>22. WalkInv'
    BY <1>13, <1>14, <1>15, <1>18, <1>19, <1>20, <1>21 DEF WalkInv
<1>23. pages' > 0 /\ pages' \in Nat /\ deepest' \in Nat
    BY <1>1, <1>2
<1>24. walkEnd' \in {"open", "reachedEnd", "windowEdge"}
    BY <1>1c, <1>12
<1>25. before' \in Nat \cup {None}
    <2>1. before \in Nat \cup {None}
        BY DEF HistoryTypeOK
    <2>2. CASE m = 0
        BY <1>1d, <1>10, <2>1, <2>2
    <2>3. CASE m # 0
        BY <1>1d, <1>7, <1>9, <1>10, <1>16, <1>17, <2>1, <2>3
    <2>. QED  BY <2>2, <2>3
<1>. QED  BY <1>22, <1>23, <1>24, <1>25

LEMMA CandidatesAre ==
    ASSUME WalkInv
    PROVE  /\ Len(Candidates) \in 0..Len(entries) /\ Len(entries) \in Nat
           /\ \A k \in 1..Len(Candidates) : Candidates[k] = entries[k]
<1>1. entries \in Seq(Int) /\ Len(entries) \in Nat
    BY EntriesAre
<1>2. MaxInspections \in Nat
    BY HistoryAssumption
<1> DEFINE n == IF Len(entries) < MaxInspections THEN Len(entries) ELSE MaxInspections
<1>3. n \in 0..Len(entries)
    BY <1>1, <1>2
<1>4. Candidates = SubSeq(entries, 1, n)
    BY DEF Candidates
<1> HIDE DEF n
<1>5. Len(SubSeq(entries, 1, n)) = n /\ \A k \in 1..n : SubSeq(entries, 1, n)[k] = entries[k]
    BY <1>1, <1>3
<1>. QED  BY <1>1, <1>3, <1>4, <1>5

LEMMA HistoryInitInv == HistoryInit => HistoryInv
<1> SUFFICES ASSUME HistoryInit PROVE HistoryInv
    OBVIOUS
<1>1. PICK n \in 0..MaxLen : chain \in [1..n -> Kinds]
    BY DEF HistoryInit
<1>2. MaxLen \in Nat
    BY HistoryAssumption
<1>3. chain \in Seq(Kinds) /\ Len(chain) \in Nat
    BY <1>1, <1>2
<1>4. /\ asked \in {"creator", "deployer"} /\ floor \in [Nodes -> 0..Len(chain)]
      /\ gone = FALSE /\ phase = "walk" /\ pages = 0 /\ before = None /\ entries = << >>
      /\ walkEnd = "open" /\ scanned = 0 /\ truncated = FALSE /\ mints = {} /\ at = 1
      /\ result = None /\ top = Len(chain) /\ deepest = None /\ absent = {}
    BY DEF HistoryInit
<1>5. edge \in Nat
    <2>1. edge \in IF asked = "creator" THEN {1} ELSE 1..(Len(chain) + 1)
        BY DEF HistoryInit
    <2>. QED  BY <1>3, <2>1
<1>6. floor \in [Nodes -> Nat]
    <2>1. 0..Len(chain) \subseteq Nat
        BY <1>3
    <2>. QED  BY <1>4, <2>1
<1>7. HistoryTypeOK
    <2>1. IsFiniteSet(mints)
        BY <1>4, FS_EmptySet
    <2>2. /\ asked \in {"creator", "deployer"} /\ gone \in BOOLEAN /\ truncated \in BOOLEAN
          /\ phase \in {"walk", "read", "risk", "done"}
        BY <1>4
    <2>2a. walkEnd \in {"open", "reachedEnd", "windowEdge", "cut", "threw"}
        BY <1>4
    <2>2b. pages \in Nat /\ scanned \in Nat /\ at \in Nat \ {0}
        BY <1>4
    <2>3. before \in Nat \cup {None} /\ deepest \in Nat \cup {None}
        BY <1>4
    <2>. QED  BY <1>3, <1>5, <1>6, <2>1, <2>2, <2>2a, <2>2b, <2>3 DEF HistoryTypeOK
<1>8. WalkInv
    <2>1. Len(entries) = 0
        BY <1>4
    <2>2. entries = Down(top, Len(entries))
        BY <1>3, <1>4, <2>1, DownNone
    <2>. QED  BY <1>3, <1>4, <2>1, <2>2 DEF WalkInv
<1>9. Untouched /\ ScanInv /\ PhaseInv /\ ResultInv
    BY <1>4 DEF Untouched, ScanInv, PhaseInv, ResultInv
<1>. QED  BY <1>7, <1>8, <1>9 DEF HistoryInv

LEMMA FetchPageKeeps ==
    ASSUME HistoryInv, NEW node \in Nodes, FetchPage(node)
    PROVE  HistoryInv'
<1>1. HistoryTypeOK /\ WalkInv /\ Untouched /\ ScanInv /\ PhaseInv /\ ResultInv
    BY DEF HistoryInv
<1>2. WalkInv' /\ pages' > 0 /\ pages' \in Nat /\ before' \in Nat \cup {None}
      /\ walkEnd' \in {"open", "reachedEnd", "windowEdge"} /\ deepest' \in Nat
    BY <1>1, FetchPageWalks
<1>3. /\ phase = "walk"
      /\ UNCHANGED <<asked, chain, floor, edge, gone, phase, scanned, truncated, mints, at,
                     absent, result>>
    BY DEF FetchPage, Walking, world, scan
<1>4. HistoryTypeOK'
    BY <1>1, <1>2, <1>3 DEF HistoryTypeOK
<1>5. Untouched' /\ PhaseInv'
    BY <1>1, <1>2, <1>3 DEF Untouched, PhaseInv
<1>6. mints' = {} /\ result' = None /\ phase' = "walk"
    BY <1>1, <1>3 DEF Untouched
<1>7. ScanInv' /\ ResultInv'
    BY <1>6 DEF ScanInv, ResultInv
<1>. QED  BY <1>2, <1>4, <1>5, <1>7 DEF HistoryInv

LEMMA WalkStops ==
    ASSUME HistoryInv, PageThrows \/ CutWalk
    PROVE  HistoryInv'
<1>1. HistoryTypeOK /\ WalkInv /\ Untouched /\ ScanInv /\ PhaseInv /\ ResultInv
    BY DEF HistoryInv
<1>2. /\ phase = "walk" /\ walkEnd = "open" /\ walkEnd' \in {"cut", "threw"}
      /\ UNCHANGED <<asked, chain, floor, edge, gone, phase, scanned, truncated, mints, at,
                     absent, result, pages, before, entries, top, deepest>>
    BY DEF PageThrows, CutWalk, Walking, world, scan
<1>3. HistoryTypeOK'
    BY <1>1, <1>2 DEF HistoryTypeOK
<1>4. WalkInv'
    BY <1>1, <1>2 DEF WalkInv
<1>5. Untouched' /\ PhaseInv'
    BY <1>1, <1>2 DEF Untouched, PhaseInv
<1>6. mints' = {} /\ result' = None /\ phase' = "walk"
    BY <1>1, <1>2 DEF Untouched
<1>7. ScanInv' /\ ResultInv'
    BY <1>6 DEF ScanInv, ResultInv
<1>. QED  BY <1>3, <1>4, <1>5, <1>7 DEF HistoryInv

LEMMA CreatorSought ==
    ASSUME HistoryInv, CreatorUnknown \/ ReadCreation
    PROVE  HistoryInv'
<1>1. HistoryTypeOK /\ WalkInv /\ Untouched /\ ScanInv /\ PhaseInv /\ ResultInv
    BY DEF HistoryInv
<1>2. /\ phase = "walk" /\ phase' = "done" /\ asked = "creator"
      /\ UNCHANGED <<asked, chain, floor, edge, gone, pages, before, entries, walkEnd, top,
                     deepest, scanned, truncated, mints, at, absent>>
    BY DEF CreatorUnknown, ReadCreation, world, walk, scan
<1>3. HistoryTypeOK'
    BY <1>1, <1>2 DEF HistoryTypeOK
<1>4. WalkInv' /\ PhaseInv' /\ Untouched'
    BY <1>1, <1>2 DEF WalkInv, PhaseInv, Untouched
<1>5. ScanInv'
    BY <1>1, <1>2 DEF ScanInv, Untouched
<1>6. CASE CreatorUnknown
    <2>1. result' = None
        BY <1>1, <1>2, <1>6 DEF CreatorUnknown, Untouched
    <2>2. ResultInv'
        BY <1>2, <2>1 DEF ResultInv
    <2>. QED  BY <1>3, <1>4, <1>5, <2>2 DEF HistoryInv
<1>7. CASE ReadCreation
    <2>1. CreationSeen
        BY <1>7 DEF ReadCreation
    <2>2. PICK payer \in {None} \cup {feePayerOf(Parsed(node, Oldest)) : node \in Nodes} :
             result' = IF payer = None THEN None
                       ELSE [creator |-> payer, signature |-> Oldest]
        BY <1>7 DEF ReadCreation
    <2>3. Oldest' = Oldest /\ CreationSeen' = CreationSeen
        BY <1>2 DEF Oldest, CreationSeen
    <2>4. ASSUME payer # None
          PROVE  payer = chain[Oldest].payer
        BY <2>2, <2>4 DEF feePayerOf, Parsed
    <2>5. ResultInv'
        <3>1. CASE payer = None
            BY <1>2, <2>2, <3>1 DEF ResultInv
        <3>2. CASE payer # None
            <4>1. result' = [creator |-> payer, signature |-> Oldest]
                BY <2>2, <3>2
            <4>2. result'.signature = Oldest' /\ result'.creator = chain'[Oldest'].payer
                BY <1>2, <2>3, <2>4, <3>2, <4>1
            <4>. QED  BY <1>2, <2>1, <2>3, <4>2 DEF ResultInv
        <3>. QED  BY <3>1, <3>2
    <2>. QED  BY <1>3, <1>4, <1>5, <2>5 DEF HistoryInv
<1>. QED  BY <1>6, <1>7

LEMMA StartScanKeeps ==
    ASSUME HistoryInv, StartScan \/ NoScan
    PROVE  HistoryInv'
<1>1. HistoryTypeOK /\ WalkInv /\ Untouched /\ ScanInv /\ PhaseInv /\ ResultInv
    BY DEF HistoryInv
<1>2. /\ phase = "walk" /\ phase' \in {"read", "risk"} /\ asked = "deployer"
      /\ truncated' \in BOOLEAN
      /\ UNCHANGED <<asked, chain, floor, edge, gone, pages, before, entries, walkEnd, top,
                     deepest, scanned, mints, at, absent, result>>
    <2>1. TruncatedAtFirst \in BOOLEAN
        BY DEF TruncatedAtFirst
    <2>. QED  BY <2>1 DEF StartScan, NoScan, world, walk
<1>3. HistoryTypeOK'
    BY <1>1, <1>2 DEF HistoryTypeOK
<1>4. WalkInv' /\ PhaseInv' /\ Untouched'
    BY <1>1, <1>2 DEF WalkInv, PhaseInv, Untouched
<1>5. mints = {} /\ at = 1 /\ scanned = 0 /\ absent = {} /\ result = None
    BY <1>1, <1>2 DEF Untouched
<1>6. ResultInv'
    BY <1>1, <1>2 DEF ResultInv
<1>7. ScanInv'
    <2>1. mints' \subseteq UNION {Paid(i) : i \in Listed}'
        BY <1>2, <1>5
    <2>2. ASSUME ~ truncated'
          PROVE  Complete' /\ phase' = "read"
        <3>1. StartScan
            BY <2>2 DEF StartScan, NoScan
        <3>2. /\ walkEnd \notin {"open", "threw", "cut"} /\ phase' = "read"
              /\ ~ (Len(Candidates) < Len(entries))
            BY <2>2, <3>1 DEF StartScan, TruncatedAtFirst
        <3>3. walkEnd \in {"reachedEnd", "windowEdge"}
            BY <1>1, <3>2 DEF HistoryTypeOK
        <3>4. Len(Candidates) = Len(entries) /\ Len(entries) \in Nat
            BY <1>1, <3>2, CandidatesAre
        <3>5. Len(Candidates)' = Len(entries)'
            BY <1>2, <3>4 DEF Candidates
        <3>6. ReadSoFar' = {}
            BY <1>2, <1>5 DEF ReadSoFar
        <3>7. mints' = UNION {Paid(entries[k]) : k \in ReadSoFar}'
            BY <1>2, <1>5, <3>6
        <3>8. pages' > 0
            BY <1>1, <1>2, <3>3 DEF PhaseInv
        <3>. QED  BY <1>2, <1>5, <3>2, <3>3, <3>4, <3>5, <3>7, <3>8 DEF Complete
    <2>. QED  BY <2>1, <2>2 DEF ScanInv, Complete
<1>. QED  BY <1>3, <1>4, <1>6, <1>7 DEF HistoryInv

\* Reading changes nothing of the walk.
LEMMA ReadingWalks ==
    ASSUME HistoryInv, phase = "read", phase' \in {"read", "risk"},
           UNCHANGED <<asked, chain, floor, edge, gone, walk, result>>
    PROVE  WalkInv' /\ PhaseInv' /\ Untouched' /\ ResultInv'
<1>1. WalkInv /\ PhaseInv /\ ResultInv
    BY DEF HistoryInv
<1>2. UNCHANGED <<pages, before, entries, walkEnd, top, deepest>>
    BY DEF walk
<1>3. WalkInv'
    BY <1>1, <1>2 DEF WalkInv
<1>4. PhaseInv' /\ Untouched'
    BY <1>1, <1>2 DEF PhaseInv, Untouched
<1>5. ResultInv'
    BY <1>1, <1>2 DEF ResultInv
<1>. QED  BY <1>3, <1>4, <1>5

LEMMA PaidIs ==
    ASSUME HistoryTypeOK, WalkInv, NEW k \in DOMAIN entries
    PROVE  /\ entries[k] \in DOMAIN chain /\ chain[entries[k]] \in Kinds
           /\ IsFiniteSet(Paid(entries[k]))
<1>1. chain \in Seq(Kinds) /\ Len(chain) \in Nat
    BY LenType DEF HistoryTypeOK
<1>2. entries[k] \in 1..top /\ top <= Len(chain) /\ top \in Nat
    BY EntriesAre DEF WalkInv
<1>3. entries[k] \in 1..Len(chain)
    BY <1>1, <1>2
<1>4. chain[entries[k]] \in Kinds /\ entries[k] \in DOMAIN chain
    BY <1>1, <1>3
<1>5. IsFiniteSet(chain[entries[k]].mints)
    BY <1>4, HistoryAssumption
<1>. QED  BY <1>4, <1>5, FS_EmptySet DEF Paid

LEMMA ReadTxKeeps ==
    ASSUME HistoryInv, NEW node \in Nodes, ReadTx(node)
    PROVE  HistoryInv'
<1>1. HistoryTypeOK /\ WalkInv /\ Untouched /\ ScanInv /\ PhaseInv /\ ResultInv
    BY DEF HistoryInv
<1> DEFINE i == Candidates[at]
           tx == Parsed(node, i)
<1>2. /\ phase = "read" /\ at <= Len(Candidates) /\ ~ gone
      /\ scanned' = scanned + 1 /\ at' = at + 1
      /\ UNCHANGED <<asked, chain, floor, edge, gone, phase, walk, truncated, result>>
    BY DEF ReadTx, world
<1>3. /\ mints' = mints \cup (IF feePayerOf(tx) = Wallet
                                  THEN initialisedMintsIn(tx) ELSE {})
      /\ absent' = absent \cup {Candidates[j] : j \in {l \in {at} : tx = None}}
    BY DEF ReadTx
<1>4. WalkInv' /\ PhaseInv' /\ Untouched' /\ ResultInv'
    BY <1>2, ReadingWalks
<1>5. /\ at \in 1..Len(entries) /\ i = entries[at] /\ DOMAIN entries = 1..Len(entries)
      /\ at \in Nat /\ Len(entries) \in Nat /\ scanned \in Nat
      /\ \A j, l \in DOMAIN entries : entries[j] = entries[l] => j = l
    <2>1. at \in Nat /\ 1 <= at /\ scanned \in Nat
        BY <1>1 DEF HistoryTypeOK
    <2>. QED  BY <1>1, <1>2, <2>1, CandidatesAre, EntriesAre
<1>6. chain[i] \in Kinds /\ IsFiniteSet(Paid(i))
    BY <1>1, <1>5, PaidIs
<1>7. IF tx = None THEN mints' = mints /\ absent' = absent \cup {i}
      ELSE mints' = mints \cup Paid(i) /\ absent' = absent
    <2>1. tx = None \/ tx = chain[i]
        BY DEF Parsed
    <2>2. CASE tx = None
        BY <1>3, <2>2 DEF feePayerOf, initialisedMintsIn
    <2>3. CASE tx # None
        BY <1>3, <2>1, <2>3 DEF feePayerOf, initialisedMintsIn, Paid
    <2>. QED  BY <2>2, <2>3
<1> HIDE DEF tx, i
<1>8. UNCHANGED <<entries, walkEnd, pages, before, top, deepest>>
    BY <1>2 DEF walk
<1>9. IsFiniteSet(mints')
    BY <1>1, <1>6, <1>7, FS_Union DEF HistoryTypeOK
<1>10. HistoryTypeOK'
    BY <1>1, <1>2, <1>5, <1>8, <1>9 DEF HistoryTypeOK
<1>11. i \in Listed
    BY <1>5 DEF Listed
<1>12. \A j : Paid(j)' = Paid(j)
    BY <1>2 DEF Paid
<1>13. mints' \subseteq UNION {Paid(j) : j \in Listed}'
    <2>1. mints' \subseteq UNION {Paid(j) : j \in Listed}
        BY <1>1, <1>7, <1>11 DEF ScanInv
    <2>2. Listed' = Listed
        BY <1>8 DEF Listed
    <2>. QED  BY <1>12, <2>1, <2>2
<1>14. ASSUME asked = "deployer", ~ truncated
       PROVE  Complete'
    <2>1. Complete
        BY <1>1, <1>2, <1>14 DEF ScanInv, Complete
    <2>2. Len(Candidates)' = Len(entries)' /\ at' <= Len(entries)' + 1 /\ scanned' = at' - 1
        <3>1. Len(Candidates)' = Len(Candidates)
            BY <1>8 DEF Candidates
        <3>2. at + 1 <= Len(entries) + 1 /\ scanned + 1 = at + 1 - 1
            BY <1>5, <2>1 DEF Complete
        <3>3. Len(Candidates) = Len(entries)
            BY <2>1 DEF Complete
        <3>4. Len(entries)' = Len(entries)
            BY <1>8
        <3>5. Len(Candidates)' = Len(entries)'
            BY <3>1, <3>3, <3>4
        <3>6. at' = at + 1 /\ scanned' = scanned + 1
            BY <1>2
        <3>7. at' <= Len(entries)' + 1
            BY <3>2, <3>4, <3>6
        <3>8. scanned' = at' - 1
            BY <1>5, <3>2, <3>6
        <3>. QED  BY <3>5, <3>7, <3>8
    <2>3. \A k : k \in 1..(at' - 1) <=> k \in 1..(at - 1) \/ k = at
        BY <1>2, <1>5
    <2>4. absent \subseteq {entries[k] : k \in 1..(at - 1)}
        BY <2>1 DEF Complete
    <2>5. absent' \subseteq {entries[k] : k \in 1..(at - 1)}'
        BY <1>5, <1>7, <1>8, <2>3, <2>4
    <2>6. i \notin absent
        <3>1. SUFFICES ASSUME NEW k \in 1..(at - 1), entries[k] = entries[at]
                       PROVE  FALSE
            BY <1>5, <2>4
        <3>2. k \in DOMAIN entries /\ at \in DOMAIN entries /\ k # at
            BY <1>5
        <3>. QED  BY <1>5, <3>1, <3>2
    <2>7. \A k \in 1..(at - 1) : entries[k] # i
        BY <1>5
    <2>8. ReadSoFar' = IF tx = None THEN ReadSoFar ELSE ReadSoFar \cup {at}
        <3>1. \A k : k \in ReadSoFar' <=> k \in 1..(at' - 1) /\ entries[k] \notin absent'
            BY <1>8 DEF ReadSoFar
        <3>2. CASE tx = None
            <4>1. \A k : k \in ReadSoFar' <=> k \in ReadSoFar
                BY <1>5, <1>7, <2>3, <2>7, <3>1, <3>2 DEF ReadSoFar
            <4>. QED  BY <3>2, <4>1
        <3>3. CASE tx # None
            <4>1. \A k : k \in ReadSoFar' <=> k \in ReadSoFar \/ k = at
                BY <1>5, <1>7, <2>3, <2>6, <3>1, <3>3 DEF ReadSoFar
            <4>. QED  BY <3>3, <4>1
        <3>. QED  BY <3>2, <3>3
    <2>9. mints = UNION {Paid(entries[k]) : k \in ReadSoFar}
        BY <2>1 DEF Complete
    <2>10. mints' = UNION {Paid(entries[k]) : k \in ReadSoFar'}
        <3>1. CASE tx = None
            BY <1>7, <2>8, <2>9, <3>1
        <3>2. CASE tx # None
            <4>1. \A x : x \in mints' <=> x \in mints \/ x \in Paid(entries[at])
                BY <1>5, <1>7, <3>2
            <4>2. \A x : x \in UNION {Paid(entries[k]) : k \in ReadSoFar'}
                           <=> x \in mints \/ x \in Paid(entries[at])
                BY <2>8, <2>9, <3>2
            <4>. QED  BY <4>1, <4>2
        <3>. QED  BY <3>1, <3>2
    <2>11. mints' = UNION {Paid(entries[k]) : k \in ReadSoFar}'
        BY <1>8, <1>12, <2>10
    <2>12. walkEnd' \in {"reachedEnd", "windowEdge"} /\ pages' > 0
        BY <1>8, <2>1 DEF Complete
    <2>. QED  BY <2>2, <2>5, <2>11, <2>12 DEF Complete
<1>15. ScanInv'
    BY <1>2, <1>13, <1>14 DEF ScanInv, Complete
<1>. QED  BY <1>4, <1>10, <1>15 DEF HistoryInv

LEMMA ScanEndsKeeps ==
    ASSUME HistoryInv, ReadFails \/ FinishScan
    PROVE  HistoryInv'
<1>1. HistoryTypeOK /\ WalkInv /\ Untouched /\ ScanInv /\ PhaseInv /\ ResultInv
    BY DEF HistoryInv
<1>2. /\ phase = "read" /\ phase' \in {"read", "risk"}
      /\ UNCHANGED <<asked, chain, floor, edge, gone, walk, result, scanned, mints, absent>>
    BY DEF ReadFails, FinishScan, world
<1>3. at \in Nat /\ scanned \in Nat /\ Len(entries) \in Nat /\ Len(Candidates) \in Nat
    BY <1>1, CandidatesAre DEF HistoryTypeOK
<1>4. /\ truncated' \in BOOLEAN /\ at' \in Nat \ {0}
      /\ ~ truncated' => ~ truncated /\ at' = at /\ phase' = "risk" /\ at > Len(Candidates)
    <2>1. CASE ReadFails
        <3>1. truncated' = TRUE /\ at' = at + 1
            BY <2>1 DEF ReadFails
        <3>. QED  BY <1>3, <3>1
    <2>2. CASE FinishScan
        <3>1. /\ truncated' = (truncated \/ at <= Len(Candidates)) /\ at' = at
              /\ phase' = "risk"
            BY <2>2 DEF FinishScan
        <3>2. truncated' \in BOOLEAN
            BY <1>1, <3>1 DEF HistoryTypeOK
        <3>3. at' \in Nat \ {0}
            BY <1>1, <3>1 DEF HistoryTypeOK
        <3>4. ~ truncated' => ~ truncated /\ ~ (at <= Len(Candidates))
            BY <3>1
        <3>5. ~ (at <= Len(Candidates)) => at > Len(Candidates)
            BY <1>3
        <3>. QED  BY <3>1, <3>2, <3>3, <3>4, <3>5
    <2>. QED  BY <2>1, <2>2
<1>5. WalkInv' /\ PhaseInv' /\ Untouched' /\ ResultInv'
    BY <1>2, ReadingWalks
<1>6. UNCHANGED <<entries, walkEnd, pages, before, top, deepest>>
    BY <1>2 DEF walk
<1>7. HistoryTypeOK'
    BY <1>1, <1>2, <1>4, <1>6 DEF HistoryTypeOK
<1>8. mints' \subseteq UNION {Paid(i) : i \in Listed}'
    BY <1>1, <1>2, <1>6 DEF ScanInv, Listed, Paid
<1>9. ASSUME asked' = "deployer", ~ truncated'
      PROVE  Complete' /\ at' = Len(entries)' + 1
    <2>1. Complete
        BY <1>1, <1>2, <1>4, <1>9 DEF ScanInv, Complete
    <2>2. at > Len(entries) /\ at <= Len(entries) + 1
        BY <1>4, <1>9, <2>1 DEF Complete
    <2>3. at = Len(entries) + 1
        BY <1>3, <2>2
    <2>4. at' = at
        BY <1>4, <1>9
    <2>5. at' = Len(entries)' + 1
        BY <1>6, <2>3, <2>4
    <2>6. ReadSoFar' = ReadSoFar /\ Candidates' = Candidates /\ \A i : Paid(i)' = Paid(i)
        BY <1>2, <1>6, <2>4 DEF ReadSoFar, Candidates, Paid
    <2>7. Complete'
        BY <1>2, <1>6, <2>1, <2>4, <2>6 DEF Complete
    <2>. QED  BY <2>5, <2>7
<1>10. ScanInv'
    BY <1>8, <1>9 DEF ScanInv, Complete
<1>. QED  BY <1>5, <1>7, <1>10 DEF HistoryInv

LEMMA ConcludeKeeps ==
    ASSUME HistoryInv, Conclude
    PROVE  HistoryInv'
<1>1. HistoryTypeOK /\ WalkInv /\ Untouched /\ ScanInv /\ PhaseInv /\ ResultInv
    BY DEF HistoryInv
<1>2. /\ phase = "risk" /\ phase' = "done"
      /\ UNCHANGED <<asked, chain, floor, edge, gone, pages, before, entries, walkEnd, top,
                     deepest, scanned, truncated, mints, at, absent>>
    BY DEF Conclude, world, walk, scan
<1>3. HistoryTypeOK'
    BY <1>1, <1>2 DEF HistoryTypeOK
<1>4. WalkInv' /\ PhaseInv' /\ Untouched'
    BY <1>1, <1>2 DEF WalkInv, PhaseInv, Untouched
<1>5. ScanInv'
    <2>1. Listed' = Listed /\ ReadSoFar' = ReadSoFar /\ Candidates' = Candidates
          /\ \A i : Paid(i)' = Paid(i)
        BY <1>2 DEF ReadSoFar, Candidates, Paid, Listed
    <2>2. Complete' = Complete
        BY <1>2, <2>1 DEF Complete
    <2>. QED  BY <1>1, <1>2, <2>1, <2>2 DEF ScanInv
<1>6. onchainCount' = onchainCount /\ Available' = Available
    BY <1>2 DEF onchainCount, Available
<1>7. ASSUME asked' = "creator", result' # None
      PROVE  FALSE
    BY <1>1, <1>2, <1>7 DEF PhaseInv
<1>8. ResultInv'
    BY <1>2, <1>6, <1>7 DEF ResultInv, Conclude
<1>. QED  BY <1>3, <1>4, <1>5, <1>8 DEF HistoryInv

LEMMA WorldKeeps ==
    ASSUME HistoryInv, Abort \/ (\E node \in Nodes : Prune(node)) \/ UNCHANGED historyVars
    PROVE  HistoryInv'
<1>1. HistoryTypeOK /\ WalkInv /\ Untouched /\ ScanInv /\ PhaseInv /\ ResultInv
    BY DEF HistoryInv
<1>2. UNCHANGED <<asked, chain, edge, phase, pages, before, entries, walkEnd, top,
                  deepest, scanned, truncated, mints, at, absent, result>>
    BY DEF Abort, Prune, historyVars, world, walk, scan
<1>3. floor' \in [Nodes -> Nat]
    <2>1. floor \in [Nodes -> Nat]
        BY <1>1 DEF HistoryTypeOK
    <2>2. CASE \E node \in Nodes : Prune(node)
        <3>1. PICK node \in Nodes : floor' = [floor EXCEPT ![node] = @ + 1]
            BY <2>2 DEF Prune
        <3>2. floor[node] + 1 \in Nat
            BY <2>1
        <3>. QED  BY <2>1, <3>1, <3>2
    <2>3. CASE Abort \/ UNCHANGED historyVars
        <3>1. floor' = floor
            BY <2>3 DEF Abort, historyVars, world
        <3>. QED  BY <2>1, <3>1
    <2>. QED  BY <2>2, <2>3
<1>4. gone' \in BOOLEAN
    BY <1>1 DEF HistoryTypeOK, Abort, Prune, historyVars
<1>5. HistoryTypeOK'
    BY <1>1, <1>2, <1>3, <1>4 DEF HistoryTypeOK
<1>6. WalkInv' /\ PhaseInv' /\ Untouched'
    BY <1>1, <1>2 DEF WalkInv, PhaseInv, Untouched
<1>7. ScanInv'
    <2>1. Listed' = Listed /\ ReadSoFar' = ReadSoFar /\ Candidates' = Candidates
          /\ \A i : Paid(i)' = Paid(i)
        BY <1>2 DEF ReadSoFar, Candidates, Paid, Listed
    <2>2. Complete' = Complete
        BY <1>2, <2>1 DEF Complete
    <2>. QED  BY <1>1, <1>2, <2>1, <2>2 DEF ScanInv
<1>8. ResultInv'
    <2>1. onchainCount' = onchainCount /\ Available' = Available /\ Oldest' = Oldest
          /\ CreationSeen' = CreationSeen
        BY <1>2 DEF onchainCount, Available, Oldest, CreationSeen
    <2>. QED  BY <1>1, <1>2, <2>1 DEF ResultInv
<1>. QED  BY <1>5, <1>6, <1>7, <1>8 DEF HistoryInv

LEMMA LandKeeps ==
    ASSUME HistoryInv, Land
    PROVE  HistoryInv'
<1>1. HistoryTypeOK /\ WalkInv /\ Untouched /\ ScanInv /\ PhaseInv /\ ResultInv
    BY DEF HistoryInv
<1>2. /\ phase = "walk"
      /\ UNCHANGED <<asked, floor, edge, gone, phase, pages, before, entries, walkEnd, top,
                     deepest, scanned, truncated, mints, at, absent, result>>
    BY DEF Land, walk, scan
<1>3. chain' \in Seq(Kinds) /\ Len(chain') = Len(chain) + 1 /\ Len(chain) \in Nat
    <2>1. chain \in Seq(Kinds)
        BY <1>1 DEF HistoryTypeOK
    <2>2. PICK kind \in Kinds : chain' = Append(chain, kind)
        BY DEF Land
    <2>. QED  BY <2>1, <2>2
<1>4. HistoryTypeOK'
    BY <1>1, <1>2, <1>3 DEF HistoryTypeOK
<1>5. WalkInv'
    <2>1. top \in Nat /\ top <= Len(chain)
        BY <1>1 DEF WalkInv
    <2>2. top' <= Len(chain')
        BY <1>2, <1>3, <2>1
    <2>. QED  BY <1>1, <1>2, <2>2 DEF WalkInv
<1>6. PhaseInv' /\ Untouched'
    BY <1>1, <1>2 DEF PhaseInv, Untouched
<1>7. mints' = {} /\ result' = None /\ phase' = "walk"
    BY <1>1, <1>2 DEF Untouched
<1>8. ScanInv' /\ ResultInv'
    BY <1>7 DEF ScanInv, ResultInv
<1>. QED  BY <1>4, <1>5, <1>6, <1>8 DEF HistoryInv

LEMMA HistoryStep == HistoryInv /\ [HistoryNext]_historyVars => HistoryInv'
<1> SUFFICES ASSUME HistoryInv, [HistoryNext]_historyVars PROVE HistoryInv'
    OBVIOUS
<1>1. CASE \E node \in Nodes : FetchPage(node)
    BY <1>1, FetchPageKeeps
<1>2. CASE \E node \in Nodes : ReadTx(node)
    BY <1>2, ReadTxKeeps
<1>3. CASE (\E node \in Nodes : Prune(node)) \/ Abort \/ UNCHANGED historyVars
    BY <1>3, WorldKeeps
<1>4. CASE PageThrows \/ CutWalk
    BY <1>4, WalkStops
<1>5. CASE CreatorUnknown \/ ReadCreation
    BY <1>5, CreatorSought
<1>6. CASE StartScan \/ NoScan
    BY <1>6, StartScanKeeps
<1>7. CASE ReadFails \/ FinishScan
    BY <1>7, ScanEndsKeeps
<1>8. CASE Conclude
    BY <1>8, ConcludeKeeps
<1>9. CASE Land
    BY <1>9, LandKeeps
<1>. QED  BY <1>1, <1>2, <1>3, <1>4, <1>5, <1>6, <1>7, <1>8, <1>9 DEF HistoryNext

LEMMA HistoryInvariant == HistorySpec => []HistoryInv
    BY HistoryInitInv, HistoryStep, PTL DEF HistorySpec

\* fetchCreator never guesses: the creator it names paid for the oldest transaction
\* that the node which answered last still kept, reached without a gap.
THEOREM CreatorIsTheOldestKept == HistorySpec => []CreatorIsOldestKept
<1>1. HistoryInv => CreatorIsOldestKept
    <2>1. SUFFICES ASSUME HistoryInv, asked = "creator", result # None
                   PROVE  /\ result.creator = chain[result.signature].payer
                          /\ entries = [i \in 1..(top + 1 - result.signature) |-> top + 1 - i]
                          /\ deepest >= result.signature - 1
        BY DEF CreatorIsOldestKept
    <2>2. WalkInv /\ CreationSeen /\ result.signature = Oldest
          /\ result.creator = chain[Oldest].payer
        BY <2>1 DEF HistoryInv, ResultInv
    <2>3. walkEnd = "reachedEnd" /\ entries # << >>
        BY <2>2 DEF CreationSeen
    <2>4. /\ top \in Nat /\ Len(entries) \in 0..top /\ entries = Down(top, Len(entries))
          /\ deepest \in Nat /\ top - Len(entries) <= deepest
        BY <2>2, <2>3 DEF WalkInv
    <2>5. Len(entries) # 0
        <3>1. Len(entries) = 0 => entries = << >>
            BY <2>4, DownNone
        <3>. QED  BY <2>3, <3>1
    <2>6. Oldest = top + 1 - Len(entries)
        <3>1. Len(entries) \in DOMAIN entries
            BY <2>2, <2>4, <2>5, EntriesAre
        <3>. QED  BY <2>2, <3>1, EntriesAre DEF Oldest
    <2>7. Len(entries) = top + 1 - result.signature /\ result.signature \in Int
        BY <2>2, <2>4, <2>6
    <2>8. entries = [i \in 1..(top + 1 - result.signature) |-> top + 1 - i]
        BY <2>4, <2>7 DEF Down
    <2>9. deepest >= result.signature - 1
        BY <2>4, <2>7
    <2>. QED  BY <2>2, <2>8, <2>9
<1>. QED  BY <1>1, HistoryInvariant, PTL

\* fetchDeployerHistory never claims more mints than were paid for, and calls a
\* count exact, or zero, only when it looked at everything.
THEOREM CountIsFloor == HistorySpec => []CountIsAFloor
<1>1. HistoryInv => CountIsAFloor
    <2> DEFINE paid(i) == IF chain[i].payer = Wallet THEN chain[i].mints ELSE {}
    <2>1. SUFFICES ASSUME HistoryInv, asked = "deployer", phase = "done"
                   PROVE  /\ result.knownMints \subseteq UNION {paid(i) : i \in Listed}
                          /\ result.onchain \in {None, Cardinality(result.knownMints)}
                          /\ ~ result.mintCountIsLowerBound =>
                               /\ result.mintCount = Cardinality(result.knownMints)
                               /\ \A i \in Window : i > deepest => i \in Listed
                               /\ UNION {paid(i) : i \in Listed \ absent} = result.knownMints
                          /\ result.onchain = 0 => ~ truncated /\ scanned = Len(entries)
        BY DEF CountIsAFloor
    <2>2. HistoryTypeOK /\ WalkInv /\ ScanInv /\ ResultInv
        BY <2>1 DEF HistoryInv
    <2>3. PICK risk \in Risks :
            result = [onchain |-> onchainCount,
                    mintCount |-> IF onchainCount # None THEN onchainCount
                                  ELSE Of(risk, "mintCount"),
                    ruggedCount |-> Of(risk, "rugCount"),
                    priorRugRate |-> Of(risk, "priorRugRate"),
                    knownMints |-> mints,
                    mintCountIsLowerBound |-> ~ Available \/ truncated]
        BY <2>1, <2>2 DEF ResultInv
    <2>4. /\ result.onchain = onchainCount /\ result.knownMints = mints
          /\ result.mintCountIsLowerBound = (~ Available \/ truncated)
          /\ onchainCount # None => result.mintCount = onchainCount
        BY <2>3
    <2>5. onchainCount \in {None, Cardinality(mints)}
        BY DEF onchainCount
    <2>6. Cardinality(mints) \in Nat /\ (Cardinality(mints) = 0 => mints = {})
          /\ Cardinality(mints) # None /\ None # 0
        BY <2>2, FS_CardinalityType, FS_EmptySet, HistoryAssumption DEF HistoryTypeOK
    <2>7. \A i : paid(i) = Paid(i)
        BY DEF Paid
    <2>8. mints \subseteq UNION {paid(i) : i \in Listed}
        BY <2>2, <2>7 DEF ScanInv
    <2>9. ~ truncated => Complete /\ at = Len(entries) + 1
        BY <2>1, <2>2 DEF ScanInv, Complete
    <2> HIDE DEF paid
    <2>10. ASSUME ~ result.mintCountIsLowerBound
           PROVE  /\ result.mintCount = Cardinality(mints)
                  /\ \A i \in Window : i > deepest => i \in Listed
                  /\ UNION {paid(i) : i \in Listed \ absent} = mints
        <3>1. ~ truncated /\ Available
            BY <2>4, <2>10
        <3>2. onchainCount = Cardinality(mints)
            BY <3>1 DEF onchainCount
        <3>3. result.mintCount = Cardinality(mints)
            BY <2>4, <2>6, <3>2
        <3>4. /\ top \in Nat /\ Len(entries) \in 0..top /\ DOMAIN entries = 1..Len(entries)
              /\ \A i \in DOMAIN entries : entries[i] = top + 1 - i
            BY <2>2, EntriesAre DEF WalkInv
        <3>5. ASSUME NEW i \in Window, i > deepest
              PROVE  i \in Listed
            <4>1. i \in 1..top /\ i >= edge /\ i \in Int
                BY <3>4 DEF Window
            <4>2. i > top - Len(entries)
                <5>1. CASE walkEnd = "reachedEnd"
                    <6>1. deepest \in Nat /\ top - Len(entries) <= deepest
                        BY <2>2, <5>1 DEF WalkInv
                    <6>. QED  BY <3>4, <3>5, <4>1, <6>1
                <5>2. CASE walkEnd = "windowEdge"
                    <6>1. top - Len(entries) < edge /\ edge \in Nat
                        BY <2>2, <5>2 DEF WalkInv, HistoryTypeOK
                    <6>. QED  BY <3>4, <4>1, <6>1
                <5>. QED  BY <2>9, <3>1, <5>1, <5>2 DEF Complete
            <4>3. top + 1 - i \in 1..Len(entries)
                BY <3>4, <4>1, <4>2
            <4>4. entries[top + 1 - i] = i
                BY <3>4, <4>1, <4>3
            <4>. QED  BY <3>4, <4>3, <4>4 DEF Listed
        <3>6. UNION {paid(i) : i \in Listed \ absent} = mints
            <4>1. mints = UNION {Paid(entries[k]) : k \in ReadSoFar}
                BY <2>9, <3>1 DEF Complete
            <4>2. \A k : k \in ReadSoFar <=> k \in DOMAIN entries /\ entries[k] \notin absent
                <5>1. at - 1 = Len(entries)
                    BY <2>9, <3>1, <3>4
                <5>. QED  BY <3>4, <5>1 DEF ReadSoFar
            <4>3. \A i : i \in Listed \ absent <=> \E k \in ReadSoFar : i = entries[k]
                BY <4>2 DEF Listed
            <4>4. \A x : x \in UNION {paid(i) : i \in Listed \ absent}
                           <=> \E k \in ReadSoFar : x \in Paid(entries[k])
                BY <2>7, <4>3
            <4>5. \A x : x \in UNION {Paid(entries[k]) : k \in ReadSoFar}
                           <=> \E k \in ReadSoFar : x \in Paid(entries[k])
                OBVIOUS
            <4>. QED  BY <4>1, <4>4, <4>5
        <3>. QED  BY <3>3, <3>5, <3>6
    <2>11. ASSUME result.onchain = 0
           PROVE  ~ truncated /\ scanned = Len(entries)
        <3>1. ~ truncated
            <4>1. onchainCount = 0
                BY <2>4, <2>11
            <4>2. onchainCount = Cardinality(mints) /\ onchainCount # None
                BY <2>5, <2>6, <4>1
            <4>3. mints = {}
                BY <2>6, <4>1, <4>2
            <4>. QED  BY <4>2, <4>3 DEF onchainCount
        <3>2. scanned = at - 1 /\ at = Len(entries) + 1
            BY <2>9, <3>1 DEF Complete
        <3>3. Len(entries) \in Nat
            BY <2>2, EntriesAre
        <3>. QED  BY <3>1, <3>2, <3>3
    <2>. QED  BY <2>4, <2>5, <2>8, <2>10, <2>11
<1>. QED  BY <1>1, HistoryInvariant, PTL

-----------------------------------------------------------------------------
(* The radar. *)

\* For every rank there is an index of that rank.
LEMMA RankIs ==
    ASSUME NEW n \in Nat, NEW I, I \subseteq 1..n, NEW k \in 1..Cardinality(I)
    PROVE  \E i \in I : Cardinality({j \in I : j <= i}) = k
<1> DEFINE upTo(i) == {j \in I : j <= i}
           c == Cardinality(I)
<1>1. IsFiniteSet(I) /\ c \in Nat
    <2>1. IsFiniteSet(1..n)
        BY FS_Interval
    <2>2. IsFiniteSet(I)
        BY <2>1, FS_Subset
    <2>. QED  BY <2>2, FS_CardinalityType
<1>2. \A i \in I : IsFiniteSet(upTo(i)) /\ Cardinality(upTo(i)) \in 1..c
    <2>1. SUFFICES ASSUME NEW i \in I
                   PROVE  IsFiniteSet(upTo(i)) /\ Cardinality(upTo(i)) \in 1..c
        OBVIOUS
    <2>2. i \in Int
        OBVIOUS
    <2>3. upTo(i) \in SUBSET I /\ i \in upTo(i)
        BY <2>2
    <2> HIDE DEF upTo
    <2>4. IsFiniteSet(upTo(i)) /\ Cardinality(upTo(i)) <= c
        BY <1>1, <2>3, FS_Subset
    <2>5. Cardinality(upTo(i)) \in Nat /\ Cardinality(upTo(i)) # 0
        BY <2>3, <2>4, FS_CardinalityType, FS_EmptySet
    <2>. QED  BY <1>1, <2>4, <2>5
<1>3. \A i, j \in I : i < j => Cardinality(upTo(i)) # Cardinality(upTo(j))
    <2>1. SUFFICES ASSUME NEW i \in I, NEW j \in I, i < j
                   PROVE  Cardinality(upTo(i)) # Cardinality(upTo(j))
        OBVIOUS
    <2>2. i \in Int /\ j \in Int
        OBVIOUS
    <2>3. \A l \in I : l \in Int
        OBVIOUS
    <2>6. \A l \in I : l <= i => l <= j
        BY <2>1, <2>2, <2>3
    <2>4. upTo(i) \in SUBSET upTo(j)
        BY <2>6
    <2>5. j \in upTo(j) /\ j \notin upTo(i)
        BY <2>1, <2>2
    <2> HIDE DEF upTo
    <2>. QED  BY <1>2, <2>4, <2>5, FS_Subset
<1>4. \A i, j \in I : i # j => Cardinality(upTo(i)) # Cardinality(upTo(j))
    <2>1. SUFFICES ASSUME NEW i \in I, NEW j \in I, i # j
                   PROVE  Cardinality(upTo(i)) # Cardinality(upTo(j))
        OBVIOUS
    <2> HIDE DEF upTo
    <2>2. i < j \/ j < i
        BY <2>1
    <2>. QED  BY <1>3, <2>2
<1>5. SUFFICES ASSUME \A i \in I : Cardinality(upTo(i)) # k PROVE FALSE
    OBVIOUS
<1> DEFINE rank == [i \in I |-> Cardinality(upTo(i))]
           others == (1..c) \ {k}
<1>6. rank \in [I -> others]
    BY <1>2, <1>5
<1>7. \A i, j \in I : i # j => rank[i] # rank[j]
    BY <1>4
<1>8. IsFiniteSet(others) /\ Cardinality(others) = c - 1
    <2>1. IsFiniteSet(1..c) /\ Cardinality(1..c) = c
        BY <1>1, FS_Interval
    <2>. QED  BY <2>1, FS_RemoveElement
<1> HIDE DEF rank, others, upTo
<1>9. Cardinality(others) < c
    BY <1>1, <1>8
<1>10. \E x, y \in I : x # y /\ rank[x] = rank[y]
    BY <1>1, <1>6, <1>8, <1>9, FS_PigeonHole
<1>. QED  BY <1>7, <1>10

\* f takes every index of I once, and Pick takes the elements in f's order.
PickedBy(f, s, I) ==
    /\ \A k, l \in 1..Cardinality(I) : f[k] = f[l] => k = l
    /\ \A i \in I : \E k \in 1..Cardinality(I) : f[k] = i
    /\ \A k \in 1..Cardinality(I) : Pick(s, I)[k] = s[f[k]]

\* The order in which Pick takes the indices: a bijection.
LEMMA PickOrder ==
    ASSUME NEW n \in Nat, NEW s, NEW I, I \subseteq 1..n
    PROVE  /\ Cardinality(I) \in Nat
           /\ Pick(s, I) = [k \in 1..Cardinality(I) |-> Pick(s, I)[k]]
           /\ \E f \in [1..Cardinality(I) -> I] : PickedBy(f, s, I)
<1> DEFINE c == Cardinality(I)
           rank(i) == Cardinality({j \in I : j <= i})
           f == [k \in 1..c |-> CHOOSE i \in I : rank(i) = k]
<1>1. IsFiniteSet(I) /\ c \in Nat
    <2>1. IsFiniteSet(1..n)
        BY FS_Interval
    <2>2. IsFiniteSet(I)
        BY <2>1, FS_Subset
    <2>. QED  BY <2>2, FS_CardinalityType
<1>2. \A k \in 1..c : \E i \in I : rank(i) = k
    BY RankIs
<1>3. Pick(s, I) = [k \in 1..c |-> s[f[k]]]
    BY DEF Pick
<1> HIDE DEF rank
<1>4. \A k \in 1..c : f[k] \in I /\ rank(f[k]) = k
    BY <1>2
<1>5. f \in [1..c -> I]
    BY <1>4
<1>6. \A k, l \in 1..c : f[k] = f[l] => k = l
    BY <1>4
<1> HIDE DEF f
<1>7. \A i \in I : \E k \in 1..c : f[k] = i
    <2>1. IsFiniteSet(1..c) /\ Cardinality(1..c) = c
        BY <1>1, FS_Interval
    <2>2. SUFFICES ASSUME NEW i \in I, \A k \in 1..c : f[k] # i PROVE FALSE
        OBVIOUS
    <2> DEFINE others == I \ {i}
               ranks == 1..c
    <2>3. f \in [ranks -> others]
        BY <1>5, <2>2
    <2>4. IsFiniteSet(others) /\ Cardinality(others) = c - 1
        BY <1>1, FS_RemoveElement
    <2>5. IsFiniteSet(ranks) /\ Cardinality(ranks) = c
        BY <2>1
    <2> HIDE DEF others, ranks, c
    <2>6. Cardinality(others) < Cardinality(ranks)
        BY <1>1, <2>4, <2>5
    <2>7. \E x, y \in ranks : x # y /\ f[x] = f[y]
        BY <2>3, <2>4, <2>5, <2>6, FS_PigeonHole
    <2>. QED  BY <1>6, <2>7 DEF ranks
<1>8. \A k \in 1..c : Pick(s, I)[k] = s[f[k]]
    BY <1>3
<1>9. PickedBy(f, s, I)
    BY <1>6, <1>7, <1>8 DEF PickedBy
<1>10. Pick(s, I) = [k \in 1..c |-> Pick(s, I)[k]]
    BY <1>3
<1>. QED  BY <1>1, <1>5, <1>9, <1>10

\* A pick is a sequence of the chosen elements, each index once.
LEMMA Picked ==
    ASSUME NEW S, NEW s \in Seq(S), NEW I, I \subseteq DOMAIN s
    PROVE  /\ Pick(s, I) \in Seq(S)
           /\ \A k \in DOMAIN Pick(s, I) : \E i \in I : Pick(s, I)[k] = s[i]
           /\ \A i \in I : \E k \in DOMAIN Pick(s, I) : Pick(s, I)[k] = s[i]
           /\ \A k, l \in DOMAIN Pick(s, I) : k # l =>
                \E i, j \in I : i # j /\ Pick(s, I)[k] = s[i] /\ Pick(s, I)[l] = s[j]
<1> DEFINE c == Cardinality(I)
           p == Pick(s, I)
<1>1. Len(s) \in Nat /\ I \subseteq 1..Len(s) /\ \A i \in I : s[i] \in S
    OBVIOUS
<1>2. /\ Cardinality(I) \in Nat
      /\ Pick(s, I) = [k \in 1..Cardinality(I) |-> Pick(s, I)[k]]
      /\ \E f \in [1..Cardinality(I) -> I] : PickedBy(f, s, I)
    <2> DEFINE n == Len(s)
    <2>1. n \in Nat /\ I \subseteq 1..n
        BY <1>1
    <2> HIDE DEF p, n, c
    <2>2. n \in Nat
        BY <2>1
    <2>3. I \subseteq 1..n
        BY <2>1
    <2>. QED  BY <2>2, <2>3, PickOrder, Zenon
<1>3. PICK f \in [1..c -> I] :
                /\ \A k, l \in 1..c : f[k] = f[l] => k = l
                /\ \A i \in I : \E k \in 1..c : f[k] = i
                /\ \A k \in 1..c : p[k] = s[f[k]]
    BY <1>2 DEF PickedBy
<1>4. c \in Nat /\ p = [k \in 1..c |-> p[k]]
    BY <1>2
<1> HIDE DEF p, c
<1>5. \A k \in 1..c : f[k] \in I /\ p[k] = s[f[k]] /\ p[k] \in S
    BY <1>1, <1>3
<1>6. p \in Seq(S) /\ DOMAIN p = 1..c
    BY <1>4, <1>5
<1>7. \A k \in DOMAIN p : \E i \in I : p[k] = s[i]
    BY <1>5, <1>6
<1>8. \A i \in I : \E k \in DOMAIN p : p[k] = s[i]
    BY <1>3, <1>5, <1>6
<1>9. \A k, l \in DOMAIN p : k # l => \E i, j \in I : i # j /\ p[k] = s[i] /\ p[l] = s[j]
    BY <1>3, <1>5, <1>6
<1>10. /\ p \in Seq(S)
       /\ \A k \in DOMAIN p : \E i \in I : p[k] = s[i]
       /\ \A i \in I : \E k \in DOMAIN p : p[k] = s[i]
       /\ \A k, l \in DOMAIN p : k # l =>
                \E i, j \in I : i # j /\ p[k] = s[i] /\ p[l] = s[j]
    BY <1>6, <1>7, <1>8, <1>9
<1>. QED  BY <1>10 DEF p

\* No element twice.
Apart(s) == \A i, j \in DOMAIN s : s[i] = s[j] => i = j

\* The queue holds a mint once.
QueueApart(q) == \A i, j \in DOMAIN q : q[i].mint = q[j].mint => i = j

QueueEntries == [mint : Mints, retries : Nat]
MintsOf(q) == {q[i].mint : i \in DOMAIN q}

\* The types the proofs need.
RadarTypeOK ==
    /\ radarFile \in Seq(Mints) /\ announced \in Seq(Mints)
    /\ mintRetries \in Seq(QueueEntries)
    /\ isPolling \in BOOLEAN
    /\ recorder = [at |-> recorder.at, mints |-> recorder.mints]
    /\ recorder.at \in {"idle", "read", "tick"}

\* At most one poll is in flight, and what it asks about is in the queue still.
OnePoll ==
    IF isPolling
    THEN /\ Len(polls) = 1 /\ polls \in Seq(Seq(Mints))
         /\ Apart(polls[1]) /\ ToSet(polls[1]) \subseteq Queued
    ELSE polls = << >>

\* A mint is announced or queued, never both, and the seen file knows it.
SeenOnce ==
    /\ Apart(announced) /\ QueueApart(mintRetries)
    /\ ToSet(announced) \cap Queued = {}
    /\ Queued \cup ToSet(announced) \subseteq seenFile
    /\ seenFile \subseteq seenMints

\* The recorder between its read and its clearing.
BetweenReadAndClear ==
    /\ recorder.at = "idle" => recorder.mints = {}
    /\ recorder.at = "read" => /\ recorder.mints \subseteq ToSet(radarFile)
                               /\ ToSet(radarFile) \subseteq recorder.mints \cup excused

\* The inductive invariant.
RadarInv == RadarTypeOK /\ OnePoll /\ SeenOnce /\ BetweenReadAndClear /\ LossesAreKnown

\* One sequence behind another.
LEMMA Joined ==
    ASSUME NEW S, NEW a \in Seq(S), NEW b \in Seq(S)
    PROVE  /\ a \o b \in Seq(S)
           /\ ToSet(a \o b) = ToSet(a) \cup ToSet(b)
           /\ Apart(a) /\ Apart(b) /\ ToSet(a) \cap ToSet(b) = {} => Apart(a \o b)
<1> DEFINE c == a \o b
           m == Len(a)
           n == Len(b)
<1>1. m \in Nat /\ n \in Nat /\ DOMAIN a = 1..m /\ DOMAIN b = 1..n
    OBVIOUS
<1>2. c \in Seq(S) /\ DOMAIN c = 1..(m + n)
    OBVIOUS
<1>3. /\ \A i \in 1..m : c[i] = a[i]
      /\ \A i \in 1..n : c[m + i] = b[i]
    OBVIOUS
<1>4. \A i \in 1..(m + n) : i \in 1..m \/ (i - m \in 1..n /\ i = m + (i - m))
    BY <1>1
<1> HIDE DEF c, m, n
<1>5. \A i \in 1..(m + n) : \/ i \in 1..m /\ c[i] = a[i]
                            \/ i - m \in 1..n /\ c[i] = b[i - m]
    BY <1>3, <1>4
<1>6. ToSet(c) = ToSet(a) \cup ToSet(b)
    <2>1. ToSet(c) \subseteq ToSet(a) \cup ToSet(b)
        BY <1>1, <1>2, <1>5 DEF ToSet
    <2>2. ToSet(a) \subseteq ToSet(c)
        <3>1. \A i \in 1..m : i \in 1..(m + n)
            BY <1>1
        <3>. QED  BY <1>1, <1>2, <1>3, <3>1 DEF ToSet
    <2>3. ToSet(b) \subseteq ToSet(c)
        <3>1. \A i \in 1..n : m + i \in 1..(m + n)
            BY <1>1
        <3>. QED  BY <1>1, <1>2, <1>3, <3>1 DEF ToSet
    <2>. QED  BY <2>1, <2>2, <2>3
<1>7. ASSUME Apart(a), Apart(b), ToSet(a) \cap ToSet(b) = {} PROVE Apart(c)
    <2>1. SUFFICES ASSUME NEW i \in 1..(m + n), NEW j \in 1..(m + n), c[i] = c[j] PROVE i = j
        BY <1>2 DEF Apart
    <2>2. \A k \in 1..m, l \in 1..n : a[k] # b[l]
        BY <1>1, <1>7 DEF ToSet
    <2>3. CASE i \in 1..m /\ c[i] = a[i] /\ j \in 1..m /\ c[j] = a[j]
        BY <1>1, <1>7, <2>1, <2>3 DEF Apart
    <2>4. CASE i - m \in 1..n /\ c[i] = b[i - m] /\ j - m \in 1..n /\ c[j] = b[j - m]
        <3>1. i - m = j - m
            BY <1>1, <1>7, <2>1, <2>4 DEF Apart
        <3>. QED  BY <1>1, <3>1
    <2>. QED  BY <1>5, <2>1, <2>2, <2>3, <2>4
<1>. QED  BY <1>2, <1>6, <1>7 DEF c

\* The first k of a sequence.
LEMMA Firsts ==
    ASSUME NEW S, NEW s \in Seq(S), NEW k \in 0..Len(s)
    PROVE  /\ SubSeq(s, 1, k) \in Seq(S)
           /\ ToSet(SubSeq(s, 1, k)) \subseteq ToSet(s)
           /\ Apart(s) => Apart(SubSeq(s, 1, k))
<1> DEFINE p == SubSeq(s, 1, k)
<1>1. p \in Seq(S) /\ DOMAIN p = 1..k /\ \A i \in 1..k : p[i] = s[i]
    OBVIOUS
<1>2. \A i \in 1..k : i \in DOMAIN s
    OBVIOUS
<1> HIDE DEF p
<1>3. p \in Seq(S) /\ ToSet(p) \subseteq ToSet(s) /\ (Apart(s) => Apart(p))
    BY <1>1, <1>2 DEF ToSet, Apart
<1>. QED  BY <1>3 DEF p

\* What a batch's answer lists.
LEMMA HitsAre ==
    ASSUME NEW b \in Seq(Mints), Apart(b), NEW listed
    PROVE  /\ Hits(b, listed) \in Seq(Mints) /\ Apart(Hits(b, listed))
           /\ ToSet(Hits(b, listed)) = ToSet(b) \cap listed
<1> DEFINE I == {i \in DOMAIN b : b[i] \in listed}
           h == Pick(b, I)
<1>1. I \subseteq DOMAIN b
    OBVIOUS
<1>2. Hits(b, listed) = h
    BY DEF Hits
<1>3. \A i \in DOMAIN b : i \in I <=> b[i] \in listed
    OBVIOUS
<1> HIDE DEF I
<1>4. /\ h \in Seq(Mints)
      /\ \A k \in DOMAIN h : \E i \in I : h[k] = b[i]
      /\ \A i \in I : \E k \in DOMAIN h : h[k] = b[i]
      /\ \A k, l \in DOMAIN h : k # l => \E i, j \in I : i # j /\ h[k] = b[i] /\ h[l] = b[j]
    BY <1>1, Picked
<1> HIDE DEF h
<1>5. Apart(h)
    BY <1>1, <1>4 DEF Apart
<1>6. ToSet(h) = ToSet(b) \cap listed
    <2>1. ToSet(h) \subseteq ToSet(b) \cap listed
        BY <1>1, <1>3, <1>4 DEF ToSet
    <2>2. ToSet(b) \cap listed \subseteq ToSet(h)
        BY <1>3, <1>4 DEF ToSet
    <2>. QED  BY <2>1, <2>2
<1>. QED  BY <1>2, <1>4, <1>5, <1>6

\* A queue after a pick.
LEMMA QueuePicked ==
    ASSUME NEW q \in Seq(QueueEntries), QueueApart(q), NEW I, I \subseteq DOMAIN q
    PROVE  /\ Pick(q, I) \in Seq(QueueEntries) /\ QueueApart(Pick(q, I))
           /\ MintsOf(Pick(q, I)) = {q[i].mint : i \in I}
<1> DEFINE p == Pick(q, I)
<1>4. /\ p \in Seq(QueueEntries)
      /\ \A k \in DOMAIN p : \E i \in I : p[k] = q[i]
      /\ \A i \in I : \E k \in DOMAIN p : p[k] = q[i]
      /\ \A k, l \in DOMAIN p : k # l => \E i, j \in I : i # j /\ p[k] = q[i] /\ p[l] = q[j]
    BY Picked
<1> HIDE DEF p
<1>5. QueueApart(p)
    <2>1. SUFFICES ASSUME NEW k \in DOMAIN p, NEW l \in DOMAIN p, k # l
                   PROVE  p[k].mint # p[l].mint
        BY DEF QueueApart
    <2>2. PICK i \in I, j \in I : i # j /\ p[k] = q[i] /\ p[l] = q[j]
        BY <1>4, <2>1
    <2>3. q[i].mint # q[j].mint
        BY <2>2 DEF QueueApart
    <2>. QED  BY <2>2, <2>3
<1>6. MintsOf(p) \subseteq {q[i].mint : i \in I}
    BY <1>4 DEF MintsOf
<1>7. {q[i].mint : i \in I} \subseteq MintsOf(p)
    BY <1>4 DEF MintsOf
<1>. QED  BY <1>4, <1>5, <1>6, <1>7 DEF p

\* The queue without the mints that were listed.
LEMMA WithoutIs ==
    ASSUME mintRetries \in Seq(QueueEntries), QueueApart(mintRetries), NEW out
    PROVE  /\ Without(out) \in Seq(QueueEntries) /\ QueueApart(Without(out))
           /\ MintsOf(Without(out)) = Queued \ out
<1> DEFINE I == {i \in DOMAIN mintRetries : mintRetries[i].mint \notin out}
<1>1. I \subseteq DOMAIN mintRetries /\ Without(out) = Pick(mintRetries, I)
    BY DEF Without
<1>2. {mintRetries[i].mint : i \in I} = Queued \ out
    BY DEF Queued
<1> HIDE DEF I
<1>. QED  BY <1>1, <1>2, QueuePicked

\* The queue after the missed ones were counted and the tired ones dropped.
LEMMA RetriedIs ==
    ASSUME NEW q \in Seq(QueueEntries), QueueApart(q), NEW missed
    PROVE  /\ Retried(q, missed) \in Seq(QueueEntries) /\ QueueApart(Retried(q, missed))
           /\ MintsOf(Retried(q, missed)) \subseteq MintsOf(q)
<1> DEFINE counted == [i \in DOMAIN q |-> IF q[i].mint \in missed
                                          THEN [q[i] EXCEPT !.retries = @ + 1] ELSE q[i]]
           I == {i \in DOMAIN counted : counted[i].retries < MaxRetries}
<1>1. Retried(q, missed) = Pick(counted, I)
    BY DEF Retried
<1>2. \A i \in DOMAIN q : counted[i] \in QueueEntries /\ counted[i].mint = q[i].mint
    <2>1. SUFFICES ASSUME NEW i \in DOMAIN q
                   PROVE  counted[i] \in QueueEntries /\ counted[i].mint = q[i].mint
        OBVIOUS
    <2>2. q[i] \in QueueEntries
        OBVIOUS
    <2>3. CASE q[i].mint \in missed
        <3>1. counted[i] = [q[i] EXCEPT !.retries = @ + 1]
            BY <2>3
        <3> HIDE DEF counted
        <3>. QED  BY <2>2, <3>1 DEF QueueEntries
    <2>4. CASE q[i].mint \notin missed
        <3>1. counted[i] = q[i]
            BY <2>4
        <3>. QED  BY <2>2, <3>1
    <2>. QED  BY <2>3, <2>4
<1>3. DOMAIN counted = DOMAIN q /\ counted = [i \in 1..Len(q) |-> counted[i]]
    OBVIOUS
<1>4. I \subseteq DOMAIN counted
    OBVIOUS
<1> HIDE DEF counted, I
<1>5. counted \in Seq(QueueEntries)
    <2>1. Len(q) \in Nat /\ DOMAIN q = 1..Len(q)
        OBVIOUS
    <2>. QED  BY <1>2, <1>3, <2>1
<1>6. QueueApart(counted)
    BY <1>2, <1>3 DEF QueueApart
<1>7. /\ Pick(counted, I) \in Seq(QueueEntries) /\ QueueApart(Pick(counted, I))
      /\ MintsOf(Pick(counted, I)) = {counted[i].mint : i \in I}
    BY <1>4, <1>5, <1>6, QueuePicked
<1>8. {counted[i].mint : i \in I} \subseteq MintsOf(q)
    BY <1>2, <1>3, <1>4 DEF MintsOf
<1>. QED  BY <1>1, <1>7, <1>8

\* The radar starts with nothing.
LEMMA RadarInitOK == RadarInit => RadarInv
<1> SUFFICES ASSUME RadarInit PROVE RadarInv
    OBVIOUS
<1>1. ToSet(<< >>) = {}
    BY DEF ToSet
<1>2. RadarTypeOK
    <2>1. << >> \in Seq(Mints) /\ << >> \in Seq(QueueEntries)
        OBVIOUS
    <2>2. recorder = [at |-> recorder.at, mints |-> recorder.mints] /\ recorder.at = "idle"
        BY DEF RadarInit
    <2>. QED  BY <2>1, <2>2 DEF RadarInit, RadarTypeOK
<1>3. Queued = {}
    BY DEF RadarInit, Queued
<1>4. SeenOnce
    BY <1>1, <1>3 DEF RadarInit, SeenOnce, Apart, QueueApart
<1>5. OnePoll /\ BetweenReadAndClear
    BY DEF RadarInit, OnePoll, BetweenReadAndClear
<1>6. LossesAreKnown
    BY <1>1 DEF RadarInit, LossesAreKnown
<1>. QED  BY <1>2, <1>4, <1>5, <1>6 DEF RadarInv

\* A new mint is queued last.
LEMMA ExtractKeeps ==
    ASSUME RadarInv, NEW m \in Mints, extractMint(m)
    PROVE  RadarInv'
<1>1. RadarTypeOK /\ OnePoll /\ SeenOnce /\ BetweenReadAndClear /\ LossesAreKnown
    BY DEF RadarInv
<1>2. /\ m \notin seenMints /\ seenMints' = seenMints \cup {m}
      /\ UNCHANGED <<radarFile, isPolling, polls, recorder, recorded, deaths, announced, excused>>
    BY DEF extractMint, handed
<1>3. BetweenReadAndClear' /\ LossesAreKnown'
    BY <1>1, <1>2 DEF BetweenReadAndClear, LossesAreKnown
<1>4. /\ mintRetries' \in Seq(QueueEntries) /\ QueueApart(mintRetries)'
      /\ Queued \subseteq Queued' /\ Queued' \subseteq seenFile'
      /\ Queued' \subseteq Queued \cup {m}
      /\ seenFile \subseteq seenFile' /\ seenFile' \subseteq seenFile \cup {m}
    <2>1. CASE UNCHANGED <<seenFile, mintRetries>>
        BY <1>1, <2>1 DEF RadarTypeOK, SeenOnce, QueueApart, Queued
    <2>2. CASE /\ seenFile' = seenFile \cup {m}
               /\ mintRetries' = Append(mintRetries, [mint |-> m, retries |-> 0])
        <3> DEFINE e == [mint |-> m, retries |-> 0]
                   q == Append(mintRetries, e)
                   n == Len(mintRetries)
        <3>1. e \in QueueEntries /\ e.mint = m
            BY DEF QueueEntries
        <3>2. mintRetries \in Seq(QueueEntries)
            BY <1>1 DEF RadarTypeOK
        <3> HIDE DEF e
        <3>3. /\ n \in Nat /\ DOMAIN mintRetries = 1..n
              /\ q \in Seq(QueueEntries) /\ DOMAIN q = 1..(n + 1)
              /\ q[n + 1] = e /\ \A i \in 1..n : q[i] = mintRetries[i]
            BY <3>1, <3>2
        <3> HIDE DEF q, n
        <3>4. \A i \in 1..(n + 1) : i \in 1..n \/ i = n + 1
            BY <3>3
        <3>5. \A i \in 1..n : i \in 1..(n + 1)
            BY <3>3
        <3>6. MintsOf(q) = Queued \cup {m}
            <4>1. MintsOf(q) \subseteq Queued \cup {m}
                BY <3>1, <3>3, <3>4 DEF MintsOf, Queued
            <4>2. Queued \subseteq MintsOf(q)
                BY <3>3, <3>5 DEF MintsOf, Queued
            <4>3. m \in MintsOf(q)
                <5>1. n + 1 \in 1..(n + 1)
                    BY <3>3
                <5>. QED  BY <3>1, <3>3, <5>1 DEF MintsOf
            <4>. QED  BY <4>1, <4>2, <4>3
        <3>7. \A i \in 1..n : q[i].mint # m
            <4>1. m \notin Queued
                BY <1>1, <1>2 DEF SeenOnce
            <4>. QED  BY <3>3, <4>1 DEF Queued
        <3>8. QueueApart(q)
            <4>1. \A i, j \in 1..n : q[i].mint = q[j].mint => i = j
                BY <1>1, <3>3 DEF SeenOnce, QueueApart
            <4>2. q[n + 1].mint = m
                BY <3>1, <3>3
            <4>. QED  BY <3>3, <3>4, <3>7, <4>1, <4>2 DEF QueueApart
        <3>9. mintRetries' = q
            BY <2>2 DEF q, e
        <3>10. Queued' = MintsOf(q)
            BY <3>9 DEF Queued, MintsOf
        <3>11. QueueApart(mintRetries)'
            BY <3>8, <3>9 DEF QueueApart
        <3>12. Queued \subseteq seenFile
            BY <1>1 DEF SeenOnce
        <3>. QED  BY <2>2, <3>3, <3>6, <3>9, <3>10, <3>11, <3>12
    <2>. QED  BY <2>1, <2>2 DEF extractMint
<1>5. RadarTypeOK'
    BY <1>1, <1>2, <1>4 DEF RadarTypeOK
<1>6. OnePoll'
    BY <1>1, <1>2, <1>4 DEF OnePoll
<1>7. SeenOnce'
    <2>1. m \notin ToSet(announced)
        BY <1>1, <1>2 DEF SeenOnce
    <2>2. Apart(announced)' /\ ToSet(announced)' = ToSet(announced)
        BY <1>1, <1>2 DEF SeenOnce
    <2>. QED  BY <1>1, <1>2, <1>4, <2>1, <2>2 DEF SeenOnce
<1>. QED  BY <1>3, <1>5, <1>6, <1>7 DEF RadarInv

\* What is asked about is the head of the queue.
LEMMA StartPollKeeps ==
    ASSUME RadarInv, StartPoll
    PROVE  RadarInv'
<1>1. RadarTypeOK /\ OnePoll /\ SeenOnce /\ BetweenReadAndClear /\ LossesAreKnown
    BY DEF RadarInv
<1>2. UNCHANGED <<seenFile, radarFile, seenMints, mintRetries, recorder, recorded, deaths,
                  announced, excused>>
    BY DEF StartPoll, handed
<1>3. BetweenReadAndClear' /\ LossesAreKnown'
    BY <1>1, <1>2 DEF BetweenReadAndClear, LossesAreKnown
<1>4. SeenOnce' /\ Queued' = Queued
    BY <1>1, <1>2 DEF SeenOnce, Apart, QueueApart, Queued
<1>5. RadarTypeOK' /\ isPolling' = TRUE
    BY <1>1, <1>2 DEF RadarTypeOK, StartPoll
<1> DEFINE n == IF Len(mintRetries) < Batch THEN Len(mintRetries) ELSE Batch
           batch == [i \in 1..n |-> mintRetries[i].mint]
<1>6. mintRetries \in Seq(QueueEntries) /\ Len(mintRetries) \in Nat
      /\ DOMAIN mintRetries = 1..Len(mintRetries)
    BY <1>1 DEF RadarTypeOK
<1>7. n \in Nat /\ 1..n \subseteq DOMAIN mintRetries
    BY <1>6, RadarAssumption
<1>8. polls = << >> /\ polls' = Append(polls, batch)
    BY <1>1 DEF StartPoll, MayPoll, OnePoll
<1> HIDE DEF n
<1>9. \A i \in 1..n : mintRetries[i].mint \in Mints
    <2>1. \A i \in DOMAIN mintRetries : mintRetries[i] \in QueueEntries
        BY <1>6
    <2>2. \A e \in QueueEntries : e.mint \in Mints
        BY DEF QueueEntries
    <2>. QED  BY <1>7, <2>1, <2>2
<1>10. batch \in Seq(Mints) /\ DOMAIN batch = 1..n
    BY <1>7, <1>9
<1>11. Apart(batch) /\ ToSet(batch) \subseteq Queued
    <2>1. \A i \in 1..n : batch[i] = mintRetries[i].mint
        OBVIOUS
    <2> HIDE DEF batch
    <2>2. Apart(batch)
        BY <1>1, <1>7, <1>10, <2>1 DEF Apart, SeenOnce, QueueApart
    <2>3. ToSet(batch) \subseteq Queued
        BY <1>7, <1>10, <2>1 DEF ToSet, Queued
    <2>. QED  BY <2>2, <2>3
<1> HIDE DEF batch
<1>12. polls' = <<batch>>
    BY <1>8
<1>13. polls' \in Seq(Seq(Mints)) /\ Len(polls') = 1 /\ polls'[1] = batch
    BY <1>10, <1>12
<1>14. OnePoll'
    BY <1>4, <1>5, <1>11, <1>13 DEF OnePoll, Apart, ToSet
<1>. QED  BY <1>3, <1>4, <1>5, <1>14 DEF RadarInv

\* Queued mints are announced: once, in the file, and excused if the recorder has
\* read the file and not cleared it.
LEMMA AnnounceOnce ==
    ASSUME RadarInv, NEW i \in DOMAIN polls, NEW listed,
           NEW k \in 0..Len(Hits(polls[i], listed)),
           Announce(Hits(polls[i], listed), k),
           UNCHANGED <<recorder, recorded>>
    PROVE  /\ isPolling /\ i = 1 /\ Len(polls) = 1
           /\ radarFile' \in Seq(Mints) /\ announced' \in Seq(Mints)
           /\ Apart(announced)'
           /\ ToSet(announced') = ToSet(announced)
                                    \cup ToSet(SubSeq(Hits(polls[i], listed), 1, k))
           /\ ToSet(SubSeq(Hits(polls[i], listed), 1, k)) \subseteq Queued \cap listed
           /\ BetweenReadAndClear' /\ LossesAreKnown'
<1> DEFINE h == Hits(polls[i], listed)
           lines == SubSeq(h, 1, k)
<1>1. RadarTypeOK /\ OnePoll /\ SeenOnce /\ BetweenReadAndClear /\ LossesAreKnown
    BY DEF RadarInv
<1>2. isPolling /\ Len(polls) = 1 /\ polls \in Seq(Seq(Mints))
    BY <1>1 DEF OnePoll
<1>3. i = 1 /\ polls[1] \in Seq(Mints) /\ Apart(polls[1]) /\ ToSet(polls[1]) \subseteq Queued
    BY <1>1, <1>2 DEF OnePoll
<1>4. h \in Seq(Mints) /\ Apart(h) /\ ToSet(h) = ToSet(polls[1]) \cap listed
    BY <1>3, HitsAre
<1>5. /\ radarFile' = radarFile \o lines /\ announced' = announced \o lines
      /\ excused' = (IF recorder.at = "read" THEN excused \cup ToSet(lines) ELSE excused)
    BY DEF Announce
<1>6. k \in 0..Len(h)
    OBVIOUS
<1> HIDE DEF h
<1>7. lines \in Seq(Mints) /\ ToSet(lines) \subseteq ToSet(h) /\ Apart(lines)
    BY <1>4, <1>6, Firsts
<1> HIDE DEF lines
<1>8. ToSet(lines) \subseteq Queued \cap listed /\ ToSet(announced) \cap ToSet(lines) = {}
    BY <1>1, <1>3, <1>4, <1>7 DEF SeenOnce
<1>9. radarFile \in Seq(Mints) /\ announced \in Seq(Mints) /\ Apart(announced)
    BY <1>1 DEF RadarTypeOK, SeenOnce
<1>10. /\ announced \o lines \in Seq(Mints)
       /\ ToSet(announced \o lines) = ToSet(announced) \cup ToSet(lines)
       /\ Apart(announced \o lines)
    BY <1>7, <1>8, <1>9, Joined
<1>11. /\ radarFile \o lines \in Seq(Mints)
       /\ ToSet(radarFile \o lines) = ToSet(radarFile) \cup ToSet(lines)
    BY <1>7, <1>9, Joined
<1>12. ToSet(announced)' = ToSet(announced) \cup ToSet(lines) /\ Apart(announced)'
    BY <1>5, <1>10
<1>13. ToSet(radarFile)' = ToSet(radarFile) \cup ToSet(lines)
    BY <1>5, <1>11
<1>14. BetweenReadAndClear' /\ LossesAreKnown'
    BY <1>1, <1>5, <1>12, <1>13 DEF BetweenReadAndClear, LossesAreKnown
<1>15. radarFile' \in Seq(Mints) /\ announced' \in Seq(Mints)
    BY <1>5, <1>10, <1>11
<1>. QED  BY <1>2, <1>3, <1>8, <1>12, <1>14, <1>15 DEF lines, h

\* A poll ends, and none is in flight.
LEMMA PollEnds ==
    ASSUME RadarTypeOK, OnePoll, NEW i \in DOMAIN polls
    PROVE  RemoveAt(polls, i) = << >>
<1>1. isPolling
    BY DEF OnePoll
<1>2. Len(polls) = 1 /\ polls \in Seq(Seq(Mints))
    BY <1>1 DEF OnePoll
<1>3. i = 1
    BY <1>2
<1>4. RemoveAt(polls, 1) = SubSeq(polls, 1, 0) \o SubSeq(polls, 2, 1)
    BY <1>2 DEF RemoveAt
<1>5. SubSeq(polls, 1, 0) = << >> /\ SubSeq(polls, 2, 1) = << >>
    BY <1>2
<1>6. << >> \o << >> = << >>
    OBVIOUS
<1>. QED  BY <1>3, <1>4, <1>5, <1>6

\* The market answers; an append may throw.
LEMMA AnswerKeeps ==
    ASSUME RadarInv, NEW i \in DOMAIN polls, PollAnswered(i)
    PROVE  RadarInv'
<1>1. RadarTypeOK /\ OnePoll /\ SeenOnce
    BY DEF RadarInv
<1>2. /\ isPolling' = FALSE /\ polls' = << >>
      /\ UNCHANGED <<seenFile, seenMints, recorder, recorded, deaths>>
    BY <1>1, PollEnds DEF PollAnswered, handed
<1>3. PICK listed \in SUBSET ToSet(polls[i]) :
          LET hits == Hits(polls[i], listed)
          IN \/ /\ Announce(hits, Len(hits))
                /\ mintRetries' = Retried(Without(listed), ToSet(polls[i]) \ listed)
             \/ \E k \in DOMAIN hits :
                   /\ Announce(hits, k - 1)
                   /\ mintRetries' = Without(ToSet(SubSeq(hits, 1, k)))
    BY Zenon DEF PollAnswered
<1> DEFINE hits == Hits(polls[i], listed)
<1>4. /\ mintRetries \in Seq(QueueEntries) /\ QueueApart(mintRetries)
      /\ ToSet(announced) \cap Queued = {} /\ Queued \cup ToSet(announced) \subseteq seenFile
      /\ seenFile \subseteq seenMints
    BY <1>1 DEF RadarTypeOK, SeenOnce
<1>5. polls[i] \in Seq(Mints) /\ Apart(polls[i]) /\ ToSet(polls[i]) \subseteq Queued
    <2>1. isPolling /\ i = 1
        BY <1>1 DEF OnePoll
    <2>. QED  BY <1>1, <2>1 DEF OnePoll
<1>6. hits \in Seq(Mints) /\ ToSet(hits) = ToSet(polls[i]) \cap listed
    BY <1>5, HitsAre
<1>7. \E k \in 0..Len(hits) : \E dropped :
         /\ Announce(hits, k) /\ ToSet(SubSeq(hits, 1, k)) \subseteq dropped
         /\ mintRetries' \in Seq(QueueEntries) /\ QueueApart(mintRetries')
         /\ MintsOf(mintRetries') \subseteq Queued \ dropped
    <2>1. CASE /\ Announce(hits, Len(hits))
               /\ mintRetries' = Retried(Without(listed), ToSet(polls[i]) \ listed)
        <3> DEFINE q == Without(listed)
        <3>1. q \in Seq(QueueEntries) /\ QueueApart(q) /\ MintsOf(q) = Queued \ listed
            BY <1>4, WithoutIs
        <3>2. mintRetries' = Retried(q, ToSet(polls[i]) \ listed)
            BY <2>1
        <3> HIDE DEF q, hits
        <3>3. /\ mintRetries' \in Seq(QueueEntries) /\ QueueApart(mintRetries')
              /\ MintsOf(mintRetries') \subseteq Queued \ listed
            BY <3>1, <3>2, RetriedIs
        <3>4. Len(hits) \in Nat /\ Len(hits) \in 0..Len(hits)
            BY <1>6
        <3>5. ToSet(SubSeq(hits, 1, Len(hits))) \subseteq ToSet(hits)
            BY <1>6, <3>4, Firsts
        <3>6. ToSet(SubSeq(hits, 1, Len(hits))) \subseteq listed
            BY <1>6, <3>5
        <3>. QED  BY <2>1, <3>3, <3>4, <3>6 DEF hits
    <2>2. CASE \E k \in DOMAIN hits :
                   /\ Announce(hits, k - 1)
                   /\ mintRetries' = Without(ToSet(SubSeq(hits, 1, k)))
        <3> HIDE DEF hits
        <3>1. PICK k \in DOMAIN hits :
                   /\ Announce(hits, k - 1)
                   /\ mintRetries' = Without(ToSet(SubSeq(hits, 1, k)))
            BY <2>2
        <3> DEFINE dropped == ToSet(SubSeq(hits, 1, k))
        <3>2. Len(hits) \in Nat /\ k \in 1..Len(hits) /\ k - 1 \in 0..Len(hits)
            BY <1>6
        <3>3. ToSet(SubSeq(hits, 1, k - 1)) \subseteq dropped
            <4> DEFINE a == SubSeq(hits, 1, k - 1)
                       b == SubSeq(hits, 1, k)
            <4>1. /\ DOMAIN a = 1..(k - 1) /\ \A j \in 1..(k - 1) : a[j] = hits[j]
                  /\ DOMAIN b = 1..k /\ \A j \in 1..k : b[j] = hits[j]
                BY <1>6, <3>2
            <4>2. \A j \in 1..(k - 1) : j \in 1..k
                BY <3>2
            <4> HIDE DEF a, b
            <4>3. ToSet(a) \subseteq ToSet(b)
                BY <4>1, <4>2 DEF ToSet
            <4>. QED  BY <4>3 DEF a, b
        <3> HIDE DEF dropped
        <3>4. mintRetries' = Without(dropped)
            BY <3>1 DEF dropped
        <3>5. /\ mintRetries' \in Seq(QueueEntries) /\ QueueApart(mintRetries')
              /\ MintsOf(mintRetries') \subseteq Queued \ dropped
            BY <1>4, <3>4, WithoutIs
        <3>. QED  BY <3>1, <3>2, <3>3, <3>5
    <2>. QED  BY <1>3, <2>1, <2>2
<1>7a. PICK k \in 0..Len(hits) : \E dropped :
         /\ Announce(hits, k) /\ ToSet(SubSeq(hits, 1, k)) \subseteq dropped
         /\ mintRetries' \in Seq(QueueEntries) /\ QueueApart(mintRetries')
         /\ MintsOf(mintRetries') \subseteq Queued \ dropped
    BY <1>7
<1>8. PICK dropped :
         /\ Announce(hits, k) /\ ToSet(SubSeq(hits, 1, k)) \subseteq dropped
         /\ mintRetries' \in Seq(QueueEntries) /\ QueueApart(mintRetries')
         /\ MintsOf(mintRetries') \subseteq Queued \ dropped
    BY <1>7a
<1> DEFINE lines == SubSeq(hits, 1, k)
<1>9. /\ radarFile' \in Seq(Mints) /\ announced' \in Seq(Mints)
      /\ Apart(announced)' /\ ToSet(announced') = ToSet(announced) \cup ToSet(lines)
      /\ ToSet(lines) \subseteq Queued \cap listed
      /\ BetweenReadAndClear' /\ LossesAreKnown'
    BY <1>2, <1>8, AnnounceOnce
<1> HIDE DEF lines
<1>10. Queued' = MintsOf(mintRetries') /\ QueueApart(mintRetries)'
    BY <1>8 DEF Queued, MintsOf, QueueApart
<1>11. ToSet(lines) \subseteq dropped
    BY <1>8 DEF lines
<1>12. SeenOnce'
    <2>1. ToSet(announced)' = ToSet(announced) \cup ToSet(lines)
        BY <1>9
    <2>. QED  BY <1>2, <1>4, <1>8, <1>9, <1>10, <1>11, <2>1 DEF SeenOnce
<1>13. RadarTypeOK'
    BY <1>1, <1>2, <1>8, <1>9 DEF RadarTypeOK
<1>14. OnePoll'
    BY <1>2 DEF OnePoll
<1>. QED  BY <1>9, <1>12, <1>13, <1>14 DEF RadarInv

\* It does not answer.
LEMMA FailKeeps ==
    ASSUME RadarInv, NEW i \in DOMAIN polls, PollFails(i)
    PROVE  RadarInv'
<1>1. RadarTypeOK /\ OnePoll /\ SeenOnce /\ BetweenReadAndClear /\ LossesAreKnown
    BY DEF RadarInv
<1>2. /\ isPolling' = FALSE /\ polls' = << >>
      /\ UNCHANGED <<seenFile, radarFile, seenMints, mintRetries, recorder, recorded, deaths,
                     announced, excused>>
    BY <1>1, PollEnds DEF PollFails, handed
<1>3. BetweenReadAndClear' /\ LossesAreKnown'
    BY <1>1, <1>2 DEF BetweenReadAndClear, LossesAreKnown
<1>4. SeenOnce'
    BY <1>1, <1>2 DEF SeenOnce, Apart, QueueApart, Queued
<1>5. RadarTypeOK' /\ OnePoll'
    BY <1>1, <1>2 DEF RadarTypeOK, OnePoll
<1>. QED  BY <1>3, <1>4, <1>5 DEF RadarInv

\* The radar dies, between two appends of an answer perhaps.
LEMMA DeathKeeps ==
    ASSUME RadarInv, RadarDies
    PROVE  RadarInv'
<1>1. RadarTypeOK /\ OnePoll /\ SeenOnce /\ BetweenReadAndClear /\ LossesAreKnown
    BY DEF RadarInv
<1>2. /\ seenMints' = seenFile /\ mintRetries' = << >> /\ isPolling' = FALSE /\ polls' = << >>
      /\ UNCHANGED <<seenFile, recorder, recorded>>
    BY DEF RadarDies, handed
<1>3. Queued' = {} /\ QueueApart(mintRetries)' /\ OnePoll'
    BY <1>2 DEF Queued, QueueApart, OnePoll
<1>4. /\ radarFile' \in Seq(Mints) /\ announced' \in Seq(Mints) /\ Apart(announced)'
      /\ ToSet(announced)' \subseteq ToSet(announced) \cup Queued
      /\ BetweenReadAndClear' /\ LossesAreKnown'
    <2>1. CASE UNCHANGED <<radarFile, announced, excused>>
        <3>1. BetweenReadAndClear' /\ LossesAreKnown'
            BY <1>1, <1>2, <2>1 DEF BetweenReadAndClear, LossesAreKnown
        <3>. QED  BY <1>1, <2>1, <3>1 DEF RadarTypeOK, SeenOnce
    <2>2. CASE \E i \in DOMAIN polls : \E listed \in SUBSET ToSet(polls[i]) :
                 LET hits == Hits(polls[i], listed)
                 IN \E k \in DOMAIN hits : Announce(hits, k)
        <3>1. PICK i \in DOMAIN polls : \E listed \in SUBSET ToSet(polls[i]) :
                 \E k \in DOMAIN Hits(polls[i], listed) : Announce(Hits(polls[i], listed), k)
            BY <2>2
        <3>2. PICK listed \in SUBSET ToSet(polls[i]) :
                 \E k \in DOMAIN Hits(polls[i], listed) : Announce(Hits(polls[i], listed), k)
            BY <3>1
        <3> DEFINE hits == Hits(polls[i], listed)
        <3>3. PICK k \in DOMAIN hits : Announce(hits, k)
            BY <3>2
        <3>4. polls[i] \in Seq(Mints) /\ Apart(polls[i])
            <4>1. isPolling /\ i = 1
                BY <1>1 DEF OnePoll
            <4>2. polls \in Seq(Seq(Mints)) /\ Len(polls) = 1 /\ Apart(polls[1])
                BY <1>1, <4>1 DEF OnePoll
            <4>3. polls[1] \in Seq(Mints)
                BY <4>2
            <4>. QED  BY <4>1, <4>2, <4>3
        <3>5. hits \in Seq(Mints)
            BY <3>4, HitsAre
        <3>6. k \in 0..Len(hits)
            <4> HIDE DEF hits
            <4>. QED  BY <3>5
        <3>7. /\ radarFile' \in Seq(Mints) /\ announced' \in Seq(Mints) /\ Apart(announced)'
              /\ ToSet(announced') = ToSet(announced) \cup ToSet(SubSeq(hits, 1, k))
              /\ ToSet(SubSeq(hits, 1, k)) \subseteq Queued \cap listed
              /\ BetweenReadAndClear' /\ LossesAreKnown'
            BY <1>2, <3>3, <3>6, AnnounceOnce
        <3> HIDE DEF hits
        <3>. QED  BY <3>7
    <2>. QED  BY <2>1, <2>2, Zenon DEF RadarDies
<1>5. RadarTypeOK'
    <2>1. << >> \in Seq(QueueEntries)
        OBVIOUS
    <2>. QED  BY <1>1, <1>2, <1>4, <2>1 DEF RadarTypeOK
<1>6. SeenOnce'
    BY <1>1, <1>2, <1>3, <1>4 DEF SeenOnce
<1>. QED  BY <1>3, <1>4, <1>5, <1>6 DEF RadarInv

\* The recorder reads the file, clears it, records or fails.
LEMMA HandoverKeeps ==
    ASSUME RadarInv, ReadRadar \/ ClearRadar \/ TickRecorded \/ TickFails \/ UNCHANGED radarVars
    PROVE  RadarInv'
<1>1. RadarTypeOK /\ OnePoll /\ SeenOnce /\ BetweenReadAndClear /\ LossesAreKnown
    BY DEF RadarInv
<1>2. UNCHANGED <<seenFile, seenMints, mintRetries, isPolling, polls, announced>>
    BY DEF ReadRadar, ClearRadar, TickRecorded, TickFails, radarVars, memory
<1>3. SeenOnce' /\ OnePoll'
    BY <1>1, <1>2 DEF SeenOnce, OnePoll, Apart, QueueApart, Queued
<1>4. ToSet(<< >>) = {} /\ << >> \in Seq(Mints)
    BY DEF ToSet
<1>5. recorder = [at |-> recorder.at, mints |-> recorder.mints]
    BY <1>1 DEF RadarTypeOK
<1> SUFFICES /\ radarFile' \in Seq(Mints)
             /\ recorder' = [at |-> recorder'.at, mints |-> recorder'.mints]
             /\ recorder'.at \in {"idle", "read", "tick"}
             /\ BetweenReadAndClear' /\ LossesAreKnown'
    BY <1>1, <1>2, <1>3 DEF RadarInv, RadarTypeOK
<1>6. CASE ReadRadar
    <2>1. /\ recorder' = [at |-> "read", mints |-> ToSet(radarFile)] /\ recorder.at = "idle"
          /\ UNCHANGED <<radarFile, recorded, excused>>
        BY <1>6 DEF ReadRadar
    <2>2. recorder'.at = "read" /\ recorder'.mints = ToSet(radarFile) /\ recorder.mints = {}
        BY <1>1, <2>1 DEF BetweenReadAndClear
    <2>3. BetweenReadAndClear' /\ LossesAreKnown'
        BY <1>1, <1>2, <2>1, <2>2 DEF BetweenReadAndClear, LossesAreKnown
    <2>. QED  BY <1>1, <2>1, <2>2, <2>3 DEF RadarTypeOK
<1>7. CASE ClearRadar
    <2>1. /\ recorder' = [at |-> "tick", mints |-> recorder.mints] /\ recorder.at = "read"
          /\ radarFile' = << >> /\ UNCHANGED <<recorded, excused>>
        BY <1>5, <1>7 DEF ClearRadar
    <2>2. recorder'.at = "tick" /\ recorder'.mints = recorder.mints /\ ToSet(radarFile)' = {}
        BY <1>4, <2>1
    <2>3. BetweenReadAndClear' /\ LossesAreKnown'
        BY <1>1, <1>2, <2>1, <2>2 DEF BetweenReadAndClear, LossesAreKnown
    <2>. QED  BY <1>4, <2>1, <2>2, <2>3
<1>8. CASE TickRecorded
    <2>1. /\ recorder' = [at |-> "idle", mints |-> {}] /\ recorded' = recorded \cup recorder.mints
          /\ UNCHANGED <<radarFile, excused>>
        BY <1>8 DEF TickRecorded
    <2>2. recorder'.at = "idle" /\ recorder'.mints = {}
        BY <2>1
    <2>3. BetweenReadAndClear' /\ LossesAreKnown'
        BY <1>1, <1>2, <2>1, <2>2 DEF BetweenReadAndClear, LossesAreKnown
    <2>. QED  BY <1>1, <2>1, <2>2, <2>3 DEF RadarTypeOK
<1>9. CASE TickFails
    <2>1. /\ recorder' = [at |-> "idle", mints |-> {}] /\ recorder.at # "idle"
          /\ excused' = (IF recorder.at = "tick" THEN excused \cup recorder.mints ELSE excused)
          /\ UNCHANGED <<radarFile, recorded>>
        BY <1>9 DEF TickFails
    <2>2. recorder'.at = "idle" /\ recorder'.mints = {}
        BY <2>1
    <2>3. recorder.at = "tick" \/ (recorder.at = "read" /\ recorder.mints \subseteq ToSet(radarFile))
        BY <1>1, <2>1 DEF RadarTypeOK, BetweenReadAndClear
    <2>4. BetweenReadAndClear' /\ LossesAreKnown'
        BY <1>1, <1>2, <2>1, <2>2, <2>3 DEF BetweenReadAndClear, LossesAreKnown
    <2>. QED  BY <1>1, <2>1, <2>2, <2>4 DEF RadarTypeOK
<1>10. CASE UNCHANGED radarVars
    <2>1. UNCHANGED <<radarFile, recorder, recorded, excused>>
        BY <1>10 DEF radarVars, handed
    <2>2. BetweenReadAndClear' /\ LossesAreKnown'
        BY <1>1, <1>2, <2>1 DEF BetweenReadAndClear, LossesAreKnown
    <2>. QED  BY <1>1, <2>1, <2>2 DEF RadarTypeOK
<1>. QED  BY <1>6, <1>7, <1>8, <1>9, <1>10

\* Every step keeps the invariant.
LEMMA RadarStep == RadarInv /\ [RadarNext]_radarVars => RadarInv'
<1> SUFFICES ASSUME RadarInv, [RadarNext]_radarVars PROVE RadarInv'
    OBVIOUS
<1>1. CASE \E m \in Mints : extractMint(m)
    BY <1>1, ExtractKeeps
<1>2. CASE StartPoll
    BY <1>2, StartPollKeeps
<1>3. CASE AnyAnswer
    BY <1>3, AnswerKeeps DEF AnyAnswer
<1>4. CASE \E i \in DOMAIN polls : PollFails(i)
    BY <1>4, FailKeeps
<1>5. CASE RadarDies
    BY <1>5, DeathKeeps
<1>6. CASE ReadRadar \/ ClearRadar \/ TickRecorded \/ TickFails \/ UNCHANGED radarVars
    BY <1>6, HandoverKeeps
<1>. QED  BY <1>1, <1>2, <1>3, <1>4, <1>5, <1>6 DEF RadarNext

\* The invariant of the radar and the reader of its file.
LEMMA RadarHolds == RadarSpec => []RadarInv
<1>. QED  BY RadarInitOK, RadarStep, PTL DEF RadarSpec

\* No mint is written to radar.txt twice, however polls, failed appends, deaths and new
\* launches interleave (radar.js:29): it is announced only while it is queued, queued
\* only when it was not seen, and one poll is in flight at a time.
THEOREM AnnouncedOnce == RadarSpec => []AnnouncedAtMostOnce
<1>1. RadarInv => AnnouncedAtMostOnce
    <2> SUFFICES ASSUME RadarInv PROVE AnnouncedAtMostOnce
        OBVIOUS
    <2> DEFINE n == Len(announced)
    <2>1. announced \in Seq(Mints) /\ Apart(announced)
        BY DEF RadarInv, RadarTypeOK, SeenOnce
    <2>2. n \in Nat /\ announced \in [1..n -> ToSet(announced)] /\ DOMAIN announced = 1..n
        BY <2>1 DEF ToSet
    <2>3. announced \in Injection(1..n, ToSet(announced))
        BY <2>1, <2>2 DEF Injection, IsInjective, Apart
    <2>4. announced \in Surjection(1..n, ToSet(announced))
        BY <2>2 DEF Surjection, ToSet
    <2>5. ExistsBijection(1..n, ToSet(announced))
        BY <2>3, <2>4 DEF ExistsBijection, Bijection
    <2>6. IsFiniteSet(1..n) /\ Cardinality(1..n) = n
        BY <2>2, FS_Interval
    <2>7. Cardinality(ToSet(announced)) = Cardinality(1..n)
        BY <2>5, <2>6, FS_Bijection
    <2>. QED  BY <2>6, <2>7 DEF AnnouncedAtMostOnce
<1>. QED  BY RadarHolds, <1>1, PTL

\* An announced mint is in the file, in the recorder's hands or recorded, unless it was
\* appended between the read and the clearing or its tick failed (record.js:208-217).
THEOREM KnownLosses == RadarSpec => []LossesAreKnown
<1>1. RadarInv => LossesAreKnown
    BY DEF RadarInv
<1>. QED  BY RadarHolds, <1>1, PTL
=============================================================================
