------------------------------ MODULE RpcClient ------------------------------
(***************************************************************************)
(* src/rpc/connection.js: calls with bounded retry, backoff and one        *)
(* attempt on a fallback endpoint, each attempt paying for a slot of the   *)
(* limiter, over connections built on first use and shared.                *)
(*                                                                         *)
(* A call is never cancelled: a layer that loses its race with its timer   *)
(* leaves its calls running.  A node may never answer.  What the callers   *)
(* do with the answers (rpc-validate.js) and the counters of stats(), "for *)
(* logging only", are left out.                                            *)
(***************************************************************************)
EXTENDS RateLimiter, FiniteSets

CONSTANTS
    Calls,           \* invocations of call(name, fn)
    MaxAttempts,     \* maxAttempts, on the primary endpoint
    HasFallback,     \* a distinct fallback endpoint is configured
    BackoffBaseMs,   \* BACKOFF_BASE_MS, in ticks
    MaxTime          \* bound: later than this the clock moves for timers only

ASSUME RpcAssumption ==
    /\ MaxAttempts \in Nat \ {0} /\ BackoffBaseMs \in Nat /\ MaxTime \in Nat
    /\ HasFallback \in BOOLEAN
    /\ Tasks = Calls \X (0..MaxAttempts)

VARIABLES
    stage,       \* stage[c]: where call c is
    attempt,     \* attempt[c]: zero-based; MaxAttempts is the fallback's
    retryAt,     \* retryAt[c]: end of its backoff
    connections  \* what the map holds of each endpoint: nothing ("none"), or a
                 \* promise that is "building", "up" or "failed"

rpcVars == <<now, granted, queue, pump, wakeAt, starts,
             stage, attempt, retryAt, connections>>

Endpoints == {"primary", "fallback"}
Settled == {"succeeded", "failed", "exhausted"}
Stages == {"new", "queued", "connecting", "asking", "rejected", "backoff"} \cup Settled

Target(c) == IF attempt[c] < MaxAttempts THEN "primary" ELSE "fallback"

Init ==
    /\ LimiterInit
    /\ stage = [c \in Calls |-> "new"]
    /\ attempt = [c \in Calls |-> 0]
    /\ retryAt = [c \in Calls |-> 0]
    /\ connections = [e \in Endpoints |-> "none"]

\* limiter.schedule of attempt n of call c.
AttemptOn(c, n) ==
    /\ Enqueue(<<c, n>>)
    /\ stage' = [stage EXCEPT ![c] = "queued"]
    /\ attempt' = [attempt EXCEPT ![c] = n]
    /\ UNCHANGED <<now, granted, wakeAt, starts, retryAt, connections>>

Call(c) == stage[c] = "new" /\ AttemptOn(c, 0)

\* The pump grants the slot of a call, which then awaits its connection: what the
\* map holds, or one whose construction it starts.
Begin ==
    LET c == Head(queue)[1]
        e == Target(c)
    IN /\ GrantSlot
       /\ stage' = [stage EXCEPT ![c] =
                      CASE connections[e] = "up" -> "asking"
                        [] connections[e] = "failed" -> "rejected"
                        [] OTHER -> "connecting"]
       /\ connections' = [connections EXCEPT ![e] = IF @ = "none" THEN "building" ELSE @]
       /\ UNCHANGED <<attempt, retryAt>>

Waiting(e) == {c \in Calls : stage[c] = "connecting" /\ Target(c) = e}

\* Everyone who awaits the connection of e moves on.
Release(e, next) ==
    stage' = [c \in Calls |-> IF c \in Waiting(e) THEN next ELSE stage[c]]

Connected(e) ==
    /\ PumpYields /\ connections[e] = "building"
    /\ connections' = [connections EXCEPT ![e] = "up"]
    /\ Release(e, "asking")
    /\ UNCHANGED <<now, granted, queue, pump, wakeAt, starts, attempt, retryAt>>

\* Mutant of Forgotten: the failed construction stays in the map.
Remembered(e) == [connections EXCEPT ![e] = "failed"]

\* connections.delete(target)
Forgotten(e) == [connections EXCEPT ![e] = "none"]

\* The construction fails for everyone who awaits it, and is forgotten.
ConnectFails(e) ==
    /\ PumpYields /\ connections[e] = "building"
    /\ connections' = Forgotten(e)
    /\ Release(e, "rejected")
    /\ UNCHANGED <<now, granted, queue, pump, wakeAt, starts, attempt, retryAt>>

Answer(c) ==
    /\ PumpYields /\ stage[c] = "asking"
    /\ stage' = [stage EXCEPT ![c] = "succeeded"]
    /\ UNCHANGED <<now, granted, queue, pump, wakeAt, starts, attempt, retryAt, connections>>

\* An attempt throws: the request's own failure, or its connection's.
Throws(c) == PumpYields /\ stage[c] \in {"asking", "rejected"}

Settle(c, how) ==
    /\ stage' = [stage EXCEPT ![c] = how]
    /\ UNCHANGED <<now, granted, queue, pump, wakeAt, starts, attempt, retryAt, connections>>

\* A failure of the primary that is not transient surfaces at once.
GiveUp(c) ==
    /\ Throws(c) /\ attempt[c] < MaxAttempts
    /\ Settle(c, "failed")

\* Mutant of BackoffMs: the first retry does not wait.
LinearBackoff(n) == n * BackoffBaseMs

BackoffMs(n) == 2^n * BackoffBaseMs

\* A transient one is retried after a backoff while attempts are left.
BackOff(c) ==
    /\ Throws(c) /\ attempt[c] + 1 < MaxAttempts
    /\ stage' = [stage EXCEPT ![c] = "backoff"]
    /\ retryAt' = [retryAt EXCEPT ![c] = now + BackoffMs(attempt[c])]
    /\ UNCHANGED <<now, granted, queue, pump, wakeAt, starts, attempt, connections>>

Retry(c) ==
    /\ stage[c] = "backoff" /\ now >= retryAt[c]
    /\ AttemptOn(c, attempt[c] + 1)

\* The last one leaves the fallback, without a backoff, ...
FallBack(c) ==
    /\ Throws(c) /\ attempt[c] + 1 = MaxAttempts /\ HasFallback
    /\ AttemptOn(c, MaxAttempts)

LastAttempt == IF HasFallback THEN MaxAttempts ELSE MaxAttempts - 1

\* ... and after that, or without one, nothing.
Exhaust(c) ==
    /\ Throws(c) /\ attempt[c] = LastAttempt
    /\ Settle(c, "exhausted")

\* A timer is set and not due yet.
TimerPending ==
    \/ pump = "sleep" /\ now < wakeAt
    \/ \E c \in Calls : stage[c] = "backoff" /\ now < retryAt[c]

PassTime ==
    /\ now < MaxTime \/ TimerPending
    /\ Advance
    /\ UNCHANGED <<stage, attempt, retryAt, connections>>

Others == UNCHANGED <<stage, attempt, retryAt, connections>>

Pump == (LookForSlot /\ Others) \/ Begin \/ (Wake /\ Others) \/ (QueueEmpty /\ Others)

\* What an attempt that throws leads to.
Handle(c) == GiveUp(c) \/ BackOff(c) \/ FallBack(c) \/ Exhaust(c)

Next ==
    \/ Pump
    \/ \E e \in Endpoints : Connected(e) \/ ConnectFails(e)
    \/ \E c \in Calls : Call(c) \/ Answer(c) \/ Handle(c) \/ Retry(c)
    \/ PassTime

\* Timers fire, and what may run runs.  Nothing is assumed of the nodes.
Fairness ==
    /\ WF_rpcVars(Pump) /\ WF_rpcVars(PassTime)
    /\ \A c \in Calls : WF_rpcVars(Retry(c))
    /\ \A c \in Calls : WF_rpcVars(stage[c] = "rejected" /\ Handle(c))

Spec == Init /\ [][Next]_rpcVars /\ Fairness

-----------------------------------------------------------------------------
\* Every call is in one stage; a queued one is in the queue exactly once and no
\* other is; one that awaits a connection has somebody building it.
TypeOK ==
    /\ LimiterTypeOK
    /\ stage \in [Calls -> Stages] /\ attempt \in [Calls -> 0..MaxAttempts]
    /\ retryAt \in [Calls -> Nat]
    /\ connections \in [Endpoints -> {"none", "building", "up", "failed"}]
    /\ \A c \in Calls : Cardinality({i \in DOMAIN queue : queue[i] = <<c, attempt[c]>>})
                           = (IF stage[c] = "queued" THEN 1 ELSE 0)
    /\ \A c \in Calls : stage[c] = "connecting" => connections[Target(c)] = "building"

\* The slots call c was granted, and how many attempts it has begun.
SlotsOf(c) == {i \in DOMAIN starts : starts[i].task[1] = c}
Begun(c) == attempt[c] + (IF stage[c] \in {"new", "queued"} THEN 0 ELSE 1)

\* What a call costs the quota ("retries and fallback attempts included",
\* connection.js:9-10): each attempt takes one slot of its own before it asks
\* anything, none twice; each retry of the primary starts at least 2^n * 250 ms
\* after the attempt before it, and the fallback only after all of them.
EveryAttemptPays ==
    \A c \in Calls :
        LET number(i) == starts[i].task[2]
        IN /\ {number(i) : i \in SlotsOf(c)} = 0..Begun(c) - 1
           /\ \A i, j \in SlotsOf(c) : i < j => number(i) < number(j)
           /\ \A i, j \in SlotsOf(c) :
                 number(j) = number(i) + 1 /\ number(j) < MaxAttempts =>
                    starts[j].at >= starts[i].at + 2^number(i) * BackoffBaseMs

\* "A failed construction must not be cached forever: one DNS blip would
\* otherwise blind the gate" (connection.js:198-199): an attempt that starts, on
\* a slot of the quota, never meets a connection already known to have failed.
FailureNotCached ==
    [][\A c \in Calls : stage[c] = "queued" => stage'[c] # "rejected"]_rpcVars

\* The limiter "caps request STARTS, not concurrency: a slow response must not
\* stall the queue behind it" (rateLimiter.js:20-21): whoever waits for a slot
\* gets one, though no node ever answers anybody.
QueuedCallsStart == \A c \in Calls : stage[c] = "queued" ~> stage[c] # "queued"
=============================================================================
