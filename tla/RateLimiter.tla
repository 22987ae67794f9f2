----------------------------- MODULE RateLimiter -----------------------------
(***************************************************************************)
(* src/data/rateLimiter.js: the sliding-window limiter every client of a   *)
(* free tier schedules its requests through.                               *)
(*                                                                         *)
(* One pump serves a FIFO queue.  It runs without interruption from one    *)
(* `await sleep' to the next, so nothing is scheduled while it looks for a *)
(* slot or grants one; but the clock is read twice, once to look and once  *)
(* to grant, and may have moved on in between.  The clock does not go back *)
(* (the code takes `granted' to be ascending), and it does not fail, so    *)
(* the pump's catch block, for broken clocks only, is left out.            *)
(***************************************************************************)
EXTENDS Naturals, Sequences

CONSTANTS
    Tasks,              \* what may be scheduled
    RequestsPerMinute,  \* requestsPerMinute
    WindowMs            \* windowMs, in ticks of the clock

ASSUME LimiterAssumption ==
    /\ RequestsPerMinute \in Nat \ {0}
    /\ WindowMs \in Nat \ {0}

VARIABLES
    now,      \* the clock
    granted,  \* start times of granted slots that may still count, ascending
    queue,    \* tasks waiting, FIFO
    pump,     \* where the pump is: "idle", "look", "grant", "sleep"
    wakeAt,   \* when its timer is due, while it sleeps
    starts    \* history: every slot granted, with its task

limiterVars == <<now, granted, queue, pump, wakeAt, starts>>

LimiterInit ==
    /\ now = 0 /\ granted = << >> /\ queue = << >>
    /\ pump = "idle" /\ wakeAt = 0 /\ starts = << >>

\* Other code runs only while the pump waits.
PumpYields == pump \in {"idle", "sleep"}

\* Mutant of Enqueue: the pump is not run.
EnqueueOnly(t) ==
    /\ PumpYields
    /\ queue' = Append(queue, t)
    /\ pump' = pump

\* schedule(fn): queue the task, and run the pump if nobody does.
Enqueue(t) ==
    /\ PumpYields
    /\ queue' = Append(queue, t)
    /\ pump' = IF pump = "idle" THEN "look" ELSE pump

Schedule(t) == Enqueue(t) /\ UNCHANGED <<now, granted, wakeAt, starts>>

\* The first k slots have left the closed window that ends at `at', and no other.
Expired(k, at) ==
    \A i \in 1..Len(granted) : granted[i] + WindowMs < at <=> i <= k

\* Mutant of MsUntilFree: the extra millisecond is forgotten.
MsUntilOpen(live, at) == (live[1] + WindowMs) - at

\* msUntilSlotFree, when every slot is taken: until the oldest one is strictly
\* outside the closed window.
MsUntilFree(live, at) == ((live[1] + WindowMs) - at) + 1

\* One round of the pump's loop: drop the slots that have aged out of the window,
\* then grant at once or sleep until the oldest of the rest has aged out.
LookForSlot ==
    /\ pump = "look" /\ queue # << >>
    /\ \E k \in 0..Len(granted) :
          LET live == SubSeq(granted, k + 1, Len(granted))
              wait == IF Len(live) < RequestsPerMinute THEN 0 ELSE MsUntilFree(live, now)
          IN /\ Expired(k, now)
             /\ granted' = live
             /\ IF wait = 0 THEN pump' = "grant" /\ wakeAt' = wakeAt
                            ELSE pump' = "sleep" /\ wakeAt' = now + wait
    /\ UNCHANGED <<now, queue, starts>>

\* Mutant of Rest: the task is granted and stays in the queue.
All(q) == q

\* const [next, ...rest] = queue
Rest(q) == Tail(q)

\* grant(next)
GrantSlot ==
    /\ pump = "grant"
    /\ queue' = Rest(queue)
    /\ granted' = Append(granted, now)
    /\ starts' = Append(starts, [task |-> Head(queue), at |-> now])
    /\ pump' = "look"
    /\ UNCHANGED <<now, wakeAt>>

\* The sleep is over; a timer may be late.
Wake ==
    /\ pump = "sleep" /\ now >= wakeAt
    /\ pump' = "look"
    /\ UNCHANGED <<now, granted, queue, wakeAt, starts>>

QueueEmpty ==
    /\ pump = "look" /\ queue = << >>
    /\ pump' = "idle"
    /\ UNCHANGED <<now, granted, queue, wakeAt, starts>>

Advance == now' = now + 1 /\ UNCHANGED <<granted, queue, pump, wakeAt, starts>>

LimiterNext ==
    \/ \E t \in Tasks : Schedule(t)
    \/ LookForSlot
    \/ GrantSlot
    \/ Wake
    \/ QueueEmpty
    \/ Advance

LimiterSpec == LimiterInit /\ [][LimiterNext]_limiterVars

-----------------------------------------------------------------------------
LimiterTypeOK ==
    /\ now \in Nat /\ wakeAt \in Nat
    /\ granted \in Seq(Nat)
    /\ queue \in Seq(Tasks)
    /\ pump \in {"idle", "look", "grant", "sleep"}
    /\ starts \in Seq([task : Tasks, at : Nat])

\* "No 60-second interval can ever contain more than requestsPerMinute starts,
\* not even at the boundary" (rateLimiter.js:12-13): of any RequestsPerMinute + 1
\* starts in a row, the last comes strictly more than a window after the first,
\* although slots out of the window are forgotten and the clock moves between
\* looking and granting.
WindowHolds ==
    \A i, j \in 1..Len(starts) :
        j = i + RequestsPerMinute => starts[j].at > starts[i].at + WindowMs
=============================================================================
