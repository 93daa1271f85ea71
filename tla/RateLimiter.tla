--------------------------- MODULE RateLimiter ---------------------------
(***************************************************************************)
(* RateLimiter::acquire (bencher/src/aws/rate_limiter.rs), the issue-rate  *)
(* limiter that all control-plane calls of a run share.  A caller reserves *)
(* a slot under the mutex, sleeps outside of it until the slot is due and  *)
(* then starts its request; it may be dropped while it sleeps.             *)
(*                                                                         *)
(* The clock ticks in units of which Interval make one limiter interval.   *)
(* sleep_until promises only not to wake before the slot: Lag bounds how   *)
(* much later the runtime gets to a caller whose slot is due, and is the   *)
(* environment's.                                                          *)
(***************************************************************************)
EXTENDS Integers, Sequences, FiniteSets

CONSTANTS
  Callers,     \* tasks that share the limiter
  Interval,    \* RateLimiter::interval
  Lag,         \* ticks a due caller may still wait for the executor
  MaxTime,     \* bound: where the model's clock stops
  MaxDropped   \* bound: callers dropped while they sleep

ASSUME LimiterAssumption ==
  /\ Interval \in Nat \ {0} /\ Lag \in Nat
  /\ MaxTime \in Nat /\ MaxDropped \in Nat

VARIABLES
  now,      \* the clock
  slot,     \* next_slot: the earliest instant the next request may start
  due,      \* the slot a sleeping caller has reserved, Idle for the others
  starts,   \* history: the requests started, each with its slot
  dropped   \* history: slots of the callers dropped in their sleep

vars == <<now, slot, due, starts, dropped>>

Idle == -1
Sleepers == {c \in Callers : due[c] # Idle}

Init ==
  /\ now = 0 /\ slot = 0
  /\ due = [c \in Callers |-> Idle]
  /\ starts = << >> /\ dropped = {}

Unclamped == slot  \* faulty
Clamped == IF slot < now THEN now ELSE slot

AdvanceOldSlot == slot + Interval  \* faulty
AdvanceTwice == Clamped + 2 * Interval  \* faulty
Advance == Clamped + Interval

\* The body of the lock: reserve the next free slot and advance it.
Reserve(c) ==
  /\ due[c] = Idle
  /\ Clamped <= MaxTime
  /\ due' = [due EXCEPT ![c] = Clamped]
  /\ slot' = Advance
  /\ UNCHANGED <<now, starts, dropped>>

\* The sleep is over and acquire returns.
Start(c) ==
  /\ c \in Sleepers /\ due[c] <= now
  /\ starts' = Append(starts, [slot |-> due[c], at |-> now])
  /\ due' = [due EXCEPT ![c] = Idle]
  /\ UNCHANGED <<now, slot, dropped>>

\* The caller's future is dropped; nobody takes the slot back.
Drop(c) ==
  /\ c \in Sleepers
  /\ Cardinality(dropped) < MaxDropped
  /\ dropped' = dropped \cup {due[c]}
  /\ due' = [due EXCEPT ![c] = Idle]
  /\ UNCHANGED <<now, slot, starts>>

Tick ==
  /\ now < MaxTime
  /\ \A c \in Sleepers : now < due[c] + Lag
  /\ now' = now + 1
  /\ UNCHANGED <<slot, due, starts, dropped>>

Next == Tick \/ \E c \in Callers : Reserve(c) \/ Start(c) \/ Drop(c)

Spec == Init /\ [][Next]_vars

-----------------------------------------------------------------------------
(* Properties.                                                             *)

Pending == {due[c] : c \in Sleepers} \cup dropped
Started == DOMAIN starts

TypeOK ==
  /\ now \in 0 .. MaxTime
  /\ slot \in 0 .. MaxTime + Interval
  /\ due \in [Callers -> (0 .. MaxTime) \cup {Idle}]
  /\ starts \in Seq([slot : Nat, at : Nat])
  /\ dropped \subseteq 0 .. MaxTime

Apart(s, t) == s + Interval <= t \/ t + Interval <= s

\* Callers that race for the lock get slots a whole interval apart, from each
\* other and from every slot already used: "concurrent callers get distinct,
\* spaced slots".
SlotsSpaced ==
  /\ \A c, d \in Sleepers : c # d => Apart(due[c], due[d])
  /\ \A c \in Sleepers, i \in Started : Apart(due[c], starts[i].slot)
  /\ \A i, j \in Started : i # j => Apart(starts[i].slot, starts[j].slot)

\* No request starts before its slot nor more than Lag after it.
StartsOnTime ==
  \A i \in Started : /\ starts[i].slot <= starts[i].at
                     /\ starts[i].at <= starts[i].slot + Lag

\* Any n + 1 requests in a row take n intervals less the lag of the executor:
\* neither a stall nor a pile of concurrent callers banks credit for a burst.
BurstsBounded ==
  \A i, j \in Started :
    i < j => starts[i].at + (j - i) * Interval <= starts[j].at + Lag

\* A caller waits one interval for each slot still ahead that somebody reserved,
\* its own included, and for nothing else.
WaitBounded ==
  \A c \in Sleepers :
    due[c] - now <= Interval * Cardinality({s \in Pending : now < s /\ s <= due[c]})

=============================================================================
