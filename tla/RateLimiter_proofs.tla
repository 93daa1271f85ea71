------------------------ MODULE RateLimiter_proofs ------------------------
(***************************************************************************)
(* Proofs about RateLimiter: for every number of callers, every interval   *)
(* and every lag, slots are an interval apart, starts are on time, bursts   *)
(* are bounded and no caller waits for longer than the slots before it.    *)
(***************************************************************************)
EXTENDS RateLimiter, FiniteSetTheorems, TLAPS

\* Every slot handed out lies a whole interval before the next free one.
SlotsBehind ==
  /\ \A c \in Sleepers : due[c] + Interval <= slot
  /\ \A i \in Started : starts[i].slot + Interval <= slot

\* A sleeper's slot is never more than the lag overdue.
NotOverdue == \A c \in Sleepers : now <= due[c] + Lag

IInv == TypeOK /\ SlotsBehind /\ NotOverdue /\ SlotsSpaced /\ StartsOnTime

-----------------------------------------------------------------------------

\* The initial state has no slot handed out.
LEMMA InitIInv == Init => IInv
  BY LimiterAssumption
  DEF Init, IInv, TypeOK, SlotsBehind, NotOverdue, SlotsSpaced, StartsOnTime,
      Sleepers, Started, Idle

\* What Clamped and Advance are, as numbers.
LEMMA NextSlot ==
  ASSUME TypeOK
  PROVE /\ Clamped \in Nat /\ now <= Clamped /\ slot <= Clamped
        /\ Advance = Clamped + Interval
  BY LimiterAssumption DEF TypeOK, Clamped, Advance

\* What the history holds.
LEMMA StartedType ==
  ASSUME TypeOK, NEW i \in Started
  PROVE /\ starts[i] \in [slot : Nat, at : Nat]
        /\ starts[i].slot \in Nat /\ starts[i].at \in Nat
<1> DEFINE R == [slot : Nat, at : Nat]
<1>1. starts \in Seq(R)
  BY DEF TypeOK
<1>2. i \in 1 .. Len(starts)
  BY <1>1 DEF Started
<1>3. starts[i] \in R
  <2> HIDE DEF R
  <2>1. QED
    BY <1>1, <1>2
<1>4. QED
  BY <1>3

\* reserve: the slot taken is an interval behind the new next slot, which is
\* an interval after every slot taken before.
LEMMA ReserveIInv ==
  ASSUME IInv, NEW c \in Callers, Reserve(c)
  PROVE IInv'
<1> DEFINE s == Clamped
<1>1. /\ s \in 0 .. MaxTime /\ now <= s /\ slot <= s
      /\ slot' = s + Interval
      /\ due' = [due EXCEPT ![c] = s]
      /\ due[c] = Idle
      /\ now' = now /\ starts' = starts /\ dropped' = dropped
  BY NextSlot, LimiterAssumption DEF IInv, Reserve, Advance
<1> HIDE DEF s
<1>2. TypeOK'
  BY <1>1, LimiterAssumption DEF IInv, TypeOK
<1>3. /\ Sleepers' = Sleepers \cup {c}
      /\ c \notin Sleepers
      /\ \A d \in Sleepers : due'[d] = due[d]
      /\ due'[c] = s
  BY <1>1, LimiterAssumption DEF IInv, TypeOK, Sleepers, Idle
<1>4. /\ \A d \in Sleepers : due[d] \in Nat
      /\ \A i \in Started : starts[i].slot \in Nat /\ starts[i].at \in Nat
      /\ Interval \in Nat /\ Lag \in Nat /\ now \in Nat /\ slot \in Nat
  <2>1. \A d \in Sleepers : due[d] \in Nat
    BY LimiterAssumption DEF IInv, TypeOK, Sleepers
  <2>2. ASSUME NEW i \in Started
        PROVE starts[i] \in [slot : Nat, at : Nat]
    BY <2>2, StartedType DEF IInv
  <2>3. Interval \in Nat /\ Lag \in Nat /\ now \in Nat /\ slot \in Nat
    BY LimiterAssumption DEF IInv, TypeOK
  <2>4. QED
    BY <2>1, <2>2, <2>3
<1>5. SlotsBehind'
  BY <1>1, <1>3, <1>4 DEF IInv, SlotsBehind, Started
<1>6. NotOverdue'
  BY <1>1, <1>3, <1>4 DEF IInv, NotOverdue
<1>7. SlotsSpaced'
  <2>1. \A d \in Sleepers : Apart(due[d], s) /\ Apart(s, due[d])
    BY <1>1, <1>4 DEF IInv, SlotsBehind, Apart
  <2>2. \A i \in Started : Apart(s, starts[i].slot)
    BY <1>1, <1>4 DEF IInv, SlotsBehind, Apart
  <2>3. \A d, e \in Sleepers' : d # e => Apart(due'[d], due'[e])
    BY <1>3, <2>1 DEF IInv, SlotsSpaced
  <2>4. \A d \in Sleepers', i \in Started : Apart(due'[d], starts[i].slot)
    BY <1>3, <2>2 DEF IInv, SlotsSpaced
  <2>5. \A d, e \in Callers : Apart(due[d], due[e])' <=> Apart(due'[d], due'[e])
    BY DEF Apart
  <2>6. QED
    BY <1>1, <2>3, <2>4 DEF IInv, SlotsSpaced, Started, Apart
<1>8. StartsOnTime'
  BY <1>1 DEF IInv, StartsOnTime, Started
<1>9. QED
  BY <1>2, <1>5, <1>6, <1>7, <1>8 DEF IInv

\* start: the caller's slot, due and at most the lag overdue, joins the
\* started ones.
LEMMA StartIInv ==
  ASSUME IInv, NEW c \in Callers, Start(c)
  PROVE IInv'
<1> DEFINE r == [slot |-> due[c], at |-> now]
           n == Len(starts)
<1>1. /\ c \in Sleepers /\ due[c] <= now
      /\ due' = [due EXCEPT ![c] = Idle]
      /\ starts' = Append(starts, r)
      /\ now' = now /\ slot' = slot /\ dropped' = dropped
  BY DEF Start
<1>2. /\ due[c] \in Nat /\ now \in Nat /\ slot \in Nat /\ r \in [slot : Nat, at : Nat]
      /\ starts \in Seq([slot : Nat, at : Nat]) /\ n \in Nat
      /\ due \in [Callers -> (0 .. MaxTime) \cup {Idle}]
  BY <1>1, LimiterAssumption DEF IInv, TypeOK, Sleepers
<1>3. TypeOK'
  <2>1. starts' \in Seq([slot : Nat, at : Nat])
    BY <1>1, <1>2
  <2>2. QED
    BY <1>1, <1>2, <2>1 DEF IInv, TypeOK, Idle
<1>4. /\ Sleepers' = Sleepers \ {c}
      /\ \A d \in Sleepers' : due'[d] = due[d]
  BY <1>1, <1>2 DEF Sleepers, Idle
<1>5. /\ Started' = Started \cup {n + 1}
      /\ \A i \in Started : starts'[i] = starts[i] /\ i # n + 1
      /\ starts'[n + 1] = r
      /\ r.slot = due[c] /\ r.at = now
  BY <1>1, <1>2 DEF Started
<1>6. SlotsBehind'
  <2>1. \A d \in Sleepers' : due'[d] + Interval <= slot
    BY <1>4 DEF IInv, SlotsBehind
  <2>2. \A i \in Started' : starts'[i].slot + Interval <= slot
    BY <1>1, <1>5 DEF IInv, SlotsBehind
  <2>3. QED
    BY <1>1, <2>1, <2>2 DEF SlotsBehind
<1>7. NotOverdue'
  BY <1>1, <1>4 DEF IInv, NotOverdue
<1>8. SlotsSpaced'
  <2>1. \A d, e \in Sleepers' : d # e => Apart(due'[d], due'[e])
    BY <1>4 DEF IInv, SlotsSpaced
  <2>2. \A d \in Sleepers', i \in Started' : Apart(due'[d], starts'[i].slot)
    <3>1. \A d \in Sleepers' : d \in Sleepers /\ d # c /\ due'[d] = due[d]
      BY <1>4
    <3>2. \A d \in Sleepers', i \in Started :
            Apart(due'[d], starts'[i].slot)
      BY <1>5, <3>1 DEF IInv, SlotsSpaced
    <3>3. \A d \in Sleepers' : Apart(due'[d], starts'[n + 1].slot)
      BY <1>1, <1>5, <3>1 DEF IInv, SlotsSpaced
    <3>4. QED
      BY <1>5, <3>2, <3>3
  <2>3. \A i \in Started : Apart(starts[i].slot, due[c]) /\ Apart(due[c], starts[i].slot)
    BY <1>1 DEF IInv, SlotsSpaced, Apart
  <2>4. \A i, j \in Started' : i # j => Apart(starts'[i].slot, starts'[j].slot)
    BY <1>5, <2>3 DEF IInv, SlotsSpaced
  <2>5. QED
    BY <2>1, <2>2, <2>4 DEF SlotsSpaced, Apart
<1>9. StartsOnTime'
  BY <1>1, <1>5 DEF IInv, StartsOnTime, NotOverdue
<1>10. QED
  BY <1>3, <1>6, <1>7, <1>8, <1>9 DEF IInv

\* drop: a slot fewer.
LEMMA DropIInv ==
  ASSUME IInv, NEW c \in Callers, Drop(c)
  PROVE IInv'
<1>1. /\ due[c] # Idle
      /\ due' = [due EXCEPT ![c] = Idle]
      /\ dropped' = dropped \cup {due[c]}
      /\ starts' = starts /\ now' = now /\ slot' = slot
  BY DEF Drop, Sleepers
<1>2. TypeOK'
  BY <1>1 DEF IInv, TypeOK, Idle
<1>3. /\ Sleepers' \subseteq Sleepers
      /\ \A d \in Sleepers' : due'[d] = due[d]
  BY <1>1 DEF IInv, TypeOK, Sleepers, Idle
<1>4. SlotsBehind' /\ NotOverdue' /\ StartsOnTime'
  BY <1>1, <1>3 DEF IInv, SlotsBehind, NotOverdue, StartsOnTime, Started
<1>5. SlotsSpaced'
  <2>1. \A d, e \in Sleepers' : d # e => Apart(due'[d], due'[e])
    BY <1>3 DEF IInv, SlotsSpaced
  <2>2. \A d \in Sleepers', i \in Started : Apart(due'[d], starts[i].slot)
    BY <1>3 DEF IInv, SlotsSpaced
  <2>3. QED
    BY <1>1, <2>1, <2>2 DEF IInv, SlotsSpaced, Started, Apart
<1>6. QED
  BY <1>2, <1>4, <1>5 DEF IInv

\* tick: the clock waits for a sleeper whose lag is used up.
LEMMA TickIInv ==
  ASSUME IInv, Tick
  PROVE IInv'
<1>1. /\ now < MaxTime /\ now' = now + 1
      /\ \A c \in Sleepers : now < due[c] + Lag
      /\ slot' = slot /\ due' = due /\ starts' = starts /\ dropped' = dropped
  BY DEF Tick
<1>2. TypeOK'
  BY <1>1, LimiterAssumption DEF IInv, TypeOK
<1>3. \A c \in Sleepers : now + 1 <= due[c] + Lag
  BY <1>1, LimiterAssumption DEF IInv, TypeOK, Sleepers
<1>4. QED
  BY <1>1, <1>2, <1>3
  DEF IInv, SlotsBehind, NotOverdue, StartsOnTime, SlotsSpaced, Sleepers,
      Started, Apart

\* IInv is inductive and holds in every behaviour.
THEOREM LimiterInductive == Spec => []IInv
<1>1. ASSUME IInv, [Next]_vars PROVE IInv'
  <2>1. ASSUME NEW c \in Callers, Reserve(c) PROVE IInv'
    BY <1>1, <2>1, ReserveIInv
  <2>2. ASSUME NEW c \in Callers, Start(c) PROVE IInv'
    BY <1>1, <2>2, StartIInv
  <2>3. ASSUME NEW c \in Callers, Drop(c) PROVE IInv'
    BY <1>1, <2>3, DropIInv
  <2>4. ASSUME Tick PROVE IInv'
    BY <1>1, <2>4, TickIInv
  <2>5. ASSUME UNCHANGED vars PROVE IInv'
    BY <1>1, <2>5
    DEF vars, IInv, TypeOK, SlotsBehind, NotOverdue, SlotsSpaced, StartsOnTime,
        Sleepers, Started, Apart
  <2>6. QED
    BY <1>1, <2>1, <2>2, <2>3, <2>4, <2>5 DEF Next
<1>2. QED
  BY <1>1, InitIInv, PTL DEF Spec

\* The slots of callers that race for the limiter are a whole interval apart.
THEOREM SlotsAreSpaced == Spec => []SlotsSpaced
<1>1. IInv => SlotsSpaced
  BY DEF IInv
<1>2. QED
  BY <1>1, LimiterInductive, PTL

\* Every request starts at its slot or at most the lag later.
THEOREM StartsAreOnTime == Spec => []StartsOnTime
<1>1. IInv => StartsOnTime
  BY DEF IInv
<1>2. QED
  BY <1>1, LimiterInductive, PTL

\* The starts of any two requests lie an interval less the lag apart: with an
\* executor that is never late, whole intervals.
THEOREM StartsAlmostApart ==
  Spec => [](\A i, j \in Started :
               i # j => \/ starts[i].at + Interval <= starts[j].at + Lag
                        \/ starts[j].at + Interval <= starts[i].at + Lag)
<1> DEFINE P == \A i, j \in Started :
               i # j => \/ starts[i].at + Interval <= starts[j].at + Lag
                        \/ starts[j].at + Interval <= starts[i].at + Lag
<1>1. IInv => P
  <2>1. SUFFICES ASSUME IInv, NEW i \in Started, NEW j \in Started, i # j
                 PROVE \/ starts[i].at + Interval <= starts[j].at + Lag
                       \/ starts[j].at + Interval <= starts[i].at + Lag
    OBVIOUS
  <2>2. /\ starts[i].at \in Nat /\ starts[i].slot \in Nat
        /\ starts[j].at \in Nat /\ starts[j].slot \in Nat
        /\ Interval \in Nat /\ Lag \in Nat
    BY <2>1, StartedType, LimiterAssumption DEF IInv
  <2>3. /\ Apart(starts[i].slot, starts[j].slot)
        /\ starts[i].slot <= starts[i].at /\ starts[i].at <= starts[i].slot + Lag
        /\ starts[j].slot <= starts[j].at /\ starts[j].at <= starts[j].slot + Lag
    BY <2>1 DEF IInv, SlotsSpaced, StartsOnTime
  <2>4. QED
    BY <2>2, <2>3 DEF Apart
<1>2. QED
  BY <1>1, LimiterInductive, PTL

-----------------------------------------------------------------------------
(* Bursts.  Of n + 1 requests in a row every slot lies between the first     *)
(* start, less the lag, and the last.  Counted in whole intervals from there *)
(* the slots are distinct, so that n intervals fit in between.               *)

\* Multiplication by a natural number is monotone.
LEMMA TimesMonotone ==
  ASSUME NEW d \in Nat, NEW a \in Int, NEW b \in Int, a <= b
  PROVE  d * a <= d * b
<1>1. d * (b - a) >= 0
  OBVIOUS
<1> QED
  BY <1>1

\* What \div is.
LEMMA Quotient ==
  ASSUME NEW d \in Nat \ {0}, NEW x \in Nat
  PROVE  /\ x \div d \in Nat
         /\ d * (x \div d) <= x
         /\ x < d * (x \div d) + d
  OBVIOUS

\* Numbers an interval apart have different quotients.
LEMMA QuotientsApart ==
  ASSUME NEW d \in Nat \ {0}, NEW x \in Nat, NEW y \in Nat, x <= y
  PROVE  /\ x \div d <= y \div d
         /\ x + d <= y => x \div d # y \div d
<1> DEFINE p == x \div d
           q == y \div d
<1>1. /\ p \in Nat /\ d * p <= x /\ x < d * p + d
      /\ q \in Nat /\ d * q <= y /\ y < d * q + d
  BY Quotient
<1> HIDE DEF p, q
<1>2. p <= q
  <2>1. CASE q + 1 <= p
    <3>1. d * (q + 1) <= d * p
      BY <1>1, <2>1, TimesMonotone
    <3>2. d * (q + 1) = d * q + d
      BY <1>1
    <3> QED
      BY <1>1, <3>1, <3>2
  <2> QED
    BY <1>1, <2>1
<1>3. x + d <= y => p # q
  BY <1>1
<1> QED
  BY <1>2, <1>3 DEF p, q

\* Numbers an interval apart from each other, n + 1 of them, span n intervals.
LEMMA SpacedSpan ==
  ASSUME NEW d \in Nat \ {0}, NEW i \in Int, NEW j \in Int, i <= j,
         NEW w \in Nat, NEW f \in [i .. j -> 0 .. w],
         \A k, l \in i .. j : k # l => f[k] + d <= f[l] \/ f[l] + d <= f[k]
  PROVE  (j - i) * d <= w
<1> DEFINE n == w \div d
           g == [k \in i .. j |-> f[k] \div d]
<1>1. n \in Nat /\ d * n <= w
  BY Quotient
<1>t. \A k \in i .. j : f[k] \in Nat /\ f[k] <= w
  OBVIOUS
<1>2. \A k \in i .. j : f[k] \div d \in 0 .. n
  <2> SUFFICES ASSUME NEW k \in i .. j
               PROVE  f[k] \div d \in 0 .. n
    OBVIOUS
  <2>1. f[k] \in Nat /\ f[k] <= w
    BY <1>t
  <2>2. f[k] \div d \in Nat /\ f[k] \div d <= n
    BY <2>1, Quotient, QuotientsApart
  <2> QED
    BY <1>1, <2>1, <2>2
<1>3. \A k, l \in i .. j : k # l => f[k] \div d # f[l] \div d
  <2> SUFFICES ASSUME NEW k \in i .. j, NEW l \in i .. j, k # l
               PROVE  f[k] \div d # f[l] \div d
    OBVIOUS
  <2>t. f[k] \in Nat /\ f[l] \in Nat
    BY <1>t
  <2>1. CASE f[k] + d <= f[l]
    <3>1. f[k] <= f[l]
      BY <2>t, <2>1
    <3> QED
      BY <2>t, <2>1, <3>1, QuotientsApart
  <2>2. CASE f[l] + d <= f[k]
    <3>1. f[l] <= f[k]
      BY <2>t, <2>2
    <3> QED
      BY <2>t, <2>2, <3>1, QuotientsApart
  <2> QED
    BY <2>1, <2>2
<1>4. g \in Injection(i .. j, 0 .. n)
  <2>1. g \in [i .. j -> 0 .. n]
    BY <1>2
  <2>2. \A k, l \in i .. j : g[k] = g[l] => k = l
    BY <1>3
  <2> HIDE DEF g, n
  <2>3. DOMAIN g = i .. j
    BY <2>1
  <2> QED
    BY <2>1, <2>2, <2>3, Zenon DEF Injection, IsInjective
<1> HIDE DEF n, g
<1>5. Cardinality(i .. j) <= Cardinality(0 .. n)
  BY <1>1, <1>4, FS_Interval, FS_Injection
<1>6. j - i <= n
  BY <1>1, <1>5, FS_Interval
<1>7. d * (j - i) <= d * n
  BY <1>1, <1>6, TimesMonotone
<1>8. d * (j - i) = (j - i) * d
  OBVIOUS
<1> QED
  BY <1>1, <1>7, <1>8

\* Requests start one after the other, the last of them not in the future.
StartsInOrder ==
  /\ \A i \in Started : starts[i].at <= now
  /\ \A i, j \in Started : i < j => starts[i].at <= starts[j].at

\* Every step appends its start, if it makes one, to those before it.
LEMMA NextInOrder ==
  ASSUME TypeOK, StartsInOrder, [Next]_vars
  PROVE  StartsInOrder'
<1>1. /\ starts \in Seq([slot : Nat, at : Nat]) /\ now \in Nat
      /\ \A i \in Started : starts[i].at \in Nat
  BY StartedType, LimiterAssumption DEF TypeOK
<1>2. CASE /\ now' = now
           /\ \E c \in Callers :
                starts' = Append(starts, [slot |-> due[c], at |-> now])
  <2>1. PICK c \in Callers :
          starts' = Append(starts, [slot |-> due[c], at |-> now])
    BY <1>2
  <2> DEFINE n == Len(starts)
  <2>2. /\ Started' = Started \cup {n + 1}
        /\ \A i \in Started : starts'[i] = starts[i] /\ i < n + 1
        /\ starts'[n + 1].at = now
    BY <1>1, <2>1 DEF Started
  <2>3. n \in Nat /\ Started = 1 .. n
    BY <1>1 DEF Started
  <2> HIDE DEF n
  <2>4. \A i \in Started' : starts'[i].at <= now'
    <3>1. now' = now
      BY <1>2
    <3>2. \A i \in Started : starts'[i].at <= now
      BY <2>2 DEF StartsInOrder
    <3> QED
      BY <1>1, <2>2, <3>1, <3>2
  <2>5. ASSUME NEW i \in Started', NEW j \in Started', i < j
        PROVE  starts'[i].at <= starts'[j].at
    <3>1. i \in Started
      BY <2>2, <2>3, <2>5
    <3>2. CASE j \in Started
      BY <2>2, <2>5, <3>1, <3>2 DEF StartsInOrder
    <3>3. CASE j = n + 1
      BY <2>2, <3>1, <3>3 DEF StartsInOrder
    <3> QED
      BY <2>2, <3>2, <3>3
  <2> QED
    BY <2>4, <2>5 DEF StartsInOrder
<1>3. CASE starts' = starts /\ now' \in {now, now + 1}
  BY <1>1, <1>3 DEF StartsInOrder, Started
<1> QED
  BY <1>2, <1>3 DEF Next, vars, Tick, Reserve, Start, Drop

\* Any n + 1 requests in a row take n intervals less the lag of the executor:
\* neither a stall nor a pile of concurrent callers banks credit for a burst
\* (the advance of next_slot under the lock).
THEOREM BurstsAreBounded == Spec => []BurstsBounded
<1>1. Init => StartsInOrder
  BY DEF Init, StartsInOrder, Started
<1>2. IInv => TypeOK
  BY DEF IInv
<1>3. Spec => []StartsInOrder
  BY <1>1, <1>2, LimiterInductive, NextInOrder, PTL DEF Spec
<1>4. IInv /\ StartsInOrder => BurstsBounded
  <2> SUFFICES ASSUME IInv, StartsInOrder,
                      NEW i \in Started, NEW j \in Started, i < j
               PROVE  starts[i].at + (j - i) * Interval <= starts[j].at + Lag
    BY DEF BurstsBounded
  <2>1. /\ i \in Nat /\ j \in Nat /\ i .. j \subseteq Started
        /\ Interval \in Nat \ {0} /\ Lag \in Nat
    BY LimiterAssumption DEF IInv, TypeOK, Started
  <2>2. \A k \in i .. j : /\ starts[k].slot \in Nat /\ starts[k].at \in Nat
                          /\ starts[i].at <= starts[k].at
                          /\ starts[k].at <= starts[j].at
                          /\ starts[k].slot <= starts[k].at
                          /\ starts[k].at <= starts[k].slot + Lag
    <3> SUFFICES ASSUME NEW k \in i .. j
                 PROVE  /\ starts[k].slot \in Nat /\ starts[k].at \in Nat
                        /\ starts[i].at <= starts[k].at
                        /\ starts[k].at <= starts[j].at
                        /\ starts[k].slot <= starts[k].at
                        /\ starts[k].at <= starts[k].slot + Lag
      OBVIOUS
    <3>1. k \in Started /\ k \in Int /\ i <= k /\ k <= j
      BY <2>1
    <3>2. starts[k].slot \in Nat /\ starts[k].at \in Nat
      BY <3>1, StartedType DEF IInv
    <3>3. /\ k = i \/ starts[i].at <= starts[k].at
          /\ k = j \/ starts[k].at <= starts[j].at
      BY <2>1, <3>1 DEF StartsInOrder
    <3> QED
      BY <3>1, <3>2, <3>3 DEF IInv, StartsOnTime
  <2> DEFINE w == starts[j].at + Lag - starts[i].at
             f == [k \in i .. j |-> starts[k].slot + Lag - starts[i].at]
  <2>3. i \in i .. j /\ j \in i .. j
    BY <2>1
  <2>4. w \in Nat
    BY <2>1, <2>2, <2>3
  <2>5. f \in [i .. j -> 0 .. w]
    <3>1. \A k \in i .. j : starts[k].slot + Lag - starts[i].at \in 0 .. w
      BY <2>1, <2>2, <2>3
    <3> QED
      BY <3>1
  <2>6. \A k, l \in i .. j :
          k # l => f[k] + Interval <= f[l] \/ f[l] + Interval <= f[k]
    <3> SUFFICES ASSUME NEW k \in i .. j, NEW l \in i .. j, k # l
                 PROVE  f[k] + Interval <= f[l] \/ f[l] + Interval <= f[k]
      OBVIOUS
    <3>1. Apart(starts[k].slot, starts[l].slot)
      BY <2>1 DEF IInv, SlotsSpaced
    <3>2. /\ f[k] = starts[k].slot + Lag - starts[i].at
          /\ f[l] = starts[l].slot + Lag - starts[i].at
      OBVIOUS
    <3> QED
      BY <2>1, <2>2, <2>3, <3>1, <3>2 DEF Apart
  <2> HIDE DEF f
  <2>7. (j - i) * Interval <= w
    <3> HIDE DEF w
    <3>1. i \in Int /\ j \in Int /\ i <= j
      BY <2>1
    <3> QED
      BY <2>1, <2>4, <2>5, <2>6, <3>1, SpacedSpan, Zenon
  <2>8. (j - i) * Interval \in Int
    BY <2>1
  <2> QED
    BY <2>1, <2>2, <2>3, <2>7, <2>8
<1> QED
  BY <1>3, <1>4, LimiterInductive, PTL

-----------------------------------------------------------------------------
(* Waiting.  The slots ahead of the clock form an unbroken chain an interval *)
(* apart, down from the next free one: the limiter never skips an instant    *)
(* that a caller could have had.                                             *)

Chain ==
  /\ \A s \in Pending, k \in Nat :
       now < s - k * Interval => s - k * Interval \in Pending
  /\ \A k \in Nat \ {0} :
       now < slot - k * Interval => slot - k * Interval \in Pending

\* The numbers the chain is made of.
LEMMA ChainType ==
  ASSUME TypeOK
  PROVE  /\ Interval \in Nat \ {0} /\ now \in Nat /\ slot \in Nat
         /\ \A s \in Pending : s \in 0 .. MaxTime
         /\ \A k \in Nat : k * Interval \in Nat
         /\ 0 * Interval = 0 /\ 1 * Interval = Interval
         /\ \A k \in Nat \ {0} : /\ k - 1 \in Nat
                                 /\ k * Interval = (k - 1) * Interval + Interval
<1>1. Interval \in Nat \ {0} /\ now \in Nat /\ slot \in Nat
  BY LimiterAssumption DEF TypeOK
<1>2. \A s \in Pending : s \in 0 .. MaxTime
  BY DEF TypeOK, Pending, Sleepers
<1>3. \A k \in Nat \ {0} : /\ k - 1 \in Nat
                           /\ k * Interval = (k - 1) * Interval + Interval
  BY <1>1
<1> QED
  BY <1>1, <1>2, <1>3

\* reserve: the slot taken continues the chain, or is due at once.
LEMMA ReserveChain ==
  ASSUME TypeOK, Chain, NEW c \in Callers, Reserve(c)
  PROVE  Chain'
<1> DEFINE s == Clamped
<1>1. /\ s = (IF slot < now THEN now ELSE slot)
      /\ due[c] = Idle /\ due' = [due EXCEPT ![c] = s]
      /\ slot' = s + Interval /\ now' = now /\ dropped' = dropped
  BY DEF Reserve, Clamped, Advance
<1>2. due \in [Callers -> (0 .. MaxTime) \cup {Idle}] /\ s # Idle
  BY NextSlot DEF TypeOK, Idle
<1> HIDE DEF s
<1>3. Pending' = Pending \cup {s}
  <2>1. Sleepers' = Sleepers \cup {c} /\ c \notin Sleepers
    BY <1>1, <1>2 DEF Sleepers
  <2>2. due'[c] = s /\ \A d \in Sleepers : due'[d] = due[d]
    BY <1>1, <1>2, <2>1 DEF Sleepers
  <2> QED
    BY <1>1, <2>1, <2>2 DEF Pending
<1>4. ASSUME NEW k \in Nat, now < s - k * Interval
      PROVE  s - k * Interval \in Pending'
  <2>1. s = slot
    BY <1>1, <1>4, ChainType
  <2>2. CASE k = 0
    BY <1>3, <2>1, <2>2, ChainType
  <2>3. CASE k # 0
    BY <1>3, <1>4, <2>1, <2>3 DEF Chain
  <2> QED
    BY <2>2, <2>3
<1>5. ASSUME NEW t \in Pending', NEW k \in Nat, now < t - k * Interval
      PROVE  t - k * Interval \in Pending'
  BY <1>3, <1>4, <1>5 DEF Chain
<1>6. ASSUME NEW k \in Nat \ {0}, now < slot' - k * Interval
      PROVE  slot' - k * Interval \in Pending'
  <2>1. /\ k - 1 \in Nat /\ (k - 1) * Interval \in Nat
        /\ k * Interval = (k - 1) * Interval + Interval
        /\ s \in Nat /\ Interval \in Nat
    BY <1>1, ChainType
  <2>2. slot' - k * Interval = s - (k - 1) * Interval
    BY <1>1, <2>1
  <2> QED
    BY <1>4, <1>6, <2>1, <2>2
<1> QED
  BY <1>1, <1>5, <1>6 DEF Chain

\* The other steps: the clock moves on, and what leaves the chain is due.
LEMMA OtherChain ==
  ASSUME TypeOK, Chain, slot' = slot, now' \in {now, now + 1},
         \A s \in Pending : s \in Pending' \/ s <= now,
         Pending' \subseteq Pending
  PROVE  Chain'
<1>1. /\ now \in Nat /\ now <= now' /\ slot \in Nat
      /\ \A s \in Pending : s \in Nat
      /\ \A k \in Nat : k * Interval \in Nat
  <2>1. now \in Nat /\ slot \in Nat
    BY ChainType
  <2>2. now <= now'
    BY <2>1
  <2>3. \A s \in Pending : s \in Nat
    BY ChainType
  <2>4. \A k \in Nat : k * Interval \in Nat
    BY ChainType
  <2> QED
    BY <2>1, <2>2, <2>3, <2>4
<1>2. ASSUME NEW s \in Pending', NEW k \in Nat, now' < s - k * Interval
      PROVE  s - k * Interval \in Pending'
  <2>1. s \in Pending /\ s \in Nat /\ k * Interval \in Nat
    BY <1>1
  <2>2. now < s - k * Interval
    BY <1>1, <1>2, <2>1
  <2>3. s - k * Interval \in Pending
    BY <2>1, <2>2 DEF Chain
  <2> HIDE DEF Chain
  <2> QED
    BY <1>1, <2>1, <2>2, <2>3
<1>3. ASSUME NEW k \in Nat \ {0}, now' < slot' - k * Interval
      PROVE  slot' - k * Interval \in Pending'
  <2>1. slot - k * Interval \in Int /\ k * Interval \in Nat
    BY <1>1
  <2>2. now < slot - k * Interval
    BY <1>1, <1>3, <2>1
  <2>3. slot - k * Interval \in Pending
    BY <2>2 DEF Chain
  <2> QED
    BY <1>1, <2>1, <2>2, <2>3
<1> QED
  BY <1>2, <1>3 DEF Chain

LEMMA NextChain ==
  ASSUME TypeOK, Chain, [Next]_vars
  PROVE  Chain'
<1>t. due \in [Callers -> (0 .. MaxTime) \cup {Idle}]
  BY DEF TypeOK
<1>1. ASSUME NEW c \in Callers, Reserve(c) PROVE Chain'
  BY <1>1, ReserveChain
<1>2. ASSUME NEW c \in Callers, Start(c) \/ Drop(c) PROVE Chain'
  <2>1. /\ due' = [due EXCEPT ![c] = Idle] /\ c \in Sleepers
        /\ slot' = slot /\ now' = now
        /\ \/ dropped' = dropped /\ due[c] <= now
           \/ dropped' = dropped \cup {due[c]}
    BY <1>2 DEF Start, Drop
  <2>2. /\ Sleepers' = Sleepers \ {c}
        /\ \A d \in Sleepers' : due'[d] = due[d]
    BY <1>t, <2>1 DEF Sleepers
  <2>3. Pending' \subseteq Pending
    BY <2>1, <2>2 DEF Pending
  <2>4. \A s \in Pending : s \in Pending' \/ s <= now
    BY <2>1, <2>2 DEF Pending
  <2> QED
    BY <2>1, <2>3, <2>4, OtherChain
<1>3. CASE Tick \/ UNCHANGED vars
  <2>1. slot' = slot /\ due' = due /\ dropped' = dropped /\ now' \in {now, now + 1}
    BY <1>3 DEF Tick, vars
  <2>2. Pending' = Pending
    BY <2>1 DEF Pending, Sleepers
  <2> QED
    BY <2>1, <2>2, OtherChain
<1> QED
  BY <1>1, <1>2, <1>3 DEF Next

\* A caller waits one interval for each slot still ahead that somebody reserved,
\* its own included, and for nothing else (the clamp of next_slot).
THEOREM WaitsAreBounded == Spec => []WaitBounded
<1>1. Init => Chain
  <2> SUFFICES ASSUME Init PROVE Chain
    OBVIOUS
  <2>1. Pending = {} /\ now = 0 /\ slot = 0
    BY DEF Init, Pending, Sleepers, Idle
  <2>2. \A k \in Nat : ~(0 < 0 - k * Interval)
    BY LimiterAssumption
  <2> QED
    BY <2>1, <2>2 DEF Chain
<1>2. IInv => TypeOK
  BY DEF IInv
<1>3. Spec => []Chain
  BY <1>1, <1>2, LimiterInductive, NextChain, PTL DEF Spec
<1>4. TypeOK /\ Chain => WaitBounded
  <2> SUFFICES ASSUME TypeOK, Chain, NEW c \in Sleepers
               PROVE  due[c] - now <= Interval *
                        Cardinality({s \in Pending : now < s /\ s <= due[c]})
    BY DEF WaitBounded
  <2> DEFINE A == {s \in Pending : now < s /\ s <= due[c]}
             D == due[c]
  <2>1. D \in Pending /\ D \in Nat /\ now \in Nat /\ Interval \in Nat \ {0}
    <3>1. D \in Pending
      BY DEF Pending
    <3>2. D \in 0 .. MaxTime
      BY <3>1, ChainType
    <3>3. now \in Nat /\ Interval \in Nat \ {0}
      BY ChainType
    <3> HIDE DEF D
    <3> QED
      BY <3>1, <3>2, <3>3
  <2>2. IsFiniteSet(A) /\ Cardinality(A) \in Nat
    <3>1. IsFiniteSet(0 .. MaxTime)
      BY LimiterAssumption, FS_Interval
    <3>2. A \in SUBSET (0 .. MaxTime)
      BY ChainType
    <3> QED
      BY <3>1, <3>2, FS_Subset, FS_CardinalityType
  <2>3. CASE D <= now
    <3>1. Interval * Cardinality(A) \in Nat
      BY <2>1, <2>2
    <3> HIDE DEF A, D
    <3>2. D - now <= Interval * Cardinality(A)
      BY <2>1, <2>3, <3>1
    <3> QED
      BY <3>2 DEF A, D
  <2>4. CASE now < D
    <3> DEFINE x == D - now - 1
               n == x \div Interval
               g == [k \in 0 .. n |-> D - k * Interval]
    <3>1. x \in Nat /\ D = x + now + 1
      BY <2>1, <2>4
    <3> HIDE DEF x
    <3>2. n \in Nat /\ Interval * n <= x /\ x < Interval * n + Interval
      BY <2>1, <3>1, Quotient
    <3> HIDE DEF n, D
    <3>3. ASSUME NEW k \in 0 .. n
          PROVE  D - k * Interval \in A
      <4>1. Interval * k <= Interval * n
        BY <2>1, <3>2, TimesMonotone
      <4>2. Interval * k = k * Interval /\ k * Interval \in Nat /\ Interval * n \in Nat
        BY <2>1, <3>2
      <4>3. now < D - k * Interval /\ D - k * Interval <= D
        BY <2>1, <3>1, <3>2, <4>1, <4>2
      <4>4. D - k * Interval \in Pending
        BY <2>1, <4>3 DEF Chain
      <4> QED
        BY <4>3, <4>4 DEF D
    <3>4. ASSUME NEW k \in 0 .. n, NEW l \in 0 .. n,
                 D - k * Interval = D - l * Interval
          PROVE  k = l
      <4>1. k * Interval \in Nat /\ l * Interval \in Nat
        BY <2>1
      <4>2. k * Interval = l * Interval
        BY <2>1, <3>4, <4>1
      <4>3. (k - l) * Interval = k * Interval - l * Interval
        BY <2>1
      <4>4. (k - l) * Interval = 0
        BY <4>1, <4>2, <4>3
      <4> QED
        BY <2>1, <4>4
    <3>5. g \in Injection(0 .. n, A)
      <4>1. g \in [0 .. n -> A]
        BY <3>3
      <4>2. \A k, l \in 0 .. n : g[k] = g[l] => k = l
        BY <3>4
      <4> HIDE DEF g, A
      <4>3. DOMAIN g = 0 .. n
        BY <4>1
      <4> QED
        BY <4>1, <4>2, <4>3, Zenon DEF Injection, IsInjective
    <3> HIDE DEF g, A
    <3>6. Cardinality(0 .. n) <= Cardinality(A)
      BY <2>2, <3>5, FS_Injection
    <3>7. n + 1 <= Cardinality(A)
      BY <3>2, <3>6, FS_Interval
    <3>8. Interval * (n + 1) <= Interval * Cardinality(A)
      BY <2>1, <2>2, <3>2, <3>7, TimesMonotone
    <3>9. Interval * (n + 1) = Interval * n + Interval /\ Interval * n \in Nat
      BY <2>1, <3>2
    <3>10. Interval * Cardinality(A) \in Nat
      BY <2>1, <2>2
    <3>11. D - now <= Interval * Cardinality(A)
      BY <2>1, <3>1, <3>2, <3>8, <3>9, <3>10
    <3> QED
      BY <3>11 DEF A, D
  <2> QED
    BY <2>1, <2>3, <2>4
<1> QED
  BY <1>2, <1>3, <1>4, LimiterInductive, PTL

=============================================================================
