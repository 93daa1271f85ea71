----------------------------- MODULE ColdSeries -----------------------------
(***************************************************************************)
(* How a probe samples one function (bencher/src/probe/sample.rs under     *)
(* retry_transient in probe.rs): cold_samples samples, each one forced     *)
(* cold invoke and warm_per_sample warm ones after it.  The force may land *)
(* late, the sandbox may be retired at any time, and any call may fail on  *)
(* the client that does not retry; then the whole series is taken again.   *)
(*                                                                         *)
(* A sandbox is "measured" if the present sample's cold invoke created it, *)
(* else "other".                                                           *)
(***************************************************************************)
EXTENDS Naturals, Sequences

CONSTANTS
  ColdSamples,           \* cold_samples
  WarmPerSample,         \* warm_per_sample
  MaxColdForceAttempts,  \* MAX_COLD_FORCE_ATTEMPTS
  MaxUnitAttempts        \* MAX_UNIT_ATTEMPTS

ASSUME SeriesAssumption ==
  /\ ColdSamples \in Nat \ {0} /\ WarmPerSample \in Nat \ {0}
  /\ MaxColdForceAttempts \in Nat \ {0} /\ MaxUnitAttempts \in Nat \ {0}

VARIABLES
  at,         \* the call the sampling is at, "idle" before and after it
  attempt,    \* attempt of retry_transient
  force,      \* attempt of the present sample's force loop
  taken,      \* samples of this attempt
  sample,     \* what the present sample has seen so far
  connected,  \* the client's connection is known to be open
  sandbox,    \* the warm sandbox an invoke would reach, "none" if there is none
  result      \* "none", "sampled" or "failed"

series == <<at, attempt, force, taken, sample, connected, sandbox, result>>

Blank == [attempt |-> 0, init |-> FALSE, connected |-> FALSE, warm |-> <<>>]

SeriesInit ==
  /\ at = "idle" /\ attempt = 1 /\ force = 1 /\ taken = <<>> /\ sample = Blank
  /\ connected = FALSE /\ sandbox = "none" /\ result = "none"

\* sample_cold_series is called for a function that was just created.
Begin ==
  /\ at = "idle"
  /\ at' = "force" /\ attempt' = 1 /\ force' = 1 /\ taken' = <<>> /\ sample' = Blank
  /\ sandbox' = "none" /\ result' = "none"
  /\ UNCHANGED connected

\* The caller has taken the result.
Clear ==
  /\ at' = "idle" /\ attempt' = 1 /\ force' = 1 /\ taken' = <<>> /\ sample' = Blank
  /\ sandbox' = "none" /\ result' = "none"
  /\ UNCHANGED connected

\* What a retried unit starts from.
Discarded == <<>>

\* Faulty: an attempt that failed is not counted.
SameAttempt == attempt

NextAttempt == attempt + 1

UnitFails ==
  /\ taken' = Discarded /\ sample' = Blank /\ force' = 1
  /\ IF attempt < MaxUnitAttempts
     THEN at' = "force" /\ attempt' = NextAttempt /\ UNCHANGED result
     ELSE at' = "idle" /\ result' = "failed" /\ UNCHANGED attempt

\* What follows a force that was confirmed.
AfterForce == "prewarm"

Aged == IF sandbox = "none" THEN "none" ELSE "other"

\* force_cold_by_name: seconds pass, in which the open connection may be evicted.
ForceCold ==
  /\ at = "force"
  /\ connected' \in {connected, FALSE}
  /\ sandbox' = Aged
  /\ \/ at' = AfterForce /\ UNCHANGED <<attempt, force, taken, sample, result>>
     \/ UnitFails

\* prewarm_connection: only the not-found answer counts.
Prewarm ==
  /\ at = "prewarm"
  /\ \/ /\ at' = "cold" /\ connected' = TRUE
        /\ UNCHANGED <<attempt, force, taken, sample, result>>
     \/ UnitFails /\ connected' = FALSE
  /\ UNCHANGED sandbox

\* An invoke creates a sandbox unless it reaches a warm one.
Reached(created) == IF sandbox = "none" THEN created ELSE sandbox

\* The invoke errs, before or after it ran; or its status, envelope or REPORT is bad.
InvokeFails(created) ==
  /\ sandbox' \in {sandbox, Reached(created)} /\ UnitFails
  /\ connected' \in {connected, FALSE}

\* Faulty: whatever the force delivers is taken for the cold sample.
ForceTrusted == TRUE

\* init_ms is in the REPORT.
LandedCold == sandbox = "none"

ColdInvoke ==
  /\ at = "cold" /\ LandedCold
  /\ sample' = [attempt |-> attempt, init |-> sandbox = "none", connected |-> connected, warm |-> <<>>]
  /\ sandbox' = Reached("measured") /\ at' = "warm"
  /\ UNCHANGED <<attempt, force, taken, connected, result>>

ForcesLeft == force < MaxColdForceAttempts

\* The invoke landed warm: force again, or give the unit's attempt up.
ForceAgain ==
  /\ at = "cold" /\ ~LandedCold
  /\ IF ForcesLeft
     THEN at' = "force" /\ force' = force + 1 /\ UNCHANGED <<attempt, taken, sample, result>>
     ELSE UnitFails
  /\ UNCHANGED <<connected, sandbox>>

ColdFails == at = "cold" /\ InvokeFails("measured")

\* Neither marker is in the REPORT.
LandedWarm == sandbox # "none"

WarmInvoke ==
  /\ at = "warm" /\ LandedWarm
  /\ LET warmed == [sample EXCEPT !.warm = Append(@, Reached("other"))]
         samples == Append(taken, warmed)
     IN IF Len(warmed.warm) < WarmPerSample
        THEN sample' = warmed /\ UNCHANGED <<at, force, taken, result>>
        ELSE /\ taken' = samples /\ sample' = Blank /\ force' = 1
             /\ IF Len(samples) < ColdSamples
                THEN at' = "force" /\ UNCHANGED result
                ELSE at' = "idle" /\ result' = "sampled"
  /\ sandbox' = Reached("other")
  /\ UNCHANGED <<attempt, connected>>

\* A warm invoke came back cold: the sandbox was retired in the middle of the sample.
WarmRecycled ==
  /\ at = "warm" /\ ~LandedWarm
  /\ sandbox' = "other" /\ UnitFails
  /\ UNCHANGED connected

WarmFails == at = "warm" /\ InvokeFails("other")

\* The sandbox is gone: the routers have at last applied a force, or AWS retired it.
Retire ==
  /\ at # "idle" /\ sandbox # "none" /\ sandbox' = "none"
  /\ UNCHANGED <<at, attempt, force, taken, sample, connected, result>>

Sampling ==
  \/ ForceCold \/ Prewarm
  \/ ColdInvoke \/ ForceAgain \/ ColdFails
  \/ WarmInvoke \/ WarmRecycled \/ WarmFails

-----------------------------------------------------------------------------
(* Properties.                                                             *)

Sampled == result = "sampled"

\* However late a force lands and whenever a sandbox is retired: every sample returned
\* timed a start of its own, and all of its warm invokes ran on the sandbox of that
\* start (take_sample's checks on init_ms and is_cold).
OwnColdStart ==
  Sampled => \A i \in DOMAIN taken :
    /\ taken[i].init
    /\ taken[i].warm = [j \in 1 .. WarmPerSample |-> "measured"]

\* A series is returned whole and of one attempt: a retried unit keeps nothing of the
\* attempts that failed (retry_transient's buffer-then-commit).
OneAttempt ==
  Sampled => Len(taken) = ColdSamples /\ \A i \in DOMAIN taken : taken[i].attempt = attempt

\* No timed cold invoke pays for opening a connection: each one follows a prewarm that
\* no force, which takes seconds, came after (take_sample's doc on the order).
NoHandshakeTimed == Sampled => \A i \in DOMAIN taken : taken[i].connected

\* What a probe publishes of a function: its samples measure what they say, they are all
\* there, and they are of one attempt.
SamplesSound == OwnColdStart /\ OneAttempt /\ NoHandshakeTimed
=============================================================================
