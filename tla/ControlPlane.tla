--------------------------- MODULE ControlPlane ---------------------------
(***************************************************************************)
(* One function of the matrix as the bencher's Lambda client handles it    *)
(* (bencher/src/aws/lambda.rs): ensure_function creates or updates it when *)
(* it is deployed, then the run bumps its COLD_NONCE and, on the SnapStart *)
(* path, publishes, measures and deletes versions of it.                   *)
(*                                                                         *)
(* Lambda carries an update out in two steps, accepts no other meanwhile   *)
(* and shows what it is doing in RevisionId, State and LastUpdateStatus,   *)
(* which the client reads with GetFunction.  Every snapshot of these is    *)
(* kept in log, so that a lagging read can return an old one.              *)
(*                                                                         *)
(* A function has one client at a time: deploy, then the one cell that     *)
(* measures it, whose calls are serial.                                    *)
(***************************************************************************)
EXTENDS Naturals, Sequences, FiniteSets

CONSTANTS
  Worlds,       \* the worlds considered, one of which each behaviour is in
  RoleTries,    \* ROLE_PROPAGATION_MAX_ATTEMPTS
  MaxLog,       \* bound: snapshots beyond which no request is redelivered
  MaxLate       \* bound: requests on the wire that nobody waits for

\* start: nothing is there ("absent"), an earlier deploy has left the function
\* behind ("old"), or this deploy is done and the run begins ("deployed").
\* snap: the cell is measured on published versions.
\* faults, what may go wrong: reads may be old, though never older than one seen
\* before ("lag"); a call may err, its request lost, late or repeated ("calls");
\* an update may end in LastUpdateStatus Failed ("updates").
\* requests: bound on the requests that the client sends.
PossibleWorlds ==
  [start : {"absent", "old", "deployed"}, snap : BOOLEAN,
   faults : SUBSET {"lag", "calls", "updates"}, requests : Nat]

ASSUME ControlAssumption ==
  /\ Worlds \subseteq PossibleWorlds
  /\ RoleTries \in Nat \ {0} /\ MaxLog \in Nat /\ MaxLate \in Nat

VARIABLES
  world,     \* never changes
  log,       \* the snapshots of $LATEST, the last one being the current
  versions,  \* the configurations published, by version number
  alive,     \* the versions not deleted
  role,      \* the execution role has propagated
  wire,      \* requests that may yet reach Lambda
  step,      \* where the client is
  op,        \* the update it is making
  pre,       \* the revision it read before that, 0 for None
  held,      \* the environment it read along with pre
  req,       \* requests sent; the number of the last one
  answer,    \* what the last one was answered
  tries,     \* attempts of create
  seen,      \* the newest snapshot the client has read
  got,       \* the version the last publish returned
  handed     \* history: the versions handed out to be measured

lambda == <<log, versions, alive, role>>
call == <<req, answer, tries>>
reads == <<pre, held, seen>>
vars == <<world, lambda, wire, step, op, call, reads, got, handed>>

Old == [code |-> "old", env |-> "old", nonce |-> 0]
New == [code |-> "new", env |-> "new", nonce |-> 0]

Last == log[Len(log)]
Busy == ~Last.active \/ Last.upd = "InProgress"

Init ==
  /\ world \in Worlds
  /\ log = IF world.start = "absent" THEN << >>
           ELSE <<[rev |-> 1, active |-> TRUE, upd |-> "Successful", by |-> 0,
                   cfg |-> IF world.start = "old" THEN Old ELSE New]>>
  /\ versions = << >> /\ alive = {}
  /\ role \in (IF world.start = "absent" THEN BOOLEAN ELSE {TRUE})
  /\ wire = {} /\ op = "none"
  /\ step = IF world.start = "deployed" THEN "ready" ELSE "probe"
  /\ pre = 0 /\ held = "none" /\ req = 0 /\ answer = "none" /\ tries = 0
  /\ seen = Len(log) /\ got = 0 /\ handed = << >>

-----------------------------------------------------------------------------
(* Lambda.                                                                 *)

\* What request r makes of configuration c.  UpdateFunctionConfiguration
\* replaces the whole environment.
Effect(r, c) ==
  CASE r.op = "create" -> New
    [] r.op = "code"   -> [c EXCEPT !.code = "new"]
    [] r.op = "config" -> [c EXCEPT !.env = "new", !.nonce = 0]
    [] r.op = "bump"   -> [c EXCEPT !.env = r.env, !.nonce = r.nonce]

\* Lambda takes up r, which leaves the wire unless it is delivered once more,
\* and the answer a reaches the client if it still waits for it.
Deliver(r, a) ==
  \/ /\ wire' = wire \ {r}
     /\ answer' = IF step = "await" /\ r.id = req THEN a ELSE answer
  \/ /\ "calls" \in world.faults /\ Len(log) < MaxLog
     /\ step = "await" /\ r.id = req /\ answer = "none"
     /\ UNCHANGED <<wire, answer>>

Unmoved == UNCHANGED <<step, op, req, tries, reads, handed>>

\* create_function has publish(true).
Create(r) ==
  /\ r.op = "create" /\ log = << >> /\ role
  /\ \E upd \in {"none", "InProgress"} :
       log' = <<[rev |-> 1, active |-> FALSE, upd |-> upd, cfg |-> New, by |-> r.id]>>
  /\ versions' = <<New>> /\ alive' = {1}
  /\ Deliver(r, "ok")
  /\ UNCHANGED <<role, got>> /\ Unmoved

Update(r) ==
  /\ r.op \in {"code", "config", "bump"} /\ log # << >> /\ ~Busy
  /\ log' = Append(log, [Last EXCEPT !.rev = @ + 1, !.upd = "InProgress",
                                     !.cfg = Effect(r, @), !.by = r.id])
  /\ Deliver(r, "ok")
  /\ UNCHANGED <<versions, alive, role, got>> /\ Unmoved

\* PublishVersion returns the last version if nothing has changed since.
Publish(r) ==
  LET n == Len(versions) IN
  /\ r.op = "publish" /\ ~Busy
  /\ IF n \in alive /\ versions[n] = Last.cfg
     THEN UNCHANGED <<versions, alive>>
     ELSE /\ versions' = Append(versions, Last.cfg)
          /\ alive' = alive \cup {n + 1}
  /\ got' = IF step = "await" /\ r.id = req THEN Len(versions') ELSE got
  /\ Deliver(r, "ok")
  /\ UNCHANGED <<log, role>> /\ Unmoved

Reject(r) ==
  /\ IF r.op = "create" THEN log # << >> \/ ~role ELSE Busy
  /\ Deliver(r, IF r.op = "create" /\ log = << >> THEN "role" ELSE "refused")
  /\ UNCHANGED <<lambda, got>> /\ Unmoved

\* An update settles, with or without a revision of its own for that.
Settle ==
  /\ log # << >> /\ Busy
  /\ \E upd \in {"Successful"}
              \cup (IF Last.upd = "none" THEN {"none"} ELSE {})
              \cup (IF "updates" \in world.faults THEN {"Failed"} ELSE {}),
        d \in {0, 1} :
       log' = Append(log, [Last EXCEPT !.rev = @ + d, !.active = TRUE, !.upd = upd])
  /\ UNCHANGED <<versions, alive, role, wire, answer, got>> /\ Unmoved

RolePropagates ==
  /\ ~role /\ role' = TRUE
  /\ UNCHANGED <<log, versions, alive, wire, answer, got>> /\ Unmoved

-----------------------------------------------------------------------------
(* The client.                                                             *)

\* The snapshots a read may return; 0 is a function not found.
Visible == IF "lag" \in world.faults THEN seen .. Len(log) ELSE {Len(log)}

\* An error fails the deploy; in a run the retry loops bump anew.
Fail == step' = IF op \in {"bump", "publish"} THEN "ready" ELSE "failed"

\* ensure_function asks whether the function is there.
Probe ==
  /\ step = "probe"
  /\ \E i \in Visible :
       /\ seen' = i
       /\ IF i = 0 THEN op' = "create" /\ step' = "send"
                   ELSE op' = "code" /\ step' = "read"
  /\ pre' = 0 /\ held' = "none" /\ tries' = 1
  /\ UNCHANGED <<lambda, wire, req, answer, got, handed>>

\* What a read of snapshot i leaves in pre.
NothingRead(i) == 0  \* faulty
RevisionRead(i) == log[i].rev

\* current_revision, or the GetFunction of bump_cold_nonce.
Read ==
  /\ step = "read"
  /\ \E i \in Visible :
       /\ seen' = i
       /\ IF i = 0 THEN Fail /\ UNCHANGED <<pre, held>>
          ELSE /\ pre' = RevisionRead(i) /\ held' = log[i].cfg.env
               /\ step' = "send"
  /\ UNCHANGED <<lambda, wire, op, call, got, handed>>

\* The environment that goes with an update.
EnvRebuilt == "placeholder"  \* faulty
EnvSent == held

NonceReused == 1  \* faulty
NonceSent == req + 1

Send ==
  /\ step \in {"send", "publish"} /\ req < world.requests
  /\ req' = req + 1 /\ answer' = "none"
  /\ wire' = wire \cup {[id |-> req', op |-> op, env |-> EnvSent, nonce |-> NonceSent]}
  /\ step' = "await"
  /\ UNCHANGED <<lambda, op, tries, reads, got, handed>>

\* The call returns; create is repeated while the role propagates.
Answered ==
  /\ step = "await" /\ answer # "none"
  /\ CASE answer = "ok" ->
            /\ step' = IF op = "publish" THEN "activate" ELSE "settle"
            /\ UNCHANGED tries
       [] answer = "role" /\ tries < RoleTries ->
            step' = "send" /\ tries' = tries + 1
       [] OTHER -> Fail /\ UNCHANGED tries
  /\ UNCHANGED <<lambda, wire, op, req, answer, reads, got, handed>>

\* The call errs, whatever becomes of its request.
CallErrs ==
  /\ step = "await" /\ "calls" \in world.faults
  /\ Fail
  /\ \/ Cardinality(wire) <= MaxLate /\ UNCHANGED wire
     \/ wire' = {r \in wire : r.id # req}
  /\ UNCHANGED <<lambda, op, call, reads, got, handed>>

SettledOnlyIfSaid(s) == s.upd = "Successful"  \* faulty
Settled(s) == s.upd = "Successful" \/ (pre = 0 /\ s.upd = "none")

RevisionIgnored(s) == TRUE  \* faulty
RevisionAdvanced(s) == pre = 0 \/ s.rev # pre

\* What follows an update that wait_ready has seen land.
Landed ==
  CASE op = "code"   -> op' = "config" /\ step' = "read"
    [] op = "bump" /\ world.snap -> op' = "publish" /\ step' = "publish"
    [] op = "bump" /\ ~world.snap -> step' = "measure" /\ UNCHANGED op
    [] OTHER -> step' = "ready" /\ UNCHANGED op

\* One poll of wait_ready.
WaitReady ==
  /\ step = "settle"
  /\ \E i \in Visible :
       /\ seen' = i
       /\ CASE i = 0 -> Fail /\ UNCHANGED op
            [] i # 0 /\ log[i].upd = "Failed" -> Fail /\ UNCHANGED op
            [] i # 0 /\ log[i].active /\ Settled(log[i]) /\ RevisionAdvanced(log[i]) ->
                 Landed
            [] OTHER -> UNCHANGED <<step, op>>
  /\ UNCHANGED <<lambda, wire, call, pre, held, got, handed>>

\* POLL_MAX_ATTEMPTS are used up.  Unless calls fail, Lambda is faster: polling
\* would not have helped any more.
WaitTimesOut ==
  /\ step = "settle"
  /\ \/ "calls" \in world.faults
     \/ wire = {} /\ ~Busy /\ seen = Len(log)
        /\ ~(Settled(Last) /\ RevisionAdvanced(Last))
  /\ Fail
  /\ UNCHANGED <<lambda, wire, op, call, reads, got, handed>>

\* wait_version_active: a version is immutable and has no revision to wait for.
VersionActive ==
  /\ step = "activate"
  /\ \/ step' = "measure" /\ handed' = Append(handed, got)
     \/ "calls" \in world.faults /\ Fail /\ UNCHANGED handed
  /\ UNCHANGED <<lambda, wire, op, call, reads, got>>

\* The invokes are over and the version, if any, is deleted, best effort.
EndCycle ==
  /\ step = "measure" /\ step' = "ready"
  /\ \/ op = "publish" /\ alive' = alive \ {got}
     \/ (op = "bump" \/ "calls" \in world.faults) /\ UNCHANGED alive
  /\ UNCHANGED <<log, versions, role, wire, op, call, reads, got, handed>>

\* The next cold force.  Deploy and run are one process (cmd_run), seconds apart:
\* the first bump may read what was true before the deploy.
Bump ==
  /\ step = "ready" /\ step' = "read" /\ op' = "bump"
  /\ UNCHANGED <<lambda, wire, call, reads, got, handed>>

\* The operator deploys once more.
Redeploy ==
  /\ step = "failed" /\ step' = "probe"
  /\ UNCHANGED <<lambda, wire, op, call, reads, got, handed>>

-----------------------------------------------------------------------------

Client ==
  \/ Probe \/ Read \/ Send \/ Answered \/ CallErrs \/ WaitReady \/ WaitTimesOut
  \/ VersionActive \/ EndCycle \/ Bump \/ Redeploy

Lambda ==
  \/ \E r \in wire : Create(r) \/ Update(r) \/ Publish(r) \/ Reject(r)
  \/ Settle \/ RolePropagates

Next == (Client \/ Lambda) /\ UNCHANGED world

Spec == Init /\ [][Next]_vars

-----------------------------------------------------------------------------
(* Properties.                                                             *)

InRun == op \in {"bump", "publish"} \/ step = "ready"

WaitReturns ==
  step' \in {"read", "publish", "measure"} \/ (op # "bump" /\ step' = "ready")

\* lambda.rs on force_cold: it "waits until *this specific update* has landed".
\* When wait_ready returns, the request it waited for has settled successfully.
ReadyMeansLanded ==
  [][step = "settle" /\ WaitReturns =>
       \E i \in DOMAIN log :
         log[i].by = req /\ log[i].active /\ log[i].upd \in {"none", "Successful"}]_vars

\* As long as calls work, a client that waits for each of its updates is never
\* refused the next one: nothing of its own is still in progress, however old the
\* reads.
NeverRefused == "calls" \notin world.faults => answer # "refused"

\* No bump, however often it is retried or late, takes back what was deployed:
\* the code, and the environment that the run could not rebuild.
DeployedConfigKept ==
  InRun => Last.cfg.code = "new" /\ Last.cfg.env = "new"

\* No version is handed out twice: each is measured on a first, restoring invoke.
FreshVersions ==
  \A i, j \in DOMAIN handed : handed[i] = handed[j] => i = j

\* A deploy whose calls work fails only for an update that Lambda fails or a
\* role that takes too long; it never waits for a status that does not come.
DeployFailsForAReason ==
  step = "failed" /\ "calls" \notin world.faults =>
    \/ answer = "role" /\ tries = RoleTries
    \/ Last.upd = "Failed"

=============================================================================
