------------------------ MODULE ControlPlane_proofs ------------------------
(***************************************************************************)
(* Proofs about ControlPlane, for any number of requests and snapshots:    *)
(* the code deployed stays, and its environment unless old reads meet      *)
(* other faults of a redeploy; no version is measured twice; and where one *)
(* kind of fault is met at a time, a client that waits for its updates is  *)
(* never refused, never fails without a reason, and goes on only when its  *)
(* own update has landed.                                                  *)
(***************************************************************************)
EXTENDS ControlPlane, SequenceTheorems, TLAPS

DeployOps == {"create", "code", "config"}
RunOps == {"bump", "publish"}
Updates == {"code", "config", "bump"}

Configs == [code : {"old", "new"}, env : {"old", "new"}, nonce : Nat]
Snapshots == [rev : Nat \ {0}, active : BOOLEAN,
              upd : {"none", "InProgress", "Successful", "Failed"}, by : Nat, cfg : Configs]
Requests == [id : Nat, op : DeployOps \cup RunOps, env : {"none", "old", "new"}, nonce : Nat]

TypeOK ==
  /\ world \in Worlds
  /\ log \in Seq(Snapshots) /\ versions \in Seq(Configs) /\ alive \subseteq DOMAIN versions
  /\ role \in BOOLEAN /\ wire \subseteq Requests
  /\ step \in {"probe", "read", "send", "await", "settle", "publish", "activate",
               "measure", "ready", "failed"}
  /\ op \in {"none"} \cup DeployOps \cup RunOps
  /\ pre \in Nat /\ held \in {"none", "old", "new"} /\ req \in Nat /\ tries \in Nat
  /\ answer \in {"none", "ok", "role", "refused"}
  /\ seen \in 0 .. Len(log) /\ got \in Nat /\ handed \in Seq(Nat)

\* Where the client is says what it is about.
Control ==
  /\ step \in {"probe", "failed"} => op \in {"none"} \cup DeployOps
  /\ step = "read" => op \in Updates
  /\ step \in {"send", "settle"} => op \in {"create"} \cup Updates
  /\ step = "send" /\ op # "create" => held # "none"
  /\ step = "await" => op # "none" /\ (answer = "role" => op = "create")
  /\ step \in {"publish", "activate"} => op = "publish"
  /\ step = "measure" => op \in RunOps
  /\ step = "ready" => op # "code"

\* No bump can read an environment from before the deploy: there was none, or it is
\* the deployed one, or reads are current, or old reads are all that goes wrong.
EnvKnown(w) ==
  w.start = "old" /\ "lag" \in w.faults =>
    "calls" \notin w.faults /\ "updates" \notin w.faults

\* Lambda has carried out the request the client waits for, and said so.
Taken == step = "settle" \/ (step = "await" /\ answer = "ok")

OnTheWire ==
  /\ \A r \in wire :
       /\ r.id \in 1 .. req
       /\ r.op = "bump" => r.nonce = r.id /\ r.env # "none"
                         /\ (EnvKnown(world) => r.env = "new")
       /\ r.op # "create" => log # << >>
       /\ step = "await" /\ r.id = req => r.op = op /\ answer = "none"
  /\ \A r, q \in wire : r.id = q.id => r = q

\* A snapshot that says how its update ended is of an active function, and only a
\* world of failing updates has one that failed.
LogSound ==
  \A i \in DOMAIN log :
    /\ log[i].upd \in {"Successful", "Failed"} => log[i].active
    /\ log[i].upd = "Failed" => "updates" \in world.faults

\* How far the deploy has got, and that nothing takes its code back.
ConfigKept ==
  /\ op \in Updates \cup RunOps \/ step = "ready" \/ handed # << >> => log # << >>
  /\ op = "create" /\ Taken => log # << >> /\ Last.cfg.code = "new"
  /\ op = "code" /\ Taken => Last.cfg.code = "new"
  /\ op = "config" => Last.cfg.code = "new"
  /\ InRun => seen # 0 /\ Last.cfg.code = "new"

\* Nor its environment: no snapshot that the run may still read has another.
EnvKept ==
  /\ op \in {"create", "config"} /\ Taken => Last.cfg.env = "new"
  /\ InRun => \A i \in seen .. Len(log) : log[i].cfg.env = "new"
  /\ op \in RunOps /\ step = "send" => held = "new"
  /\ world.start # "old" => \A i \in DOMAIN log : log[i].cfg.env = "new"

\* As long as calls work there is one request at a time; a run that follows a finished
\* deploy makes no deploy's requests.
Serial ==
  "calls" \notin world.faults =>
    \A r \in wire : step = "await" /\ answer = "none" /\ r.id = req
RunOnly ==
  world.start = "deployed" =>
    /\ step \notin {"probe", "failed"} /\ op \in {"none"} \cup RunOps
    /\ \A r \in wire : r.op \in RunOps

\* A nonce no request on the wire can bring back, and one that no version handed out has.
Spent(n) == n \in 0 .. req /\ \A r \in wire : r.op = "bump" => r.nonce # n
Unused(n) == Spent(n) /\ \A i \in DOMAIN handed : versions[handed[i]].nonce # n

\* The bump of this cycle is in the configuration, and nothing of it is handed out yet.
Bumped ==
  \/ op = "bump" /\ Taken
  \/ op = "publish" /\ step \in {"publish", "await", "activate"}

Undisturbed(w) == "calls" \in w.faults => w.start = "deployed"

FreshNonces ==
  /\ \A i \in DOMAIN handed :
       handed[i] \in DOMAIN versions /\ Spent(versions[handed[i]].nonce)
  /\ Bumped => Unused(Last.cfg.nonce)
  /\ op = "publish" /\ (Taken \/ step = "activate") =>
       got \in DOMAIN versions /\ Unused(versions[got].nonce)
  /\ FreshVersions

\* Calls work, and reads that are old meet neither updates that fail nor a function
\* that has only just come to be.
Gentle(w) ==
  /\ "calls" \notin w.faults
  /\ "lag" \in w.faults => "updates" \notin w.faults /\ w.start # "absent"

\* The client knows where Lambda is, except while an update of its own is under way;
\* and then every snapshot it may read is from before it, is busy, or is the last.
Calm ==
  /\ answer # "refused"
  /\ (~Taken \/ op = "publish") => (log # << >> => ~Busy) /\ seen = Len(log)
  /\ op = "create" =>
       /\ pre = 0 /\ "lag" \notin world.faults /\ tries <= RoleTries
       /\ step \in {"send", "await"} /\ ~Taken => log = << >>
       /\ Taken => Last.by = req
  /\ op \in Updates /\ step \in {"send", "await"} /\ ~Taken => pre = Last.rev
  /\ op \in Updates /\ Taken =>
       /\ pre # 0 /\ seen # 0 /\ Last.by = req /\ Last.rev > pre /\ Last.upd # "none"
       /\ \A i \in seen .. Len(log) - 1 :
            log[i].rev = pre \/ ~log[i].active \/ log[i].upd = "InProgress"
  /\ DeployFailsForAReason

StartKnown == world.start # "absent" => log # << >>

\* The request waited for is in the log, as the last snapshot or as one that settled.
Lands ==
  op # "publish" /\ Taken =>
    \E i \in DOMAIN log :
      /\ log[i].by = req
      /\ i = Len(log) \/ (log[i].active /\ log[i].upd # "InProgress")

IInv ==
  /\ TypeOK /\ Control /\ OnTheWire /\ LogSound /\ ConfigKept /\ Serial /\ RunOnly
  /\ StartKnown /\ Lands
  /\ EnvKnown(world) => EnvKept
  /\ Undisturbed(world) => FreshNonces
  /\ Gentle(world) => Calm

-----------------------------------------------------------------------------
(* What the steps share.                                                   *)

LEMMA LastKnown ==
  ASSUME TypeOK, log # << >>
  PROVE  Len(log) \in Nat \ {0} /\ Len(log) \in DOMAIN log /\ Last = log[Len(log)]
         /\ Last \in Snapshots
<1>1. Len(log) \in Nat \ {0} /\ Len(log) \in DOMAIN log
  BY EmptySeq DEF TypeOK
<1> QED
  BY <1>1 DEF Last, TypeOK

LEMMA VisibleFacts ==
  ASSUME TypeOK, NEW i \in Visible
  PROVE  /\ i \in 0 .. Len(log) /\ seen <= i /\ i \in Nat /\ Len(log) \in Nat
         /\ i # 0 => i \in DOMAIN log /\ log[i] \in Snapshots /\ log # << >>
         /\ "lag" \notin world.faults => i = Len(log)
<1>1. seen \in 0 .. Len(log) /\ Len(log) \in Nat /\ log \in Seq(Snapshots)
  BY DEF TypeOK
<1>2. i \in 0 .. Len(log) /\ seen <= i /\ ("lag" \notin world.faults => i = Len(log))
  BY <1>1 DEF Visible
<1>3. i # 0 => i \in DOMAIN log /\ log # << >>
  BY <1>1, <1>2
<1> QED
  BY <1>1, <1>2, <1>3, ElementOfSeq

\* What is true of the log, the wire and the versions stays true while the client does
\* something that leaves them alone.
Untouched == UNCHANGED <<world, log, versions, wire, req>>

LEMMA LogUntouched ==
  ASSUME IInv, Untouched
  PROVE  LogSound' /\ StartKnown' /\ Last' = Last /\ Busy' = Busy
  BY DEF Untouched, IInv, LogSound, StartKnown, Last, Busy

\* Nothing is new about the versions while none is handed out or published, and no
\* nonce comes back while requests only leave the wire.
LEMMA FreshKept ==
  ASSUME FreshNonces, UNCHANGED <<versions, handed, req>>, wire' \subseteq wire,
         Bumped' => Bumped /\ Last.cfg.nonce' = Last.cfg.nonce,
         op' = "publish" /\ (Taken' \/ step' = "activate") =>
           got' = got /\ op = "publish" /\ (Taken \/ step = "activate")
  PROVE  FreshNonces'
<1>1. FreshVersions'
  BY DEF FreshNonces, FreshVersions
<1>2. \A i \in DOMAIN handed' :
        handed'[i] \in DOMAIN versions' /\ Spent(versions[handed[i]].nonce)'
  BY DEF FreshNonces, Spent
<1>3. Bumped' => Unused(Last.cfg.nonce)'
  BY DEF FreshNonces, Unused, Spent
<1>4. op' = "publish" /\ (Taken' \/ step' = "activate") =>
        got' \in DOMAIN versions' /\ Unused(versions[got].nonce)'
  BY DEF FreshNonces, Unused, Spent
<1> QED
  BY <1>1, <1>2, <1>3, <1>4 DEF FreshNonces

\* The environment stays known while the log does, if the run does not begin.
LEMMA EnvStays ==
  ASSUME IInv, UNCHANGED <<world, log>>, seen' \in Nat, seen <= seen', InRun' => InRun,
         op' \in {"create", "config"} /\ Taken' => op' = op /\ Taken,
         op' \in RunOps /\ step' = "send" /\ EnvKnown(world) => held' = "new"
  PROVE  EnvKnown(world)' => EnvKept'
<1> SUFFICES ASSUME EnvKnown(world)'
    PROVE  EnvKept'
  OBVIOUS
<1>1. EnvKept /\ EnvKnown(world) /\ Last' = Last
  BY DEF IInv, EnvKnown, Last
<1>2. InRun' => \A i \in seen' .. Len(log)' : log'[i].cfg.env = "new"
  <2>1. seen \in Nat /\ Len(log) \in Nat
    BY DEF IInv, TypeOK
  <2>2. seen' .. Len(log) \subseteq seen .. Len(log)
    BY <2>1
  <2> QED
    BY <1>1, <2>2 DEF EnvKept
<1> QED
  BY <1>1, <1>2 DEF EnvKept

-----------------------------------------------------------------------------
(* The client.                                                             *)

\* A step of the client that does not touch log, wire and versions, and is not waiting
\* for a request or for an update afterwards, has only this to show.
LEMMA ClientGoesOn ==
  ASSUME IInv, Untouched, TypeOK', Control', ConfigKept',
         EnvKnown(world)' => EnvKept', UNCHANGED handed, ~Taken',
         step' # "await",
         "calls" \notin world.faults => wire = {},
         world.start = "deployed" =>
           step' \notin {"probe", "failed"} /\ op' \in {"none"} \cup RunOps,
         Bumped' => Bumped,
         op' = "publish" /\ step' = "activate" =>
           got' = got /\ op = "publish" /\ (Taken \/ step = "activate"),
         Gentle(world) => Calm'
  PROVE  IInv'
<1>1. LogSound' /\ StartKnown'
  BY LogUntouched
<1>2. OnTheWire'
  BY DEF IInv, OnTheWire, Untouched, EnvKnown
<1>3. Serial' /\ RunOnly' /\ Lands'
  BY DEF IInv, Serial, RunOnly, Lands, Untouched
<1>4. Undisturbed(world)' => FreshNonces'
  BY LogUntouched, FreshKept DEF IInv, Untouched, Undisturbed
<1>5. Gentle(world)' => Calm'
  BY DEF Untouched, Gentle
<1> QED
  BY <1>1, <1>2, <1>3, <1>4, <1>5 DEF IInv

LEMMA ProbeInv ==
  ASSUME IInv, Probe, UNCHANGED world
  PROVE  IInv'
<1>1. /\ step = "probe" /\ pre' = 0 /\ held' = "none" /\ tries' = 1
      /\ UNCHANGED <<lambda, wire, req, answer, got, handed>>
  BY DEF Probe
<1>2. PICK i \in Visible :
        /\ seen' = i
        /\ IF i = 0 THEN op' = "create" /\ step' = "send"
                    ELSE op' = "code" /\ step' = "read"
  BY DEF Probe
<1>3. TypeOK /\ i \in 0 .. Len(log) /\ (i # 0 => log # << >>)
  BY VisibleFacts DEF IInv
<1>4. Untouched /\ UNCHANGED <<alive, role>> /\ ~Taken /\ ~Taken' /\ step' # "await"
  BY <1>1, <1>2 DEF lambda, Untouched, Taken
<1>5. TypeOK'
  BY <1>1, <1>2, <1>3, <1>4 DEF TypeOK, Untouched, DeployOps
<1>6. Control'
  BY <1>2 DEF Control, Updates
<1>7. ConfigKept'
  BY <1>1, <1>2, <1>3, <1>4
     DEF IInv, ConfigKept, Untouched, Updates, RunOps, InRun
<1>8. ~Bumped' /\ op' # "publish"
  BY <1>2, <1>4 DEF Bumped
<1>9. ASSUME Gentle(world)
      PROVE  Calm'
  <2>1. Calm /\ seen = Len(log) /\ (log # << >> => ~Busy)
    BY <1>4, <1>9 DEF IInv, Calm
  <2>2. i = Len(log)
    BY <1>2, <1>3, <2>1, VisibleFacts
  <2>3. i = 0 => log = << >>
    BY <1>3, <2>2, EmptySeq DEF TypeOK
  <2>4. i = 0 => "lag" \notin world.faults
    BY <1>9, <2>3 DEF IInv, StartKnown, Gentle
  <2>5. 1 <= RoleTries
    BY ControlAssumption
  <2>6. Last' = Last /\ Busy' = Busy
    BY <1>4, LogUntouched
  <2> QED
    BY <1>1, <1>2, <1>4, <2>1, <2>2, <2>3, <2>4, <2>5, <2>6
       DEF Calm, Untouched, Updates, DeployFailsForAReason
<1>10. "calls" \notin world.faults => wire = {}
  BY <1>1 DEF IInv, Serial
<1>11. world.start # "deployed"
  BY <1>1 DEF IInv, RunOnly
<1>12. EnvKnown(world)' => EnvKept'
  <2>1. seen' \in Nat /\ seen <= seen' /\ ~InRun' /\ op' \notin RunOps
    BY <1>2, VisibleFacts DEF IInv, InRun, RunOps
  <2> QED
    BY <1>4, <2>1, EnvStays DEF Untouched
<1> QED
  BY <1>1, <1>4, <1>5, <1>6, <1>7, <1>8, <1>9, <1>10, <1>11, <1>12, ClientGoesOn

LEMMA RedeployInv ==
  ASSUME IInv, Redeploy, UNCHANGED world
  PROVE  IInv'
<1>1. /\ step = "failed" /\ step' = "probe"
      /\ UNCHANGED <<lambda, wire, op, call, reads, got, handed>>
  BY DEF Redeploy
<1>2. /\ Untouched /\ UNCHANGED <<alive, role, op, answer, tries, pre, held, seen, got, handed>>
      /\ ~Taken /\ ~Taken' /\ TypeOK
  BY <1>1 DEF lambda, call, reads, Untouched, Taken, IInv
<1>3. TypeOK'
  BY <1>1, <1>2 DEF TypeOK, Untouched
<1>4. Control' /\ op' \notin RunOps /\ ~Bumped'
  BY <1>1, <1>2 DEF IInv, Control, DeployOps, RunOps, Bumped
<1>5. ConfigKept'
  BY <1>1, <1>2, <1>4, LogUntouched
     DEF IInv, ConfigKept, Untouched, Updates, RunOps, InRun
<1>6. Gentle(world) => Calm'
  BY <1>1, <1>2, LogUntouched DEF IInv, Calm, Untouched, DeployFailsForAReason
<1>7. ("calls" \notin world.faults => wire = {}) /\ world.start # "deployed"
  BY <1>1 DEF IInv, Serial, RunOnly
<1>8. EnvKnown(world)' => EnvKept'
  <2>1. seen \in Nat /\ ~InRun'
    BY <1>1, <1>2, <1>4 DEF TypeOK, InRun, RunOps
  <2> QED
    BY <1>1, <1>2, <1>4, <2>1, EnvStays DEF Untouched
<1> QED
  BY <1>1, <1>2, <1>3, <1>4, <1>5, <1>6, <1>7, <1>8, ClientGoesOn DEF RunOps

LEMMA BumpInv ==
  ASSUME IInv, Bump, UNCHANGED world
  PROVE  IInv'
<1>1. /\ step = "ready" /\ step' = "read" /\ op' = "bump"
      /\ UNCHANGED <<lambda, wire, call, reads, got, handed>>
  BY DEF Bump
<1>2. /\ Untouched /\ UNCHANGED <<alive, role, answer, tries, pre, held, seen, got, handed>>
      /\ ~Taken /\ ~Taken' /\ TypeOK /\ InRun
  BY <1>1 DEF lambda, call, reads, Untouched, Taken, InRun, IInv
<1>3. TypeOK'
  BY <1>1, <1>2 DEF TypeOK, Untouched, RunOps
<1>4. Control' /\ ~Bumped'
  BY <1>1, <1>2 DEF Control, Bumped, Updates
<1>5. ConfigKept'
  BY <1>1, <1>2, LogUntouched DEF IInv, ConfigKept, Untouched, Updates
<1>6. EnvKnown(world)' => EnvKept'
  <2>1. seen \in Nat
    BY <1>2 DEF TypeOK
  <2> QED
    BY <1>1, <1>2, <2>1, EnvStays DEF Untouched
<1>7. Gentle(world) => Calm'
  BY <1>1, <1>2, LogUntouched DEF IInv, Calm, Untouched, DeployFailsForAReason, Updates
<1>8. "calls" \notin world.faults => wire = {}
  BY <1>1 DEF IInv, Serial
<1> QED
  BY <1>1, <1>2, <1>3, <1>4, <1>5, <1>6, <1>7, <1>8, ClientGoesOn DEF RunOps

LEMMA ReadInv ==
  ASSUME IInv, Read, UNCHANGED world
  PROVE  IInv'
<1>1. /\ step = "read"
      /\ UNCHANGED <<lambda, wire, op, call, got, handed>>
  BY DEF Read
<1>2. PICK i \in Visible :
        /\ seen' = i
        /\ IF i = 0 THEN Fail /\ UNCHANGED <<pre, held>>
           ELSE /\ pre' = RevisionRead(i) /\ held' = log[i].cfg.env
                /\ step' = "send"
  BY DEF Read
<1>3. /\ TypeOK /\ i \in 0 .. Len(log) /\ seen <= i /\ i \in Nat
      /\ i # 0 => log[i] \in Snapshots
      /\ op \in Updates /\ log # << >>
  BY <1>1, VisibleFacts DEF IInv, Control, ConfigKept
<1>4. /\ Untouched /\ UNCHANGED <<alive, role, op, answer, tries, got, handed>>
      /\ ~Taken /\ Last' = Last
  BY <1>1, LogUntouched DEF lambda, call, Untouched, Taken
<1>5. step' = (IF i # 0 THEN "send" ELSE IF op = "bump" THEN "ready" ELSE "failed")
  BY <1>2, <1>3 DEF Fail, Updates
<1>6. ~Taken' /\ step' # "await" /\ ~Bumped'
  BY <1>3, <1>4, <1>5 DEF Taken, Bumped, Updates
<1>7. TypeOK'
  BY <1>2, <1>3, <1>4, <1>5 DEF TypeOK, Untouched, RevisionRead, Snapshots, Configs
<1>8. Control'
  BY <1>2, <1>3, <1>4, <1>5 DEF Control, Updates, DeployOps, RunOps, Snapshots, Configs
<1>9. ConfigKept' /\ (EnvKnown(world)' => EnvKept')
  <2>1. op = "bump" => InRun /\ i # 0
    BY <1>3 DEF IInv, ConfigKept, TypeOK, InRun
  <2>2. InRun' => op = "bump" /\ seen' # 0
    BY <1>2, <1>3, <1>4, <1>5, <2>1 DEF InRun, Updates
  <2>3. ConfigKept'
    BY <1>3, <1>4, <1>5, <1>6, <2>1, <2>2 DEF IInv, ConfigKept, Untouched, Updates
  <2>4. op' \in RunOps /\ step' = "send" /\ EnvKnown(world) => held' = "new"
    <3>1. SUFFICES ASSUME op = "bump", EnvKnown(world)
          PROVE  held' = "new"
      BY <1>3, <1>4 DEF RunOps, Updates
    <3>2. log[i].cfg.env = "new"
      BY <1>3, <2>1, <3>1 DEF IInv, EnvKept
    <3> QED
      BY <1>2, <2>1, <3>1, <3>2
  <2>5. EnvKnown(world)' => EnvKept'
    BY <1>2, <1>3, <1>4, <1>6, <2>1, <2>2, <2>4, EnvStays DEF Untouched
  <2> QED
    BY <2>3, <2>5
<1>10. ASSUME Gentle(world)
       PROVE  Calm'
  <2>1. Calm /\ seen = Len(log) /\ ~Busy
    BY <1>3, <1>4, <1>10 DEF IInv, Calm
  <2>2. i = Len(log) /\ i # 0
    BY <1>2, <1>3, <2>1, VisibleFacts, EmptySeq DEF TypeOK
  <2>3. pre' = Last.rev
    BY <1>2, <2>2 DEF RevisionRead, Last
  <2>4. Last' = Last /\ Busy' = Busy
    BY <1>4, LogUntouched
  <2> QED
    BY <1>2, <1>3, <1>4, <1>5, <1>6, <2>1, <2>2, <2>3, <2>4
       DEF Calm, Untouched, Updates, DeployFailsForAReason
<1>11. "calls" \notin world.faults => wire = {}
  BY <1>1 DEF IInv, Serial
<1>12. world.start = "deployed" =>
         step' \notin {"probe", "failed"} /\ op' \in {"none"} \cup RunOps
  BY <1>3, <1>4, <1>5 DEF IInv, RunOnly, Updates, RunOps
<1> QED
  BY <1>4, <1>5, <1>6, <1>7, <1>8, <1>9, <1>10, <1>11, <1>12, ClientGoesOn

\* A new request bears a number of its own, and its nonce.
LEMMA SendInv ==
  ASSUME IInv, Send, UNCHANGED world
  PROVE  IInv'
<1> DEFINE q == [id |-> req + 1, op |-> op, env |-> held, nonce |-> req + 1]
<1>1. /\ step \in {"send", "publish"} /\ step' = "await"
      /\ req' = req + 1 /\ answer' = "none" /\ wire' = wire \cup {q}
      /\ UNCHANGED <<log, versions, alive, role, op, tries, pre, held, seen, got, handed>>
  BY DEF Send, EnvSent, NonceSent, lambda, reads
<1>2. /\ TypeOK /\ op # "none" /\ req \in Nat /\ wire \subseteq Requests
      /\ op \in {"create"} \cup Updates \cup {"publish"} /\ held \in {"none", "old", "new"}
      /\ (step = "publish") = (op = "publish")
      /\ ~Taken /\ ~Taken'
  BY <1>1 DEF IInv, Control, TypeOK, Updates, Taken
<1>3. q \in Requests /\ q.id = req + 1 /\ q.op = op /\ q.env = held /\ q.nonce = req + 1
  BY <1>2 DEF Requests, DeployOps, RunOps, Updates
<1> HIDE DEF q
<1>4. TypeOK' /\ Control' /\ LogSound' /\ StartKnown' /\ Lands' /\ Last' = Last /\ Busy' = Busy
  <2>1. TypeOK'
    BY <1>1, <1>2, <1>3 DEF TypeOK
  <2>2. Control' /\ Lands'
    BY <1>1, <1>2 DEF Control, Lands
  <2>3. LogSound' /\ StartKnown' /\ Last' = Last /\ Busy' = Busy
    BY <1>1 DEF IInv, LogSound, StartKnown, Last, Busy
  <2> QED
    BY <2>1, <2>2, <2>3
<1>5. ConfigKept'
  BY <1>1, <1>2, <1>4
     DEF IInv, ConfigKept, InRun
<1>6. OnTheWire'
  <2>1. \A r \in wire : r.id \in 1 .. req
    BY DEF IInv, OnTheWire
  <2>2. op = "bump" => held # "none" /\ (EnvKnown(world) => held = "new")
    BY <1>1, <1>2 DEF IInv, Control, EnvKept, RunOps
  <2>3. op # "create" => log # << >>
    BY <1>2 DEF IInv, ConfigKept, RunOps
  <2> USE DEF EnvKnown
  <2>4. ASSUME NEW r \in wire'
        PROVE  /\ r.id \in 1 .. req'
               /\ r.op = "bump" => r.nonce = r.id /\ r.env # "none"
                                 /\ (EnvKnown(world)' => r.env = "new")
               /\ r.op # "create" => log' # << >>
               /\ step' = "await" /\ r.id = req' => r.op = op' /\ answer' = "none"
    <3>1. CASE r = q
      BY <1>1, <1>2, <1>3, <2>2, <2>3, <3>1
    <3>2. CASE r \in wire
      BY <1>1, <1>2, <2>1, <3>2 DEF IInv, OnTheWire
    <3> QED
      BY <1>1, <3>1, <3>2
  <2>5. \A r, s \in wire' : r.id = s.id => r = s
    BY <1>1, <1>2, <1>3, <2>1 DEF IInv, OnTheWire
  <2> QED
    BY <2>4, <2>5 DEF OnTheWire
<1>7. Serial' /\ RunOnly'
  BY <1>1, <1>2, <1>3 DEF IInv, Serial, RunOnly, RunOps
<1>8. ASSUME Undisturbed(world)
      PROVE  FreshNonces'
  <2>1. FreshNonces
    BY <1>8 DEF IInv
  <2>2. \A i \in DOMAIN handed' :
          handed'[i] \in DOMAIN versions' /\ Spent(versions[handed[i]].nonce)'
    BY <1>1, <2>1, <1>2, <1>3 DEF FreshNonces, Spent
  <2>3. Bumped' => Unused(Last.cfg.nonce)'
    <3>1. SUFFICES ASSUME Bumped'
          PROVE  Unused(Last.cfg.nonce)'
      OBVIOUS
    <3>2. op = "publish" /\ step = "publish"
      BY <1>1, <1>2, <3>1 DEF Bumped
    <3>3. Unused(Last.cfg.nonce)
      BY <2>1, <3>2 DEF FreshNonces, Bumped
    <3> QED
      BY <1>1, <1>2, <1>3, <1>4, <3>2, <3>3 DEF Unused, Spent
  <2>4. FreshVersions' /\ ~(op' = "publish" /\ (Taken' \/ step' = "activate"))
    BY <1>1, <1>2, <2>1 DEF FreshNonces, FreshVersions
  <2> QED
    BY <2>2, <2>3, <2>4 DEF FreshNonces
<1>9. Gentle(world) => Calm'
  BY <1>1, <1>2, <1>4 DEF IInv, Calm, Updates, DeployFailsForAReason
<1>10. EnvKnown(world)' => EnvKept'
  <2>1. seen \in Nat /\ InRun' = InRun
    BY <1>1, <1>2 DEF TypeOK, InRun
  <2> QED
    BY <1>1, <1>2, <2>1, EnvStays
<1> QED
  BY <1>4, <1>5, <1>6, <1>7, <1>8, <1>9, <1>10 DEF IInv, Gentle, Undisturbed

\* What is left of a call that returned or erred: nothing new on the wire, and nobody
\* waits for it.
LEMMA CallEnds ==
  ASSUME IInv, TypeOK', Control', ConfigKept',
         EnvKnown(world)' => EnvKept', wire' \subseteq wire, step' # "await",
         UNCHANGED <<world, log, versions, op, req, got, handed>>,
         "calls" \notin world.faults => wire = {},
         step' = "failed" => op \in DeployOps,
         step' # "probe",
         Taken' /\ op # "publish" => Taken,
         Bumped' => Bumped,
         op = "publish" /\ (Taken' \/ step' = "activate") => Taken \/ step = "activate",
         Gentle(world) => Calm'
  PROVE  IInv'
<1>1. LogSound' /\ StartKnown' /\ Last' = Last
  BY DEF IInv, LogSound, StartKnown, Last
<1>2. OnTheWire'
  BY DEF IInv, OnTheWire, EnvKnown
<1>3. Serial' /\ Lands'
  BY DEF IInv, Serial, Lands
<1>4. RunOnly'
  BY DEF IInv, RunOnly, DeployOps, RunOps
<1>5. Undisturbed(world) => FreshNonces'
  BY <1>1, FreshKept DEF IInv
<1> QED
  BY <1>1, <1>2, <1>3, <1>4, <1>5 DEF IInv, Gentle, Undisturbed

LEMMA AnsweredInv ==
  ASSUME IInv, Answered, UNCHANGED world
  PROVE  IInv'
<1>1. /\ step = "await" /\ answer # "none" /\ op # "none" /\ TypeOK
      /\ UNCHANGED <<log, versions, alive, role, wire, op, req, answer, pre, held, seen,
                     got, handed>>
  BY DEF Answered, lambda, reads, IInv, Control
<1>2. \/ answer = "ok" /\ op = "publish" /\ step' = "activate" /\ tries' = tries
      \/ answer = "ok" /\ op # "publish" /\ step' = "settle" /\ tries' = tries
      \/ answer = "role" /\ tries < RoleTries /\ step' = "send" /\ tries' = tries + 1
      \/ /\ answer # "ok" /\ (answer = "role" => ~(tries < RoleTries))
         /\ step' = (IF op \in RunOps THEN "ready" ELSE "failed") /\ tries' = tries
  <2>1. CASE answer = "ok"
    BY <2>1 DEF Answered
  <2>2. CASE answer = "role" /\ tries < RoleTries
    BY <2>2 DEF Answered
  <2>3. CASE answer # "ok" /\ ~(answer = "role" /\ tries < RoleTries)
    BY <2>3 DEF Answered, Fail, RunOps
  <2> QED
    BY <2>1, <2>2, <2>3
<1>3. /\ step' # "await" /\ (Taken' => Taken) /\ (Bumped' => Bumped)
      /\ op = "publish" /\ (Taken' \/ step' = "activate") => Taken
      /\ answer = "role" => op = "create"
  BY <1>1, <1>2 DEF Taken, Bumped, IInv, Control
<1>4. TypeOK' /\ Control'
  BY <1>1, <1>2, <1>3 DEF TypeOK, Control, IInv, DeployOps, RunOps, Updates
<1>5. ConfigKept'
  BY <1>1, <1>2, <1>3
     DEF IInv, ConfigKept, InRun, Last, RunOps, Updates
<1>6. ASSUME Gentle(world)
      PROVE  Calm'
  <2>1. Calm
    BY <1>6 DEF IInv
  <2>2. Last' = Last /\ Busy' = Busy
    BY <1>1 DEF Last, Busy
  <2>3. CASE step' = "failed"
    <3>1. answer = "role" /\ op = "create" /\ tries = RoleTries
      <4>1. /\ tries <= RoleTries /\ tries \in Nat /\ RoleTries \in Nat
            /\ answer = "role" => ~(tries < RoleTries)
            /\ answer = "role" /\ op = "create"
        BY <1>1, <1>2, <1>3, <2>1, <2>3, ControlAssumption DEF Calm, TypeOK
      <4> QED
        BY <4>1
    <3> QED
      BY <1>1, <1>2, <1>3, <2>1, <2>2, <2>3, <3>1 DEF Calm, Taken, Updates, DeployFailsForAReason
  <2>4. CASE step' # "failed"
    <3>1. ~Taken' => ~Taken \/ op = "publish"
      BY <1>1, <1>2 DEF Taken
    <3>2. tries' <= RoleTries \/ op # "create"
      BY <1>1, <1>2, <2>1, ControlAssumption DEF Calm, TypeOK
    <3>3. step' \in {"send", "await"} => step' = "send" /\ op = "create" /\ ~Taken
      BY <1>1, <1>2, <1>3 DEF Taken, RunOps
    <3> QED
      BY <1>1, <1>3, <2>1, <2>2, <2>4, <3>1, <3>2, <3>3
         DEF Calm, Updates, DeployFailsForAReason
  <2> QED
    BY <2>3, <2>4
<1>7. "calls" \notin world.faults => wire = {}
  BY <1>1 DEF IInv, Serial
<1>8. step' # "probe" /\ (step' = "failed" => op \in DeployOps)
  BY <1>1, <1>2, <1>4 DEF TypeOK
<1>9. EnvKnown(world)' => EnvKept'
  <2>1. seen \in Nat /\ (InRun' => InRun)
    BY <1>1, <1>2 DEF TypeOK, InRun, RunOps
  <2>2. ~(op' \in RunOps /\ step' = "send")
    BY <1>1, <1>2, <1>3 DEF RunOps
  <2> QED
    BY <1>1, <1>3, <2>1, <2>2, EnvStays
<1> QED
  BY <1>1, <1>3, <1>4, <1>5, <1>6, <1>7, <1>8, <1>9, CallEnds

LEMMA CallErrsInv ==
  ASSUME IInv, CallErrs, UNCHANGED world
  PROVE  IInv'
<1>1. /\ step = "await" /\ "calls" \in world.faults /\ op # "none" /\ TypeOK
      /\ step' = (IF op \in RunOps THEN "ready" ELSE "failed") /\ wire' \subseteq wire
      /\ UNCHANGED <<log, versions, alive, role, op, req, answer, tries, pre, held, seen,
                     got, handed>>
  BY DEF CallErrs, Fail, RunOps, lambda, call, reads, IInv, Control
<1>2. TypeOK' /\ Control'
  BY <1>1 DEF TypeOK, Control, IInv, DeployOps, RunOps
<1>3. ~Taken' /\ ~Bumped' /\ ~Gentle(world)
  BY <1>1 DEF Taken, Bumped, Gentle
<1>4. ConfigKept'
  BY <1>1, <1>3 DEF IInv, ConfigKept, InRun, Last, RunOps, Updates
<1>5. step' = "failed" => op \in DeployOps
  BY <1>1 DEF TypeOK
<1>6. EnvKnown(world)' => EnvKept'
  <2>1. seen \in Nat /\ (InRun' => InRun) /\ step' # "send"
    BY <1>1 DEF TypeOK, InRun, RunOps
  <2> QED
    BY <1>1, <1>3, <2>1, EnvStays
<1> QED
  BY <1>1, <1>2, <1>3, <1>4, <1>5, <1>6, CallEnds

\* What holds of the read that ends a wait: with one kind of fault at a time it is of
\* the last snapshot, or else it is of one that settles nothing.
LEMMA PollFacts ==
  ASSUME IInv, Gentle(world), step = "settle", NEW i \in Visible
  PROVE  /\ i # 0 /\ i \in DOMAIN log /\ log # << >>
         /\ log[i].upd = "Failed" => i = Len(log) /\ ~Busy
         /\ log[i].active /\ Settled(log[i]) /\ RevisionAdvanced(log[i]) =>
              i = Len(log) /\ ~Busy
<1>1. /\ TypeOK /\ Calm /\ Taken /\ op \in {"create"} \cup Updates /\ LogSound
      /\ log # << >>
  BY DEF IInv, Control, Taken, ConfigKept
<1>2. /\ i \in 0 .. Len(log) /\ seen <= i /\ i \in Nat /\ Len(log) \in Nat \ {0}
      /\ i # 0 => i \in DOMAIN log /\ log[i] \in Snapshots
      /\ "lag" \notin world.faults => i = Len(log)
      /\ seen \in Nat
  BY <1>1, VisibleFacts, LastKnown DEF TypeOK
<1>3. i # 0
  BY <1>1, <1>2 DEF Calm, Updates
<1>4. log[i].upd = "Failed" => i = Len(log) /\ log[i].active
  BY <1>1, <1>2, <1>3 DEF LogSound, Gentle
<1>5. log[i].active /\ Settled(log[i]) /\ RevisionAdvanced(log[i]) =>
        i = Len(log) /\ log[i].upd # "InProgress"
  <2>1. CASE op = "create"
    BY <1>1, <1>2, <2>1 DEF Calm, Settled
  <2>2. CASE op \in Updates
    BY <1>1, <1>2, <1>3, <2>2 DEF Calm, Settled, RevisionAdvanced
  <2> QED
    BY <1>1, <2>1, <2>2
<1> QED
  BY <1>1, <1>2, <1>3, <1>4, <1>5 DEF Busy, Last

\* A deploy is over: what its last read and all later ones may be of has its environment.
LEMMA RunBegins ==
  ASSUME IInv, Taken, op \in {"create", "config"}, NEW i \in Visible, i # 0, seen' = i,
         Gentle(world) => i = Len(log), UNCHANGED <<world, log>>, op' = op, step' = "ready"
  PROVE  EnvKnown(world)' => EnvKept'
<1> SUFFICES ASSUME EnvKnown(world)'
    PROVE  EnvKept'
  OBVIOUS
<1>1. EnvKnown(world) /\ EnvKept /\ TypeOK /\ Last.cfg.env = "new"
  BY DEF IInv, EnvKnown, EnvKept
<1>2. i \in 0 .. Len(log) /\ ("lag" \notin world.faults => i = Len(log)) /\ Len(log) \in Nat
  BY <1>1, VisibleFacts
<1>3. \A j \in i .. Len(log) : log[j].cfg.env = "new"
  <2>1. CASE world.start # "old"
    BY <1>1, <1>2, <2>1 DEF EnvKept, TypeOK
  <2>2. CASE world.start = "old"
    <3>1. i = Len(log)
      BY <1>1, <1>2, <2>2 DEF EnvKnown, Gentle
    <3> QED
      BY <1>1, <1>2, <3>1 DEF Last
  <2> QED
    BY <2>1, <2>2
<1>4. ~Taken' /\ op' \notin RunOps
  BY DEF Taken, RunOps
<1> QED
  BY <1>1, <1>3, <1>4 DEF EnvKept

LEMMA WaitReadyInv ==
  ASSUME IInv, WaitReady, UNCHANGED world
  PROVE  IInv'
<1>1. /\ step = "settle" /\ TypeOK /\ Taken /\ op \in {"create"} \cup Updates
      /\ UNCHANGED <<log, versions, alive, role, wire, req, answer, tries, pre, held,
                     got, handed>>
  BY DEF WaitReady, lambda, call, IInv, Control, Taken
<1> DEFINE landed(i) == log[i].active /\ Settled(log[i]) /\ RevisionAdvanced(log[i])
<1>2. PICK i \in Visible :
        /\ seen' = i
        /\ \/ (i = 0 \/ log[i].upd = "Failed") /\ Fail /\ UNCHANGED op
           \/ i # 0 /\ log[i].upd # "Failed" /\ landed(i) /\ Landed
           \/ UNCHANGED <<step, op>>
  <2>1. PICK i \in Visible :
          /\ seen' = i
          /\ CASE i = 0 -> Fail /\ UNCHANGED op
               [] i # 0 /\ log[i].upd = "Failed" -> Fail /\ UNCHANGED op
               [] i # 0 /\ log[i].active /\ Settled(log[i]) /\ RevisionAdvanced(log[i]) ->
                    Landed
               [] OTHER -> UNCHANGED <<step, op>>
    BY DEF WaitReady
  <2> DEFINE fails == (i = 0 \/ log[i].upd = "Failed") /\ Fail /\ UNCHANGED op
             lands == i # 0 /\ log[i].upd # "Failed" /\ landed(i) /\ Landed
  <2>2. fails \/ lands \/ UNCHANGED <<step, op>>
    <3>1. CASE i = 0
      BY <2>1, <3>1
    <3>2. CASE i # 0 /\ log[i].upd = "Failed"
      BY <2>1, <3>2 DEF Settled
    <3>3. CASE i # 0 /\ log[i].upd # "Failed" /\ landed(i)
      BY <2>1, <3>3
    <3>4. CASE i # 0 /\ log[i].upd # "Failed" /\ ~landed(i)
      BY <2>1, <3>4
    <3> QED
      BY <3>1, <3>2, <3>3, <3>4
  <2> QED
    BY <2>1, <2>2
<1>3. /\ i \in 0 .. Len(log) /\ seen <= i /\ i \in Nat /\ Len(log) \in Nat /\ seen \in Nat
  BY <1>1, VisibleFacts DEF TypeOK
<1>4. Gentle(world) =>
        /\ Calm /\ i # 0
        /\ log[i].upd = "Failed" => i = Len(log) /\ ~Busy
        /\ landed(i) => i = Len(log) /\ ~Busy
  BY <1>1, PollFacts DEF IInv
<1> HIDE DEF landed
<1>5. "calls" \notin world.faults => wire = {}
  BY <1>1 DEF IInv, Serial
<1>6. /\ op \in RunOps => InRun /\ seen' # 0
      /\ log # << >> /\ seen' \in Nat /\ seen <= seen'
  BY <1>1, <1>2, <1>3 DEF IInv, ConfigKept, InRun, RunOps
<1>7. Last' = Last /\ Busy' = Busy
  BY <1>1 DEF Last, Busy
<1>8. CASE (i = 0 \/ log[i].upd = "Failed") /\ Fail /\ UNCHANGED op
  <2>1. step' = (IF op \in RunOps THEN "ready" ELSE "failed") /\ ~Taken' /\ ~Bumped'
    BY <1>1, <1>8 DEF Fail, RunOps, Updates, Taken, Bumped
  <2>2. TypeOK' /\ Control'
    BY <1>1, <1>2, <1>3, <1>8, <2>1
       DEF TypeOK, Control, IInv, DeployOps, RunOps, Updates
  <2>3. ConfigKept'
    BY <1>1, <1>6, <1>7, <1>8, <2>1 DEF IInv, ConfigKept, InRun,
       RunOps, Updates
  <2>4. Gentle(world) => Calm'
    BY <1>1, <1>2, <1>4, <1>7, <1>8, <2>1
       DEF Calm, DeployFailsForAReason, Last, Updates, RunOps
  <2>5. step' = "failed" => op \in DeployOps
    BY <1>1, <2>1 DEF TypeOK, Updates, RunOps, DeployOps
  <2>6. EnvKnown(world)' => EnvKept'
    <3>1. (InRun' => InRun) /\ step' # "send"
      BY <1>1, <1>6, <1>8, <2>1 DEF InRun, RunOps
    <3> QED
      BY <1>1, <1>6, <1>8, <2>1, <3>1, EnvStays
  <2> QED
    BY <1>1, <1>5, <1>8, <2>1, <2>2, <2>3, <2>4, <2>5, <2>6, CallEnds
<1>9. CASE i # 0 /\ landed(i) /\ Landed
  <2>1. \/ op = "code" /\ op' = "config" /\ step' = "read"
        \/ op = "bump" /\ op' = "publish" /\ step' = "publish"
        \/ op = "bump" /\ op' = "bump" /\ step' = "measure"
        \/ op \in {"create", "config"} /\ op' = op /\ step' = "ready"
    BY <1>1, <1>9 DEF Landed, Updates
  <2>2. ~Taken' /\ (Bumped' => Bumped) /\ step' # "await"
    BY <1>1, <2>1 DEF Taken, Bumped
  <2>3. TypeOK' /\ Control'
    BY <1>1, <1>2, <1>3, <2>1 DEF TypeOK, Control, RunOps, DeployOps, Updates
  <2>4. ConfigKept'
    BY <1>1, <1>2, <1>6, <1>7, <1>9, <2>1, <2>2 DEF IInv, ConfigKept, InRun,
       RunOps, Updates
  <2>5. Gentle(world) => Calm'
    BY <1>1, <1>2, <1>4, <1>7, <1>9, <2>1, <2>2
       DEF Calm, DeployFailsForAReason, Updates
  <2>6. world.start = "deployed" =>
          step' \notin {"probe", "failed"} /\ op' \in {"none"} \cup RunOps
    BY <1>1, <2>1 DEF IInv, RunOnly, RunOps
  <2>7. EnvKnown(world)' => EnvKept'
    <3>1. CASE op \in {"code", "bump"}
      <4>1. (InRun' => InRun) /\ step' # "send"
        BY <2>1, <3>1 DEF InRun
      <4> QED
        BY <1>1, <1>6, <2>2, <4>1, EnvStays
    <3>2. CASE op \in {"create", "config"}
      BY <1>1, <1>2, <1>3, <1>4, <1>7, <1>9, <2>1, <2>2, <3>2, RunBegins
    <3> QED
      BY <1>1, <3>1, <3>2 DEF Updates
  <2> QED
    BY <1>1, <1>5, <2>1, <2>2, <2>3, <2>4, <2>5, <2>6, <2>7, ClientGoesOn DEF Untouched
<1>10. CASE UNCHANGED <<step, op>>
  <2>1. TypeOK' /\ Control' /\ Taken' /\ (Bumped' => Bumped)
    BY <1>1, <1>2, <1>3, <1>10 DEF TypeOK, Control, IInv, Taken, Bumped
  <2>2. ConfigKept'
    BY <1>1, <1>6, <1>7, <1>10, <2>1 DEF IInv, ConfigKept, InRun,
       RunOps, Updates
  <2>3. Gentle(world) => Calm'
    BY <1>1, <1>2, <1>3, <1>4, <1>7, <1>10, <2>1
       DEF Calm, DeployFailsForAReason, Updates
  <2>4. EnvKnown(world)' => EnvKept'
    <3>1. (InRun' => InRun) /\ step' # "send"
      BY <1>1, <1>10 DEF InRun
    <3> QED
      BY <1>1, <1>6, <1>10, <3>1, EnvStays
  <2> QED
    BY <1>1, <1>5, <1>10, <2>1, <2>2, <2>3, <2>4, CallEnds
<1> QED
  BY <1>2, <1>8, <1>9, <1>10

LEMMA WaitTimesOutInv ==
  ASSUME IInv, WaitTimesOut, UNCHANGED world
  PROVE  IInv'
<1>1. /\ step = "settle" /\ TypeOK /\ Taken /\ op \in {"create"} \cup Updates
      /\ log # << >>
      /\ UNCHANGED <<log, versions, alive, role, wire, op, req, answer, tries, pre, held,
                     seen, got, handed>>
  BY DEF WaitTimesOut, lambda, call, reads, IInv, Control, Taken, ConfigKept
<1>2. step' = (IF op \in RunOps THEN "ready" ELSE "failed") /\ ~Taken' /\ ~Bumped'
  BY <1>1 DEF WaitTimesOut, Fail, RunOps, Updates, Taken, Bumped
<1>3. TypeOK' /\ Control'
  BY <1>1, <1>2 DEF TypeOK, Control, IInv, DeployOps, RunOps, Updates
<1>4. Last' = Last /\ Busy' = Busy /\ Last \in Snapshots
  BY <1>1, LastKnown DEF Last, Busy
<1>5. ConfigKept'
  BY <1>1, <1>2, <1>4 DEF IInv, ConfigKept, InRun, RunOps, Updates
<1>6. ASSUME Gentle(world)
      PROVE  Calm'
  <2>1. /\ Calm /\ ~Busy /\ seen = Len(log)
        /\ ~(Settled(Last) /\ RevisionAdvanced(Last))
    BY <1>6 DEF IInv, Gentle, WaitTimesOut
  <2>2. Last.upd = "Failed"
    <3>1. Last.upd \in {"none", "Successful", "Failed"} /\ pre \in Nat /\ Last.rev \in Nat
      BY <1>1, <1>4, <2>1 DEF Busy, Snapshots, TypeOK
    <3>2. CASE op = "create"
      BY <1>1, <2>1, <3>1, <3>2 DEF Calm, Settled, RevisionAdvanced
    <3>3. CASE op \in Updates
      BY <1>1, <2>1, <3>1, <3>3 DEF Calm, Settled, RevisionAdvanced
    <3> QED
      BY <1>1, <3>2, <3>3
  <2> QED
    BY <1>1, <1>2, <1>4, <2>1, <2>2 DEF Calm, DeployFailsForAReason, Updates, RunOps
<1>7. ("calls" \notin world.faults => wire = {}) /\ (step' = "failed" => op \in DeployOps)
  BY <1>1, <1>2 DEF IInv, Serial, Updates, RunOps, DeployOps
<1>8. EnvKnown(world)' => EnvKept'
  <2>1. seen \in Nat /\ (InRun' => InRun) /\ step' # "send"
    BY <1>1, <1>2 DEF TypeOK, InRun, RunOps
  <2> QED
    BY <1>1, <1>2, <2>1, EnvStays
<1> QED
  BY <1>1, <1>2, <1>3, <1>5, <1>6, <1>7, <1>8, CallEnds

LEMMA EndCycleInv ==
  ASSUME IInv, EndCycle, UNCHANGED world
  PROVE  IInv'
<1>1. /\ step = "measure" /\ step' = "ready" /\ alive' \subseteq alive
      /\ TypeOK /\ op \in RunOps /\ ~Taken /\ ~Taken' /\ ~Bumped'
      /\ UNCHANGED <<log, versions, role, wire, op, req, answer, tries, pre, held,
                     seen, got, handed>>
  BY DEF EndCycle, call, reads, IInv, Control, Taken, Bumped
<1>2. TypeOK' /\ Control' /\ Untouched
  BY <1>1 DEF TypeOK, Control, RunOps, Untouched
<1>3. Last' = Last /\ Busy' = Busy
  BY <1>1 DEF Last, Busy
<1>4. ConfigKept'
  BY <1>1, <1>3 DEF IInv, ConfigKept, InRun, RunOps, Updates
<1>5. Gentle(world) => Calm'
  BY <1>1, <1>3 DEF IInv, Calm, DeployFailsForAReason, RunOps, Updates
<1>6. "calls" \notin world.faults => wire = {}
  BY <1>1 DEF IInv, Serial
<1>7. EnvKnown(world)' => EnvKept'
  <2>1. seen \in Nat /\ InRun
    BY <1>1 DEF TypeOK, InRun, RunOps
  <2> QED
    BY <1>1, <2>1, EnvStays
<1> QED
  BY <1>1, <1>2, <1>4, <1>5, <1>6, <1>7, ClientGoesOn

\* A version is handed out whose nonce no version handed out before it has.
LEMMA VersionActiveInv ==
  ASSUME IInv, VersionActive, UNCHANGED world
  PROVE  IInv'
<1>1. /\ step = "activate" /\ op = "publish" /\ TypeOK /\ ~Taken
      /\ UNCHANGED <<log, versions, alive, role, wire, op, req, answer, tries, pre, held,
                     seen, got>>
  BY DEF VersionActive, lambda, call, reads, IInv, Control, Taken
<1>2. Last' = Last /\ Busy' = Busy /\ ("calls" \notin world.faults => wire = {})
  BY <1>1 DEF Last, Busy, IInv, Serial
<1>3. EnvKnown(world)' => EnvKept'
  <2>1. seen \in Nat /\ InRun /\ step' # "send" /\ ~Taken' /\ op' \notin {"create", "config"}
    BY <1>1 DEF TypeOK, InRun, Taken, VersionActive, Fail
  <2> QED
    BY <1>1, <2>1, EnvStays
<1>4. CASE step' = "measure" /\ handed' = Append(handed, got)
  <2>1. /\ handed \in Seq(Nat) /\ handed' \in Seq(Nat) /\ DOMAIN handed = 1 .. Len(handed)
        /\ DOMAIN handed' = 1 .. Len(handed) + 1 /\ Len(handed) \in Nat
        /\ handed'[Len(handed) + 1] = got
        /\ \A i \in DOMAIN handed : handed'[i] = handed[i]
    BY <1>1, <1>4 DEF TypeOK
  <2>2. TypeOK' /\ Control' /\ ~Taken' /\ ~Bumped'
    BY <1>1, <1>4, <2>1 DEF TypeOK, Control, Taken, Bumped, RunOps
  <2>3. ConfigKept'
    BY <1>1, <1>2, <1>4, <2>2 DEF IInv, ConfigKept, InRun, RunOps,
       Updates
  <2>4. OnTheWire' /\ LogSound' /\ StartKnown' /\ Serial' /\ RunOnly' /\ Lands'
    BY <1>1, <1>2, <1>4, <2>2
       DEF IInv, OnTheWire, EnvKnown, LogSound, StartKnown, Serial, RunOnly, Lands, RunOps
  <2>5. ASSUME Undisturbed(world)
        PROVE  FreshNonces'
    <3>1. FreshNonces /\ got \in DOMAIN versions /\ Unused(versions[got].nonce)
      BY <1>1, <2>5 DEF IInv, FreshNonces
    <3>2. \A i \in DOMAIN handed' :
            handed'[i] \in DOMAIN versions' /\ Spent(versions[handed[i]].nonce)'
      BY <1>1, <2>1, <3>1 DEF FreshNonces, Spent, Unused
    <3>3. \A i \in DOMAIN handed : handed[i] # got
      BY <3>1 DEF Unused
    <3>4. FreshVersions'
      BY <2>1, <3>1, <3>3 DEF FreshNonces, FreshVersions
    <3> QED
      BY <1>4, <2>2, <3>2, <3>4 DEF FreshNonces
  <2>6. Gentle(world) => Calm'
    BY <1>1, <1>2, <1>4, <2>2 DEF IInv, Calm, DeployFailsForAReason, Updates
  <2> QED
    BY <1>3, <2>2, <2>3, <2>4, <2>5, <2>6 DEF IInv, Gentle, Undisturbed
<1>5. CASE "calls" \in world.faults /\ Fail /\ UNCHANGED handed
  <2>1. step' = "ready" /\ ~Taken' /\ ~Bumped' /\ ~Gentle(world)
    BY <1>1, <1>5 DEF Fail, Taken, Bumped, Gentle
  <2>2. TypeOK' /\ Control'
    BY <1>1, <1>5, <2>1 DEF TypeOK, Control
  <2>3. ConfigKept'
    BY <1>1, <1>2, <1>5, <2>1 DEF IInv, ConfigKept, InRun, RunOps,
       Updates
  <2> QED
    BY <1>1, <1>2, <1>5, <1>3, <2>1, <2>2, <2>3, CallEnds
<1> QED
  BY <1>4, <1>5 DEF VersionActive

-----------------------------------------------------------------------------
(* Lambda.                                                                 *)

\* A request that Lambda takes up leaves the wire, and is answered if it is waited for,
\* unless calls fail and it will be delivered again.
Mine(r) == step = "await" /\ r.id = req

LEMMA DeliverFacts ==
  ASSUME IInv, NEW r \in wire, NEW a, Deliver(r, a)
  PROVE  /\ wire' \subseteq wire
         /\ \/ r \notin wire' /\ answer' = (IF Mine(r) THEN a ELSE answer)
            \/ "calls" \in world.faults /\ Mine(r) /\ UNCHANGED <<wire, answer>>
         /\ Mine(r) => answer = "none" /\ r.op = op /\ ~Taken
         /\ "calls" \notin world.faults => Mine(r) /\ answer' = a /\ wire' = {}
  BY DEF IInv, Deliver, OnTheWire, Serial, Mine, Taken

\* What a delivery leaves as it is, and how the client comes to know.
LEMMA LambdaFrame ==
  ASSUME IInv, NEW r \in wire, NEW a \in {"ok", "role", "refused"}, Deliver(r, a),
         UNCHANGED world, Unmoved, a = "role" => r.op = "create",
         log # << >> => log' # << >>
  PROVE  /\ Control' /\ OnTheWire' /\ Serial' /\ RunOnly' /\ StartKnown'
         /\ wire' \subseteq Requests /\ answer' \in {"none", "ok", "role", "refused"}
         /\ UNCHANGED <<world, step, op, req, tries, pre, held, seen, handed>>
         /\ Taken' => Taken \/ (Mine(r) /\ a = "ok" /\ r \notin wire')
         /\ Taken => Taken' /\ ~Mine(r)
<1>1. /\ wire' \subseteq wire /\ wire \subseteq Requests
      /\ \/ r \notin wire' /\ answer' = (IF Mine(r) THEN a ELSE answer)
         \/ "calls" \in world.faults /\ Mine(r) /\ UNCHANGED <<wire, answer>>
      /\ Mine(r) => answer = "none" /\ r.op = op /\ ~Taken
      /\ "calls" \notin world.faults => Mine(r) /\ answer' = a /\ wire' = {}
  BY DeliverFacts DEF IInv, TypeOK
<1>2. UNCHANGED <<world, step, op, req, tries, pre, held, seen, handed>>
  BY DEF Unmoved, reads
<1>3. Control'
  BY <1>1, <1>2 DEF IInv, Control, Mine
<1>4. OnTheWire'
  <2>1. \A q \in wire' : q \in wire /\ (step = "await" /\ q.id = req => answer' = "none")
    BY <1>1 DEF IInv, OnTheWire, Mine
  <2> QED
    BY <1>1, <1>2, <2>1 DEF IInv, OnTheWire, EnvKnown
<1>5. Serial' /\ RunOnly' /\ StartKnown'
  BY <1>1, <1>2 DEF IInv, Serial, RunOnly, StartKnown
<1>6. Taken' => Taken \/ (Mine(r) /\ a = "ok" /\ r \notin wire')
  BY <1>1, <1>2 DEF Taken, Mine
<1>7. Taken => Taken' /\ ~Mine(r)
  BY <1>1, <1>2 DEF Taken, Mine
<1>8. answer' \in {"none", "ok", "role", "refused"}
  BY <1>1 DEF IInv, TypeOK
<1> QED
  BY <1>1, <1>2, <1>3, <1>4, <1>5, <1>6, <1>7, <1>8

LEMMA NewConfig == New \in Configs /\ New.code = "new" /\ New.env = "new"
  BY DEF New, Configs

LEMMA CreateInv ==
  ASSUME IInv, NEW r \in wire, Create(r), UNCHANGED world
  PROVE  IInv'
<1>1. PICK upd \in {"none", "InProgress"} :
        log' = <<[rev |-> 1, active |-> FALSE, upd |-> upd, cfg |-> New, by |-> r.id]>>
  BY DEF Create
<1> DEFINE e == [rev |-> 1, active |-> FALSE, upd |-> upd, cfg |-> New, by |-> r.id]
<1>2. /\ r.op = "create" /\ log = << >> /\ versions' = <<New>> /\ alive' = {1}
      /\ Deliver(r, "ok") /\ Unmoved /\ UNCHANGED <<role, got>>
      /\ TypeOK /\ r \in Requests /\ r.id \in Nat
  BY DEF Create, IInv, TypeOK, Requests
<1>3. e \in Snapshots /\ e.by = r.id /\ e.upd = upd /\ e.cfg = New /\ ~e.active
  BY <1>2, NewConfig DEF Snapshots
<1> HIDE DEF e
<1>4. /\ log' \in Seq(Snapshots) /\ Len(log)' = 1 /\ DOMAIN log' = {1} /\ log'[1] = e
      /\ log' # << >> /\ Last' = e
  BY <1>1, <1>3 DEF e, Last
<1>5. /\ Control' /\ OnTheWire' /\ Serial' /\ RunOnly' /\ StartKnown'
      /\ wire' \subseteq Requests /\ answer' \in {"none", "ok", "role", "refused"}
      /\ UNCHANGED <<world, step, op, req, tries, pre, held, seen, handed>>
      /\ Taken' => Taken \/ (Mine(r) /\ r \notin wire')
      /\ Taken => Taken' /\ ~Mine(r)
  BY <1>2, <1>4, LambdaFrame
<1>6. /\ op \in {"none", "create"} /\ handed = << >> /\ step # "ready" /\ ~Taken
      /\ seen = 0
  BY <1>2, EmptySeq
     DEF IInv, ConfigKept, TypeOK, DeployOps, RunOps, Updates, Control, Taken
<1>7. TypeOK'
  <2>1. versions' \in Seq(Configs) /\ alive' \subseteq DOMAIN versions'
    BY <1>2, NewConfig
  <2> QED
    BY <1>2, <1>4, <1>5, <1>6, <2>1 DEF TypeOK
<1>8. ConfigKept' /\ EnvKept'
  BY <1>3, <1>4, <1>5, <1>6, NewConfig
     DEF ConfigKept, EnvKept, InRun, RunOps, Updates
<1>9. LogSound' /\ Lands'
  BY <1>3, <1>4, <1>5, <1>6 DEF LogSound, Lands, Mine
<1>10. FreshNonces'
  BY <1>5, <1>6 DEF FreshNonces, FreshVersions, Bumped
<1>11. ASSUME Gentle(world)
       PROVE  Calm'
  <2>1. Mine(r) /\ answer' = "ok" /\ op = "create" /\ Calm
    BY <1>2, <1>11, DeliverFacts DEF IInv, Gentle
  <2>2. Taken'
    BY <1>5, <2>1 DEF Mine, Taken
  <2> QED
    BY <1>3, <1>4, <1>5, <2>1, <2>2 DEF Calm, Mine, Updates, DeployFailsForAReason
<1> QED
  BY <1>5, <1>7, <1>8, <1>9, <1>10, <1>11 DEF IInv, Gentle

\* What an update makes of the current snapshot.
LEMMA UpdateFacts ==
  ASSUME IInv, NEW r \in wire, Update(r)
  PROVE  \E e \in Snapshots :
           /\ log' = Append(log, e)
           /\ e.rev = Last.rev + 1 /\ e.upd = "InProgress" /\ e.by = r.id /\ e.active
           /\ e.cfg.code = "new" \/ (Last.cfg.code = "old" /\ r.op # "code")
           /\ EnvKnown(world) =>
                e.cfg.env = "new" \/ (Last.cfg.env = "old" /\ r.op \notin {"config", "bump"})
           /\ r.op = "bump" => e.cfg.nonce = r.nonce
<1> DEFINE c == Effect(r, Last.cfg)
           e == [Last EXCEPT !.rev = @ + 1, !.upd = "InProgress", !.cfg = c, !.by = r.id]
<1>1. /\ r.op \in {"code", "config", "bump"} /\ log # << >> /\ ~Busy
      /\ log' = Append(log, e) /\ TypeOK /\ r \in Requests
      /\ r.op = "bump" => r.env \in {"old", "new"} /\ (EnvKnown(world) => r.env = "new")
  BY DEF Update, IInv, TypeOK, OnTheWire, Requests
<1>2. Last \in Snapshots /\ Last.active /\ Last.cfg \in Configs /\ r.id \in Nat /\ r.nonce \in Nat
  BY <1>1, LastKnown DEF Busy, Snapshots, Requests
<1>3. /\ c \in Configs
      /\ c.code = "new" \/ (Last.cfg.code = "old" /\ r.op # "code")
      /\ EnvKnown(world) =>
           c.env = "new" \/ (Last.cfg.env = "old" /\ r.op \notin {"config", "bump"})
      /\ r.op = "bump" => c.nonce = r.nonce
  <2>1. CASE r.op = "code"
    BY <1>2, <2>1 DEF Effect, Configs
  <2>2. CASE r.op = "config"
    BY <1>2, <2>2 DEF Effect, Configs
  <2>3. CASE r.op = "bump"
    BY <1>1, <1>2, <2>3 DEF Effect, Configs
  <2> QED
    BY <1>1, <2>1, <2>2, <2>3
<1> HIDE DEF c
<1>4. /\ e.rev = Last.rev + 1 /\ e.upd = "InProgress" /\ e.by = r.id
      /\ e.active /\ e.cfg = c
  BY <1>2 DEF Snapshots
<1>5. e \in Snapshots
  <2>1. Last.rev \in Nat \ {0} /\ Last.rev + 1 \in Nat \ {0}
    BY <1>2 DEF Snapshots
  <2> QED
    BY <1>2, <1>3, <2>1 DEF Snapshots
<1> HIDE DEF e
<1> QED
  BY <1>1, <1>3, <1>4, <1>5

\* A snapshot more.
LEMMA Appended ==
  ASSUME TypeOK, NEW e \in Snapshots, log' = Append(log, e)
  PROVE  /\ log' \in Seq(Snapshots) /\ Len(log)' = Len(log) + 1 /\ Len(log) \in Nat
         /\ DOMAIN log = 1 .. Len(log) /\ DOMAIN log' = 1 .. Len(log) + 1
         /\ log' # << >> /\ Last' = e /\ log'[Len(log) + 1] = e
         /\ \A i \in 1 .. Len(log) : log'[i] = log[i]
         /\ seen \in 0 .. Len(log)
<1>1. /\ log' \in Seq(Snapshots) /\ Len(log') = Len(log) + 1 /\ Len(log) \in Nat
      /\ DOMAIN log = 1 .. Len(log) /\ DOMAIN log' = 1 .. Len(log) + 1
      /\ log'[Len(log) + 1] = e
      /\ \A i \in 1 .. Len(log) : log'[i] = log[i]
      /\ seen \in 0 .. Len(log)
  BY DEF TypeOK
<1>2. log' # << >>
  BY <1>1, EmptySeq
<1> QED
  BY <1>1, <1>2 DEF Last

LEMMA UpdateInv ==
  ASSUME IInv, NEW r \in wire, Update(r), UNCHANGED world
  PROVE  IInv'
<1>1. /\ r.op \in Updates /\ log # << >> /\ ~Busy /\ Deliver(r, "ok") /\ Unmoved
      /\ UNCHANGED <<versions, alive, role, got>> /\ TypeOK
  BY DEF Update, IInv, Updates
<1>2. PICK e \in Snapshots :
        /\ log' = Append(log, e)
        /\ e.rev = Last.rev + 1 /\ e.upd = "InProgress" /\ e.by = r.id /\ e.active
        /\ e.cfg.code = "new" \/ (Last.cfg.code = "old" /\ r.op # "code")
        /\ EnvKnown(world) =>
             e.cfg.env = "new" \/ (Last.cfg.env = "old" /\ r.op \notin {"config", "bump"})
        /\ r.op = "bump" => e.cfg.nonce = r.nonce
  BY UpdateFacts
<1>3. /\ log' \in Seq(Snapshots) /\ Len(log)' = Len(log) + 1 /\ Len(log) \in Nat
      /\ DOMAIN log = 1 .. Len(log) /\ DOMAIN log' = 1 .. Len(log) + 1
      /\ log' # << >> /\ Last' = e /\ log'[Len(log) + 1] = e
      /\ \A i \in 1 .. Len(log) : log'[i] = log[i]
      /\ seen \in 0 .. Len(log)
  BY <1>1, <1>2, Appended
<1>4. /\ Control' /\ OnTheWire' /\ Serial' /\ RunOnly' /\ StartKnown'
      /\ wire' \subseteq Requests /\ answer' \in {"none", "ok", "role", "refused"}
      /\ UNCHANGED <<world, step, op, req, tries, pre, held, seen, handed>>
      /\ Taken' => Taken \/ (Mine(r) /\ r \notin wire')
      /\ Taken => Taken' /\ ~Mine(r)
  BY <1>1, <1>3, LambdaFrame
<1>5. /\ Last = log[Len(log)] /\ Last \in Snapshots /\ Len(log) # 0
      /\ Mine(r) => r.op = op /\ ~Taken /\ answer = "none"
  BY <1>1, LastKnown, DeliverFacts
<1>6. TypeOK'
  BY <1>1, <1>3, <1>4 DEF TypeOK
<1>7. LogSound'
  BY <1>2, <1>3, <1>4 DEF IInv, LogSound
<1>8. ConfigKept'
  <2>1. Last.cfg.code = "new" \/ r.op = "code" => e.cfg.code = "new"
    BY <1>2
  <2>2. /\ op = "create" /\ Taken' => e.cfg.code = "new"
        /\ op = "code" /\ Taken' => e.cfg.code = "new"
        /\ op = "config" => e.cfg.code = "new"
    BY <1>1, <1>4, <1>5, <2>1 DEF IInv, ConfigKept, Updates
  <2>3. InRun' => seen # 0 /\ e.cfg.code = "new"
    BY <1>4, <2>1 DEF IInv, ConfigKept, InRun
  <2> QED
    BY <1>3, <1>4, <2>2, <2>3 DEF ConfigKept
<1>9. ASSUME EnvKnown(world)
       PROVE  EnvKept'
  <2>1. /\ Last.cfg.env = "new" \/ r.op = "config" => e.cfg.env = "new"
        /\ EnvKept
    BY <1>2, <1>9 DEF IInv
  <2>2. op \in {"create", "config"} /\ Taken' => e.cfg.env = "new"
    BY <1>1, <1>4, <1>5, <2>1 DEF EnvKept, Updates
  <2>3. ASSUME InRun
        PROVE  \A i \in seen .. Len(log) + 1 : log'[i].cfg.env = "new"
    <3>1. seen # 0 /\ \A i \in seen .. Len(log) : log[i].cfg.env = "new"
      BY <2>1, <2>3 DEF IInv, ConfigKept, EnvKept
    <3>2. Last.cfg.env = "new"
      BY <1>3, <1>5, <3>1
    <3> QED
      BY <1>3, <2>1, <3>1, <3>2
  <2>4. world.start # "old" => \A i \in DOMAIN log' : log'[i].cfg.env = "new"
    <3>1. world.start # "old" => Last.cfg.env = "new"
      BY <1>3, <1>5, <2>1 DEF EnvKept
    <3> QED
      BY <1>3, <2>1, <3>1 DEF EnvKept
  <2>5. InRun' = InRun
    BY <1>4 DEF InRun
  <2> QED
    BY <1>3, <1>4, <2>1, <2>2, <2>3, <2>4, <2>5 DEF EnvKept
<1>10. Lands'
  <2>1. SUFFICES ASSUME op # "publish", Taken'
        PROVE  \E i \in DOMAIN log' :
                 /\ log'[i].by = req
                 /\ i = Len(log)' \/ (log'[i].active /\ log'[i].upd # "InProgress")
    BY <1>4 DEF Lands
  <2>2. CASE Taken
    <3>1. PICK i \in DOMAIN log :
            /\ log[i].by = req
            /\ i = Len(log) \/ (log[i].active /\ log[i].upd # "InProgress")
      BY <2>1, <2>2 DEF IInv, Lands
    <3>2. log[i].active /\ log[i].upd # "InProgress"
      BY <1>1, <1>5, <3>1 DEF Busy
    <3> QED
      BY <1>3, <3>1, <3>2
  <2>3. CASE Mine(r)
    BY <1>2, <1>3, <2>3 DEF Mine
  <2> QED
    BY <1>4, <2>1, <2>2, <2>3
<1>11. ASSUME Undisturbed(world)
       PROVE  FreshNonces'
  <2>1. FreshNonces /\ OnTheWire /\ wire' \subseteq wire
    BY <1>1, <1>11, DeliverFacts DEF IInv
  <2>2. \A i \in DOMAIN handed' :
          handed'[i] \in DOMAIN versions' /\ Spent(versions[handed[i]].nonce)'
    BY <1>1, <1>4, <2>1 DEF FreshNonces, Spent
  <2>3. Bumped' => r.op = "bump" /\ r \notin wire'
    <3>1. CASE Mine(r)
      BY <1>1, <1>4, <1>5, <3>1 DEF Bumped, Mine, Updates
    <3>2. CASE ~Mine(r)
      <4>1. "calls" \in world.faults /\ r \notin wire'
        BY <1>1, <3>2, DeliverFacts
      <4>2. r.op \in RunOps
        BY <1>11, <4>1 DEF IInv, Undisturbed, RunOnly
      <4> QED
        BY <1>1, <4>1, <4>2 DEF RunOps, Updates
    <3> QED
      BY <3>1, <3>2
  <2>4. Bumped' => Unused(Last.cfg.nonce)'
    <3>1. SUFFICES ASSUME Bumped'
          PROVE  Unused(Last.cfg.nonce)'
      OBVIOUS
    <3>2. Last'.cfg.nonce = r.id /\ r.nonce = r.id /\ r.id \in 1 .. req /\ req \in Nat
      BY <1>1, <1>2, <1>3, <2>1, <2>3, <3>1 DEF OnTheWire, TypeOK
    <3>3. \A q \in wire' : q.op = "bump" => q.nonce # r.id
      BY <2>1, <2>3, <3>1 DEF OnTheWire
    <3>4. \A i \in DOMAIN handed : versions[handed[i]].nonce # r.id
      BY <2>1, <2>3, <3>1, <3>2 DEF FreshNonces, Spent
    <3> QED
      BY <1>1, <1>4, <3>2, <3>3, <3>4 DEF Unused, Spent
  <2>5. op' = "publish" /\ (Taken' \/ step' = "activate") =>
          got' \in DOMAIN versions' /\ Unused(versions[got].nonce)'
    BY <1>1, <1>4, <1>5, <2>1 DEF FreshNonces, Unused, Spent, Updates
  <2>6. FreshVersions'
    BY <1>4, <2>1 DEF FreshNonces, FreshVersions
  <2> QED
    BY <2>2, <2>4, <2>5, <2>6 DEF FreshNonces
<1>12. ASSUME Gentle(world)
       PROVE  Calm'
  <2>1. Mine(r) /\ answer' = "ok" /\ op \in Updates /\ ~Taken /\ Calm
    BY <1>1, <1>5, <1>12, DeliverFacts DEF IInv, Gentle
  <2>2. Taken' /\ step = "await"
    BY <1>4, <2>1 DEF Mine, Taken
  <2>3. /\ seen = Len(log) /\ pre = Last.rev /\ Last.rev \in Nat \ {0}
    BY <1>1, <1>5, <2>1, <2>2 DEF Calm, Snapshots
  <2>4. \A i \in seen .. Len(log)' - 1 : log'[i].rev = pre
    BY <1>3, <1>5, <2>3
  <2>5. /\ pre' # 0 /\ seen' # 0 /\ Last'.by = req' /\ Last'.rev > pre' /\ Last'.upd # "none"
    <3>1. e.rev > pre /\ pre # 0 /\ seen # 0 /\ e.by = req /\ e.upd # "none"
      BY <1>2, <1>5, <2>1, <2>3 DEF Mine
    <3> QED
      BY <1>3, <1>4, <3>1
  <2>6. answer' # "refused" /\ op' # "create" /\ op' # "publish" /\ op' \in Updates
        /\ step' = "await"
    BY <1>4, <2>1, <2>2 DEF Updates
  <2>7. \A i \in seen' .. Len(log') - 1 :
          log'[i].rev = pre' \/ ~log'[i].active \/ log'[i].upd = "InProgress"
    BY <1>4, <2>4
  <2> QED
    BY <2>2, <2>5, <2>6, <2>7 DEF Calm, DeployFailsForAReason
<1> QED
  BY <1>4, <1>6, <1>7, <1>8, <1>10, <1>11, <1>12, <1>9 DEF IInv, EnvKnown, Gentle, Undisturbed

\* While the log, what the client is at and what it has read stay as they are, so does
\* what is known of the environment.
LEMMA EnvLeft ==
  ASSUME IInv, UNCHANGED <<world, log, op, step, seen, held>>,
         op # "publish" /\ Taken' => Taken
  PROVE  EnvKnown(world)' => EnvKept'
<1>1. seen \in Nat /\ InRun' = InRun
  BY DEF IInv, TypeOK, InRun
<1>2. op \in RunOps /\ step = "send" /\ EnvKnown(world) => held = "new"
  BY DEF IInv, EnvKept
<1> QED
  BY <1>1, <1>2, EnvStays

LEMMA PublishInv ==
  ASSUME IInv, NEW r \in wire, Publish(r), UNCHANGED world
  PROVE  IInv'
<1>1. /\ r.op = "publish" /\ log # << >> /\ ~Busy /\ Deliver(r, "ok") /\ Unmoved
      /\ UNCHANGED <<log, role>> /\ TypeOK
  BY DEF Publish, IInv, OnTheWire
<1>2. Last' = Last /\ Busy' = Busy /\ Last.cfg \in Configs
  BY <1>1, LastKnown DEF Last, Busy, Snapshots
<1>3. /\ Control' /\ OnTheWire' /\ Serial' /\ RunOnly' /\ StartKnown'
      /\ wire' \subseteq Requests /\ answer' \in {"none", "ok", "role", "refused"}
      /\ UNCHANGED <<world, step, op, req, tries, pre, held, seen, handed>>
      /\ Taken' => Taken \/ (Mine(r) /\ r \notin wire')
      /\ Taken => Taken' /\ ~Mine(r)
  BY <1>1, LambdaFrame
<1>4. /\ Mine(r) => op = "publish" /\ ~Taken /\ answer = "none"
      /\ wire' \subseteq wire
      /\ op # "publish" /\ Taken' => Taken
  BY <1>1, <1>3, DeliverFacts
<1>5. /\ versions' \in Seq(Configs) /\ alive' \subseteq DOMAIN versions'
      /\ Len(versions') \in DOMAIN versions' /\ versions'[Len(versions')] = Last.cfg
      /\ DOMAIN versions \subseteq DOMAIN versions'
      /\ \A j \in DOMAIN versions : versions'[j] = versions[j]
  <2> DEFINE n == Len(versions)
  <2>1. /\ versions \in Seq(Configs) /\ alive \subseteq DOMAIN versions
        /\ n \in Nat /\ DOMAIN versions = 1 .. n
    BY <1>1 DEF TypeOK
  <2>2. CASE n \in alive /\ versions[n] = Last.cfg
    BY <2>1, <2>2 DEF Publish
  <2>3. CASE ~(n \in alive /\ versions[n] = Last.cfg)
    <3>1. versions' = Append(versions, Last.cfg) /\ alive' = alive \cup {n + 1}
      BY <2>3 DEF Publish
    <3> QED
      BY <1>2, <2>1, <3>1
  <2> QED
    BY <2>2, <2>3
<1>6. got' = (IF Mine(r) THEN Len(versions') ELSE got) /\ got' \in Nat
  <2>1. got' = (IF Mine(r) THEN Len(versions') ELSE got)
    BY DEF Publish, Mine
  <2> QED
    BY <1>1, <1>5, <2>1 DEF TypeOK
<1>7. TypeOK' /\ LogSound'
  BY <1>1, <1>3, <1>5, <1>6 DEF TypeOK, IInv, LogSound
<1>8. ConfigKept'
  BY <1>1, <1>2, <1>3, <1>4 DEF IInv, ConfigKept, InRun
<1>9. Lands'
  BY <1>1, <1>3, <1>4 DEF IInv, Lands
<1>10. ASSUME Undisturbed(world)
       PROVE  FreshNonces'
  <2>1. FreshNonces
    BY <1>10 DEF IInv
  <2>2. \A i \in DOMAIN handed :
          handed[i] \in DOMAIN versions' /\ versions'[handed[i]] = versions[handed[i]]
    BY <1>5, <2>1 DEF FreshNonces
  <2>3. \A i \in DOMAIN handed' :
          handed'[i] \in DOMAIN versions' /\ Spent(versions[handed[i]].nonce)'
    BY <1>3, <1>4, <2>1, <2>2 DEF FreshNonces, Spent
  <2>4. Bumped' => Bumped
    BY <1>3, <1>4 DEF Bumped
  <2>5. ASSUME Bumped
        PROVE  Unused(Last.cfg.nonce)'
    BY <1>2, <1>3, <1>4, <2>1, <2>2, <2>5 DEF FreshNonces, Unused, Spent
  <2>6. ASSUME op = "publish", Taken' \/ step = "activate"
        PROVE  got' \in DOMAIN versions' /\ Unused(versions[got].nonce)'
    <3>1. CASE Mine(r)
      <4>1. Bumped
        BY <2>6, <3>1 DEF Bumped, Mine
      <4>2. got' = Len(versions') /\ versions'[got'] = Last.cfg
        BY <1>5, <1>6, <3>1
      <4> QED
        BY <1>2, <1>5, <2>5, <4>1, <4>2 DEF Unused, Spent
    <3>2. CASE ~Mine(r)
      <4>1. got' = got /\ (Taken \/ step = "activate")
        BY <1>3, <1>6, <2>6, <3>2
      <4>2. got \in DOMAIN versions /\ Unused(versions[got].nonce)
        BY <2>1, <2>6, <4>1 DEF FreshNonces
      <4>3. versions'[got'] = versions[got] /\ got' \in DOMAIN versions'
        BY <1>5, <4>1, <4>2
      <4> QED
        BY <1>3, <1>4, <2>2, <4>2, <4>3 DEF Unused, Spent
    <3> QED
      BY <3>1, <3>2
  <2>7. FreshVersions'
    BY <1>3, <2>1 DEF FreshNonces, FreshVersions
  <2> QED
    BY <1>3, <2>3, <2>4, <2>5, <2>6, <2>7 DEF FreshNonces
<1>11. ASSUME Gentle(world)
       PROVE  Calm'
  <2>1. Mine(r) /\ answer' = "ok" /\ op = "publish" /\ Calm
    BY <1>1, <1>4, <1>11, DeliverFacts DEF IInv, Gentle
  <2> QED
    BY <1>1, <1>2, <1>3, <1>4, <2>1 DEF Calm, Mine, Updates, DeployFailsForAReason
<1>12. EnvKnown(world)' => EnvKept'
  BY <1>1, <1>3, <1>4, EnvLeft DEF Mine
<1> QED
  BY <1>3, <1>7, <1>8, <1>9, <1>10, <1>11, <1>12 DEF IInv, Gentle, Undisturbed

LEMMA RejectInv ==
  ASSUME IInv, NEW r \in wire, Reject(r), UNCHANGED world
  PROVE  IInv'
<1> DEFINE a == IF r.op = "create" /\ log = << >> THEN "role" ELSE "refused"
<1>1. /\ IF r.op = "create" THEN log # << >> \/ ~role ELSE Busy
      /\ Deliver(r, a) /\ Unmoved /\ a \in {"role", "refused"}
      /\ a = "role" => r.op = "create"
      /\ UNCHANGED <<log, versions, alive, role, got>> /\ TypeOK
  BY DEF Reject, lambda, IInv
<1>2. Last' = Last /\ Busy' = Busy
  BY <1>1 DEF Last, Busy
<1>3. /\ Control' /\ OnTheWire' /\ Serial' /\ RunOnly' /\ StartKnown'
      /\ wire' \subseteq Requests /\ answer' \in {"none", "ok", "role", "refused"}
      /\ UNCHANGED <<world, step, op, req, tries, pre, held, seen, handed>>
      /\ Taken' = Taken
  <2> HIDE DEF a
  <2>1. a \in {"ok", "role", "refused"} /\ a # "ok" /\ (log # << >> => log' # << >>)
    BY <1>1
  <2>2. /\ Control' /\ OnTheWire' /\ Serial' /\ RunOnly' /\ StartKnown'
        /\ wire' \subseteq Requests /\ answer' \in {"none", "ok", "role", "refused"}
        /\ UNCHANGED <<world, step, op, req, tries, pre, held, seen, handed>>
        /\ Taken' => Taken \/ (Mine(r) /\ a = "ok" /\ r \notin wire')
        /\ Taken => Taken' /\ ~Mine(r)
    BY <1>1, <2>1, LambdaFrame
  <2>3. Taken' = Taken
    BY <2>1, <2>2 DEF Taken
  <2> QED
    BY <2>2, <2>3
<1>4. wire' \subseteq wire /\ (Mine(r) => op = r.op /\ ~Taken)
  BY <1>1, DeliverFacts
<1>5. TypeOK' /\ LogSound' /\ Lands'
  BY <1>1, <1>3 DEF TypeOK, IInv, LogSound, Lands
<1>6. ConfigKept'
  BY <1>1, <1>2, <1>3 DEF IInv, ConfigKept, InRun
<1>7. Undisturbed(world) => FreshNonces'
  BY <1>1, <1>2, <1>3, <1>4, FreshKept DEF IInv, Bumped
<1>8. ASSUME Gentle(world)
      PROVE  Calm'
  <2>1. Mine(r) /\ answer' = a /\ Calm /\ op = r.op /\ ~Taken /\ step = "await"
    BY <1>1, <1>4, <1>8, DeliverFacts DEF IInv, Gentle, Mine
  <2>2. log # << >> => ~Busy
    BY <2>1 DEF Calm
  <2>3. r.op = "create" /\ log = << >>
    <3>1. CASE r.op = "create"
      BY <2>1, <3>1 DEF Calm
    <3>2. CASE r.op # "create"
      BY <1>1, <2>2, <3>2 DEF IInv, OnTheWire
    <3> QED
      BY <3>1, <3>2
  <2>4. answer' = "role"
    BY <2>1, <2>3
  <2> QED
    BY <1>1, <1>2, <1>3, <2>1, <2>3, <2>4 DEF Calm, Updates, DeployFailsForAReason
<1>9. EnvKnown(world)' => EnvKept'
  BY <1>1, <1>3, EnvLeft
<1> QED
  BY <1>3, <1>5, <1>6, <1>7, <1>8, <1>9 DEF IInv, Gentle, Undisturbed

LEMMA SettleInv ==
  ASSUME IInv, Settle, UNCHANGED world
  PROVE  IInv'
<1>1. /\ log # << >> /\ Busy /\ TypeOK
      /\ UNCHANGED <<world, versions, alive, role, wire, answer, got, step, op, req, tries,
                     pre, held, seen, handed>>
  BY DEF Settle, Unmoved, reads, IInv
<1>2. PICK upd \in {"Successful", "none", "Failed"}, d \in {0, 1} :
        /\ log' = Append(log, [Last EXCEPT !.rev = @ + d, !.active = TRUE, !.upd = upd])
        /\ upd = "none" => Last.upd = "none"
        /\ upd = "Failed" => "updates" \in world.faults
  BY DEF Settle
<1> DEFINE e == [Last EXCEPT !.rev = @ + d, !.active = TRUE, !.upd = upd]
<1>3. /\ Last \in Snapshots /\ Last = log[Len(log)] /\ Len(log) # 0
      /\ Last.rev \in Nat \ {0} /\ Last.rev + d \in Nat \ {0}
  BY <1>1, LastKnown DEF Snapshots
<1>4. /\ e \in Snapshots /\ e.rev = Last.rev + d /\ e.active /\ e.upd = upd
      /\ e.cfg = Last.cfg /\ e.by = Last.by
  BY <1>3 DEF Snapshots
<1>5. log' = Append(log, e)
  BY <1>2
<1> HIDE DEF e
<1>6. /\ log' \in Seq(Snapshots) /\ Len(log)' = Len(log) + 1 /\ Len(log) \in Nat
      /\ DOMAIN log = 1 .. Len(log) /\ DOMAIN log' = 1 .. Len(log) + 1
      /\ log' # << >> /\ Last' = e /\ log'[Len(log) + 1] = e
      /\ \A i \in 1 .. Len(log) : log'[i] = log[i]
      /\ seen \in 0 .. Len(log)
  BY <1>1, <1>4, <1>5, Appended
<1>7. Taken' = Taken /\ Bumped' = Bumped
  BY <1>1 DEF Taken, Bumped
<1>8. TypeOK' /\ LogSound'
  BY <1>1, <1>2, <1>4, <1>6 DEF TypeOK, IInv, LogSound
<1>9. Control' /\ OnTheWire' /\ Serial' /\ RunOnly' /\ StartKnown'
  BY <1>1, <1>6 DEF IInv, Control, OnTheWire, Serial, RunOnly, StartKnown
<1>10. ConfigKept'
  <2>1. Last'.cfg = Last.cfg
    BY <1>4, <1>6
  <2> QED
    BY <1>1, <1>6, <1>7, <2>1 DEF IInv, ConfigKept, InRun
<1>11. ASSUME EnvKnown(world)
       PROVE  EnvKept'
  <2>1. EnvKept /\ Last'.cfg = Last.cfg /\ InRun' = InRun
    BY <1>1, <1>4, <1>6, <1>11 DEF IInv, InRun
  <2>2. ASSUME InRun
        PROVE  \A i \in seen .. Len(log) + 1 : log'[i].cfg.env = "new"
    <3>1. seen # 0 /\ \A i \in seen .. Len(log) : log[i].cfg.env = "new"
      BY <2>1, <2>2 DEF IInv, ConfigKept, EnvKept
    <3>2. Last.cfg.env = "new"
      BY <1>3, <1>6, <3>1
    <3>3. e.cfg.env = "new"
      BY <1>4, <3>2
    <3>4. SUFFICES ASSUME NEW i \in seen .. Len(log) + 1
          PROVE  log'[i].cfg.env = "new"
      OBVIOUS
    <3>5. i \in seen .. Len(log) \/ i = Len(log) + 1
      BY <1>6
    <3>6. i \in seen .. Len(log) => log'[i] = log[i]
      BY <1>6, <3>1
    <3> QED
      BY <1>6, <3>1, <3>3, <3>5, <3>6
  <2>3. world.start # "old" => \A i \in DOMAIN log' : log'[i].cfg.env = "new"
    <3>1. world.start # "old" => Last.cfg.env = "new"
      BY <1>3, <1>6, <2>1 DEF EnvKept
    <3> QED
      BY <1>4, <1>6, <2>1, <3>1 DEF EnvKept
  <2> QED
    BY <1>1, <1>6, <1>7, <2>1, <2>2, <2>3 DEF EnvKept
<1>12. Lands'
  <2>1. SUFFICES ASSUME op # "publish", Taken
        PROVE  \E i \in DOMAIN log' :
                 /\ log'[i].by = req
                 /\ i = Len(log)' \/ (log'[i].active /\ log'[i].upd # "InProgress")
    BY <1>1, <1>7 DEF Lands
  <2>2. PICK i \in DOMAIN log :
          /\ log[i].by = req
          /\ i = Len(log) \/ (log[i].active /\ log[i].upd # "InProgress")
    BY <2>1 DEF IInv, Lands
  <2>3. CASE i = Len(log)
    BY <1>3, <1>4, <1>6, <2>2, <2>3
  <2>4. CASE i # Len(log)
    BY <1>6, <2>2, <2>4
  <2> QED
    BY <2>3, <2>4
<1>13. Undisturbed(world) => FreshNonces'
  BY <1>1, <1>4, <1>6, <1>7, FreshKept DEF IInv
<1>14. ASSUME Gentle(world)
       PROVE  Calm'
  <2>1. Calm /\ Taken /\ op # "publish"
    BY <1>1, <1>14 DEF IInv, Calm
  <2>2. ASSUME op \in Updates
        PROVE  /\ pre' # 0 /\ seen' # 0 /\ Last'.by = req' /\ Last'.rev > pre'
               /\ Last'.upd # "none"
               /\ \A i \in seen' .. Len(log') - 1 :
                    log'[i].rev = pre' \/ ~log'[i].active \/ log'[i].upd = "InProgress"
    <3>1. /\ pre # 0 /\ seen # 0 /\ Last.by = req /\ Last.rev > pre /\ Last.upd # "none"
          /\ \A i \in seen .. Len(log) - 1 :
               log[i].rev = pre \/ ~log[i].active \/ log[i].upd = "InProgress"
      BY <2>1, <2>2 DEF Calm
    <3>2. ~log[Len(log)].active \/ log[Len(log)].upd = "InProgress"
      BY <1>1, <1>3 DEF Busy
    <3>3. \A i \in seen .. Len(log) :
            log'[i].rev = pre \/ ~log'[i].active \/ log'[i].upd = "InProgress"
      BY <1>6, <3>1, <3>2
    <3>4. e.by = req /\ e.rev > pre /\ e.upd # "none"
      <4>1. pre \in Nat
        BY <1>1 DEF TypeOK
      <4> QED
        BY <1>2, <1>3, <1>4, <3>1, <4>1
    <3> QED
      BY <1>1, <1>6, <3>1, <3>3, <3>4
  <2>3. op = "create" => Last'.by = req'
    BY <1>1, <1>4, <1>6, <2>1 DEF Calm
  <2>4. step # "failed"
    BY <2>1 DEF Taken
  <2> QED
    BY <1>1, <1>7, <2>1, <2>2, <2>3, <2>4 DEF Calm, DeployFailsForAReason
<1> QED
  BY <1>1, <1>8, <1>9, <1>10, <1>12, <1>13, <1>14, <1>11 DEF IInv, EnvKnown, Gentle, Undisturbed

\* A step that changes nothing but whether the role has propagated.
LEMMA StillInv ==
  ASSUME IInv, role' \in BOOLEAN,
         UNCHANGED <<world, log, versions, alive, wire, step, op, pre, held, req, answer,
                     tries, seen, got, handed>>
  PROVE  IInv'
<1>1. Last' = Last /\ Busy' = Busy /\ Taken' = Taken /\ Bumped' = Bumped
  BY DEF Last, Busy, Taken, Bumped
<1>2. TypeOK' /\ Control' /\ OnTheWire' /\ LogSound' /\ Serial' /\ RunOnly'
      /\ StartKnown' /\ Lands'
  BY <1>1 DEF IInv, TypeOK, Control, OnTheWire, EnvKnown, LogSound, Serial, RunOnly, StartKnown, Lands
<1>3. ConfigKept'
  BY <1>1 DEF IInv, ConfigKept, InRun
<1>4. Undisturbed(world) => FreshNonces'
  BY <1>1, FreshKept DEF IInv
<1>5. Gentle(world) => Calm'
  BY <1>1 DEF IInv, Calm, DeployFailsForAReason
<1>6. EnvKnown(world)' => EnvKept'
  BY <1>1, EnvLeft
<1> QED
  BY <1>2, <1>3, <1>4, <1>5, <1>6 DEF IInv, Gentle, Undisturbed

-----------------------------------------------------------------------------
(* The theorems.                                                           *)

LEMMA InitInv ==
  ASSUME Init
  PROVE  IInv
<1>1. /\ world \in Worlds /\ world \in PossibleWorlds /\ versions = << >> /\ alive = {}
      /\ role \in BOOLEAN /\ wire = {} /\ op = "none" /\ pre = 0 /\ held = "none"
      /\ req = 0 /\ answer = "none" /\ tries = 0 /\ seen = Len(log) /\ got = 0
      /\ handed = << >>
      /\ step = IF world.start = "deployed" THEN "ready" ELSE "probe"
  BY ControlAssumption DEF Init
<1> DEFINE c == IF world.start = "old" THEN Old ELSE New
           e == [rev |-> 1, active |-> TRUE, upd |-> "Successful", by |-> 0, cfg |-> c]
<1>2. log = IF world.start = "absent" THEN << >> ELSE <<e>>
  BY DEF Init
<1>3. c \in Configs /\ (world.start # "old" => c.code = "new" /\ c.env = "new")
  BY DEF Old, New, Configs
<1> HIDE DEF c
<1>4. e \in Snapshots /\ e.active /\ e.upd = "Successful" /\ e.cfg = c
  BY <1>3 DEF Snapshots
<1> HIDE DEF e
<1>5. CASE world.start = "absent"
  <2>1. log = << >> /\ log \in Seq(Snapshots) /\ Len(log) = 0 /\ DOMAIN log = {}
    BY <1>2, <1>5, EmptySeq
  <2>2. TypeOK
    BY <1>1, <2>1, EmptySeq DEF TypeOK
  <2>3. step = "probe" /\ ~Taken /\ ~Bumped
    BY <1>1, <1>5 DEF Taken, Bumped
  <2> QED
    BY <1>1, <1>5, <2>1, <2>2, <2>3, EmptySeq
       DEF IInv, Control, OnTheWire, LogSound, ConfigKept, EnvKept, InRun,
           Serial, RunOnly, StartKnown, Lands, FreshNonces, FreshVersions, Calm,
           DeployFailsForAReason, Updates, RunOps
<1>6. CASE world.start # "absent"
  <2>1. log = <<e>> /\ log \in Seq(Snapshots) /\ Len(log) = 1 /\ DOMAIN log = {1}
        /\ log[1] = e /\ log # << >>
    BY <1>2, <1>4, <1>6
  <2>2. Last = e /\ ~Busy /\ ~Taken /\ ~Bumped
    BY <1>1, <1>4, <2>1 DEF Last, Busy, Taken, Bumped
  <2>3. TypeOK
    BY <1>1, <2>1, EmptySeq DEF TypeOK
  <2>4. ConfigKept /\ EnvKept
    BY <1>1, <1>3, <1>4, <2>1, <2>2
       DEF ConfigKept, EnvKept, InRun, Updates, RunOps, PossibleWorlds
  <2>5. LogSound /\ StartKnown /\ Lands
    BY <1>4, <2>1, <2>2 DEF LogSound, StartKnown, Lands
  <2>6. Control /\ OnTheWire /\ Serial /\ RunOnly
    BY <1>1 DEF Control, OnTheWire, Serial, RunOnly
  <2>7. FreshNonces /\ Calm
    BY <1>1, <2>2, EmptySeq
       DEF FreshNonces, FreshVersions, Calm, DeployFailsForAReason, Updates
  <2> QED
    BY <2>3, <2>4, <2>5, <2>6, <2>7 DEF IInv
<1> QED
  BY <1>5, <1>6

LEMMA ClientInv ==
  ASSUME IInv, Client, UNCHANGED world
  PROVE  IInv'
<1>1. CASE Probe
  BY <1>1, ProbeInv
<1>2. CASE Read
  BY <1>2, ReadInv
<1>3. CASE Send
  BY <1>3, SendInv
<1>4. CASE Answered
  BY <1>4, AnsweredInv
<1>5. CASE CallErrs
  BY <1>5, CallErrsInv
<1>6. CASE WaitReady
  BY <1>6, WaitReadyInv
<1>7. CASE WaitTimesOut
  BY <1>7, WaitTimesOutInv
<1>8. CASE VersionActive
  BY <1>8, VersionActiveInv
<1>9. CASE EndCycle
  BY <1>9, EndCycleInv
<1>10. CASE Bump
  BY <1>10, BumpInv
<1>11. CASE Redeploy
  BY <1>11, RedeployInv
<1> QED
  BY <1>1, <1>2, <1>3, <1>4, <1>5, <1>6, <1>7, <1>8, <1>9, <1>10, <1>11 DEF Client

LEMMA LambdaInv ==
  ASSUME IInv, Lambda, UNCHANGED world
  PROVE  IInv'
<1>1. CASE \E r \in wire : Create(r) \/ Update(r) \/ Publish(r) \/ Reject(r)
  <2>1. PICK r \in wire : Create(r) \/ Update(r) \/ Publish(r) \/ Reject(r)
    BY <1>1
  <2> QED
    BY <2>1, CreateInv, UpdateInv, PublishInv, RejectInv
<1>2. CASE Settle
  BY <1>2, SettleInv
<1>3. CASE RolePropagates
  <2>1. /\ role' = TRUE
        /\ UNCHANGED <<world, log, versions, alive, wire, step, op, pre, held, req, answer,
                       tries, seen, got, handed>>
    BY <1>3 DEF RolePropagates, Unmoved, reads
  <2> QED
    BY <2>1, StillInv
<1> QED
  BY <1>1, <1>2, <1>3 DEF Lambda

LEMMA StepInv ==
  ASSUME IInv, [Next]_vars
  PROVE  IInv'
<1>1. CASE Next
  BY <1>1, ClientInv, LambdaInv DEF Next
<1>2. CASE UNCHANGED vars
  <2>1. UNCHANGED <<world, log, versions, alive, role, wire, step, op, pre, held, req, answer,
                    tries, seen, got, handed>>
    BY <1>2 DEF vars, lambda, call, reads
  <2> QED
    BY <2>1, StillInv DEF IInv, TypeOK
<1> QED
  BY <1>1, <1>2

\* When wait_ready returns, its last poll read a snapshot that it took for landed.
LEMMA WaitOver ==
  ASSUME IInv, Next, step = "settle", WaitReturns
  PROVE  \E i \in Visible :
           /\ i # 0 /\ log[i].active /\ Settled(log[i]) /\ RevisionAdvanced(log[i])
<1>1. op \in {"create"} \cup Updates
  BY DEF IInv, Control
<1>2. ~Fail
  BY <1>1 DEF Fail, WaitReturns, Updates
<1>3. step' # step
  BY DEF WaitReturns
<1>4. ~Lambda
  BY <1>3 DEF Lambda, Create, Update, Publish, Reject, Settle, RolePropagates, Unmoved
<1>5. ~(Probe \/ Read \/ Send \/ Answered \/ CallErrs)
  BY DEF Probe, Read, Send, Answered, CallErrs
<1>6. ~(WaitTimesOut \/ VersionActive \/ EndCycle \/ Bump \/ Redeploy)
  BY <1>2 DEF WaitTimesOut, VersionActive, EndCycle, Bump, Redeploy
<1>7. WaitReady
  BY <1>4, <1>5, <1>6 DEF Next, Client
<1> QED
  BY <1>2, <1>3, <1>7 DEF WaitReady

\* What a client knows of its function, in every world: see IInv.
THEOREM ControlInductive == Spec => []IInv
  BY InitInv, StepInv, PTL DEF Spec

\* No bump takes back the code that was deployed, nor its environment (lambda.rs
\* `bump_cold_nonce`, which resends the environment it read): on a new or a deployed
\* function whatever calls fail, come late or are repeated, whatever updates fail and
\* however old the reads; on one that an earlier deploy left with another environment
\* if reads are current, or nothing else goes wrong.
THEOREM DeployedConfigStays ==
  ASSUME \A w \in Worlds :
           w.start = "old" /\ "lag" \in w.faults =>
             "calls" \notin w.faults /\ "updates" \notin w.faults
  PROVE  Spec => []DeployedConfigKept
<1>1. IInv => DeployedConfigKept
  <2> SUFFICES ASSUME IInv, InRun
      PROVE  Last.cfg.code = "new" /\ Last.cfg.env = "new"
    BY DEF DeployedConfigKept
  <2>1. TypeOK /\ ConfigKept /\ EnvKept /\ log # << >>
    BY DEF IInv, TypeOK, EnvKnown, ConfigKept, InRun, RunOps
  <2>2. Len(log) \in seen .. Len(log)
    BY <2>1, LastKnown DEF TypeOK
  <2> QED
    BY <2>1, <2>2 DEF ConfigKept, EnvKept, Last
<1> QED
  BY <1>1, ControlInductive, PTL

\* No version is measured twice, for any faults and any number of requests, unless late
\* requests of the deploy reach the run (lambda.rs `force_cold` and `publish_version`:
\* each bump has a nonce of its own).
THEOREM VersionsFresh ==
  ASSUME \A w \in Worlds : Undisturbed(w)
  PROVE  Spec => []FreshVersions
<1>1. IInv => FreshVersions
  BY DEF IInv, TypeOK, FreshNonces
<1> QED
  BY <1>1, ControlInductive, PTL

\* While calls work, a client that waits for each of its updates is never refused the
\* next (lambda.rs `wait_ready`), if old reads do not meet failing updates or a function
\* that has only just been created.
THEOREM NeverRefusedCorrect ==
  ASSUME \A w \in Worlds :
           "calls" \notin w.faults /\ "lag" \in w.faults =>
             "updates" \notin w.faults /\ w.start # "absent"
  PROVE  Spec => []NeverRefused
<1>1. IInv => NeverRefused
  BY DEF IInv, TypeOK, Gentle, Calm, NeverRefused
<1> QED
  BY <1>1, ControlInductive, PTL

\* In the same worlds a deploy never waits for a status that does not come
\* (lambda.rs `wait_ready`, which takes an absent status for success on a creation).
THEOREM DeployFailsCorrect ==
  ASSUME \A w \in Worlds :
           "calls" \notin w.faults /\ "lag" \in w.faults =>
             "updates" \notin w.faults /\ w.start # "absent"
  PROVE  Spec => []DeployFailsForAReason
<1>1. IInv => DeployFailsForAReason
  BY DEF IInv, TypeOK, Gentle, Calm, DeployFailsForAReason
<1> QED
  BY <1>1, ControlInductive, PTL

\* When wait_ready returns, the request it waited for has landed: with current reads and
\* no failing update, calls may fail, come late or be repeated as they like; and while
\* calls work, reads may be old or updates may fail (lambda.rs `force_cold`'s comment).
THEOREM ReadyCorrect ==
  ASSUME \A w \in Worlds : Gentle(w) \/ w.faults = {"calls"}
  PROVE  Spec => ReadyMeansLanded
<1> DEFINE Ready ==
      step = "settle" /\ WaitReturns =>
        \E i \in DOMAIN log :
          log[i].by = req /\ log[i].active /\ log[i].upd \in {"none", "Successful"}
<1>1. IInv /\ [Next]_vars => [Ready]_vars
  <2> SUFFICES ASSUME IInv, Next, step = "settle", WaitReturns
      PROVE  \E i \in DOMAIN log :
               log[i].by = req /\ log[i].active /\ log[i].upd \in {"none", "Successful"}
    OBVIOUS
  <2>1. /\ TypeOK /\ Taken /\ op \in {"create"} \cup Updates /\ log # << >> /\ LogSound
        /\ Len(log) \in DOMAIN log
    BY LastKnown DEF IInv, Taken, Control, ConfigKept
  <2>2. PICK i \in Visible :
          i # 0 /\ log[i].active /\ Settled(log[i]) /\ RevisionAdvanced(log[i])
    BY WaitOver
  <2>3. i \in DOMAIN log /\ log[i].active /\ log[i].upd \in {"none", "Successful"}
    BY <2>1, <2>2, VisibleFacts DEF Settled
  <2>4. CASE Gentle(world)
    <3>1. i = Len(log)
      BY <2>2, <2>4, PollFacts
    <3>2. log[i].by = req
      BY <2>1, <2>4, <3>1 DEF IInv, Calm, Last
    <3> QED
      BY <2>3, <3>2
  <2>5. CASE world.faults = {"calls"}
    <3>1. i = Len(log)
      BY <2>1, <2>5, VisibleFacts
    <3>2. PICK j \in DOMAIN log :
            /\ log[j].by = req
            /\ j = Len(log) \/ (log[j].active /\ log[j].upd # "InProgress")
      BY <2>1 DEF IInv, Lands, Updates
    <3>3. CASE j = Len(log)
      BY <2>3, <3>1, <3>2, <3>3
    <3>4. CASE j # Len(log)
      <4>1. log[j].upd # "Failed"
        BY <2>1, <2>5 DEF LogSound
      <4>2. log[j] \in Snapshots
        BY <2>1, ElementOfSeq DEF TypeOK
      <4>3. log[j].upd \in {"none", "Successful"}
        BY <3>2, <3>4, <4>1, <4>2 DEF Snapshots
      <4> QED
        BY <3>2, <3>4, <4>3
    <3> QED
      BY <3>3, <3>4
  <2> QED
    BY <2>1, <2>4, <2>5 DEF TypeOK
<1>2. Spec => [][Ready]_vars
  BY <1>1, ControlInductive, PTL DEF Spec
<1> QED
  BY <1>2 DEF ReadyMeansLanded
=============================================================================
