------------------------ MODULE Provisioning_proofs ------------------------
(***************************************************************************)
(* Proofs about Provisioning, for every number of functions, keys and      *)
(* faults, and every sequence of deploys and teardowns: a deploy that says *)
(* it succeeded left everything in place, one that failed had a call fail, *)
(* and a teardown that ran to its end reported all that it left.           *)
(***************************************************************************)
EXTENDS Provisioning, SequenceTheorems, FiniteSetTheorems, TLAPS

Keys == [state : KeyStates, tagged : BOOLEAN]

Account == [role : SUBSET (RoleParts \cup {"boundary"}), table : TableStates,
            keys : Seq(Keys), alias : Nat, bucket : SUBSET BucketParts,
            functions : [Fns -> Nat], groups : SUBSET Fns, repo : BOOLEAN]

TypeOK ==
  /\ account \in Account
  /\ step \in DeploySteps \cup TeardownSteps \cup {"idle"}
  /\ cells \subseteq Fns /\ hosted \in BOOLEAN /\ key \in Nat
  /\ failures \subseteq Classes /\ clean \in BOOLEAN

\* The steps of a deploy from a step on, those of the table and the key apart.
FromWire == {"wire"}
FromPayloads == {"payloads"} \cup FromWire
FromObject == {"object"} \cup FromPayloads
FromHardened == {"hardened"} \cup FromObject
FromBucket == {"bucket"} \cup FromHardened
FromAlias == {"alias", "undo"} \cup FromBucket
FromKey == {"key"} \cup FromAlias
FromTable == {"table", "gone", "active", "seed"} \cup FromKey
FromInline == {"inline"} \cup FromTable
FromLogging == {"logging"} \cup FromInline

\* What a deploy has in place at a step: every step passed has left its part there,
\* and no error was collected without a call that failed.
RoleInPlace ==
  /\ step \in FromLogging => "role" \in account.role /\ (hosted => "boundary" \in account.role)
  /\ step \in FromInline => "logging" \in account.role
  /\ step \in FromTable => "inline" \in account.role

TableInPlace ==
  /\ step = "active" => account.table \in Present
  /\ step = "seed" => account.table \in {"active", "seeded"}
  /\ step \in FromKey => account.table = "seeded"

BucketInPlace ==
  /\ step \in FromHardened => "bucket" \in account.bucket
  /\ step \in FromObject => "hardened" \in account.bucket
  /\ step \in FromPayloads => "object" \in account.bucket
  /\ step \in FromWire => "payloads" \in account.bucket

FunctionsWired ==
  /\ step \in FromAlias => key # 0
  /\ step = "wire" => \A f \in cells : f \in work \/ failures # {} \/ account.functions[f] = key

FaultsKnown ==
  /\ step \in DeploySteps /\ failures # {} => ~clean
  /\ step = "undo" => ~clean

\* What a teardown has reclaimed or reported at a step.
FromRepo == {"repo"}
FromSweep == {"sweep"} \cup FromRepo
FromSchedule == {"schedule"} \cup FromSweep
FromUnalias == {"unalias"} \cup FromSchedule
FromObjects == {"objects"} \cup FromUnalias
FromDrop == {"drop"} \cup FromObjects
FromDetach == {"detach", "uninline", "unrole"} \cup FromDrop
FromLogs == {"logs"} \cup FromDetach

FunctionsGone ==
  /\ step = "functions" =>
       \A f \in Fns : f \in work \/ account.functions[f] = 0 \/ "functions" \in failures
  /\ step \in FromLogs =>
       "functions" \in failures \/ \A f \in Fns : account.functions[f] = 0

LogsGone ==
  /\ step = "logs" => account.groups \subseteq work \/ "logs" \in failures
  /\ step \in FromDetach => account.groups = {} \/ "logs" \in failures

RoleGone ==
  /\ step = "uninline" => "logging" \notin account.role
  /\ step = "unrole" => account.role \subseteq {"role", "boundary"}
  /\ step \in FromDrop => account.role = {} \/ "role" \in failures

TableGone ==
  step \in FromObjects => account.table \in {"absent", "deleting"} \/ "table" \in failures

BucketGone ==
  step \in FromUnalias => account.bucket = {} \/ "s3" \in failures

\* A key is ours by the tag it was created with, so that the sweep misses none.
KeysGone ==
  /\ \A k \in DOMAIN account.keys : account.keys[k].tagged
  /\ step \in FromSchedule => account.alias = 0 \/ "key" \in failures
  /\ step = "sweep" =>
       \A k \in DOMAIN account.keys :
         account.keys[k].state = "enabled" => k \in work \/ "sweep" \in failures
  /\ step = "repo" =>
       "sweep" \in failures
         \/ \A k \in DOMAIN account.keys : account.keys[k].state # "enabled"

InPlace ==
  RoleInPlace /\ TableInPlace /\ BucketInPlace /\ FunctionsWired /\ FaultsKnown
Reclaimed ==
  FunctionsGone /\ LogsGone /\ RoleGone /\ TableGone /\ BucketGone /\ KeysGone

IInv == TypeOK /\ InPlace /\ Reclaimed /\ Deployed /\ LeftoversReported /\ DeployFailsForAReason

-----------------------------------------------------------------------------
(* Calls, and the two ways to end.                                         *)

\* A call that is answered ok took effect; a fault leaves its mark.
LEMMA AnswerFacts ==
  ASSUME TypeOK, NEW a \in BOOLEAN, NEW c \in Answers(a), Charge(c, a)
  PROVE  /\ c.took \in BOOLEAN /\ c.ok \in BOOLEAN
         /\ c.ok => c.took /\ a
         /\ ~a => ~c.took
         /\ clean' \in BOOLEAN
         /\ c.ok => clean' = clean
         /\ a /\ ~c.ok => ~clean'
         /\ ~clean => ~clean'
<1>1. clean \in BOOLEAN /\ clean' = (clean /\ ~(a /\ ~c.ok))
  BY DEF Charge, TypeOK
<1>2. /\ c.took \in BOOLEAN /\ c.ok \in BOOLEAN
      /\ c.ok => c.took /\ a
      /\ ~a => ~c.took
  <2>1. CASE a
    <3>1. c \in {x \in [took : BOOLEAN, ok : BOOLEAN] :
                   (x.ok => x.took) /\ (x.ok \/ faults < MaxFaults)}
      BY <2>1 DEF Answers
    <3>2. c \in [took : BOOLEAN, ok : BOOLEAN] /\ (c.ok => c.took)
      BY <3>1
    <3> QED
      BY <2>1, <3>2
  <2>2. CASE ~a
    <3>1. c = [took |-> FALSE, ok |-> FALSE]
      BY <2>2 DEF Answers
    <3>2. c.took = FALSE /\ c.ok = FALSE
      BY <3>1
    <3> QED
      BY <2>2, <3>2
  <2> QED
    BY <2>1, <2>2
<1>3. (clean /\ ~(a /\ ~c.ok)) \in BOOLEAN
  OBVIOUS
<1>4. clean' \in BOOLEAN
  BY <1>1, <1>3, Zenon
<1> QED
  BY <1>1, <1>2, <1>4

\* A call of a deploy leads to the next step, or its failure to the end.
LEMMA DeployCallFacts ==
  ASSUME TypeOK, NEW a \in BOOLEAN, NEW c \in Answers(a), Charge(c, a),
         NEW next \in DeploySteps, DeployCall(c, next)
  PROVE  /\ step' \in DeploySteps \cup TeardownSteps \cup {"idle"}
         /\ \/ c.ok /\ c.took /\ step' = next /\ work' = Work(next) /\ clean' = clean
            \/ /\ ~c.ok /\ step' = "idle" /\ last' = "deployFailed"
               /\ a => ~clean'
  BY AnswerFacts DEF DeployCall, Enter, EndWith

\* What a step of a running deploy has to show.
LEMMA DeployGoesOn ==
  ASSUME IInv, TypeOK', step' \in DeploySteps, InPlace',
         \A k \in DOMAIN account'.keys : account'.keys[k].tagged
  PROVE  IInv'
<1>1. step' \notin TeardownSteps \cup {"idle"}
  BY DEF DeploySteps, TeardownSteps
<1>2. Reclaimed'
  BY <1>1 DEF Reclaimed, FunctionsGone, LogsGone, RoleGone, TableGone, BucketGone,
     KeysGone, TeardownSteps, FromLogs, FromDetach, FromDrop, FromObjects,
     FromUnalias, FromSchedule, FromSweep, FromRepo
<1> QED
  BY <1>1, <1>2 DEF IInv, Deployed, LeftoversReported, DeployFailsForAReason

\* With no command running there is nothing to keep track of but the keys' tags.
LEMMA IdleRest ==
  ASSUME step' = "idle", \A k \in DOMAIN account'.keys : account'.keys[k].tagged
  PROVE  InPlace' /\ Reclaimed'
<1>1. Reclaimed'
  BY DEF Reclaimed, FunctionsGone, LogsGone, RoleGone, TableGone, BucketGone,
     KeysGone, FromLogs, FromDetach, FromDrop, FromObjects,
     FromUnalias, FromSchedule, FromSweep, FromRepo
<1>2. InPlace'
  BY DEF InPlace, RoleInPlace, TableInPlace, BucketInPlace, FunctionsWired,
     FaultsKnown, FromLogging, FromInline, FromTable, FromKey, FromAlias,
     FromBucket, FromHardened, FromObject, FromPayloads, FromWire, DeploySteps
<1> QED
  BY <1>1, <1>2

\* What a command has to show that ends without having succeeded.
LEMMA EndsShort ==
  ASSUME IInv, TypeOK', step' = "idle", last' \notin {"deployed", "tornDown"},
         last' = "deployFailed" => ~clean',
         \A k \in DOMAIN account'.keys : account'.keys[k].tagged
  PROVE  IInv'
  BY IdleRest DEF IInv, Deployed, LeftoversReported, DeployFailsForAReason

\* What a step of a running teardown has to show.
LEMMA TeardownGoesOn ==
  ASSUME IInv, TypeOK', step' \in TeardownSteps, Reclaimed'
  PROVE  IInv'
<1>1. step' \notin DeploySteps \cup {"idle"}
  BY DEF DeploySteps, TeardownSteps
<1>2. InPlace'
  BY <1>1 DEF InPlace, RoleInPlace, TableInPlace, BucketInPlace, FunctionsWired,
     FaultsKnown, FromLogging, FromInline, FromTable, FromKey, FromAlias,
     FromBucket, FromHardened, FromObject, FromPayloads, FromWire, DeploySteps
<1> QED
  BY <1>1, <1>2 DEF IInv, Deployed, LeftoversReported, DeployFailsForAReason

-----------------------------------------------------------------------------
(* deploy.                                                                 *)

LEMMA StartDeployInv ==
  ASSUME IInv, StartDeploy
  PROVE  IInv'
<1>1. /\ step' = "role" /\ key' = 0 /\ failures' = {} /\ clean' = TRUE
      /\ account' = account /\ cells' \subseteq Fns /\ hosted' \in BOOLEAN
  BY DEF StartDeploy
<1>2. TypeOK'
  BY <1>1 DEF IInv, TypeOK, DeploySteps
<1>3. InPlace'
  BY <1>1 DEF InPlace, RoleInPlace, TableInPlace, BucketInPlace, FunctionsWired,
     FaultsKnown, FromLogging, FromInline, FromTable, FromKey, FromAlias,
     FromBucket, FromHardened, FromObject, FromPayloads, FromWire
<1>4. \A k \in DOMAIN account'.keys : account'.keys[k].tagged
  BY <1>1 DEF IInv, Reclaimed, KeysGone
<1> QED
  BY <1>1, <1>2, <1>3, <1>4, DeployGoesOn DEF DeploySteps

LEMMA EnsureRoleInv ==
  ASSUME IInv, EnsureRole
  PROVE  IInv'
<1>1. PICK c \in Answers(TRUE) :
        /\ account' = [account EXCEPT !.role = IF c.took THEN @ \cup Ensured(step) ELSE @]
        /\ Charge(c, TRUE) /\ DeployCall(c, AfterRolePart[step])
  BY DEF EnsureRole
<1> DEFINE r == IF c.took THEN account.role \cup Ensured(step) ELSE account.role
<1>2. /\ step \in RoleParts /\ AfterRolePart[step] \in DeploySteps
      /\ UNCHANGED <<cells, hosted, key, failures>>
  BY DEF EnsureRole, RoleParts, AfterRolePart, DeploySteps
<1>3. r \in SUBSET (RoleParts \cup {"boundary"})
  BY <1>2 DEF IInv, TypeOK, Account, Ensured
<1>4. /\ account' \in Account /\ account'.role = r
      /\ account'.table = account.table /\ account'.keys = account.keys
      /\ account'.bucket = account.bucket /\ account'.functions = account.functions
  BY <1>1, <1>3 DEF IInv, TypeOK, Account
<1>5. TypeOK /\ IInv
  BY DEF IInv
<1>6. TypeOK'
  BY <1>1, <1>2, <1>4, <1>5, AnswerFacts, DeployCallFacts DEF TypeOK
<1>7. \A k \in DOMAIN account'.keys : account'.keys[k].tagged
  BY <1>4 DEF IInv, Reclaimed, KeysGone
<1>8. CASE c.ok
  <2>1. step' = AfterRolePart[step] /\ clean' = clean /\ c.took
    BY <1>1, <1>2, <1>5, <1>8, DeployCallFacts
  <2>2. RoleInPlace'
    BY <1>2, <1>4, <2>1
       DEF IInv, InPlace, RoleInPlace, RoleParts, AfterRolePart, Ensured,
           FromLogging, FromInline, FromTable, FromKey, FromAlias,
           FromBucket, FromHardened, FromObject, FromPayloads, FromWire
  <2>3. step' \in {"logging", "inline", "table"}
    BY <1>2, <2>1 DEF RoleParts, AfterRolePart
  <2>4. TableInPlace' /\ BucketInPlace' /\ FunctionsWired'
    BY <2>3 DEF TableInPlace, BucketInPlace, FunctionsWired, FromKey, FromAlias,
           FromBucket, FromHardened, FromObject, FromPayloads, FromWire
  <2>5. FaultsKnown'
    BY <1>2, <2>1, <2>3 DEF IInv, InPlace, FaultsKnown, RoleParts, DeploySteps
  <2> QED
    BY <1>6, <1>7, <2>2, <2>3, <2>4, <2>5, DeployGoesOn DEF InPlace, DeploySteps
<1>9. CASE ~c.ok
  <2>1. step' = "idle" /\ last' = "deployFailed" /\ ~clean'
    BY <1>1, <1>2, <1>5, <1>9, DeployCallFacts
  <2> QED
    BY <1>6, <1>7, <2>1, EndsShort
<1> QED
  BY <1>8, <1>9

\* What is in place stays in place while nothing touches it.
LEMMA RoleCarried ==
  ASSUME InPlace, step \in FromTable, account'.role = account.role, hosted' = hosted
  PROVE  RoleInPlace'
  BY DEF InPlace, RoleInPlace, FromLogging, FromInline

LEMMA TableCarried ==
  ASSUME InPlace, step \in FromKey, account'.table = account.table
  PROVE  TableInPlace'
  BY DEF InPlace, TableInPlace, Present

LEMMA FaultsCarried ==
  ASSUME InPlace, step \in DeploySteps, failures' = failures, clean' = clean,
         step' # "undo"
  PROVE  FaultsKnown'
  BY DEF InPlace, FaultsKnown

\* A deploy that waits for its table has nothing yet to show of bucket and functions.
LEMMA BeforeKey ==
  ASSUME step' \in {"table", "gone", "active", "seed", "key"}
  PROVE  BucketInPlace' /\ FunctionsWired'
  BY DEF BucketInPlace, FunctionsWired, FromAlias, FromBucket, FromHardened,
         FromObject, FromPayloads, FromWire

\* A call about the table, or about nothing at all.
LEMMA TableCallInv ==
  ASSUME IInv, step \in {"table", "gone", "active", "seed"},
         NEW t \in TableStates, account' = [account EXCEPT !.table = t],
         NEW a \in BOOLEAN, NEW c \in Answers(a), Charge(c, a),
         NEW next \in {"gone", "active", "seed", "key"}, DeployCall(c, next),
         ~c.ok => a,
         c.ok /\ next = "active" => t \in Present,
         c.ok /\ next = "seed" => t \in {"active", "seeded"},
         c.ok /\ next = "key" => t = "seeded",
         UNCHANGED <<cells, hosted, key, failures>>
  PROVE  IInv'
<1>1. TypeOK /\ InPlace /\ step \in FromTable /\ step \in DeploySteps
      /\ next \in DeploySteps
  BY DEF IInv, FromTable, DeploySteps
<1>2. /\ account' \in Account /\ account'.table = t
      /\ account'.role = account.role /\ account'.keys = account.keys
  BY <1>1 DEF TypeOK, Account
<1>3. TypeOK'
  BY <1>1, <1>2, AnswerFacts, DeployCallFacts DEF TypeOK
<1>4. \A k \in DOMAIN account'.keys : account'.keys[k].tagged
  BY <1>2 DEF IInv, Reclaimed, KeysGone
<1>5. CASE c.ok
  <2>1. step' = next /\ clean' = clean
    BY <1>1, <1>5, DeployCallFacts
  <2>2. RoleInPlace'
    BY <1>1, <1>2, RoleCarried
  <2>3. TableInPlace'
    BY <1>2, <1>5, <2>1 DEF TableInPlace, FromKey, FromAlias, FromBucket,
       FromHardened, FromObject, FromPayloads, FromWire
  <2>4. BucketInPlace' /\ FunctionsWired'
    BY <2>1, BeforeKey
  <2>5. FaultsKnown'
    BY <1>1, <2>1, FaultsCarried
  <2> QED
    BY <1>1, <1>3, <1>4, <2>1, <2>2, <2>3, <2>4, <2>5, DeployGoesOn DEF InPlace
<1>6. CASE ~c.ok
  <2>1. step' = "idle" /\ last' = "deployFailed" /\ ~clean'
    BY <1>1, <1>6, DeployCallFacts
  <2> QED
    BY <1>3, <1>4, <2>1, EndsShort
<1> QED
  BY <1>5, <1>6

LEMMA DescribeTableInv ==
  ASSUME IInv, DescribeTable
  PROVE  IInv'
<1>1. /\ account \in Account /\ account.table \in TableStates /\ step = "table"
      /\ UNCHANGED <<cells, hosted, key, failures>>
  BY DEF IInv, TypeOK, Account, DescribeTable
<1>2. CASE account.table = "absent"
  <2>1. PICK c \in Answers(TRUE) :
          /\ account' = [account EXCEPT !.table = IF c.took THEN "creating" ELSE @]
          /\ DeployCall(c, "active") /\ Charge(c, TRUE)
    BY <1>2 DEF DescribeTable
  <2>2. c.ok => c.took
    BY <2>1, AnswerFacts DEF IInv
  <2> DEFINE t == IF c.took THEN "creating" ELSE account.table
  <2>3. t \in TableStates /\ (c.ok => t \in Present)
    BY <1>1, <2>2 DEF TableStates, Present
  <2>4. account' = [account EXCEPT !.table = t]
    BY <2>1
  <2> HIDE DEF t
  <2> QED
    BY <1>1, <2>1, <2>3, <2>4, TableCallInv
<1>3. CASE account.table # "absent"
  <2> DEFINE next == IF account.table \in Present THEN "active" ELSE "gone"
  <2>1. PICK c \in Answers(TRUE) :
          account' = account /\ DeployCall(c, next) /\ Charge(c, TRUE)
    BY <1>3 DEF DescribeTable
  <2>2. /\ next \in {"gone", "active", "seed", "key"}
        /\ next = "active" => account.table \in Present
        /\ next \notin {"seed", "key"}
    OBVIOUS
  <2>3. account' = [account EXCEPT !.table = account.table]
    BY <1>1, <2>1 DEF Account
  <2> HIDE DEF next
  <2> QED
    BY <1>1, <2>1, <2>2, <2>3, TableCallInv
<1> QED
  BY <1>2, <1>3

LEMMA RecreateInv ==
  ASSUME IInv, Recreate
  PROVE  IInv'
<1>1. /\ account \in Account /\ account.table \in TableStates /\ step = "gone"
      /\ UNCHANGED <<cells, hosted, key, failures>>
  BY DEF IInv, TypeOK, Account, Recreate
<1>2. PICK c \in Answers(TRUE) :
        /\ account' = [account EXCEPT !.table = IF c.took THEN "creating" ELSE @]
        /\ DeployCall(c, "active") /\ Charge(c, TRUE)
  BY DEF Recreate
<1>3. c.ok => c.took
  BY <1>2, AnswerFacts DEF IInv
<1> DEFINE t == IF c.took THEN "creating" ELSE account.table
<1>4. t \in TableStates /\ (c.ok => t \in Present)
  BY <1>1, <1>3 DEF TableStates, Present
<1>5. account' = [account EXCEPT !.table = t]
  BY <1>2
<1> HIDE DEF t
<1> QED
  BY <1>1, <1>2, <1>4, <1>5, TableCallInv

LEMMA AwaitActiveInv ==
  ASSUME IInv, AwaitActive
  PROVE  IInv'
<1>1. /\ account \in Account /\ account.table \in TableStates /\ step = "active"
      /\ account.table \in Present /\ account' = account
      /\ account.table \in {"active", "seeded", "absent"}
      /\ UNCHANGED <<cells, hosted, key, failures>>
  BY DEF IInv, TypeOK, Account, AwaitActive, InPlace, TableInPlace
<1>2. account.table # "absent"
  BY <1>1 DEF Present
<1>3. PICK c \in Answers(TRUE) : Charge(c, TRUE) /\ DeployCall(c, "seed")
  BY <1>2 DEF AwaitActive
<1>4. account' = [account EXCEPT !.table = account.table]
  BY <1>1 DEF Account
<1> QED
  BY <1>1, <1>2, <1>3, <1>4, TableCallInv

LEMMA SeedItemInv ==
  ASSUME IInv, SeedItem
  PROVE  IInv'
<1>1. /\ account \in Account /\ account.table \in TableStates /\ step = "seed"
      /\ UNCHANGED <<cells, hosted, key, failures>>
  BY DEF IInv, TypeOK, Account, SeedItem
<1>2. PICK c \in Answers(TRUE) :
        /\ account' = [account EXCEPT !.table = IF c.took THEN "seeded" ELSE @]
        /\ DeployCall(c, "key") /\ Charge(c, TRUE)
  BY DEF SeedItem
<1>3. c.ok => c.took
  BY <1>2, AnswerFacts DEF IInv
<1> DEFINE t == IF c.took THEN "seeded" ELSE account.table
<1>4. t \in TableStates /\ (c.ok => t = "seeded")
  BY <1>1, <1>3 DEF TableStates
<1>5. account' = [account EXCEPT !.table = t]
  BY <1>2
<1> HIDE DEF t
<1> QED
  BY <1>1, <1>2, <1>4, <1>5, TableCallInv

LEMMA WaitTimesOutInv ==
  ASSUME IInv, WaitTimesOut
  PROVE  IInv'
<1>1. /\ step' = "idle" /\ last' = "deployFailed" /\ clean' = FALSE
      /\ UNCHANGED <<account, cells, hosted, key, failures, faults>>
  BY DEF WaitTimesOut, EndWith
<1>2. TypeOK'
  BY <1>1 DEF IInv, TypeOK
<1>3. \A k \in DOMAIN account'.keys : account'.keys[k].tagged
  BY <1>1 DEF IInv, Reclaimed, KeysGone
<1> QED
  BY <1>1, <1>2, <1>3, EndsShort

\* A key's deletion is scheduled only where it took, and no key loses its tag.
LEMMA ScheduledFacts ==
  ASSUME account \in Account, NEW k, NEW c, account' = ScheduledIf(c, k),
         \A j \in DOMAIN account.keys : account.keys[j].tagged
  PROVE  /\ account' \in Account
         /\ account'.role = account.role /\ account'.table = account.table
         /\ account'.alias = account.alias /\ account'.bucket = account.bucket
         /\ account'.functions = account.functions /\ account'.groups = account.groups
         /\ account'.repo = account.repo
         /\ DOMAIN account'.keys = DOMAIN account.keys
         /\ \A j \in DOMAIN account'.keys :
              /\ account'.keys[j].tagged
              /\ account'.keys[j].state = "enabled" =>
                   account.keys[j].state = "enabled" /\ (j = k => ~c.took)
<1> DEFINE ks == account.keys
           s == IF c.took /\ ks[k].state = "enabled" THEN "pending" ELSE ks[k].state
           new == [ks EXCEPT ![k] = [ks[k] EXCEPT !.state = s]]
<1>1. account' = [account EXCEPT !.keys = new]
  BY DEF ScheduledIf
<1>2. ks \in Seq(Keys) /\ DOMAIN new = DOMAIN ks /\ ks \in [1 .. Len(ks) -> Keys]
  BY DEF Account
<1>3. ASSUME NEW j \in DOMAIN ks
      PROVE  /\ new[j] \in Keys
             /\ new[j].tagged = ks[j].tagged
             /\ new[j].state = "enabled" =>
                  ks[j].state = "enabled" /\ (j = k => ~c.took)
  <2>1. ks[j] \in Keys
    BY <1>2
  <2>2. CASE j # k
    BY <2>1, <2>2
  <2>3. CASE j = k
    <3>1. new[j] = [ks[j] EXCEPT !.state = s]
      BY <1>2, <2>3
    <3>2. s \in KeyStates /\ (s = "enabled" => ks[j].state = "enabled" /\ ~c.took)
      BY <2>1, <2>3 DEF Keys, KeyStates
    <3> HIDE DEF s, new
    <3>3. new[j].state = s /\ new[j].tagged = ks[j].tagged /\ new[j] \in Keys
      BY <2>1, <3>1, <3>2 DEF Keys
    <3> QED
      BY <3>2, <3>3
  <2> QED
    BY <2>2, <2>3
<1>f. new = [j \in DOMAIN ks |-> new[j]]
  BY <1>2
<1> HIDE DEF new
<1>4. new \in Seq(Keys)
  <2>1. Len(ks) \in Nat /\ DOMAIN ks = 1 .. Len(ks)
    BY <1>2
  <2>2. new \in [1 .. Len(ks) -> Keys]
    BY <1>3, <1>f, <2>1
  <2> QED
    BY <2>1, <2>2
<1> HIDE DEF ks
<1>5. /\ account' \in Account /\ account'.keys = new
      /\ account'.role = account.role /\ account'.table = account.table
      /\ account'.alias = account.alias /\ account'.bucket = account.bucket
      /\ account'.functions = account.functions /\ account'.groups = account.groups
      /\ account'.repo = account.repo
  BY <1>1, <1>4 DEF Account
<1> QED
  BY <1>2, <1>3, <1>5 DEF ks

LEMMA EnsureKmsKeyInv ==
  ASSUME IInv, EnsureKmsKey
  PROVE  IInv'
<1> DEFINE k == [state |-> "enabled", tagged |-> CreationTag]
           Next1 == IF account.alias # 0 THEN "bucket" ELSE "alias"
<1>1. /\ TypeOK /\ InPlace /\ account \in Account /\ step = "key"
      /\ step \in FromTable /\ step \in FromKey /\ step \in DeploySteps
      /\ UNCHANGED <<cells, hosted, failures>>
  BY DEF IInv, TypeOK, EnsureKmsKey, FromTable, FromKey, DeploySteps
<1>2. account.keys \in Seq(Keys) /\ account.alias \in Nat
      /\ Len(account.keys) \in Nat
  BY <1>1 DEF Account
<1>3. Next1 \in DeploySteps /\ Next1 \notin {"wire", "undo"} \cup FromHardened
  BY DEF DeploySteps, FromHardened, FromObject, FromPayloads, FromWire
<1>4. PICK c \in Answers(TRUE) :
        /\ Charge(c, TRUE) /\ DeployCall(c, Next1)
        /\ IF account.alias # 0
           THEN key' = account.alias /\ account' = account
           ELSE /\ account' = [account EXCEPT !.keys =
                                 IF c.took THEN Append(account.keys, k) ELSE account.keys]
                /\ key' = Len(account'.keys)
  BY DEF EnsureKmsKey
<1> HIDE DEF Next1
<1>5. c.ok => c.took
  BY <1>1, <1>4, AnswerFacts
<1>6. /\ account' \in Account /\ account'.role = account.role
      /\ account'.table = account.table
      /\ key' \in Nat /\ (c.ok => key' # 0)
      /\ \A j \in DOMAIN account'.keys : account'.keys[j].tagged
  <2>t. \A j \in DOMAIN account.keys : account.keys[j].tagged
    BY DEF IInv, Reclaimed, KeysGone
  <2>1. CASE account.alias # 0
    BY <1>1, <1>2, <1>4, <2>1, <2>t
  <2>2. CASE account.alias = 0 /\ c.took
    <3>1. k \in Keys /\ k.tagged
      BY DEF Keys, KeyStates, CreationTag
    <3> HIDE DEF k
    <3> DEFINE ks == Append(account.keys, k)
    <3>2. /\ ks \in Seq(Keys) /\ Len(ks) = Len(account.keys) + 1
          /\ \A j \in DOMAIN ks : ks[j].tagged
      BY <1>2, <2>t, <3>1
    <3>3. account' = [account EXCEPT !.keys = ks] /\ key' = Len(account'.keys)
      BY <1>4, <2>2
    <3> HIDE DEF ks
    <3>4. /\ account' \in Account /\ account'.keys = ks
          /\ account'.role = account.role /\ account'.table = account.table
      BY <1>1, <3>2, <3>3 DEF Account
    <3> QED
      BY <1>2, <3>2, <3>3, <3>4
  <2>3. CASE account.alias = 0 /\ ~c.took
    <3>1. account' = account /\ key' = Len(account'.keys)
      BY <1>1, <1>4, <2>3 DEF Account
    <3> QED
      BY <1>1, <1>2, <1>5, <2>3, <2>t, <3>1
  <2> QED
    BY <2>1, <2>2, <2>3
<1>7. TypeOK'
  BY <1>1, <1>3, <1>4, <1>6, AnswerFacts, DeployCallFacts DEF TypeOK
<1>8. CASE c.ok
  <2>1. step' = Next1 /\ clean' = clean
    BY <1>1, <1>3, <1>4, <1>8, DeployCallFacts
  <2>2. RoleInPlace' /\ TableInPlace' /\ FaultsKnown'
    BY <1>1, <1>3, <1>6, <2>1, RoleCarried, TableCarried, FaultsCarried
  <2>3. BucketInPlace' /\ FunctionsWired'
    BY <1>3, <1>6, <1>8, <2>1 DEF BucketInPlace, FunctionsWired, FromHardened,
       FromObject, FromPayloads, FromWire
  <2> QED
    BY <1>3, <1>6, <1>7, <2>1, <2>2, <2>3, DeployGoesOn DEF InPlace
<1>9. CASE ~c.ok
  <2>1. step' = "idle" /\ last' = "deployFailed" /\ ~clean'
    BY <1>1, <1>3, <1>4, <1>9, DeployCallFacts
  <2> QED
    BY <1>6, <1>7, <2>1, EndsShort
<1> QED
  BY <1>8, <1>9

LEMMA CreateAliasInv ==
  ASSUME IInv, CreateAlias
  PROVE  IInv'
<1>1. /\ TypeOK /\ InPlace /\ account \in Account /\ step = "alias" /\ key \in Nat
      /\ step \in FromTable /\ step \in FromKey /\ step \in FromAlias
      /\ step \in DeploySteps
      /\ UNCHANGED <<cells, hosted, key, failures>>
  BY DEF IInv, TypeOK, CreateAlias, FromTable, FromKey, FromAlias, DeploySteps
<1>2. PICK c \in Answers(TRUE) :
        /\ account' = [account EXCEPT !.alias = IF c.took THEN key ELSE @]
        /\ Charge(c, TRUE) /\ Enter(IF c.ok THEN "bucket" ELSE "undo")
  BY DEF CreateAlias
<1>3. /\ account' \in Account /\ account'.role = account.role
      /\ account'.table = account.table /\ account'.keys = account.keys
  BY <1>1, <1>2 DEF Account
<1>4. step' = (IF c.ok THEN "bucket" ELSE "undo") /\ step' \in DeploySteps
  BY <1>2 DEF Enter, DeploySteps
<1>5. TypeOK'
  BY <1>1, <1>2, <1>3, <1>4, AnswerFacts DEF TypeOK
<1>6. \A k \in DOMAIN account'.keys : account'.keys[k].tagged
  BY <1>3 DEF IInv, Reclaimed, KeysGone
<1>7. RoleInPlace' /\ TableInPlace'
  BY <1>1, <1>3, RoleCarried, TableCarried
<1>8. FaultsKnown'
  <2>1. (clean' => clean) /\ (~c.ok => ~clean')
    BY <1>1, <1>2, AnswerFacts
  <2> QED
    BY <1>1, <1>4, <2>1 DEF InPlace, FaultsKnown
<1>9. BucketInPlace' /\ FunctionsWired'
  BY <1>1, <1>4 DEF InPlace, BucketInPlace, FunctionsWired, FromHardened,
     FromObject, FromPayloads, FromWire
<1> QED
  BY <1>4, <1>5, <1>6, <1>7, <1>8, <1>9, DeployGoesOn DEF InPlace

LEMMA UndoKeyInv ==
  ASSUME IInv, UndoKey
  PROVE  IInv'
<1>1. PICK c \in Answers(TRUE) : account' = ScheduledIf(c, key) /\ Charge(c, TRUE)
  BY DEF UndoKey
<1>2. /\ TypeOK /\ account \in Account /\ ~clean
      /\ \A j \in DOMAIN account.keys : account.keys[j].tagged
      /\ UNCHANGED <<cells, hosted, key, failures>>
      /\ step' = "idle" /\ last' = "deployFailed"
  BY DEF IInv, TypeOK, UndoKey, EndWith, InPlace, FaultsKnown, Reclaimed, KeysGone
<1>3. /\ account' \in Account
      /\ \A j \in DOMAIN account'.keys : account'.keys[j].tagged
  BY <1>1, <1>2, ScheduledFacts
<1>4. clean' \in BOOLEAN /\ ~clean'
  BY <1>1, <1>2, AnswerFacts
<1>5. TypeOK'
  BY <1>2, <1>3, <1>4 DEF TypeOK
<1> QED
  BY <1>2, <1>3, <1>4, <1>5, EndsShort

LEMMA EnsureSeededBucketInv ==
  ASSUME IInv, EnsureSeededBucket
  PROVE  IInv'
<1>1. PICK c \in Answers(TRUE) :
        /\ account' = [account EXCEPT !.bucket = With(@, step, c)]
        /\ Charge(c, TRUE) /\ DeployCall(c, AfterBucketPart[step])
  BY DEF EnsureSeededBucket
<1>2. /\ TypeOK /\ InPlace /\ account \in Account
      /\ step \in {"bucket", "hardened", "object", "payloads"}
      /\ AfterBucketPart[step] \in DeploySteps
      /\ UNCHANGED <<cells, hosted, key, failures>>
  BY DEF IInv, TypeOK, EnsureSeededBucket, AfterBucketPart, DeploySteps
<1>3. /\ step \in FromTable /\ step \in FromKey /\ step \in FromAlias
      /\ step \in DeploySteps
  BY <1>2 DEF FromTable, FromKey, FromAlias, FromBucket, FromHardened, FromObject,
     FromPayloads, FromWire, DeploySteps
<1> DEFINE b == IF c.took THEN account.bucket \cup {step} ELSE account.bucket
<1>4. b \in SUBSET BucketParts /\ account' = [account EXCEPT !.bucket = b]
  BY <1>1, <1>2 DEF Account, BucketParts, Objects, With
<1> HIDE DEF b
<1>5. /\ account' \in Account /\ account'.bucket = b
      /\ account'.role = account.role /\ account'.table = account.table
      /\ account'.keys = account.keys /\ account'.functions = account.functions
  BY <1>2, <1>4 DEF Account
<1>6. TypeOK'
  BY <1>1, <1>2, <1>5, AnswerFacts, DeployCallFacts DEF TypeOK
<1>7. \A k \in DOMAIN account'.keys : account'.keys[k].tagged
  BY <1>5 DEF IInv, Reclaimed, KeysGone
<1>8. CASE c.ok
  <2>1. /\ step' = AfterBucketPart[step] /\ clean' = clean /\ c.took
        /\ work' = Work(step')
    BY <1>1, <1>2, <1>8, DeployCallFacts
  <2>2. step' \in {"hardened", "object", "payloads", "wire"}
    BY <1>2, <2>1 DEF AfterBucketPart
  <2>3. RoleInPlace' /\ TableInPlace' /\ FaultsKnown'
    BY <1>2, <1>3, <1>5, <2>1, <2>2, RoleCarried, TableCarried, FaultsCarried
  <2>4. BucketInPlace'
    BY <1>2, <1>5, <2>1 DEF b, InPlace, BucketInPlace, AfterBucketPart, FromHardened,
       FromObject, FromPayloads, FromWire
  <2>5. FunctionsWired'
    <3>1. key' # 0
      BY <1>2, <1>3 DEF InPlace, FunctionsWired
    <3>2. step' = "wire" => work' = cells /\ cells' = cells
      BY <1>2, <2>1 DEF Work
    <3> QED
      BY <3>1, <3>2 DEF FunctionsWired
  <2>6. step' \in DeploySteps
    BY <2>2 DEF DeploySteps
  <2> QED
    BY <1>6, <1>7, <2>3, <2>4, <2>5, <2>6, DeployGoesOn DEF InPlace
<1>9. CASE ~c.ok
  <2>1. step' = "idle" /\ last' = "deployFailed" /\ ~clean'
    BY <1>1, <1>2, <1>9, DeployCallFacts
  <2> QED
    BY <1>6, <1>7, <2>1, EndsShort
<1> QED
  BY <1>8, <1>9

\* The last function's task ends the deploy, with what all of them came to.
LEMMA EnsureFunctionInv ==
  ASSUME IInv, NEW f \in Fns, EnsureFunction(f)
  PROVE  IInv'
<1>1. PICK c \in Answers(TRUE), staged \in BOOLEAN :
        /\ account' = [account EXCEPT !.functions[f] = IF c.took THEN key ELSE @,
                                      !.bucket = IF staged THEN @ \cup {"code"} ELSE @]
        /\ failures' = IF c.ok THEN failures ELSE failures \cup {"functions"}
        /\ Charge(c, TRUE)
  BY DEF EnsureFunction
<1>2. /\ TypeOK /\ InPlace /\ account \in Account /\ key \in Nat
      /\ step = "wire" /\ f \in work
      /\ UNCHANGED <<cells, hosted, key>>
  BY DEF IInv, TypeOK, EnsureFunction
<1>3. /\ step \in FromTable /\ step \in FromKey /\ step \in FromAlias
      /\ step \in FromHardened /\ step \in FromObject /\ step \in FromPayloads
      /\ step \in FromWire /\ step \in DeploySteps
  BY <1>2 DEF FromTable, FromKey, FromAlias, FromBucket, FromHardened, FromObject,
     FromPayloads, FromWire, DeploySteps
<1> DEFINE fs == [account.functions EXCEPT ![f] = IF c.took THEN key ELSE @]
           b == IF staged THEN account.bucket \cup {"code"} ELSE account.bucket
<1>4. /\ account' = [account EXCEPT !.functions = fs, !.bucket = b]
      /\ fs \in [Fns -> Nat] /\ b \in SUBSET BucketParts
      /\ account.bucket \subseteq b
      /\ c.took => fs[f] = key
      /\ \A g \in Fns : g # f => fs[g] = account.functions[g]
  BY <1>1, <1>2 DEF Account, BucketParts, Objects
<1> HIDE DEF fs, b
<1>5. /\ account' \in Account /\ account'.functions = fs /\ account'.bucket = b
      /\ account'.role = account.role /\ account'.table = account.table
      /\ account'.keys = account.keys
  BY <1>2, <1>4 DEF Account
<1>6. /\ step' \in {"wire", "idle"}
      /\ step' = "idle" => work = {f} /\ last' = Collected(failures')
      /\ step' = "wire" => work' = work \ {f}
  BY <1>2 DEF EnsureFunction, EndWith
<1>7. /\ c.ok => c.took /\ clean' = clean /\ failures' = failures
      /\ ~c.ok => ~clean' /\ failures' # {}
      /\ clean' \in BOOLEAN /\ (clean' => clean)
      /\ failures' \subseteq Classes
  BY <1>1, <1>2, AnswerFacts DEF TypeOK, Classes
<1>8. TypeOK'
  BY <1>2, <1>5, <1>6, <1>7, <1>3 DEF TypeOK
<1>9. \A k \in DOMAIN account'.keys : account'.keys[k].tagged
  BY <1>5 DEF IInv, Reclaimed, KeysGone
<1>10. \A g \in cells : g \in work \ {f} \/ failures' # {} \/ fs[g] = key
  <2>1. \A g \in cells : g \in work \/ failures # {} \/ account.functions[g] = key
    BY <1>2 DEF InPlace, FunctionsWired
  <2>2. cells \subseteq Fns /\ (failures # {} => failures' # {})
    BY <1>1, <1>2 DEF TypeOK
  <2> QED
    BY <1>4, <1>7, <2>1, <2>2
<1>11. failures' # {} => ~clean'
  BY <1>2, <1>3, <1>7 DEF InPlace, FaultsKnown
<1>12. CASE step' = "wire"
  <2>1. RoleInPlace' /\ TableInPlace'
    BY <1>2, <1>3, <1>5, RoleCarried, TableCarried
  <2>2. BucketInPlace'
    BY <1>2, <1>3, <1>4, <1>5 DEF InPlace, BucketInPlace
  <2>3. FunctionsWired'
    BY <1>2, <1>3, <1>5, <1>6, <1>10, <1>12 DEF InPlace, FunctionsWired
  <2>4. FaultsKnown' /\ step' \in DeploySteps
    BY <1>11, <1>12 DEF FaultsKnown, DeploySteps
  <2> QED
    BY <1>8, <1>9, <2>1, <2>2, <2>3, <2>4, DeployGoesOn DEF InPlace
<1>13. CASE step' = "idle" /\ failures' # {}
  <2>1. last' = "deployFailed"
    BY <1>6, <1>13 DEF Collected
  <2> QED
    BY <1>8, <1>9, <1>11, <1>13, <2>1, EndsShort
<1>14. CASE step' = "idle" /\ failures' = {}
  <2>1. last' = "deployed" /\ work = {f}
    BY <1>6, <1>14 DEF Collected
  <2>2. /\ RoleParts \subseteq account.role /\ (hosted => "boundary" \in account.role)
        /\ account.table = "seeded" /\ key # 0
        /\ {"bucket", "hardened", "object", "payloads"} \subseteq account.bucket
    BY <1>2, <1>3 DEF InPlace, RoleInPlace, TableInPlace, BucketInPlace, FunctionsWired,
       RoleParts, FromLogging, FromInline
  <2>3. \A g \in cells : fs[g] = key
    BY <1>10, <1>14, <2>1
  <2>4. Deployed'
    BY <1>2, <1>4, <1>5, <2>2, <2>3 DEF Deployed
  <2>5. LeftoversReported' /\ DeployFailsForAReason'
    BY <2>1 DEF LeftoversReported, DeployFailsForAReason
  <2>6. InPlace' /\ Reclaimed'
    BY <1>9, <1>14, IdleRest
  <2> QED
    BY <1>8, <2>4, <2>5, <2>6 DEF IInv
<1> QED
  BY <1>6, <1>12, <1>13, <1>14

-----------------------------------------------------------------------------
(* teardown.                                                               *)

\* What has been reclaimed or reported stays so while nothing touches it and no
\* report is taken back.
LEMMA FunctionsStayGone ==
  ASSUME Reclaimed, step \in FromLogs, account'.functions = account.functions,
         failures \subseteq failures', step' # "functions"
  PROVE  FunctionsGone'
  BY DEF Reclaimed, FunctionsGone

LEMMA LogsStayGone ==
  ASSUME Reclaimed, step \in FromDetach, account'.groups = account.groups,
         failures \subseteq failures', step' # "logs"
  PROVE  LogsGone'
  BY DEF Reclaimed, LogsGone

LEMMA RoleStaysGone ==
  ASSUME Reclaimed, step \in FromDrop, account'.role = account.role,
         failures \subseteq failures', step' \notin {"uninline", "unrole"}
  PROVE  RoleGone'
  BY DEF Reclaimed, RoleGone

LEMMA TableStaysGone ==
  ASSUME Reclaimed, step \in FromObjects, account'.table = account.table,
         failures \subseteq failures'
  PROVE  TableGone'
  BY DEF Reclaimed, TableGone

LEMMA BucketStaysGone ==
  ASSUME Reclaimed, step \in FromUnalias, account'.bucket = account.bucket,
         failures \subseteq failures'
  PROVE  BucketGone'
  BY DEF Reclaimed, BucketGone

\* What the steps up to a class leave to be shown of those after it.
LEMMA NotYetKeys ==
  ASSUME Reclaimed, account'.keys = account.keys, step' \notin FromSchedule
  PROVE  KeysGone'
  BY DEF Reclaimed, KeysGone, FromSchedule, FromSweep, FromRepo

LEMMA NotYetBucket == step' \notin FromUnalias => BucketGone'
  BY DEF BucketGone

LEMMA NotYetTable == step' \notin FromObjects => TableGone'
  BY DEF TableGone

LEMMA NotYetRole == step' \notin {"uninline", "unrole"} \cup FromDrop => RoleGone'
  BY DEF RoleGone

\* The report of a call's class.
LEMMA ReportFacts ==
  ASSUME TypeOK, NEW a \in BOOLEAN, NEW c \in Answers(a), Charge(c, a),
         NEW class \in Classes,
         failures' = IF c.ok THEN failures ELSE failures \cup {class}
  PROVE  /\ failures \subseteq failures' /\ failures' \subseteq Classes
         /\ clean' \in BOOLEAN
         /\ c.took \/ class \in failures'
         /\ c.ok \/ class \in failures'
         /\ c.ok => c.took
  BY AnswerFacts DEF TypeOK

LEMMA StartTeardownInv ==
  ASSUME IInv, StartTeardown
  PROVE  IInv'
<1>1. /\ step' = "functions" /\ work' = Fns /\ key' = 0 /\ failures' = {}
      /\ clean' = TRUE /\ account' = account /\ cells' = cells /\ hosted' = FALSE
  BY DEF StartTeardown
<1>2. TypeOK'
  BY <1>1 DEF IInv, TypeOK, TeardownSteps
<1>3. Reclaimed'
  BY <1>1 DEF IInv, Reclaimed, FunctionsGone, LogsGone, RoleGone, TableGone,
     BucketGone, KeysGone, FromLogs, FromDetach, FromDrop, FromObjects,
     FromUnalias, FromSchedule, FromSweep, FromRepo
<1> QED
  BY <1>1, <1>2, <1>3, TeardownGoesOn DEF TeardownSteps

LEMMA DeleteFunctionInv ==
  ASSUME IInv, NEW f \in Fns, DeleteFunction(f)
  PROVE  IInv'
<1>1. PICK c \in Answers(TRUE) :
        /\ account' = [account EXCEPT !.functions[f] = IF c.took THEN 0 ELSE @]
        /\ failures' = IF c.ok THEN failures ELSE failures \cup {"functions"}
        /\ Charge(c, TRUE)
  BY DEF DeleteFunction
<1>2. /\ TypeOK /\ Reclaimed /\ account \in Account
      /\ step = "functions" /\ f \in work /\ UNCHANGED <<cells, hosted, key>>
  BY DEF IInv, TypeOK, DeleteFunction
<1> DEFINE fs == [account.functions EXCEPT ![f] = IF c.took THEN 0 ELSE @]
<1>3. /\ account' = [account EXCEPT !.functions = fs]
      /\ fs \in [Fns -> Nat] /\ (c.took => fs[f] = 0)
      /\ \A g \in Fns : g # f => fs[g] = account.functions[g]
  BY <1>1, <1>2 DEF Account
<1> HIDE DEF fs
<1>4. /\ account' \in Account /\ account'.functions = fs
      /\ account'.groups = account.groups /\ account'.keys = account.keys
  BY <1>2, <1>3 DEF Account
<1>5. /\ failures \subseteq failures' /\ failures' \subseteq Classes
      /\ clean' \in BOOLEAN /\ (c.took \/ "functions" \in failures')
  BY <1>1, <1>2, ReportFacts DEF Classes
<1>6. \/ step' = "functions" /\ work' = work \ {f}
      \/ step' = "logs" /\ work' = Fns /\ work \ {f} = {}
  BY <1>2 DEF DeleteFunction, Proceed, Enter, Work
<1>7. step' \in TeardownSteps
  BY <1>6 DEF TeardownSteps
<1>8. TypeOK'
  BY <1>2, <1>4, <1>5, <1>7 DEF TypeOK
<1>9. \A g \in Fns : g \in work \ {f} \/ fs[g] = 0 \/ "functions" \in failures'
  BY <1>2, <1>3, <1>5 DEF Reclaimed, FunctionsGone
<1>10. FunctionsGone'
  BY <1>4, <1>6, <1>9 DEF FunctionsGone, FromLogs, FromDetach, FromDrop,
     FromObjects, FromUnalias, FromSchedule, FromSweep, FromRepo
<1>11. LogsGone'
  BY <1>4, <1>6 DEF LogsGone, Account, FromDetach, FromDrop, FromObjects,
     FromUnalias, FromSchedule, FromSweep, FromRepo
<1>12. RoleGone' /\ TableGone' /\ BucketGone' /\ KeysGone'
  BY <1>2, <1>4, <1>6, NotYetRole, NotYetTable, NotYetBucket, NotYetKeys
     DEF FromDrop, FromObjects, FromUnalias, FromSchedule, FromSweep, FromRepo
<1> QED
  BY <1>7, <1>8, <1>10, <1>11, <1>12, TeardownGoesOn DEF Reclaimed

LEMMA DeleteLogGroupInv ==
  ASSUME IInv, NEW f \in Fns, DeleteLogGroup(f)
  PROVE  IInv'
<1>1. PICK c \in Answers(TRUE) :
        /\ account' = [account EXCEPT !.groups = Without(@, f, c)]
        /\ failures' = IF c.ok THEN failures ELSE failures \cup {"logs"}
        /\ Charge(c, TRUE)
  BY DEF DeleteLogGroup
<1>2. /\ TypeOK /\ Reclaimed /\ account \in Account
      /\ step = "logs" /\ f \in work /\ UNCHANGED <<cells, hosted, key>>
  BY DEF IInv, TypeOK, DeleteLogGroup
<1> DEFINE gs == IF c.took THEN account.groups \ {f} ELSE account.groups
<1>3. account' = [account EXCEPT !.groups = gs] /\ gs \in SUBSET Fns
  BY <1>1, <1>2 DEF Account, Without
<1> HIDE DEF gs
<1>4. /\ account' \in Account /\ account'.groups = gs
      /\ account'.functions = account.functions /\ account'.keys = account.keys
  BY <1>2, <1>3 DEF Account
<1>5. /\ failures \subseteq failures' /\ failures' \subseteq Classes
      /\ clean' \in BOOLEAN /\ (c.took \/ "logs" \in failures')
  BY <1>1, <1>2, ReportFacts DEF Classes
<1>6. \/ step' = "logs" /\ work' = work \ {f}
      \/ step' = "detach" /\ work \ {f} = {}
  BY <1>2 DEF DeleteLogGroup, Proceed, Enter
<1>7. step' \in TeardownSteps
  BY <1>6 DEF TeardownSteps
<1>8. TypeOK'
  BY <1>2, <1>4, <1>5, <1>7 DEF TypeOK
<1>9. gs \subseteq work \ {f} \/ "logs" \in failures'
  BY <1>2, <1>5 DEF gs, Reclaimed, LogsGone
<1>10. LogsGone'
  BY <1>4, <1>6, <1>9 DEF LogsGone, FromDetach, FromDrop, FromObjects, FromUnalias,
     FromSchedule, FromSweep, FromRepo
<1>11. FunctionsGone'
  BY <1>2, <1>4, <1>5, <1>6, FunctionsStayGone DEF FromLogs
<1>12. RoleGone' /\ TableGone' /\ BucketGone' /\ KeysGone'
  BY <1>2, <1>4, <1>6, NotYetRole, NotYetTable, NotYetBucket, NotYetKeys
     DEF FromDrop, FromObjects, FromUnalias, FromSchedule, FromSweep, FromRepo
<1> QED
  BY <1>7, <1>8, <1>10, <1>11, <1>12, TeardownGoesOn DEF Reclaimed

LEMMA DeleteRoleInv ==
  ASSUME IInv, DeleteRole
  PROVE  IInv'
<1>1. PICK c \in Answers(TRUE) :
        /\ account' = [account EXCEPT !.role = IF c.took THEN @ \ Dropped[step] ELSE @]
        /\ Charge(c, TRUE) /\ TeardownCall(c, "role", AfterDropped[step], "drop")
  BY DEF DeleteRole
<1>2. /\ TypeOK /\ Reclaimed /\ account \in Account
      /\ step \in {"detach", "uninline", "unrole"} /\ UNCHANGED <<cells, hosted, key>>
  BY DEF IInv, TypeOK, DeleteRole, Dropped
<1> DEFINE r == IF c.took THEN account.role \ Dropped[step] ELSE account.role
<1>3. /\ account' = [account EXCEPT !.role = r]
      /\ r \in SUBSET (RoleParts \cup {"boundary"})
  BY <1>1, <1>2 DEF Account
<1> HIDE DEF r
<1>4. /\ account' \in Account /\ account'.role = r
      /\ account'.functions = account.functions /\ account'.keys = account.keys
      /\ account'.groups = account.groups
  BY <1>2, <1>3 DEF Account
<1>5. /\ failures' = (IF c.ok THEN failures ELSE failures \cup {"role"})
      /\ step' = (IF c.ok THEN AfterDropped[step] ELSE "drop")
  BY <1>1 DEF TeardownCall, Enter
<1>6. /\ failures \subseteq failures' /\ failures' \subseteq Classes
      /\ clean' \in BOOLEAN /\ (c.ok => c.took) /\ (c.ok \/ "role" \in failures')
  BY <1>1, <1>2, <1>5, ReportFacts DEF Classes
<1>7. step' \in {"uninline", "unrole", "drop"}
  BY <1>2, <1>5 DEF AfterDropped
<1>8. TypeOK'
  BY <1>2, <1>4, <1>6, <1>7 DEF TypeOK, TeardownSteps
<1>9. RoleGone'
  <2>1. CASE c.ok
    <3>1. r = account.role \ Dropped[step] /\ step' = AfterDropped[step]
      BY <1>5, <1>6, <2>1 DEF r
    <3>2. account.role \subseteq {"role", "logging", "inline", "boundary"}
      BY <1>2 DEF Account, RoleParts
    <3>3. /\ step = "uninline" => "logging" \notin account.role
          /\ step = "unrole" => account.role \subseteq {"role", "boundary"}
      BY <1>2 DEF Reclaimed, RoleGone
    <3>4. /\ step = "detach" => Dropped[step] = {"logging"} /\ step' = "uninline"
          /\ step = "uninline" => Dropped[step] = {"inline"} /\ step' = "unrole"
          /\ step = "unrole" => Dropped[step] = {"role", "boundary"} /\ step' = "drop"
      BY <3>1 DEF Dropped, AfterDropped
    <3>5. /\ step' = "uninline" => "logging" \notin r
          /\ step' = "unrole" => r \subseteq {"role", "boundary"}
          /\ step' = "drop" => r = {}
      BY <1>2, <3>1, <3>2, <3>3, <3>4
    <3> QED
      BY <1>4, <1>7, <3>5 DEF RoleGone, FromDrop, FromObjects, FromUnalias,
         FromSchedule, FromSweep, FromRepo
  <2>2. CASE ~c.ok
    BY <1>5, <1>6, <2>2 DEF RoleGone
  <2> QED
    BY <2>1, <2>2
<1>10. FunctionsGone' /\ LogsGone'
  BY <1>2, <1>4, <1>6, <1>7, FunctionsStayGone, LogsStayGone DEF FromLogs, FromDetach
<1>11. TableGone' /\ BucketGone' /\ KeysGone'
  BY <1>2, <1>4, <1>7, NotYetTable, NotYetBucket, NotYetKeys
     DEF FromObjects, FromUnalias, FromSchedule, FromSweep, FromRepo
<1> QED
  BY <1>7, <1>8, <1>9, <1>10, <1>11, TeardownGoesOn DEF Reclaimed, TeardownSteps

LEMMA DeleteTableInv ==
  ASSUME IInv, DeleteTable
  PROVE  IInv'
<1> DEFINE a == account.table # "creating"
<1>1. PICK c \in Answers(a) :
        /\ account' = [account EXCEPT !.table =
                         IF c.took /\ @ # "absent" THEN "deleting" ELSE @]
        /\ Charge(c, a) /\ TeardownCall(c, "table", "objects", "objects")
  BY DEF DeleteTable
<1>2. /\ TypeOK /\ Reclaimed /\ account \in Account /\ a \in BOOLEAN
      /\ step = "drop" /\ UNCHANGED <<cells, hosted, key>>
  BY DEF IInv, TypeOK, DeleteTable
<1> HIDE DEF a
<1> DEFINE t == IF c.took /\ account.table # "absent" THEN "deleting" ELSE account.table
<1>3. account' = [account EXCEPT !.table = t] /\ t \in TableStates
  BY <1>1, <1>2 DEF Account, TableStates
<1> HIDE DEF t
<1>4. /\ account' \in Account /\ account'.table = t
      /\ account'.functions = account.functions /\ account'.keys = account.keys
      /\ account'.groups = account.groups /\ account'.role = account.role
  BY <1>2, <1>3 DEF Account
<1>5. /\ failures' = (IF c.ok THEN failures ELSE failures \cup {"table"})
      /\ step' = "objects"
  BY <1>1 DEF TeardownCall, Enter
<1>6. /\ failures \subseteq failures' /\ failures' \subseteq Classes
      /\ clean' \in BOOLEAN /\ (c.took \/ "table" \in failures')
  BY <1>1, <1>2, <1>5, ReportFacts DEF Classes
<1>7. TypeOK'
  BY <1>2, <1>4, <1>5, <1>6 DEF TypeOK, TeardownSteps
<1>8. TableGone'
  BY <1>4, <1>6 DEF t, TableGone
<1>9. FunctionsGone' /\ LogsGone' /\ RoleGone'
  BY <1>2, <1>4, <1>5, <1>6, FunctionsStayGone, LogsStayGone, RoleStaysGone
     DEF FromLogs, FromDetach, FromDrop
<1>10. BucketGone' /\ KeysGone'
  BY <1>2, <1>4, <1>5, NotYetBucket, NotYetKeys
     DEF FromUnalias, FromSchedule, FromSweep, FromRepo
<1> QED
  BY <1>5, <1>7, <1>8, <1>9, <1>10, TeardownGoesOn DEF Reclaimed, TeardownSteps

\* Either call of delete_s3: the bucket is empty, the error is reported, or there is
\* more to delete.
LEMMA BucketCallInv ==
  ASSUME IInv, step = "objects", NEW b \in SUBSET BucketParts,
         account' = [account EXCEPT !.bucket = b],
         failures \subseteq failures', failures' \subseteq Classes, clean' \in BOOLEAN,
         step' \in {"objects", "unalias"},
         step' = "unalias" => b = {} \/ "s3" \in failures',
         UNCHANGED <<cells, hosted, key>>
  PROVE  IInv'
<1>1. TypeOK /\ Reclaimed /\ account \in Account
  BY DEF IInv, TypeOK
<1>2. /\ account' \in Account /\ account'.bucket = b
      /\ account'.functions = account.functions /\ account'.keys = account.keys
      /\ account'.groups = account.groups /\ account'.role = account.role
      /\ account'.table = account.table
  BY <1>1 DEF Account
<1>3. TypeOK'
  BY <1>1, <1>2 DEF TypeOK, TeardownSteps
<1>4. BucketGone'
  BY <1>2 DEF BucketGone, FromUnalias, FromSchedule, FromSweep, FromRepo
<1>5. FunctionsGone' /\ LogsGone' /\ RoleGone' /\ TableGone'
  BY <1>1, <1>2, FunctionsStayGone, LogsStayGone, RoleStaysGone, TableStaysGone
     DEF FromLogs, FromDetach, FromDrop, FromObjects
<1>6. KeysGone'
  BY <1>1, <1>2, NotYetKeys DEF FromSchedule, FromSweep, FromRepo
<1> QED
  BY <1>3, <1>4, <1>5, <1>6, TeardownGoesOn DEF Reclaimed, TeardownSteps

LEMMA DeleteObjectInv ==
  ASSUME IInv, NEW o \in Objects, DeleteObject(o)
  PROVE  IInv'
<1>1. PICK c \in Answers(TRUE) :
        /\ account' = [account EXCEPT !.bucket = Without(@, o, c)]
        /\ failures' = IF c.ok THEN failures ELSE failures \cup {"s3"}
        /\ Charge(c, TRUE)
        /\ IF c.ok THEN work' = work \ {o} /\ UNCHANGED <<step, last>> ELSE Enter("unalias")
  BY DEF DeleteObject
<1>2. TypeOK /\ account \in Account /\ step = "objects" /\ UNCHANGED <<cells, hosted, key>>
  BY DEF IInv, TypeOK, DeleteObject
<1> DEFINE b == IF c.took THEN account.bucket \ {o} ELSE account.bucket
<1>3. account' = [account EXCEPT !.bucket = b] /\ b \in SUBSET BucketParts
  BY <1>1, <1>2 DEF Account, Without
<1>4. /\ failures \subseteq failures' /\ failures' \subseteq Classes
      /\ clean' \in BOOLEAN /\ (c.ok \/ "s3" \in failures')
  BY <1>1, <1>2, ReportFacts DEF Classes
<1>5. step' = (IF c.ok THEN "objects" ELSE "unalias")
  BY <1>1, <1>2 DEF Enter
<1> HIDE DEF b
<1> QED
  BY <1>2, <1>3, <1>4, <1>5, BucketCallInv

LEMMA DeleteBucketInv ==
  ASSUME IInv, DeleteBucket
  PROVE  IInv'
<1>1. PICK c \in Answers(TRUE) :
        /\ account' = [account EXCEPT !.bucket = IF c.took THEN {} ELSE @]
        /\ Charge(c, TRUE) /\ TeardownCall(c, "s3", "unalias", "unalias")
  BY DEF DeleteBucket
<1>2. TypeOK /\ account \in Account /\ step = "objects" /\ UNCHANGED <<cells, hosted, key>>
  BY DEF IInv, TypeOK, DeleteBucket
<1> DEFINE b == IF c.took THEN {} ELSE account.bucket
<1>3. account' = [account EXCEPT !.bucket = b] /\ b \in SUBSET BucketParts
  BY <1>1, <1>2 DEF Account
<1>4. /\ failures' = (IF c.ok THEN failures ELSE failures \cup {"s3"})
      /\ step' = "unalias"
  BY <1>1 DEF TeardownCall, Enter
<1>5. /\ failures \subseteq failures' /\ failures' \subseteq Classes
      /\ clean' \in BOOLEAN /\ (c.took \/ "s3" \in failures')
  BY <1>1, <1>2, <1>4, ReportFacts DEF Classes
<1>6. b = {} \/ "s3" \in failures'
  BY <1>5
<1> HIDE DEF b
<1> QED
  BY <1>2, <1>3, <1>4, <1>5, <1>6, BucketCallInv

\* A step of delete_kms_key or of the sweep leaves the classes before them alone.
LEMMA KeyStepInv ==
  ASSUME IInv, step \in FromUnalias, step' \in FromSchedule,
         account' \in Account,
         account'.functions = account.functions, account'.groups = account.groups,
         account'.role = account.role, account'.table = account.table,
         account'.bucket = account.bucket,
         failures \subseteq failures', failures' \subseteq Classes, clean' \in BOOLEAN,
         key' \in Nat, UNCHANGED <<cells, hosted>>, KeysGone'
  PROVE  IInv'
<1>1. TypeOK /\ Reclaimed
  BY DEF IInv
<1>2. /\ step \in FromLogs /\ step \in FromDetach /\ step \in FromDrop
      /\ step \in FromObjects
      /\ step' \notin {"functions", "logs", "uninline", "unrole"}
      /\ step' \in TeardownSteps
  BY DEF FromLogs, FromDetach, FromDrop, FromObjects, FromUnalias, FromSchedule,
     FromSweep, FromRepo, TeardownSteps
<1>3. TypeOK'
  BY <1>1, <1>2 DEF TypeOK
<1>4. FunctionsGone' /\ LogsGone' /\ RoleGone' /\ TableGone' /\ BucketGone'
  BY <1>1, <1>2, FunctionsStayGone, LogsStayGone, RoleStaysGone, TableStaysGone,
     BucketStaysGone
<1> QED
  BY <1>2, <1>3, <1>4, TeardownGoesOn DEF Reclaimed

\* The sweep starts from every key the account still has.
LEMMA SweepStarts ==
  ASSUME account' \in Account, step' \in {"schedule", "sweep"},
         \A k \in DOMAIN account'.keys : account'.keys[k].tagged,
         account'.alias = 0 \/ "key" \in failures',
         step' = "sweep" => \A k \in DOMAIN account'.keys :
                              account'.keys[k].state = "enabled" => k \in work'
  PROVE  KeysGone'
  BY DEF KeysGone

LEMMA DeleteAliasInv ==
  ASSUME IInv, DeleteAlias
  PROVE  IInv'
<1>1. PICK c \in Answers(TRUE) :
        /\ account' = [account EXCEPT !.alias = IF c.took THEN 0 ELSE @]
        /\ Charge(c, TRUE)
        /\ TeardownCall(c, "key", IF key' # 0 THEN "schedule" ELSE "sweep", "sweep")
  BY DEF DeleteAlias
<1>2. /\ TypeOK /\ Reclaimed /\ account \in Account /\ account.alias \in Nat
      /\ step = "unalias" /\ UNCHANGED <<cells, hosted>> /\ key' = account.alias
  BY DEF IInv, TypeOK, Account, DeleteAlias
<1>3. /\ account' \in Account /\ account'.alias = (IF c.took THEN 0 ELSE account.alias)
      /\ account'.functions = account.functions /\ account'.keys = account.keys
      /\ account'.groups = account.groups /\ account'.role = account.role
      /\ account'.table = account.table /\ account'.bucket = account.bucket
  BY <1>1, <1>2 DEF Account
<1>4. /\ failures' = (IF c.ok THEN failures ELSE failures \cup {"key"})
      /\ step' \in {"schedule", "sweep"}
      /\ step' = "sweep" =>
           work' = {k \in DOMAIN account.keys : account.keys[k].state # "gone"}
  BY <1>1 DEF TeardownCall, Enter, Work
<1>5. /\ failures \subseteq failures' /\ failures' \subseteq Classes
      /\ clean' \in BOOLEAN /\ (c.took \/ "key" \in failures')
  BY <1>1, <1>2, <1>4, ReportFacts DEF Classes
<1>6. KeysGone'
  <2>1. \A k \in DOMAIN account.keys : account.keys[k].tagged
    BY <1>2 DEF Reclaimed, KeysGone
  <2>2. step' = "sweep" => \A k \in DOMAIN account'.keys :
                             account'.keys[k].state = "enabled" => k \in work'
    BY <1>3, <1>4
  <2> QED
    BY <1>3, <1>4, <1>5, <2>1, <2>2, SweepStarts
<1> QED
  BY <1>2, <1>3, <1>4, <1>5, <1>6, KeyStepInv
     DEF FromUnalias, FromSchedule, FromSweep, FromRepo

LEMMA ScheduleKeyInv ==
  ASSUME IInv, ScheduleKey
  PROVE  IInv'
<1> DEFINE a == Schedulable(key)
<1>1. PICK c \in Answers(a) :
        /\ account' = ScheduledIf(c, key)
        /\ Charge(c, a) /\ TeardownCall(c, "key", "sweep", "sweep")
  BY DEF ScheduleKey
<1>2. /\ TypeOK /\ Reclaimed /\ account \in Account /\ key \in Nat /\ a \in BOOLEAN
      /\ step = "schedule" /\ UNCHANGED <<cells, hosted, key>>
      /\ account.alias = 0 \/ "key" \in failures
      /\ \A k \in DOMAIN account.keys : account.keys[k].tagged
  BY DEF IInv, TypeOK, ScheduleKey, Schedulable, Reclaimed, KeysGone, FromSchedule
<1> HIDE DEF a
<1>3. /\ account' \in Account /\ account'.alias = account.alias
      /\ account'.functions = account.functions
      /\ account'.groups = account.groups /\ account'.role = account.role
      /\ account'.table = account.table /\ account'.bucket = account.bucket
      /\ DOMAIN account'.keys = DOMAIN account.keys
      /\ \A k \in DOMAIN account'.keys :
           /\ account'.keys[k].tagged
           /\ account'.keys[k].state = "enabled" => account.keys[k].state = "enabled"
  BY <1>1, <1>2, ScheduledFacts
<1>4. /\ failures' = (IF c.ok THEN failures ELSE failures \cup {"key"})
      /\ step' = "sweep"
      /\ work' = {k \in DOMAIN account.keys : account.keys[k].state # "gone"}
  BY <1>1 DEF TeardownCall, Enter, Work
<1>5. /\ failures \subseteq failures' /\ failures' \subseteq Classes /\ clean' \in BOOLEAN
  BY <1>1, <1>2, <1>4, ReportFacts DEF Classes
<1>6. KeysGone'
  BY <1>2, <1>3, <1>4, <1>5, SweepStarts
<1> QED
  BY <1>2, <1>3, <1>4, <1>5, <1>6, KeyStepInv
     DEF FromUnalias, FromSchedule, FromSweep, FromRepo

LEMMA SweepKeyInv ==
  ASSUME IInv, NEW k \in 1 .. MaxKeys, SweepKey(k)
  PROVE  IInv'
<1>1. /\ TypeOK /\ Reclaimed /\ account \in Account /\ key \in Nat
      /\ step = "sweep" /\ UNCHANGED <<cells, hosted, key>>
      /\ account.alias = 0 \/ "key" \in failures
      /\ \A j \in DOMAIN account.keys :
           /\ account.keys[j].tagged
           /\ account.keys[j].state = "enabled" => j \in work \/ "sweep" \in failures
  BY DEF IInv, TypeOK, SweepKey, Reclaimed, KeysGone, FromSchedule, FromSweep
<1> DEFINE ours == account.keys[k].tagged
           a == ~ours \/ Schedulable(k)
<1>2. PICK c \in Answers(a) :
        /\ account' = IF ours THEN ScheduledIf(c, k) ELSE account
        /\ failures' = IF c.ok THEN failures ELSE failures \cup {"sweep"}
        /\ Charge(c, a)
        /\ IF c.ok THEN work' = work \ {k} /\ UNCHANGED <<step, last>> ELSE Enter("repo")
  BY DEF SweepKey
<1>3. a \in BOOLEAN
  BY DEF Schedulable
<1> HIDE DEF a
<1>4. /\ account' \in Account /\ account'.alias = account.alias
      /\ account'.functions = account.functions
      /\ account'.groups = account.groups /\ account'.role = account.role
      /\ account'.table = account.table /\ account'.bucket = account.bucket
      /\ DOMAIN account'.keys = DOMAIN account.keys
      /\ \A j \in DOMAIN account'.keys :
           /\ account'.keys[j].tagged
           /\ account'.keys[j].state = "enabled" =>
                account.keys[j].state = "enabled" /\ (j = k => ~c.took)
  <2>1. CASE ours
    BY <1>1, <1>2, <2>1, ScheduledFacts
  <2>2. CASE ~ours
    <3>1. k \notin DOMAIN account.keys /\ account' = account
      BY <1>1, <1>2, <2>2
    <3> QED
      BY <1>1, <3>1
  <2> QED
    BY <2>1, <2>2
<1>5. /\ failures \subseteq failures' /\ failures' \subseteq Classes
      /\ clean' \in BOOLEAN /\ (c.ok \/ "sweep" \in failures') /\ (c.ok => c.took)
  BY <1>1, <1>2, <1>3, ReportFacts DEF Classes
<1>6. /\ step' = (IF c.ok THEN "sweep" ELSE "repo")
      /\ c.ok => work' = work \ {k}
  BY <1>1, <1>2 DEF Enter
<1>7. KeysGone'
  <2>1. account'.alias = 0 \/ "key" \in failures'
    BY <1>1, <1>4, <1>5
  <2>2. CASE c.ok
    <3>1. ASSUME NEW j \in DOMAIN account'.keys, account'.keys[j].state = "enabled"
          PROVE  j \in work' \/ "sweep" \in failures'
      BY <1>1, <1>4, <1>5, <1>6, <2>2, <3>1
    <3> QED
      BY <1>4, <1>6, <2>1, <2>2, <3>1 DEF KeysGone
  <2>3. CASE ~c.ok
    BY <1>4, <1>5, <1>6, <2>1, <2>3 DEF KeysGone
  <2> QED
    BY <2>2, <2>3
<1> QED
  BY <1>1, <1>4, <1>5, <1>6, <1>7, KeyStepInv
     DEF FromUnalias, FromSchedule, FromSweep, FromRepo

LEMMA SweepEndsInv ==
  ASSUME IInv, SweepEnds
  PROVE  IInv'
<1>1. PICK c \in Answers(TRUE) :
        Charge(c, TRUE) /\ TeardownCall(c, "sweep", "repo", "repo")
  BY DEF SweepEnds
<1>2. /\ TypeOK /\ Reclaimed /\ account \in Account /\ key \in Nat
      /\ step = "sweep" /\ work = {} /\ UNCHANGED <<account, cells, hosted, key>>
      /\ account.alias = 0 \/ "key" \in failures
      /\ \A j \in DOMAIN account.keys :
           /\ account.keys[j].tagged
           /\ account.keys[j].state = "enabled" => "sweep" \in failures
  BY DEF IInv, TypeOK, SweepEnds, Reclaimed, KeysGone, FromSchedule, FromSweep
<1>3. /\ failures' = (IF c.ok THEN failures ELSE failures \cup {"sweep"})
      /\ step' = "repo"
  BY <1>1 DEF TeardownCall, Enter
<1>4. /\ failures \subseteq failures' /\ failures' \subseteq Classes /\ clean' \in BOOLEAN
  BY <1>1, <1>2, <1>3, ReportFacts DEF Classes
<1>5. KeysGone'
  BY <1>2, <1>3, <1>4 DEF KeysGone
<1> QED
  BY <1>2, <1>3, <1>4, <1>5, KeyStepInv DEF FromUnalias, FromSchedule, FromSweep, FromRepo

LEMMA DeleteEcrRepoInv ==
  ASSUME IInv, DeleteEcrRepo
  PROVE  IInv'
<1>1. PICK c \in Answers(TRUE) :
        /\ account' = [account EXCEPT !.repo = @ /\ ~c.took]
        /\ failures' = IF c.ok THEN failures ELSE failures \cup {"ecr"}
        /\ Charge(c, TRUE)
  BY DEF DeleteEcrRepo
<1>2. /\ TypeOK /\ Reclaimed /\ account \in Account /\ account.repo \in BOOLEAN
      /\ step = "repo" /\ UNCHANGED <<cells, hosted, key>>
      /\ step' = "idle" /\ last' = "tornDown"
      /\ account.groups \subseteq Fns
  BY DEF IInv, TypeOK, Account, DeleteEcrRepo, EndWith
<1> DEFINE r == account.repo /\ ~c.took
<1>3. r \in BOOLEAN /\ account' = [account EXCEPT !.repo = r]
  BY <1>1
<1>4. c.took => ~r
  OBVIOUS
<1> HIDE DEF r
<1>5. /\ account' \in Account /\ account'.repo = r /\ account'.alias = account.alias
      /\ account'.functions = account.functions /\ account'.keys = account.keys
      /\ account'.groups = account.groups /\ account'.role = account.role
      /\ account'.table = account.table /\ account'.bucket = account.bucket
  BY <1>2, <1>3 DEF Account
<1>6. /\ failures \subseteq failures' /\ failures' \subseteq Classes
      /\ clean' \in BOOLEAN /\ (c.took \/ "ecr" \in failures')
  BY <1>1, <1>2, ReportFacts DEF Classes
<1>7. TypeOK'
  BY <1>2, <1>5, <1>6 DEF TypeOK
<1>8. \A k \in DOMAIN account'.keys : account'.keys[k].tagged
  BY <1>2, <1>5 DEF Reclaimed, KeysGone
<1>9. /\ step \in FromLogs /\ step \in FromDetach /\ step \in FromDrop
      /\ step \in FromObjects /\ step \in FromUnalias /\ step \in FromSchedule
  BY <1>2 DEF FromLogs, FromDetach, FromDrop, FromObjects, FromUnalias, FromSchedule,
     FromSweep, FromRepo
<1>10. /\ "functions" \in failures' \/ \A f \in Fns : account'.functions[f] = 0
       /\ account'.groups = {} \/ "logs" \in failures'
       /\ account'.role = {} \/ "role" \in failures'
  BY <1>2, <1>5, <1>6, <1>9 DEF Reclaimed, FunctionsGone, LogsGone, RoleGone
<1>11. /\ account'.table \in {"absent", "deleting"} \/ "table" \in failures'
       /\ account'.bucket = {} \/ "s3" \in failures'
       /\ account'.alias = 0 \/ "key" \in failures'
       /\ "sweep" \in failures'
            \/ \A k \in DOMAIN account'.keys : account'.keys[k].state # "enabled"
  BY <1>2, <1>5, <1>6, <1>9 DEF Reclaimed, TableGone, BucketGone, KeysGone
<1>12. account'.repo => "ecr" \in failures'
  BY <1>4, <1>5, <1>6
<1>13. LeftoversReported'
  BY <1>10, <1>11, <1>12 DEF LeftoversReported
<1>14. Deployed' /\ DeployFailsForAReason'
  BY <1>2 DEF Deployed, DeployFailsForAReason
<1> QED
  BY <1>2, <1>7, <1>8, <1>13, <1>14, IdleRest DEF IInv

-----------------------------------------------------------------------------
(* The rest of the world.                                                  *)

LEMMA CrashInv ==
  ASSUME IInv, Crash
  PROVE  IInv'
<1>1. /\ step' = "idle" /\ last' = "crashed" /\ clean' = FALSE
      /\ UNCHANGED <<account, cells, hosted, key, failures>>
  BY DEF Crash, EndWith
<1>2. TypeOK'
  BY <1>1 DEF IInv, TypeOK
<1>3. \A k \in DOMAIN account'.keys : account'.keys[k].tagged
  BY <1>1 DEF IInv, Reclaimed, KeysGone
<1> QED
  BY <1>1, <1>2, <1>3, EndsShort

LEMMA MeasureInv ==
  ASSUME IInv, Measure
  PROVE  IInv'
<1>1. PICK fs \in SUBSET {f \in Fns : account.functions[f] # 0} :
        account' = [account EXCEPT !.groups = @ \cup fs, !.repo = TRUE]
  BY DEF Measure
<1>2. /\ step' = "idle" /\ last' = "measured" /\ account \in Account
      /\ UNCHANGED <<cells, hosted, key, failures, clean>>
  BY DEF IInv, TypeOK, Measure
<1>3. fs \subseteq Fns
  OBVIOUS
<1>4. account' \in Account /\ account'.keys = account.keys
  BY <1>1, <1>2, <1>3 DEF Account
<1>5. TypeOK'
  BY <1>2, <1>4 DEF IInv, TypeOK
<1>6. \A k \in DOMAIN account'.keys : account'.keys[k].tagged
  BY <1>4 DEF IInv, Reclaimed, KeysGone
<1> QED
  BY <1>2, <1>5, <1>6, EndsShort

\* DynamoDB finishing what it started never takes a table away that a deploy counts on.
LEMMA TableSettlesInv ==
  ASSUME IInv, TableSettles
  PROVE  IInv'
<1> DEFINE t == Settled[account.table]
<1>1. /\ account.table \in {"creating", "deleting"} /\ account \in Account
      /\ account' = [account EXCEPT !.table = t]
      /\ account.table = "creating" => t = "active"
      /\ account.table = "deleting" => t = "absent"
      /\ UNCHANGED <<step, work, cells, hosted, key, failures, clean, last>>
  BY DEF IInv, TypeOK, TableSettles, Settled
<1> HIDE DEF t
<1>2. t \in TableStates
  BY <1>1 DEF TableStates
<1>3. /\ account' \in Account /\ account'.table = t /\ account'.alias = account.alias
      /\ account'.functions = account.functions /\ account'.keys = account.keys
      /\ account'.groups = account.groups /\ account'.role = account.role
      /\ account'.bucket = account.bucket /\ account'.repo = account.repo
  BY <1>1, <1>2 DEF Account
<1>4. TypeOK'
  BY <1>1, <1>3 DEF IInv, TypeOK
<1>5. TableInPlace'
  BY <1>1, <1>3 DEF IInv, InPlace, TableInPlace, Present
<1>6. RoleInPlace' /\ BucketInPlace' /\ FunctionsWired' /\ FaultsKnown'
  BY <1>1, <1>3 DEF IInv, InPlace, RoleInPlace, BucketInPlace, FunctionsWired, FaultsKnown
<1>7. TableGone'
  BY <1>1, <1>3 DEF IInv, Reclaimed, TableGone
<1>8. FunctionsGone' /\ LogsGone' /\ RoleGone' /\ BucketGone' /\ KeysGone'
  BY <1>1, <1>3
     DEF IInv, Reclaimed, FunctionsGone, LogsGone, RoleGone, BucketGone, KeysGone
<1>9. Deployed'
  BY <1>1, <1>3 DEF IInv, Deployed
<1>10. LeftoversReported' /\ DeployFailsForAReason'
  BY <1>1, <1>3 DEF IInv, LeftoversReported, DeployFailsForAReason
<1> QED
  BY <1>4, <1>5, <1>6, <1>7, <1>8, <1>9, <1>10 DEF IInv, InPlace, Reclaimed

\* A key that is gone is not a key that bills, and its alias went with it.
LEMMA KeyExpiresInv ==
  ASSUME IInv, NEW k \in 1 .. MaxKeys, KeyExpires(k)
  PROVE  IInv'
<1> DEFINE l == IF account.alias = k THEN 0 ELSE account.alias
           r == [account.keys[k] EXCEPT !.state = "gone"]
           ks == [account.keys EXCEPT ![k] = r]
<1>1. /\ account \in Account /\ k \in DOMAIN account.keys
      /\ account.keys \in Seq(Keys) /\ account.alias \in Nat
      /\ account' = [account EXCEPT !.keys[k].state = "gone",
                                    !.alias = IF @ = k THEN 0 ELSE @]
      /\ UNCHANGED <<step, work, cells, hosted, key, failures, clean, last>>
  BY DEF IInv, TypeOK, Account, KeyExpires
<1>2. account' = [account EXCEPT !.keys = ks, !.alias = l]
  BY <1>1
<1>3. account.keys[k] \in Keys
  BY <1>1, ElementOfSeq
<1>4. r \in Keys /\ r.state = "gone" /\ r.tagged = account.keys[k].tagged
  BY <1>3 DEF Keys, KeyStates
<1> HIDE DEF r
<1>5. ks \in Seq(Keys) /\ DOMAIN ks = DOMAIN account.keys
  BY <1>1, <1>4
<1>6. \A j \in DOMAIN ks : ks[j] = IF j = k THEN r ELSE account.keys[j]
  BY <1>1
<1>7. l \in Nat /\ (account.alias = 0 => l = 0)
  BY <1>1
<1> HIDE DEF l, ks
<1>8. /\ account' \in Account /\ account'.alias = l /\ account'.keys = ks
      /\ account'.functions = account.functions /\ account'.table = account.table
      /\ account'.groups = account.groups /\ account'.role = account.role
      /\ account'.bucket = account.bucket /\ account'.repo = account.repo
  BY <1>1, <1>2, <1>5, <1>7 DEF Account
<1>9. TypeOK'
  BY <1>1, <1>8 DEF IInv, TypeOK
<1>10. /\ DOMAIN account'.keys = DOMAIN account.keys
       /\ \A j \in DOMAIN account'.keys :
            /\ account.keys[j].tagged => account'.keys[j].tagged
            /\ account'.keys[j].state = "enabled" => account.keys[j].state = "enabled"
  BY <1>4, <1>5, <1>6, <1>8
<1>11. InPlace'
  BY <1>1, <1>8 DEF IInv, InPlace, RoleInPlace, TableInPlace, BucketInPlace,
     FunctionsWired, FaultsKnown
<1>12. FunctionsGone' /\ LogsGone' /\ RoleGone' /\ TableGone' /\ BucketGone'
  BY <1>1, <1>8
     DEF IInv, Reclaimed, FunctionsGone, LogsGone, RoleGone, TableGone, BucketGone
<1>13. KeysGone'
  BY <1>1, <1>7, <1>8, <1>10 DEF IInv, Reclaimed, KeysGone
<1>14. Deployed' /\ DeployFailsForAReason'
  BY <1>1, <1>8 DEF IInv, Deployed, DeployFailsForAReason
<1>15. LeftoversReported'
  BY <1>1, <1>7, <1>8, <1>10 DEF IInv, LeftoversReported
<1> QED
  BY <1>9, <1>11, <1>12, <1>13, <1>14, <1>15 DEF IInv, Reclaimed

LEMMA StutterInv ==
  ASSUME IInv, UNCHANGED vars
  PROVE  IInv'
BY DEF IInv, vars, TypeOK, InPlace, RoleInPlace, TableInPlace, BucketInPlace,
   FunctionsWired, FaultsKnown, Reclaimed, FunctionsGone, LogsGone, RoleGone,
   TableGone, BucketGone, KeysGone, Deployed, LeftoversReported, DeployFailsForAReason

LEMMA DeployInv ==
  ASSUME IInv, Deploy
  PROVE  IInv'
<1>1. CASE EnsureRole
  BY <1>1, EnsureRoleInv
<1>2. CASE DescribeTable
  BY <1>2, DescribeTableInv
<1>3. CASE Recreate
  BY <1>3, RecreateInv
<1>4. CASE AwaitActive
  BY <1>4, AwaitActiveInv
<1>5. CASE WaitTimesOut
  BY <1>5, WaitTimesOutInv
<1>6. CASE SeedItem
  BY <1>6, SeedItemInv
<1>7. CASE EnsureKmsKey
  BY <1>7, EnsureKmsKeyInv
<1>8. CASE CreateAlias
  BY <1>8, CreateAliasInv
<1>9. CASE UndoKey
  BY <1>9, UndoKeyInv
<1>10. CASE EnsureSeededBucket
  BY <1>10, EnsureSeededBucketInv
<1>11. CASE \E f \in Fns : EnsureFunction(f)
  BY <1>11, EnsureFunctionInv
<1> QED
  BY <1>1, <1>2, <1>3, <1>4, <1>5, <1>6, <1>7, <1>8, <1>9, <1>10, <1>11 DEF Deploy

LEMMA TeardownInv ==
  ASSUME IInv, Teardown
  PROVE  IInv'
<1>1. CASE \E f \in Fns : DeleteFunction(f)
  BY <1>1, DeleteFunctionInv
<1>2. CASE \E f \in Fns : DeleteLogGroup(f)
  BY <1>2, DeleteLogGroupInv
<1>3. CASE DeleteRole
  BY <1>3, DeleteRoleInv
<1>4. CASE DeleteTable
  BY <1>4, DeleteTableInv
<1>5. CASE \E o \in Objects : DeleteObject(o)
  BY <1>5, DeleteObjectInv
<1>6. CASE DeleteBucket
  BY <1>6, DeleteBucketInv
<1>7. CASE DeleteAlias
  BY <1>7, DeleteAliasInv
<1>8. CASE ScheduleKey
  BY <1>8, ScheduleKeyInv
<1>9. CASE \E k \in 1 .. MaxKeys : SweepKey(k)
  BY <1>9, SweepKeyInv
<1>10. CASE SweepEnds
  BY <1>10, SweepEndsInv
<1>11. CASE DeleteEcrRepo
  BY <1>11, DeleteEcrRepoInv
<1> QED
  BY <1>1, <1>2, <1>3, <1>4, <1>5, <1>6, <1>7, <1>8, <1>9, <1>10, <1>11 DEF Teardown

-----------------------------------------------------------------------------
(* The theorems.                                                           *)

\* Whatever commands ran before, at every step of a deploy the parts of the steps it
\* has passed are there, and at every step of a teardown what it has passed is gone or
\* reported (deploy.rs `deploy`, teardown.rs `teardown`).
THEOREM ProvisioningInductive == Spec => []IInv
<1>1. Init => IInv
  <2> SUFFICES ASSUME Init PROVE IInv
    OBVIOUS
  <2>1. << >> \in Seq(Keys) /\ DOMAIN << >> = {}
    BY EmptySeq
  <2>2. /\ step = "idle" /\ last = "none" /\ account.keys = << >>
        /\ account \in Account /\ cells = {} /\ hosted = FALSE /\ key = 0
        /\ failures = {} /\ clean = TRUE
    BY <2>1 DEF Init, Account, TableStates
  <2>3. TypeOK
    BY <2>2 DEF TypeOK
  <2>4. Reclaimed
    BY <2>1, <2>2 DEF Reclaimed, FunctionsGone, LogsGone, RoleGone, TableGone, BucketGone,
       KeysGone, FromLogs, FromDetach, FromDrop, FromObjects,
       FromUnalias, FromSchedule, FromSweep, FromRepo
  <2>5. InPlace
    BY <2>2 DEF InPlace, RoleInPlace, TableInPlace, BucketInPlace, FunctionsWired,
       FaultsKnown, FromLogging, FromInline, FromTable, FromKey, FromAlias,
       FromBucket, FromHardened, FromObject, FromPayloads, FromWire, DeploySteps
  <2> QED
    BY <2>2, <2>3, <2>4, <2>5
       DEF IInv, Deployed, LeftoversReported, DeployFailsForAReason
<1>2. IInv /\ [Next]_vars => IInv'
  <2> SUFFICES ASSUME IInv, [Next]_vars PROVE IInv'
    OBVIOUS
  <2>1. CASE StartDeploy
    BY <2>1, StartDeployInv
  <2>2. CASE Deploy
    BY <2>2, DeployInv
  <2>3. CASE StartTeardown
    BY <2>3, StartTeardownInv
  <2>4. CASE Teardown
    BY <2>4, TeardownInv
  <2>5. CASE Crash
    BY <2>5, CrashInv
  <2>6. CASE Measure
    BY <2>6, MeasureInv
  <2>7. CASE TableSettles
    BY <2>7, TableSettlesInv
  <2>8. CASE \E k \in 1 .. MaxKeys : KeyExpires(k)
    BY <2>8, KeyExpiresInv
  <2>9. CASE UNCHANGED vars
    BY <2>9, StutterInv
  <2> QED
    BY <2>1, <2>2, <2>3, <2>4, <2>5, <2>6, <2>7, <2>8, <2>9 DEF Next
<1> QED
  BY <1>1, <1>2, PTL DEF Spec

\* A deploy that says it succeeded left everything its cells need, whatever earlier
\* commands left half done, for any number of functions, keys and faults
\* (deploy.rs `deploy`, which reports success after its last step).
THEOREM DeployedCorrect == Spec => []Deployed
<1>1. IInv => Deployed
  BY DEF IInv
<1> QED
  BY <1>1, ProvisioningInductive, PTL

\* Nothing that bills survives a teardown unreported (teardown.rs `teardown` and
\* its list of failures).
THEOREM LeftoversCorrect == Spec => []LeftoversReported
<1>1. IInv => LeftoversReported
  BY DEF IInv
<1> QED
  BY <1>1, ProvisioningInductive, PTL

\* A deploy never fails over what earlier commands left, only over a call or a wait of
\* its own (the `?`s of deploy.rs `deploy`).
THEOREM FailsForAReason == Spec => []DeployFailsForAReason
<1>1. IInv => DeployFailsForAReason
  BY DEF IInv
<1> QED
  BY <1>1, ProvisioningInductive, PTL

-----------------------------------------------------------------------------
(* A command ends, and a teardown that meets no fault reclaims everything. *)

\* The steps of a command in the order it takes them, counted from its end.
ToGo ==
  [idle |-> 0, undo |-> 1,
   wire |-> 1, payloads |-> 2, object |-> 3, hardened |-> 4, bucket |-> 5, alias |-> 6, key |-> 7,
   seed |-> 8, active |-> 9, gone |-> 10, table |-> 11, inline |-> 12, logging |-> 13, role |-> 14,
   repo |-> 1, sweep |-> 2, schedule |-> 3, unalias |-> 4, objects |-> 5, drop |-> 6, unrole |-> 7,
   uninline |-> 8, detach |-> 9, logs |-> 10, functions |-> 11]

\* A command comes nearer its end, or has less to go through in the step it is at.
Onward ==
  \/ ToGo[step'] < ToGo[step]
  \/ step' = step /\ work' \subseteq work /\ work' # work

\* The alias names a key that was created, and so does the key id a command holds where it
\* uses it.
KeysKnown ==
  /\ account.alias \in 0 .. Len(account.keys)
  /\ step \in {"alias", "undo", "schedule"} => key \in 1 .. Len(account.keys)
  /\ step = "sweep" => work \subseteq DOMAIN account.keys

\* Short of a fault a teardown has nothing to report but a table.
OnlyTheTable ==
  step \in TeardownSteps \/ (step = "idle" /\ last = "tornDown") =>
    ~clean \/ failures \subseteq {"table"}

\* It reports the table because DynamoDB was still creating it when asked to delete it.
TableRefused ==
  step \in TeardownSteps /\ clean' /\ "table" \in failures' \ failures =>
    step = "drop" /\ account.table = "creating"

\* Where each step stands.
LEMMA Course ==
  /\ ToGo["idle"] = 0 /\ ToGo["undo"] = 1 /\ ToGo["wire"] = 1 /\ ToGo["payloads"] = 2
  /\ ToGo["object"] = 3 /\ ToGo["hardened"] = 4 /\ ToGo["bucket"] = 5 /\ ToGo["alias"] = 6
  /\ ToGo["key"] = 7 /\ ToGo["seed"] = 8 /\ ToGo["active"] = 9 /\ ToGo["gone"] = 10
  /\ ToGo["table"] = 11 /\ ToGo["inline"] = 12 /\ ToGo["logging"] = 13 /\ ToGo["role"] = 14
  /\ ToGo["repo"] = 1 /\ ToGo["sweep"] = 2 /\ ToGo["schedule"] = 3 /\ ToGo["unalias"] = 4
  /\ ToGo["objects"] = 5 /\ ToGo["drop"] = 6 /\ ToGo["unrole"] = 7 /\ ToGo["uninline"] = 8
  /\ ToGo["detach"] = 9 /\ ToGo["logs"] = 10 /\ ToGo["functions"] = 11
  BY DEF ToGo

\* A call of a deploy takes it to the next step or ends it.
LEMMA CallLeads ==
  ASSUME NEW c, NEW next, DeployCall(c, next)
  PROVE  step' = next \/ (step' = "idle" /\ last' = "deployFailed")
  BY DEF DeployCall, Enter, EndWith

\* A deploy goes its way in one direction, and wires one function after the other.
LEMMA DeployOnward ==
  ASSUME Deploy
  PROVE  /\ Onward /\ step \in DeploySteps
         /\ step' \in DeploySteps \/ (step' = "idle" /\ last' # "tornDown")
<1> DEFINE P == /\ Onward /\ step \in DeploySteps
                /\ step' \in DeploySteps \/ (step' = "idle" /\ last' # "tornDown")
<1>1. ASSUME NEW s \in DeploySteps, NEW t \in DeploySteps, ToGo[t] < ToGo[s], 0 < ToGo[s],
             step = s, step' = t \/ (step' = "idle" /\ last' # "tornDown")
      PROVE  P
  BY <1>1, Course DEF Onward
<1>2. CASE EnsureRole
  <2>1. step \in RoleParts /\ \E c : DeployCall(c, AfterRolePart[step])
    BY <1>2 DEF EnsureRole
  <2>2. step' = AfterRolePart[step] \/ (step' = "idle" /\ last' # "tornDown")
    BY <2>1, CallLeads
  <2>3. \/ step = "role" /\ AfterRolePart[step] = "logging"
        \/ step = "logging" /\ AfterRolePart[step] = "inline"
        \/ step = "inline" /\ AfterRolePart[step] = "table"
    BY <2>1 DEF RoleParts, AfterRolePart
  <2>4. QED
    BY <1>1, <2>2, <2>3, Course DEF DeploySteps
<1>3. CASE DescribeTable
  <2>1. step = "table" /\ \E c, t : t \in {"active", "gone"} /\ DeployCall(c, t)
    BY <1>3 DEF DescribeTable
  <2>2. step' \in {"active", "gone"} \/ (step' = "idle" /\ last' # "tornDown")
    BY <2>1, CallLeads
  <2>3. QED
    BY <1>1, <2>1, <2>2, Course DEF DeploySteps
<1>4. CASE Recreate
  <2>1. step = "gone" /\ \E c : DeployCall(c, "active")
    BY <1>4 DEF Recreate
  <2>2. step' = "active" \/ (step' = "idle" /\ last' # "tornDown")
    BY <2>1, CallLeads
  <2>3. QED
    BY <1>1, <2>1, <2>2, Course DEF DeploySteps
<1>5. CASE AwaitActive
  <2>1. step = "active" /\ \E c : DeployCall(c, "seed")
    BY <1>5 DEF AwaitActive
  <2>2. step' = "seed" \/ (step' = "idle" /\ last' # "tornDown")
    BY <2>1, CallLeads
  <2>3. QED
    BY <1>1, <2>1, <2>2, Course DEF DeploySteps
<1>6. CASE WaitTimesOut
  <2>1. step \in {"gone", "active"} /\ step' = "idle" /\ last' = "deployFailed"
    BY <1>6 DEF WaitTimesOut, EndWith
  <2>2. QED
    BY <2>1, Course DEF Onward, DeploySteps
<1>7. CASE SeedItem
  <2>1. step = "seed" /\ \E c : DeployCall(c, "key")
    BY <1>7 DEF SeedItem
  <2>2. step' = "key" \/ (step' = "idle" /\ last' # "tornDown")
    BY <2>1, CallLeads
  <2>3. QED
    BY <1>1, <2>1, <2>2, Course DEF DeploySteps
<1>8. CASE EnsureKmsKey
  <2>1. step = "key" /\ \E c, t : t \in {"bucket", "alias"} /\ DeployCall(c, t)
    BY <1>8 DEF EnsureKmsKey
  <2>2. step' \in {"bucket", "alias"} \/ (step' = "idle" /\ last' # "tornDown")
    BY <2>1, CallLeads
  <2>3. QED
    BY <1>1, <2>1, <2>2, Course DEF DeploySteps
<1>9. CASE CreateAlias
  <2>1. step = "alias" /\ step' \in {"bucket", "undo"}
    BY <1>9 DEF CreateAlias, Enter
  <2>2. QED
    BY <1>1, <2>1, Course DEF DeploySteps
<1>10. CASE UndoKey
  <2>1. step = "undo" /\ step' = "idle" /\ last' = "deployFailed"
    BY <1>10 DEF UndoKey, EndWith
  <2>2. QED
    BY <2>1, Course DEF Onward, DeploySteps
<1>11. CASE EnsureSeededBucket
  <2>1. /\ step \in {"bucket", "hardened", "object", "payloads"}
        /\ \E c : DeployCall(c, AfterBucketPart[step])
    BY <1>11 DEF EnsureSeededBucket, AfterBucketPart
  <2>2. step' = AfterBucketPart[step] \/ (step' = "idle" /\ last' # "tornDown")
    BY <2>1, CallLeads
  <2>3. \/ step = "bucket" /\ AfterBucketPart[step] = "hardened"
        \/ step = "hardened" /\ AfterBucketPart[step] = "object"
        \/ step = "object" /\ AfterBucketPart[step] = "payloads"
        \/ step = "payloads" /\ AfterBucketPart[step] = "wire"
    BY <2>1 DEF AfterBucketPart
  <2>4. QED
    BY <1>1, <2>2, <2>3, Course DEF DeploySteps
<1>12. ASSUME NEW f \in Fns, EnsureFunction(f) PROVE P
  <2>1. /\ step = "wire" /\ f \in work
        /\ \/ step' = "idle" /\ last' \in {"deployed", "deployFailed"}
           \/ work' = work \ {f} /\ step' = step
    BY <1>12 DEF EnsureFunction, EndWith, Collected
  <2>2. QED
    BY <2>1, Course DEF Onward, DeploySteps
<1>13. QED
  BY <1>2, <1>3, <1>4, <1>5, <1>6, <1>7, <1>8, <1>9, <1>10, <1>11, <1>12 DEF Deploy

\* A call of a teardown leads to one of two steps and reports its class if it errs.
LEMMA TeardownCallLeads ==
  ASSUME NEW c, NEW class, NEW next, NEW after, TeardownCall(c, class, next, after)
  PROVE  /\ step' = next \/ step' = after
         /\ failures' = IF c.ok THEN failures ELSE failures \cup {class}
  BY DEF TeardownCall, Enter

\* What is done of a step's work leaves less of it, or the next step.
LEMMA ProceedLeads ==
  ASSUME NEW x \in work, NEW next, Proceed(work \ {x}, next)
  PROVE  (step' = step /\ work' = work \ {x}) \/ step' = next
  BY DEF Proceed, Enter

\* A teardown goes its way in one direction too.
LEMMA TeardownOnward ==
  ASSUME Teardown
  PROVE  /\ Onward /\ step \in TeardownSteps
         /\ step' \in TeardownSteps \/ (step = "repo" /\ step' = "idle")
<1> DEFINE P == /\ Onward /\ step \in TeardownSteps
                /\ step' \in TeardownSteps \/ (step = "repo" /\ step' = "idle")
<1>1. ASSUME NEW s \in TeardownSteps, NEW t \in TeardownSteps, ToGo[t] < ToGo[s],
             step = s, step' = t
      PROVE  P
  BY <1>1 DEF Onward
<1>2. ASSUME NEW x \in work, step \in TeardownSteps, step' = step, work' = work \ {x} PROVE P
  BY <1>2 DEF Onward
<1>3. ASSUME NEW f \in Fns, DeleteFunction(f) PROVE P
  <2>1. step = "functions" /\ f \in work /\ Proceed(work \ {f}, "logs")
    BY <1>3 DEF DeleteFunction
  <2>2. (step' = step /\ work' = work \ {f}) \/ step' = "logs"
    BY <2>1, ProceedLeads
  <2>3. QED
    BY <1>1, <1>2, <2>1, <2>2, Course DEF TeardownSteps
<1>4. ASSUME NEW f \in Fns, DeleteLogGroup(f) PROVE P
  <2>1. step = "logs" /\ f \in work /\ Proceed(work \ {f}, "detach")
    BY <1>4 DEF DeleteLogGroup
  <2>2. (step' = step /\ work' = work \ {f}) \/ step' = "detach"
    BY <2>1, ProceedLeads
  <2>3. QED
    BY <1>1, <1>2, <2>1, <2>2, Course DEF TeardownSteps
<1>5. CASE DeleteRole
  <2>1. /\ step \in {"detach", "uninline", "unrole"}
        /\ \E c : TeardownCall(c, "role", AfterDropped[step], "drop")
    BY <1>5 DEF DeleteRole, Dropped
  <2>2. step' = AfterDropped[step] \/ step' = "drop"
    BY <2>1, TeardownCallLeads
  <2>3. \/ step = "detach" /\ AfterDropped[step] = "uninline"
        \/ step = "uninline" /\ AfterDropped[step] = "unrole"
        \/ step = "unrole" /\ AfterDropped[step] = "drop"
    BY <2>1 DEF AfterDropped
  <2>4. QED
    BY <1>1, <2>2, <2>3, Course DEF TeardownSteps
<1>6. CASE DeleteTable
  <2>1. step = "drop" /\ \E c : TeardownCall(c, "table", "objects", "objects")
    BY <1>6 DEF DeleteTable
  <2>2. step' = "objects"
    BY <2>1, TeardownCallLeads
  <2>3. QED
    BY <1>1, <2>1, <2>2, Course DEF TeardownSteps
<1>7. ASSUME NEW o \in Objects, DeleteObject(o) PROVE P
  <2>1. /\ step = "objects" /\ o \in work
        /\ (step' = step /\ work' = work \ {o}) \/ step' = "unalias"
    BY <1>7 DEF DeleteObject, Enter
  <2>2. QED
    BY <1>1, <1>2, <2>1, Course DEF TeardownSteps
<1>8. CASE DeleteBucket
  <2>1. step = "objects" /\ \E c : TeardownCall(c, "s3", "unalias", "unalias")
    BY <1>8 DEF DeleteBucket
  <2>2. step' = "unalias"
    BY <2>1, TeardownCallLeads
  <2>3. QED
    BY <1>1, <2>1, <2>2, Course DEF TeardownSteps
<1>9. CASE DeleteAlias
  <2>1. /\ step = "unalias"
        /\ \E c, t : t \in {"schedule", "sweep"} /\ TeardownCall(c, "key", t, "sweep")
    BY <1>9 DEF DeleteAlias
  <2>2. step' \in {"schedule", "sweep"}
    BY <2>1, TeardownCallLeads
  <2>3. QED
    BY <1>1, <2>1, <2>2, Course DEF TeardownSteps
<1>10. CASE ScheduleKey
  <2>1. step = "schedule" /\ \E c : TeardownCall(c, "key", "sweep", "sweep")
    BY <1>10 DEF ScheduleKey
  <2>2. step' = "sweep"
    BY <2>1, TeardownCallLeads
  <2>3. QED
    BY <1>1, <2>1, <2>2, Course DEF TeardownSteps
<1>11. ASSUME NEW k \in 1 .. MaxKeys, SweepKey(k) PROVE P
  <2>1. /\ step = "sweep" /\ k \in work
        /\ (step' = step /\ work' = work \ {k}) \/ step' = "repo"
    BY <1>11 DEF SweepKey, Enter
  <2>2. QED
    BY <1>1, <1>2, <2>1, Course DEF TeardownSteps
<1>12. CASE SweepEnds
  <2>1. step = "sweep" /\ \E c : TeardownCall(c, "sweep", "repo", "repo")
    BY <1>12 DEF SweepEnds
  <2>2. step' = "repo"
    BY <2>1, TeardownCallLeads
  <2>3. QED
    BY <1>1, <2>1, <2>2, Course DEF TeardownSteps
<1>13. CASE DeleteEcrRepo
  <2>1. step = "repo" /\ step' = "idle"
    BY <1>13 DEF DeleteEcrRepo, EndWith
  <2>2. QED
    BY <2>1, Course DEF Onward, TeardownSteps
<1>14. QED
  BY <1>3, <1>4, <1>5, <1>6, <1>7, <1>8, <1>9, <1>10, <1>11, <1>12, <1>13 DEF Teardown

\* Every step's work is finite if the matrix is.
LEMMA WorkFinite ==
  ASSUME IInv, NEW next, IsFiniteSet(Fns)
  PROVE  IsFiniteSet(Work(next))
<1>1. IsFiniteSet(cells)
  <2>1. cells \in SUBSET Fns
    BY DEF IInv, TypeOK
  <2>2. QED
    BY <2>1, FS_Subset
<1>2. IsFiniteSet(Listed)
  <2>1. Objects = {"object"} \cup ({"payloads"} \cup {"code"})
    BY DEF Objects
  <2>2. IsFiniteSet({"object"}) /\ IsFiniteSet({"payloads"}) /\ IsFiniteSet({"code"})
    BY FS_Singleton
  <2>3. IsFiniteSet(Objects)
    BY <2>1, <2>2, FS_Union
  <2>4. Listed \in SUBSET Objects
    BY DEF Listed
  <2>5. QED
    BY <2>3, <2>4, FS_Subset
<1>3. IsFiniteSet({k \in DOMAIN account.keys : account.keys[k].state # "gone"})
  <2>1. account.keys \in Seq(Keys)
    BY DEF IInv, TypeOK, Account
  <2>2. DOMAIN account.keys = 1 .. Len(account.keys) /\ Len(account.keys) \in Nat
    BY <2>1
  <2>3. IsFiniteSet(DOMAIN account.keys)
    BY <2>2, FS_Interval
  <2>4. QED
    BY <2>3, FS_Subset
<1>4. IsFiniteSet({})
  BY FS_EmptySet
<1>5. QED
  BY <1>1, <1>2, <1>3, <1>4 DEF Work

\* A step goes on with some of its work, or takes up that of another.
LEMMA WorkTaken ==
  ASSUME [Next]_vars
  PROVE  work' \in SUBSET work \/ \E next : work' = Work(next)
<1> DEFINE P == work' \in SUBSET work \/ \E next : work' = Work(next)
<1>1. ASSUME NEW next, Enter(next) PROVE P
  BY <1>1 DEF Enter
<1>2. ASSUME NEW outcome, EndWith(outcome) PROVE P
  BY <1>2 DEF EndWith
<1>3. ASSUME NEW c, NEW next, DeployCall(c, next) PROVE P
  BY <1>1, <1>2, <1>3 DEF DeployCall
<1>4. ASSUME NEW c, NEW class, NEW next, NEW after, TeardownCall(c, class, next, after) PROVE P
  BY <1>1, <1>4 DEF TeardownCall
<1>5. ASSUME NEW x \in work, NEW next, Proceed(work \ {x}, next) PROVE P
  BY <1>1, <1>5 DEF Proceed
<1>6. ASSUME Deploy PROVE P
  <2>1. ASSUME NEW f \in Fns, EnsureFunction(f) PROVE P
    <3>1. EndWith(Collected(failures')) \/ work' = work \ {f}
      BY <2>1 DEF EnsureFunction
    <3>2. QED
      BY <1>2, <3>1
  <2>2. CASE EnsureRole
    BY <1>3, <2>2 DEF EnsureRole
  <2>3. CASE DescribeTable \/ Recreate \/ AwaitActive \/ SeedItem
    BY <1>3, <2>3 DEF DescribeTable, Recreate, AwaitActive, SeedItem
  <2>4. CASE WaitTimesOut \/ UndoKey
    BY <1>2, <2>4 DEF WaitTimesOut, UndoKey
  <2>5. CASE EnsureKmsKey
    BY <1>3, <2>5 DEF EnsureKmsKey
  <2>6. CASE CreateAlias
    BY <1>1, <2>6 DEF CreateAlias
  <2>7. CASE EnsureSeededBucket
    BY <1>3, <2>7 DEF EnsureSeededBucket
  <2>8. QED
    BY <1>6, <2>1, <2>2, <2>3, <2>4, <2>5, <2>6, <2>7 DEF Deploy
<1>7. ASSUME Teardown PROVE P
  <2>1. ASSUME NEW f \in Fns, DeleteFunction(f) \/ DeleteLogGroup(f) PROVE P
    BY <1>5, <2>1 DEF DeleteFunction, DeleteLogGroup
  <2>2. CASE DeleteRole
    BY <1>4, <2>2 DEF DeleteRole
  <2>3. CASE DeleteTable
    BY <1>4, <2>3 DEF DeleteTable
  <2>4. ASSUME NEW o \in Objects, DeleteObject(o) PROVE P
    <3>1. Enter("unalias") \/ work' = work \ {o}
      BY <2>4 DEF DeleteObject
    <3>2. QED
      BY <1>1, <3>1
  <2>5. CASE DeleteBucket \/ DeleteAlias \/ ScheduleKey \/ SweepEnds
    BY <1>4, <2>5 DEF DeleteBucket, DeleteAlias, ScheduleKey, SweepEnds
  <2>6. ASSUME NEW k \in 1 .. MaxKeys, SweepKey(k) PROVE P
    <3>1. Enter("repo") \/ work' = work \ {k}
      BY <2>6 DEF SweepKey
    <3>2. QED
      BY <1>1, <3>1
  <2>7. CASE DeleteEcrRepo
    BY <1>2, <2>7 DEF DeleteEcrRepo
  <2>8. QED
    BY <1>7, <2>1, <2>2, <2>3, <2>4, <2>5, <2>6, <2>7 DEF Teardown
<1>8. CASE StartDeploy \/ StartTeardown
  <2>1. work' = Work("idle") \/ work' = Work("functions")
    BY <1>8 DEF StartDeploy, StartTeardown, Work
  <2>2. QED
    BY <2>1
<1>9. CASE Crash
  BY <1>2, <1>9 DEF Crash
<1>10. CASE Measure \/ TableSettles \/ (\E k \in 1 .. MaxKeys : KeyExpires(k)) \/ UNCHANGED vars
  <2>1. CASE Measure \/ TableSettles \/ UNCHANGED vars
    BY <2>1 DEF Measure, TableSettles, vars
  <2>2. ASSUME NEW k \in 1 .. MaxKeys, KeyExpires(k) PROVE P
    BY <2>2 DEF KeyExpires
  <2>3. QED
    BY <1>10, <2>1, <2>2
<1>11. QED
  BY <1>6, <1>7, <1>8, <1>9, <1>10 DEF Next

\* A command that runs ends after finitely many steps of its own: each takes it nearer its end or
\* leaves it less to go through of finitely many things, and nothing around it sets it back
\* (the safety part of TeardownConverges, and of a deploy that waits for a table).
THEOREM CommandsEnd ==
  Spec => /\ [](IsFiniteSet(Fns) => IsFiniteSet(work))
          /\ [][step # "idle" =>
                  Onward \/ (~(Deploy \/ Teardown) /\ UNCHANGED <<step, work>>)]_vars
<1> DEFINE F == IsFiniteSet(Fns) => IsFiniteSet(work)
           A == step # "idle" => Onward \/ (~(Deploy \/ Teardown) /\ UNCHANGED <<step, work>>)
<1>1. Init => F
  BY FS_EmptySet DEF Init
<1>2. IInv /\ F /\ [Next]_vars => F'
  <2> SUFFICES ASSUME IInv, F, [Next]_vars, IsFiniteSet(Fns) PROVE IsFiniteSet(work')
    OBVIOUS
  <2>1. CASE work' \in SUBSET work
    BY <2>1, FS_Subset
  <2>2. ASSUME NEW next, work' = Work(next) PROVE IsFiniteSet(work')
    BY <2>2, WorkFinite
  <2>3. QED
    BY <2>1, <2>2, WorkTaken
<1>3. IInv /\ [Next]_vars => A
  <2> SUFFICES ASSUME IInv, [Next]_vars, step # "idle"
               PROVE  Onward \/ (~(Deploy \/ Teardown) /\ UNCHANGED <<step, work>>)
    OBVIOUS
  <2>1. CASE Deploy \/ Teardown
    BY <2>1, DeployOnward, TeardownOnward
  <2>2. CASE Crash
    <3>1. step' = "idle" /\ step \in DeploySteps \cup TeardownSteps
      BY <2>2 DEF Crash, EndWith, IInv, TypeOK
    <3>2. ToGo[step'] < ToGo[step]
      BY <3>1, Course DEF DeploySteps, TeardownSteps
    <3>3. QED
      BY <3>2 DEF Onward
  <2>3. CASE TableSettles \/ (\E k \in 1 .. MaxKeys : KeyExpires(k)) \/ UNCHANGED vars
    <3>1. step' = step /\ work' = work
      <4>1. CASE TableSettles \/ UNCHANGED vars
        BY <4>1 DEF TableSettles, vars
      <4>2. ASSUME NEW k \in 1 .. MaxKeys, KeyExpires(k) PROVE step' = step /\ work' = work
        BY <4>2 DEF KeyExpires
      <4>3. QED
        BY <2>3, <4>1, <4>2
    <3>2. CASE Deploy \/ Teardown
      BY <2>1, <3>2
    <3>3. CASE ~(Deploy \/ Teardown)
      BY <3>1, <3>3
    <3>4. QED
      BY <3>2, <3>3
  <2>4. ~StartDeploy /\ ~StartTeardown /\ ~Measure
    BY DEF StartDeploy, StartTeardown, Measure
  <2>5. QED
    BY <2>1, <2>2, <2>3, <2>4 DEF Next
<1> HIDE DEF F, A
<1>4. Spec => []F /\ [][A]_vars
  BY <1>1, <1>2, <1>3, ProvisioningInductive, PTL DEF Spec
<1>5. QED
  BY <1>4 DEF F, A

\* Every key that was created may be scheduled for deletion, again if need be.
LEMMA KnownSchedulable ==
  ASSUME TypeOK, NEW k \in DOMAIN account.keys
  PROVE  Schedulable(k)
<1>1. account.keys \in Seq(Keys)
  BY DEF TypeOK, Account
<1>2. account.keys[k] \in Keys
  BY <1>1
<1>3. account.keys[k].state \in KeyStates
  BY <1>2 DEF Keys
<1>4. QED
  BY <1>3 DEF Schedulable, KeyStates, Tolerated

\* A step that creates no key and holds none keeps the keys known.
LEMMA KeysStayKnown ==
  ASSUME TypeOK, KeysKnown, account'.keys = account.keys,
         account'.alias \in {0, account.alias},
         step' \in {"alias", "undo", "schedule"} => key' \in 1 .. Len(account.keys),
         step' = "sweep" => work' \subseteq DOMAIN account.keys
  PROVE  KeysKnown'
<1>1. account.keys \in Seq(Keys)
  BY DEF TypeOK, Account
<1>2. Len(account.keys) \in Nat
  BY <1>1
<1>3. QED
  BY <1>2 DEF KeysKnown

\* Scheduling a key creates and removes none.
LEMMA ScheduleKnows ==
  ASSUME TypeOK, NEW c, NEW k
  PROVE  /\ Len(ScheduledIf(c, k).keys) = Len(account.keys)
         /\ DOMAIN ScheduledIf(c, k).keys = DOMAIN account.keys
         /\ ScheduledIf(c, k).alias = account.alias
<1>1. account.keys \in Seq(Keys) /\ account \in Account
  BY DEF TypeOK, Account
<1>2. \E s : /\ ScheduledIf(c, k) = [account EXCEPT !.keys = s]
             /\ \E t : s = [account.keys EXCEPT ![k] = t]
  BY <1>1 DEF ScheduledIf, Account
<1>3. PICK s, t : /\ ScheduledIf(c, k) = [account EXCEPT !.keys = s]
                  /\ s = [account.keys EXCEPT ![k] = t]
  BY <1>2
<1>4. Len(s) = Len(account.keys) /\ DOMAIN s = DOMAIN account.keys
  BY <1>1, <1>3
<1>5. ScheduledIf(c, k).keys = s /\ ScheduledIf(c, k).alias = account.alias
  BY <1>1, <1>3 DEF Account
<1>6. QED
  BY <1>4, <1>5

\* A deploy knows the key it creates, and the one it finds behind the alias.
LEMMA DeployKeys ==
  ASSUME IInv, KeysKnown, Deploy
  PROVE  KeysKnown'
<1> DEFINE Apart == {"alias", "undo", "schedule", "sweep"}
<1>1. TypeOK /\ account \in Account /\ account.keys \in Seq(Keys) /\ account.alias \in Nat
  BY DEF IInv, TypeOK, Account
<1>2. Len(account.keys) \in Nat /\ DOMAIN account.keys = 1 .. Len(account.keys)
  BY <1>1
<1>3. ASSUME account'.keys = account.keys, account'.alias = account.alias, step' \notin Apart
      PROVE  KeysKnown'
  BY <1>1, <1>3, KeysStayKnown
<1>4. CASE EnsureRole
  <2>1. /\ step \in RoleParts /\ \E c : DeployCall(c, AfterRolePart[step])
        /\ \E r : account' = [account EXCEPT !.role = r]
    BY <1>4 DEF EnsureRole
  <2>2. step' = AfterRolePart[step] \/ step' = "idle"
    BY <2>1, CallLeads
  <2>3. step' \notin Apart
    BY <2>1, <2>2 DEF RoleParts, AfterRolePart
  <2>4. account'.keys = account.keys /\ account'.alias = account.alias
    BY <1>1, <2>1 DEF Account
  <2>5. QED
    BY <1>3, <2>3, <2>4
<1>5. CASE DescribeTable \/ Recreate \/ SeedItem
  <2>1. /\ \E c, t : t \in {"active", "gone", "key"} /\ DeployCall(c, t)
        /\ account' = account \/ \E t : account' = [account EXCEPT !.table = t]
    BY <1>5 DEF DescribeTable, Recreate, SeedItem
  <2>2. step' \in {"active", "gone", "key", "idle"}
    BY <2>1, CallLeads
  <2>3. account'.keys = account.keys /\ account'.alias = account.alias
    BY <1>1, <2>1 DEF Account
  <2>4. QED
    BY <1>3, <2>2, <2>3
<1>6. CASE AwaitActive
  <2>1. account' = account /\ \E c : DeployCall(c, "seed")
    BY <1>6 DEF AwaitActive
  <2>2. step' \in {"seed", "idle"}
    BY <2>1, CallLeads
  <2>3. QED
    BY <1>3, <2>1, <2>2
<1>7. CASE WaitTimesOut
  BY <1>3, <1>7 DEF WaitTimesOut, EndWith
<1>8. CASE EnsureKmsKey
  <2>1. PICK c \in Answers(TRUE) :
          /\ Charge(c, TRUE)
          /\ IF account.alias # 0
             THEN /\ key' = account.alias /\ UNCHANGED account
                  /\ DeployCall(c, "bucket")
             ELSE /\ account' = [account EXCEPT !.keys = IF c.took
                                    THEN Append(@, [state |-> "enabled", tagged |-> CreationTag])
                                    ELSE @]
                  /\ key' = Len(account'.keys)
                  /\ DeployCall(c, "alias")
    BY <1>8 DEF EnsureKmsKey
  <2>2. CASE account.alias # 0
    <3>1. account' = account /\ step' \in {"bucket", "idle"}
      BY <2>1, <2>2, CallLeads
    <3>2. QED
      BY <1>3, <3>1
  <2>3. CASE account.alias = 0
    <3>1. step' = "alias" \/ step' = "idle"
      BY <2>1, <2>3, CallLeads
    <3>2. c.ok => c.took
      BY <1>1, <2>1, AnswerFacts
    <3>3. step' = "alias" => c.ok
      BY <2>1, <2>3 DEF DeployCall, EndWith
    <3>4. CASE c.took
      <4>1. [state |-> "enabled", tagged |-> CreationTag] \in Keys
        BY DEF Keys, KeyStates, CreationTag
      <4>2. PICK n : n = Append(account.keys, [state |-> "enabled", tagged |-> CreationTag])
        OBVIOUS
      <4>3. account' = [account EXCEPT !.keys = n] /\ key' = Len(account'.keys)
        BY <2>1, <2>3, <3>4, <4>2
      <4>4. Len(n) = Len(account.keys) + 1
        BY <1>1, <4>1, <4>2
      <4>5. account'.keys = n /\ account'.alias = 0
        BY <1>1, <2>3, <4>3 DEF Account
      <4>6. key' \in 1 .. Len(account'.keys) /\ account'.alias \in 0 .. Len(account'.keys)
        BY <1>2, <4>3, <4>4, <4>5
      <4>7. QED
        BY <3>1, <4>6 DEF KeysKnown
    <3>5. CASE ~c.took
      <4>1. account'.keys = account.keys /\ account'.alias = account.alias
        BY <1>1, <2>1, <2>3, <3>5 DEF Account
      <4>2. step' = "idle"
        BY <3>1, <3>2, <3>3, <3>5
      <4>3. QED
        BY <1>3, <4>1, <4>2
    <3>6. QED
      BY <3>4, <3>5
  <2>4. QED
    BY <2>2, <2>3
<1>9. CASE CreateAlias
  <2>1. /\ step = "alias" /\ step' \in {"bucket", "undo"} /\ key' = key
        /\ \E c : account' = [account EXCEPT !.alias = IF c.took THEN key ELSE @]
    BY <1>9 DEF CreateAlias, Enter
  <2>2. account'.keys = account.keys /\ account'.alias \in {account.alias, key}
    BY <1>1, <2>1 DEF Account
  <2>3. key \in 1 .. Len(account.keys) /\ account.alias \in 0 .. Len(account.keys)
    BY <2>1 DEF KeysKnown
  <2>4. account'.alias \in 0 .. Len(account'.keys) /\ key' \in 1 .. Len(account'.keys)
    BY <1>2, <2>1, <2>2, <2>3
  <2>5. QED
    BY <2>1, <2>4 DEF KeysKnown
<1>10. CASE UndoKey
  <2>1. PICK c : account' = ScheduledIf(c, key) /\ step' = "idle"
    BY <1>10 DEF UndoKey, EndWith
  <2>2. Len(account'.keys) = Len(account.keys) /\ account'.alias = account.alias
    BY <1>1, <2>1, ScheduleKnows
  <2>3. QED
    BY <2>1, <2>2 DEF KeysKnown
<1>11. CASE EnsureSeededBucket
  <2>1. /\ step \in DOMAIN AfterBucketPart /\ \E c : DeployCall(c, AfterBucketPart[step])
        /\ \E b : account' = [account EXCEPT !.bucket = b]
    BY <1>11 DEF EnsureSeededBucket
  <2>2. step' = AfterBucketPart[step] \/ step' = "idle"
    BY <2>1, CallLeads
  <2>3. step' \notin Apart
    BY <2>1, <2>2 DEF AfterBucketPart
  <2>4. account'.keys = account.keys /\ account'.alias = account.alias
    BY <1>1, <2>1 DEF Account
  <2>5. QED
    BY <1>3, <2>3, <2>4
<1>12. ASSUME NEW f \in Fns, EnsureFunction(f) PROVE KeysKnown'
  <2>1. step = "wire" /\ step' \in {"idle", step}
    BY <1>12 DEF EnsureFunction, EndWith
  <2>2. \E g, b : account' = [account EXCEPT !.functions = g, !.bucket = b]
    BY <1>12 DEF EnsureFunction
  <2>3. account'.keys = account.keys /\ account'.alias = account.alias
    BY <1>1, <2>2 DEF Account
  <2>4. QED
    BY <1>3, <2>1, <2>3
<1>13. QED
  BY <1>4, <1>5, <1>6, <1>7, <1>8, <1>9, <1>10, <1>11, <1>12 DEF Deploy

\* A call of a teardown that errs is a fault, or a table's refusal.
LEMMA CallReports ==
  ASSUME IInv, OnlyTheTable, step \in TeardownSteps, NEW a \in BOOLEAN, NEW c \in Answers(a),
         Charge(c, a), NEW class, failures' = IF c.ok THEN failures ELSE failures \cup {class},
         a \/ (class = "table" /\ step = "drop" /\ account.table = "creating")
  PROVE  OnlyTheTable' /\ TableRefused
<1>1. /\ c.ok => clean' = clean
      /\ a /\ ~c.ok => ~clean'
      /\ ~clean => ~clean'
      /\ ~a => ~c.ok
  BY AnswerFacts DEF IInv
<1>2. ~clean \/ failures \subseteq {"table"}
  BY DEF OnlyTheTable
<1>3. CASE c.ok
  BY <1>1, <1>2, <1>3 DEF OnlyTheTable, TableRefused
<1>4. CASE ~c.ok /\ a
  BY <1>1, <1>4 DEF OnlyTheTable, TableRefused
<1>5. CASE ~a
  <2>1. class = "table" /\ step = "drop" /\ account.table = "creating"
    BY <1>5
  <2>2. failures' = failures \cup {"table"}
    BY <1>1, <1>5, <2>1
  <2>3. ~clean' \/ failures' \subseteq {"table"}
    BY <1>1, <1>2, <2>2
  <2>4. QED
    BY <2>1, <2>3 DEF OnlyTheTable, TableRefused
<1>6. QED
  BY <1>3, <1>4, <1>5

\* A teardown holds the key of its alias, sweeps keys there are, and has nothing refused but a
\* table that is being created.
LEMMA TeardownReports ==
  ASSUME IInv, KeysKnown, OnlyTheTable, Teardown
  PROVE  KeysKnown' /\ OnlyTheTable' /\ TableRefused
<1> DEFINE P == KeysKnown' /\ OnlyTheTable' /\ TableRefused
<1>1. TypeOK /\ account \in Account /\ account.keys \in Seq(Keys) /\ account.alias \in Nat
  BY DEF IInv, TypeOK, Account
<1>2. Len(account.keys) \in Nat /\ DOMAIN account.keys = 1 .. Len(account.keys)
  BY <1>1
<1>3. ASSUME account'.keys = account.keys, account'.alias = account.alias,
             step' \notin {"alias", "undo", "schedule", "sweep"}
      PROVE  KeysKnown'
  BY <1>1, <1>3, KeysStayKnown
<1>4. step \in TeardownSteps
  BY TeardownOnward
<1>5. ASSUME NEW f \in Fns, DeleteFunction(f) PROVE P
  <2>1. PICK c \in Answers(TRUE) :
          /\ account' = [account EXCEPT !.functions[f] = IF c.took THEN 0 ELSE @]
          /\ failures' = IF c.ok THEN failures ELSE failures \cup {"functions"}
          /\ Charge(c, TRUE)
    BY <1>5 DEF DeleteFunction
  <2>2. step = "functions" /\ (step' = step \/ step' = "logs")
    BY <1>5, ProceedLeads DEF DeleteFunction
  <2>3. account'.keys = account.keys /\ account'.alias = account.alias
    BY <1>1, <2>1 DEF Account
  <2>4. OnlyTheTable' /\ TableRefused
    BY <1>4, <2>1, CallReports
  <2>5. QED
    BY <1>3, <2>2, <2>3, <2>4
<1>6. ASSUME NEW f \in Fns, DeleteLogGroup(f) PROVE P
  <2>1. PICK c \in Answers(TRUE) :
          /\ account' = [account EXCEPT !.groups = Without(@, f, c)]
          /\ failures' = IF c.ok THEN failures ELSE failures \cup {"logs"}
          /\ Charge(c, TRUE)
    BY <1>6 DEF DeleteLogGroup
  <2>2. step = "logs" /\ (step' = step \/ step' = "detach")
    BY <1>6, ProceedLeads DEF DeleteLogGroup
  <2>3. account'.keys = account.keys /\ account'.alias = account.alias
    BY <1>1, <2>1 DEF Account
  <2>4. OnlyTheTable' /\ TableRefused
    BY <1>4, <2>1, CallReports
  <2>5. QED
    BY <1>3, <2>2, <2>3, <2>4
<1>7. CASE DeleteRole
  <2>1. PICK c \in Answers(TRUE) :
          /\ account' = [account EXCEPT !.role = IF c.took THEN @ \ Dropped[step] ELSE @]
          /\ Charge(c, TRUE) /\ TeardownCall(c, "role", AfterDropped[step], "drop")
    BY <1>7 DEF DeleteRole
  <2>2. step \in {"detach", "uninline", "unrole"}
    BY <1>7 DEF DeleteRole, Dropped
  <2>3. step' = AfterDropped[step] \/ step' = "drop"
    BY <2>1, TeardownCallLeads
  <2>4. step' \in {"uninline", "unrole", "drop"}
    BY <2>2, <2>3 DEF AfterDropped
  <2>5. account'.keys = account.keys /\ account'.alias = account.alias
    BY <1>1, <2>1 DEF Account
  <2>6. OnlyTheTable' /\ TableRefused
    BY <1>4, <2>1, CallReports, TeardownCallLeads
  <2>7. QED
    BY <1>3, <2>4, <2>5, <2>6
<1>8. CASE DeleteTable
  <2>1. PICK a, c : /\ a = (account.table # "creating") /\ c \in Answers(a) /\ step = "drop"
                    /\ account' = [account EXCEPT !.table =
                                     IF c.took /\ @ # "absent" THEN "deleting" ELSE @]
                    /\ Charge(c, a) /\ TeardownCall(c, "table", "objects", "objects")
    BY <1>8 DEF DeleteTable
  <2>2. step' = "objects"
    BY <2>1, TeardownCallLeads
  <2>3. account'.keys = account.keys /\ account'.alias = account.alias
    BY <1>1, <2>1 DEF Account
  <2>4. OnlyTheTable' /\ TableRefused
    <3>1. failures' = IF c.ok THEN failures ELSE failures \cup {"table"}
      BY <2>1, TeardownCallLeads
    <3>2. a \in BOOLEAN /\ (a \/ account.table = "creating")
      BY <2>1
    <3>3. QED
      BY <1>4, <2>1, <3>1, <3>2, CallReports
  <2>5. QED
    BY <1>3, <2>2, <2>3, <2>4
<1>9. ASSUME NEW o \in Objects, DeleteObject(o) PROVE P
  <2>1. PICK c \in Answers(TRUE) :
          /\ account' = [account EXCEPT !.bucket = Without(@, o, c)]
          /\ failures' = IF c.ok THEN failures ELSE failures \cup {"s3"}
          /\ Charge(c, TRUE)
    BY <1>9 DEF DeleteObject
  <2>2. step = "objects" /\ (step' = step \/ step' = "unalias")
    BY <1>9 DEF DeleteObject, Enter
  <2>3. account'.keys = account.keys /\ account'.alias = account.alias
    BY <1>1, <2>1 DEF Account
  <2>4. OnlyTheTable' /\ TableRefused
    BY <1>4, <2>1, CallReports
  <2>5. QED
    BY <1>3, <2>2, <2>3, <2>4
<1>10. CASE DeleteBucket
  <2>1. PICK c \in Answers(TRUE) :
          /\ account' = [account EXCEPT !.bucket = IF c.took THEN {} ELSE @]
          /\ Charge(c, TRUE) /\ TeardownCall(c, "s3", "unalias", "unalias")
    BY <1>10 DEF DeleteBucket
  <2>2. step' = "unalias"
    BY <2>1, TeardownCallLeads
  <2>3. account'.keys = account.keys /\ account'.alias = account.alias
    BY <1>1, <2>1 DEF Account
  <2>4. OnlyTheTable' /\ TableRefused
    BY <1>4, <2>1, CallReports, TeardownCallLeads
  <2>5. QED
    BY <1>3, <2>2, <2>3, <2>4
<1>11. CASE DeleteAlias
  <2>1. PICK c \in Answers(TRUE) :
          /\ account' = [account EXCEPT !.alias = IF c.took THEN 0 ELSE @]
          /\ Charge(c, TRUE)
          /\ TeardownCall(c, "key", IF key' # 0 THEN "schedule" ELSE "sweep", "sweep")
    BY <1>11 DEF DeleteAlias
  <2>2. key' = account.alias
    BY <1>11 DEF DeleteAlias
  <2>3. \/ step' = "schedule" /\ key' # 0
        \/ step' = "sweep" /\ work' \subseteq DOMAIN account.keys
    BY <2>1 DEF TeardownCall, Enter, Work
  <2>4. account'.keys = account.keys /\ account'.alias \in {0, account.alias}
    BY <1>1, <2>1 DEF Account
  <2>5. account.alias \in 0 .. Len(account.keys)
    BY DEF KeysKnown
  <2>6. step' = "schedule" => key' \in 1 .. Len(account.keys)
    BY <1>2, <2>2, <2>3, <2>5
  <2>7. KeysKnown'
    BY <1>1, <2>3, <2>4, <2>6, KeysStayKnown
  <2>8. OnlyTheTable' /\ TableRefused
    <3>1. failures' = IF c.ok THEN failures ELSE failures \cup {"key"}
      BY <2>1 DEF TeardownCall
    <3>2. QED
      BY <1>4, <2>1, <3>1, CallReports
  <2>9. QED
    BY <2>7, <2>8
<1>12. CASE ScheduleKey
  <2>1. PICK a, c : /\ a = Schedulable(key) /\ c \in Answers(a) /\ step = "schedule"
                    /\ account' = ScheduledIf(c, key)
                    /\ Charge(c, a) /\ TeardownCall(c, "key", "sweep", "sweep")
    BY <1>12 DEF ScheduleKey
  <2>2. a
    <3>1. key \in DOMAIN account.keys
      BY <1>2, <2>1 DEF KeysKnown
    <3>2. Schedulable(key)
      BY <1>1, <3>1, KnownSchedulable
    <3>3. QED
      BY <2>1, <3>2
  <2>3. step' = "sweep" /\ work' \subseteq DOMAIN account.keys
    BY <2>1 DEF TeardownCall, Enter, Work
  <2>4. /\ Len(account'.keys) = Len(account.keys) /\ account'.alias = account.alias
        /\ DOMAIN account'.keys = DOMAIN account.keys
    BY <1>1, <2>1, ScheduleKnows
  <2>5. KeysKnown'
    BY <2>3, <2>4 DEF KeysKnown
  <2>6. OnlyTheTable' /\ TableRefused
    <3>1. failures' = IF c.ok THEN failures ELSE failures \cup {"key"}
      BY <2>1, TeardownCallLeads
    <3>2. a \in BOOLEAN
      BY <2>1 DEF Schedulable
    <3>3. QED
      BY <1>4, <2>1, <2>2, <3>1, <3>2, CallReports
  <2>7. QED
    BY <2>5, <2>6
<1>13. ASSUME NEW k \in 1 .. MaxKeys, SweepKey(k) PROVE P
  <2>1. PICK a, c : /\ a = (~account.keys[k].tagged \/ Schedulable(k))
                    /\ c \in Answers(a) /\ Charge(c, a)
                    /\ account' = IF account.keys[k].tagged THEN ScheduledIf(c, k) ELSE account
                    /\ failures' = IF c.ok THEN failures ELSE failures \cup {"sweep"}
    BY <1>13 DEF SweepKey
  <2>2. /\ step = "sweep" /\ k \in work
        /\ (step' = step /\ work' = work \ {k}) \/ step' = "repo"
    BY <1>13 DEF SweepKey, Enter
  <2>3. work \subseteq DOMAIN account.keys
    BY <2>2 DEF KeysKnown
  <2>4. Schedulable(k)
    BY <1>1, <2>2, <2>3, KnownSchedulable
  <2>5. a \in BOOLEAN /\ a
    BY <2>1, <2>4
  <2>6. /\ Len(account'.keys) = Len(account.keys) /\ account'.alias = account.alias
        /\ DOMAIN account'.keys = DOMAIN account.keys
    BY <1>1, <2>1, ScheduleKnows
  <2>7. KeysKnown'
    <3>1. step' = "sweep" => work' \subseteq DOMAIN account'.keys
      BY <2>2, <2>3, <2>6
    <3>2. step' \notin {"alias", "undo", "schedule"}
      BY <2>2
    <3>3. account'.alias \in 0 .. Len(account'.keys)
      BY <2>6 DEF KeysKnown
    <3>4. QED
      BY <3>1, <3>2, <3>3 DEF KeysKnown
  <2>8. OnlyTheTable' /\ TableRefused
    BY <1>4, <2>1, <2>5, CallReports
  <2>9. QED
    BY <2>7, <2>8
<1>14. CASE SweepEnds
  <2>1. PICK c \in Answers(TRUE) : Charge(c, TRUE) /\ TeardownCall(c, "sweep", "repo", "repo")
    BY <1>14 DEF SweepEnds
  <2>2. account' = account /\ step' = "repo"
    BY <1>14, <2>1, TeardownCallLeads DEF SweepEnds
  <2>3. OnlyTheTable' /\ TableRefused
    BY <1>4, <2>1, CallReports, TeardownCallLeads
  <2>4. QED
    BY <1>3, <2>2, <2>3
<1>15. CASE DeleteEcrRepo
  <2>1. PICK c \in Answers(TRUE) :
          /\ account' = [account EXCEPT !.repo = @ /\ ~c.took]
          /\ failures' = IF c.ok THEN failures ELSE failures \cup {"ecr"}
          /\ Charge(c, TRUE)
    BY <1>15 DEF DeleteEcrRepo
  <2>2. step' = "idle"
    BY <1>15 DEF DeleteEcrRepo, EndWith
  <2>3. account'.keys = account.keys /\ account'.alias = account.alias
    BY <1>1, <2>1 DEF Account
  <2>4. OnlyTheTable' /\ TableRefused
    BY <1>4, <2>1, CallReports
  <2>5. QED
    BY <1>3, <2>2, <2>3, <2>4
<1>16. QED
  BY <1>5, <1>6, <1>7, <1>8, <1>9, <1>10, <1>11, <1>12, <1>13, <1>14, <1>15 DEF Teardown

\* What no command does leaves the reports and the keys' numbers alone.
LEMMA AroundReports ==
  ASSUME IInv, KeysKnown, OnlyTheTable, [Next]_vars, ~Deploy, ~Teardown
  PROVE  KeysKnown' /\ OnlyTheTable' /\ TableRefused
<1> DEFINE P == KeysKnown' /\ OnlyTheTable' /\ TableRefused
<1>1. TypeOK /\ account \in Account /\ account.keys \in Seq(Keys) /\ account.alias \in Nat
  BY DEF IInv, TypeOK, Account
<1>2. CASE StartDeploy \/ StartTeardown
  <2>1. account' = account /\ failures' = {} /\ step' \in {"role", "functions"}
    BY <1>2 DEF StartDeploy, StartTeardown
  <2>2. KeysKnown'
    BY <1>1, <2>1, KeysStayKnown
  <2>3. QED
    BY <2>1, <2>2 DEF OnlyTheTable, TableRefused
<1>3. CASE Crash
  <2>1. account' = account /\ step' = "idle" /\ last' = "crashed" /\ failures' = failures
    BY <1>3 DEF Crash, EndWith
  <2>2. KeysKnown'
    BY <1>1, <2>1, KeysStayKnown
  <2>3. step' \notin TeardownSteps
    BY <2>1 DEF TeardownSteps
  <2>4. QED
    BY <2>1, <2>2, <2>3 DEF OnlyTheTable, TableRefused
<1>4. CASE Measure
  <2>1. /\ step = "idle" /\ UNCHANGED <<step, work, key, failures, clean>> /\ last' = "measured"
        /\ \E fs : account' = [account EXCEPT !.groups = @ \cup fs, !.repo = TRUE]
    BY <1>4 DEF Measure
  <2>2. account'.keys = account.keys /\ account'.alias = account.alias
    BY <1>1, <2>1 DEF Account
  <2>3. KeysKnown'
    BY <1>1, <2>1, <2>2, KeysStayKnown
  <2>4. step' \notin TeardownSteps
    BY <2>1 DEF TeardownSteps
  <2>5. QED
    BY <2>1, <2>3, <2>4 DEF OnlyTheTable, TableRefused
<1>5. CASE TableSettles
  <2>1. /\ UNCHANGED <<step, work, key, failures, clean, last>>
        /\ \E t : account' = [account EXCEPT !.table = t]
    BY <1>5 DEF TableSettles
  <2>2. account'.keys = account.keys /\ account'.alias = account.alias
    BY <1>1, <2>1 DEF Account
  <2>3. KeysKnown'
    BY <2>1, <2>2 DEF KeysKnown
  <2>4. QED
    BY <2>1, <2>3 DEF OnlyTheTable, TableRefused
<1>6. ASSUME NEW k \in 1 .. MaxKeys, KeyExpires(k) PROVE P
  <2>1. /\ UNCHANGED <<step, work, key, failures, clean, last>>
        /\ account' = [account EXCEPT !.keys[k].state = "gone", !.alias = IF @ = k THEN 0 ELSE @]
    BY <1>6 DEF KeyExpires
  <2>2. PICK s : s = [account.keys EXCEPT ![k].state = "gone"]
    OBVIOUS
  <2>3. Len(s) = Len(account.keys) /\ DOMAIN s = DOMAIN account.keys
    BY <1>1, <2>2
  <2>4. account'.keys = s /\ account'.alias \in {0, account.alias}
    BY <1>1, <2>1, <2>2 DEF Account
  <2>5. KeysKnown'
    BY <2>1, <2>3, <2>4 DEF KeysKnown
  <2>6. QED
    BY <2>1, <2>5 DEF OnlyTheTable, TableRefused
<1>7. CASE UNCHANGED vars
  BY <1>7 DEF vars, KeysKnown, OnlyTheTable, TableRefused
<1>8. QED
  BY <1>2, <1>3, <1>4, <1>5, <1>6, <1>7 DEF Next

\* A teardown that meets no fault has nothing refused but the table, and that only while DynamoDB
\* was still creating it: no half-made role, orphaned key or key already scheduled stops it.  With
\* CommandsEnd this is what TeardownConverges rests on, short of the fairness.
THEOREM FaultlessTeardown ==
  Spec => /\ [](step = "idle" /\ last = "tornDown" /\ clean => failures \subseteq {"table"})
          /\ [][TableRefused]_vars
<1> DEFINE K == KeysKnown /\ OnlyTheTable
           C == step = "idle" /\ last = "tornDown" /\ clean => failures \subseteq {"table"}
<1>1. Init => K
  <2> SUFFICES ASSUME Init PROVE K
    OBVIOUS
  <2>1. step = "idle" /\ last = "none" /\ account.keys = << >> /\ account.alias = 0
    BY DEF Init
  <2>2. Len(account.keys) = 0
    BY <2>1
  <2>3. QED
    BY <2>1, <2>2 DEF KeysKnown, OnlyTheTable, TeardownSteps
<1>2. IInv /\ K /\ [Next]_vars => K' /\ TableRefused
  <2> SUFFICES ASSUME IInv, K, [Next]_vars PROVE K' /\ TableRefused
    OBVIOUS
  <2>1. CASE Deploy
    <3>1. /\ step \notin TeardownSteps /\ step' \notin TeardownSteps
          /\ step' # "idle" \/ last' # "tornDown"
      BY <2>1, DeployOnward DEF DeploySteps, TeardownSteps
    <3>2. QED
      BY <2>1, <3>1, DeployKeys DEF OnlyTheTable, TableRefused
  <2>2. CASE Teardown
    BY <2>2, TeardownReports
  <2>3. CASE ~Deploy /\ ~Teardown
    BY <2>3, AroundReports
  <2>4. QED
    BY <2>1, <2>2, <2>3
<1>3. K => C
  BY DEF OnlyTheTable
<1> HIDE DEF K, C
<1>4. Spec => []C /\ [][TableRefused]_vars
  BY <1>1, <1>2, <1>3, ProvisioningInductive, PTL DEF Spec
<1>5. QED
  BY <1>4 DEF C

=============================================================================
