---------------------------- MODULE Provisioning ----------------------------
(***************************************************************************)
(* `deploy` and `teardown` (deploy.rs, teardown.rs, aws/{iam,ddb,kms,s3,   *)
(* logs,lambda,ecr}.rs): two commands over one AWS account, run one after  *)
(* the other in any order, each a sequence of API calls.  A call may fail, *)
(* fail although it took effect (its answer is lost), or be the last one   *)
(* before the process dies.  Only one command runs at a time, so a         *)
(* resource's read and the write it leads to are one action.               *)
(***************************************************************************)
EXTENDS Integers, FiniteSets, Sequences

CONSTANTS
    Fns,        \* the functions of the matrix
    MaxKeys,    \* bound: KMS keys ever created
    MaxFaults   \* bound: calls that fail, and deaths of the process

ASSUME BoundsAssumption == MaxKeys \in Nat \ {0} /\ MaxFaults \in Nat

VARIABLES
    account,    \* what exists in the account
    step,       \* where the running command stands, "idle" if none runs
    work,       \* what the current step still has to go through
    cells,      \* the functions the last deploy is about
    hosted,     \* the deploy is told to put a permissions boundary on the role
    key,        \* the key id the command holds, 0 for none
    failures,   \* the resource classes the command has reported
    clean,      \* no call of the command failed or timed out
    last,       \* how the last command ended
    faults      \* how many faults have happened

vars == <<account, step, work, cells, hosted, key, failures, clean, last, faults>>

RoleParts == {"role", "logging", "inline"}
Objects == {"object", "payloads", "code"}
BucketParts == {"bucket", "hardened"} \cup Objects
TableStates == {"absent", "creating", "active", "seeded", "deleting"}
KeyStates == {"enabled", "pending", "gone"}
Classes == {"functions", "logs", "role", "table", "s3", "key", "sweep", "ecr"}
DeploySteps == {"role", "logging", "inline", "table", "gone", "active", "seed", "key",
                "alias", "undo", "bucket", "hardened", "object", "payloads", "wire"}
TeardownSteps == {"functions", "logs", "detach", "uninline", "unrole", "drop", "objects",
                  "unalias", "schedule", "sweep", "repo"}

\* Faulty: the key is created without its tag.
Untagged == FALSE

\* The tag ensure_kms_key puts on a key when it creates it.
CreationTag == TRUE

\* Faulty: a key already pending deletion is an error.
ToleratesGone == {"gone"}

\* The states in which schedule_key_deletion's refusal counts as success.
Tolerated == {"pending", "gone"}

\* Faulty: a table being deleted is taken for one that is there.
PresentWhileDeleting == TableStates \ {"absent"}

\* The table states ensure_table takes for a table it can wait on.
Present == {"creating", "active", "seeded"}

Init ==
    /\ account = [role |-> {}, table |-> "absent", keys |-> <<>>, alias |-> 0,
                  bucket |-> {}, functions |-> [f \in Fns |-> 0], groups |-> {}, repo |-> FALSE]
    /\ step = "idle" /\ work = {} /\ cells = {} /\ hosted = FALSE /\ key = 0
    /\ failures = {} /\ clean = TRUE /\ last = "none" /\ faults = 0

-----------------------------------------------------------------------------
(* A call and its answer: it took effect or not, and it is answered ok or  *)
(* with an error.  A call the service refuses has no effect and costs no   *)
(* fault.                                                                  *)

Answers(accepted) ==
    IF accepted
    THEN {c \in [took : BOOLEAN, ok : BOOLEAN] :
            (c.ok => c.took) /\ (c.ok \/ faults < MaxFaults)}
    ELSE {[took |-> FALSE, ok |-> FALSE]}

Charge(c, accepted) ==
    LET fault == accepted /\ ~c.ok
    IN  /\ faults' = IF fault THEN faults + 1 ELSE faults
        /\ clean' = (clean /\ ~fault)

With(parts, part, c) == IF c.took THEN parts \cup {part} ELSE parts
Without(parts, part, c) == IF c.took THEN parts \ {part} ELSE parts

Listed == account.bucket \cap Objects

\* What a step goes through: the sets the code iterates over.
Work(next) ==
    CASE next = "wire" -> cells
      [] next \in {"functions", "logs"} -> Fns
      [] next = "objects" -> Listed
      [] next = "sweep" -> {k \in DOMAIN account.keys : account.keys[k].state # "gone"}
      [] OTHER -> {}

Enter(next) == step' = next /\ work' = Work(next) /\ UNCHANGED last
EndWith(outcome) == step' = "idle" /\ work' = {} /\ last' = outcome

\* Goes on with the rest of the current step, or to the next one.
Proceed(rest, next) ==
    IF rest # {} THEN work' = rest /\ UNCHANGED <<step, last>> ELSE Enter(next)

-----------------------------------------------------------------------------
(* deploy: every `?` ends the command.                                     *)

DeployCall(c, next) == IF c.ok THEN Enter(next) ELSE EndWith("deployFailed")

StartDeploy ==
    /\ step = "idle" /\ Len(account.keys) < MaxKeys
    /\ cells' \in (SUBSET Fns) \ {{}} /\ hosted' \in BOOLEAN
    /\ step' = "role" /\ work' = {} /\ key' = 0 /\ failures' = {} /\ clean' = TRUE
    /\ UNCHANGED <<account, last, faults>>

\* ensure_role: the role itself, created with the boundary or converged onto it, its
\* managed policy, its inline policy.
Ensured(part) == IF part = "role" /\ hosted THEN {"role", "boundary"} ELSE {part}
AfterRolePart == [role |-> "logging", logging |-> "inline", inline |-> "table"]
EnsureRole ==
    /\ step \in RoleParts
    /\ \E c \in Answers(TRUE) :
        /\ account' = [account EXCEPT !.role = IF c.took THEN @ \cup Ensured(step) ELSE @]
        /\ Charge(c, TRUE) /\ DeployCall(c, AfterRolePart[step])
    /\ UNCHANGED <<cells, hosted, key, failures>>

\* ensure_table up to its waits: describe, and create where there is none.
DescribeTable ==
    /\ step = "table"
    /\ \E c \in Answers(TRUE) :
        /\ IF account.table = "absent"
           THEN /\ account' = [account EXCEPT !.table = IF c.took THEN "creating" ELSE @]
                /\ DeployCall(c, "active")
           ELSE /\ UNCHANGED account
                /\ DeployCall(c, IF account.table \in Present THEN "active" ELSE "gone")
        /\ Charge(c, TRUE)
    /\ UNCHANGED <<cells, hosted, key, failures>>

\* wait_table_gone sees the delete complete; the table is created again.
Recreate ==
    /\ step = "gone" /\ account.table = "absent"
    /\ \E c \in Answers(TRUE) :
        /\ account' = [account EXCEPT !.table = IF c.took THEN "creating" ELSE @]
        /\ Charge(c, TRUE) /\ DeployCall(c, "active")
    /\ UNCHANGED <<cells, hosted, key, failures>>

\* wait_table_active: ready, or the table is not there.
AwaitActive ==
    /\ step = "active" /\ account.table \in {"active", "seeded", "absent"}
    /\ \E c \in Answers(account.table # "absent") :
        Charge(c, account.table # "absent") /\ DeployCall(c, "seed")
    /\ UNCHANGED <<account, cells, hosted, key, failures>>

\* Either wait gives up after 60 polls, or one of its polls fails.
WaitTimesOut ==
    /\ \/ step = "gone" /\ account.table # "absent"
       \/ step = "active" /\ account.table \notin {"active", "seeded", "absent"}
    /\ EndWith("deployFailed") /\ clean' = FALSE
    /\ UNCHANGED <<account, cells, hosted, key, failures, faults>>

SeedItem ==
    /\ step = "seed"
    /\ \E c \in Answers(TRUE) :
        /\ account' = [account EXCEPT !.table = IF c.took THEN "seeded" ELSE @]
        /\ Charge(c, TRUE) /\ DeployCall(c, "key")
    /\ UNCHANGED <<cells, hosted, key, failures>>

\* ensure_kms_key: the key behind the alias, whatever its state; else a new one.
EnsureKmsKey ==
    /\ step = "key"
    /\ \E c \in Answers(TRUE) :
        /\ IF account.alias # 0
           THEN /\ key' = account.alias /\ UNCHANGED account
                /\ DeployCall(c, "bucket")
           ELSE /\ account' = [account EXCEPT !.keys = IF c.took
                                  THEN Append(@, [state |-> "enabled", tagged |-> CreationTag])
                                  ELSE @]
                /\ key' = Len(account'.keys)
                /\ DeployCall(c, "alias")
        /\ Charge(c, TRUE)
    /\ UNCHANGED <<cells, hosted, failures>>

CreateAlias ==
    /\ step = "alias"
    /\ \E c \in Answers(TRUE) :
        /\ account' = [account EXCEPT !.alias = IF c.took THEN key ELSE @]
        /\ Charge(c, TRUE) /\ Enter(IF c.ok THEN "bucket" ELSE "undo")
    /\ UNCHANGED <<cells, hosted, key, failures>>

ScheduledIf(c, k) ==
    [account EXCEPT !.keys[k].state = IF c.took /\ @ = "enabled" THEN "pending" ELSE @]

\* The best-effort schedule of a key whose alias failed: its answer is ignored.
UndoKey ==
    /\ step = "undo"
    /\ \E c \in Answers(TRUE) : account' = ScheduledIf(c, key) /\ Charge(c, TRUE)
    /\ EndWith("deployFailed")
    /\ UNCHANGED <<cells, hosted, key, failures>>

\* ensure_seeded_bucket: bucket, hardening, the small object, the payloads.
AfterBucketPart ==
    [bucket |-> "hardened", hardened |-> "object", object |-> "payloads", payloads |-> "wire"]
EnsureSeededBucket ==
    /\ step \in DOMAIN AfterBucketPart
    /\ \E c \in Answers(TRUE) :
        /\ account' = [account EXCEPT !.bucket = With(@, step, c)]
        /\ Charge(c, TRUE) /\ DeployCall(c, AfterBucketPart[step])
    /\ UNCHANGED <<cells, hosted, key, failures>>

\* Faulty: the errors of the functions' tasks are dropped.
CollectedUnchecked(failed) == "deployed"

\* What the deploy of the functions comes to once every one was attempted.
Collected(failed) == IF failed = {} THEN "deployed" ELSE "deployFailed"

\* ensure_function for one cell, perhaps staging its zip; all are attempted.
EnsureFunction(f) ==
    /\ step = "wire" /\ f \in work
    /\ \E c \in Answers(TRUE), staged \in BOOLEAN :
        /\ account' = [account EXCEPT !.functions[f] = IF c.took THEN key ELSE @,
                                      !.bucket = IF staged THEN @ \cup {"code"} ELSE @]
        /\ failures' = IF c.ok THEN failures ELSE failures \cup {"functions"}
        /\ Charge(c, TRUE)
    /\ IF work = {f} THEN EndWith(Collected(failures'))
                     ELSE work' = work \ {f} /\ UNCHANGED <<step, last>>
    /\ UNCHANGED <<cells, hosted, key>>

-----------------------------------------------------------------------------
(* teardown: a failure is collected and the next resource class is tried.  *)

TeardownCall(c, class, next, after) ==
    /\ failures' = IF c.ok THEN failures ELSE failures \cup {class}
    /\ Enter(IF c.ok THEN next ELSE after)

StartTeardown ==
    /\ step = "idle"
    /\ step' = "functions" /\ work' = Fns /\ key' = 0 /\ failures' = {} /\ clean' = TRUE
    /\ hosted' = FALSE
    /\ UNCHANGED <<account, cells, last, faults>>

DeleteFunction(f) ==
    /\ step = "functions" /\ f \in work
    /\ \E c \in Answers(TRUE) :
        /\ account' = [account EXCEPT !.functions[f] = IF c.took THEN 0 ELSE @]
        /\ failures' = IF c.ok THEN failures ELSE failures \cup {"functions"}
        /\ Charge(c, TRUE)
    /\ Proceed(work \ {f}, "logs")
    /\ UNCHANGED <<cells, hosted, key>>

DeleteLogGroup(f) ==
    /\ step = "logs" /\ f \in work
    /\ \E c \in Answers(TRUE) :
        /\ account' = [account EXCEPT !.groups = Without(@, f, c)]
        /\ failures' = IF c.ok THEN failures ELSE failures \cup {"logs"}
        /\ Charge(c, TRUE)
    /\ Proceed(work \ {f}, "detach")
    /\ UNCHANGED <<cells, hosted, key>>

\* delete_role: detach, delete the inline policy, delete the role.
Dropped == [detach |-> {"logging"}, uninline |-> {"inline"}, unrole |-> {"role", "boundary"}]
AfterDropped == [detach |-> "uninline", uninline |-> "unrole", unrole |-> "drop"]
DeleteRole ==
    /\ step \in DOMAIN Dropped
    /\ \E c \in Answers(TRUE) :
        /\ account' = [account EXCEPT !.role = IF c.took THEN @ \ Dropped[step] ELSE @]
        /\ Charge(c, TRUE) /\ TeardownCall(c, "role", AfterDropped[step], "drop")
    /\ UNCHANGED <<cells, hosted, key>>

\* DynamoDB refuses to delete a table it is still creating.
DeleteTable ==
    /\ step = "drop"
    /\ LET accepted == account.table # "creating" IN
       \E c \in Answers(accepted) :
        /\ account' = [account EXCEPT !.table =
                          IF c.took /\ @ # "absent" THEN "deleting" ELSE @]
        /\ Charge(c, accepted) /\ TeardownCall(c, "table", "objects", "objects")
    /\ UNCHANGED <<cells, hosted, key>>

\* delete_s3: every object, the first error ending it, then the bucket.
DeleteObject(o) ==
    /\ step = "objects" /\ o \in work
    /\ \E c \in Answers(TRUE) :
        /\ account' = [account EXCEPT !.bucket = Without(@, o, c)]
        /\ failures' = IF c.ok THEN failures ELSE failures \cup {"s3"}
        /\ Charge(c, TRUE)
        /\ IF c.ok THEN work' = work \ {o} /\ UNCHANGED <<step, last>> ELSE Enter("unalias")
    /\ UNCHANGED <<cells, hosted, key>>

DeleteBucket ==
    /\ step = "objects" /\ work = {}
    /\ \E c \in Answers(TRUE) :
        /\ account' = [account EXCEPT !.bucket = IF c.took THEN {} ELSE @]
        /\ Charge(c, TRUE) /\ TeardownCall(c, "s3", "unalias", "unalias")
    /\ UNCHANGED <<cells, hosted, key>>

\* delete_kms_key: resolve and delete the alias, then schedule its key.
DeleteAlias ==
    /\ step = "unalias"
    /\ key' = account.alias
    /\ \E c \in Answers(TRUE) :
        /\ account' = [account EXCEPT !.alias = IF c.took THEN 0 ELSE @]
        /\ Charge(c, TRUE)
        /\ TeardownCall(c, "key", IF key' # 0 THEN "schedule" ELSE "sweep", "sweep")
    /\ UNCHANGED <<cells, hosted>>

\* schedule_key_deletion_idempotent: what the service accepts, or may refuse.
Schedulable(k) == account.keys[k].state \in {"enabled"} \cup Tolerated

ScheduleKey ==
    /\ step = "schedule"
    /\ \E c \in Answers(Schedulable(key)) :
        /\ account' = ScheduledIf(c, key)
        /\ Charge(c, Schedulable(key)) /\ TeardownCall(c, "key", "sweep", "sweep")
    /\ UNCHANGED <<cells, hosted, key>>

\* reclaim_orphaned_kms_keys: every key with our tag, the first error ending it.
SweepKey(k) ==
    /\ step = "sweep" /\ k \in work
    /\ LET ours == account.keys[k].tagged
           accepted == ~ours \/ Schedulable(k) IN
       \E c \in Answers(accepted) :
        /\ account' = IF ours THEN ScheduledIf(c, k) ELSE account
        /\ failures' = IF c.ok THEN failures ELSE failures \cup {"sweep"}
        /\ Charge(c, accepted)
        /\ IF c.ok THEN work' = work \ {k} /\ UNCHANGED <<step, last>> ELSE Enter("repo")
    /\ UNCHANGED <<cells, hosted, key>>

\* ListKeys has no more pages, or its last page fails.
SweepEnds ==
    /\ step = "sweep" /\ work = {}
    /\ \E c \in Answers(TRUE) : Charge(c, TRUE) /\ TeardownCall(c, "sweep", "repo", "repo")
    /\ UNCHANGED <<account, cells, hosted, key>>

DeleteEcrRepo ==
    /\ step = "repo"
    /\ \E c \in Answers(TRUE) :
        /\ account' = [account EXCEPT !.repo = @ /\ ~c.took]
        /\ failures' = IF c.ok THEN failures ELSE failures \cup {"ecr"}
        /\ Charge(c, TRUE)
    /\ EndWith("tornDown")
    /\ UNCHANGED <<cells, hosted, key>>

-----------------------------------------------------------------------------
(* The rest of the world.                                                  *)

\* The process dies: nothing is undone, nothing is reported.
Crash ==
    /\ step # "idle" /\ faults < MaxFaults
    /\ faults' = faults + 1 /\ clean' = FALSE /\ EndWith("crashed")
    /\ UNCHANGED <<account, cells, hosted, key, failures>>

\* A run or a probe leaves log groups and the image repository behind.
Measure ==
    /\ step = "idle"
    /\ \E fs \in SUBSET {f \in Fns : account.functions[f] # 0} :
        account' = [account EXCEPT !.groups = @ \cup fs, !.repo = TRUE]
    /\ last' = "measured"
    /\ UNCHANGED <<step, work, cells, hosted, key, failures, clean, faults>>

Settled == [creating |-> "active", deleting |-> "absent"]
TableSettles ==
    /\ account.table \in DOMAIN Settled
    /\ account' = [account EXCEPT !.table = Settled[@]]
    /\ UNCHANGED <<step, work, cells, hosted, key, failures, clean, last, faults>>

\* The deletion window ends; KMS removes the key's alias with it.
KeyExpires(k) ==
    /\ k \in DOMAIN account.keys /\ account.keys[k].state = "pending"
    /\ account' = [account EXCEPT !.keys[k].state = "gone",
                                  !.alias = IF @ = k THEN 0 ELSE @]
    /\ UNCHANGED <<step, work, cells, hosted, key, failures, clean, last, faults>>

Deploy ==
    \/ EnsureRole
    \/ DescribeTable
    \/ Recreate
    \/ AwaitActive
    \/ WaitTimesOut
    \/ SeedItem
    \/ EnsureKmsKey
    \/ CreateAlias
    \/ UndoKey
    \/ EnsureSeededBucket
    \/ \E f \in Fns : EnsureFunction(f)

Teardown ==
    \/ \E f \in Fns : DeleteFunction(f)
    \/ \E f \in Fns : DeleteLogGroup(f)
    \/ DeleteRole
    \/ DeleteTable
    \/ \E o \in Objects : DeleteObject(o)
    \/ DeleteBucket
    \/ DeleteAlias
    \/ ScheduleKey
    \/ \E k \in 1..MaxKeys : SweepKey(k)
    \/ SweepEnds
    \/ DeleteEcrRepo

Next ==
    \/ StartDeploy
    \/ Deploy
    \/ StartTeardown
    \/ Teardown
    \/ Crash
    \/ Measure
    \/ TableSettles
    \/ \E k \in 1..MaxKeys : KeyExpires(k)

\* A running command takes its next step; DynamoDB finishes what it started.
Spec == Init /\ [][Next]_vars /\ WF_vars(Deploy \/ Teardown) /\ WF_vars(TableSettles)

-----------------------------------------------------------------------------
(* Properties.                                                             *)

\* A deploy that says it succeeded left everything the cells need: the role with
\* both policies and the boundary if there is to be one, a seeded table, a hardened and seeded bucket, and every function
\* of the deploy wired to the key it resolved, whatever earlier commands left behind.
Deployed ==
    step = "idle" /\ last = "deployed" =>
        /\ RoleParts \subseteq account.role /\ (hosted => "boundary" \in account.role)
        /\ account.table = "seeded"
        /\ {"bucket", "hardened", "object", "payloads"} \subseteq account.bucket
        /\ key # 0 /\ \A f \in cells : account.functions[f] = key

\* What a teardown that ran to its end leaves behind it has reported: nothing
\* that still bills survives a teardown that says it is complete.
LeftoversReported ==
    step = "idle" /\ last = "tornDown" =>
        /\ (\E f \in Fns : account.functions[f] # 0) => "functions" \in failures
        /\ account.groups # {} => "logs" \in failures
        /\ account.role # {} => "role" \in failures
        /\ account.table \notin {"absent", "deleting"} => "table" \in failures
        /\ account.bucket # {} => "s3" \in failures
        /\ account.alias # 0 => "key" \in failures
        /\ (\E k \in DOMAIN account.keys : account.keys[k].state = "enabled") => "sweep" \in failures
        /\ account.repo => "ecr" \in failures

\* A deploy fails only if a call of its own failed or a wait ran out: what earlier
\* commands left (a table being deleted, half a role, a bucket) never stops it.
DeployFailsForAReason == step = "idle" /\ last = "deployFailed" => ~clean

\* Teardown started again and again at last completes without a failure, whatever the
\* failed commands before it left.
TeardownConverges ==
    []<>(step = "functions") => []<>(step = "idle" /\ last = "tornDown" /\ failures = {})

\* A successful deploy wires its functions to a key that is not scheduled for
\* deletion, as the comment on delete_kms_key wants.  The code does not ensure it.
DeployedKeyUsable ==
    step = "idle" /\ last = "deployed" =>
        \A f \in cells : account.keys[account.functions[f]].state = "enabled"
=============================================================================
