------------------------------ MODULE NodePool ------------------------------
(***************************************************************************)
(* One crusoe_kubernetes_node_pool resource: Terraform's refresh, plan and *)
(* apply of it, the handlers and ModifyPlan of                             *)
(* internal/kubernetes/kubernetes_node_pool, and the API behind them.      *)
(*                                                                         *)
(* An Update patches the pool, waits, may ask for a rotation of the nodes, *)
(* which it does not wait for, and reads the pool back.  What makes this   *)
(* hard is that the decision to rotate is taken once, on the difference    *)
(* between plan and record, and that two kinds of attributes differ in how *)
(* the record learns of them: the API reports the version, and the record  *)
(* alone knows the requested labels, the batch and the SSH key.            *)
(*                                                                         *)
(* Covered: lost requests and answers, failed polls, a failed rotation, a  *)
(* failed reading back, a killed provider, changes by others, imports.     *)
(***************************************************************************)
EXTENDS Naturals

CONSTANTS
  None,          \* a null value
  Unknown,       \* "known after apply", in a plan only
  Versions,      \* versions; also stands for taints and ephemeral storage
  Labels,        \* values of requested_node_labels
  Batches,       \* values of batch_size or batch_percentage, one of them set
  Conflict,      \* both of them set
  MaxCount, MaxFaults, MaxEdits

ASSUME NodePoolAssumption ==
  /\ None \notin Versions \cup Labels \cup Batches \cup {Conflict, Unknown}
  /\ Unknown \notin Labels
  /\ Conflict \notin Batches
  /\ MaxCount \in Nat /\ MaxFaults \in Nat /\ MaxEdits \in Nat

VARIABLES
  pool,      \* the pool that the record or the running handler names, or None
  job,       \* the operation running on it, or None
  config,    \* the configuration block, None if there is none
  tf,        \* the stored record, or None
  pc, plan,  \* the stage of the running handler and its planned resource
  op,        \* state of the operation the handler polls
  warned,    \* what ModifyPlan announced of this run
  disturbed, \* history: the record may be behind the pool, since the last refresh
  cut,       \* history: the provider has missed an answer or was killed
  excused,   \* history: a rotation failed, or somebody else changed the pool
  orphans,   \* history: pools that no record or handler names
  faults, edits

handler == <<pc, plan, op, warned>>
history == <<disturbed, cut, excused, orphans>>
vars == <<pool, job, config, tf, handler, history, faults, edits>>

\* labels is None where requested_node_labels is left out; replaced stands for
\* the attributes whose change replaces the pool, the SSH key first of them.
Config == [count : 1..MaxCount, version : Versions, labels : Labels \cup {None},
           batch : Batches \cup {None, Conflict}, drain : BOOLEAN]
Plan   == [count : 1..MaxCount, version : Versions, labels : Labels \cup {Unknown},
           batch : Batches \cup {None, Conflict}, drain : BOOLEAN]
Record == [count : 1..MaxCount, version : Versions, labels : Labels \cup {None},
           batch : Batches \cup {None, Conflict}, drain : BOOLEAN, key : BOOLEAN]

\* count is the target, nodes what there is, stale how many of the nodes have
\* another configuration than new ones get.
Pool == [count : 1..MaxCount, version : Versions, labels : Labels \cup {None},
         drain : BOOLEAN, nodes : 0..MaxCount, stale : 0..MaxCount]

Job == [kind : {"create", "patch"}, want : Plan]
         \cup [kind : {"delete", "rotate"}, want : {None}]

ASSUME RecordAssumption == None \notin Config \cup Plan \cup Record \cup Pool \cup Job

Stages == {"idle", "refresh", "plan", "create", "creating", "created", "patch", "patching",
           "rollout", "readback", "delete", "deleting"}
Awaiting == {"creating", "patching", "deleting"}

TypeOK ==
  /\ pool \in Pool \cup {None}
  /\ job \in Job \cup {None}
  /\ config \in Config \cup {None}
  /\ tf \in Record \cup {None}
  /\ pc \in Stages
  /\ plan \in Plan \cup {None}
  /\ op \in {"NONE", "IN_PROGRESS", "SUCCEEDED", "FAILED"}
  /\ warned \in SUBSET {"drain", "left", "replace"}
  /\ disturbed \in BOOLEAN /\ cut \in BOOLEAN /\ excused \in BOOLEAN
  /\ orphans \in Nat /\ faults \in 0..MaxFaults /\ edits \in 0..MaxEdits
  /\ pc \in {"patch", "patching", "rollout", "readback", "delete", "deleting"} => tf # None
  /\ pc \in {"create", "creating", "created"} => tf = None
  /\ pc \in {"create", "creating", "created", "patch", "patching", "rollout", "readback"}
       => plan # None

Init ==
  /\ pool = None /\ job = None
  /\ config \in Config
  /\ tf = None
  /\ pc = "idle" /\ plan = None /\ op = "NONE" /\ warned = {}
  /\ disturbed = FALSE /\ cut = FALSE /\ excused = FALSE
  /\ orphans = 0 /\ faults = 0 /\ edits = 0

Fault == faults < MaxFaults /\ faults' = faults + 1
Edit  == edits < MaxEdits /\ edits' = edits + 1

Rest == pc' = "idle" /\ plan' = None /\ op' = "NONE" /\ warned' = {}

\* Unknown labels are sent as none and recorded as null.
OrNull(labels) == IF labels = Unknown THEN None ELSE labels

\* The record made of an answer of the API; what the API does not return comes
\* from ref: the plan, or the prior record.
nodePoolToResourceModel(p, labels, batch, key) ==
  [count |-> p.count, version |-> p.version, drain |-> p.drain,
   labels |-> OrNull(labels), batch |-> batch, key |-> key]

-----------------------------------------------------------------------------
(* The API, modelled from how the package uses it: one operation at a time *)
(* on a pool; a patch makes every node stale whose configuration it        *)
(* changes, adds the nodes that are missing as far as there is capacity,   *)
(* and removes nodes only where drain (update_settings.allow_scale_down)   *)
(* is set.  A patch that sends no labels leaves those of the pool alone.   *)

Accepts == pool # None /\ job = None

\* What becomes of pool p patched to want.
Patched(p, want) ==
  LET labels == IF OrNull(want.labels) = None THEN p.labels ELSE want.labels
      stale == IF <<p.version, p.labels>> = <<want.version, labels>>
               THEN p.stale ELSE p.nodes
      nodes == IF want.count < p.nodes /\ ~want.drain THEN p.nodes ELSE want.count
  IN  [count |-> want.count, version |-> want.version, labels |-> labels,
       drain |-> want.drain, nodes |-> nodes, stale |-> IF stale < nodes THEN stale ELSE nodes]

Built(want) ==
  [count |-> want.count, version |-> want.version, labels |-> OrNull(want.labels),
   drain |-> want.drain, nodes |-> want.count, stale |-> 0]

\* The running operation succeeds.
Effect ==
  CASE job.kind = "create" -> Built(job.want)
    [] job.kind = "patch"  -> Patched(pool, job.want)
    [] job.kind = "delete" -> None
    [] job.kind = "rotate" -> [pool EXCEPT !.stale = 0]

\* The handler polls the running operation; it never polls a rotation.
Polled == op = "IN_PROGRESS"

OperationSucceeds ==
  /\ job # None
  /\ pool' = Effect /\ job' = None
  /\ op' = IF Polled THEN "SUCCEEDED" ELSE op
  /\ disturbed' = (disturbed \/ (~Polled /\ job.kind # "rotate"))
  /\ UNCHANGED <<config, tf, pc, plan, warned, cut, excused, orphans, faults, edits>>

OperationFails ==
  /\ job # None /\ Fault /\ job' = None
  /\ op' = IF Polled THEN "FAILED" ELSE op
  /\ excused' = (excused \/ job.kind = "rotate")
  /\ UNCHANGED <<pool, config, tf, pc, plan, warned, disturbed, cut, orphans, edits>>

-----------------------------------------------------------------------------
(* Refresh and plan.                                                       *)

StartRun ==
  /\ pc = "idle"
  /\ pc' = IF tf = None THEN "plan" ELSE "refresh"
  /\ UNCHANGED <<pool, job, config, tf, plan, op, warned, history, faults, edits>>

\* Slip: refresh stores the prior record again.
ReadKeepsPrior ==
  /\ pc = "refresh" /\ pool # None
  /\ disturbed' = FALSE
  /\ pc' = "plan"
  /\ UNCHANGED <<pool, job, config, tf, plan, op, warned, cut, excused, orphans, faults, edits>>


ReadOK ==
  /\ pc = "refresh" /\ pool # None
  /\ tf' = nodePoolToResourceModel(pool, tf.labels, tf.batch, tf.key)
  /\ disturbed' = FALSE
  /\ pc' = "plan"
  /\ UNCHANGED <<pool, job, config, plan, op, warned, cut, excused, orphans, faults, edits>>

\* Read drops the resource when the API says 404, and then only.
ReadGone ==
  /\ pc = "refresh" /\ pool = None
  /\ tf' = None /\ disturbed' = FALSE
  /\ pc' = "plan"
  /\ UNCHANGED <<pool, job, config, plan, op, warned, cut, excused, orphans, faults, edits>>

\* Slip: any error is taken for a missing pool.
ReadFailsDrops ==
  /\ pc = "refresh" /\ Fault
  /\ tf' = None /\ disturbed' = FALSE
  /\ Rest
  /\ UNCHANGED <<pool, job, config, cut, excused, orphans, edits>>

ReadFails ==
  /\ pc = "refresh" /\ Fault
  /\ Rest
  /\ UNCHANGED <<pool, job, config, tf, history, edits>>

\* The configuration and the record do not differ; labels that are left out are
\* whatever is recorded.
Agrees(t) ==
  /\ <<config.count, config.version>> = <<t.count, t.version>>
  /\ <<config.batch, config.drain>> = <<t.batch, t.drain>>
  /\ config.labels \in {None, t.labels}

\* The planned resource when they do.  Labels that are left out are carried over
\* by UseStateForUnknown, which does not carry a null (framework v1.15.0): they
\* are unknown if none are recorded, and of a new pool.
Planned(prior) ==
  [count |-> config.count, version |-> config.version, batch |-> config.batch,
   drain |-> config.drain,
   labels |-> IF config.labels # None THEN config.labels
              ELSE IF prior # None /\ prior.labels # None THEN prior.labels ELSE Unknown]

\* An imported pool has no SSH key in its record, and ssh_key RequiresReplace.
RequiresReplace == ~tf.key

\* What makes Update rotate the nodes, and two slips in it.
NeedsRolloutNoBatch(p, state) == p.version # state.version \/ p.labels # state.labels
NeedsRolloutAlways(p, state)  == TRUE
nodePoolNeedsRollout(p, state) ==
  p.version # state.version \/ p.labels # state.labels \/ p.batch # state.batch

\* ModifyPlan announces what an update does to nodes, and the slip of doing it
\* the other way round.
ModifyPlanSwapped(p, state) ==
  (IF p.count > state.count /\ p.drain THEN {"drain"} ELSE {})
    \cup (IF ~nodePoolNeedsRollout(p, state) THEN {}
          ELSE {IF p.batch = None THEN "replace" ELSE "left"})
ModifyPlan(p, state) ==
  (IF p.count < state.count /\ p.drain THEN {"drain"} ELSE {})
    \cup (IF ~nodePoolNeedsRollout(p, state) THEN {}
          ELSE {IF p.batch = None THEN "left" ELSE "replace"})

\* No difference; or batch_size and batch_percentage are both set, which
\* ModifyPlan refuses whenever there is a record, be it the one that Create made
\* of the same configuration.
PlanNothing ==
  /\ pc = "plan"
  /\ \/ config = None /\ tf = None
     \/ config # None /\ tf # None /\ Agrees(tf) /\ ~RequiresReplace
     \/ config # None /\ tf # None /\ config.batch = Conflict
  /\ Rest
  /\ UNCHANGED <<pool, job, config, tf, history, faults, edits>>

PlanCreate ==
  /\ pc = "plan" /\ config # None /\ tf = None
  /\ plan' = Planned(None) /\ pc' = "create"
  /\ UNCHANGED <<pool, job, config, tf, op, warned, history, faults, edits>>

PlanUpdate ==
  /\ pc = "plan" /\ config # None /\ tf # None /\ config.batch # Conflict
  /\ ~Agrees(tf) /\ ~RequiresReplace
  /\ plan' = Planned(tf) /\ pc' = "patch"
  /\ warned' = ModifyPlan(plan', tf)
  /\ UNCHANGED <<pool, job, config, tf, op, history, faults, edits>>

PlanDelete ==
  /\ pc = "plan" /\ tf # None
  /\ \/ config = None /\ plan' = None
     \/ config # None /\ config.batch # Conflict /\ RequiresReplace /\ plan' = Planned(None)
  /\ pc' = "delete"
  /\ UNCHANGED <<pool, job, config, tf, op, warned, history, faults, edits>>

-----------------------------------------------------------------------------
(* Requests and waits.                                                     *)

Starts(kind) == job' = [kind |-> kind, want |-> IF kind \in {"create", "patch"} THEN plan ELSE None]

Call(kind, next) ==
  /\ IF kind = "create" THEN pool = None /\ job = None ELSE Accepts
  /\ Starts(kind)
  /\ op' = "IN_PROGRESS" /\ pc' = next
  /\ UNCHANGED <<pool, config, tf, plan, warned, history, faults, edits>>

\* An error instead of an answer: the request is refused, it is lost, or it is
\* carried out and the answer is lost.  Nobody learns the ID of a pool created so.
CallFails(kind) ==
  /\ \/ kind # "create" /\ ~Accepts /\ UNCHANGED <<job, cut, orphans, faults>>
     \/ Fault /\ UNCHANGED <<job, cut, orphans>>
     \/ /\ Fault /\ cut' = TRUE
        /\ IF kind = "create" THEN orphans' = orphans + 1 /\ UNCHANGED job
           ELSE Accepts /\ Starts(kind) /\ UNCHANGED orphans
  /\ Rest
  /\ UNCHANGED <<pool, config, tf, disturbed, excused, edits>>

\* The provider loses sight of what it was doing; of a creation it knew the
\* operation only, so the pool is nobody's.
LosesSight ==
  /\ cut' = TRUE
  /\ IF pc \in {"creating", "created"}
     THEN orphans' = orphans + 1 /\ pool' = None /\ job' = None /\ UNCHANGED disturbed
     ELSE disturbed' = TRUE /\ UNCHANGED <<pool, job, orphans>>
  /\ Rest

\* AwaitNodePoolOperation gives the operation's own error, or that of a poll.
AwaitFails ==
  /\ pc \in Awaiting
  /\ \/ op = "FAILED" /\ Rest /\ UNCHANGED <<pool, job, disturbed, cut, orphans, faults>>
     \/ Fault /\ LosesSight
  /\ UNCHANGED <<config, tf, excused, edits>>

Local(next) ==
  /\ pc' = next /\ op' = "NONE"
  /\ UNCHANGED <<pool, job, config, tf, plan, warned, disturbed, orphans, edits>>

\* A GET is lost.
GetFails == Fault

-----------------------------------------------------------------------------
(* Create and Delete.                                                      *)

CreateNodePool == pc = "create" /\ Call("create", "creating")
CreateFails    == pc = "create" /\ CallFails("create")

CreateDone ==
  /\ pc = "creating" /\ op = "SUCCEEDED"
  /\ Local("created") /\ UNCHANGED <<cut, excused, faults>>

Stored == nodePoolToResourceModel(pool, plan.labels, plan.batch, TRUE)

\* Create reads the pool back to record what the operation's result does not
\* tell, and records the result itself where that fails.  Somebody may have
\* deleted the pool meanwhile.
CreateRecords ==
  /\ pc = "created" /\ pool # None
  /\ tf' = Stored /\ Rest
  /\ UNCHANGED <<pool, job, config, history, faults, edits>>

\* Slip: without the fallback.
CreateFallsBackNot ==
  /\ pc = "created" /\ GetFails
  /\ Rest
  /\ UNCHANGED <<pool, job, config, tf, history, edits>>

CreateFallsBack ==
  /\ pc = "created" /\ GetFails
  /\ tf' = Stored /\ Rest
  /\ UNCHANGED <<pool, job, config, history, edits>>

DeleteNodePool == pc = "delete" /\ Call("delete", "deleting")
DeleteFails    == pc = "delete" /\ CallFails("delete")

\* Slip: the record of a deleted pool stays until the pool is replaced.
DeleteDoneUnsaved ==
  /\ pc = "deleting" /\ op = "SUCCEEDED"
  /\ op' = "NONE" /\ warned' = {}
  /\ pc' = IF plan = None THEN "idle" ELSE "create"
  /\ UNCHANGED <<pool, job, config, tf, plan, history, faults, edits>>


DeleteDone ==
  /\ pc = "deleting" /\ op = "SUCCEEDED"
  /\ tf' = None /\ op' = "NONE" /\ warned' = {}
  /\ pc' = IF plan = None THEN "idle" ELSE "create"
  /\ disturbed' = FALSE
  /\ UNCHANGED <<pool, job, config, plan, cut, excused, orphans, faults, edits>>

-----------------------------------------------------------------------------
(* Update: patch, wait, rotate, read back.                                 *)

UpdateNodePool == pc = "patch" /\ Call("patch", "patching")
UpdateFails    == pc = "patch" /\ CallFails("patch")

Rotates == nodePoolNeedsRollout(plan, tf) /\ plan.batch # None

UpdateDone ==
  /\ pc = "patching" /\ op = "SUCCEEDED"
  /\ Local(IF Rotates THEN "rollout" ELSE "readback") /\ UNCHANGED <<cut, excused, faults>>

\* The rotation is asked for and not waited for.
RotateNodePool ==
  /\ pc = "rollout" /\ Accepts
  /\ Starts("rotate") /\ pc' = "readback"
  /\ UNCHANGED <<pool, config, tf, plan, op, warned, history, faults, edits>>

\* A rotation that cannot be started is a warning.
RotateFails ==
  /\ pc = "rollout"
  /\ \/ ~Accepts /\ UNCHANGED faults
     \/ Fault
  /\ excused' = TRUE
  /\ Local("readback") /\ UNCHANGED cut

\* Slip: the operation's result, which describes the pool before the update, is
\* recorded instead.
ReadBackSkipped ==
  /\ pc = "readback" /\ pool # None
  /\ tf' = nodePoolToResourceModel(tf, plan.labels, plan.batch, tf.key) /\ Rest
  /\ UNCHANGED <<pool, job, config, history, faults, edits>>


ReadBack ==
  /\ pc = "readback" /\ pool # None
  /\ tf' = nodePoolToResourceModel(pool, plan.labels, plan.batch, tf.key) /\ Rest
  /\ UNCHANGED <<pool, job, config, history, faults, edits>>

\* Update drops a pool that is gone by now.
ReadBackGone ==
  /\ pc = "readback" /\ pool = None
  /\ tf' = None /\ disturbed' = FALSE /\ Rest
  /\ UNCHANGED <<pool, job, config, cut, excused, orphans, faults, edits>>

\* The record stays that of before the update.
ReadBackFails ==
  /\ pc = "readback" /\ GetFails
  /\ disturbed' = TRUE /\ cut' = TRUE /\ Rest
  /\ UNCHANGED <<pool, job, config, tf, excused, orphans, edits>>

-----------------------------------------------------------------------------
(* The world around the handlers.                                          *)

ChangeConfig ==
  /\ pc = "idle" /\ Edit
  /\ config' \in (Config \cup {None}) \ {config}
  /\ UNCHANGED <<pool, job, tf, handler, history, faults>>

\* terraform import of a pool like the configured one, and the Read after it.
ImportState ==
  /\ pc = "idle" /\ tf = None /\ config # None /\ Edit
  /\ pool' = Built(config)
  /\ tf' = nodePoolToResourceModel(pool', None, None, FALSE)
  /\ disturbed' = FALSE
  /\ UNCHANGED <<job, config, handler, cut, excused, orphans, faults>>

\* Somebody else resizes, upgrades or deletes the managed pool.
Console ==
  /\ tf # None /\ Accepts /\ Edit
  /\ \/ pool' = None
     \/ \E n \in 1..MaxCount, v \in Versions :
          pool' = Patched(pool, [pool EXCEPT !.count = n, !.version = v]) /\ pool' # pool
  /\ disturbed' = TRUE /\ excused' = TRUE
  /\ UNCHANGED <<config, job, tf, handler, cut, orphans, faults>>

\* The provider is killed while a handler runs.
Killed ==
  /\ pc \notin {"idle", "refresh", "plan"} /\ Fault
  /\ LosesSight
  /\ UNCHANGED <<config, tf, excused, edits>>

Handler ==
  \/ ReadOK \/ ReadGone \/ ReadFails
  \/ PlanNothing \/ PlanCreate \/ PlanUpdate \/ PlanDelete
  \/ CreateNodePool \/ CreateFails \/ CreateDone \/ CreateRecords \/ CreateFallsBack
  \/ UpdateNodePool \/ UpdateFails \/ UpdateDone \/ RotateNodePool \/ RotateFails
  \/ ReadBack \/ ReadBackGone \/ ReadBackFails
  \/ DeleteNodePool \/ DeleteFails \/ DeleteDone
  \/ AwaitFails

API == OperationSucceeds \/ OperationFails

Next == StartRun \/ Handler \/ API \/ ChangeConfig \/ ImportState \/ Console \/ Killed

Spec == Init /\ [][Next]_vars

\* Terraform is run again and again, the process runs, the API finishes what
\* it has started.
Fairness == WF_vars(StartRun) /\ WF_vars(Handler) /\ WF_vars(API)

FairSpec == Spec /\ Fairness

-----------------------------------------------------------------------------
(* Properties.                                                             *)

\* Between runs the record of a pool is true, unless the pool changed without
\* the provider being told or Update failed to read it back.
RecordTracksPool ==
  (pc = "idle" /\ tf # None /\ ~disturbed) =>
     /\ pool # None
     /\ <<tf.count, tf.version, tf.drain>> = <<pool.count, pool.version, pool.drain>>

\* Every pool without a record is the price of a creation whose answer was
\* lost or that was interrupted: failing to read a new pool back is not one,
\* nor is any error but a 404 in Read.
Unrecorded == IF pc = "idle" /\ tf = None /\ (pool # None \/ job # None) THEN 1 ELSE 0
OrphansNeedCuts == orphans + Unrecorded <= IF cut THEN faults ELSE 0

\* With a batch configured no node stays behind silently: once record and
\* configuration agree the nodes are rotated, or being rotated.  Nodes left behind
\* while no batch was set are rotated when one is (CHANGELOG.md:190).  Except after
\* a missed answer or a killed run (cut), and after a rotation that failed or a
\* change by somebody else (excused), which no later run makes up for.
AsConfigured ==
  pc = "idle" /\ config # None /\ tf # None /\ config.batch # Conflict /\ Agrees(tf)
Rotated == pool = None \/ pool.stale = 0 \/ (job # None /\ job.kind = "rotate")
NodesFollow == (AsConfigured /\ config.batch # None /\ ~cut /\ ~excused) => Rotated

\* Nodes are rotated only if there is something to rotate, or to repeat a
\* rotation with another batch.  Except where requested_node_labels is left out and
\* null, and where an earlier run or somebody else left the record behind (cut,
\* excused).
HasCause == pool.stale > 0 \/ plan.batch # tf.batch \/ cut \/ excused
StartsRotation == pc = "rollout" /\ pc' = "readback" /\ job' # job
RotatesForCause == [][StartsRotation => HasCause \/ plan.labels = Unknown]_vars

\* What the comments say, null labels or not: "nodePoolNeedsRollout checks if plan
\* and state differences require rollout of changes" (util.go:243), the labels being
\* "maintain[ed] across updates" (kubernetes_node_pool_resource.go:177).
RotatesForChanges == [][StartsRotation => HasCause]_vars

\* An update takes nodes away only if the plan announced it, as long as the pool is
\* as recorded when the update is planned.  Except an update that turns
\* allow_scale_down on, of a pool that already had more nodes than its count: the
\* plan compares counts only.
DrainsAreAnnounced ==
  [][(pc = "patching" /\ Polled /\ job' = None /\ pool' # pool /\ pool'.nodes < pool.nodes) =>
       ("drain" \in warned \/ (plan.drain /\ ~tf.drain) \/ disturbed \/ excused)]_vars

\* A node pool is a managed object like those of Objects, with two handlers
\* more that may find it gone or fail to read it: the record never goes before
\* the pool, no second pool is made beside a recorded one, and a pool left
\* behind is from a creation that was cut short (Read, Create's and Update's
\* reading back).
Promise == INSTANCE ManagedObject WITH
  exists <- pool # None,
  known  <- tf # None,
  lost   <- orphans
KeepsItsPromise == Promise!Spec

\* When faults and edits are over, running Terraform again and again makes the
\* pool what is configured, if the configuration is not refused.
Settled ==
  \/ config = None /\ tf = None
  \/ config # None /\ config.batch = Conflict
  \/ /\ AsConfigured /\ pool # None
     /\ <<pool.count, pool.version, pool.drain>> = <<config.count, config.version, config.drain>>
Converges == <>[](pc = "idle" => Settled)
=============================================================================
