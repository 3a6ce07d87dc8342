---------------------------- MODULE NodePoolProofs ----------------------------
(***************************************************************************)
(* Proofs about NodePool, for any numbers of nodes, any attributes,        *)
(* failures and edits.                                                     *)
(***************************************************************************)
EXTENDS NodePool, TLAPS

\* The operation an await is about is the one asked for, and an operation that
\* nobody awaits is one on an existing pool.
Jobs ==
  /\ op = "NONE" <=> pc \notin Awaiting
  /\ pc \in Awaiting => (job # None <=> op = "IN_PROGRESS")
  /\ job # None => (job.kind = "create" <=> pool = None)
  /\ (job # None /\ job.kind = "create") => pc = "creating"
  /\ (pc = "creating" /\ op = "IN_PROGRESS") => job = [kind |-> "create", want |-> plan]
  /\ (pc = "patching" /\ op = "IN_PROGRESS") => job = [kind |-> "patch", want |-> plan]
  /\ (pc = "deleting" /\ op = "IN_PROGRESS") => job.kind = "delete"
  /\ (pc = "creating" /\ op # "SUCCEEDED") => pool = None
  /\ ((pc = "creating" /\ op = "SUCCEEDED") \/ pc = "created") => pool = Built(plan)
  /\ (pc = "deleting" /\ op = "SUCCEEDED") => pool = None
  /\ pc \in {"created", "rollout"} => job = None

\* A resource that is not recorded has no pool, but the one being created.
Recorded ==
  /\ (tf = None /\ pc \notin {"creating", "created"}) => pool = None /\ job = None
  /\ pc = "refresh" => tf # None

\* What the plan of an update is based on, what it announced, and why an update
\* rotates the nodes.
Announced ==
  /\ pc \in {"patch", "patching", "rollout", "readback"} => tf.key
  /\ pc \in {"patch", "patching"} => (plan.labels = Unknown => tf.labels = None)
  /\ pc \in {"patch", "patching"} => warned = ModifyPlan(plan, tf)
  /\ pc = "rollout" => Rotates

\* A pool has nodes, and as many as it should if it may be scaled down.
Sound == pool # None => pool.nodes >= 1 /\ (pool.drain => pool.nodes = pool.count)

\* The handlers have not changed the pool yet since the record was made.
Unpatched ==
  /\ pc \notin {"rollout", "readback"}
  /\ ~(pc \in {"patching", "deleting"} /\ op = "SUCCEEDED")

\* The record is true until a patch or a deletion is done.
Matches ==
  pool # None /\ <<tf.count, tf.version, tf.drain>> = <<pool.count, pool.version, pool.drain>>
Tracked == (tf # None /\ ~disturbed /\ Unpatched) => Matches

\* What becomes of stale nodes while the provider misses nothing and nobody
\* else is at the pool.
Followed ==
  (~cut /\ ~excused) =>
    /\ ~disturbed
    /\ (job # None /\ pc \notin Awaiting) => job.kind = "rotate"
    /\ (tf # None /\ Unpatched) => /\ Rotated \/ tf.batch = None
                                   /\ tf.key => tf.labels = pool.labels
    /\ ((pc = "patching" /\ op = "SUCCEEDED") \/ pc = "rollout") =>
         /\ pool # None /\ pool.labels = OrNull(plan.labels)
         /\ Rotates => (pool.stale > 0 \/ plan.batch # tf.batch \/ plan.labels = Unknown)
         /\ ~Rotates => (pool.stale = 0 \/ plan.batch = None)
    /\ pc = "readback" =>
         /\ pool # None /\ pool.labels = OrNull(plan.labels)
         /\ Rotated \/ plan.batch = None

\* Pools nobody knows of are counted, and only a provider that misses something
\* makes one.
Counted == orphans <= faults /\ (orphans # 0 => cut)

Base == TypeOK /\ Jobs /\ Recorded /\ Announced /\ Sound /\ Counted
Inv  == Base /\ Tracked /\ Followed

-----------------------------------------------------------------------------
(* Pools, records and plans.                                               *)

\* Faults and edits stay within their bounds.
LEMMA CountersTyped ==
  ASSUME TypeOK
  PROVE  /\ UNCHANGED faults \/ Fault => faults' \in 0..MaxFaults
         /\ UNCHANGED edits \/ Edit => edits' \in 0..MaxEdits
         /\ faults \in Nat /\ orphans \in Nat
         /\ Fault => faults' = faults + 1
BY NodePoolAssumption DEF TypeOK, Fault, Edit

\* A new pool has the nodes it should have.
LEMMA BuiltSound ==
  ASSUME NEW want \in Config \cup Plan
  PROVE  /\ Built(want) \in Pool /\ Built(want) # None
         /\ Built(want).nodes >= 1 /\ Built(want).nodes = Built(want).count
         /\ Built(want).stale = 0
         /\ Built(want).labels = OrNull(want.labels)
<1>1. want.count \in 1..MaxCount /\ MaxCount \in Nat
  BY NodePoolAssumption DEF Config, Plan
<1>2. Built(want) \in Pool
  BY <1>1 DEF Built, OrNull, Config, Plan, Pool
<1> QED
  BY <1>1, <1>2, RecordAssumption DEF Built

\* A patched pool is as asked for, and keeps its labels if none are, but it loses
\* nodes only where it may be scaled down, and has stale nodes only if it had, or if
\* nodes changed.
LEMMA PatchedSound ==
  ASSUME NEW p \in Pool, p.nodes >= 1, p.drain => p.nodes = p.count,
         NEW want, want.count \in 1..MaxCount, want.version \in Versions,
         want.labels \in Labels \cup {None, Unknown}, want.drain \in BOOLEAN,
         NEW labels, labels = IF OrNull(want.labels) = None THEN p.labels ELSE want.labels
  PROVE  /\ Patched(p, want) \in Pool /\ Patched(p, want) # None
         /\ Patched(p, want).count = want.count /\ Patched(p, want).version = want.version
         /\ Patched(p, want).labels = labels /\ Patched(p, want).drain = want.drain
         /\ Patched(p, want).nodes >= 1
         /\ want.drain => Patched(p, want).nodes = want.count
         /\ Patched(p, want).nodes < p.nodes => want.drain /\ want.count < p.nodes
         /\ (p.version = want.version /\ p.labels = labels /\ p.stale = 0) =>
              Patched(p, want).stale = 0
         /\ (p.version # want.version \/ p.labels # labels) => Patched(p, want).stale > 0
<1> DEFINE stale == IF <<p.version, p.labels>> = <<want.version, labels>>
                    THEN p.stale ELSE p.nodes
           nodes == IF want.count < p.nodes /\ ~want.drain THEN p.nodes ELSE want.count
           least == IF stale < nodes THEN stale ELSE nodes
<1>1. /\ p.nodes \in 0..MaxCount /\ p.stale \in 0..MaxCount /\ MaxCount \in Nat
      /\ want.count \in 1..MaxCount /\ labels \in Labels \cup {None}
  BY NodePoolAssumption DEF Pool, OrNull
<1>2. nodes \in 0..MaxCount /\ nodes >= 1 /\ stale \in 0..MaxCount
  BY <1>1
<1>3. least \in 0..MaxCount
  BY <1>1, <1>2
<1>4. /\ (p.version = want.version /\ p.labels = labels /\ p.stale = 0) => least = 0
      /\ (p.version # want.version \/ p.labels # labels) => least > 0
  BY <1>1, <1>2
<1>5. want.drain => nodes = want.count
  OBVIOUS
<1>6. nodes < p.nodes => want.drain /\ want.count < p.nodes
  BY <1>1
<1>7. Patched(p, want) =
        [count |-> want.count, version |-> want.version, labels |-> labels,
         drain |-> want.drain, nodes |-> nodes, stale |-> least]
  BY DEF Patched
<1> HIDE DEF stale, nodes, least
<1>8. Patched(p, want) \in Pool
  BY <1>1, <1>2, <1>3, <1>7 DEF Pool
<1> QED
  BY <1>2, <1>4, <1>5, <1>6, <1>7, <1>8, RecordAssumption

\* The record made of a pool shows the pool.
LEMMA ModelTyped ==
  ASSUME NEW p \in Pool, NEW labels \in Labels \cup {None, Unknown},
         NEW batch \in Batches \cup {None, Conflict}, NEW key \in BOOLEAN
  PROVE  LET rec == nodePoolToResourceModel(p, labels, batch, key)
         IN  /\ rec \in Record /\ rec # None
             /\ rec.count = p.count /\ rec.version = p.version /\ rec.drain = p.drain
             /\ rec.labels = OrNull(labels) /\ rec.batch = batch /\ rec.key = key
<1>1. nodePoolToResourceModel(p, labels, batch, key) \in Record
  BY DEF nodePoolToResourceModel, OrNull, Pool, Record
<1> QED
  BY <1>1, RecordAssumption DEF nodePoolToResourceModel

\* What is planned is a plan, and has unknown labels only if none are recorded.
LEMMA PlannedTyped ==
  ASSUME config \in Config, NEW prior \in Record \cup {None}
  PROVE  /\ Planned(prior) \in Plan /\ Planned(prior) # None
         /\ (prior # None /\ Planned(prior).labels = Unknown) => prior.labels = None
<1>1. Planned(prior) \in Plan
  BY DEF Planned, Config, Record, Plan
<1>2. (prior # None /\ Planned(prior).labels = Unknown) => prior.labels = None
  BY NodePoolAssumption DEF Planned, Config, Record
<1> QED
  BY <1>1, <1>2, RecordAssumption

\* What is asked for is an operation.
LEMMA StartsTyped ==
  ASSUME NEW kind \in {"create", "patch", "delete", "rotate"},
         kind \in {"create", "patch"} => plan \in Plan, Starts(kind)
  PROVE  /\ job' \in Job /\ job' # None /\ job'.kind = kind
         /\ kind \in {"create", "patch"} => job' = [kind |-> kind, want |-> plan]
<1>1. job' \in Job /\ job'.kind = kind
  BY DEF Starts, Job
<1> QED
  BY <1>1, RecordAssumption DEF Starts

\* What becomes of a pool whose operation succeeds.
LEMMA EffectSound ==
  ASSUME Base, job # None
  PROVE  /\ Effect \in Pool \cup {None}
         /\ job.kind = "create" => Effect = Built(job.want) /\ Effect # None /\ job.want \in Plan
         /\ job.kind = "patch" => /\ pool \in Pool /\ pool # None
                                  /\ Effect = Patched(pool, job.want) /\ Effect # None
                                  /\ job.want \in Plan
         /\ job.kind = "delete" => Effect = None
         /\ job.kind = "rotate" => /\ pool \in Pool /\ pool # None
                                   /\ Effect \in Pool /\ Effect # None
                                   /\ Effect = [pool EXCEPT !.stale = 0]
         /\ Effect # None => Effect.nodes >= 1 /\ (Effect.drain => Effect.nodes = Effect.count)
<1>1. job \in Job
  BY DEF Base, TypeOK
<1>2. CASE job.kind = "create"
  <2>1. job.want \in Plan /\ Effect = Built(job.want)
    BY <1>1, <1>2 DEF Job, Effect
  <2> QED
    BY <1>2, <2>1, BuiltSound
<1>3. CASE job.kind = "patch"
  <2>1. /\ job.want \in Plan /\ Effect = Patched(pool, job.want)
        /\ pool \in Pool /\ pool # None
    BY <1>1, <1>3 DEF Job, Effect, Base, TypeOK, Jobs
  <2>2. pool.nodes >= 1 /\ (pool.drain => pool.nodes = pool.count)
    BY <2>1 DEF Base, Sound
  <2>3. /\ job.want.count \in 1..MaxCount /\ job.want.version \in Versions
        /\ job.want.labels \in Labels \cup {Unknown} /\ job.want.drain \in BOOLEAN
    BY <2>1 DEF Plan
  <2>4. /\ Effect \in Pool /\ Effect # None /\ Effect.nodes >= 1
        /\ Effect.drain => Effect.nodes = Effect.count
    BY <2>1, <2>2, <2>3, PatchedSound
  <2> QED
    BY <1>3, <2>1, <2>4
<1>4. CASE job.kind = "delete"
  BY <1>4 DEF Effect
<1>5. CASE job.kind = "rotate"
  <2>1. pool \in Pool /\ pool # None /\ Effect = [pool EXCEPT !.stale = 0]
    BY <1>5 DEF Effect, Base, TypeOK, Jobs
  <2>2. Effect \in Pool /\ Effect.nodes = pool.nodes /\ Effect.drain = pool.drain
        /\ Effect.count = pool.count
    BY <2>1, NodePoolAssumption DEF Pool
  <2>3. Effect # None
    BY <2>2, RecordAssumption
  <2> QED
    BY <1>5, <2>1, <2>2, <2>3 DEF Base, Sound
<1> QED
  BY <1>1, <1>2, <1>3, <1>4, <1>5 DEF Job

-----------------------------------------------------------------------------
(* The steps keep the base of the invariant.                               *)

Plans == StartRun \/ ReadOK \/ ReadGone \/ ReadFails \/ PlanNothing \/ PlanCreate \/ PlanUpdate \/ PlanDelete
Calls == CreateNodePool \/ UpdateNodePool \/ DeleteNodePool
CallErrors == CreateFails \/ UpdateFails \/ DeleteFails
Locals == CreateDone \/ UpdateDone \/ RotateFails
Stores == CreateRecords \/ CreateFallsBack \/ ReadBack \/ ReadBackGone \/ ReadBackFails \/ DeleteDone
Others == ChangeConfig \/ ImportState \/ Console

\* Refreshing and planning.
LEMMA PlansBase ==
  ASSUME Base, Plans
  PROVE  Base'
<1> USE DEF Base
<1>1. /\ UNCHANGED <<pool, job, config, orphans, cut, excused, edits>> /\ (UNCHANGED faults \/ Fault)
      /\ pc \in {"idle", "refresh", "plan"} /\ op = "NONE" /\ op' = "NONE"
      /\ disturbed' \in BOOLEAN
  BY DEF Plans, StartRun, ReadOK, ReadGone, ReadFails, PlanNothing, PlanCreate, PlanUpdate,
         PlanDelete, Rest, history, Jobs, Awaiting, TypeOK
<1>2. Sound' /\ Counted'
  BY <1>1, CountersTyped DEF Sound, Counted
<1>3. CASE UNCHANGED tf
  <2>1. /\ pc' \in {"idle", "refresh", "plan", "create", "patch", "delete"}
        /\ pc' = "refresh" => tf # None
        /\ pc' \in {"patch", "delete"} => tf # None
        /\ pc' = "create" => tf = None
        /\ pc' = "patch" => tf.key /\ warned' = ModifyPlan(plan', tf)
        /\ pc' = "patch" => plan' = Planned(tf) /\ config # None
    BY <1>1, <1>3
       DEF Plans, StartRun, ReadOK, ReadGone, ReadFails, PlanNothing, PlanCreate, PlanUpdate,
           PlanDelete, Rest, RequiresReplace, Recorded
  <2>2. /\ plan' \in Plan \cup {None}
        /\ pc' = "patch" => (plan'.labels = Unknown => tf.labels = None)
        /\ pc' \in {"create", "patch"} => plan' # None
        /\ warned' \in SUBSET {"drain", "left", "replace"}
    BY <1>1, <1>3, <2>1, PlannedTyped
       DEF Plans, StartRun, ReadOK, ReadGone, ReadFails, PlanNothing, PlanCreate, PlanUpdate,
           PlanDelete, Rest, TypeOK, ModifyPlan
  <2>3. TypeOK'
    BY <1>1, <1>3, <2>1, <2>2, CountersTyped DEF TypeOK, Stages
  <2>4. Jobs' /\ Recorded' /\ Announced'
    BY <1>1, <1>3, <2>1, <2>2 DEF Jobs, Recorded, Announced, Awaiting
  <2> QED
    BY <1>2, <2>3, <2>4
<1>4. CASE ReadOK
  <2>1. tf \in Record /\ tf # None /\ pool \in Pool
    BY <1>4 DEF ReadOK, TypeOK, Recorded
  <2>2. tf.labels \in Labels \cup {None} /\ tf.batch \in Batches \cup {None, Conflict}
        /\ tf.key \in BOOLEAN
    BY <2>1 DEF Record
  <2>3. tf' \in Record /\ tf' # None /\ pc' = "plan" /\ UNCHANGED <<plan, warned, faults>>
    BY <1>4, <2>1, <2>2, ModelTyped DEF ReadOK
  <2>4. TypeOK'
    BY <1>1, <2>3, CountersTyped DEF TypeOK, Stages
  <2>5. Jobs' /\ Recorded' /\ Announced'
    BY <1>1, <2>3 DEF Jobs, Recorded, Announced, Awaiting
  <2> QED
    BY <1>2, <2>4, <2>5
<1>5. CASE ReadGone
  <2>1. tf' = None /\ pool = None /\ pc' = "plan" /\ UNCHANGED <<plan, warned, faults>> /\ pc = "refresh"
    BY <1>5 DEF ReadGone
  <2>2. job = None
    BY <2>1 DEF Jobs
  <2>3. TypeOK'
    BY <1>1, <2>1, CountersTyped DEF TypeOK, Stages
  <2>4. Jobs' /\ Recorded' /\ Announced'
    BY <1>1, <2>1, <2>2 DEF Jobs, Recorded, Announced, Awaiting
  <2> QED
    BY <1>2, <2>3, <2>4
<1>6. UNCHANGED tf \/ ReadOK \/ ReadGone
  BY DEF Plans, StartRun, ReadFails, PlanNothing, PlanCreate, PlanUpdate, PlanDelete
<1> QED
  BY <1>3, <1>4, <1>5, <1>6

\* Requests that start an operation the handler waits for.
LEMMA CallsBase ==
  ASSUME Base, Calls
  PROVE  Base'
<1> USE DEF Base
<1>1. PICK kind \in {"create", "patch", "delete"}, next \in Awaiting :
        /\ Call(kind, next)
        /\ pc = kind
        /\ kind = "create" <=> next = "creating"
        /\ kind = "patch" <=> next = "patching"
        /\ kind = "delete" <=> next = "deleting"
  BY DEF Calls, CreateNodePool, UpdateNodePool, DeleteNodePool, Awaiting
<1>2. kind \in {"create", "patch"} => plan \in Plan
  BY <1>1 DEF TypeOK
<1>3. /\ job' \in Job /\ job' # None /\ job'.kind = kind
      /\ kind \in {"create", "patch"} => job' = [kind |-> kind, want |-> plan]
  BY <1>1, <1>2, StartsTyped DEF Call
<1>4. /\ UNCHANGED <<pool, config, tf, plan, warned, history, faults, edits>>
      /\ op' = "IN_PROGRESS" /\ pc' = next
      /\ pool = None <=> kind = "create"
  BY <1>1 DEF Call, Accepts
<1>5. TypeOK'
  BY <1>1, <1>3, <1>4 DEF TypeOK, history, Stages, Awaiting
<1>6. Jobs'
  BY <1>1, <1>3, <1>4 DEF Jobs, Awaiting
<1>7. Recorded' /\ Announced' /\ Sound' /\ Counted'
  BY <1>1, <1>4 DEF Recorded, Announced, Sound, Counted, Awaiting, history, TypeOK
<1> QED
  BY <1>5, <1>6, <1>7

\* Requests that get an error instead of an answer, whatever has become of them.
LEMMA CallErrorsBase ==
  ASSUME Base, CallErrors
  PROVE  Base'
<1> USE DEF Base
<1>1. PICK kind \in {"create", "patch", "delete"} : CallFails(kind) /\ pc = kind
  BY DEF CallErrors, CreateFails, UpdateFails, DeleteFails
<1>2. /\ Rest /\ UNCHANGED <<pool, config, tf, disturbed, excused, edits>>
      /\ UNCHANGED faults \/ Fault
  BY <1>1 DEF CallFails
<1>3. job' \in Job \cup {None} /\ cut' \in BOOLEAN /\ orphans' \in Nat
  <2>1. kind \in {"create", "patch"} => plan \in Plan
    BY <1>1 DEF TypeOK
  <2>2. UNCHANGED job \/ Starts(kind)
    BY <1>1 DEF CallFails
  <2>3. job' \in Job \cup {None}
    BY <2>1, <2>2, StartsTyped DEF TypeOK
  <2>4. (cut' = cut \/ cut' = TRUE) /\ (orphans' = orphans \/ orphans' = orphans + 1)
    BY <1>1 DEF CallFails
  <2>5. cut' \in BOOLEAN
    BY <2>4 DEF TypeOK
  <2>6. orphans' \in Nat
    BY <2>4 DEF TypeOK
  <2> QED
    BY <2>3, <2>5, <2>6
<1>4. TypeOK'
  BY <1>2, <1>3, CountersTyped DEF TypeOK, Rest, Stages
<1>5. UNCHANGED job \/ (job'.kind = kind /\ job' # None /\ kind # "create" /\ pool # None)
  <2>1. kind = "patch" => plan \in Plan
    BY <1>1 DEF TypeOK
  <2> QED
    BY <1>1, <2>1, StartsTyped DEF CallFails, Accepts
<1>6. Jobs'
  BY <1>1, <1>2, <1>5 DEF Jobs, Rest, Awaiting
<1>7. Recorded' /\ Announced' /\ Sound'
  BY <1>1, <1>2, <1>5 DEF Recorded, Announced, Sound, Rest, TypeOK
<1>8. Counted'
  <2>1. \/ UNCHANGED <<orphans, cut>>
        \/ Fault /\ cut' = TRUE /\ (orphans' = orphans \/ orphans' = orphans + 1)
    BY <1>1 DEF CallFails
  <2> QED
    BY <1>2, <2>1, CountersTyped DEF Counted
<1> QED
  BY <1>4, <1>6, <1>7, <1>8

\* Steps of a handler between two requests, and a rotation that is not started.
LEMMA LocalsBase ==
  ASSUME Base, Locals
  PROVE  Base'
<1> USE DEF Base
<1>1. /\ UNCHANGED <<pool, job, config, tf, plan, warned, disturbed, orphans, edits, cut>>
      /\ op' = "NONE" /\ excused' \in BOOLEAN /\ (UNCHANGED faults \/ Fault)
      /\ \/ pc = "creating" /\ op = "SUCCEEDED" /\ pc' = "created"
         \/ pc = "patching" /\ op = "SUCCEEDED" /\ pc' \in {"rollout", "readback"}
              /\ (pc' = "rollout" => Rotates)
         \/ pc = "rollout" /\ pc' = "readback"
  BY DEF Locals, CreateDone, UpdateDone, RotateFails, Local, TypeOK
<1>2. TypeOK'
  BY <1>1, CountersTyped DEF TypeOK, Stages
<1>3. Jobs' /\ Recorded' /\ Announced' /\ Sound'
  BY <1>1 DEF Jobs, Recorded, Announced, Rotates, Sound, Awaiting, TypeOK
<1>4. Counted'
  BY <1>1, CountersTyped DEF Counted
<1> QED
  BY <1>2, <1>3, <1>4

\* A rotation that is started.
LEMMA RotateBase ==
  ASSUME Base, RotateNodePool
  PROVE  Base'
<1> USE DEF Base
<1>1. /\ UNCHANGED <<pool, config, tf, plan, op, warned, history, faults, edits>>
      /\ pc = "rollout" /\ pc' = "readback" /\ pool # None /\ Starts("rotate")
  BY DEF RotateNodePool, Accepts
<1>2. job' \in Job /\ job' # None /\ job'.kind = "rotate"
  BY <1>1, StartsTyped
<1>3. TypeOK'
  BY <1>1, <1>2 DEF TypeOK, Stages, history
<1>4. Jobs' /\ Recorded' /\ Announced' /\ Sound' /\ Counted'
  BY <1>1, <1>2 DEF Jobs, Recorded, Announced, Sound, Counted, Awaiting, TypeOK, history
<1> QED
  BY <1>3, <1>4

\* Steps that end a handler with a record, or without one.
LEMMA StoresBase ==
  ASSUME Base, Stores
  PROVE  Base'
<1> USE DEF Base
<1>1. /\ UNCHANGED <<pool, job, config, excused, orphans, edits>> /\ (UNCHANGED faults \/ Fault)
      /\ disturbed' \in BOOLEAN /\ cut' \in BOOLEAN /\ (cut' = cut \/ cut' = TRUE)
      /\ op' = "NONE" /\ warned' = {}
      /\ pc \in {"created", "readback"} \/ (pc = "deleting" /\ op = "SUCCEEDED")
      /\ pc = "created" => job = None
  BY DEF Stores, CreateRecords, CreateFallsBack, ReadBack, ReadBackGone, ReadBackFails,
         DeleteDone, GetFails, Rest, history, TypeOK, Jobs
<1>2. /\ tf' \in Record \cup {None}
      /\ tf' = None => pool = None /\ job = None
      /\ pc' = "idle" \/ (pc' = "create" /\ tf' = None /\ plan' # None)
      /\ plan' \in Plan \cup {None}
  <2>1. plan \in Plan \cup {None} /\ (pc \in {"created", "readback"} => plan \in Plan)
    BY DEF TypeOK
  <2>2. pc \in {"created", "readback"} =>
          plan.labels \in Labels \cup {Unknown} /\ plan.batch \in Batches \cup {None, Conflict}
    BY <2>1 DEF Plan
  <2>3. CASE CreateRecords \/ CreateFallsBack
    <3>1. pc = "created" /\ pool = Built(plan) /\ tf' = Stored /\ Rest
      BY <2>3 DEF CreateRecords, CreateFallsBack, Jobs
    <3>2. pool \in Pool
      BY <2>1, <3>1, BuiltSound
    <3>3. tf' \in Record
      BY <2>2, <3>1, <3>2 DEF Stored, nodePoolToResourceModel, OrNull, Pool, Record
    <3>4. tf' # None
      BY <3>3, RecordAssumption
    <3> QED
      BY <3>1, <3>3, <3>4 DEF Rest
  <2>4. CASE ReadBack
    <3>1. pc = "readback" /\ pool \in Pool /\ tf \in Record /\ Rest
          /\ tf' = nodePoolToResourceModel(pool, plan.labels, plan.batch, tf.key)
      BY <2>4 DEF ReadBack, TypeOK
    <3>2. tf.key \in BOOLEAN
      BY <3>1 DEF Record
    <3>3. tf' \in Record /\ tf' # None
      BY <2>1, <2>2, <3>1, <3>2, ModelTyped
    <3> QED
      BY <3>1, <3>3 DEF Rest
  <2>5. CASE ReadBackGone
    BY <2>5 DEF ReadBackGone, Rest, Jobs
  <2>6. CASE ReadBackFails
    <3>1. tf' = tf /\ tf # None /\ Rest
      BY <2>6 DEF ReadBackFails, TypeOK
    <3> QED
      BY <3>1 DEF Rest, TypeOK
  <2>7. CASE DeleteDone
    BY <2>1, <2>7 DEF DeleteDone, Jobs, Awaiting
  <2> QED
    BY <2>3, <2>4, <2>5, <2>6, <2>7 DEF Stores
<1>3. TypeOK'
  BY <1>1, <1>2, CountersTyped DEF TypeOK, Stages
<1>4. Jobs' /\ Recorded' /\ Announced' /\ Sound'
  BY <1>1, <1>2 DEF Jobs, Recorded, Announced, Sound, Awaiting
<1>5. Counted'
  BY <1>1, CountersTyped DEF Counted
<1> QED
  BY <1>3, <1>4, <1>5

\* A provider that loses sight of an operation: it fails, its poll does, or the
\* provider is killed.
LEMMA LossBase ==
  ASSUME Base, AwaitFails \/ Killed
  PROVE  Base'
<1> USE DEF Base
<1>1. UNCHANGED <<config, tf, excused, edits>> /\ Rest /\ pc \notin {"idle", "refresh", "plan"}
  BY DEF AwaitFails, Killed, LosesSight, Awaiting
<1>2. CASE pc \in Awaiting /\ op = "FAILED" /\ UNCHANGED <<pool, job, disturbed, cut, orphans, faults>>
  <2>1. job = None /\ (pc = "creating" => pool = None)
    BY <1>2 DEF Jobs
  <2>2. TypeOK'
    BY <1>1, <1>2 DEF TypeOK, Rest, Stages
  <2>3. Jobs' /\ Recorded' /\ Announced' /\ Sound' /\ Counted'
    BY <1>1, <1>2, <2>1 DEF Jobs, Recorded, Announced, Sound, Counted, Rest, Awaiting
  <2> QED
    BY <2>2, <2>3
<1>3. CASE Fault /\ LosesSight
  <2>1. cut' = TRUE /\ faults' = faults + 1 /\ faults \in Nat /\ orphans \in Nat
        /\ faults' \in 0..MaxFaults
    BY <1>3, CountersTyped DEF LosesSight
  <2>2. CASE pc \in {"creating", "created"}
    <3>1. orphans' = orphans + 1 /\ pool' = None /\ job' = None /\ UNCHANGED disturbed
      BY <1>3, <2>2 DEF LosesSight
    <3>2. TypeOK'
      BY <1>1, <2>1, <3>1 DEF TypeOK, Rest, Stages
    <3>3. Jobs' /\ Recorded' /\ Announced' /\ Sound' /\ Counted'
      BY <1>1, <2>1, <3>1 DEF Jobs, Recorded, Announced, Sound, Counted, Rest, Awaiting
    <3> QED
      BY <3>2, <3>3
  <2>3. CASE pc \notin {"creating", "created"}
    <3>1. disturbed' = TRUE /\ UNCHANGED <<pool, job, orphans>>
      BY <1>3, <2>3 DEF LosesSight
    <3>2. TypeOK'
      BY <1>1, <2>1, <3>1 DEF TypeOK, Rest, Stages
    <3>3. Jobs' /\ Recorded' /\ Announced' /\ Sound' /\ Counted'
      BY <1>1, <2>1, <2>3, <3>1
         DEF Jobs, Recorded, Announced, Sound, Counted, Rest, Awaiting
    <3> QED
      BY <3>2, <3>3
  <2> QED
    BY <2>2, <2>3
<1> QED
  BY <1>2, <1>3 DEF AwaitFails, Killed

\* An operation ends, well or badly.
LEMMA APIBase ==
  ASSUME Base, API
  PROVE  Base'
<1> USE DEF Base
<1>1. /\ job # None /\ job' = None
      /\ UNCHANGED <<config, tf, pc, plan, warned, cut, orphans, edits>>
      /\ UNCHANGED faults \/ Fault
  BY DEF API, OperationSucceeds, OperationFails
<1>2. /\ pc \in Awaiting => op = "IN_PROGRESS"
      /\ pc \notin Awaiting => op = "NONE"
      /\ pc \notin {"created", "rollout"}
      /\ tf # None \/ pc = "creating"
      /\ job.kind = "create" => pc = "creating"
  BY <1>1 DEF Jobs, Recorded
<1>3. Announced' /\ Counted'
  BY <1>1, <1>2, CountersTyped DEF Announced, Rotates, Counted
<1>4. Recorded'
  BY <1>1, <1>2 DEF Recorded
<1>5. CASE OperationSucceeds
  <2>1. /\ pool' = Effect /\ op' = IF Polled THEN "SUCCEEDED" ELSE op
        /\ disturbed' \in BOOLEAN /\ UNCHANGED <<faults, excused>>
    BY <1>5 DEF OperationSucceeds, TypeOK
  <2>2. TypeOK' /\ Sound'
    BY <1>1, <2>1, EffectSound DEF TypeOK, Sound
  <2>3. pc = "creating" => Effect = Built(plan)
    BY <1>1, <1>2, EffectSound DEF Jobs, Awaiting
  <2>4. pc = "deleting" => Effect = None
    BY <1>1, <1>2, EffectSound DEF Jobs, Awaiting
  <2>5. Jobs'
    <3>1. pc \in Awaiting => op' = "SUCCEEDED"
      BY <1>2, <2>1 DEF Polled
    <3>2. pc \notin Awaiting => op' = "NONE"
      BY <1>2, <2>1 DEF Polled
    <3> QED
      BY <1>1, <1>2, <2>1, <2>3, <2>4, <3>1, <3>2 DEF Jobs, Awaiting
  <2> QED
    BY <1>3, <1>4, <2>2, <2>5
<1>6. CASE OperationFails
  <2>1. /\ op' = IF Polled THEN "FAILED" ELSE op
        /\ excused' \in BOOLEAN /\ UNCHANGED <<pool, disturbed>> /\ Fault
    BY <1>6 DEF OperationFails, TypeOK
  <2>2. TypeOK' /\ Sound'
    BY <1>1, <2>1, CountersTyped DEF TypeOK, Sound
  <2>3. pc = "creating" => pool = None
    BY <1>2 DEF Jobs, Awaiting
  <2>4. Jobs'
    BY <1>1, <1>2, <2>1, <2>3 DEF Jobs, Polled, Awaiting
  <2> QED
    BY <1>3, <1>4, <2>2, <2>4
<1> QED
  BY <1>5, <1>6 DEF API

\* Changes of the configuration, imports, and what somebody else does to the pool.
LEMMA OthersBase ==
  ASSUME Base, Others
  PROVE  Base'
<1> USE DEF Base
<1>1. UNCHANGED <<job, handler, cut, orphans, faults>> /\ Edit
  BY DEF Others, ChangeConfig, ImportState, Console, history
<1>2. Counted'
  BY <1>1 DEF Counted
<1>3. CASE ChangeConfig
  <2>1. UNCHANGED <<pool, tf, history>> /\ config' \in Config \cup {None}
    BY <1>3 DEF ChangeConfig
  <2>2. TypeOK'
    BY <1>1, <2>1, CountersTyped DEF TypeOK, handler, history
  <2>3. Jobs' /\ Recorded' /\ Announced' /\ Sound'
    BY <1>1, <2>1 DEF Jobs, Recorded, Announced, Rotates, Sound, handler
  <2> QED
    BY <1>2, <2>2, <2>3
<1>4. CASE ImportState
  <2>1. /\ pc = "idle" /\ tf = None /\ config \in Config /\ pool' = Built(config)
        /\ tf' = nodePoolToResourceModel(pool', None, None, FALSE)
        /\ disturbed' = FALSE /\ UNCHANGED <<config, excused>>
    BY <1>4 DEF ImportState, TypeOK
  <2>2. pool' \in Pool /\ pool' # None /\ pool'.nodes >= 1 /\ pool'.nodes = pool'.count
    BY <2>1, BuiltSound
  <2>3. tf' \in Record
    BY <2>1, <2>2 DEF nodePoolToResourceModel, OrNull, Pool, Record
  <2>4. tf' # None
    BY <2>3, RecordAssumption
  <2>5. job = None
    BY <2>1 DEF Recorded
  <2>6. TypeOK'
    BY <1>1, <2>1, <2>2, <2>3, CountersTyped DEF TypeOK, handler
  <2>7. Jobs' /\ Recorded' /\ Announced' /\ Sound'
    BY <1>1, <2>1, <2>2, <2>4, <2>5 DEF Jobs, Recorded, Announced, Sound, handler
  <2> QED
    BY <1>2, <2>6, <2>7
<1>5. CASE Console
  <2>1. /\ tf # None /\ pool \in Pool /\ pool # None /\ job = None /\ UNCHANGED <<config, tf>>
        /\ disturbed' = TRUE /\ excused' = TRUE
    BY <1>5 DEF Console, Accepts, TypeOK
  <2>2. pool' \in Pool \cup {None} /\ Sound'
    <3>1. CASE pool' = None
      BY <3>1 DEF Sound
    <3>2. ASSUME NEW n \in 1..MaxCount, NEW v \in Versions,
                 pool' = Patched(pool, [pool EXCEPT !.count = n, !.version = v])
          PROVE  pool' \in Pool \cup {None} /\ Sound'
      <4> DEFINE want == [pool EXCEPT !.count = n, !.version = v]
      <4>1. /\ want.count = n /\ want.version = v /\ want.labels = pool.labels
            /\ want.drain = pool.drain
            /\ pool.labels \in Labels \cup {None} /\ pool.drain \in BOOLEAN
        BY <2>1 DEF Pool
      <4>2. pool.nodes >= 1 /\ (pool.drain => pool.nodes = pool.count)
        BY <2>1 DEF Sound
      <4>3. pool' = Patched(pool, want)
        BY <3>2
      <4> HIDE DEF want
      <4>4. /\ pool' \in Pool /\ pool'.nodes >= 1 /\ pool'.count = want.count
            /\ pool'.drain = want.drain /\ (want.drain => pool'.nodes = want.count)
        BY <2>1, <4>1, <4>2, <4>3, PatchedSound
      <4> QED
        BY <4>4 DEF Sound
    <3> QED
      BY <1>5, <3>1, <3>2 DEF Console
  <2>3. TypeOK'
    BY <1>1, <2>1, <2>2, CountersTyped DEF TypeOK, handler
  <2>4. Jobs' /\ Recorded' /\ Announced'
    BY <1>1, <2>1 DEF Jobs, Recorded, Announced, Rotates, handler, TypeOK
  <2> QED
    BY <1>2, <2>2, <2>3, <2>4
<1> QED
  BY <1>3, <1>4, <1>5 DEF Others

\* Nothing is there at first.
LEMMA InitBase ==
  ASSUME Init
  PROVE  Base
<1>1. 0 \in 0..MaxFaults /\ 0 \in 0..MaxEdits
  BY NodePoolAssumption
<1>2. TypeOK
  BY <1>1 DEF Init, TypeOK, Stages
<1> QED
  BY <1>2 DEF Init, Base, Jobs, Recorded, Announced, Sound, Counted, Awaiting

\* Every step keeps the base of the invariant.
LEMMA StepBase ==
  ASSUME Base, [Next]_vars
  PROVE  Base'
<1>1. CASE UNCHANGED vars
  BY <1>1 DEF Base, TypeOK, Jobs, Recorded, Announced, Rotates, Sound, Counted, vars, handler,
              history
<1>2. CASE Next
  <2>1. Plans \/ Calls \/ CallErrors \/ Locals \/ RotateNodePool \/ Stores
          \/ AwaitFails \/ Killed \/ API \/ Others
    BY <1>2 DEF Next, Handler, Plans, Calls, CallErrors, Locals, Stores, Others
  <2> QED
    BY <2>1, PlansBase, CallsBase, CallErrorsBase, LocalsBase, RotateBase, StoresBase, LossBase,
       APIBase, OthersBase
<1> QED
  BY <1>1, <1>2

-----------------------------------------------------------------------------
(* The record tracks the pool.                                             *)

\* A record just made of the pool is true.
LEMMA StoresTracked ==
  ASSUME Base, Stores
  PROVE  Tracked'
<1>1. CASE CreateRecords \/ CreateFallsBack
  <2>1. pool = Built(plan) /\ plan \in Plan /\ tf' = Stored /\ UNCHANGED pool
    BY <1>1 DEF CreateRecords, CreateFallsBack, Base, Jobs, TypeOK
  <2> QED
    BY <2>1, BuiltSound DEF Stored, nodePoolToResourceModel, Tracked, Matches
<1>2. CASE ReadBack
  BY <1>2 DEF ReadBack, nodePoolToResourceModel, Tracked, Matches
<1>3. CASE ReadBackGone \/ DeleteDone
  BY <1>3 DEF ReadBackGone, DeleteDone, Tracked
<1>4. CASE ReadBackFails
  BY <1>4 DEF ReadBackFails, Tracked
<1> QED
  BY <1>1, <1>2, <1>3, <1>4 DEF Stores

\* A finished operation that nobody awaits leaves a mark, but a rotation, which
\* changes nothing the record shows.
LEMMA APITracked ==
  ASSUME Base, Tracked, API
  PROVE  Tracked'
<1>1. job # None /\ UNCHANGED <<tf, pc>>
  BY DEF API, OperationSucceeds, OperationFails
<1>2. pc \in Awaiting <=> Polled
  BY <1>1 DEF Base, Jobs, Polled
<1>3. CASE OperationSucceeds /\ Polled
  <2>1. op' = "SUCCEEDED"
    BY <1>3 DEF OperationSucceeds
  <2>2. pc = "creating" => tf = None
    BY DEF Base, TypeOK
  <2> QED
    BY <1>1, <1>2, <1>3, <2>1, <2>2 DEF Tracked, Unpatched, Awaiting
<1>4. CASE OperationSucceeds /\ ~Polled
  <2>1. op' = op /\ pool' = Effect /\ disturbed' = (disturbed \/ job.kind # "rotate")
    BY <1>4 DEF OperationSucceeds
  <2>2. SUFFICES ASSUME tf' # None, ~disturbed', Unpatched'
                 PROVE  Matches'
    BY DEF Tracked
  <2>3. job.kind = "rotate" /\ Matches
    BY <1>1, <2>1, <2>2 DEF Tracked, Unpatched
  <2>4. pool \in Pool /\ pool' \in Pool /\ pool' # None /\ pool' = [pool EXCEPT !.stale = 0]
    BY <1>1, <2>1, <2>3, EffectSound
  <2>5. pool'.count = pool.count /\ pool'.version = pool.version /\ pool'.drain = pool.drain
    BY <2>4 DEF Pool
  <2> QED
    BY <1>1, <2>3, <2>4, <2>5 DEF Matches
<1>5. CASE OperationFails
  <2>1. /\ UNCHANGED <<pool, disturbed>>
        /\ op' = IF Polled THEN "FAILED" ELSE op
    BY <1>5 DEF OperationFails
  <2> QED
    BY <1>1, <2>1 DEF Tracked, Matches, Unpatched, Polled
<1> QED
  BY <1>3, <1>4, <1>5 DEF API

\* Every step keeps the record true, or marks the difference.
LEMMA StepTracked ==
  ASSUME Base, Tracked, [Next]_vars
  PROVE  Tracked'
<1>1. CASE UNCHANGED vars
  BY <1>1 DEF vars, handler, history, Tracked, Unpatched, Matches
<1>2. CASE ReadOK
  BY <1>2 DEF ReadOK, nodePoolToResourceModel, Tracked, Matches
<1>3. CASE ReadGone
  BY <1>3 DEF ReadGone, Tracked
<1>4. CASE StartRun \/ ReadFails \/ PlanNothing \/ PlanCreate \/ PlanUpdate \/ PlanDelete
  <2>1. UNCHANGED <<pool, tf, disturbed>> /\ pc \in {"idle", "refresh", "plan"}
    BY <1>4 DEF StartRun, ReadFails, PlanNothing, PlanCreate, PlanUpdate, PlanDelete, history
  <2> QED
    BY <2>1 DEF Tracked, Unpatched, Matches
<1>5. CASE Calls
  <2>1. UNCHANGED <<pool, tf, disturbed>> /\ pc \in {"create", "patch", "delete"}
    BY <1>5 DEF Calls, CreateNodePool, UpdateNodePool, DeleteNodePool, Call, history
  <2> QED
    BY <2>1 DEF Tracked, Unpatched, Matches
<1>6. CASE CallErrors
  <2>1. UNCHANGED <<pool, tf, disturbed>> /\ pc \in {"create", "patch", "delete"}
    BY <1>6 DEF CallErrors, CreateFails, UpdateFails, DeleteFails, CallFails
  <2> QED
    BY <2>1 DEF Tracked, Unpatched, Matches
<1>7. CASE CreateDone
  <2>1. tf' = tf /\ pc = "creating"
    BY <1>7 DEF CreateDone, Local
  <2> QED
    BY <2>1 DEF Base, TypeOK, Tracked
<1>8. CASE UpdateDone \/ RotateFails \/ RotateNodePool
  BY <1>8 DEF UpdateDone, RotateFails, RotateNodePool, Local, Tracked, Unpatched
<1>9. CASE Stores
  BY <1>9, StoresTracked
<1>10. CASE AwaitFails \/ Killed
  <2>1. tf' = tf
    BY <1>10 DEF AwaitFails, Killed
  <2>2. CASE pc \in Awaiting /\ op = "FAILED" /\ UNCHANGED <<pool, disturbed>>
    BY <2>1, <2>2 DEF Tracked, Unpatched, Matches, Awaiting
  <2>3. CASE LosesSight
    <3>1. pc \in {"creating", "created"} => tf = None
      BY DEF Base, TypeOK
    <3> QED
      BY <2>1, <2>3, <3>1 DEF LosesSight, Tracked
  <2> QED
    BY <1>10, <2>2, <2>3 DEF AwaitFails, Killed
<1>11. CASE API
  BY <1>11, APITracked
<1>12. CASE ChangeConfig
  <2>1. UNCHANGED <<pool, tf, disturbed>> /\ pc = "idle"
    BY <1>12 DEF ChangeConfig, history
  <2> QED
    BY <2>1 DEF Tracked, Unpatched, Matches
<1>13. CASE ImportState
  <2>1. pool' = Built(config) /\ config \in Config
        /\ tf' = nodePoolToResourceModel(pool', None, None, FALSE)
    BY <1>13 DEF ImportState, Base, TypeOK
  <2>2. pool' # None
    BY <2>1, BuiltSound
  <2> QED
    BY <2>1, <2>2 DEF nodePoolToResourceModel, Tracked, Matches
<1>14. CASE Console
  BY <1>14 DEF Console, Tracked
<1> QED
  BY <1>1, <1>2, <1>3, <1>4, <1>5, <1>6, <1>7, <1>8, <1>9, <1>10, <1>11, <1>12, <1>13, <1>14
     DEF Next, Handler, Calls, CallErrors, Stores

-----------------------------------------------------------------------------
(* No node stays behind.                                                   *)

\* A record just made shows labels and batch as planned, and the pool has no
\* stale nodes, or no batch to rotate them in, or is being rotated.
LEMMA StoresFollowed ==
  ASSUME Base, Followed, Stores, ~cut', ~excused'
  PROVE  Followed'
<1>1. UNCHANGED <<pool, job>> /\ ~cut /\ ~excused
  BY DEF Stores, CreateRecords, CreateFallsBack, ReadBack, ReadBackGone, ReadBackFails,
         DeleteDone, Rest, history, TypeOK, Base
<1>2. CASE CreateRecords \/ CreateFallsBack
  <2>1. /\ pc = "created" /\ pool = Built(plan) /\ plan \in Plan /\ tf' = Stored /\ Rest
        /\ disturbed' = disturbed /\ job = None
    BY <1>2 DEF CreateRecords, CreateFallsBack, Base, Jobs, TypeOK, history
  <2>2. pool.stale = 0 /\ pool.labels = OrNull(plan.labels)
    BY <2>1, BuiltSound
  <2>3. tf'.labels = OrNull(plan.labels)
    BY <2>1 DEF Stored, nodePoolToResourceModel
  <2> QED
    BY <1>1, <2>1, <2>2, <2>3 DEF Followed, Rest, Rotated
<1>3. CASE ReadBack
  <2>1. /\ pc = "readback" /\ Rest /\ disturbed' = disturbed
        /\ tf' = nodePoolToResourceModel(pool, plan.labels, plan.batch, tf.key)
    BY <1>3 DEF ReadBack, history
  <2>2. tf'.labels = OrNull(plan.labels) /\ tf'.batch = plan.batch
    BY <2>1 DEF nodePoolToResourceModel
  <2>3. ~disturbed /\ pool.labels = OrNull(plan.labels) /\ (Rotated \/ plan.batch = None)
        /\ (job # None => job.kind = "rotate")
    BY <1>1, <2>1 DEF Followed, Awaiting
  <2> QED
    BY <1>1, <2>1, <2>2, <2>3 DEF Followed, Rest, Rotated
<1>4. CASE ReadBackGone
  BY <1>1, <1>4 DEF ReadBackGone, Followed, Rest, Awaiting
<1>5. CASE ReadBackFails
  BY <1>5 DEF ReadBackFails
<1>6. CASE DeleteDone
  <2>1. job = None /\ tf' = None /\ disturbed' = FALSE /\ pc' \in {"idle", "create"}
    BY <1>6 DEF DeleteDone, Base, Jobs, Awaiting
  <2> QED
    BY <1>1, <2>1 DEF Followed
<1> QED
  BY <1>2, <1>3, <1>4, <1>5, <1>6 DEF Stores

\* A patch that is done leaves stale nodes behind if it changes what nodes are
\* made of, and only then; the handler finds out by comparing plan and record.
LEMMA PatchFollowed ==
  ASSUME Base, Tracked, Followed, ~cut, ~excused, pc = "patching", OperationSucceeds
  PROVE  /\ pool' # None /\ pool'.labels = OrNull(plan.labels)
         /\ Rotates => (pool'.stale > 0 \/ plan.batch # tf.batch \/ plan.labels = Unknown)
         /\ ~Rotates => (pool'.stale = 0 \/ plan.batch = None)
<1>1. /\ job # None /\ op = "IN_PROGRESS" /\ tf # None /\ plan \in Plan /\ tf.key
      /\ job = [kind |-> "patch", want |-> plan] /\ pool' = Effect
  BY DEF OperationSucceeds, Base, Jobs, Awaiting, TypeOK, Announced
<1>2. job.kind = "patch" /\ job.want = plan
  BY <1>1
<1>3. pool \in Pool /\ pool # None /\ pool' = Patched(pool, plan)
  BY <1>1, <1>2, EffectSound
<1>4. /\ pool.nodes >= 1 /\ (pool.drain => pool.nodes = pool.count)
      /\ plan.count \in 1..MaxCount /\ plan.version \in Versions
      /\ plan.labels \in Labels \cup {Unknown} /\ plan.drain \in BOOLEAN
  BY <1>1, <1>3 DEF Base, Sound, Plan
<1>5. tf.version = pool.version
  BY <1>1 DEF Tracked, Unpatched, Matches, Followed
<1>6. tf.labels = pool.labels /\ (pool.stale = 0 \/ tf.batch = None)
  BY <1>1, <1>2, <1>3 DEF Followed, Unpatched, Rotated
<1>7. (IF OrNull(plan.labels) = None THEN pool.labels ELSE plan.labels) = OrNull(plan.labels)
  BY <1>4, <1>6, NodePoolAssumption DEF OrNull, Base, Announced
<1>8. /\ pool' # None /\ pool'.labels = OrNull(plan.labels)
      /\ (pool.version = plan.version /\ pool.labels = OrNull(plan.labels) /\ pool.stale = 0) =>
           pool'.stale = 0
      /\ (pool.version # plan.version \/ pool.labels # OrNull(plan.labels)) => pool'.stale > 0
  BY <1>3, <1>4, <1>7, PatchedSound
<1>9. plan.labels # tf.labels \/ (plan.labels # Unknown /\ OrNull(plan.labels) = tf.labels)
  BY <1>1, <1>4, NodePoolAssumption DEF OrNull, Base, Announced
<1>10. plan.labels # Unknown => OrNull(plan.labels) = plan.labels
  BY DEF OrNull
<1>11. Rotates => (pool'.stale > 0 \/ plan.batch # tf.batch \/ plan.labels = Unknown)
  BY <1>5, <1>6, <1>8, <1>10 DEF Rotates, nodePoolNeedsRollout
<1>12. ~Rotates => (pool'.stale = 0 \/ plan.batch = None)
  BY <1>5, <1>6, <1>8, <1>9 DEF Rotates, nodePoolNeedsRollout
<1> QED
  BY <1>8, <1>11, <1>12

\* The end of an operation.
LEMMA APIFollowed ==
  ASSUME Base, Tracked, Followed, API, ~cut', ~excused'
  PROVE  Followed'
<1>1. /\ job # None /\ job' = None /\ UNCHANGED <<tf, pc, plan>> /\ ~cut /\ ~excused
      /\ tf # None \/ pc = "creating"
  BY DEF API, OperationSucceeds, OperationFails, Base, Recorded, TypeOK, Jobs
<1>2. /\ pc \in Awaiting <=> Polled
      /\ pc \notin {"created", "rollout"}
      /\ pc = "creating" => tf = None
      /\ ~disturbed
      /\ pc \notin Awaiting => job.kind = "rotate"
  BY <1>1 DEF Base, Jobs, Polled, TypeOK, Followed
<1>3. CASE OperationSucceeds /\ Polled
  <2>1. op' = "SUCCEEDED" /\ ~disturbed'
    BY <1>2, <1>3 DEF OperationSucceeds, Base, TypeOK
  <2>2. pc = "patching" => /\ pool' # None /\ pool'.labels = OrNull(plan.labels)
                           /\ Rotates => (pool'.stale > 0 \/ plan.batch # tf.batch
                                             \/ plan.labels = Unknown)
                           /\ ~Rotates => (pool'.stale = 0 \/ plan.batch = None)
    BY <1>1, <1>3, PatchFollowed
  <2>3. (tf' # None /\ Unpatched') => FALSE
    BY <1>1, <1>2, <1>3, <2>1 DEF Unpatched, Awaiting
  <2>4. Rotates' <=> Rotates
    BY <1>1 DEF Rotates
  <2> QED
    BY <1>1, <1>2, <1>3, <2>1, <2>2, <2>3, <2>4 DEF Followed, Awaiting
<1>4. CASE OperationSucceeds /\ ~Polled
  <2>1. op' = op /\ pool' = Effect /\ ~disturbed' /\ job.kind = "rotate"
    BY <1>2, <1>4 DEF OperationSucceeds
  <2>2. pool \in Pool /\ pool # None /\ pool' # None /\ pool' = [pool EXCEPT !.stale = 0]
    BY <1>1, <2>1, EffectSound
  <2>3. pool'.stale = 0 /\ pool'.labels = pool.labels
    BY <2>2 DEF Pool
  <2>4. (tf # None /\ Unpatched /\ tf.key) => tf.labels = pool.labels
    BY <1>1 DEF Followed
  <2>5. pc = "readback" => pool.labels = OrNull(plan.labels)
    BY <1>1 DEF Followed
  <2>6. Rotated' /\ (Unpatched' <=> Unpatched)
    BY <1>1, <2>1, <2>3 DEF Rotated, Unpatched
  <2> QED
    BY <1>1, <1>2, <1>4, <2>1, <2>2, <2>3, <2>4, <2>5, <2>6 DEF Followed, Awaiting
<1>5. CASE OperationFails
  <2>1. /\ UNCHANGED <<pool, disturbed>> /\ job.kind # "rotate"
        /\ op' = IF Polled THEN "FAILED" ELSE op
    BY <1>1, <1>5 DEF OperationFails, Base, TypeOK
  <2>2. pc \in Awaiting /\ op = "IN_PROGRESS" /\ op' = "FAILED"
    BY <1>2, <2>1 DEF Polled
  <2>3. tf # None => /\ pool.stale = 0 \/ pool = None \/ tf.batch = None
                     /\ tf.key => tf.labels = pool.labels
    BY <1>1, <2>1, <2>2 DEF Followed, Unpatched, Rotated, Awaiting
  <2> QED
    BY <1>1, <1>2, <2>1, <2>2, <2>3 DEF Followed, Rotated, Awaiting
<1> QED
  BY <1>3, <1>4, <1>5 DEF API

\* Every step keeps nodes from being left behind, or somebody is to blame.
LEMMA StepFollowed ==
  ASSUME Base, Tracked, Followed, [Next]_vars
  PROVE  Followed'
<1>1. SUFFICES ASSUME ~cut', ~excused'
               PROVE  Followed'
  BY DEF Followed
<1>2. CASE UNCHANGED vars
  BY <1>2 DEF vars, handler, history, Followed, Unpatched, Rotated, Rotates
<1>3. CASE ReadOK
  <2>1. /\ UNCHANGED <<pool, job, cut, excused>> /\ disturbed' = FALSE /\ tf # None
        /\ pc = "refresh" /\ pc' = "plan"
        /\ tf' = nodePoolToResourceModel(pool, tf.labels, tf.batch, tf.key)
    BY <1>3 DEF ReadOK, Base, Recorded
  <2>2. tf'.labels = tf.labels /\ tf'.batch = tf.batch /\ tf'.key = tf.key
    <3>1. tf \in Record
      BY <2>1 DEF Base, TypeOK
    <3> QED
      BY <2>1, <3>1, NodePoolAssumption DEF nodePoolToResourceModel, OrNull, Record
  <2> QED
    BY <1>1, <2>1, <2>2 DEF Followed, Unpatched, Rotated, Awaiting
<1>4. CASE ReadGone
  BY <1>1, <1>4 DEF ReadGone, Followed, Awaiting
<1>5. CASE StartRun \/ ReadFails \/ PlanNothing \/ PlanCreate \/ PlanUpdate \/ PlanDelete
  <2>1. /\ UNCHANGED <<pool, job, tf, disturbed, cut, excused>>
        /\ pc \in {"idle", "refresh", "plan"}
        /\ pc' \in {"idle", "refresh", "plan", "create", "patch", "delete"}
    BY <1>5 DEF StartRun, ReadFails, PlanNothing, PlanCreate, PlanUpdate, PlanDelete, Rest, history
  <2> QED
    BY <1>1, <2>1 DEF Followed, Unpatched, Rotated, Awaiting
<1>6. CASE Calls
  <2>1. /\ UNCHANGED <<pool, tf, disturbed, cut, excused>> /\ op' = "IN_PROGRESS"
        /\ pc \in {"create", "patch", "delete"} /\ pc' \in Awaiting
        /\ job = None /\ (pc # "create" => pool # None)
    BY <1>6 DEF Calls, CreateNodePool, UpdateNodePool, DeleteNodePool, Call, Accepts, history,
                Awaiting
  <2>2. pc = "create" => tf = None
    BY DEF Base, TypeOK
  <2>3. (tf # None) => pool.stale = 0 \/ tf.batch = None
    BY <1>1, <2>1, <2>2 DEF Followed, Unpatched, Rotated
  <2> QED
    BY <1>1, <2>1, <2>2, <2>3 DEF Followed, Unpatched, Rotated, Awaiting
<1>7. CASE CallErrors
  <2>1. /\ UNCHANGED <<pool, tf, disturbed, excused, job, cut>>
        /\ pc \in {"create", "patch", "delete"} /\ Rest
    BY <1>1, <1>7 DEF CallErrors, CreateFails, UpdateFails, DeleteFails, CallFails
  <2> QED
    BY <1>1, <2>1 DEF Followed, Unpatched, Rotated, Rest, Awaiting
<1>8. CASE CreateDone
  <2>1. /\ UNCHANGED <<pool, tf, disturbed, excused, job, cut>> /\ pc' = "created"
        /\ tf = None /\ job = None
    BY <1>8 DEF CreateDone, Local, Base, Jobs, TypeOK, Awaiting
  <2> QED
    BY <1>1, <2>1 DEF Followed
<1>9. CASE UpdateDone
  <2>1. /\ UNCHANGED <<pool, tf, plan, disturbed, excused, job, cut>> /\ job = None
        /\ pc = "patching" /\ op = "SUCCEEDED" /\ op' = "NONE"
        /\ pc' = IF Rotates THEN "rollout" ELSE "readback"
    BY <1>9 DEF UpdateDone, Local, Base, Jobs, Awaiting
  <2> QED
    BY <1>1, <2>1 DEF Followed, Unpatched, Rotated, Rotates
<1>10. CASE RotateFails
  BY <1>1, <1>10 DEF RotateFails
<1>11. CASE RotateNodePool
  <2>1. /\ UNCHANGED <<pool, tf, plan, disturbed, excused, cut>>
        /\ pc = "rollout" /\ pc' = "readback" /\ pool # None /\ Starts("rotate")
    BY <1>11 DEF RotateNodePool, Accepts, history
  <2>2. job' # None /\ job'.kind = "rotate"
    BY <2>1, StartsTyped
  <2> QED
    BY <1>1, <2>1, <2>2 DEF Followed, Unpatched, Rotated
<1>12. CASE Stores
  BY <1>1, <1>12, StoresFollowed
<1>13. CASE AwaitFails \/ Killed
  <2>1. /\ UNCHANGED <<pool, job, disturbed, cut, tf, excused>> /\ Rest
        /\ pc \in Awaiting /\ op = "FAILED"
    BY <1>1, <1>13 DEF AwaitFails, Killed, LosesSight
  <2>2. job = None
    BY <2>1 DEF Base, Jobs
  <2> QED
    BY <1>1, <2>1, <2>2 DEF Followed, Unpatched, Rotated, Rest, Awaiting
<1>14. CASE API
  BY <1>1, <1>14, APIFollowed
<1>15. CASE ChangeConfig
  BY <1>1, <1>15 DEF ChangeConfig, handler, history, Followed, Unpatched, Rotated, Rotates
<1>16. CASE ImportState
  <2>1. /\ pool' = Built(config) /\ config \in Config /\ job' = None /\ pc = "idle" /\ pc' = "idle"
        /\ tf' = nodePoolToResourceModel(pool', None, None, FALSE) /\ disturbed' = FALSE
    BY <1>16 DEF ImportState, Base, TypeOK, Recorded, handler
  <2>2. pool'.stale = 0
    BY <2>1, BuiltSound
  <2>3. tf'.key = FALSE
    BY <2>1 DEF nodePoolToResourceModel
  <2> QED
    BY <2>1, <2>2, <2>3 DEF Followed, Rotated
<1>17. CASE Console
  BY <1>1, <1>17 DEF Console
<1> QED
  BY <1>2, <1>3, <1>4, <1>5, <1>6, <1>7, <1>8, <1>9, <1>10, <1>11, <1>12, <1>13, <1>14, <1>15,
     <1>16, <1>17
     DEF Next, Handler, Calls, CallErrors, Stores

-----------------------------------------------------------------------------
(* The theorems.                                                           *)

\* The invariant holds from the beginning and at every step.
LEMMA Invariance == Spec => []Inv
<1>1. Init => Inv
  <2>1. Init => Base
    BY InitBase
  <2>2. Init => Tracked /\ Followed
    BY DEF Init, Tracked, Followed, Awaiting
  <2> QED
    BY <2>1, <2>2 DEF Inv
<1>2. Inv /\ [Next]_vars => Inv'
  BY StepBase, StepTracked, StepFollowed DEF Inv
<1> QED
  BY <1>1, <1>2, PTL DEF Spec

\* Every reachable state has the types of TypeOK, for any counts and batches.
THEOREM TypeCorrect == Spec => []TypeOK
<1>1. Inv => TypeOK
  BY DEF Inv, Base
<1> QED
  BY <1>1, Invariance, PTL

\* Between runs the record of a pool shows the pool there is, unless it changed
\* behind the provider's back or a reading back failed.
THEOREM RecordIsTrue == Spec => []RecordTracksPool
<1>1. Inv => RecordTracksPool
  BY DEF Inv, Tracked, Unpatched, Matches, RecordTracksPool
<1> QED
  BY <1>1, Invariance, PTL

\* A pool without a record is paid for by a fault that cut off a creation:
\* no other error, no killed run and no refresh makes one.
THEOREM OrphansAccounted == Spec => []OrphansNeedCuts
<1>1. Inv => OrphansNeedCuts
  <2>1. Base => Unrecorded = 0
    BY DEF Base, Recorded, Unrecorded
  <2>2. Base => orphans \in Nat /\ faults \in Nat /\ orphans <= faults /\ (orphans # 0 => cut)
    BY NodePoolAssumption DEF Base, TypeOK, Counted
  <2>3. Base => OrphansNeedCuts
    BY <2>1, <2>2 DEF OrphansNeedCuts
  <2> QED
    BY <2>3 DEF Inv
<1> QED
  BY <1>1, Invariance, PTL

\* With a batch configured no node is left behind, whatever was planned,
\* refreshed and read back in between, if the provider missed nothing.
THEOREM NodesAreRotated == Spec => []NodesFollow
<1>1. Inv => NodesFollow
  <2>1. ASSUME Inv, AsConfigured, config.batch # None, ~cut, ~excused
        PROVE  Rotated
    <3>1. tf # None /\ Unpatched /\ tf.batch = config.batch
      BY <2>1 DEF AsConfigured, Agrees, Unpatched
    <3> QED
      BY <2>1, <3>1 DEF Inv, Followed
  <2> QED
    BY <2>1 DEF NodesFollow
<1> QED
  BY <1>1, Invariance, PTL

\* A rotation has a cause: stale nodes, another batch, labels that are left out and
\* null, or a record that an earlier run or somebody else left behind.
THEOREM RotationsHaveCauses == Spec => RotatesForCause
<1>1. Inv /\ [Next]_vars => (StartsRotation => HasCause \/ plan.labels = Unknown)
  BY DEF StartsRotation, HasCause, Inv, Base, Announced, Followed
<1> QED
  BY <1>1, Invariance, PTL DEF Spec, RotatesForCause

\* An update that takes nodes away was announced to do so.
LEMMA DrainAnnounced ==
  ASSUME Inv, OperationSucceeds, pc = "patching", pool'.nodes < pool.nodes
  PROVE  "drain" \in warned \/ (plan.drain /\ ~tf.drain) \/ disturbed
<1>1. /\ job # None /\ op = "IN_PROGRESS" /\ tf # None /\ plan \in Plan
      /\ job = [kind |-> "patch", want |-> plan] /\ pool' = Effect
      /\ warned = ModifyPlan(plan, tf)
  BY DEF OperationSucceeds, Inv, Base, Jobs, Awaiting, TypeOK, Announced
<1>2. job.kind = "patch" /\ job.want = plan
  BY <1>1
<1>3. pool \in Pool /\ pool # None /\ pool' = Patched(pool, plan)
  BY <1>1, <1>2, EffectSound DEF Inv
<1>4. /\ pool.nodes >= 1 /\ (pool.drain => pool.nodes = pool.count)
      /\ plan.count \in 1..MaxCount /\ plan.version \in Versions
      /\ plan.labels \in Labels \cup {Unknown} /\ plan.drain \in BOOLEAN
  BY <1>1, <1>3 DEF Inv, Base, Sound, Plan
<1>5. plan.drain /\ plan.count < pool.nodes
  BY <1>3, <1>4, PatchedSound
<1>6. disturbed \/ (tf.count = pool.count /\ tf.drain = pool.drain)
  BY <1>1 DEF Inv, Tracked, Unpatched, Matches
<1> QED
  BY <1>1, <1>4, <1>5, <1>6 DEF ModifyPlan

\* An update takes nodes away only if its plan announced it, or turned
\* allow_scale_down on, or was made of a record that no longer showed the pool.
THEOREM DrainsAnnounced == Spec => DrainsAreAnnounced
<1>1. Inv /\ [Next]_vars =>
        ((pc = "patching" /\ Polled /\ job' = None /\ pool' # pool /\ pool'.nodes < pool.nodes) =>
           ("drain" \in warned \/ (plan.drain /\ ~tf.drain) \/ disturbed \/ excused))
  <2> SUFFICES ASSUME Inv, [Next]_vars, pc = "patching", Polled, pool' # pool,
                      pool'.nodes < pool.nodes
               PROVE  "drain" \in warned \/ (plan.drain /\ ~tf.drain) \/ disturbed
    OBVIOUS
  <2>1. job # None /\ pc \notin {"creating", "created"}
    BY DEF Inv, Base, Jobs, Polled, Awaiting
  <2>2. ~Console
    <3>1. Console => Accepts
      BY Zenon DEF Console
    <3> QED
      BY <2>1, <3>1 DEF Accepts
  <2>3. ~AwaitFails /\ ~Killed
    BY <2>1 DEF AwaitFails, Killed, LosesSight
  <2>4. OperationSucceeds
    BY <2>1, <2>2, <2>3
       DEF Next, vars, StartRun, Handler, ReadOK, ReadGone, ReadFails, PlanNothing, PlanCreate,
           PlanUpdate, PlanDelete, CreateNodePool, CreateFails, CreateDone, CreateRecords,
           CreateFallsBack, UpdateNodePool, UpdateFails, UpdateDone, RotateNodePool, RotateFails,
           ReadBack, ReadBackGone, ReadBackFails, DeleteNodePool, DeleteFails, DeleteDone,
           Call, CallFails, Local, API, OperationFails, ChangeConfig, ImportState
  <2> QED
    BY <2>4, DrainAnnounced
<1> QED
  BY <1>1, Invariance, PTL DEF Spec, DrainsAreAnnounced

-----------------------------------------------------------------------------
(* The promise of a managed object.                                        *)

\* The states a step may relate: what the pool, the record and the count of
\* lost pools may become in one step of ManagedObject, or none.
Managed ==
  \/ (pool # None <=> pool' # None) /\ (tf # None <=> tf' # None) /\ orphans' = orphans
  \/ pool = None /\ tf = None /\ pool' # None /\ orphans' = orphans
  \/ pool # None /\ tf = None /\ pool' # None /\ tf' # None /\ orphans' = orphans
  \/ pool # None /\ tf # None /\ pool' = None /\ orphans' = orphans
  \/ pool = None /\ tf # None /\ pool' = None /\ tf' = None /\ orphans' = orphans
  \/ tf = None /\ tf' = None /\ pool' = None /\ orphans' = orphans + 1

LEMMA ManagedStep ==
  ASSUME Managed
  PROVE  [Promise!Next]_(Promise!vars)
BY DEF Managed, Promise!Next, Promise!vars, Promise!Make, Promise!Learn, Promise!Unmake,
       Promise!Forget, Promise!Abandon

\* No step does more to a pool than may be done to a managed object.
LEMMA StepManaged ==
  ASSUME Base, Base', [Next]_vars
  PROVE  Managed
<1>1. CASE UNCHANGED vars \/ Calls \/ Locals \/ RotateNodePool
  BY <1>1 DEF vars, history, Managed, Calls, CreateNodePool, UpdateNodePool, DeleteNodePool, Call,
              Locals, CreateDone, UpdateDone, RotateFails, Local, RotateNodePool
<1>2. CASE Plans
  <2>1. UNCHANGED <<pool, orphans>>
    BY <1>2 DEF Plans, StartRun, ReadOK, ReadGone, ReadFails, PlanNothing, PlanCreate, PlanUpdate,
                PlanDelete, history
  <2>2. UNCHANGED tf \/ (ReadOK /\ tf # None /\ tf' # None) \/ (ReadGone /\ pool = None /\ tf' = None)
    <3>1. ASSUME ReadOK PROVE tf # None /\ tf' # None
      <4>1. pc = "refresh" /\ pool # None /\ pool' = pool /\ pc' = "plan"
        BY <3>1 DEF ReadOK
      <4> QED
        BY <4>1 DEF Base, Recorded
    <3> QED
      BY <1>2, <3>1 DEF Plans, StartRun, ReadGone, ReadFails, PlanNothing, PlanCreate, PlanUpdate,
                        PlanDelete
  <2> QED
    BY <2>1, <2>2 DEF Managed
<1>3. CASE CallErrors
  <2>1. PICK kind \in {"create", "patch", "delete"} : CallFails(kind) /\ pc = kind
    BY <1>3 DEF CallErrors, CreateFails, UpdateFails, DeleteFails
  <2>2. UNCHANGED <<pool, tf>> /\ (UNCHANGED orphans \/ (kind = "create" /\ orphans' = orphans + 1))
    BY <2>1 DEF CallFails
  <2>3. kind = "create" => tf = None /\ pool = None
    BY <2>1 DEF Base, TypeOK, Recorded
  <2> QED
    BY <2>2, <2>3 DEF Managed
<1>4. CASE Stores
  <2>1. UNCHANGED <<pool, orphans>>
    BY <1>4 DEF Stores, CreateRecords, CreateFallsBack, ReadBack, ReadBackGone, ReadBackFails,
                DeleteDone, history
  <2>2. pc' = "idle" \/ pc' = "create"
    BY <1>4 DEF Stores, CreateRecords, CreateFallsBack, ReadBack, ReadBackGone, ReadBackFails,
                DeleteDone, Rest
  <2>3. tf' = None => pool = None
    BY <2>1, <2>2 DEF Base, Recorded
  <2>4. tf' # None => tf # None \/ pool # None
    <3>1. pc = "created" => pool # None
      <4>1. ASSUME pc = "created" PROVE pool = Built(plan) /\ plan \in Plan
        BY <4>1 DEF Base, Jobs, TypeOK
      <4> QED
        BY <4>1, BuiltSound
    <3> QED
      BY <1>4, <3>1 DEF Stores, CreateRecords, CreateFallsBack, ReadBack, ReadBackGone,
                        ReadBackFails, DeleteDone, Base, TypeOK
  <2> QED
    BY <2>1, <2>3, <2>4 DEF Managed
<1>5. CASE AwaitFails \/ Killed
  <2>1. tf' = tf /\ (LosesSight \/ UNCHANGED <<pool, orphans>>)
    BY <1>5 DEF AwaitFails, Killed
  <2>2. pc \in {"creating", "created"} => tf = None
    BY DEF Base, TypeOK
  <2> QED
    BY <2>1, <2>2 DEF Managed, LosesSight
<1>6. CASE API
  <2>1. job # None /\ tf' = tf /\ orphans' = orphans /\ (pool' = Effect \/ pool' = pool)
    BY <1>6 DEF API, OperationSucceeds, OperationFails
  <2>2. tf = None => pool = None
    BY <2>1 DEF Base, Jobs, Recorded
  <2>3. pool = None => tf = None
    <3>1. ASSUME pool = None PROVE pc = "creating"
      BY <2>1, <3>1 DEF Base, Jobs
    <3> QED
      BY <3>1 DEF Base, TypeOK
  <2> QED
    BY <2>1, <2>2, <2>3 DEF Managed
<1>7. CASE Others
  <2>1. CASE ChangeConfig
    BY <2>1 DEF ChangeConfig, history, Managed
  <2>2. CASE ImportState
    <3>1. pc = "idle" /\ pc' = "idle" /\ tf = None /\ orphans' = orphans /\ config \in Config
          /\ pool' = Built(config)
      BY <2>2 DEF ImportState, handler, Base, TypeOK
    <3>2. pool = None /\ pool' # None
      BY <3>1, BuiltSound DEF Base, Recorded
    <3> QED
      BY <3>1, <3>2 DEF Managed
  <2>3. CASE Console
    BY <2>3 DEF Console, Accepts, Managed
  <2> QED
    BY <1>7, <2>1, <2>2, <2>3 DEF Others
<1> QED
  <2>1. UNCHANGED vars \/ Plans \/ Calls \/ CallErrors \/ Locals \/ RotateNodePool \/ Stores
          \/ AwaitFails \/ Killed \/ API \/ Others
    BY DEF Next, Handler, Plans, Calls, CallErrors, Locals, Stores, Others
  <2> QED
    BY <1>1, <1>2, <1>3, <1>4, <1>5, <1>6, <1>7, <2>1

\* Refinement: a node pool keeps the promise of a managed object.  Whatever
\* fails, the record outlives the pool and not the other way round, and a pool
\* left behind is from a creation that was cut short.
THEOREM KeepsPromise == Spec => KeepsItsPromise
<1>1. Init => Promise!Init
  BY DEF Init, Promise!Init
<1>2. ASSUME Inv, [Next]_vars
      PROVE  [Promise!Next]_(Promise!vars)
  BY <1>2, StepBase, StepManaged, ManagedStep DEF Inv
<1> QED
  BY <1>1, <1>2, Invariance, PTL DEF Spec, KeepsItsPromise, Promise!Spec

=============================================================================
