-------------------------- MODULE VMResourceProofs --------------------------
(***************************************************************************)
(* Proofs about VMResource, for any number of instances, disks, types,     *)
(* failures and edits.                                                     *)
(***************************************************************************)
EXTENDS VMResource, Counting, TLAPS

Resting  == {"idle", "refresh", "plan"}
Creating == {"create", "creating"}
Deleting == {"find", "delete", "deleting"}
Updating == Stages \ (Resting \cup Creating \cup Deleting)

\* The operation the handler awaits is the one it has asked for.
Asked ==
  op = "IN_PROGRESS" =>
    /\ pc = "creating"  => job[cur] = CreateJob
    /\ pc = "detaching" => job[cur] = [kind |-> "detach", ids |-> ToDetach, want |-> None]
    /\ pc = "attaching" => job[cur] = [kind |-> "attach", ids |-> ToAttach, want |-> plan]
    /\ pc = "patching"  => job[cur] = [kind |-> "nic", ids |-> {}, want |-> plan]
    /\ pc = "stopping"  => job[cur] = [kind |-> "stop", ids |-> {}, want |-> None]
    /\ pc = "resizing"  => job[cur] = [kind |-> "resize", ids |-> {}, want |-> plan]
    /\ pc = "starting"  => job[cur] = [kind |-> "start", ids |-> {}, want |-> None]
    /\ pc = "deleting"  => job[cur] = [kind |-> "delete", ids |-> {}, want |-> None]

\* Only an instance being created does not exist yet.
Jobs == \A v \in VMs : job[v] # None => (vm[v] = None <=> job[v].kind = "create")

\* What the locals are in each stage, whoever else does what.
Shape ==
  /\ pc \notin Awaiting => op = "NONE"
  /\ pc \in Resting => cur = None /\ resp = None
  /\ pc = "refresh" => tf # None
  /\ pc \in Creating => tf = None /\ resp = None /\ plan # None
  /\ pc = "create" => cur = None
  /\ pc = "creating" => cur # None
  /\ pc \in Deleting => tf # None /\ cur = tf.vm /\ resp = tf
  /\ pc \in Updating => /\ tf # None /\ cur = tf.vm
                        /\ resp # None /\ resp.vm = cur
                        /\ plan # None

\* The record r shows the instance, save for disks that are detached already.
Tracks(r) ==
  /\ vm[r.vm] # None
  /\ r.type = vm[r.vm].type
  /\ r.nic = vm[r.vm].nic
  /\ \A d \in Disks : vm[r.vm].disks[d] \in {Detached, r.disks[d]}

\* The operation awaited in stage s has succeeded.
Done(s) == pc = s /\ Succeeded

\* How far the disks, the interface, the type and the power state of the
\* instance are in each stage of Update.
DisksDone ==
  /\ (pc = "detach" \/ (pc = "detaching" /\ ~Succeeded)) => vm[cur].disks = resp.disks
  /\ (Done("detaching") \/ pc = "attach" \/ (pc = "attaching" /\ ~Succeeded)) =>
       vm[cur].disks = Without(resp.disks, ToDetach)
  /\ (Done("attaching") \/ pc = "save") => vm[cur].disks = plan.disks
  /\ pc \notin {"detach", "detaching", "attach", "attaching", "save"} =>
       vm[cur].disks = plan.disks /\ resp.disks = plan.disks

NicDone ==
  /\ vm[cur].nic = IF Done("patching") THEN plan.nic ELSE resp.nic
  /\ pc \in {"size", "stop", "stopping", "resize", "resizing", "start", "starting",
             "finish"} => resp.nic = plan.nic

TypeDone ==
  /\ vm[cur].type = IF Done("resizing") THEN plan.type ELSE resp.type
  /\ pc \in {"start", "starting", "finish"} => resp.type = plan.type

PowerDone ==
  /\ pc \in {"stop", "stopping"} => wasRunning /\ ~Off(before)
  /\ Done("stopping") => Off(vm[cur].power)
  /\ pc \in {"resize", "resizing"} =>
       /\ Off(vm[cur].power)
       /\ IF wasRunning THEN ~Off(before) ELSE vm[cur].power = before
  /\ pc \in {"start", "starting"} => ~Off(before)
  /\ Done("starting") => vm[cur].power = StateRunning
  /\ pc = "finish" =>
       vm[cur].power \in {before} \cup (IF Off(before) THEN {} ELSE {StateRunning})
  /\ pc \notin {"stop", "stopping", "resize", "resizing", "start", "starting", "finish"} =>
       vm[cur].power = before

\* Where the instance stands while nothing else has changed it.
Standing ==
  ~disturbed =>
    /\ (pc \in Resting /\ tf # None) => Tracks(tf)
    /\ (pc = "plan" /\ tf # None) => tf = vmToTerraformResourceModel(tf.vm, tf.key)
    /\ Done("creating") => /\ vm[cur] # None
                           /\ vm[cur].type = plan.type
                           /\ vm[cur].disks = plan.disks
                           /\ vm[cur].nic = plan.nic
    /\ (pc \in Deleting /\ ~Done("deleting")) => Tracks(tf)
    /\ pc \in Updating => vm[cur] # None /\ DisksDone /\ NicDone /\ TypeDone /\ PowerDone

\* A delete the handler was told of has removed the instance, and nothing
\* brings a deleted instance back.
DeletedIsGone == Done("deleting") => vm[cur] = None /\ job[cur] = None

Base == TypeOK /\ Jobs /\ Shape /\ Asked
Inv  == Base /\ Standing /\ DeletedIsGone

-----------------------------------------------------------------------------
(* Disks.                                                                  *)

\* Detaching what getDisksDiff calls removed and attaching what it calls added
\* turns the disks of the state into those of the plan.
LEMMA DisksReachThePlan ==
  ASSUME NEW o \in DiskMap, NEW n \in DiskMap
  PROVE  With(Without(o, Removed(o, n)), Added(o, n), n) = n
<1>1. n = [d \in Disks |-> n[d]]
  BY DEF DiskMap
<1>2. ASSUME NEW d \in Disks
      PROVE  With(Without(o, Removed(o, n)), Added(o, n), n)[d] = n[d]
  BY DEF DiskMap, With, Without, Removed, Added
<1> QED
  BY <1>1, <1>2 DEF With

\* An Update with nothing to detach starts attaching with the disks of the state.
LEMMA NothingToDetach ==
  ASSUME NEW o \in DiskMap, NEW n \in DiskMap, Removed(o, n) = {}
  PROVE  Without(o, Removed(o, n)) = o
BY DEF DiskMap, Without

\* An Update with nothing to attach has the disks of the plan after detaching.
LEMMA NothingToAttach ==
  ASSUME NEW o \in DiskMap, NEW n \in DiskMap, Added(o, n) = {}
  PROVE  Without(o, Removed(o, n)) = n
<1>1. n = [d \in Disks |-> n[d]]
  BY DEF DiskMap
<1>2. ASSUME NEW d \in Disks
      PROVE  Without(o, Removed(o, n))[d] = n[d]
  BY DEF DiskMap, Without, Removed, Added
<1> QED
  BY <1>1, <1>2 DEF Without

\* Detaching leaves every disk as it was or detached.
LEMMA DetachingOnlyDetaches ==
  ASSUME NEW o \in DiskMap, NEW ids, NEW d \in Disks
  PROVE  Without(o, ids)[d] \in {Detached, o[d]}
BY DEF Without

-----------------------------------------------------------------------------
(* Types.                                                                  *)

\* Attaching and detaching keep a disk map a disk map.
LEMMA DiskMaps ==
  ASSUME NEW o \in DiskMap, NEW n \in DiskMap, NEW ids
  PROVE  Without(o, ids) \in DiskMap /\ With(o, ids, n) \in DiskMap
BY DEF DiskMap, Without, With

\* What is planned is a complete resource.
LEMMA PlannedTyped ==
  ASSUME config \in Config, NEW prior \in State \cup {None}
  PROVE  Planned(prior) \in Want
BY VMResourceAssumption DEF Planned, Config, State, Want

\* Reading an instance gives a resource state.
LEMMA ReadTyped ==
  ASSUME CloudTypeOK, NEW v \in VMs, vm[v] # None, NEW key \in BOOLEAN
  PROVE  vmToTerraformResourceModel(v, key) \in State
BY DEF vmToTerraformResourceModel, CloudTypeOK, Instance, State

\* An operation on an existing instance, or the creation of a missing one, ends
\* in an instance or in none.
LEMMA EffectTyped ==
  ASSUME NEW i \in Instance \cup {None}, NEW j \in Job,
         i = None <=> j.kind = "create"
  PROVE  Effect(i, j) \in Instance \cup {None}
<1>1. CASE j.kind = "create"
  <2>1. j.want \in Want
    BY <1>1 DEF Job
  <2> QED
    BY <1>1, <2>1 DEF Effect, Created, Want, Instance, Powers
<1>2. CASE j.kind # "create"
  <2>1. i \in Instance
    BY <1>2
  <2>2. CASE j.kind = "detach"
    <3>1. Without(i.disks, j.ids) \in DiskMap
      BY <2>1 DEF Instance, DiskMap, Without
    <3> QED
      BY <2>1, <2>2, <3>1 DEF Effect, Instance
  <2>3. CASE j.kind = "attach"
    <3>1. j.want \in Want
      BY <2>3 DEF Job
    <3>2. With(i.disks, j.ids, j.want.disks) \in DiskMap
      BY <2>1, <3>1 DEF Instance, Want, DiskMap, With
    <3> QED
      BY <2>1, <2>3, <3>2 DEF Effect, Instance
  <2>4. CASE j.kind \in {"nic", "resize"}
    <3>1. j.want \in Want
      BY <2>4 DEF Job
    <3> QED
      BY <2>1, <2>4, <3>1 DEF Effect, Instance, Want
  <2>5. CASE j.kind \in {"stop", "start", "delete"}
    BY <2>1, <2>5 DEF Effect, Instance, Powers
  <2> QED
    BY <1>2, <2>2, <2>3, <2>4, <2>5 DEF Job
<1> QED
  BY <1>1, <1>2

\* Every request the handlers make is an operation of the API.
LEMMA JobTyped ==
  ASSUME NEW ids \in SUBSET Disks
  PROVE  /\ \A kind \in {"detach", "stop", "start", "delete"} :
              [kind |-> kind, ids |-> ids, want |-> None] \in Job
         /\ \A kind \in {"create", "attach", "nic", "resize"} : \A want \in Want :
              [kind |-> kind, ids |-> ids, want |-> want] \in Job
BY DEF Job

\* A response is still a resource state after one of its fields has been set
\* from the plan, and has the other fields it had.
LEMMA SavedTyped ==
  ASSUME NEW r \in State, NEW p \in Want
  PROVE  /\ [r EXCEPT !.disks = p.disks] \in State
         /\ [r EXCEPT !.nic = p.nic] \in State
         /\ [r EXCEPT !.type = p.type] \in State
         /\ [r EXCEPT !.disks = p.disks].vm = r.vm
         /\ [r EXCEPT !.nic = p.nic].vm = r.vm
         /\ [r EXCEPT !.type = p.type].vm = r.vm
BY DEF State, Want

-----------------------------------------------------------------------------
(* The steps, by what they do to the handler.                              *)

Calls ==
  \/ DeleteInstance \/ DetachDisks \/ AttachDisks
  \/ PatchNic \/ Stop \/ Resize \/ Start

CallErrors ==
  \/ DeleteFails \/ DetachFails \/ AttachFails
  \/ PatchNicFails \/ StopFails \/ ResizeFails \/ StartFails

Locals ==
  \/ FindInstance \/ SkipDetach \/ DetachDone \/ SkipAttach \/ AttachDone \/ SaveDisks
  \/ SkipNic \/ NicCheck \/ PatchNicDone \/ SkipResize \/ ReadPower \/ StopDone
  \/ ResizeDone \/ StartDone

Returns == FindFails \/ NicRefused \/ ReadPowerFails \/ AwaitFails \/ Finish

Plans == PlanNothing \/ PlanCreate \/ PlanUpdate \/ PlanDelete

\* Every step is one of these.
LEMMA StepCases ==
  ASSUME [Next]_vars
  PROVE  \/ StartRun \/ ReadOK \/ ReadFails \/ Plans
         \/ CreateInstance \/ CreateFails \/ CreateDone \/ DeleteDone
         \/ Calls \/ CallErrors \/ Locals \/ Returns
         \/ \E v \in VMs : OperationSucceeds(v) \/ OperationFails(v)
         \/ ChangeConfig \/ ImportState \/ Console \/ Killed
         \/ UNCHANGED vars
BY DEF Next, Handler, Plans, Calls, CallErrors, Locals, Returns

\* The instance a handler works on, in every stage that has one.
LEMMA HandlersInstance ==
  ASSUME TypeOK, Shape, pc \in Updating \cup Deleting \cup {"creating"}
  PROVE  cur \in VMs /\ cur # None
<1>1. tf \in State => tf.vm \in VMs
  BY DEF State
<1> QED
  BY <1>1, NoneAssumption DEF TypeOK, Shape, Creating, Updating, Deleting

-----------------------------------------------------------------------------
(* Type correctness is preserved.                                          *)

\* A call that starts an operation, whatever the operation.
LEMMA CallTyped ==
  ASSUME TypeOK, cur \in VMs, NEW kind, NEW ids, NEW want, NEW next \in Stages,
         [kind |-> kind, ids |-> ids, want |-> want] \in Job,
         Call(kind, ids, want, next)
  PROVE  TypeOK'
BY DEF TypeOK, CloudTypeOK, Call

\* Faults stay within their bound.
LEMMA FaultTyped ==
  ASSUME TypeOK, Fault
  PROVE  faults' \in 0..MaxFaults
BY VMResourceAssumption DEF TypeOK, Fault

\* Edits stay within their bound.
LEMMA EditTyped ==
  ASSUME TypeOK, Edit
  PROVE  edits' \in 0..MaxEdits
BY VMResourceAssumption DEF TypeOK, Edit

\* A handler that has returned leaves typed locals.
LEMMA RestTyped ==
  ASSUME Rest
  PROVE  /\ pc' \in Stages
         /\ cur' \in VMs \cup {None}
         /\ plan' \in Want \cup {None}
         /\ resp' \in State \cup {None}
         /\ op' \in {"NONE", "IN_PROGRESS", "SUCCEEDED", "FAILED"}
         /\ wasRunning' \in BOOLEAN
         /\ before' \in Powers
BY DEF Rest, Stages, Powers

\* A call that gives an error, whatever the operation.
LEMMA CallFailsTyped ==
  ASSUME TypeOK, cur \in VMs, NEW kind, NEW ids, NEW want,
         [kind |-> kind, ids |-> ids, want |-> want] \in Job,
         CallFails(kind, ids, want)
  PROVE  TypeOK'
BY FaultTyped, RestTyped DEF TypeOK, CloudTypeOK, CallFails, Return

\* The disks an Update names, and its plan, are those of the types.
LEMMA UpdateTyped ==
  ASSUME TypeOK, Shape, pc \in Updating
  PROVE  /\ plan \in Want /\ resp \in State
         /\ plan.disks \in DiskMap /\ resp.disks \in DiskMap
         /\ ToDetach \in SUBSET Disks /\ ToAttach \in SUBSET Disks
<1>1. plan \in Want /\ resp \in State
  BY DEF TypeOK, Shape
<1> QED
  BY <1>1 DEF Want, State, ToDetach, ToAttach, Removed, Added

\* Every step leads from type-correct states to type-correct states.
LEMMA TypeStep ==
  ASSUME Base, [Next]_vars
  PROVE  TypeOK'
<1> USE DEF Base
<1>1. CASE StartRun \/ ReadFails
  BY <1>1, FaultTyped DEF StartRun, ReadFails, GetFails, TypeOK, CloudTypeOK, Stages
<1>2. CASE ReadOK
  <2>1. tf \in State /\ tf.vm \in VMs /\ tf.key \in BOOLEAN
    BY <1>2 DEF ReadOK, TypeOK, Shape, State
  <2>2. vmToTerraformResourceModel(tf.vm, tf.key) \in State
    BY <1>2, <2>1, ReadTyped DEF ReadOK, TypeOK
  <2> QED
    BY <1>2, <2>2 DEF ReadOK, TypeOK, CloudTypeOK, Stages
<1>3. CASE Plans
  <2>1. config # None => Planned(None) \in Want /\ Planned(tf) \in Want
    BY PlannedTyped DEF TypeOK
  <2>2. tf # None => tf.vm \in VMs
    BY DEF TypeOK, State
  <2>3. ASSUME NEW v \in VMs
        PROVE  vm[v] # None => vm[v].power \in Powers
    BY DEF TypeOK, CloudTypeOK, Instance
  <2> QED
    BY <1>3, <2>1, <2>2, <2>3
       DEF Plans, PlanNothing, PlanCreate, PlanUpdate, PlanDelete, TypeOK, CloudTypeOK, Stages
<1>4. CASE CreateInstance \/ CreateFails
  <2>1. plan \in Want
    BY <1>4 DEF CreateInstance, CreateFails, TypeOK, Shape, Creating
  <2>2. CreateJob \in Job
    BY <2>1, JobTyped DEF CreateJob
  <2>3. CASE CreateInstance
    BY <2>2, <2>3 DEF CreateInstance, Fresh, TypeOK, CloudTypeOK, Stages, Awaiting
  <2>4. CASE CreateFails
    BY <2>2, <2>4, FaultTyped, RestTyped
       DEF CreateFails, Fresh, Return, TypeOK, CloudTypeOK
  <2> QED
    BY <1>4, <2>3, <2>4
<1>5. CASE CreateDone
  <2>1. plan \in Want /\ cur \in VMs
    BY <1>5, HandlersInstance DEF CreateDone, TypeOK, Shape, Creating
  <2>2. [vm |-> cur, type |-> plan.type, disks |-> plan.disks, nic |-> plan.nic, key |-> TRUE] \in State
    BY <2>1 DEF Want, State
  <2> QED
    BY <1>5, <2>2 DEF CreateDone, Rest, TypeOK, CloudTypeOK, Stages, Powers
<1>6. CASE DeleteDone
  BY <1>6 DEF DeleteDone, Forget, TypeOK, CloudTypeOK, Stages
<1>7. CASE Calls
  <2>1. cur \in VMs
    BY <1>7, HandlersInstance
       DEF Calls, DeleteInstance, DetachDisks, AttachDisks, PatchNic, Stop, Resize, Start,
           Updating, Deleting, Resting, Creating, Stages, Awaiting
  <2>2. CASE DeleteInstance
    BY <2>1, <2>2, CallTyped, JobTyped DEF DeleteInstance, Stages, Awaiting
  <2>3. CASE Calls /\ ~DeleteInstance
    <3>1. plan \in Want /\ ToDetach \in SUBSET Disks /\ ToAttach \in SUBSET Disks
      BY <2>3, UpdateTyped
         DEF Calls, DetachDisks, AttachDisks, PatchNic, Stop, Resize, Start,
             Updating, Deleting, Resting, Creating, Stages, Awaiting
    <3>2. {"detaching", "attaching", "patching", "stopping", "resizing", "starting"}
            \subseteq Stages
      BY DEF Stages, Awaiting
    <3>3. CASE DetachDisks
      BY <2>1, <3>1, <3>2, <3>3, CallTyped, JobTyped DEF DetachDisks
    <3>4. CASE AttachDisks
      BY <2>1, <3>1, <3>2, <3>4, CallTyped, JobTyped DEF AttachDisks
    <3>5. CASE PatchNic \/ Resize
      BY <2>1, <3>1, <3>2, <3>5, CallTyped, JobTyped DEF PatchNic, Resize
    <3>6. CASE Stop \/ Start
      BY <2>1, <3>1, <3>2, <3>6, CallTyped, JobTyped DEF Stop, Start
    <3> QED
      BY <2>3, <3>3, <3>4, <3>5, <3>6 DEF Calls
  <2> QED
    BY <1>7, <2>2, <2>3
<1>8. CASE CallErrors
  <2>1. cur \in VMs
    BY <1>8, HandlersInstance
       DEF CallErrors, DeleteFails, DetachFails, AttachFails, PatchNicFails, StopFails,
           ResizeFails, StartFails, Updating, Deleting, Resting, Creating, Stages, Awaiting
  <2>2. CASE DeleteFails
    BY <2>1, <2>2, CallFailsTyped, JobTyped DEF DeleteFails
  <2>3. CASE CallErrors /\ ~DeleteFails
    <3>1. plan \in Want /\ ToDetach \in SUBSET Disks /\ ToAttach \in SUBSET Disks
      BY <2>3, UpdateTyped
         DEF CallErrors, DetachFails, AttachFails, PatchNicFails, StopFails, ResizeFails,
             StartFails, Updating, Deleting, Resting, Creating, Stages, Awaiting
    <3>2. CASE DetachFails
      BY <2>1, <3>1, <3>2, CallFailsTyped, JobTyped DEF DetachFails
    <3>3. CASE AttachFails
      BY <2>1, <3>1, <3>3, CallFailsTyped, JobTyped DEF AttachFails
    <3>4. CASE PatchNicFails \/ ResizeFails
      BY <2>1, <3>1, <3>4, CallFailsTyped, JobTyped DEF PatchNicFails, ResizeFails
    <3>5. CASE StopFails \/ StartFails
      BY <2>1, <3>1, <3>5, CallFailsTyped, JobTyped DEF StopFails, StartFails
    <3> QED
      BY <2>3, <3>2, <3>3, <3>4, <3>5 DEF CallErrors
  <2> QED
    BY <1>8, <2>2, <2>3
<1>9. CASE Locals
  <2>1. CASE SaveDisks \/ PatchNicDone \/ ResizeDone
    <3>1. plan \in Want /\ resp \in State
      BY <2>1, UpdateTyped
         DEF SaveDisks, PatchNicDone, ResizeDone, Updating, Deleting, Resting, Creating,
             Stages, Awaiting
    <3> QED
      BY <2>1, <3>1, SavedTyped
         DEF SaveDisks, PatchNicDone, ResizeDone, Local, TypeOK, CloudTypeOK, Stages
  <2>2. CASE ReadPower
    BY <2>2 DEF ReadPower, NeedsStop, Local, TypeOK, CloudTypeOK, Stages
  <2>3. CASE Locals /\ ~(SaveDisks \/ PatchNicDone \/ ResizeDone \/ ReadPower)
    BY <2>3 DEF Locals, FindInstance, SkipDetach, DetachDone, SkipAttach, AttachDone, SkipNic,
                NicCheck, SkipResize, StopDone, StartDone, Local, TypeOK, CloudTypeOK, Stages
  <2> QED
    BY <1>9, <2>1, <2>2, <2>3
<1>10. CASE Returns
  <2>1. CASE AwaitFails
    BY <2>1, FaultTyped, RestTyped DEF AwaitFails, Return, TypeOK, CloudTypeOK
  <2>2. CASE Returns /\ ~AwaitFails
    BY <2>2, FaultTyped, RestTyped
       DEF Returns, FindFails, NicRefused, ReadPowerFails, Finish, GetFails, Return,
           TypeOK, CloudTypeOK
  <2> QED
    BY <1>10, <2>1, <2>2
<1>11. ASSUME NEW v \in VMs, OperationSucceeds(v)
       PROVE  TypeOK'
  <2>1. vm[v] \in Instance \cup {None} /\ job[v] \in Job
    BY <1>11 DEF OperationSucceeds, Completes, TypeOK, CloudTypeOK
  <2>2. Effect(vm[v], job[v]) \in Instance \cup {None}
    BY <1>11, <2>1, EffectTyped DEF OperationSucceeds, Completes, Jobs
  <2> QED
    BY <1>11, <2>2 DEF OperationSucceeds, Completes, TypeOK, CloudTypeOK
<1>12. ASSUME NEW v \in VMs, OperationFails(v)
       PROVE  TypeOK'
  BY <1>12, FaultTyped DEF OperationFails, Fails, TypeOK, CloudTypeOK
<1>13. CASE ChangeConfig
  BY <1>13, EditTyped DEF ChangeConfig, provider, TypeOK, CloudTypeOK
<1>14. CASE Console
  <2>1. tf.vm \in VMs
    BY <1>14 DEF Console, TypeOK, State
  <2>2. vm[tf.vm] \in Instance
    BY <1>14, <2>1 DEF Console, AlteredElsewhere, Accepts, TypeOK, CloudTypeOK
  <2>3. Altered(vm[tf.vm]) \subseteq Instance \cup {None}
    BY <2>2 DEF Altered, Instance
  <2> QED
    BY <1>14, <2>1, <2>3, EditTyped
       DEF Console, AlteredElsewhere, provider, TypeOK, CloudTypeOK
<1>15. CASE Killed
  BY <1>15, FaultTyped, RestTyped DEF Killed, TypeOK, CloudTypeOK
<1>16. CASE UNCHANGED vars
  BY <1>16 DEF vars, provider, TypeOK, CloudTypeOK
<1>17. CASE ImportState
  BY <1>17, ReadTyped, EditTyped DEF ImportState, provider, TypeOK, CloudTypeOK
<1> QED
  BY <1>1, <1>2, <1>3, <1>4, <1>5, <1>6, <1>7, <1>8, <1>9, <1>10, <1>11, <1>12, <1>13,
     <1>14, <1>15, <1>16, <1>17, StepCases

-----------------------------------------------------------------------------
(* Only an instance being created does not exist.                          *)

\* No step leaves an operation on a missing instance, except a creation.
LEMMA JobsStep ==
  ASSUME Base, [Next]_vars
  PROVE  Jobs'
<1> USE DEF Base
<1>1. CASE UNCHANGED <<vm, job>>
  BY <1>1 DEF Jobs
<1>2. CASE CreateInstance \/ CreateFails
  <2>1. CreateJob.kind = "create" /\ CreateJob # None
    <3>1. plan \in Want
      BY <1>2 DEF CreateInstance, CreateFails, TypeOK, Shape, Creating
    <3>2. CreateJob \in Job
      BY <3>1, JobTyped DEF CreateJob
    <3> QED
      BY <3>2, NoneAssumption DEF CreateJob
  <2> QED
    BY <1>2, <2>1 DEF CreateInstance, CreateFails, Fresh, Jobs, TypeOK, CloudTypeOK
<1>3. ASSUME NEW kind \in {"attach", "nic", "resize", "detach", "stop", "start", "delete"},
             NEW ids, NEW want, NEW next, Call(kind, ids, want, next) \/ CallFails(kind, ids, want)
      PROVE  Jobs'
  <2>1. [kind |-> kind, ids |-> ids, want |-> want].kind # "create"
    BY <1>3
  <2> QED
    BY <1>3, <2>1 DEF Call, CallFails, Accepts, Jobs, TypeOK, CloudTypeOK
<1>4. CASE Calls \/ CallErrors
  BY <1>3, <1>4
     DEF Calls, DeleteInstance, DetachDisks, AttachDisks, PatchNic, Stop, Resize, Start,
         CallErrors, DeleteFails, DetachFails, AttachFails, PatchNicFails, StopFails,
         ResizeFails, StartFails
<1>5. ASSUME NEW v \in VMs, OperationSucceeds(v) \/ OperationFails(v)
      PROVE  Jobs'
  BY <1>5 DEF OperationSucceeds, OperationFails, Completes, Fails, Jobs, TypeOK, CloudTypeOK
<1>6. CASE Console
  BY <1>6 DEF Console, AlteredElsewhere, Accepts, Jobs, TypeOK, CloudTypeOK
<1>7. CASE Locals \/ Returns \/ Plans
  <2>1. UNCHANGED <<vm, job>>
    BY <1>7
       DEF Locals, FindInstance, SkipDetach, DetachDone, SkipAttach, AttachDone, SaveDisks,
           SkipNic, NicCheck, PatchNicDone, SkipResize, ReadPower, StopDone, ResizeDone,
           StartDone, Local, Returns, FindFails, NicRefused, ReadPowerFails, AwaitFails,
           Finish, Plans, PlanNothing, PlanCreate, PlanUpdate, PlanDelete
  <2> QED
    BY <1>1, <2>1
<1>8. CASE StartRun \/ ReadOK \/ ReadFails \/ CreateDone \/ DeleteDone \/ ChangeConfig
           \/ ImportState \/ Killed \/ UNCHANGED vars
  BY <1>1, <1>8
     DEF StartRun, ReadOK, ReadFails, CreateDone, DeleteDone, Forget, ChangeConfig, ImportState,
         Killed, vars
<1> QED
  BY <1>2, <1>4, <1>5, <1>6, <1>7, <1>8, StepCases

-----------------------------------------------------------------------------
(* The locals are what each stage needs.                                   *)

\* A handler that returns leaves no locals behind.
LEMMA RestShape ==
  ASSUME Rest
  PROVE  Shape' /\ Asked'
BY DEF Rest, Shape, Asked, Awaiting, Resting, Creating, Deleting, Updating

\* Every step leads to a stage whose locals are there.
LEMMA ShapeStep ==
  ASSUME Base, [Next]_vars
  PROVE  Shape'
<1> USE DEF Base
<1>1. CASE StartRun \/ ReadFails
  BY <1>1 DEF StartRun, ReadFails, Shape, Stages, Awaiting, Resting, Creating, Deleting, Updating
<1>2. CASE ReadOK
  <2>1. tf.vm \in VMs /\ tf.key \in BOOLEAN
    BY <1>2 DEF ReadOK, TypeOK, Shape, State
  <2>2. tf' # None
    BY <1>2, <2>1, ReadTyped, StateAssumption DEF ReadOK, TypeOK
  <2> QED
    BY <1>2, <2>2 DEF ReadOK, Shape, Stages, Awaiting, Resting, Creating, Deleting, Updating
<1>3. CASE Plans
  <2>1. (Planned(None) # None /\ Planned(tf) # None) \/ config = None
    BY PlannedTyped, NoneAssumption DEF TypeOK
  <2> QED
    BY <1>3, <2>1
       DEF Plans, PlanNothing, PlanCreate, PlanUpdate, PlanDelete, Shape, TypeOK,
           Stages, Awaiting, Resting, Creating, Deleting, Updating
<1>4. CASE CreateInstance
  BY <1>4, NoneAssumption
     DEF CreateInstance, Fresh, Shape, Stages, Awaiting, Resting, Creating, Deleting, Updating
<1>5. CASE CreateFails \/ CreateDone \/ CallErrors \/ Returns \/ Killed
  <2>1. Rest
    BY <1>5
       DEF CreateFails, CreateDone, CallErrors, DeleteFails, DetachFails, AttachFails,
           PatchNicFails, StopFails, ResizeFails, StartFails, CallFails, Returns, FindFails,
           NicRefused, ReadPowerFails, AwaitFails, Finish, Killed, Return
  <2> QED
    BY <2>1, RestShape
<1>6. CASE DeleteDone
  BY <1>6 DEF DeleteDone, Forget, Shape, Stages, Awaiting, Resting, Creating, Deleting, Updating
<1>7. CASE Calls
  BY <1>7
     DEF Calls, DeleteInstance, DetachDisks, AttachDisks, PatchNic, Stop, Resize, Start, Call,
         Shape, Stages, Awaiting, Resting, Creating, Deleting, Updating
<1>8. CASE Locals
  <2>1. CASE SaveDisks \/ PatchNicDone \/ ResizeDone
    <3>1. plan \in Want /\ resp \in State
      BY <2>1, UpdateTyped
         DEF SaveDisks, PatchNicDone, ResizeDone, Updating, Deleting, Resting, Creating,
             Stages, Awaiting
    <3>2. \/ resp' = [resp EXCEPT !.disks = plan.disks]
          \/ resp' = [resp EXCEPT !.nic = plan.nic]
          \/ resp' = [resp EXCEPT !.type = plan.type]
      BY <2>1 DEF SaveDisks, PatchNicDone, ResizeDone
    <3>3. resp' \in State /\ resp'.vm = resp.vm BY <3>1, <3>2, SavedTyped
    <3>4. resp' # None /\ resp'.vm = resp.vm BY <3>3, StateAssumption
    <3> QED
      BY <2>1, <3>4
         DEF SaveDisks, PatchNicDone, ResizeDone, Local, Shape, Stages, Awaiting, Resting,
             Creating, Deleting, Updating
  <2>2. CASE Locals /\ ~(SaveDisks \/ PatchNicDone \/ ResizeDone)
    BY <2>2
       DEF Locals, FindInstance, SkipDetach, DetachDone, SkipAttach, AttachDone, SkipNic,
           NicCheck, SkipResize, ReadPower, StopDone, StartDone, Local,
           Shape, Stages, Awaiting, Resting, Creating, Deleting, Updating
  <2> QED
    BY <1>8, <2>1, <2>2
<1>9. ASSUME NEW v \in VMs, OperationSucceeds(v) \/ OperationFails(v)
      PROVE  Shape'
  BY <1>9
     DEF OperationSucceeds, OperationFails, Awaited, Shape, Stages, Awaiting, Resting,
         Creating, Deleting, Updating
<1>10. CASE ChangeConfig \/ Console \/ UNCHANGED vars
  BY <1>10 DEF ChangeConfig, Console, vars, provider, Shape
<1>11. CASE ImportState
  BY <1>11, ReadTyped, StateAssumption
     DEF ImportState, provider, TypeOK, Shape, Awaiting, Resting, Creating, Deleting, Updating
<1> QED
  BY <1>1, <1>2, <1>3, <1>4, <1>5, <1>6, <1>7, <1>8, <1>9, <1>10, <1>11, StepCases

\* The operation a handler waits for stays the one it has asked for.
LEMMA AskedStep ==
  ASSUME Base, [Next]_vars
  PROVE  Asked'
<1> USE DEF Base
<1>1. CASE StartRun \/ ReadOK \/ ReadFails \/ Plans \/ ChangeConfig \/ ImportState \/ DeleteDone
  <2>1. op' # "IN_PROGRESS"
    BY <1>1
       DEF StartRun, ReadOK, ReadFails, Plans, PlanNothing, PlanCreate, PlanUpdate, PlanDelete,
           ChangeConfig, ImportState, provider, DeleteDone, Forget, Shape, Awaiting
  <2> QED
    BY <2>1 DEF Asked
<1>2. CASE CreateInstance
  BY <1>2 DEF CreateInstance, Fresh, CreateJob, Asked, TypeOK, CloudTypeOK
<1>3. CASE CreateFails \/ CreateDone \/ CallErrors \/ Returns \/ Killed
  <2>1. Rest
    BY <1>3
       DEF CreateFails, CreateDone, CallErrors, DeleteFails, DetachFails, AttachFails,
           PatchNicFails, StopFails, ResizeFails, StartFails, CallFails, Returns, FindFails,
           NicRefused, ReadPowerFails, AwaitFails, Finish, Killed, Return
  <2> QED
    BY <2>1, RestShape
<1>4. CASE Calls
  <2>1. cur \in VMs
    BY <1>4, HandlersInstance
       DEF Calls, DeleteInstance, DetachDisks, AttachDisks, PatchNic, Stop, Resize, Start,
           Updating, Deleting, Resting, Creating, Stages, Awaiting
  <2> QED
    BY <1>4, <2>1
       DEF Calls, DeleteInstance, DetachDisks, AttachDisks, PatchNic, Stop, Resize, Start, Call,
           ToDetach, ToAttach, Asked, TypeOK, CloudTypeOK
<1>5. CASE Locals
  <2>1. op' = "NONE"
    BY <1>5
       DEF Locals, FindInstance, SkipDetach, DetachDone, SkipAttach, AttachDone, SaveDisks,
           SkipNic, NicCheck, PatchNicDone, SkipResize, ReadPower, StopDone, ResizeDone,
           StartDone, Local
  <2> QED
    BY <2>1 DEF Asked
<1>6. ASSUME NEW v \in VMs, OperationSucceeds(v) \/ OperationFails(v)
      PROVE  Asked'
  <2>1. UNCHANGED <<pc, cur, plan, resp>>
    BY <1>6 DEF OperationSucceeds, OperationFails
  <2>2. CASE op' = "IN_PROGRESS"
    <3>1. op = "IN_PROGRESS" /\ v # cur
      BY <1>6, <2>2 DEF OperationSucceeds, OperationFails, Awaited
    <3>2. cur \in VMs
      BY <3>1, HandlersInstance
         DEF Shape, Awaiting, Updating, Deleting, Resting, Creating, Stages
    <3>3. job'[cur] = job[cur]
      BY <1>6, <3>1, <3>2
         DEF OperationSucceeds, OperationFails, Completes, Fails, TypeOK, CloudTypeOK
    <3> QED
      BY <2>1, <3>1, <3>3 DEF Asked, CreateJob, ToDetach, ToAttach
  <2> QED
    BY <2>2 DEF Asked
<1>7. CASE Console \/ UNCHANGED vars
  BY <1>7 DEF Console, AlteredElsewhere, vars, provider, Asked, CreateJob, ToDetach, ToAttach
<1> QED
  BY <1>1, <1>2, <1>3, <1>4, <1>5, <1>6, <1>7, StepCases

\* The types, the jobs and the locals together are preserved.
LEMMA BaseStep ==
  ASSUME Base, [Next]_vars
  PROVE  Base'
BY TypeStep, JobsStep, ShapeStep, AskedStep DEF Base

-----------------------------------------------------------------------------
(* Deleted instances stay deleted.                                         *)

\* No step takes back a deletion the handler has been told of.
LEMMA DeletedStep ==
  ASSUME Base, DeletedIsGone, [Next]_vars
  PROVE  DeletedIsGone'
<1> USE DEF Base
<1>1. CASE pc' # "deleting" \/ op' # "SUCCEEDED"
  BY <1>1 DEF DeletedIsGone, Done, Succeeded
<1>2. ASSUME NEW v \in VMs, OperationSucceeds(v) \/ OperationFails(v), Done("deleting")'
      PROVE  DeletedIsGone'
  <2>1. pc = "deleting" /\ cur' = cur /\ cur \in VMs
    BY <1>2, HandlersInstance DEF OperationSucceeds, OperationFails, Done, Deleting
  <2>2. CASE op = "SUCCEEDED"
    <3>1. vm[cur] = None /\ job[cur] = None /\ v # cur
      BY <1>2, <2>1, <2>2
         DEF DeletedIsGone, Done, Succeeded, OperationSucceeds, OperationFails, Completes, Fails
    <3> QED
      BY <1>2, <2>1, <3>1
         DEF OperationSucceeds, OperationFails, Completes, Fails, DeletedIsGone, TypeOK, CloudTypeOK
  <2>3. CASE op # "SUCCEEDED"
    <3>1. v = cur /\ op = "IN_PROGRESS" /\ Completes(v)
      BY <1>2, <2>3 DEF OperationSucceeds, OperationFails, Awaited, Done, Succeeded
    <3>2. job[v] = [kind |-> "delete", ids |-> {}, want |-> None]
      BY <2>1, <3>1 DEF Asked
    <3>3. Effect(vm[v], job[v]) = None
      BY <3>2 DEF Effect
    <3> QED
      BY <2>1, <3>1, <3>3 DEF Completes, DeletedIsGone, TypeOK, CloudTypeOK
  <2> QED
    BY <2>2, <2>3
<1>3. CASE Console /\ Done("deleting")'
  BY <1>3 DEF Console, AlteredElsewhere, Accepts, provider, DeletedIsGone, Done, Succeeded,
              TypeOK, CloudTypeOK, Shape, Deleting, State
<1>4. CASE Calls \/ Locals \/ CreateInstance \/ Plans
  <2>1. op' # "SUCCEEDED"
    BY <1>4
       DEF Calls, DeleteInstance, DetachDisks, AttachDisks, PatchNic, Stop, Resize, Start, Call,
           Locals, FindInstance, SkipDetach, DetachDone, SkipAttach, AttachDone, SaveDisks,
           SkipNic, NicCheck, PatchNicDone, SkipResize, ReadPower, StopDone, ResizeDone,
           StartDone, Local, CreateInstance, Plans, PlanNothing, PlanCreate, PlanUpdate,
           PlanDelete, Shape, Awaiting
  <2> QED
    BY <1>1, <2>1
<1>5. CASE CreateFails \/ CreateDone \/ CallErrors \/ Returns \/ Killed
  <2>1. op' # "SUCCEEDED"
    BY <1>5
       DEF CreateFails, CreateDone, CallErrors, DeleteFails, DetachFails, AttachFails,
           PatchNicFails, StopFails, ResizeFails, StartFails, CallFails, Returns, FindFails,
           NicRefused, ReadPowerFails, AwaitFails, Finish, Killed, Return, Rest
  <2> QED
    BY <1>1, <2>1
<1>6. CASE StartRun \/ ReadOK \/ ReadFails \/ DeleteDone \/ ChangeConfig \/ ImportState
  <2>1. pc' # "deleting"
    BY <1>6
       DEF StartRun, ReadOK, ReadFails, DeleteDone, Forget, ChangeConfig, ImportState, provider
  <2> QED
    BY <1>1, <2>1
<1>7. CASE UNCHANGED vars
  BY <1>7 DEF vars, provider, DeletedIsGone, Done, Succeeded
<1> QED
  BY <1>1, <1>2, <1>3, <1>4, <1>5, <1>6, <1>7, StepCases DEF Done, Succeeded

-----------------------------------------------------------------------------
(* Where the instance stands, while nothing else changes it.               *)

\* What each operation makes of an instance.
LEMMA Effects ==
  ASSUME NEW i \in Instance \cup {None}, NEW j \in Job
  PROVE  /\ j.kind = "create" => Effect(i, j) = Created(j.want)
         /\ j.kind = "detach" => Effect(i, j) = [i EXCEPT !.disks = Without(i.disks, j.ids)]
         /\ j.kind = "attach" =>
              Effect(i, j) = [i EXCEPT !.disks = With(i.disks, j.ids, j.want.disks)]
         /\ j.kind = "nic" => Effect(i, j) = [i EXCEPT !.nic = j.want.nic]
         /\ j.kind = "resize" => Effect(i, j) = [i EXCEPT !.type = j.want.type]
         /\ j.kind = "stop" =>
              Effect(i, j) = [i EXCEPT !.power = IF Off(i.power) THEN i.power ELSE StateStopped]
         /\ j.kind = "start" => Effect(i, j) = [i EXCEPT !.power = StateRunning]
         /\ j.kind = "delete" => Effect(i, j) = None
BY DEF Effect

\* A handler that returns stores a response that shows the instance.
LEMMA ReturnStanding ==
  ASSUME Return, UNCHANGED vm,
         ~disturbed' => resp = None \/ Tracks(resp)
  PROVE  Standing'
<1>1. ~disturbed' => (tf' # None => Tracks(tf)')
  BY DEF Return, Tracks
<1> QED
  BY <1>1 DEF Return, Rest, Standing, Done, Resting, Deleting, Updating, Creating

\* Whenever Update may give up, its response shows the instance.
LEMMA UpdateTracks ==
  ASSUME Base, Standing, ~disturbed, pc \in Updating, ~Succeeded, pc # "save"
  PROVE  Tracks(resp)
<1>1. resp \in State /\ resp.disks \in DiskMap /\ resp.vm = cur
  BY UpdateTyped DEF Base, Shape
<1>2. vm[cur] # None /\ vm[cur].type = resp.type /\ vm[cur].nic = resp.nic
  BY DEF Standing, NicDone, TypeDone, Done
<1>3. vm[cur].disks = resp.disks \/ vm[cur].disks = Without(resp.disks, ToDetach)
  BY DEF Standing, DisksDone, Done
<1> QED
  BY <1>1, <1>2, <1>3, DetachingOnlyDetaches DEF Tracks

\* An operation that ends keeps the handler and Terraform informed, or counts as
\* a disturbance.
LEMMA OperationStanding ==
  ASSUME Base, Standing, NEW v \in VMs, OperationSucceeds(v), ~disturbed'
  PROVE  Standing'
<1> USE DEF Base
<1>1. ~disturbed /\ (~Managed(v) \/ Awaited(v))
  BY DEF OperationSucceeds, Managed, Awaited, TypeOK
<1>2. UNCHANGED <<tf, pc, cur, plan, resp, wasRunning, before>>
  BY DEF OperationSucceeds
<1>3. job[v] \in Job /\ vm[v] \in Instance \cup {None}
      /\ vm' = [vm EXCEPT ![v] = Effect(vm[v], job[v])]
  BY DEF OperationSucceeds, Completes, TypeOK, CloudTypeOK
<1>4. CASE ~Managed(v)
  <2>1. op' = op
    BY <1>4 DEF OperationSucceeds, Managed, Awaited
  <2>2. /\ tf # None => tf.vm \in VMs /\ vm'[tf.vm] = vm[tf.vm]
        /\ cur # None => vm'[cur] = vm[cur]
    BY <1>3, <1>4 DEF Managed, TypeOK, CloudTypeOK, State
  <2>3. pc \in Updating \cup Deleting \cup {"creating"} => cur # None
    BY HandlersInstance
  <2> QED
    BY <1>1, <1>2, <2>1, <2>2, <2>3
       DEF Standing, Tracks, vmToTerraformResourceModel, Done, Succeeded, DisksDone, NicDone,
           TypeDone, PowerDone, ToDetach, Shape
<1>5. CASE Awaited(v)
  <2>1. v = cur /\ op = "IN_PROGRESS" /\ op' = "SUCCEEDED" /\ pc \in Awaiting
    BY <1>5 DEF OperationSucceeds, Awaited, Shape
  <2>2. vm'[cur] = Effect(vm[cur], job[cur])
    BY <1>3, <2>1 DEF TypeOK, CloudTypeOK
  <2>3. CASE pc = "creating"
    <3>1. plan \in Want
      BY <2>3 DEF TypeOK, Shape, Creating
    <3>2. vm'[cur] = Created(plan)
      BY <1>3, <2>1, <2>2, <2>3, Effects DEF Asked, CreateJob
    <3>3. vm'[cur] # None
      BY <3>1, <3>2, NoneAssumption DEF Created, Want, Instance, Powers
    <3> QED
      BY <1>2, <2>3, <3>2, <3>3
         DEF Created, Standing, Done, Resting, Creating, Deleting, Updating
  <2>4. CASE pc = "deleting"
    BY <1>2, <2>1, <2>4 DEF Standing, Done, Succeeded, Resting, Creating, Deleting, Updating
  <2>5. CASE pc \in Updating
    <3>1. vm[cur] \in Instance /\ vm[cur].disks \in DiskMap
      BY <1>1, <1>3, <2>1, <2>5 DEF Standing, Instance
    <3>2. plan \in Want /\ resp \in State /\ plan.disks \in DiskMap /\ resp.disks \in DiskMap
      BY <2>5, UpdateTyped
    <3>3. DisksDone /\ NicDone /\ TypeDone /\ PowerDone
      BY <1>1, <2>5 DEF Standing
    <3>4. SUFFICES /\ vm'[cur] # None
                   /\ DisksDone' /\ NicDone' /\ TypeDone' /\ PowerDone'
      BY <1>2, <2>5 DEF Standing, Done, Resting, Creating, Deleting, Updating
    <3> HIDE DEF Base
    <3>5. vm'[cur] \in Instance => vm'[cur] # None
      BY NoneAssumption
    <3>6. CASE pc = "detaching"
      <4>1. vm'[cur] = [vm[cur] EXCEPT !.disks = Without(vm[cur].disks, ToDetach)]
        BY <1>3, <2>1, <2>2, <3>6, Effects DEF Base, Asked
      <4>2. vm[cur].disks = resp.disks
        BY <2>1, <3>3, <3>6 DEF DisksDone, Succeeded
      <4>3. Without(vm[cur].disks, ToDetach) \in DiskMap
        BY <3>1, <3>2, DiskMaps
      <4> QED
        BY <1>2, <2>1, <3>1, <3>3, <3>5, <3>6, <4>1, <4>2, <4>3
           DEF Instance, DisksDone, NicDone, TypeDone, PowerDone, Done, Succeeded, ToDetach
    <3>7. CASE pc = "attaching"
      <4>1. vm'[cur] = [vm[cur] EXCEPT !.disks = With(vm[cur].disks, ToAttach, plan.disks)]
        BY <1>3, <2>1, <2>2, <3>7, Effects DEF Base, Asked
      <4>2. vm[cur].disks = Without(resp.disks, ToDetach)
        BY <2>1, <3>3, <3>7 DEF DisksDone, Succeeded
      <4>3. With(vm[cur].disks, ToAttach, plan.disks) = plan.disks
        BY <3>2, <4>2, DisksReachThePlan DEF ToAttach, ToDetach
      <4> QED
        BY <1>2, <2>1, <3>1, <3>2, <3>3, <3>5, <3>7, <4>1, <4>3
           DEF Instance, DisksDone, NicDone, TypeDone, PowerDone, Done, Succeeded
    <3>8. CASE pc \in {"patching", "resizing"}
      <4>1. /\ pc = "patching" => vm'[cur] = [vm[cur] EXCEPT !.nic = plan.nic]
            /\ pc = "resizing" => vm'[cur] = [vm[cur] EXCEPT !.type = plan.type]
        BY <1>3, <2>1, <2>2, Effects DEF Base, Asked
      <4> QED
        BY <1>2, <2>1, <3>1, <3>2, <3>3, <3>5, <3>8, <4>1
           DEF Instance, Want, DisksDone, NicDone, TypeDone, PowerDone, Done, Succeeded
    <3>9. CASE pc \in {"stopping", "starting"}
      <4>1. \E p \in Powers :
              /\ vm'[cur] = [vm[cur] EXCEPT !.power = p]
              /\ pc = "stopping" => Off(p)
              /\ pc = "starting" => p = StateRunning
        <5>1. CASE pc = "stopping"
          <6>1. vm'[cur] = [vm[cur] EXCEPT !.power =
                              IF Off(vm[cur].power) THEN vm[cur].power ELSE StateStopped]
            BY <1>3, <2>1, <2>2, <5>1, Effects DEF Base, Asked
          <6> QED
            BY <3>1, <5>1, <6>1 DEF Instance, Off, Powers
        <5>2. CASE pc = "starting"
          <6>1. vm'[cur] = [vm[cur] EXCEPT !.power = StateRunning]
            BY <1>3, <2>1, <2>2, <5>2, Effects DEF Base, Asked
          <6> QED
            BY <5>2, <6>1 DEF Powers
        <5> QED
          BY <3>9, <5>1, <5>2
      <4> QED
        BY <1>2, <2>1, <3>1, <3>3, <3>5, <3>9, <4>1
           DEF Instance, DisksDone, NicDone, TypeDone, PowerDone, Done, Succeeded
    <3> QED
      BY <2>1, <2>5, <3>6, <3>7, <3>8, <3>9 DEF Updating, Creating, Deleting, Awaiting
  <2> QED
    BY <2>1, <2>3, <2>4, <2>5
       DEF Awaiting, Updating, Resting, Creating, Deleting, Stages
<1> QED
  BY <1>1, <1>4, <1>5

\* Every call, wait and local step of a handler leaves the instance where the
\* next stage expects it.
LEMMA StandingStep ==
  ASSUME Base, Standing, [Next]_vars
  PROVE  Standing'
<1> USE DEF Base
<1>1. CASE StartRun \/ ReadFails
  BY <1>1 DEF StartRun, ReadFails, Standing, Tracks, Done, Resting, Creating, Deleting, Updating
<1>2. CASE ReadOK
  <2>1. tf.vm \in VMs /\ tf.key \in BOOLEAN /\ tf' \in State
    BY <1>2, ReadTyped DEF ReadOK, TypeOK, Shape, State
  <2>2. tf' = vmToTerraformResourceModel(tf.vm, tf.key) /\ tf'.vm = tf.vm /\ tf'.key = tf.key
    BY <1>2 DEF ReadOK, vmToTerraformResourceModel
  <2> QED
    BY <1>2, <2>1, <2>2
       DEF ReadOK, Standing, Tracks, vmToTerraformResourceModel, Done, Resting, Creating,
           Deleting, Updating
<1>3. CASE Plans
  <2>1. tf # None => tf.vm \in VMs
    BY DEF TypeOK, State
  <2>2. op = "NONE"
    BY <1>3
       DEF Plans, PlanNothing, PlanCreate, PlanUpdate, PlanDelete, Shape, Awaiting
  <2>3. CASE PlanNothing \/ PlanCreate \/ PlanDelete
    BY <2>2, <2>3
       DEF PlanNothing, PlanCreate, PlanDelete, Standing, Tracks, Done, Succeeded,
           Resting, Creating, Deleting, Updating, Stages, Awaiting
  <2>4. CASE PlanUpdate
    <3>1. ~disturbed => Tracks(tf) /\ tf = vmToTerraformResourceModel(tf.vm, tf.key)
      BY <2>4 DEF PlanUpdate, Standing, Resting
    <3>2. /\ pc' = "detach" /\ op' = "NONE" /\ resp' = tf /\ cur' = tf.vm
          /\ UNCHANGED <<vm, disturbed, tf>>
          /\ vm[tf.vm] # None => before' = vm[tf.vm].power
      BY <2>2, <2>4 DEF PlanUpdate
    <3>3. ~disturbed => vm[tf.vm] # None /\ vm[tf.vm].disks = tf.disks
                        /\ vm[tf.vm].nic = tf.nic /\ vm[tf.vm].type = tf.type
      BY <3>1 DEF Tracks, vmToTerraformResourceModel
    <3> QED
      BY <3>2, <3>3
         DEF Standing, DisksDone, NicDone, TypeDone, PowerDone, Done, Succeeded,
             Resting, Creating, Deleting, Updating, Stages, Awaiting
  <2> QED
    BY <1>3, <2>3, <2>4 DEF Plans
<1>4. CASE CreateInstance
  BY <1>4 DEF CreateInstance, Standing, Done, Succeeded, Resting, Creating, Deleting, Updating
<1>5. CASE CreateFails
  BY <1>5, ReturnStanding DEF CreateFails, Shape, Creating
<1>6. CASE CreateDone
  <2>1. tf' = [vm |-> cur, type |-> plan.type, disks |-> plan.disks, nic |-> plan.nic, key |-> TRUE]
        /\ pc' = "idle" /\ UNCHANGED <<vm, disturbed>>
    BY <1>6 DEF CreateDone, Rest
  <2>2. ~disturbed => /\ vm[cur] # None /\ vm[cur].type = plan.type
                      /\ vm[cur].disks = plan.disks /\ vm[cur].nic = plan.nic
    BY <1>6 DEF CreateDone, Standing, Done
  <2> QED
    BY <2>1, <2>2 DEF Standing, Tracks, Done, Resting, Creating, Deleting, Updating
<1>7. CASE DeleteDone
  BY <1>7
     DEF DeleteDone, Forget, Standing, Done, Resting, Creating, Deleting, Updating
<1>8. CASE Calls
  BY <1>8
     DEF Calls, DeleteInstance, DetachDisks, AttachDisks, PatchNic, Stop, Resize, Start, Call,
         Standing, Tracks, DisksDone, NicDone, TypeDone, PowerDone, ToDetach, Done, Succeeded,
         Resting, Creating, Deleting, Updating, Stages, Awaiting
<1>9. CASE CallErrors \/ (Returns /\ ~AwaitFails)
  <2>1. Return /\ UNCHANGED <<vm, disturbed>> /\ ~Succeeded /\ pc # "save"
        /\ pc \in Updating \cup Deleting
    BY <1>9
       DEF CallErrors, DeleteFails, DetachFails, AttachFails, PatchNicFails, StopFails,
           ResizeFails, StartFails, CallFails, Returns, FindFails, NicRefused, ReadPowerFails,
           Finish, Shape, Succeeded, Resting, Creating, Deleting, Updating, Stages, Awaiting
  <2>2. ~disturbed => Tracks(resp)
    BY <2>1, UpdateTracks DEF Shape, Standing, Done
  <2> QED
    BY <2>1, <2>2, ReturnStanding
<1>10. CASE AwaitFails
  <2>1. Return /\ UNCHANGED vm /\ pc # "save"
        /\ pc \in Updating \cup Deleting \cup {"creating"}
    BY <1>10 DEF AwaitFails, Resting, Creating, Deleting, Updating, Stages, Awaiting
  <2>2. ~disturbed' => ~disturbed /\ ~Succeeded
    BY <1>10 DEF AwaitFails, Succeeded
  <2>3. ~disturbed' => resp = None \/ Tracks(resp)
    BY <2>1, <2>2, UpdateTracks DEF Shape, Standing, Done, Creating
  <2> QED
    BY <2>1, <2>3, ReturnStanding
<1>11. CASE Locals
  <2>1. UNCHANGED <<vm, tf, cur, plan, before, disturbed>> /\ op' = "NONE" /\ pc' \notin Resting
    BY <1>11
       DEF Locals, FindInstance, SkipDetach, DetachDone, SkipAttach, AttachDone, SaveDisks,
           SkipNic, NicCheck, PatchNicDone, SkipResize, ReadPower, StopDone, ResizeDone,
           StartDone, Local, Resting
  <2>2. CASE FindInstance
    BY <2>1, <2>2
       DEF FindInstance, Local, Standing, Tracks, Done, Succeeded, Resting, Creating, Deleting,
           Updating
  <2>3. CASE Locals /\ ~FindInstance
    <3>1. pc \in Updating /\ pc' \in Updating
      BY <2>3
         DEF Locals, SkipDetach, DetachDone, SkipAttach, AttachDone, SaveDisks, SkipNic,
             NicCheck, PatchNicDone, SkipResize, ReadPower, StopDone, ResizeDone, StartDone,
             Local, Resting, Creating, Deleting, Updating, Stages, Awaiting
    <3>2. plan \in Want /\ resp \in State /\ plan.disks \in DiskMap /\ resp.disks \in DiskMap
      BY <3>1, UpdateTyped
    <3>3. SUFFICES ASSUME ~disturbed
                   PROVE  DisksDone' /\ NicDone' /\ TypeDone' /\ PowerDone'
      BY <2>1, <3>1 DEF Standing, Done, Succeeded, Resting, Creating, Deleting, Updating
    <3>4. DisksDone /\ NicDone /\ TypeDone /\ PowerDone
      BY <3>1, <3>3 DEF Standing
    <3> HIDE DEF Base
    <3>5. CASE SkipDetach
      BY <2>1, <3>2, <3>4, <3>5, NothingToDetach
         DEF SkipDetach, Local, DisksDone, NicDone, TypeDone, PowerDone, ToDetach, Done, Succeeded
    <3>6. CASE SkipAttach
      BY <2>1, <3>2, <3>4, <3>6, NothingToAttach
         DEF SkipAttach, Local, DisksDone, NicDone, TypeDone, PowerDone, ToDetach, ToAttach,
             Done, Succeeded
    <3>7. CASE DetachDone \/ AttachDone
      BY <2>1, <3>4, <3>7
         DEF DetachDone, AttachDone, Local, DisksDone, NicDone, TypeDone, PowerDone, ToDetach,
             Done, Succeeded
    <3>8. CASE SaveDisks \/ PatchNicDone \/ ResizeDone
      BY <2>1, <3>2, <3>4, <3>8
         DEF SaveDisks, PatchNicDone, ResizeDone, Local, State, DisksDone, NicDone, TypeDone,
             PowerDone, Done, Succeeded, Off
    <3>9. CASE SkipNic \/ NicCheck \/ SkipResize
      BY <2>1, <3>4, <3>9
         DEF SkipNic, NicCheck, SkipResize, Local, DisksDone, NicDone, TypeDone, PowerDone,
             Done, Succeeded
    <3>10. CASE ReadPower
      BY <2>1, <3>4, <3>10
         DEF ReadPower, NeedsStop, Off, Local, DisksDone, NicDone, TypeDone, PowerDone,
             Done, Succeeded
    <3>11. CASE StopDone \/ StartDone
      BY <2>1, <3>4, <3>11
         DEF StopDone, StartDone, Local, DisksDone, NicDone, TypeDone, PowerDone,
             Done, Succeeded
    <3> QED
      BY <2>3, <3>5, <3>6, <3>7, <3>8, <3>9, <3>10, <3>11 DEF Locals
  <2> QED
    BY <1>11, <2>2, <2>3
<1>12. ASSUME NEW v \in VMs, OperationSucceeds(v)
       PROVE  Standing'
  BY <1>12, OperationStanding DEF Standing
<1>13. ASSUME NEW v \in VMs, OperationFails(v)
       PROVE  Standing'
  BY <1>13
     DEF OperationFails, Fails, Awaited, Standing, Tracks, vmToTerraformResourceModel, DisksDone,
         NicDone, TypeDone, PowerDone, ToDetach, Done, Succeeded
<1>14. CASE Console \/ Killed
  BY <1>14 DEF Console, Killed, Standing
<1>15. CASE ChangeConfig \/ UNCHANGED vars
  BY <1>15
     DEF ChangeConfig, vars, provider, Standing, Tracks, vmToTerraformResourceModel, DisksDone,
         NicDone, TypeDone, PowerDone, ToDetach, Done, Succeeded
<1>16. CASE ImportState
  BY <1>16
     DEF ImportState, provider, Standing, Tracks, vmToTerraformResourceModel, Done, Succeeded,
         Shape, Resting, Creating, Deleting, Updating
<1> QED
  BY <1>1, <1>2, <1>3, <1>4, <1>5, <1>6, <1>7, <1>8, <1>9, <1>10, <1>11, <1>12, <1>13,
     <1>14, <1>15, <1>16, StepCases DEF Returns

-----------------------------------------------------------------------------
(* The theorems.                                                           *)

\* The initial states satisfy the invariant.
LEMMA InitInv ==
  ASSUME Init
  PROVE  Inv
<1>1. TypeOK
  <2>1. 0 \in 0..MaxFaults /\ 0 \in 0..MaxEdits
    BY VMResourceAssumption
  <2> QED
    BY <2>1 DEF Init, CloudInit, TypeOK, CloudTypeOK, Stages, Powers
<1>2. Jobs /\ Shape /\ Asked
  BY DEF Init, CloudInit, Jobs, Shape, Asked, Awaiting, Resting, Creating, Deleting, Updating
<1>3. Standing /\ DeletedIsGone
  BY DEF Init, Standing, DeletedIsGone, Done, Succeeded, Resting, Creating, Deleting, Updating
<1> QED
  BY <1>1, <1>2, <1>3 DEF Inv, Base

\* Every step preserves the invariant.
LEMMA InvStep ==
  ASSUME Inv, [Next]_vars
  PROVE  Inv'
BY BaseStep, StandingStep, DeletedStep DEF Inv

\* The invariant holds throughout.
THEOREM Invariance == Spec => []Inv
<1>1. Init => Inv
  BY InitInv
<1>2. Inv /\ [Next]_vars => Inv'
  BY InvStep
<1> QED
  BY <1>1, <1>2, PTL DEF Spec

\* The model never leaves its types: whatever the API answers or loses, a
\* handler's locals are what its next call needs.
THEOREM TypeCorrect == Spec => []TypeOK
<1>1. Inv => TypeOK
  BY DEF Inv, Base
<1> QED
  BY <1>1, Invariance, PTL

\* Between runs of Terraform its record of an instance nobody else changed is
\* true, on every path of Create, Read, Update and Delete, failed or not.
THEOREM RecordIsTrue == Spec => []RecordTracksCloud
<1>1. Inv => RecordTracksCloud
  BY DEF Inv, Standing, Tracks, RecordTracksCloud, Resting
<1> QED
  BY <1>1, Invariance, PTL

\* An Update that returns without an error has reached its plan and says so.
THEOREM UpdateReachesPlan == Spec => []FinishedAsPlanned
<1>1. Inv => FinishedAsPlanned
  <2>1. SUFFICES ASSUME Inv, pc = "finish", ~disturbed
                 PROVE  /\ vm[cur] # None
                        /\ resp = vmToTerraformResourceModel(cur, resp.key)
                        /\ resp.type = plan.type /\ resp.disks = plan.disks /\ resp.nic = plan.nic
    BY DEF FinishedAsPlanned
  <2>2. pc \in Updating
    BY <2>1 DEF Updating, Resting, Creating, Deleting, Stages, Awaiting
  <2>3. resp \in State /\ resp.vm = cur
    BY <2>1, <2>2, UpdateTyped DEF Inv, Base, Shape
  <2>4. resp = [vm |-> resp.vm, type |-> resp.type, disks |-> resp.disks, nic |-> resp.nic,
                key |-> resp.key]
    BY <2>3 DEF State
  <2>5. /\ vm[cur] # None
        /\ vm[cur].disks = plan.disks /\ resp.disks = plan.disks
        /\ vm[cur].nic = resp.nic /\ resp.nic = plan.nic
        /\ vm[cur].type = resp.type /\ resp.type = plan.type
    BY <2>1, <2>2 DEF Inv, Standing, DisksDone, NicDone, TypeDone, Done
  <2> QED
    BY <2>3, <2>4, <2>5 DEF vmToTerraformResourceModel
<1> QED
  BY <1>1, Invariance, PTL

\* An Update that returns without an error leaves the power state as it found
\* it, or the instance running if it was not off.
THEOREM UpdateRestoresPower == Spec => []PowerRestored
<1>1. Inv => PowerRestored
  BY DEF Inv, Standing, PowerDone, PowerRestored, Updating, Resting, Creating, Deleting, Stages
<1> QED
  BY <1>1, Invariance, PTL

\* The provider asks for a resize, and waits for it, only while the instance is
\* off.
THEOREM ResizeIsSafe == Spec => []ResizedWhileOff
<1>1. Inv => ResizedWhileOff
  BY DEF Inv, Standing, PowerDone, ResizedWhileOff, Updating, Resting, Creating, Deleting,
         Stages, Awaiting
<1> QED
  BY <1>1, Invariance, PTL

\* Outside of a refresh, a resource leaves Terraform's state only when its
\* instance is gone.
THEOREM NothingLost == Spec => DropsOnlyTheDeleted
<1>1. ASSUME Inv, [Next]_vars, tf # None, tf' = None, pc # "refresh"
      PROVE  vm[tf.vm] = None
  <2> USE <1>1
  <2>1. CASE CallErrors \/ Returns
    <3>1. tf' = resp /\ pc \in Updating \cup Deleting \cup {"creating"}
      BY <2>1
         DEF CallErrors, DeleteFails, DetachFails, AttachFails, PatchNicFails, StopFails,
             ResizeFails, StartFails, CallFails, Returns, FindFails, NicRefused,
             ReadPowerFails, AwaitFails, Finish, Return, Resting, Creating, Deleting, Updating,
             Stages, Awaiting
    <3> QED
      BY <3>1 DEF Inv, Base, Shape, Creating
  <2>2. CASE DeleteDone
    BY <2>2 DEF DeleteDone, Inv, Base, Shape, DeletedIsGone, Done, Deleting
  <2>3. CASE CreateInstance \/ CreateFails \/ CreateDone
    BY <2>3 DEF CreateInstance, CreateFails, CreateDone, Inv, Base, Shape, Creating
  <2>4. CASE UNCHANGED tf \/ ReadOK \/ ReadFails \/ ImportState
    BY <2>4 DEF ReadOK, ReadFails, ImportState
  <2>5. CASE Calls \/ Locals \/ Plans
    BY <2>4, <2>5
       DEF Calls, DeleteInstance, DetachDisks, AttachDisks, PatchNic, Stop, Resize, Start, Call,
           Locals, FindInstance, SkipDetach, DetachDone, SkipAttach, AttachDone, SaveDisks,
           SkipNic, NicCheck, PatchNicDone, SkipResize, ReadPower, StopDone, ResizeDone,
           StartDone, Local, Plans, PlanNothing, PlanCreate, PlanUpdate, PlanDelete
  <2>6. CASE StartRun \/ ChangeConfig \/ Console \/ Killed \/ UNCHANGED vars
    BY <2>4, <2>6 DEF StartRun, ChangeConfig, Console, Killed, vars
  <2>7. ASSUME NEW v \in VMs, OperationSucceeds(v) \/ OperationFails(v)
        PROVE  UNCHANGED tf
    BY <2>7 DEF OperationSucceeds, OperationFails
  <2> QED
    BY <2>1, <2>2, <2>3, <2>4, <2>5, <2>6, <2>7, StepCases
<1>2. Inv /\ [Next]_vars => [(tf # None /\ tf' = None) => (pc = "refresh" \/ vm[tf.vm] = None)]_vars
  BY <1>1
<1> QED
  BY <1>2, Invariance, PTL DEF Spec, DropsOnlyTheDeleted

-----------------------------------------------------------------------------
(* Instances nobody manages.                                               *)

\* An instance that is gone has no operation: neither the recorded one, nor one
\* whose creation was reported to have ended, and a failed creation leaves none.
Ended ==
  /\ tf # None => (vm[tf.vm] = None => job[tf.vm] = None)
  /\ (pc = "creating" /\ op # "IN_PROGRESS") => job[cur] = None
  /\ (pc = "creating" /\ op = "FAILED") => vm[cur] = None

Accounted == IsFiniteSet(Unmanaged) /\ Cardinality(Unmanaged) <= faults

\* Steps that leave nothing behind keep the account.
LEMMA NoneLost ==
  ASSUME TypeOK, Accounted, Unmanaged' \subseteq Unmanaged, faults' \in Nat, faults <= faults'
  PROVE  Accounted'
<1>1. /\ IsFiniteSet(Unmanaged') /\ Cardinality(Unmanaged') \in Nat
      /\ Cardinality(Unmanaged) \in Nat /\ Cardinality(Unmanaged') <= Cardinality(Unmanaged)
  BY OneMore DEF Accounted
<1>2. faults \in Nat
  BY VMResourceAssumption DEF TypeOK
<1> QED
  BY <1>1, <1>2 DEF Accounted

\* A fault pays for one instance left behind.
LEMMA OneLost ==
  ASSUME TypeOK, Accounted, Fault, NEW x, Unmanaged' \subseteq Unmanaged \cup {x}
  PROVE  Accounted'
<1>1. /\ IsFiniteSet(Unmanaged') /\ Cardinality(Unmanaged') \in Nat
      /\ Cardinality(Unmanaged) \in Nat /\ Cardinality(Unmanaged') <= Cardinality(Unmanaged) + 1
  BY OneMore DEF Accounted
<1>2. faults \in Nat /\ faults' = faults + 1
  BY VMResourceAssumption DEF TypeOK, Fault
<1> QED
  BY <1>1, <1>2 DEF Accounted

\* A response is the record, or one of the same instance.
LEMMA ReturnKeepsTheInstance ==
  ASSUME Base, CallErrors \/ Returns
  PROVE  IF pc = "creating" THEN tf = None /\ tf' = None
         ELSE tf # None /\ tf' # None /\ cur = tf.vm /\ tf'.vm = tf.vm
<1>1. tf' = resp /\ pc \in Updating \cup Deleting \cup {"creating"}
  BY DEF CallErrors, DeleteFails, DetachFails, AttachFails, PatchNicFails, StopFails,
         ResizeFails, StartFails, CallFails, Returns, FindFails, NicRefused,
         ReadPowerFails, AwaitFails, Finish, Return, Resting, Creating, Deleting, Updating,
         Stages, Awaiting
<1> QED
  BY <1>1 DEF Base, Shape, Creating, Deleting, Updating

\* A request that is obeyed is one of an existing instance, obeyed or not it
\* touches no other.
LEMMA RequestsOfTheLiving ==
  ASSUME TypeOK, Calls \/ CallErrors
  PROVE  /\ UNCHANGED vm
         /\ \A v \in VMs : job'[v] = job[v] \/ (v = cur /\ vm[v] # None)
BY DEF Calls, DeleteInstance, DetachDisks, AttachDisks, PatchNic, Stop, Resize, Start, Call,
       CallErrors, DeleteFails, DetachFails, AttachFails, PatchNicFails, StopFails,
       ResizeFails, StartFails, CallFails, Accepts, TypeOK, CloudTypeOK

\* Every step preserves what is known of ended operations.
LEMMA EndedStep ==
  ASSUME Base, Ended, [Next]_vars
  PROVE  Ended'
<1>1. CASE StartRun \/ ReadOK \/ ReadFails \/ Plans
  BY <1>1
     DEF StartRun, ReadOK, ReadFails, Plans, PlanNothing, PlanCreate, PlanUpdate, PlanDelete,
         Ended, vmToTerraformResourceModel
<1>2. CASE CreateInstance \/ CreateFails
  BY <1>2 DEF CreateInstance, CreateFails, Return, Rest, Ended, Base, Shape, Creating
<1>3. CASE CreateDone \/ DeleteDone
  BY <1>3 DEF CreateDone, DeleteDone, Succeeded, Forget, Rest, Ended
<1>4. CASE Calls
  <2>1. /\ UNCHANGED tf /\ pc' # "creating"
        /\ tf # None /\ tf.vm \in VMs
    BY <1>4
       DEF Calls, DeleteInstance, DetachDisks, AttachDisks, PatchNic, Stop, Resize, Start, Call,
           Base, Shape, TypeOK, State, Updating, Deleting, Resting, Creating, Stages, Awaiting
  <2> QED
    BY <1>4, <2>1, RequestsOfTheLiving DEF Ended, Base
<1>5. CASE CallErrors \/ Returns
  <2>1. pc' = "idle"
    BY <1>5
       DEF CallErrors, DeleteFails, DetachFails, AttachFails, PatchNicFails, StopFails,
           ResizeFails, StartFails, CallFails, Returns, FindFails, NicRefused,
           ReadPowerFails, AwaitFails, Finish, Return, Rest
  <2>2. Returns => UNCHANGED <<vm, job>>
    BY DEF Returns, FindFails, NicRefused, ReadPowerFails, AwaitFails, Finish
  <2>3. tf # None => tf.vm \in VMs
    BY DEF Base, TypeOK, State
  <2> QED
    BY <1>5, <2>1, <2>2, <2>3, ReturnKeepsTheInstance, RequestsOfTheLiving DEF Ended, Base
<1>6. CASE Locals
  BY <1>6
     DEF Locals, FindInstance, SkipDetach, DetachDone, SkipAttach, AttachDone, SaveDisks,
         SkipNic, NicCheck, PatchNicDone, SkipResize, ReadPower, StopDone, ResizeDone,
         StartDone, Local, Ended
<1>7. ASSUME NEW v \in VMs, OperationSucceeds(v)
      PROVE  Ended'
  <2>1. \A w \in VMs : job'[w] = None \/ (job'[w] = job[w] /\ vm'[w] = vm[w])
    BY <1>7 DEF OperationSucceeds, Completes, Base, TypeOK, CloudTypeOK
  <2>2. UNCHANGED <<tf, pc, cur>>
    BY <1>7 DEF OperationSucceeds
  <2>3. tf # None => tf.vm \in VMs
    BY DEF Base, TypeOK, State
  <2>4. pc = "creating" => cur \in VMs
    BY HandlersInstance DEF Base
  <2>5. CASE pc = "creating"
    <3>1. CASE v = cur
      BY <1>7, <2>2, <2>4, <2>5, <3>1
         DEF OperationSucceeds, Completes, Awaited, Ended, Base, Shape, Creating,
             TypeOK, CloudTypeOK
    <3>2. CASE v # cur
      BY <1>7, <2>2, <2>4, <2>5, <3>2
         DEF OperationSucceeds, Completes, Awaited, Ended, Base, Shape, Creating,
             TypeOK, CloudTypeOK
    <3> QED
      BY <3>1, <3>2
  <2> QED
    BY <2>1, <2>2, <2>3, <2>5 DEF Ended
<1>8. ASSUME NEW v \in VMs, OperationFails(v)
      PROVE  Ended'
  <2>1. /\ UNCHANGED <<vm, tf, pc, cur>>
        /\ job' = [job EXCEPT ![v] = None]
        /\ op' = IF Awaited(v) THEN "FAILED" ELSE op
        /\ job[v] # None
    BY <1>8 DEF OperationFails, Fails
  <2>2. \A w \in VMs : job'[w] = None \/ job'[w] = job[w]
    BY <2>1 DEF Base, TypeOK, CloudTypeOK
  <2>3. tf # None => tf.vm \in VMs
    BY DEF Base, TypeOK, State
  <2>4. CASE pc = "creating"
    <3>1. cur \in VMs
      BY <2>4, HandlersInstance DEF Base
    <3>2. Awaited(v) => vm[cur] = None
      BY <2>1, <2>4, <3>1 DEF Awaited, Base, Asked, CreateJob, Jobs
    <3> QED
      BY <2>1, <2>2, <2>4, <3>1, <3>2 DEF Awaited, Ended, Base, Shape, Creating, TypeOK, CloudTypeOK
  <2> QED
    BY <2>1, <2>2, <2>3, <2>4 DEF Ended
<1>9. CASE Console
  BY <1>9 DEF Console, provider, AlteredElsewhere, Accepts, Ended, Base, Shape, Creating
<1>10. CASE ChangeConfig \/ ImportState \/ Killed \/ UNCHANGED vars
  BY <1>10 DEF ChangeConfig, ImportState, Killed, Rest, vars, provider, vmToTerraformResourceModel, Ended
<1> QED
  BY <1>1, <1>2, <1>3, <1>4, <1>5, <1>6, <1>7, <1>8, <1>9, <1>10, StepCases

\* A handler that reports an error leaves an instance behind only if it is one
\* it was creating, and then by a fault.
LEMMA ReturnAccounted ==
  ASSUME Base, Ended, Accounted, CallErrors \/ Returns
  PROVE  Accounted'
<1>1. (faults' = faults \/ Fault) /\ cur' = None
  BY DEF CallErrors, DeleteFails, DetachFails, AttachFails, PatchNicFails, StopFails,
         ResizeFails, StartFails, CallFails, Returns, FindFails, NicRefused,
         ReadPowerFails, AwaitFails, Finish, GetFails, Return, Rest
<1>2. faults \in Nat
  BY VMResourceAssumption DEF Base, TypeOK
<1>3. CASE pc # "creating"
  <2>1. /\ UNCHANGED vm
        /\ \A v \in VMs : job'[v] = job[v] \/ v = cur
    BY RequestsOfTheLiving
       DEF Base, Returns, FindFails, NicRefused, ReadPowerFails, AwaitFails, Finish
  <2>2. Unmanaged' \subseteq Unmanaged
    BY <1>3, <2>1, ReturnKeepsTheInstance DEF Unmanaged, Managed
  <2> QED
    BY <1>1, <1>2, <2>2, NoneLost DEF Base, Fault
<1>4. CASE pc = "creating"
  <2>1. AwaitFails /\ UNCHANGED <<vm, job>> /\ tf = None /\ tf' = None
    BY <1>4, ReturnKeepsTheInstance
       DEF CallErrors, DeleteFails, DetachFails, AttachFails, PatchNicFails, StopFails,
           ResizeFails, StartFails, Returns, FindFails, NicRefused,
           ReadPowerFails, AwaitFails, Finish
  <2>2. Unmanaged' \subseteq Unmanaged \cup {cur}
    BY <2>1 DEF Unmanaged, Managed
  <2>3. CASE Fault
    BY <2>2, <2>3, OneLost DEF Base
  <2>4. CASE op = "FAILED" /\ UNCHANGED faults
    <3>1. vm[cur] = None /\ job[cur] = None
      BY <1>4, <2>4 DEF Ended
    <3>2. Unmanaged' \subseteq Unmanaged
      BY <2>1, <3>1 DEF Unmanaged, Managed
    <3> QED
      BY <1>2, <2>4, <3>2, NoneLost DEF Base
  <2> QED
    BY <2>1, <2>3, <2>4 DEF AwaitFails
<1> QED
  BY <1>3, <1>4

\* Every step keeps the account: the number of instances nobody manages grows
\* with the number of faults only.
LEMMA AccountedStep ==
  ASSUME Base, DeletedIsGone, Ended, Accounted, [Next]_vars
  PROVE  Accounted'
<1>1. faults \in Nat
  BY VMResourceAssumption DEF Base, TypeOK
<1>2. ASSUME UNCHANGED faults, Unmanaged' \subseteq Unmanaged
      PROVE  Accounted'
  BY <1>1, <1>2, NoneLost DEF Base
<1>3. CASE StartRun \/ ReadOK \/ Plans
  <2>1. UNCHANGED <<vm, job, faults>> /\ cur = None
    BY <1>3
       DEF StartRun, ReadOK, Plans, PlanNothing, PlanCreate, PlanUpdate, PlanDelete,
           Base, Shape, Resting
  <2>2. CASE ReadOK
    <3>1. tf # None /\ tf.vm \in VMs /\ tf.key \in BOOLEAN /\ vm[tf.vm] # None /\ UNCHANGED cur
      BY <2>2 DEF ReadOK, Base, Shape, TypeOK, State
    <3>2. tf' # None
      BY <2>2, <3>1, ReadTyped, StateAssumption DEF ReadOK, Base, TypeOK
    <3>3. tf'.vm = tf.vm
      BY <2>2 DEF ReadOK, vmToTerraformResourceModel
    <3> QED
      BY <1>2, <2>1, <3>1, <3>2, <3>3 DEF Unmanaged, Managed
  <2>3. CASE StartRun \/ Plans
    <3>1. UNCHANGED tf
      BY <2>3 DEF StartRun, Plans, PlanNothing, PlanCreate, PlanUpdate, PlanDelete
    <3> QED
      BY <1>2, <2>1, <3>1, NoneAssumption DEF Unmanaged, Managed
  <2> QED
    BY <1>3, <2>2, <2>3
<1>4. CASE ReadFails
  <2>1. tf # None /\ tf.vm \in VMs /\ UNCHANGED <<vm, job, cur>> /\ GetFails(tf.vm)
    BY <1>4 DEF ReadFails, Base, Shape, TypeOK, State
  <2>2. Unmanaged' \subseteq Unmanaged \cup {tf.vm}
    BY <1>4, <2>1 DEF ReadFails, Unmanaged, Managed
  <2>3. CASE Fault
    BY <2>2, <2>3, OneLost DEF Base
  <2>4. CASE vm[tf.vm] = None /\ UNCHANGED faults
    <3>1. Unmanaged' \subseteq Unmanaged
      BY <2>1, <2>2, <2>4 DEF Unmanaged, Ended
    <3> QED
      BY <1>2, <2>4, <3>1
  <2> QED
    BY <2>1, <2>3, <2>4 DEF GetFails
<1>5. CASE CreateInstance
  <2>1. PICK v \in VMs : /\ cur' = v /\ job' = [job EXCEPT ![v] = CreateJob]
                         /\ cur = None /\ UNCHANGED <<vm, tf, faults>>
    BY <1>5 DEF CreateInstance, Fresh, Base, Shape
  <2>2. Unmanaged' \subseteq Unmanaged
    BY <2>1, NoneAssumption DEF Unmanaged, Managed, Base, TypeOK, CloudTypeOK
  <2> QED
    BY <1>2, <2>1, <2>2
<1>6. CASE CreateFails
  <2>1. tf = None /\ cur = None /\ tf' = None /\ cur' = None /\ UNCHANGED vm
    BY <1>6 DEF CreateFails, Return, Rest, Base, Shape, Creating
  <2>2. CASE UNCHANGED job
    <3>1. Unmanaged' \subseteq Unmanaged
      BY <2>1, <2>2 DEF Unmanaged, Managed
    <3>2. faults' = faults \/ Fault
      BY <1>6 DEF CreateFails
    <3> QED
      BY <1>1, <3>1, <3>2, NoneLost DEF Base, Fault
  <2>3. ASSUME NEW v \in Fresh, Fault, job' = [job EXCEPT ![v] = CreateJob]
        PROVE  Accounted'
    <3>1. Unmanaged' \subseteq Unmanaged \cup {v}
      BY <2>1, <2>3 DEF Unmanaged, Managed, Fresh, Base, TypeOK, CloudTypeOK
    <3> QED
      BY <2>3, <3>1, OneLost DEF Base
  <2> QED
    BY <1>6, <2>2, <2>3 DEF CreateFails
<1>7. CASE CreateDone
  <2>1. cur \in VMs /\ plan \in Want /\ tf = None
    BY <1>7, HandlersInstance DEF CreateDone, Base, Shape, Creating, TypeOK
  <2>2. tf' \in State /\ tf'.vm = cur
    BY <1>7, <2>1 DEF CreateDone, State, Want
  <2>3. tf' # None
    BY <2>2, StateAssumption
  <2>4. UNCHANGED <<vm, job, faults>>
    BY <1>7 DEF CreateDone
  <2>5. Unmanaged' \subseteq Unmanaged
    BY <2>1, <2>2, <2>3, <2>4 DEF Unmanaged, Managed
  <2> QED
    BY <1>2, <2>4, <2>5
<1>8. CASE DeleteDone
  <2>1. vm[cur] = None /\ job[cur] = None /\ cur = tf.vm
    BY <1>8 DEF DeleteDone, DeletedIsGone, Done, Base, Shape, Deleting
  <2>2. Unmanaged' \subseteq Unmanaged /\ UNCHANGED faults
    BY <1>8, <2>1 DEF DeleteDone, Forget, Unmanaged, Managed
  <2> QED
    BY <1>2, <2>2
<1>9. CASE Calls
  <2>1. UNCHANGED <<vm, tf, cur, faults>>
    BY <1>9 DEF Calls, DeleteInstance, DetachDisks, AttachDisks, PatchNic, Stop, Resize, Start, Call
  <2>2. Unmanaged' \subseteq Unmanaged
    BY <1>9, <2>1, RequestsOfTheLiving DEF Unmanaged, Managed, Base
  <2> QED
    BY <1>2, <2>1, <2>2
<1>10. CASE CallErrors \/ Returns
  BY <1>10, ReturnAccounted
<1>11. CASE Locals
  <2>1. UNCHANGED <<vm, job, tf, cur, faults>>
    BY <1>11
       DEF Locals, FindInstance, SkipDetach, DetachDone, SkipAttach, AttachDone, SaveDisks,
           SkipNic, NicCheck, PatchNicDone, SkipResize, ReadPower, StopDone, ResizeDone,
           StartDone, Local
  <2>2. Unmanaged' \subseteq Unmanaged
    BY <2>1 DEF Unmanaged, Managed
  <2> QED
    BY <1>2, <2>1, <2>2
<1>12. ASSUME NEW v \in VMs, OperationSucceeds(v) \/ OperationFails(v)
       PROVE  Accounted'
  <2>1. /\ UNCHANGED <<tf, cur>> /\ (faults' = faults \/ Fault)
        /\ \A w \in VMs : w # v => vm'[w] = vm[w] /\ job'[w] = job[w]
        /\ job[v] # None
    BY <1>12
       DEF OperationSucceeds, Completes, OperationFails, Fails, Base, TypeOK, CloudTypeOK
  <2>2. Unmanaged' \subseteq Unmanaged
    BY <2>1 DEF Unmanaged, Managed
  <2> QED
    BY <1>1, <2>1, <2>2, NoneLost DEF Base, Fault
<1>13. CASE ChangeConfig \/ ImportState \/ UNCHANGED vars
  <2>1. Unmanaged' \subseteq Unmanaged /\ UNCHANGED faults
    BY <1>13 DEF ChangeConfig, ImportState, vars, provider, Unmanaged, Managed
  <2> QED
    BY <1>2, <2>1
<1>14. CASE Console
  <2>1. /\ UNCHANGED <<tf, cur, job, faults>> /\ tf # None
        /\ \A w \in VMs : w # tf.vm => vm'[w] = vm[w]
    BY <1>14 DEF Console, provider, AlteredElsewhere, Base, TypeOK, CloudTypeOK
  <2>2. Unmanaged' \subseteq Unmanaged
    BY <2>1 DEF Unmanaged, Managed
  <2> QED
    BY <1>2, <2>1, <2>2
<1>15. CASE Killed
  <2>1. Unmanaged' \subseteq Unmanaged \cup {cur} /\ Fault
    BY <1>15 DEF Killed, Rest, Unmanaged, Managed
  <2> QED
    BY <2>1, OneLost DEF Base
<1> QED
  BY <1>3, <1>4, <1>5, <1>6, <1>7, <1>8, <1>9, <1>10, <1>11, <1>12, <1>13, <1>14, <1>15,
     StepCases

\* There are no more instances without a record or a handler than there were
\* failed, lost or interrupted calls, however often the instance is replaced,
\* deleted, imported or made anew.
THEOREM OrphansAccounted == Spec => []OrphansNeedFaults
<1>1. Init => Ended /\ Accounted
  <2>1. Init => Unmanaged = {} /\ faults = 0
    BY DEF Init, CloudInit, Unmanaged
  <2>2. IsFiniteSet({}) /\ Cardinality({}) = 0
    BY FS_EmptySet
  <2> QED
    BY <2>1, <2>2 DEF Init, Ended, Accounted
<1>2. Inv /\ Ended /\ Accounted /\ [Next]_vars => (Ended /\ Accounted)'
  BY EndedStep, AccountedStep DEF Inv
<1>3. Accounted => OrphansNeedFaults
  BY DEF Accounted, OrphansNeedFaults
<1> QED
  BY <1>1, <1>2, <1>3, Invariance, PTL DEF Spec

=============================================================================
