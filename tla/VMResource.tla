----------------------------- MODULE VMResource -----------------------------
(***************************************************************************)
(* One crusoe_compute_instance resource: Terraform's refresh, plan and     *)
(* apply of it, and the handlers Create, Read, Update and Delete of        *)
(* internal/vm/vm_resource.go, against the API of module CloudVM.          *)
(*                                                                         *)
(* A handler is a sequence of API calls.  Each call and each wait for its  *)
(* operation is one action, so that anything else - an operation           *)
(* finishing, somebody working in the console, the provider being killed - *)
(* can happen between two of them.  A handler writes the resource's state  *)
(* into its response; Terraform stores the response when the handler       *)
(* returns, with an error or without, and stores nothing if it dies.       *)
(***************************************************************************)
EXTENDS CloudVM, Naturals, FiniteSets

CONSTANTS
  Family,      \* Family[t]: product family of type t, None if t names none
  DefaultNic,  \* the interface the API gives an instance created without one
  MaxFaults,   \* bound on failed, lost and interrupted calls
  MaxEdits     \* bound on changes of the configuration and in the console, and imports

ASSUME VMResourceAssumption ==
  /\ Family \in [Types -> STRING \cup {None}]
  /\ DefaultNic \in Nics
  /\ MaxFaults \in Nat
  /\ MaxEdits \in Nat

VARIABLES
  config,      \* what the configuration asks for, None if nothing
  tf,          \* the resource in Terraform's stored state, None if absent
  pc,          \* what the provider does next
  cur,         \* the instance the running handler works on
  plan,        \* the planned resource of this run
  resp,        \* the resource state in the response of the running handler
  op,          \* state of the operation the handler awaits
  wasRunning,  \* Update's local of that name
  before,      \* history: power state of the instance when Update began
  disturbed,   \* history: since the managed instance was last read, it was changed
               \* other than by an operation whose success the provider was told
  faults,      \* failed, lost and interrupted calls so far
  edits        \* changes of the configuration and in the console, and imports, so far

provider == <<pc, cur, plan, resp, op, wasRunning, before>>
vars == <<vm, job, config, tf, provider, disturbed, faults, edits>>

\* nic is None in a configuration that leaves network_interfaces out, and
\* location tells whether that attribute is given.  key tells whether the record
\* holds the ssh_key, which the API does not answer.
Config == [type : Types, disks : DiskMap, nic : Nics \cup {None}, location : BOOLEAN]
State  == [vm : VMs, type : Types, disks : DiskMap, nic : Nics, key : BOOLEAN]

Awaiting == {"creating", "detaching", "attaching", "patching", "stopping",
             "resizing", "starting", "deleting"}
Stages == {"idle", "refresh", "plan", "create", "detach", "attach", "save", "nic",
           "patch", "size", "stop", "resize", "start", "finish", "find", "delete"}
            \cup Awaiting

ASSUME StateAssumption == None \notin Config \cup State

TypeOK ==
  /\ CloudTypeOK
  /\ config \in Config \cup {None}
  /\ tf \in State \cup {None}
  /\ pc \in Stages
  /\ cur \in VMs \cup {None}
  /\ plan \in Want \cup {None}
  /\ resp \in State \cup {None}
  /\ op \in {"NONE", "IN_PROGRESS", "SUCCEEDED", "FAILED"}
  /\ wasRunning \in BOOLEAN
  /\ before \in Powers
  /\ disturbed \in BOOLEAN
  /\ faults \in 0..MaxFaults
  /\ edits \in 0..MaxEdits

Init ==
  /\ CloudInit
  /\ config \in Config
  /\ tf = None
  /\ pc = "idle"
  /\ cur = None /\ plan = None /\ resp = None
  /\ op = "NONE" /\ wasRunning = FALSE /\ before = StateRunning
  /\ disturbed = FALSE
  /\ faults = 0 /\ edits = 0

Fault == faults < MaxFaults /\ faults' = faults + 1
Edit  == edits < MaxEdits /\ edits' = edits + 1

\* What the provider makes of instance v, into a record with or without the key.
vmToTerraformResourceModel(v, key) ==
  [vm |-> v, type |-> vm[v].type, disks |-> vm[v].disks, nic |-> vm[v].nic, key |-> key]

\* No handler runs any more, and its locals are gone.
Rest ==
  /\ pc' = "idle"
  /\ cur' = None /\ plan' = None /\ resp' = None
  /\ op' = "NONE" /\ wasRunning' = FALSE /\ before' = StateRunning

\* The running handler returns and Terraform stores its response.
Return == tf' = resp /\ Rest

-----------------------------------------------------------------------------
(* Calls that start an operation on the current instance, and the wait.    *)

\* The API starts the operation and the handler learns its ID.
Call(kind, ids, want, next) ==
  /\ Accepts(cur)
  /\ job' = [job EXCEPT ![cur] = [kind |-> kind, ids |-> ids, want |-> want]]
  /\ op' = "IN_PROGRESS"
  /\ pc' = next
  /\ UNCHANGED <<vm, config, tf, cur, plan, resp, wasRunning, before, disturbed, faults, edits>>

\* The handler gets an error instead: the API refuses the request, the request
\* is lost, or it is carried out and its answer is lost.
CallFails(kind, ids, want) ==
  /\ \/ ~Accepts(cur) /\ UNCHANGED <<job, faults>>
     \/ Fault /\ UNCHANGED job
     \/ /\ Fault
        /\ Accepts(cur)
        /\ job' = [job EXCEPT ![cur] = [kind |-> kind, ids |-> ids, want |-> want]]
  /\ Return
  /\ UNCHANGED <<vm, config, disturbed, edits>>

\* AwaitOperation reports success.
Succeeded == op = "SUCCEEDED"

\* AwaitOperation reports an error, the operation's own or that of a poll, in
\* which case the operation goes on, or has even succeeded, unknown to the
\* provider.  Every handler returns: its response keeps what it held before.
AwaitFails ==
  /\ pc \in Awaiting
  /\ \/ op = "FAILED" /\ UNCHANGED <<disturbed, faults>>
     \/ /\ Fault
        /\ disturbed' = (disturbed \/ Succeeded)
  /\ Return
  /\ UNCHANGED <<vm, job, config, edits>>

\* A step of the handler that calls nothing.
Local(next) ==
  /\ pc' = next
  /\ op' = "NONE"
  /\ UNCHANGED <<vm, job, config, tf, cur, plan, before, disturbed, faults, edits>>

\* GetInstance fails: the instance is gone, or the call is lost.
GetFails(v) == (vm[v] = None /\ UNCHANGED faults) \/ Fault

-----------------------------------------------------------------------------
(* Terraform: refresh, plan, and the choice of the handlers to run.        *)

StartRun ==
  /\ pc = "idle"
  /\ pc' = IF tf = None THEN "plan" ELSE "refresh"
  /\ UNCHANGED <<vm, job, config, tf, cur, plan, resp, op, wasRunning, before,
                 disturbed, faults, edits>>

ReadOK ==
  /\ pc = "refresh"
  /\ vm[tf.vm] # None
  /\ tf' = vmToTerraformResourceModel(tf.vm, tf.key)
  /\ disturbed' = FALSE
  /\ pc' = "plan"
  /\ UNCHANGED <<vm, job, config, cur, plan, resp, op, wasRunning, before, faults, edits>>

\* Slip: refresh keeps the resource it cannot read.
ReadFailsKeeps ==
  /\ pc = "refresh"
  /\ GetFails(tf.vm)
  /\ pc' = "idle"
  /\ UNCHANGED <<vm, job, config, tf, cur, plan, resp, op, wasRunning, before, disturbed, edits>>

\* Read drops the resource on any error of GetInstance.
ReadFails ==
  /\ pc = "refresh"
  /\ GetFails(tf.vm)
  /\ tf' = None
  /\ disturbed' = FALSE
  /\ pc' = "plan"
  /\ UNCHANGED <<vm, job, config, cur, plan, resp, op, wasRunning, before, edits>>

\* Slip: an omitted network_interfaces is planned as it stands.
PlannedUnresolved(prior) ==
  [type |-> config.type, disks |-> config.disks, nic |-> config.nic]

\* The planned resource: an omitted network_interfaces keeps the prior value
\* (UseStateForUnknown), or the API's choice if there is no prior resource.
Planned(prior) ==
  [type |-> config.type, disks |-> config.disks,
   nic |-> CASE config.nic # None -> config.nic
             [] config.nic = None /\ prior # None -> prior.nic
             [] config.nic = None /\ prior = None -> DefaultNic]

\* Whether a change of type replaces the instance.
resizeRequiresReplace(from, to) ==
  from # to /\ (Family[from] = None \/ Family[from] # Family[to])

AsPlanned(p) == tf.type = p.type /\ tf.disks = p.disks /\ tf.nic = p.nic

Unchanged == tf.key /\ AsPlanned(Planned(tf))

\* Whether the changes planned replace the instance: a location left out is
\* planned as unknown by any change (it has no UseStateForUnknown), and the
\* ssh_key an import leaves out is a change.  A type of the same family is then
\* no change in place, as the comment of resizeRequiresReplace has it.
RequiresReplace ==
  ~Unchanged /\ (~tf.key \/ ~config.location \/ resizeRequiresReplace(tf.type, config.type))

PlanNothing ==
  /\ pc = "plan"
  /\ \/ config = None /\ tf = None
     \/ config # None /\ tf # None /\ Unchanged
  /\ pc' = "idle"
  /\ UNCHANGED <<vm, job, config, tf, cur, plan, resp, op, wasRunning, before,
                 disturbed, faults, edits>>

PlanCreate ==
  /\ pc = "plan" /\ config # None /\ tf = None
  /\ plan' = Planned(None)
  /\ pc' = "create"
  /\ UNCHANGED <<vm, job, config, tf, cur, resp, op, wasRunning, before, disturbed, faults, edits>>

PlanUpdate ==
  /\ pc = "plan" /\ config # None /\ tf # None
  /\ ~Unchanged /\ ~RequiresReplace
  /\ plan' = Planned(tf)
  /\ cur' = tf.vm /\ resp' = tf
  /\ before' = IF vm[tf.vm] = None THEN before ELSE vm[tf.vm].power
  /\ pc' = "detach"
  /\ UNCHANGED <<vm, job, config, tf, op, wasRunning, disturbed, faults, edits>>

\* Delete runs, and Create after it when the plan is to replace.
PlanDelete ==
  /\ pc = "plan" /\ tf # None
  /\ \/ config = None /\ plan' = None
     \/ config # None /\ RequiresReplace /\ plan' = Planned(None)
  /\ cur' = tf.vm /\ resp' = tf
  /\ pc' = "find"
  /\ UNCHANGED <<vm, job, config, tf, op, wasRunning, before, disturbed, faults, edits>>

\* terraform import: the ID the practitioner names becomes a resource, and Read
\* fills in what the API answers.  An import that fails leaves everything as it was.
ImportState ==
  /\ pc = "idle" /\ config # None /\ tf = None
  /\ Edit
  /\ \E v \in VMs : vm[v] # None /\ tf' = vmToTerraformResourceModel(v, FALSE)
  /\ disturbed' = FALSE
  /\ UNCHANGED <<vm, job, config, provider, faults>>

-----------------------------------------------------------------------------
(* Create and Delete.                                                      *)

\* Identities the API may give a new instance.
Fresh == {v \in VMs : vm[v] = None /\ job[v] = None /\ (tf = None \/ tf.vm # v)}

CreateJob == [kind |-> "create", ids |-> {}, want |-> plan]

CreateInstance ==
  /\ pc = "create"
  /\ \E v \in Fresh :
       /\ cur' = v
       /\ job' = [job EXCEPT ![v] = CreateJob]
  /\ op' = "IN_PROGRESS"
  /\ pc' = "creating"
  /\ disturbed' = FALSE
  /\ UNCHANGED <<vm, config, tf, plan, resp, wasRunning, before, faults, edits>>

\* A POST is never sent twice (HTTPRetryPolicy): the first error is final.
CreateFails ==
  /\ pc = "create"
  /\ \/ Fresh = {} /\ UNCHANGED <<job, faults>>
     \/ Fault /\ UNCHANGED job
     \/ Fault /\ \E v \in Fresh : job' = [job EXCEPT ![v] = CreateJob]
  /\ Return
  /\ UNCHANGED <<vm, config, disturbed, edits>>

\* The operation's result holds the instance as it was created.
CreateDone ==
  /\ pc = "creating" /\ Succeeded
  /\ tf' = [vm |-> cur, type |-> plan.type, disks |-> plan.disks, nic |-> plan.nic, key |-> TRUE]
  /\ Rest
  /\ UNCHANGED <<vm, job, config, disturbed, faults, edits>>

FindInstance ==
  /\ pc = "find"
  /\ vm[cur] # None
  /\ Local("delete") /\ UNCHANGED <<resp, wasRunning>>

\* Slip: a Delete that does not find the instance drops the resource.
FindFailsDrops ==
  /\ pc = "find"
  /\ GetFails(cur)
  /\ tf' = None /\ Rest
  /\ UNCHANGED <<vm, job, config, disturbed, edits>>

FindFails ==
  /\ pc = "find"
  /\ GetFails(cur)
  /\ Return
  /\ UNCHANGED <<vm, job, config, disturbed, edits>>

DeleteInstance == pc = "delete" /\ Call("delete", {}, None, "deleting")
DeleteFails    == pc = "delete" /\ CallFails("delete", {}, None)

\* Terraform forgets the resource, and goes on to replace it if that is the plan.
Forget ==
  /\ tf' = None /\ resp' = None /\ cur' = None
  /\ op' = "NONE"
  /\ pc' = IF plan = None THEN "idle" ELSE "create"
  /\ disturbed' = FALSE
  /\ UNCHANGED <<vm, job, config, plan, wasRunning, before, faults, edits>>

\* Slip: Delete does not wait for its operation.
DeleteNotAwaited == pc = "deleting" /\ Forget

DeleteDone == pc = "deleting" /\ Succeeded /\ Forget

-----------------------------------------------------------------------------
(* Update: detach, attach, save; public IP; stop, resize, save, start.     *)

\* getDisksDiff: disks of one set that have no match of the same mode in the other.
AddedByIdOnly(orig, new) == {d \in Disks : new[d] # Detached /\ orig[d] = Detached}  \* slip
Added(orig, new)   == {d \in Disks : new[d] # Detached /\ new[d] # orig[d]}
Removed(orig, new) == {d \in Disks : orig[d] # Detached /\ new[d] # orig[d]}

ToDetach == Removed(resp.disks, plan.disks)
ToAttach == Added(resp.disks, plan.disks)

SkipDetach ==
  /\ pc = "detach" /\ ToDetach = {}
  /\ Local("attach") /\ UNCHANGED <<resp, wasRunning>>

DetachDisks ==
  /\ pc = "detach" /\ ToDetach # {}
  /\ Call("detach", ToDetach, None, "detaching")

\* The handler reports the error, goes on and dies on the operation it was not
\* given.  Nothing has been done yet, so the state it leaves is the prior one.
DetachFails ==
  /\ pc = "detach" /\ ToDetach # {}
  /\ CallFails("detach", ToDetach, None)

DetachDone ==
  /\ pc = "detaching" /\ Succeeded
  /\ Local("attach") /\ UNCHANGED <<resp, wasRunning>>

SkipAttach ==
  /\ pc = "attach" /\ ToAttach = {}
  /\ Local("save") /\ UNCHANGED <<resp, wasRunning>>

AttachDisks ==
  /\ pc = "attach" /\ ToAttach # {}
  /\ Call("attach", ToAttach, plan, "attaching")

AttachFails ==
  /\ pc = "attach" /\ ToAttach # {}
  /\ CallFails("attach", ToAttach, plan)

AttachDone ==
  /\ pc = "attaching" /\ Succeeded
  /\ Local("save") /\ UNCHANGED <<resp, wasRunning>>

SaveDisks ==
  /\ pc = "save"
  /\ resp' = [resp EXCEPT !.disks = plan.disks]
  /\ Local("nic") /\ UNCHANGED wasRunning

SkipNic ==
  /\ pc = "nic" /\ plan.nic = resp.nic
  /\ Local("size") /\ UNCHANGED <<resp, wasRunning>>

NicCheck ==
  /\ pc = "nic" /\ plan.nic # resp.nic
  /\ vm[cur] # None /\ vm[cur].power = StateRunning
  /\ Local("patch") /\ UNCHANGED <<resp, wasRunning>>

\* The handler gives up unless it sees the instance running.
NicRefused ==
  /\ pc = "nic" /\ plan.nic # resp.nic
  /\ \/ vm[cur] # None /\ vm[cur].power # StateRunning /\ UNCHANGED faults
     \/ GetFails(cur)
  /\ Return
  /\ UNCHANGED <<vm, job, config, disturbed, edits>>

PatchNic      == pc = "patch" /\ Call("nic", {}, plan, "patching")
PatchNicFails == pc = "patch" /\ CallFails("nic", {}, plan)

PatchNicDone ==
  /\ pc = "patching" /\ Succeeded
  /\ resp' = [resp EXCEPT !.nic = plan.nic]
  /\ Local("size") /\ UNCHANGED wasRunning

SkipResize ==
  /\ pc = "size" /\ plan.type = resp.type
  /\ Local("finish") /\ UNCHANGED <<resp, wasRunning>>

\* The reading of the power state after which Update stops the instance, and
\* two slips in it.
NeedsStopUnlessStopped(power) == power # StateStopped
NeedsStopIfRunning(power)     == power = StateRunning
NeedsStop(power)              == power # StateStopped /\ power # StateShutoff

\* The power state is read once, and every later decision uses this reading.
ReadPower ==
  /\ pc = "size" /\ plan.type # resp.type
  /\ vm[cur] # None
  /\ wasRunning' = NeedsStop(vm[cur].power)
  /\ Local(IF wasRunning' THEN "stop" ELSE "resize") /\ UNCHANGED resp

ReadPowerFails ==
  /\ pc = "size" /\ plan.type # resp.type
  /\ GetFails(cur)
  /\ Return
  /\ UNCHANGED <<vm, job, config, disturbed, edits>>

Stop      == pc = "stop" /\ Call("stop", {}, None, "stopping")
StopFails == pc = "stop" /\ CallFails("stop", {}, None)

StopDone ==
  /\ pc = "stopping" /\ Succeeded
  /\ Local("resize") /\ UNCHANGED <<resp, wasRunning>>

Resize      == pc = "resize" /\ Call("resize", {}, plan, "resizing")
ResizeFails == pc = "resize" /\ CallFails("resize", {}, plan)

\* Slip: the new type is not stored.
ResizeDoneUnsaved ==
  /\ pc = "resizing" /\ Succeeded
  /\ Local(IF wasRunning THEN "start" ELSE "finish") /\ UNCHANGED <<resp, wasRunning>>

ResizeDone ==
  /\ pc = "resizing" /\ Succeeded
  /\ resp' = [resp EXCEPT !.type = plan.type]
  /\ Local(IF wasRunning THEN "start" ELSE "finish") /\ UNCHANGED wasRunning

Start      == pc = "start" /\ Call("start", {}, None, "starting")
StartFails == pc = "start" /\ CallFails("start", {}, None)

StartDone ==
  /\ pc = "starting" /\ Succeeded
  /\ Local("finish") /\ UNCHANGED <<resp, wasRunning>>

Finish ==
  /\ pc = "finish"
  /\ Return
  /\ UNCHANGED <<vm, job, config, disturbed, faults, edits>>

-----------------------------------------------------------------------------
(* The world around the handlers.                                          *)

Managed(v) == v = cur \/ (tf # None /\ v = tf.vm)

\* The handler holds the ID of the operation of v and polls it.
Awaited(v) == v = cur /\ op = "IN_PROGRESS"

OperationSucceeds(v) ==
  /\ Completes(v)
  /\ op' = IF Awaited(v) THEN "SUCCEEDED" ELSE op
  /\ disturbed' = (disturbed \/ (Managed(v) /\ ~Awaited(v)))
  /\ UNCHANGED <<config, tf, pc, cur, plan, resp, wasRunning, before, faults, edits>>

\* An operation fails because the instance does not admit it, or by a fault.
OperationFails(v) ==
  /\ Fails(v)
  /\ \/ ~Admits(vm[v], job[v]) /\ UNCHANGED faults
     \/ Fault
  /\ op' = IF Awaited(v) THEN "FAILED" ELSE op
  /\ UNCHANGED <<config, tf, pc, cur, plan, resp, wasRunning, before, disturbed, edits>>

\* The practitioner edits the configuration, or removes the resource from it.
ChangeConfig ==
  /\ pc = "idle"
  /\ Edit
  /\ config' \in (Config \cup {None}) \ {config}
  /\ UNCHANGED <<vm, job, tf, provider, disturbed, faults>>

\* Somebody works on the managed instance in the console.
Console ==
  /\ tf # None
  /\ Edit
  /\ AlteredElsewhere(tf.vm)
  /\ disturbed' = TRUE
  /\ UNCHANGED <<config, tf, provider, faults>>

\* The provider is killed while a handler runs: its response is lost.
Killed ==
  /\ cur # None
  /\ Fault
  /\ disturbed' = TRUE
  /\ Rest
  /\ UNCHANGED <<vm, job, config, tf, edits>>

Handler ==
  \/ ReadOK \/ ReadFails
  \/ PlanNothing \/ PlanCreate \/ PlanUpdate \/ PlanDelete
  \/ CreateInstance \/ CreateFails \/ CreateDone
  \/ FindInstance \/ FindFails \/ DeleteInstance \/ DeleteFails \/ DeleteDone
  \/ SkipDetach \/ DetachDisks \/ DetachFails \/ DetachDone
  \/ SkipAttach \/ AttachDisks \/ AttachFails \/ AttachDone \/ SaveDisks
  \/ SkipNic \/ NicCheck \/ NicRefused \/ PatchNic \/ PatchNicFails \/ PatchNicDone
  \/ SkipResize \/ ReadPower \/ ReadPowerFails \/ Stop \/ StopFails \/ StopDone
  \/ Resize \/ ResizeFails \/ ResizeDone \/ Start \/ StartFails \/ StartDone
  \/ Finish
  \/ AwaitFails

Next ==
  \/ StartRun
  \/ Handler
  \/ \E v \in VMs : OperationSucceeds(v) \/ OperationFails(v)
  \/ ChangeConfig \/ ImportState \/ Console \/ Killed

Spec == Init /\ [][Next]_vars

\* Terraform is run again and again, the provider process runs, and the API
\* finishes what it has started.  Nobody has to make mistakes or edits.
Fairness ==
  /\ WF_vars(StartRun)
  /\ WF_vars(Handler)
  /\ \A v \in VMs : WF_vars(OperationSucceeds(v) \/ OperationFails(v))

FairSpec == Spec /\ Fairness

-----------------------------------------------------------------------------
(* Properties.                                                             *)

\* Between runs, and unless somebody else changed the instance meanwhile or
\* the provider was cut off from an answer, Terraform's record is true: the
\* instance exists with the recorded type and interface, and no disk is
\* attached to it that the record does not show with its mode.  A failed
\* detach and attach may leave the record showing a disk too many, never one
\* too few; and a resize that succeeded is recorded even when the restart
\* after it failed (vm_resource.go, "Persist the new type before attempting
\* the restart").
RecordTracksCloud ==
  (pc = "idle" /\ tf # None /\ ~disturbed) =>
     /\ vm[tf.vm] # None
     /\ tf.type = vm[tf.vm].type
     /\ tf.nic = vm[tf.vm].nic
     /\ \A d \in Disks : vm[tf.vm].disks[d] \in {Detached, tf.disks[d]}

\* An Update about to return without an error has made the instance what the
\* plan says, and has exactly that in its response.
FinishedAsPlanned ==
  (pc = "finish" /\ ~disturbed) =>
     /\ vm[cur] # None
     /\ resp = vmToTerraformResourceModel(cur, resp.key)
     /\ resp.type = plan.type /\ resp.disks = plan.disks /\ resp.nic = plan.nic

\* An Update about to return without an error leaves the power state as it
\* found it: it never turns on an instance that was off, and one that was not
\* off runs again after a resize.
PowerRestored ==
  (pc = "finish" /\ ~disturbed) =>
     vm[cur].power \in {before} \cup (IF Off(before) THEN {} ELSE {StateRunning})

\* The provider resizes only an instance that is off, although it reads the
\* power state once and acts on this reading several calls later.
ResizedWhileOff ==
  (pc \in {"resize", "resizing"} /\ ~disturbed) =>
     vm[cur] # None /\ Off(vm[cur].power)

\* Every instance Terraform does not know of is the price of a failed, lost or
\* interrupted call: replacing, deleting and re-creating in any order leaves
\* none behind by itself.
Unmanaged ==
  {v \in VMs : ~Managed(v) /\ (vm[v] # None \/ job[v] # None)}
OrphansNeedFaults == Cardinality(Unmanaged) <= faults

\* Outside of a refresh, the resource leaves Terraform's state only when its
\* instance is gone: Delete waits for its operation, and no error path drops it.
DropsOnlyTheDeleted ==
  [][(tf # None /\ tf' = None) => (pc = "refresh" \/ vm[tf.vm] = None)]_vars

\* What the comment in Read says of every resource it drops: that the instance
\* has been deleted out of band.
ReadDropsOnlyTheDeleted ==
  [][(tf # None /\ tf' = None) => vm[tf.vm] = None]_vars

\* The record and the instance are what the configuration asks for.
Settled ==
  IF config = None THEN tf = None
  ELSE /\ tf # None
       /\ Unchanged
       /\ vm[tf.vm] # None
       /\ tf = vmToTerraformResourceModel(tf.vm, TRUE)

\* Once mistakes and edits cease, running Terraform again and again makes the
\* instance what the configuration asks for, whatever was left half done.
Converges == <>[]Settled

\* What the warning of resizeRequiresReplace and CHANGELOG.md:75 say: an
\* instance the provider found running and stopped for a resize is started
\* again, be it by a later run.
RestartedAfterResize ==
  \A v \in VMs :
     (pc = "resize" /\ cur = v /\ wasRunning) ~>
        (vm[v] = None \/ vm[v].power = StateRunning)
=============================================================================
