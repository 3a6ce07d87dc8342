---------------------------- MODULE InstanceGroup ----------------------------
(***************************************************************************)
(* One crusoe_compute_instance_group resource (internal/instance_group)    *)
(* and the API that keeps the group at its size.  Deleting the group is    *)
(* the long handler: it sets the desired count to zero, asks once which    *)
(* instances are active, deletes these one after the other, remembering    *)
(* failures, and deletes the group if there was none.  Meanwhile the API   *)
(* goes on starting what it had begun to start.                            *)
(***************************************************************************)
EXTENDS Naturals, FiniteSets

CONSTANTS
  None,
  Templates,     \* values of instance_template_id, and of the name
  Instances,     \* the instances there can be
  MaxCount,      \* the largest desired_count
  MaxFaults, MaxEdits

ASSUME InstanceGroupAssumption ==
  /\ None \notin Templates
  /\ MaxCount \in Nat /\ MaxFaults \in Nat /\ MaxEdits \in Nat

VARIABLES
  group,      \* the group that is in the record or will be, or None
  vm,         \* of each instance, how far its life has come
  config,     \* the configuration block, None if there is none
  tf,         \* the stored record, or None
  pc,         \* the stage of the running handler
  listed,     \* the instances Delete has been told of
  todo,       \* those it has not come to
  failed,     \* whether one of them could not be deleted
  others,     \* groups that were made and are in no record
  faults, edits

deletion == <<listed, todo, failed>>
vars == <<group, vm, config, tf, pc, deletion, others, faults, edits>>

Config == [count : 0..MaxCount, template : Templates]
Record == [count : 0..MaxCount, template : Templates,
           active : SUBSET Instances, inactive : SUBSET Instances]
Life   == {"unborn", "starting", "active", "deleting", "gone", "stray"}
Stages == {"idle", "refresh", "plan", "list", "instances", "await", "group"}

ASSUME RecordAssumption == None \notin Config \cup Record

TypeOK ==
  /\ group \in Config \cup {None}
  /\ vm \in [Instances -> Life]
  /\ config \in Config \cup {None}
  /\ tf \in Record \cup {None}
  /\ pc \in Stages
  /\ listed \in SUBSET Instances /\ todo \in SUBSET listed /\ failed \in BOOLEAN
  /\ others \in 0..MaxFaults /\ faults \in 0..MaxFaults /\ edits \in 0..MaxEdits
  /\ pc \in {"list", "instances", "await", "group"} => tf # None
  /\ pc = "await" <=> \E i \in listed : vm[i] = "deleting"
  /\ (listed # {} \/ failed) => pc \in {"instances", "await", "group"}
  /\ (\E i \in Instances : vm[i] \in {"starting", "active"}) => group # None

Init ==
  /\ group = None /\ vm = [i \in Instances |-> "unborn"]
  /\ config \in Config /\ tf = None
  /\ pc = "idle" /\ listed = {} /\ todo = {} /\ failed = FALSE
  /\ others = 0 /\ faults = 0 /\ edits = 0

In(life) == {i \in Instances : vm[i] = life}
Fault == faults < MaxFaults /\ faults' = faults + 1
Edit  == edits < MaxEdits /\ edits' = edits + 1
Quiet == UNCHANGED <<config, edits>>
Answered == UNCHANGED faults /\ Quiet
NoDeletion == UNCHANGED deletion
\* A handler returns, and all it held is forgotten.
Return == pc' = "idle" /\ listed' = {} /\ todo' = {} /\ failed' = FALSE

\* A group that goes leaves its instances behind.
Left == [i \in Instances |-> IF vm[i] \in {"starting", "active"} THEN "stray" ELSE vm[i]]

-----------------------------------------------------------------------------
(* Refresh and plan.                                                       *)

\* IDs are sorted, so that their order is no difference.
instanceGroupToResourceModel(g) ==
  [count |-> g.count, template |-> g.template,
   active |-> In("active"), inactive |-> In("starting") \cup In("deleting")]

StartRun ==
  /\ pc = "idle" /\ pc' = "refresh"
  /\ UNCHANGED <<group, vm, tf, others>> /\ NoDeletion /\ Answered

\* Slip: the prior record is stored again.
ReadKeepsPrior ==
  /\ pc = "refresh" /\ (tf # None => group # None)
  /\ pc' = "plan"
  /\ UNCHANGED <<group, vm, tf, others>> /\ NoDeletion /\ Answered
Read ==
  /\ pc = "refresh" /\ (tf # None => group # None)
  /\ tf' = IF tf = None THEN None ELSE instanceGroupToResourceModel(group)
  /\ pc' = "plan"
  /\ UNCHANGED <<group, vm, others>> /\ NoDeletion /\ Answered

\* A 404 comes as an error, and errors are looked at first: the record stays.
ReadMissing ==
  /\ pc = "refresh" /\ tf # None /\ group = None
  /\ Return
  /\ UNCHANGED <<group, vm, tf, others>> /\ Answered

ReadFails ==
  /\ pc = "refresh" /\ tf # None /\ Fault
  /\ Return
  /\ UNCHANGED <<group, vm, tf, others>> /\ Quiet

Differs == config # [count |-> tf.count, template |-> tf.template]

PlanNothing ==
  /\ pc = "plan"
  /\ \/ config = None /\ tf = None
     \/ config # None /\ tf # None /\ ~Differs
  /\ Return
  /\ UNCHANGED <<group, vm, tf, others>> /\ Answered

-----------------------------------------------------------------------------
(* Create and Update: the answer is stored.                                *)

Creates == pc = "plan" /\ config # None /\ tf = None
\* A group from a Create whose answer was lost stays, but nobody's.
Made ==
  /\ group' = config /\ vm' = Left
  /\ others' = IF group = None THEN others ELSE others + 1

Create ==
  /\ Creates /\ Made
  /\ tf' = [count |-> config.count, template |-> config.template, active |-> {}, inactive |-> {}]
  /\ Return
  /\ Answered

CreateFails ==
  /\ Creates /\ Fault
  /\ Made \/ UNCHANGED <<group, vm, others>>
  /\ Return
  /\ UNCHANGED tf /\ Quiet

Updates == pc = "plan" /\ config # None /\ tf # None /\ Differs

\* The lists of instances are planned as recorded.  Where one has changed
\* meanwhile, Terraform reports a result other than planned and stores it all
\* the same: the record is the answer in either case.
Update ==
  /\ Updates /\ group # None
  /\ group' = config
  /\ tf' = instanceGroupToResourceModel(config)
  /\ Return
  /\ UNCHANGED <<vm, others>> /\ Answered

\* The request is lost, its answer is, or there is no such group.
UpdateFails ==
  /\ Updates
  /\ \/ group = None /\ UNCHANGED <<group, faults>>
     \/ Fault /\ UNCHANGED group
     \/ group # None /\ Fault /\ group' = config
  /\ Return
  /\ UNCHANGED <<vm, tf, others>> /\ Quiet

-----------------------------------------------------------------------------
(* Delete.                                                                 *)

Deletes == pc = "plan" /\ config = None /\ tf # None
Zeroed == group' = [group EXCEPT !.count = 0]

ScaleToZero ==
  /\ Deletes /\ group # None
  /\ Zeroed
  /\ pc' = "list"
  /\ UNCHANGED <<vm, tf, others>> /\ NoDeletion /\ Answered

ScaleToZeroFails ==
  /\ Deletes
  /\ \/ group = None /\ UNCHANGED <<group, faults>>
     \/ Fault /\ UNCHANGED group
     \/ group # None /\ Fault /\ Zeroed
  /\ Return
  /\ UNCHANGED <<vm, tf, others>> /\ Quiet

\* Slip: the record is dropped before the instances are.
DropsFirst ==
  /\ pc = "list" /\ group # None
  /\ listed' = In("active") /\ todo' = In("active") /\ failed' = FALSE
  /\ tf' = None /\ pc' = "instances"
  /\ UNCHANGED <<group, vm, others>> /\ Answered
GetInstanceGroup ==
  /\ pc = "list" /\ group # None
  /\ listed' = In("active") /\ todo' = In("active") /\ failed' = FALSE
  /\ pc' = "instances"
  /\ UNCHANGED <<group, vm, tf, others>> /\ Answered

GetInstanceGroupFails ==
  /\ pc = "list"
  /\ \/ group = None /\ UNCHANGED faults
     \/ Fault
  /\ Return
  /\ UNCHANGED <<group, vm, tf, others>> /\ Quiet

DeleteInstance(i) ==
  /\ pc = "instances" /\ i \in todo /\ vm[i] \in {"active", "stray"}
  /\ vm' = [vm EXCEPT ![i] = "deleting"] /\ todo' = todo \ {i}
  /\ pc' = "await"
  /\ UNCHANGED <<group, tf, listed, failed, others>> /\ Answered

\* The request fails, or is obeyed and its answer lost; an instance that has
\* gone since the list was made is a failure too.
DeleteInstanceFails(i) ==
  /\ pc = "instances" /\ i \in todo
  /\ \/ vm[i] = "gone" /\ UNCHANGED <<vm, faults>>
     \/ Fault /\ UNCHANGED vm
     \/ Fault /\ vm' = [vm EXCEPT ![i] = "gone"]
  /\ failed' = TRUE /\ todo' = todo \ {i}
  /\ UNCHANGED <<group, tf, pc, listed, others>> /\ Quiet

AwaitInstance(i) ==
  /\ pc = "await" /\ vm[i] = "deleting"
  /\ vm' = [vm EXCEPT ![i] = "gone"]
  /\ pc' = "instances"
  /\ UNCHANGED <<group, tf, listed, todo, failed, others>> /\ Answered

\* The operation fails, or cannot be polled and ends well all the same.
\* Slip: the failure is not remembered.
Awaited(i) ==
  /\ pc = "await" /\ vm[i] = "deleting" /\ Fault
  /\ \E end \in {"gone", IF group = None THEN "stray" ELSE "active"} : vm' = [vm EXCEPT ![i] = end]
  /\ pc' = "instances"
  /\ UNCHANGED <<group, tf, listed, todo, others>> /\ Quiet
AwaitFailsForgotten(i) == Awaited(i) /\ UNCHANGED failed
AwaitInstanceFails(i) == Awaited(i) /\ failed' = TRUE

InstancesFailed ==
  /\ pc = "instances" /\ todo = {} /\ failed
  /\ Return
  /\ UNCHANGED <<group, vm, tf, others>> /\ Answered

InstancesDone ==
  /\ pc = "instances" /\ todo = {} /\ ~failed
  /\ pc' = "group"
  /\ UNCHANGED <<group, vm, tf, others>> /\ NoDeletion /\ Answered

DeleteInstanceGroup ==
  /\ pc = "group" /\ group # None
  /\ group' = None /\ vm' = Left
  /\ tf' = None /\ Return
  /\ UNCHANGED others /\ Answered

DeleteInstanceGroupFails ==
  /\ pc = "group"
  /\ \/ group = None /\ UNCHANGED <<group, vm, faults>>
     \/ Fault /\ UNCHANGED <<group, vm>>
     \/ group # None /\ Fault /\ group' = None /\ vm' = Left
  /\ Return
  /\ UNCHANGED <<tf, others>> /\ Quiet

\* The provider is killed: what it holds is forgotten.
Killed ==
  /\ pc \in {"list", "instances", "await", "group"} /\ Fault
  /\ Return
  /\ vm' = [i \in Instances |-> IF vm[i] = "deleting" THEN "gone" ELSE vm[i]]
  /\ UNCHANGED <<group, tf, others>> /\ Quiet

-----------------------------------------------------------------------------
(* The API keeps the group at its size; others have the console.           *)

Working == UNCHANGED <<group, tf, pc, others, faults>> /\ NoDeletion /\ Quiet

Starts(i) ==
  /\ group # None /\ vm[i] = "unborn"
  /\ Cardinality(In("starting") \cup In("active")) < group.count
  /\ vm' = [vm EXCEPT ![i] = "starting"]
  /\ Working

Started(i) ==
  /\ vm[i] = "starting"
  /\ vm' = [vm EXCEPT ![i] = "active"]
  /\ Working

\* An instance too many is taken away, or one fails.
Ends(i) ==
  /\ group # None /\ vm[i] = "active"
  /\ Cardinality(In("active")) > group.count
  /\ vm' = [vm EXCEPT ![i] = "gone"]
  /\ Working

Console ==
  /\ Edit /\ group # None
  /\ \/ \E g \in Config \ {group} : group' = g /\ UNCHANGED vm
     \/ group' = None /\ vm' = Left
  /\ UNCHANGED <<config, tf, pc, others, faults>> /\ NoDeletion

ChangeConfig ==
  /\ pc = "idle" /\ Edit
  /\ \E c \in (Config \cup {None}) \ {config} : config' = c
  /\ UNCHANGED <<group, vm, tf, pc, others, faults>> /\ NoDeletion

\* terraform import and the Read after it.
ImportState ==
  /\ pc = "idle" /\ Edit /\ tf = None /\ group # None /\ config # None
  /\ tf' = instanceGroupToResourceModel(group)
  /\ UNCHANGED <<group, vm, config, pc, others, faults>> /\ NoDeletion

-----------------------------------------------------------------------------
Instance(i) ==
  DeleteInstance(i) \/ DeleteInstanceFails(i) \/ AwaitInstance(i) \/ AwaitInstanceFails(i)
Handler ==
  \/ Read \/ ReadMissing \/ ReadFails \/ PlanNothing
  \/ Create \/ CreateFails \/ Update \/ UpdateFails
  \/ ScaleToZero \/ ScaleToZeroFails \/ GetInstanceGroup \/ GetInstanceGroupFails
  \/ \E i \in Instances : Instance(i)
  \/ InstancesFailed \/ InstancesDone \/ DeleteInstanceGroup \/ DeleteInstanceGroupFails
API == \E i \in Instances : Starts(i) \/ Started(i) \/ Ends(i)

Next == StartRun \/ Handler \/ Killed \/ API \/ Console \/ ChangeConfig \/ ImportState

Spec == Init /\ [][Next]_vars

\* Terraform is run again and again, and the process runs.
FairSpec == Spec /\ WF_vars(StartRun) /\ WF_vars(Handler)

-----------------------------------------------------------------------------
(* Properties.                                                             *)

\* No more groups are in no record than creations failed: neither a deletion
\* cut off anywhere nor an update that fails gives up the group it is about.
OrphansNeedFaults ==
  others + (IF group # None /\ tf = None THEN 1 ELSE 0) <= faults

\* When Delete has removed the group, none of the instances it was told of is
\* left running: what survives became active after the list was made.
ListedAreGone ==
  [][(group # None /\ group' = None /\ pc = "group" /\ edits' = edits) =>
       \A i \in listed : vm'[i] = "gone"]_vars

\* When faults and edits are over, repeated runs make the group what is
\* configured, however far a Delete before them came; a group that somebody
\* else removed is the exception, no run gets past reading it.
Settled ==
  \/ config = None /\ tf = None
  \/ tf # None /\ group = None
  \/ config # None /\ tf # None /\ ~Differs /\ group = config
Converges == <>[](pc = "idle" => Settled)
=============================================================================
