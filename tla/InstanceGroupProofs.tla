------------------------- MODULE InstanceGroupProofs -------------------------
(***************************************************************************)
(* Proofs about InstanceGroup, for any number of instances, templates,     *)
(* failures and edits.                                                     *)
(***************************************************************************)
EXTENDS InstanceGroup, TLAPS

Deleting == {"instances", "await", "group"}

\* The Delete handler waits for one instance at a time, one it was told of.
OneAtATime ==
  /\ \A i \in Instances : vm[i] = "deleting" => i \in listed \ todo
  /\ \A i, j \in Instances : vm[i] = "deleting" /\ vm[j] = "deleting" => i = j

\* Unless a failure is remembered, what Delete has been through is gone or is
\* just going, and it comes to the group after all instances.
Gone ==
  /\ (pc \in Deleting /\ ~failed) => \A i \in listed \ todo : vm[i] \in {"gone", "deleting"}
  /\ pc = "group" => todo = {} /\ ~failed

\* A group without a record, and every group that was made and abandoned, is
\* from a Create that failed.
Abandoned ==
  /\ (group = None \/ tf # None) => others <= faults
  /\ (group # None /\ tf = None) => others < faults

Inv == TypeOK /\ OneAtATime /\ Gone /\ Abandoned

-----------------------------------------------------------------------------
(* Lemmas.                                                                 *)

\* What is read of a group is a record.
LEMMA RecordTyped ==
  ASSUME NEW g \in Config
  PROVE  /\ instanceGroupToResourceModel(g) \in Record
         /\ instanceGroupToResourceModel(g) # None
BY RecordAssumption DEF instanceGroupToResourceModel, Config, Record, In

\* A group that is scaled to zero is a group.
LEMMA ZeroTyped ==
  ASSUME NEW g \in Config
  PROVE  [g EXCEPT !.count = 0] \in Config /\ [g EXCEPT !.count = 0] # None
<1>1. [g EXCEPT !.count = 0] \in Config
  BY InstanceGroupAssumption DEF Config
<1> QED
  BY <1>1, RecordAssumption

\* The instances of a group that goes are strays, and no other changes.
LEMMA LeftTyped ==
  ASSUME vm \in [Instances -> Life]
  PROVE  /\ Left \in [Instances -> Life]
         /\ \A i \in Instances :
              /\ Left[i] \notin {"starting", "active"}
              /\ (vm[i] = "deleting" <=> Left[i] = "deleting")
              /\ (vm[i] = "gone" <=> Left[i] = "gone")
BY DEF Left, Life

\* A number up to the bound that is not above a smaller fault count.
LEMMA CountersTyped ==
  ASSUME TypeOK
  PROVE  /\ UNCHANGED faults \/ Fault => faults' \in 0..MaxFaults
         /\ UNCHANGED edits \/ Edit => edits' \in 0..MaxEdits
         /\ faults \in Nat /\ others \in Nat /\ MaxFaults \in Nat
BY InstanceGroupAssumption DEF TypeOK, Fault, Edit

\* The steps of the handlers that change no instance and end the deletion or
\* do not take part in it.
Reads == StartRun \/ Read \/ ReadMissing \/ ReadFails \/ PlanNothing
Applies == Create \/ CreateFails \/ Update \/ UpdateFails
Begins == ScaleToZero \/ ScaleToZeroFails \/ GetInstanceGroup \/ GetInstanceGroupFails
Finishes == InstancesFailed \/ InstancesDone \/ DeleteInstanceGroup \/ DeleteInstanceGroupFails
Elsewhere == Console \/ ChangeConfig \/ ImportState

-----------------------------------------------------------------------------
(* The steps, one lemma per group of them.                                 *)

\* Refreshing and planning keep the invariant.
LEMMA ReadsStep ==
  ASSUME Inv, Reads
  PROVE  Inv'
<1> USE DEF Inv
<1>1. /\ UNCHANGED <<group, vm, others, config, edits>>
      /\ UNCHANGED deletion \/ (listed' = {} /\ todo' = {} /\ failed' = FALSE)
      /\ pc \in {"idle", "refresh", "plan"} /\ pc' \in {"idle", "refresh", "plan"}
      /\ (UNCHANGED faults \/ Fault)
  BY DEF Reads, StartRun, Read, ReadMissing, ReadFails, PlanNothing, Return, Answered, Quiet,
         NoDeletion
<1>2. /\ tf' \in Record \cup {None}
      /\ tf' = None <=> tf = None
  BY RecordTyped
     DEF Reads, StartRun, Read, ReadMissing, ReadFails, PlanNothing, TypeOK
<1>3. listed = {} /\ todo = {} /\ ~failed /\ ~(\E i \in Instances : vm[i] = "deleting")
  BY <1>1 DEF TypeOK, OneAtATime
<1>4. listed' = {} /\ todo' = {} /\ failed' = FALSE
  BY <1>1, <1>3 DEF deletion, TypeOK
<1>5. TypeOK'
  BY <1>1, <1>2, <1>3, <1>4, CountersTyped DEF TypeOK, Stages
<1>6. OneAtATime' /\ Gone'
  BY <1>1, <1>3, <1>4 DEF OneAtATime, Gone, Deleting
<1>7. Abandoned'
  BY <1>1, <1>2, CountersTyped DEF Abandoned, Fault
<1> QED
  BY <1>5, <1>6, <1>7

\* Creating and updating keep the invariant.
LEMMA AppliesStep ==
  ASSUME Inv, Applies
  PROVE  Inv'
<1> USE DEF Inv
<1>1. /\ UNCHANGED <<config, edits>> /\ config # None /\ config \in Config
      /\ pc = "plan" /\ pc' = "idle" /\ listed' = {} /\ todo' = {} /\ failed' = FALSE
      /\ (UNCHANGED faults \/ Fault)
  BY DEF Applies, Create, CreateFails, Update, UpdateFails, Creates, Updates, Return, Answered,
         Quiet, TypeOK
<1>2. /\ vm' \in {vm, Left}
      /\ group' \in {group, config}
      /\ vm' = vm => group' # None \/ group = None
      /\ ~(\E i \in Instances : vm[i] = "deleting")
  BY <1>1
     DEF Applies, Create, CreateFails, Update, UpdateFails, Made, TypeOK, OneAtATime
<1>3. tf' \in Record \cup {None}
  BY <1>1, RecordTyped
     DEF Applies, Create, CreateFails, Update, UpdateFails, TypeOK, Config, Record
<1>4. Abandoned' /\ others' \in 0..MaxFaults
  <2>1. CASE Create
    <3>1. tf' \in Record
      BY <1>1, <2>1 DEF Create, Config, Record
    <3>2. tf' # None
      BY <3>1, RecordAssumption
    <3>3. UNCHANGED faults /\ tf = None /\ others' = IF group = None THEN others ELSE others + 1
      BY <2>1 DEF Create, Creates, Made, Answered
    <3> QED
      BY <3>2, <3>3, CountersTyped DEF Abandoned, TypeOK
  <2>2. CASE CreateFails
    <3>1. /\ faults' = faults + 1 /\ tf' = None /\ tf = None /\ faults < MaxFaults
          /\ UNCHANGED <<group, others>> \/ others' = IF group = None THEN others ELSE others + 1
      BY <2>2 DEF CreateFails, Creates, Made, Fault
    <3> QED
      BY <3>1, CountersTyped DEF Abandoned, TypeOK
  <2>3. CASE Update \/ UpdateFails
    <3>1. UNCHANGED others /\ tf # None /\ tf' # None
      BY <1>1, <2>3, RecordTyped DEF Update, UpdateFails, Updates
    <3> QED
      BY <1>1, <3>1, CountersTyped DEF Abandoned, Fault, TypeOK
  <2> QED
    BY <2>1, <2>2, <2>3 DEF Applies
<1>5. TypeOK'
  BY <1>1, <1>2, <1>3, <1>4, CountersTyped, LeftTyped DEF TypeOK, Stages
<1>6. OneAtATime' /\ Gone'
  BY <1>1, <1>2, LeftTyped DEF OneAtATime, Gone, Deleting, TypeOK
<1> QED
  BY <1>4, <1>5, <1>6

\* Scaling to zero and asking for the instances keep the invariant.
LEMMA BeginsStep ==
  ASSUME Inv, Begins
  PROVE  Inv'
<1> USE DEF Inv
<1>1. /\ UNCHANGED <<config, edits, vm, tf, others>> /\ tf # None
      /\ pc \in {"plan", "list"} /\ (UNCHANGED faults \/ Fault)
  BY DEF Begins, ScaleToZero, ScaleToZeroFails, GetInstanceGroup, GetInstanceGroupFails,
         Deletes, Answered, Quiet, TypeOK
<1>2. group' \in Config \cup {None} /\ (group' = None <=> group = None)
  BY ZeroTyped
     DEF Begins, ScaleToZero, ScaleToZeroFails, GetInstanceGroup, GetInstanceGroupFails,
         Zeroed, TypeOK
<1>3. listed = {} /\ todo = {} /\ ~failed /\ ~(\E i \in Instances : vm[i] = "deleting")
  BY <1>1 DEF TypeOK, OneAtATime
<1>4. /\ listed' \in SUBSET Instances /\ todo' = listed' /\ failed' = FALSE
      /\ pc' \in {"idle", "list", "instances"} /\ (listed' # {} => pc' = "instances")
  BY <1>3
     DEF Begins, ScaleToZero, ScaleToZeroFails, GetInstanceGroup, GetInstanceGroupFails,
         Return, NoDeletion, deletion, In, TypeOK
<1>5. TypeOK'
  BY <1>1, <1>2, <1>3, <1>4, CountersTyped DEF TypeOK, Stages
<1>6. OneAtATime' /\ Gone'
  BY <1>1, <1>3, <1>4 DEF OneAtATime, Gone
<1>7. Abandoned'
  BY <1>1, <1>2, CountersTyped DEF Abandoned, Fault
<1> QED
  BY <1>5, <1>6, <1>7

\* Deleting one instance keeps the invariant.
LEMMA InstanceStep ==
  ASSUME Inv, NEW i \in Instances, Instance(i)
  PROVE  Inv'
<1> USE DEF Inv
<1>1. /\ UNCHANGED <<config, edits, group, tf, others, listed>> /\ (UNCHANGED faults \/ Fault)
      /\ pc \in {"instances", "await"} /\ tf # None
  BY DEF Instance, DeleteInstance, DeleteInstanceFails, AwaitInstance, AwaitInstanceFails,
         Awaited, Answered, Quiet, TypeOK
<1>2. Abandoned'
  BY <1>1, CountersTyped DEF Abandoned, Fault
<1>3. CASE DeleteInstance(i)
  <2>1. /\ vm' = [vm EXCEPT ![i] = "deleting"] /\ todo' = todo \ {i} /\ pc' = "await"
        /\ UNCHANGED failed /\ i \in listed /\ pc = "instances" /\ UNCHANGED faults
        /\ ~(\E j \in Instances : vm[j] = "deleting")
    BY <1>3 DEF DeleteInstance, Answered, TypeOK, OneAtATime
  <2>2. TypeOK'
    BY <1>1, <2>1 DEF TypeOK, Stages, Life
  <2>3. OneAtATime' /\ Gone'
    BY <1>1, <2>1 DEF OneAtATime, Gone, Deleting, TypeOK
  <2> QED
    BY <1>2, <2>2, <2>3
<1>4. CASE DeleteInstanceFails(i)
  <2>1. /\ vm' \in {vm, [vm EXCEPT ![i] = "gone"]} /\ todo' = todo \ {i} /\ UNCHANGED pc
        /\ failed' = TRUE /\ pc = "instances"
        /\ ~(\E j \in Instances : vm[j] = "deleting")
    BY <1>4 DEF DeleteInstanceFails, TypeOK, OneAtATime
  <2>2. TypeOK'
    BY <1>1, <2>1, CountersTyped DEF TypeOK, Life
  <2>3. OneAtATime' /\ Gone'
    BY <1>1, <2>1 DEF OneAtATime, Gone, Deleting, TypeOK
  <2> QED
    BY <1>2, <2>2, <2>3
<1>5. CASE AwaitInstance(i) \/ AwaitInstanceFails(i)
  <2>1. PICK end \in {"gone", IF group = None THEN "stray" ELSE "active"} :
          vm' = [vm EXCEPT ![i] = end] /\ (failed' = FALSE => end = "gone" /\ ~failed)
    BY <1>5 DEF AwaitInstance, AwaitInstanceFails, Awaited, TypeOK
  <2>2. /\ UNCHANGED todo /\ pc' = "instances" /\ pc = "await" /\ failed' \in BOOLEAN
        /\ \A j \in Instances : vm[j] = "deleting" <=> j = i
    BY <1>5 DEF AwaitInstance, AwaitInstanceFails, Awaited, TypeOK, OneAtATime
  <2>3. TypeOK'
    BY <1>1, <2>1, <2>2, CountersTyped DEF TypeOK, Stages, Life
  <2>4. OneAtATime' /\ Gone'
    BY <1>1, <2>1, <2>2 DEF OneAtATime, Gone, Deleting, TypeOK
  <2> QED
    BY <1>2, <2>3, <2>4
<1> QED
  BY <1>3, <1>4, <1>5 DEF Instance

\* The end of a deletion keeps the invariant, and so does a kill.
LEMMA FinishesStep ==
  ASSUME Inv, Finishes \/ Killed
  PROVE  Inv'
<1> USE DEF Inv
<1>1. /\ UNCHANGED <<config, edits, others>> /\ (UNCHANGED faults \/ Fault) /\ tf # None
  BY DEF Finishes, InstancesFailed, InstancesDone, DeleteInstanceGroup,
         DeleteInstanceGroupFails, Killed, Answered, Quiet, TypeOK
<1>2. CASE InstancesDone
  <2>1. /\ UNCHANGED <<group, vm, tf, listed, todo, failed, faults>> /\ pc' = "group"
        /\ pc = "instances" /\ todo = {} /\ ~failed
    BY <1>2 DEF InstancesDone, NoDeletion, deletion, Answered
  <2>2. TypeOK' /\ OneAtATime' /\ Gone'
    BY <1>1, <2>1 DEF TypeOK, Stages, OneAtATime, Gone, Deleting
  <2> QED
    BY <1>1, <2>1, <2>2 DEF Abandoned
<1>3. CASE ~InstancesDone
  <2>1. /\ pc' = "idle" /\ listed' = {} /\ todo' = {} /\ failed' = FALSE
        /\ \/ UNCHANGED <<group, vm>> /\ tf' = tf
           \/ group' = None /\ vm' = Left
           \/ /\ vm' = [i \in Instances |-> IF vm[i] = "deleting" THEN "gone" ELSE vm[i]]
              /\ UNCHANGED group /\ tf' = tf
        /\ tf' \in {tf, None}
    BY <1>3
       DEF Finishes, InstancesFailed, DeleteInstanceGroup, DeleteInstanceGroupFails, Killed, Return
  <2>2. ~(\E i \in Instances : vm'[i] = "deleting")
    <3>1. CASE Killed
      BY <3>1 DEF Killed
    <3>2. CASE Finishes
      <4>1. ~(\E i \in Instances : vm[i] = "deleting")
        BY <1>3, <3>2
           DEF Finishes, InstancesFailed, DeleteInstanceGroup, DeleteInstanceGroupFails,
               TypeOK, OneAtATime
      <4>2. vm' \in {vm, Left}
        BY <1>3, <3>2
           DEF Finishes, InstancesFailed, DeleteInstanceGroup, DeleteInstanceGroupFails
      <4> QED
        BY <4>1, <4>2, LeftTyped DEF TypeOK
    <3> QED
      BY <3>1, <3>2
  <2>3. TypeOK'
    BY <1>1, <2>1, <2>2, CountersTyped, LeftTyped DEF TypeOK, Stages, Life
  <2>4. OneAtATime' /\ Gone'
    BY <2>1, <2>2 DEF OneAtATime, Gone, Deleting
  <2>5. Abandoned'
    BY <1>1, <2>1, CountersTyped DEF Abandoned, Fault
  <2> QED
    BY <2>3, <2>4, <2>5
<1> QED
  BY <1>2, <1>3

\* The API and other people keep the invariant.
LEMMA OthersStep ==
  ASSUME Inv, API \/ Elsewhere
  PROVE  Inv'
<1> USE DEF Inv
<1>1. UNCHANGED <<pc, listed, todo, failed, others, faults>>
  BY DEF API, Starts, Started, Ends, Working, Elsewhere, Console, ChangeConfig, ImportState,
         NoDeletion, deletion
<1>2. ASSUME NEW i \in Instances, Starts(i) \/ Started(i) \/ Ends(i)
      PROVE  Inv'
  <2>1. PICK life \in Life : /\ vm' = [vm EXCEPT ![i] = life] /\ life # "deleting"
                             /\ vm[i] \notin {"gone", "deleting"}
                             /\ life \in {"starting", "active"} => group # None
    BY <1>2 DEF Starts, Started, Ends, TypeOK, Life
  <2>2. UNCHANGED <<group, tf, config, edits>>
    BY <1>2 DEF Starts, Started, Ends, Working, Quiet
  <2>3. TypeOK'
    BY <1>1, <2>1, <2>2 DEF TypeOK
  <2>4. OneAtATime' /\ Gone' /\ Abandoned'
    BY <1>1, <2>1, <2>2 DEF OneAtATime, Gone, Abandoned, TypeOK
  <2> QED
    BY <2>3, <2>4
<1>3. CASE Elsewhere
  <2>1. /\ config' \in Config \cup {None} /\ Edit
        /\ group' \in Config \cup {None} /\ tf' \in Record \cup {None}
        /\ vm' = vm \/ vm' = Left
        /\ (group' = None /\ group # None) => vm' = Left
        /\ tf' # None \/ tf' = tf
        /\ (group = None => group' = None)
    BY <1>3, RecordTyped, RecordAssumption
       DEF Elsewhere, Console, ChangeConfig, ImportState, TypeOK
  <2>2. ImportState => pc = "idle"
    BY DEF ImportState
  <2>3. tf' = tf \/ pc = "idle"
    BY <1>3 DEF Elsewhere, Console, ChangeConfig, ImportState
  <2>4. TypeOK'
    BY <1>1, <2>1, <2>3, CountersTyped, LeftTyped DEF TypeOK
  <2>5. OneAtATime' /\ Gone'
    BY <1>1, <2>1, LeftTyped DEF OneAtATime, Gone, TypeOK
  <2>6. Abandoned'
    BY <1>1, <2>1, CountersTyped DEF Abandoned
  <2> QED
    BY <2>4, <2>5, <2>6
<1> QED
  BY <1>2, <1>3 DEF API

\* The invariant holds in the beginning and after every step.
LEMMA Invariance == Spec => []Inv
<1>1. Init => Inv
  <2>1. Init => TypeOK
    <3> SUFFICES ASSUME Init
                 PROVE  TypeOK
      OBVIOUS
    <3>1. \A i \in Instances : vm[i] = "unborn"
      BY DEF Init
    <3>2. vm \in [Instances -> Life]
      BY DEF Init, Life
    <3>3. 0 \in 0..MaxFaults /\ 0 \in 0..MaxEdits
      BY InstanceGroupAssumption
    <3> QED
      BY <3>1, <3>2, <3>3 DEF Init, TypeOK, Stages
  <2>2. Init => OneAtATime /\ Gone /\ Abandoned
    BY DEF Init, OneAtATime, Gone, Abandoned, Deleting
  <2> QED
    BY <2>1, <2>2 DEF Inv
<1>2. Inv /\ [Next]_vars => Inv'
  <2> SUFFICES ASSUME Inv, [Next]_vars
               PROVE  Inv'
    OBVIOUS
  <2>1. CASE UNCHANGED vars
    BY <2>1 DEF vars, deletion, Inv, TypeOK, OneAtATime, Gone, Abandoned
  <2>2. ASSUME NEW i \in Instances, Instance(i)
        PROVE  Inv'
    BY <2>2, InstanceStep
  <2> QED
    BY <2>1, <2>2, ReadsStep, AppliesStep, BeginsStep, FinishesStep, OthersStep
       DEF Next, Handler, Reads, Applies, Begins, Finishes, Elsewhere
<1> QED
  BY <1>1, <1>2, PTL DEF Spec

-----------------------------------------------------------------------------
(* The theorems.                                                           *)

\* The group, its instances, the record and the handler's locals keep their
\* types: Delete waits exactly when one of its instances is going, and no more
\* groups are abandoned than calls failed.
THEOREM TypeCorrect == Spec => []TypeOK
<1>1. Inv => TypeOK
  BY DEF Inv
<1> QED
  BY <1>1, Invariance, PTL

\* A group is given up by a creation that failed and by nothing else: a Delete
\* that stops half way, an Update that fails and a Read that does leave the
\* record in the state.
THEOREM OrphansAccounted == Spec => []OrphansNeedFaults
<1>1. Inv => OrphansNeedFaults
  <2> SUFFICES ASSUME Inv
               PROVE  OrphansNeedFaults
    OBVIOUS
  <2>1. others \in Nat /\ faults \in Nat
    BY InstanceGroupAssumption DEF Inv, TypeOK
  <2>2. CASE group # None /\ tf = None
    BY <2>1, <2>2 DEF Inv, Abandoned, OrphansNeedFaults
  <2>3. CASE ~(group # None /\ tf = None)
    <3>1. others <= faults
      BY <2>3 DEF Inv, Abandoned
    <3> QED
      BY <2>1, <2>3, <3>1 DEF OrphansNeedFaults
  <2> QED
    BY <2>2, <2>3
<1> QED
  BY <1>1, Invariance, PTL

\* When Delete removes the group, every instance it was told of is gone,
\* whatever the API, other people and failures did meanwhile.
THEOREM DeleteLeavesNone == Spec => ListedAreGone
<1>1. ASSUME Inv, Next, group # None, group' = None, pc = "group", edits' = edits,
             NEW i \in listed
      PROVE  vm'[i] = "gone"
  <2>1. i \in Instances /\ vm[i] = "gone"
    BY <1>1 DEF Inv, TypeOK, Gone, Deleting
  <2>2. Left[i] = "gone"
    BY <2>1, LeftTyped, <1>1 DEF Inv, TypeOK
  <2>3. vm' = Left
    BY <1>1, RecordAssumption
       DEF Next, StartRun, Handler, Read, ReadMissing, ReadFails, PlanNothing, Create, CreateFails,
           Creates, Update, UpdateFails, Updates, Deletes, ScaleToZero, ScaleToZeroFails,
           GetInstanceGroup, GetInstanceGroupFails, Instance, DeleteInstance, DeleteInstanceFails,
           AwaitInstance, AwaitInstanceFails, Awaited, InstancesFailed, InstancesDone,
           DeleteInstanceGroup, DeleteInstanceGroupFails, Killed, API, Starts, Started, Ends,
           Working, Console, ChangeConfig, ImportState
  <2> QED
    BY <2>2, <2>3
<1>2. Inv /\ [Next]_vars =>
        [(group # None /\ group' = None /\ pc = "group" /\ edits' = edits) =>
           \A i \in listed : vm'[i] = "gone"]_vars
  BY <1>1
<1> QED
  BY <1>2, Invariance, PTL DEF Spec, ListedAreGone

=============================================================================
