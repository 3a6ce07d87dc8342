------------------------------ MODULE Objects ------------------------------
(***************************************************************************)
(* One resource of the provider that stands for one object of the API:     *)
(* Terraform's refresh, plan and apply of it, the four handlers, and the   *)
(* API.  The kinds of resources share one machine and differ in three      *)
(* things, which the catalogue below takes from their packages:            *)
(*   - what the schema says of each attribute when a plan is made;         *)
(*   - the requests each handler makes, in order, the last of which it     *)
(*     saves its record with: "lookup" and "get" read, "call" changes at   *)
(*     once, "start" begins an operation that "await" polls;               *)
(*   - what Read makes of an object that is gone, and of an error.         *)
(* An attribute of the model stands for those of its kind that are treated *)
(* alike; the catalogue names one of them.                                 *)
(***************************************************************************)
EXTENDS Naturals, Sequences

CONSTANTS
  None,      \* a null value
  Unknown,   \* "known after apply"
  Empty,     \* a map without entries
  Values, Default,   \* values of an attribute, and the one the API chooses
  Kinds,             \* the kinds of resources of this instance
  MaxFaults, MaxEdits

ASSUME ObjectsAssumption ==
  /\ {None, Unknown, Empty} \cap Values = {}
  /\ None # Unknown /\ None # Empty /\ Unknown # Empty
  /\ Default \in Values
  /\ MaxFaults \in Nat /\ MaxEdits \in Nat

-----------------------------------------------------------------------------
(* What a schema says of an attribute:                                     *)
(*   update      required, changed in place                                *)
(*   pinned      required, any change is refused by the plan               *)
(*   replace     required, a change replaces the object                    *)
(*   optional    may be left out, changed in place                         *)
(*   hidden      as replace, may be left out, never returned by the API    *)
(*   alias       the two names of a partition: replaced with the partition *)
(*   nested      a set, may be left out: a new element replaces, taking the *)
(*               whole set out is planned in place                         *)
(* and of those that may be left out and are then chosen by the API:       *)
(*   carried     keeps the recorded value, a change replaces               *)
(*   kept        as carried, keeps a recorded null as well                 *)
(*   recomputed  forgets the recorded value when anything else changes,    *)
(*               and what is not known replaces                            *)
(*   configured  forgets likewise, replaces only if configured             *)
(*   remembered  carried, replaces only if configured, record keeps it     *)
(*   flexible    carried, changed in place                                 *)
(*   floating    as recomputed, but planned in place                       *)

Required == {"update", "pinned", "replace"}
Computed == {"carried", "kept", "recomputed", "configured", "remembered", "flexible", "floating"}
Carrying == {"carried", "kept", "remembered", "flexible"}
Replacing == {"replace", "hidden", "carried", "kept", "recomputed"}
InPlace == {"update", "optional", "flexible", "floating"}

\* vpc_network: the API call of Create is synchronous, the others are not.
networkSchema == [name |-> "update", cidr |-> "replace", project_id |-> "carried"]
networkCreate == <<"call">>
networkRead == [gone |-> "error", failed |-> "error", learns |-> TRUE]
networkUpdate == [steps |-> <<"start", "await">>, sends |-> {"name"}, learns |-> TRUE]
\* Slip: nothing is deleted.
networkDeleteNothing == <<"lookup">>
networkDelete == <<"start", "await">>

\* vpc_subnet: nat_gateway_enabled is false unless configured.
subnetSchema == [nat_gateway_enabled |-> "update", cidr |-> "replace"]
subnetCreate == <<"call">>
subnetRead == [gone |-> "error", failed |-> "error", learns |-> TRUE]
subnetUpdate == [steps |-> <<"start", "await">>, sends |-> {"nat_gateway_enabled"}, learns |-> TRUE]
subnetDelete == <<"start", "await">>

\* storage_disk: block_size is not sent any more and kept as configured.
\* Slip: the disk type is not carried over.
diskSchemaForgetful == [size |-> "update", type |-> "recomputed", block_size |-> "remembered"]
diskSchema == [size |-> "update", type |-> "carried", block_size |-> "remembered"]
diskCreate == <<"start", "await">>
diskRead == [gone |-> "error", failed |-> "error", learns |-> TRUE]
\* Slip: Update does not save what it did.
diskUpdateUnsaved == [steps |-> <<"start", "await">>, sends |-> {"size"}, learns |-> FALSE]
diskUpdate == [steps |-> <<"start", "await">>, sends |-> {"size"}, learns |-> TRUE]
diskDelete == <<"start", "await">>

\* load_balancer: Update leaves protocols and network_interfaces out.
loadBalancerSchema == [name |-> "update", protocols |-> "update", type |-> "recomputed"]
loadBalancerCreate == <<"start", "await">>
loadBalancerRead == [gone |-> "error", failed |-> "error", learns |-> TRUE]
loadBalancerUpdate == [steps |-> <<"start", "await">>, sends |-> {"name"}, learns |-> TRUE]
loadBalancerDelete == <<"start", "await">>

\* vpc_firewall_rule: any error of its Read drops the record.
firewallSchema == [source_ports |-> "update", action |-> "replace"]
firewallCreate == <<"start", "await">>
firewallRead == [gone |-> "drop", failed |-> "drop", learns |-> TRUE]
firewallUpdate == [steps |-> <<"start", "await">>, sends |-> {"source_ports"}, learns |-> TRUE]
firewallDelete == <<"start", "await">>

\* project: Create looks up the organization of the user first.
projectSchema == [name |-> "update"]
projectCreate == <<"lookup", "call">>
projectRead == [gone |-> "error", failed |-> "error", learns |-> TRUE]
\* Slip: Update reads instead of writing.
projectUpdateReads == [steps |-> <<"get">>, sends |-> {"name"}, learns |-> TRUE]
projectUpdate == [steps |-> <<"call">>, sends |-> {"name"}, learns |-> TRUE]
projectDelete == <<"call">>

\* ib_partition, and transport_partition after it: every change replaces.
ibPartitionSchema == [ib_network_id |-> "replace", project_id |-> "carried"]
ibPartitionCreate == <<"call">>
ibPartitionRead == [gone |-> "drop", failed |-> "error", learns |-> TRUE]
ibPartitionUpdate == [steps |-> <<>>, sends |-> {}, learns |-> FALSE]
ibPartitionDelete == <<"call">>

transportPartitionSchema == [transport_network_id |-> "replace", project_id |-> "carried"]
transportPartitionCreate == <<"call">>
transportPartitionRead == [gone |-> "drop", failed |-> "error", learns |-> TRUE]
transportPartitionUpdate == [steps |-> <<>>, sends |-> {}, learns |-> FALSE]
transportPartitionDelete == <<"call">>

\* instance_template: its only update renames ib_partition to
\* transport_partition_id, in the record alone.
templateSchema == [image |-> "carried", disks |-> "nested", partition |-> "alias",
                   nvlink_domain_id |-> "kept"]
templateCreate == <<"call">>
templateRead == [gone |-> "error", failed |-> "error", learns |-> TRUE]
aliasOnlyChange(p, s) == \A a \in DOMAIN p \ {"partition"} : p[a] = s[a]
templateUpdate(p, s) ==
  [steps |-> IF aliasOnlyChange(p, s) THEN <<>> ELSE <<"refuse">>, sends |-> {}, learns |-> FALSE]
templateDelete == <<"call">>

\* kubernetes_cluster: only the extra arguments change in place; they cannot
\* be cleared, and leaving them out takes them from the record alone.
clusterSchema == [extra_args |-> "optional", version |-> "pinned", routing_mode |-> "recomputed",
                  subnet_id |-> "configured", oidc_issuer_url |-> "hidden"]
clusterCreate == <<"start", "await">>
\* Slip: a missing cluster is an error like any other.
clusterReadBlind == [gone |-> "error", failed |-> "error", learns |-> TRUE]
\* Slip: any error drops the record.
clusterReadHasty == [gone |-> "drop", failed |-> "drop", learns |-> TRUE]
clusterRead == [gone |-> "drop", failed |-> "error", learns |-> TRUE]
hasEmptyExtraArg(p) == p.extra_args = Empty
clusterUpdate(p) ==
  [steps |-> IF hasEmptyExtraArg(p) THEN <<"refuse">>
             ELSE IF p.extra_args = None THEN <<>> ELSE <<"start", "await", "get">>,
   sends |-> {"extra_args"}, learns |-> TRUE]
clusterDelete == <<"start", "await">>

\* registry_repository: Update refuses, though the plan promises it.
repositorySchema == [name |-> "replace", upstream_registry |-> "optional", project_id |-> "floating"]
repositoryCreate == <<"call">>
repositoryRead == [gone |-> "drop", failed |-> "error", learns |-> TRUE]
repositoryUpdate == [steps |-> <<"refuse">>, sends |-> {}, learns |-> FALSE]
repositoryDelete == <<"call">>

\* compute_instance_by_template: reads nothing back, neither in Read nor in an
\* Update, and any error of Read drops the record.
byTemplateSchema == [instance_template |-> "replace", project_id |-> "flexible",
                     nvlink_domain_id |-> "carried"]
byTemplateCreate == <<"lookup", "start", "await">>
byTemplateRead == [gone |-> "drop", failed |-> "drop", learns |-> FALSE]
byTemplateUpdate == [steps |-> <<"get", "start", "await">>, sends |-> {}, learns |-> FALSE]
byTemplateDelete == <<"get", "start", "await">>

Entry(schema, create, read, delete) ==
  [schema |-> schema, create |-> create, read |-> read, delete |-> delete]

Catalogue == [
  vpc_network         |-> Entry(networkSchema, networkCreate, networkRead, networkDelete),
  vpc_subnet          |-> Entry(subnetSchema, subnetCreate, subnetRead, subnetDelete),
  disk                |-> Entry(diskSchema, diskCreate, diskRead, diskDelete),
  load_balancer       |-> Entry(loadBalancerSchema, loadBalancerCreate, loadBalancerRead, loadBalancerDelete),
  firewall_rule       |-> Entry(firewallSchema, firewallCreate, firewallRead, firewallDelete),
  project             |-> Entry(projectSchema, projectCreate, projectRead, projectDelete),
  ib_partition        |-> Entry(ibPartitionSchema, ibPartitionCreate, ibPartitionRead, ibPartitionDelete),
  transport_partition |-> Entry(transportPartitionSchema, transportPartitionCreate,
                                transportPartitionRead, transportPartitionDelete),
  instance_template   |-> Entry(templateSchema, templateCreate, templateRead, templateDelete),
  kubernetes_cluster  |-> Entry(clusterSchema, clusterCreate, clusterRead, clusterDelete),
  registry_repository |-> Entry(repositorySchema, repositoryCreate, repositoryRead, repositoryDelete),
  vm_by_template      |-> Entry(byTemplateSchema, byTemplateCreate, byTemplateRead, byTemplateDelete)]

\* The Update of planned resource p over record s.
UpdateOf(k, p, s) ==
  IF k = "instance_template" THEN templateUpdate(p, s)
  ELSE IF k = "kubernetes_cluster" THEN clusterUpdate(p)
  ELSE [vpc_network |-> networkUpdate, vpc_subnet |-> subnetUpdate, disk |-> diskUpdate,
        load_balancer |-> loadBalancerUpdate, firewall_rule |-> firewallUpdate,
        project |-> projectUpdate, ib_partition |-> ibPartitionUpdate,
        transport_partition |-> transportPartitionUpdate,
        registry_repository |-> repositoryUpdate, vm_by_template |-> byTemplateUpdate][k]

-----------------------------------------------------------------------------
VARIABLES
  kind,      \* the kind of the resource
  object,    \* the object that the record or the running handler names, or None
  job,       \* the operation running on it, or None
  config,    \* the configuration block, None if there is none
  tf,        \* the stored record, or None
  pc, plan,  \* the running handler and its planned resource
  todo,      \* the requests it has still to make
  op,        \* state of the operation it polls
  disturbed, \* history: the record may be behind the object, since the last refresh
  orphans,   \* history: objects that no record or handler names
  faults, edits

handler == <<pc, plan, todo, op>>
vars == <<kind, object, job, config, tf, handler, disturbed, orphans, faults, edits>>

rule == Catalogue[kind].schema
Attrs == DOMAIN rule

\* A partition of an instance template, under the name the block uses for it.
Partitions == [name : {"ib_partition", "transport_partition_id"}, id : Values]

\* An attribute that Create never sends is configured, if at all, with the
\* value the API has for it.
Unsent == {<<"load_balancer", "type">>, <<"vm_by_template", "nvlink_domain_id">>}

Configurable(k, a) ==
  LET r == Catalogue[k].schema[a]
  IN  IF <<k, a>> \in Unsent THEN {None, Default}
      ELSE IF r \in Required THEN Values
      ELSE IF r = "alias" THEN Partitions \cup {None}
      ELSE IF a = "extra_args" THEN Values \cup {None, Empty}
      ELSE Values \cup {None}

Data == Values \cup Partitions \cup {None, Empty}
Configs == [k \in Kinds |->
  {c \in [DOMAIN Catalogue[k].schema -> Data] : \A a \in DOMAIN c : c[a] \in Configurable(k, a)}]

\* A plan may hold what is known after apply only.
Plans(attributes) == [attributes -> Data \cup {Unknown}]
Operations(attributes) == [verb : {"create", "update", "delete"}, want : Plans(attributes)]
Steps == {"lookup", "call", "start", "await", "get", "refuse"}

ASSUME CatalogueAssumption ==
  /\ Kinds \subseteq DOMAIN Catalogue
  /\ {None, Unknown, Empty} \cap Partitions = {}
  /\ \A k \in Kinds : LET attributes == DOMAIN Catalogue[k].schema
                      IN  None \notin Plans(attributes) \cup Operations(attributes)

TypeOK ==
  /\ kind \in Kinds
  /\ object \in [Attrs -> Data] \cup {None}
  /\ job \in Operations(Attrs) \cup {None}
  /\ config \in Configs[kind] \cup {None}
  /\ tf \in [Attrs -> Data] \cup {None}
  /\ pc \in {"idle", "refresh", "plan", "create", "update", "delete"}
  /\ plan \in Plans(Attrs) \cup {None}
  /\ todo \in Seq(Steps)
  /\ op \in {"NONE", "IN_PROGRESS", "SUCCEEDED", "FAILED"}
  /\ disturbed \in BOOLEAN
  /\ orphans \in Nat /\ faults \in 0..MaxFaults /\ edits \in 0..MaxEdits
  /\ pc \in {"update", "delete"} => tf # None
  /\ pc = "create" => tf = None
  /\ pc \in {"create", "update"} => plan # None
  /\ op # "NONE" => todo # <<>> /\ Head(todo) = "await"

Init ==
  /\ kind \in Kinds
  /\ object = None /\ job = None
  /\ config \in Configs[kind]
  /\ tf = None
  /\ pc = "idle" /\ plan = None /\ todo = <<>> /\ op = "NONE"
  /\ disturbed = FALSE /\ orphans = 0 /\ faults = 0 /\ edits = 0

Fault == faults < MaxFaults /\ faults' = faults + 1
Edit  == edits < MaxEdits /\ edits' = edits + 1
Rest == pc' = "idle" /\ plan' = None /\ todo' = <<>> /\ op' = "NONE"

-----------------------------------------------------------------------------
(* Planning, as Terraform and the plugin framework do it with the rules of *)
(* the schema.                                                             *)

\* The configured value, or the recorded one where the API had to choose.
Proposed(a) ==
  IF config[a] = None /\ rule[a] \in Computed THEN tf[a] ELSE config[a]
Differs == \E a \in Attrs : Proposed(a) # tf[a]

\* What the API chooses is unknown when anything differs, unless carried over;
\* UseStateForUnknown carries no null.
Forgets(a) ==
  /\ Differs /\ config[a] = None /\ rule[a] \in Computed
  /\ rule[a] \notin Carrying \/ (tf[a] = None /\ rule[a] # "kept")
Planned == [a \in Attrs |-> IF Forgets(a) THEN Unknown ELSE Proposed(a)]

\* ib_partition and transport_partition_id name the same partition.
Effective(x) == IF x = None THEN None ELSE x.id

Replaces(a) ==
  \/ rule[a] \in Replacing /\ Planned[a] # tf[a]
  \/ rule[a] = "nested" /\ Planned[a] \notin {None, tf[a]}
  \/ rule[a] \in {"configured", "remembered"} /\ config[a] # None /\ Planned[a] # tf[a]
  \/ rule[a] = "alias" /\ Effective(Planned[a]) # Effective(tf[a])
Pinned(a) == rule[a] = "pinned" /\ Planned[a] # tf[a]

\* A plan for a new object.
PlannedAnew ==
  [a \in Attrs |-> IF config[a] = None /\ rule[a] \in Computed THEN Unknown ELSE config[a]]

-----------------------------------------------------------------------------
(* The API: what it makes of a request, one operation at a time.           *)

Given(x) == x \notin {None, Unknown}

\* What the API chooses for an attribute left out: templates have no NVLink
\* domain unless one is configured.
Chosen(a) ==
  IF a = "extra_args" THEN Empty
  ELSE IF rule[a] \in Computed /\ a # "nvlink_domain_id" THEN Default ELSE None

Made(want) ==
  [a \in Attrs |-> IF a = "block_size" \/ ~Given(want[a]) THEN Chosen(a) ELSE want[a]]
Altered(want) ==
  [a \in Attrs |-> IF a \in UpdateOf(kind, want, want).sends /\ Given(want[a])
                   THEN want[a] ELSE object[a]]
Effect(verb, want) ==
  IF verb = "create" THEN Made(want) ELSE IF verb = "update" THEN Altered(want) ELSE None

Accepts(verb) == job = None /\ (verb = "create" <=> object = None)

\* The name of a repository is its identity: one that nobody names may be in
\* the way of a new one.
NameTaken == kind = "registry_repository" /\ pc = "create" /\ orphans > 0

-----------------------------------------------------------------------------
(* The record made of an answer of the API.                                *)

\* Slip: the plan is saved instead of the answer.
RecordedAsPlanned(ref, o) == ref

\* Of a partition the API is asked under the new name.
Answered(x) ==
  IF x \in Partitions THEN [name |-> "transport_partition_id", id |-> x.id] ELSE x

\* What the API does not return, and extra arguments that were left out, come
\* from ref: the plan or the prior record.
Recorded(ref, o) ==
  [a \in Attrs |->
     IF \/ rule[a] = "hidden"
        \/ rule[a] \in {"alias", "remembered"} /\ Given(ref[a])
        \/ a = "extra_args" /\ ref[a] = None
     THEN ref[a] ELSE Answered(o[a])]

\* An Update without requests: the planned names are recorded, nothing else.
RecordedAlone ==
  [a \in Attrs |-> IF rule[a] \in {"optional", "alias"} THEN plan[a] ELSE tf[a]]

-----------------------------------------------------------------------------
(* A run: refresh, plan, and one handler.  A replacement is a Delete, and  *)
(* the Create that follows it is the next run's.                           *)

Read == Catalogue[kind].read

\* A record is dropped: an object that still exists has no name any more.
Drop ==
  /\ tf' = None /\ object' = None /\ job' = None /\ disturbed' = FALSE
  /\ orphans' = IF object = None THEN orphans ELSE orphans + 1

StartRun ==
  /\ pc = "idle"
  /\ pc' = IF tf = None THEN "plan" ELSE "refresh"
  /\ UNCHANGED <<kind, object, job, config, tf, plan, todo, op, disturbed, orphans, faults, edits>>

ReadOK ==
  /\ pc = "refresh" /\ object # None
  /\ tf' = IF Read.learns THEN Recorded(tf, object) ELSE tf
  /\ disturbed' = (disturbed /\ ~Read.learns)
  /\ pc' = "plan"
  /\ UNCHANGED <<kind, object, job, config, plan, todo, op, orphans, faults, edits>>

\* The API answers 404.
ReadGone ==
  /\ pc = "refresh" /\ object = None
  /\ \/ Read.gone = "drop" /\ Drop /\ pc' = "plan" /\ UNCHANGED <<plan, todo, op>>
     \/ Read.gone = "error" /\ Rest /\ UNCHANGED <<tf, object, job, disturbed, orphans>>
  /\ UNCHANGED <<kind, config, faults, edits>>

\* Any other error, or no answer.
ReadFails ==
  /\ pc = "refresh" /\ Fault
  /\ \/ Read.failed = "drop" /\ Drop /\ pc' = "plan" /\ UNCHANGED <<plan, todo, op>>
     \/ Read.failed = "error" /\ Rest /\ UNCHANGED <<tf, object, job, disturbed, orphans>>
  /\ UNCHANGED <<kind, config, edits>>

Begin(stage, p, steps) ==
  /\ pc' = stage /\ plan' = p /\ todo' = steps
  /\ UNCHANGED <<kind, object, job, config, tf, op, disturbed, orphans, faults, edits>>

PlanNothing ==
  /\ pc = "plan"
  /\ IF tf = None THEN config = None ELSE config # None /\ Planned = tf
  /\ Begin("idle", None, <<>>)

\* The plan refuses to change a pinned attribute.
PlanRefused ==
  /\ pc = "plan" /\ config # None /\ tf # None
  /\ \E a \in Attrs : Pinned(a)
  /\ Begin("idle", None, <<>>)

PlanCreate ==
  /\ pc = "plan" /\ config # None /\ tf = None
  /\ Begin("create", PlannedAnew, Catalogue[kind].create)

PlanUpdate ==
  /\ pc = "plan" /\ config # None /\ tf # None
  /\ Planned # tf /\ ~\E a \in Attrs : Pinned(a) \/ Replaces(a)
  /\ Begin("update", Planned, UpdateOf(kind, Planned, tf).steps)

PlanDelete ==
  /\ pc = "plan" /\ tf # None
  /\ \/ config = None
     \/ config # None /\ (\E a \in Attrs : Replaces(a)) /\ ~\E a \in Attrs : Pinned(a)
  /\ Begin("delete", None, Catalogue[kind].delete)

-----------------------------------------------------------------------------
(* The handlers, one request at a time.                                    *)

Handling(step) == pc \in {"create", "update", "delete"} /\ todo # <<>> /\ Head(todo) = step

\* The next request, or, after the last one, the record is saved from object o.
Saved(o) ==
  IF pc = "delete" THEN None
  ELSE IF pc = "create" \/ UpdateOf(kind, plan, tf).learns THEN Recorded(plan, o) ELSE tf
Proceed(o) ==
  \/ /\ Len(todo) > 1
     /\ todo' = Tail(todo) /\ op' = "NONE"
     /\ UNCHANGED <<pc, plan, tf, disturbed>>
  \/ /\ Len(todo) = 1
     /\ tf' = Saved(o)
     /\ disturbed' = (disturbed /\ pc = "update" /\ ~UpdateOf(kind, plan, tf).learns)
     /\ Rest

\* The handler reports an error: nothing is saved.
Fail == Rest /\ UNCHANGED tf

\* A handler that has to leave a creation behind leaves an object nobody names.
Abandon ==
  /\ Fail /\ object' = IF pc = "create" THEN None ELSE object
  /\ job' = IF pc = "create" THEN None ELSE job
  /\ orphans' = IF pc = "create" /\ (object # None \/ job # None) THEN orphans + 1 ELSE orphans
  /\ disturbed' = (disturbed \/ pc \in {"update", "delete"})

\* An Update that needs no request.
SaveAlone ==
  /\ pc = "update" /\ todo = <<>>
  /\ tf' = RecordedAlone /\ Rest
  /\ UNCHANGED <<kind, object, job, config, disturbed, orphans, faults, edits>>

Refuse ==
  /\ Handling("refuse") /\ Fail
  /\ UNCHANGED <<kind, object, job, config, disturbed, orphans, faults, edits>>

LookUp ==
  /\ Handling("lookup") /\ Proceed(object)
  /\ UNCHANGED <<kind, object, job, config, orphans, faults, edits>>

LookUpFails ==
  /\ Handling("lookup") /\ Fault /\ Fail
  /\ UNCHANGED <<kind, object, job, config, disturbed, orphans, edits>>

Get ==
  /\ Handling("get") /\ object # None /\ Proceed(object)
  /\ UNCHANGED <<kind, object, job, config, orphans, faults, edits>>

\* Also, in an Update: somebody has stopped the instance, and starts it later.
GetFails ==
  /\ Handling("get") /\ Fail
  /\ \/ object = None /\ UNCHANGED <<faults, edits>>
     \/ Fault /\ UNCHANGED edits
     \/ kind = "vm_by_template" /\ pc = "update" /\ Edit /\ UNCHANGED faults
  /\ UNCHANGED <<kind, object, job, config, orphans>>
  /\ disturbed' = (disturbed \/ pc = "update")

Call ==
  /\ Handling("call") /\ Accepts(pc)
  /\ object' = Effect(pc, plan)
  /\ Proceed(object')
  /\ UNCHANGED <<kind, job, config, orphans, faults, edits>>

Start ==
  /\ Handling("start") /\ Accepts(pc)
  /\ job' = [verb |-> pc, want |-> IF pc = "delete" THEN object ELSE plan]
  /\ todo' = Tail(todo) /\ op' = "IN_PROGRESS"
  /\ UNCHANGED <<kind, object, config, tf, pc, plan, disturbed, orphans, faults, edits>>

\* The request is refused.
RequestFails ==
  /\ Handling("call") \/ Handling("start")
  /\ \/ (~Accepts(pc) \/ NameTaken) /\ UNCHANGED faults
     \/ Fault
  /\ Fail
  /\ UNCHANGED <<kind, object, job, config, disturbed, orphans, edits>>

\* The request is obeyed and its answer lost; it is not sent again.
AnswerLost ==
  /\ Accepts(pc) /\ Fault
  /\ \/ /\ Handling("call") /\ job' = job
        /\ object' = IF pc = "create" THEN None ELSE Effect(pc, plan)
     \/ /\ Handling("start") /\ object' = object
        /\ job' = IF pc = "create" THEN None
                  ELSE [verb |-> pc, want |-> IF pc = "delete" THEN object ELSE plan]
  /\ orphans' = IF pc = "create" THEN orphans + 1 ELSE orphans
  /\ disturbed' = TRUE
  /\ Fail
  /\ UNCHANGED <<kind, config, edits>>

Polled == op = "IN_PROGRESS"

OperationSucceeds ==
  /\ job # None
  /\ object' = IF job.verb = "create" \/ object # None THEN Effect(job.verb, job.want) ELSE None
  /\ job' = None
  /\ op' = IF Polled THEN "SUCCEEDED" ELSE op
  /\ disturbed' = (disturbed \/ ~Polled)
  /\ UNCHANGED <<kind, config, tf, pc, plan, todo, orphans, faults, edits>>

OperationFails ==
  /\ job # None /\ Fault
  /\ job' = None /\ op' = IF Polled THEN "FAILED" ELSE op
  /\ UNCHANGED <<kind, object, config, tf, pc, plan, todo, disturbed, orphans, edits>>

Await ==
  /\ op = "SUCCEEDED" /\ Proceed(object)
  /\ UNCHANGED <<kind, object, job, config, orphans, faults, edits>>

AwaitFails ==
  /\ op = "FAILED" /\ Fail
  /\ UNCHANGED <<kind, object, job, config, disturbed, orphans, faults, edits>>

\* A poll gets an error, or the provider is killed.
LosesSight ==
  /\ pc \in {"create", "update", "delete"} /\ Fault
  /\ Abandon
  /\ UNCHANGED <<kind, config, edits>>

-----------------------------------------------------------------------------
(* The world around the handlers.                                          *)

\* The practitioner edits an attribute, takes the block out, or puts one in.
ChangeConfig ==
  /\ pc = "idle" /\ Edit
  /\ \/ config # None /\ config' = None
     \/ config = None /\ config' \in Configs[kind]
     \/ config # None /\ \E a \in Attrs : \E x \in Configurable(kind, a) \ {config[a]} :
          config' = [config EXCEPT ![a] = x]
  /\ UNCHANGED <<kind, object, job, tf, handler, disturbed, orphans, faults>>

\* terraform import of an object like the configured one, and the Read after it.
ImportState ==
  /\ pc = "idle" /\ tf = None /\ config # None /\ Edit
  /\ object' = Made(config)
  /\ tf' = LET nothing == [a \in Attrs |-> None]
           IN  IF Read.learns THEN Recorded(nothing, object') ELSE nothing
  /\ disturbed' = ~Read.learns
  /\ UNCHANGED <<kind, job, config, handler, orphans, faults>>

\* Somebody else changes or deletes the managed object.
Console ==
  /\ tf # None /\ object # None /\ job = None /\ op = "NONE" /\ Edit
  /\ \/ object' = None
     \/ \E a \in Attrs : \E x \in Values \ {object[a]} :
          /\ rule[a] \in {"update", "optional"}
          /\ object' = [object EXCEPT ![a] = x]
  /\ disturbed' = TRUE
  /\ UNCHANGED <<kind, job, config, tf, handler, orphans, faults>>

Handler ==
  \/ ReadOK \/ ReadGone \/ ReadFails
  \/ PlanNothing \/ PlanRefused \/ PlanCreate \/ PlanUpdate \/ PlanDelete
  \/ SaveAlone \/ Refuse \/ LookUp \/ LookUpFails \/ Get \/ GetFails
  \/ Call \/ Start \/ RequestFails \/ AnswerLost \/ Await \/ AwaitFails

API == OperationSucceeds \/ OperationFails

Next == StartRun \/ Handler \/ API \/ LosesSight \/ ChangeConfig \/ ImportState \/ Console

Spec == Init /\ [][Next]_vars

\* Terraform is run again and again, the process runs, the API finishes what
\* it has started.
Fairness == WF_vars(StartRun) /\ WF_vars(Handler) /\ WF_vars(API)

FairSpec == Spec /\ Fairness

-----------------------------------------------------------------------------
(* Properties.                                                             *)

\* Between runs a record is what its handlers make of the object, unless the
\* object changed or an update was lost since the last refresh.
RecordTracksObject ==
  (pc = "idle" /\ tf # None /\ ~disturbed) => object # None /\ tf = Recorded(tf, object)

\* An object that nobody names is the price of a fault, one each: neither a
\* refusal nor a failed operation nor a replacement loses one.
OrphansNeedFaults ==
  orphans + (IF pc = "idle" /\ tf = None /\ object # None THEN 1 ELSE 0) <= faults

\* An object is replaced only if the configuration asks for something else
\* than is recorded and cannot have it in place, or if one of these attributes
\* was left out and any other attribute changed.
Forgotten == {<<"load_balancer", "type">>, <<"kubernetes_cluster", "routing_mode">>,
              <<"vm_by_template", "nvlink_domain_id">>}
Asked(a) == (config[a] # None \/ rule[a] \notin Computed) /\ config[a] # tf[a]
ReplacesForCause ==
  [][(pc = "plan" /\ pc' = "delete" /\ config # None) =>
       \E a \in Attrs : \/ Asked(a) /\ rule[a] \notin InPlace
                        \/ <<kind, a>> \in Forgotten /\ config[a] = None
                             /\ \E b \in Attrs : Asked(b)]_vars

\* Where Read tells a missing object from an error, a missing one is forgotten
\* in the end and made anew if it is still wanted.  The other Reads mean to, "we
\* update Terraform state to match" (load_balancer_resource.go:383), and never get
\* there.
Noticing == {"firewall_rule", "ib_partition", "transport_partition", "kubernetes_cluster",
             "registry_repository", "vm_by_template"}
GoneIsNoticed ==
  (kind \in Noticing /\ tf # None /\ object = None) ~> (tf = None)

\* When faults and edits are over, running Terraform again and again makes the
\* object what is configured, except where the handlers cannot get there.
Settled ==
  IF config = None \/ tf = None THEN config = None /\ tf = None
  ELSE /\ Planned = tf /\ object # None
       /\ Read.learns => \A a \in Attrs : (config[a] # None /\ Given(Recorded(config, object)[a]))
                              => Recorded(config, object)[a] = config[a]
Stuck ==
  \/ tf # None /\ object = None /\ Read.gone = "error"
  \/ kind = "registry_repository" /\ orphans > 0
  \/ /\ tf # None /\ config # None
     /\ \/ \E a \in Attrs : Pinned(a)
        \/ \E a \in Attrs : /\ Planned[a] \notin {tf[a], Unknown}
                            /\ rule[a] \in InPlace \/ (rule[a] = "nested" /\ Planned[a] = None)
                            /\ a \notin UpdateOf(kind, Planned, tf).sends
        \/ kind = "kubernetes_cluster" /\ config.extra_args = Empty
Converges == <>[](pc = "idle" => Settled \/ Stuck)

\* Every kind whose Read drops a record only for a missing object keeps the
\* promise of a managed object.
Plain == kind \notin {"firewall_rule", "vm_by_template"}
Promise == INSTANCE ManagedObject WITH
  exists <- Plain /\ object # None,
  known  <- Plain /\ tf # None,
  lost   <- IF Plain THEN orphans ELSE 0
KeepsItsPromise == Promise!Spec
=============================================================================
