# The Crusoe Terraform provider in TLA+

This directory models parts of the Terraform provider for Crusoe Cloud (`src/`),
checks the models with TLC on small instances and proves theorems about them with
TLAPS. Paths below are relative to `src/`.

## Inventory

Terraform keeps a record of each resource (the *state*), reads it back from the
cloud (*refresh*), compares it with the configuration (*plan*) and calls the
provider's handlers to close the difference (*apply*). The provider is a plugin
process: one handler per operation and resource type, handlers of different
resources running concurrently, no storage of its own. What a handler knows of the
cloud is what its calls answer; what survives it is the response it returns.

| component | state it keeps | operations | what makes it correct |
|---|---|---|---|
| compute instance (`internal/vm/vm_resource.go`) | a record per instance: ID, type, disks, interface | Create, Read, Update (detach, attach, public IP, stop, resize, start), Delete, import | the record is true after every error; the plan is reached; power is restored; no instance is forgotten |
| operation polling (`internal/common/util.go`) | none | AwaitOperation, AwaitOperationAndResolve, FindResource, project fallback | a poll error is not an operation's failure; a wait ends when the operation does |
| HTTP retries (`internal/common/http_retry.go`) | none | HTTPRetryPolicy | a request with side effects is not carried out twice |
| configuration and authentication (`internal/common/config.go`, `auth_method.go`, `auth.go`, `crusoe/provider.go`) | resolved credentials | GetConfigWithOptions, ResolveAuthMethod, request signing | precedence of sources; one authentication method, chosen as documented |
| plan rules (`internal/common/plan_modifiers.go`, `deprecated_alias.go`, `k8s_version_type.go`, `storage_size.go`) | none | plan modifiers, alias pairs, semantic equality | a plan is stable: what the API answers to an applied plan plans nothing |
| instance by template (`internal/vm/vm_by_template_resource.go`) | a record per instance | bulk create, Update with public IP and reservation | as the compute instance |
| disk, load balancer, VPC network, VPC subnet, firewall rule, project, instance template | a record each | asynchronous create, read, update, delete | no orphan without a fault; a resource deleted elsewhere is dropped, and only that |
| instance group (`internal/instance_group`) | a record | Delete scales to zero, deletes the active instances, then the group | no instance outlives its group; a failed delete can be repeated |
| Kubernetes cluster and node pool (`internal/kubernetes`) | a record each | update, node rollout, plan warnings | a changed pool is rolled out or said not to be |
| InfiniBand and transport partitions | a record each | create, read, delete, moving a partition between the two types | a move changes the record and nothing in the cloud |
| S3 bucket and key (`internal/s3_bucket`, `internal/s3_key`) | records, a process-wide bucket mutex, a secret shown once | three-part update, list after create | a secret or bucket that was created is recorded |
| registry repository and token (`internal/registry`) | records | create then find by alias | the record names the token that was created |
| kubeconfig, data sources, validators, state upgrades | - | fetch, list, check syntax, convert | pure I/O and pure conversions |

Components interact through the cloud and through Terraform's records only: the
handlers share the API client and, for buckets, one mutex. What is hard:

- a handler is a sequence of remote calls; somebody else may work on the resource,
  and operations may end, between any two of them;
- a request or its answer may be lost, a poll may fail while the operation goes on,
  and the provider may be killed: the cloud then knows more than the record;
- a handler that fails half way must leave a record from which the next run goes on;
- decisions are made on values read several calls earlier (power state, list of
  active instances, planned diff);
- what must eventually happen depends on runs of Terraform nobody is bound to make.

`PROJECT.json` lists the hazards line by line, each with the properties that catch
it or the reason why none does. Several are hazards the code does not deal with: the
property that would be about them names them as an exception (`Unkeepable`,
`Unsettled`, `Indistinct`, `disturbed`, `excused`, below) or counts them as a fault.
Such a property bounds the hazard and does not catch it, and the entry says so.

## Modules

| module | what it is |
|---|---|
| `CloudVM` | the compute API as `internal/vm` sees it: instances, one operation each, the console |
| `VMResource` | one compute instance resource: Terraform's refresh, plan and apply, and the handlers of `vm_resource.go`, over `CloudVM`; its properties |
| `MCVMResource` | values and symmetry for TLC |
| `ManagedObject` | what a resource promises, whatever its kind: the abstract specification |
| `Objects` | twelve kinds of resources that stand for one object each, from a catalogue; shown to implement `ManagedObject` |
| `NodePool` | one Kubernetes node pool: the plan's warnings, creation, patch and rotation; implements `ManagedObject` too |
| `InstanceGroup` | one instance group and the API that keeps it at its size; the long Delete |
| `Keys` | S3 keys and registry tokens, side by side, with a secret that is shown once |
| `Buckets`, `MCBuckets` | several S3 buckets in one provider process and its mutex; the blocks tried |
| `Spellings`, `MCSpellings` | attributes whose value has several spellings; the spellings tried |
| `VMResourceProofs`, `ObjectsProofs`, `NodePoolProofs`, `InstanceGroupProofs`, `KeysProofs`, `BucketsProofs`, `SpellingsProofs` | of the module each is named after: the inductive invariant, the lemmas, the theorems |
| `Counting` | two lemmas on the size of sets, for the theorems that count |

`VMResource` composes with `CloudVM`; `Objects` and `NodePool` are shown to implement
`ManagedObject`; the others are complete in themselves, each with as much of the API as its handlers can see.
All share one frame: a run of Terraform refreshes the record (`Read`), makes a plan
(`PlanNothing`, `PlanCreate`, ...), and calls at most one handler per resource. A
replacement is a Delete and a Create; in `Objects` the Create is left to the next run,
so that the configuration may change and faults may happen between the two. Every request has an action in which it is
answered and one in which the handler gets an error, because the request was
refused, was lost, or was obeyed and its answer lost. `faults` and `edits` count what
the environment has done; `Fault` and `Edit` guard it.

### CloudVM

The API is not in the repository. The module is what the code that uses it relies
on: a request starts an operation or is refused; an operation succeeds as a whole
or fails without effect; an instance runs one operation at a time; a resize needs
the instance off and an interface update needs it running
(`internal/vm/vm_resource.go` says both); disks attach in any power state
(`CHANGELOG.md`, hot attach). `Altered` is what somebody else can do in one step,
deleting the instance included. An operation is a record of the disks it names and
of the plan it was built from.

### VMResource

| variable | in the code |
|---|---|
| `vm`, `job` | the cloud: instances and their operations |
| `config`, `tf` | the configuration block and the stored record |
| `pc` | the call the provider makes next; a stage ending in *-ing* is a wait in `AwaitOperation` |
| `cur`, `plan`, `resp` | the instance ID, the planned resource and `resp.State` of the running handler |
| `op` | the state of the operation being polled |
| `wasRunning` | Update's local of that name |
| `before`, `disturbed` | history: power state when Update began; whether the managed instance changed other than by an operation whose success the provider was told |
| `faults`, `edits` | counters of the bounded environment |

Every call is up to three actions: the call that starts an operation (`Stop`), the
call that gives an error (`StopFails`: refused, lost, or carried out with its answer
lost), and the return of a successful wait (`StopDone`). A wait that fails is
`AwaitFails`, for every handler alike: an operation that failed, or a poll that did,
with the operation going on unknown to the provider. `Return` stores the response.
An error return stores what the handler has put into its response so far, which is
why `SaveDisks`, `PatchNicDone` and `ResizeDone` set `resp` where the code calls
`resp.State.Set`. `Killed` loses the response. `ImportState` is terraform import
followed by the Read that fills the record in.

A plan replaces the instance for three reasons: a type of another family; any change at
all while `location` is left out, which is computed, requires replacement and is not
carried over (`config.location` says whether it is given); and any run after an
import, which leaves the required `ssh_key` null in the record (`tf.key`). The last two
replace an instance for a type of its own family too, which the comment on
`resizeRequiresReplace` says is applied in place.

What is abstracted: the type stands for itself and for the other attributes whose change
replaces the instance; a disk is its ID and access mode (`getDisksDiff` looks at
nothing else; a change of `attachment_type` alone is recorded and never sent); an
instance has one interface, the only number Update handles, and what the API fills
in of it (address, private IP) is not told apart; reservation IDs, host channel
adapters and names are left out. The retries of the HTTP client are folded into a
call: it gets an answer or an error in the end. A failed detach request, after which
the code dereferences an operation it was not given, ends the handler with the prior
state, as Terraform keeps it when a provider crashes.

### ManagedObject and Objects

`ManagedObject` has three variables: whether the object `exists`, whether it is
`known` to Terraform, and how many were `lost`. A resource has one object at most;
once known it stays known as long as it exists; a creation cut short may leave an
object behind, and nothing else does. Ten of the twelve kinds of `Objects` keep that promise,
and node pools do. A compute instance does not, since its Read drops the record on any
error, nor an instance group, since a group that was left behind can be imported again.

`Objects` models networks, subnets, disks, load balancers, firewall rules, projects,
both kinds of partitions, instance templates, clusters, repositories and instances by
template. Their handlers have the same form, and what differs is in a catalogue, one
block of definitions for each package: what the schema says of each attribute when a
plan is made (`diskSchema`), the requests of each handler in order (`diskCreate`,
`diskUpdate`, `diskDelete`), and what Read makes of a missing object and of an error
(`diskRead`). An attribute stands for those of its kind that are treated alike. The
machine that runs the catalogue:

| variable | in the code |
|---|---|
| `kind` | which resource type; constant in a behaviour |
| `object`, `job` | the API: the object and the operation running on it |
| `config`, `tf`, `plan` | the block, the stored record, the planned resource; `Unknown` in a plan is "known after apply" |
| `pc`, `todo` | the running handler and the requests it has still to make |
| `op` | the state of the operation being polled |
| `disturbed`, `orphans` | history: the record may be behind the object; objects nobody names |

`Planned` makes a plan the way the framework does with the schema's plan modifiers:
what is left out and computed is carried over, or unknown when something else
changes (`UseStateForUnknown` or not), and what the plan modifiers make of a
difference is an update, a replacement or a refusal. Two rules are of one attribute each:
"nested", the disks of a template, replaced if one of them changes and updated, which
is refused, if the set is removed; and "floating", the project of a repository, which
no modifier carries over. The Read after an import fills in what the import leaves out
(`Answered`), the partition of a template included. `Proceed` takes the next request
of the handler and, after the last one, stores the record. The reading with which Update
of an instance by template begins refuses an instance that is not running; somebody who
stops one and starts it again is an edit (`GetFails`), and costs no fault.

### NodePool

| variable | in the code |
|---|---|
| `pool`, `job` | the API: count, version, nodes, `stale` nodes that are not yet as the pool says; the operation |
| `config`, `tf`, `plan`, `pc`, `op` | as above |
| `warned` | the warnings `ModifyPlan` gave in this run |
| `disturbed`, `cut`, `excused`, `orphans` | history: the record may be behind; the provider missed an answer; a rotation failed or somebody else was there; pools nobody names |

Create has three answers (the pool read back, a read that fails, which falls back on
the plan, and an error). Update patches, waits, asks for a rotation if
`nodePoolNeedsRollout` and a batch is set, does not wait for it, and reads back. The
version is what the API reports; labels, batch and SSH key are in the record alone.
`Versions` stands for taints and ephemeral storage as well. Labels that are left out are
null in the record; `UseStateForUnknown` of the framework version in `go.mod` carries
values and not nulls, so that any other change plans them as `Unknown`, which differs
from null: `nodePoolNeedsRollout` holds, and with a batch the nodes are rotated.

### InstanceGroup

| variable | in the code |
|---|---|
| `group`, `vm` | the API: the group, and how far the life of each instance has come |
| `listed`, `todo`, `failed` | locals of Delete: the active instances it was told of, those still to delete, whether one could not be |
| `config`, `tf`, `pc`, `others` | as above; groups in no record |

Delete sets the count to zero (`ScaleToZero`), asks once for the active instances
(`GetInstanceGroup`), deletes them one after the other, going on after a failure, and
deletes the group if there was none. The API starts and ends instances meanwhile. An
instance list that changes during an Update contradicts the plan, which carries the old
lists over; Terraform reports that and stores the answer all the same, so that it is
no step of its own here.

### Keys

`keys` is every key ever made, its place being its ID; `tf`, `config`, `pc` are
functions of the resource, and `held` is the key whose creation the running Create
has the answer of, secret included. `service` selects S3 keys or registry tokens,
which differ in how the list made afterwards is searched: an S3 key by its ID, a
token by alias and usage, the first that matches. An S3 key that is not in the list
(revoked meanwhile, or the list is behind, which costs a fault) is recorded with
unknown attributes: the record is `tainted`, and the next plan replaces the key.

### Buckets

`bucket`, `config`, `tf` and `pc` are functions of the resource and `bucketMutex` is
the package variable of that name, with the resource whose handler holds it. Create,
Update and Delete enter under it (`Enter`) and every return leaves it; Read does not
wait. An Update is up to three requests in order (tags, versioning, lock) and a
reading back. What Terraform does with an answer that contradicts the plan is part of
the model, since it decides whether a bucket is replaced: it taints a new object. The
retention period is cut to `2 * Half` values, as `int32` cuts it to 2^32. A period is its
length and its unit in one; the code sends an empty unit with a length that has none, and
what the API makes of that is not modelled.

### Spellings

One attribute of one object, of the kind `kind`: a disk size, the disks of a
template, the ports of a firewall rule, its sources under the deprecated or the new
name, the version of a cluster (CMKv1 and CMKv2) or of a node pool. `config` and
`record` are spellings, `object` is the value the API holds, `fresh` says that the
object is as it was when the record was written, and `outcome` is the end of the last
run, `"inconsistent"` when the record made after an apply is not the planned one. A
handler is one step here: failures are the subject of the other modules. Ports and
targets are compared as the code compares them, sorted and with what is repeated (as
bags), and the API answers each once. A rule with sources under the deprecated name
whose answer has no address leaves that field empty, and the next Read fills the new
field beside it (`"both"`). Assumed of the API: it
reads the wildcard that Update sends unexpanded as all ports (Create expands it), and
accepts the resize of a disk to the size it has, under another unit.

## Properties

| property of `VMResource` | says | of |
|---|---|---|
| `TypeOK` | the one type invariant | all |
| `RecordTracksCloud` | between runs the record of an undisturbed instance is true; a failed Update may leave it showing a disk that is detached already, never hiding one, and never the wrong type | every error path of every handler |
| `FinishedAsPlanned` | an Update that returns without error has made the instance what the plan says and recorded it | `getDisksDiff`, the order of Update |
| `PowerRestored` | such an Update leaves the power state as found, or running | the stop and start around a resize |
| `ResizedWhileOff` | a resize is asked for only of an instance that is off | one reading of the power state, used several calls later |
| `OrphansNeedFaults` | there are no more unmanaged instances than faults | Create, Delete, replacement |
| `DropsOnlyTheDeleted` | outside of a refresh a record disappears only with its instance | Delete's error paths |
| `Converges` | when edits and faults are over, running Terraform again and again reaches the configuration | all |
| `RestartedAfterResize` | *violated*: an instance stopped for a resize is started again | the warning and `CHANGELOG.md:75` |
| `ReadDropsOnlyTheDeleted` | *violated*: Read drops only what was deleted | the comment in Read |

The history variable `disturbed` keeps the first four honest: nobody can promise a
true record of an instance another client is changing, or of an operation whose
outcome was lost on the way. It becomes false again at every refresh. A fault that
tells the provider an error without changing the instance does not set it, so a lost
request, a refused call, a failed operation and every partial failure count.

| property | says | of |
|---|---|---|
| **Objects** | | |
| `RecordTracksObject` | between runs a record is what its handlers make of the object, unless the object changed or an update was lost since the last refresh | every error path |
| `OrphansNeedFaults` | no more unnamed objects than faults | Create, replacement, Reads that drop on any error |
| `ReplacesForCause` | an object is replaced only for a change that was asked for, or because one of three attributes was left out while another changed | plan modifiers |
| `KeepsItsPromise` | refinement: `exists` is `object # None`, `known` is `tf # None`, `lost` is `orphans` | all kinds but the two whose Read drops a record on any error |
| `GoneIsNoticed` | a missing object is forgotten in the end, where Read tells it from an error | Read |
| `Converges` | repeated runs reach the configuration, unless `Stuck` | all |
| **NodePool** | | |
| `RecordTracksPool` | between runs the record shows the pool | every error path |
| `OrphansNeedCuts` | a pool without a record is the price of a creation whose answer was lost or that was interrupted; failing to read a new pool back is not one | Create, Read |
| `NodesFollow` | with a batch, once record and configuration agree the nodes are rotated or being rotated, unless an answer was missed, a rotation failed or somebody else was there | ModifyPlan, Update |
| `KeepsItsPromise` | refinement: `exists` is `pool # None`, `known` is `tf # None`, `lost` is `orphans` | Create and its fallback, the reading back, Read |
| `RotatesForCause` | nodes are rotated only if some are stale or the batch is another, unless the labels are left out and null, or the record was left behind | `nodePoolNeedsRollout` |
| `RotatesForChanges` | *violated*: the same, null labels or not | the comments on `nodePoolNeedsRollout` and on the labels |
| `DrainsAreAnnounced` | an update removes nodes only if the plan said so, unless it turns `allow_scale_down` on or the pool is not as recorded | ModifyPlan against the pool as it is when the patch takes effect |
| `Converges` | repeated runs reach the configuration | all |
| **InstanceGroup** | | |
| `OrphansNeedFaults` | a group in no record is the price of a creation that failed | Delete stopped anywhere, Update, Read |
| `ListedAreGone` | when Delete removes the group, no instance it was told of is running | Delete, its failures included |
| `Converges` | repeated runs reach the configuration from wherever a Delete stopped | all |
| **Keys** | | |
| `StrandedNeedFaults` | a live key Terraform asked for and no longer knows is the price of a fault; tokens that ever shared an alias (`Twin`) are left out | Create, list, replacement |
| `DeletesOnlyItsOwn` | the key revoked is the one on record, and the one whose secret is on record or a token of its alias; an imported record may name any key | Create, Delete |
| `RecordsTheCreated` | *violated*: the key on record after a Create is the one created | the comments in Create of a token |
| **Buckets** | | |
| `Serialized` | no two handlers are at the API at once | the mutex |
| `KeepsItsBucket` | a bucket is deleted only if its block went or moved it, or it was tainted when made; tainted is only what was asked to be what no bucket can be | the three-part Update, the conversion |
| `Converges` | every bucket becomes what its block asks for, whatever the other is at | all |
| **Spellings** | | |
| `AppliedAsPlanned` | an apply records what it planned, character for character, unless `Unsettled` | the functions that preserve a spelling |
| `NoDriftHidden` | when a fresh record plans nothing the object is what is configured, unless `Indistinct` | semantic equality |
| `Converges` | running Terraform settles on the configured spelling for good: no two answers alternate | all |

Each of these modules has its own `TypeOK`. An exception that a property makes is
named in the module and is a statement about the code:

- `Forgotten` (`Objects`): `type` of a load balancer, `routing_mode` of a cluster and
  `nvlink_domain_id` of an instance by template, when left out, replace the object
  whenever anything else changes. So a change of the extra arguments of a cluster may
  replace it, though they are documented to take effect after a rotation
  (`internal/kubernetes/kubernetes_cluster/util.go:49`).
- `Stuck` (`Objects`): a missing object whose Read calls it an error (below); a repository
  whose name an orphan has; an attribute the plan refuses to change, or changes in
  place and Update never sends (`protocols` of a load balancer, `upstream_registry`
  of a repository, `project_id` of a repository and of an instance by template, and the
  `disks` of a template when they are removed); empty extra arguments.
- `cut`, `excused` (`NodePool`): an answer the provider missed or a run that was killed;
  a rotation that failed, or somebody else at the pool. The code makes up for neither.
- `Conflict` (`NodePool`): `batch_size` with `batch_percentage`, accepted for a new
  pool, refused by every plan after it.
- `Refused` and `Unkeepable` (`Buckets`): a lock without versions, switching either
  off, a period for a bucket already locked, a name that is taken; an empty map of
  tags, a period without lock or beyond 32 bits.
- `Unsettled` (`Spellings`): units in lower case, a bare address under the deprecated
  name, emptied ports, ports or targets written twice (answered once), two disks alike
  in capacity but not in spelling or type.
- `Indistinct` (`Spellings`): the build of a CMKv2 control plane, a resource among
  targets under the deprecated name, and a second disk like the first, since a set
  names disks alike once.
- `Twin` (`Keys`): tokens with one alias, of which the list gives the first.
  `RecordsTheCreated` fails for them, and one may be lost without any fault.

## Runs

| run | checks | bounds |
|---|---|---|
| `vm_resource` | the six invariants and `DropsOnlyTheDeleted` | 2 instance IDs, 3 types (two of one family), 2 disks, 2 modes, 2 interfaces, 1 fault, 2 edits |
| `vm_converge` | `Converges` | 3 instance IDs, 3 types, 1 disk, 1 mode, 1 interface, 2 faults, 1 edit |
| `vm_restart` | `RestartedAfterResize`, expected to fail | as `vm_converge` with 1 fault |
| `vm_read` | `ReadDropsOnlyTheDeleted`, expected to fail | as `vm_converge` with 1 fault |
| `objects` | the two invariants, `ReplacesForCause`, `KeepsItsPromise`, `GoneIsNoticed`, `Converges` | all 12 kinds, 2 values per attribute, 1 fault, 2 edits |
| `node_pool` | its properties | 2 versions, 1 label, 1 batch, counts up to 2, 1 fault, 2 edits |
| `node_pool_rotate` | `RotatesForChanges`, expected to fail | as `node_pool`, no fault, 1 edit |
| `instance_group` | its properties | 2 templates, 3 instances, counts up to 2, 1 fault, 2 edits |
| `keys` | its properties | both services, 2 resources, 1 alias and none, 2 expiries, 3 keys, 1 fault, 2 edits |
| `keys_alias` | `RecordsTheCreated`, expected to fail | 2 tokens, 1 alias, no fault, no edit |
| `buckets` | its properties | 2 resources, the 10 blocks of `MCBuckets`, `Half` = 2, 1 fault, 1 edit |
| `spellings` | its properties | the spellings of `MCSpellings`, 2 edits, 2 drifts |

Bounds. `MaxFaults` bounds failed, lost and interrupted calls, `MaxEdits` changes of
the configuration, changes in the console and imports; both are guards of the
environment, never of a handler. Two disks with two modes give every disk diff: add,
remove, change of mode, and several at once, including a detach that succeeds before
an attach that fails. Two types of one family and one of another give a resize, a
replacement, and none. Two instances suffice for a replacement and the instance it
leaves behind; the runs with more faults have three, since every fault may leave one.
Instances, disks, modes and the two types of one family are interchangeable and
`vm_resource` uses that; the runs with a temporal property use no symmetry. One
interface in the convergence runs is a restriction, not a convenience: Update refuses
an interface change of an instance that is not running, so with two the code does not
converge without help.

In the other modules two values of an attribute give a change and a change back, and
two edits an edit of the configuration after, before or against one in the console or
an import; a fault at every place it can happen is one fault. Two counts give scaling
up, down and to nothing; three instances give one that is listed, one that is not yet
active and one that is started in place of another. Three keys are two of the
resources and one more, of somebody else or of a replacement. Two buckets contend for
the mutex. `Half` = 2 puts the wrap-around of the period among the periods tried: 4
is sent as none and 5 as 1. The spellings are chosen so that every pair of equal
values in different spellings and every rule of the code occurs: units, whole and
fractional TiB, order, repetition and wildcards of ports, addresses with and without a
prefix, versions with and without a build. In `spellings` alone a behaviour may end:
when nothing is left to do there is no further step.

Fairness. `FairSpec` assumes that Terraform is run again and again (`StartRun`), that
a handler that can take a step takes one (the process runs), and that the API finishes
an operation it has started, with either outcome. Operations fail only by a fault or
because the instance does not admit them, so an operation cannot fail for ever.
Nothing is assumed of edits, of the console or of faults. The specifications of the
other modules assume the same, or less: in `InstanceGroup` nothing is assumed of the
API, in `Buckets` the handler of each resource goes on by itself (Terraform runs them
in goroutines of one process, and a waiter gets the mutex in the end), `Keys` has no
liveness property, and `Spellings` needs only that Terraform is run.

## What the failing runs show

- `vm_restart`. Update reads the power state, stops the instance, and the resize is
  refused, fails or is lost. Update returns with the instance stopped. The next run
  reads `STATE_STOPPED`, concludes that the instance was not running, resizes it and
  leaves it stopped. The decision to restart lives in a local variable only.
- `vm_read`. `getVM` turns every failure into an error and Read takes every error for
  a deletion. After one lost GET the record is gone, the instance is not, and the
  next plan creates a second one.
- `node_pool_rotate`. A pool without requested labels is scaled. The labels are planned
  as unknown, differ from the null on record, and every node is rotated, none being stale.
- `keys_alias`. Two tokens of one alias are created. The list gives the first for
  either, so that the second record has the ID of the first and its own secret.

One more divergence needs no run: `Stuck` names it. The client reports a 404 as an
error, and the Reads of load balancers, disks, networks, subnets, templates and instance
groups return an error for every error before they look at the status, so the branch that
would remove the resource is never reached: an object deleted elsewhere stays in the state
and every refresh fails. `GoneIsNoticed` shows that the kinds that look at the status
first do not have the problem.

## Proofs

Every safety property that a passing run checks is also a theorem, for any sets of
instances, resources, types, values, spellings and keys, and for any bounds on faults
and edits. `*Proofs` EXTENDS the module it is about.

| module | theorem | statement |
|---|---|---|
| `VMResourceProofs` | `Invariance` | `Spec => []Inv` |
| | `TypeCorrect` | `Spec => []TypeOK` |
| | `RecordIsTrue` | `Spec => []RecordTracksCloud` |
| | `UpdateReachesPlan` | `Spec => []FinishedAsPlanned` |
| | `UpdateRestoresPower` | `Spec => []PowerRestored` |
| | `ResizeIsSafe` | `Spec => []ResizedWhileOff` |
| | `NothingLost` | `Spec => DropsOnlyTheDeleted` |
| | `OrphansAccounted` | `Spec => []OrphansNeedFaults` |
| `ObjectsProofs` | `TypeCorrect` | `Spec => []TypeOK` |
| | `RecordIsTrue` | `Spec => []RecordTracksObject` |
| | `OrphansAccounted` | `Spec => []OrphansNeedFaults` |
| | `ReplacementsHaveCauses` | `Spec => ReplacesForCause` |
| | `KeepsPromise` | `Spec => KeepsItsPromise` |
| `NodePoolProofs` | `TypeCorrect` | `Spec => []TypeOK` |
| | `RecordIsTrue` | `Spec => []RecordTracksPool` |
| | `OrphansAccounted` | `Spec => []OrphansNeedCuts` |
| | `NodesAreRotated` | `Spec => []NodesFollow` |
| | `RotationsHaveCauses` | `Spec => RotatesForCause` |
| | `DrainsAnnounced` | `Spec => DrainsAreAnnounced` |
| | `KeepsPromise` | `Spec => KeepsItsPromise` |
| `InstanceGroupProofs` | `TypeCorrect` | `Spec => []TypeOK` |
| | `OrphansAccounted` | `Spec => []OrphansNeedFaults` |
| | `DeleteLeavesNone` | `Spec => ListedAreGone` |
| `KeysProofs` | `TypeCorrect` | `Spec => []TypeOK` |
| | `StrandedAccounted` | `Spec => []StrandedNeedFaults` |
| | `OnlyOwnAreDeleted` | `Spec => DeletesOnlyItsOwn` |
| `BucketsProofs` | `TypeCorrect` | `Spec => []TypeOK` |
| | `Serialization` | `Spec => []Serialized` |
| | `BucketsAreKept` | `Spec => KeepsItsBucket` |
| `SpellingsProofs` | `TypeCorrect` | `NoneIsNoSet` implies `Spec => []TypeOK` |
| | `RecordsAsPlanned` | `NoneIsNoSet` implies `Spec => []AppliedAsPlanned` |
| | `NothingHidden` | `NoneIsNoSet` implies `Spec => []NoDriftHidden` |

### The inductive invariants

None of the properties is inductive by itself: they speak of the moments between runs
or of single steps, and what makes them true is how far a handler had got when it was
interrupted. Each proof module begins with what the stages of the handlers are about.
In most of them a part `Base` is inductive on its own and the rest follows from it.

`VMResource`. `RecordTracksCloud` needs for every stage:

- `Shape`: which locals a stage has (an Update works on the recorded instance, a
  Create on none that is recorded);
- `Asked`: the operation a handler waits for is the one it asked for, so that its
  success means what the handler takes it to mean;
- `Jobs`: only a creation runs on an instance that does not exist;
- `Standing`: unless the instance was disturbed, how its disks, interface, type and
  power relate to the response and to the plan (`DisksDone`, `NicDone`, `TypeDone`,
  `PowerDone`);
- `DeletedIsGone`: a deletion the handler was told of has happened.

`TypeOK`, `Jobs`, `Shape` and `Asked` are `Base`; `Standing` and `DeletedIsGone` follow.
The disk lemmas say that detaching what `getDisksDiff` calls removed and then attaching
what it calls added turns the disks of the record into those of the plan, and that
either half may be empty. The steps are grouped by what they do to the handler
(`Calls`, `CallErrors`, `Locals`, `Returns`), `StepCases` says that the groups are all,
and each lemma has one case per group. TLC has checked `Inv` on the small instance as
well. For `OrphansNeedFaults`, `Accounted` says that the unmanaged instances are
finitely many and no more than the faults. A step either leaves nobody behind or adds
one instance and counts a fault (`Paid` of `Counting`); that a failed creation leaves no
instance and that a gone one has no operation that could bring it back is `Ended`.

`Objects`. The catalogue of packages makes twelve resources of one machine, and so does
the proof: the first part shows what the lists of requests are (`Creating`, `Updating`,
`Deleting`), for every kind, and the rest never looks at a kind again, but for
`UpdateOf`. `Lists` says what a handler has still to do and whether it waits; `Jobs`
that what it waits for is its own; `Named` that an object without a record is being
created by the running handler, and that every other one was counted; `Shapes` that
plans, records and objects have the values the schema gives them. `Tracked` says that
the record is what handlers make of the object as long as nothing the handler has done
is missing from it (`Intact`).

`NodePool`. `Jobs`, `Recorded` and `Sound` are the like for a pool; `Announced` says
what an Update was planned from and whether it has to rotate, and keeps `ModifyPlan`'s
warnings true until the patch; `Tracked` is the record; `Followed` says what has become
of stale nodes in every stage, if the provider missed nothing: the rotation is done or
running, or there is no batch, or the handler is on its way to it.

`InstanceGroup`. Delete waits for one instance at a time (`OneAtATime`); what it has
been through is gone or going unless a failure is remembered, and it comes to the group
only after all (`Gone`). `Abandoned` counts the groups in no record.

`Keys`. `Fits` relates what a Create holds and what is recorded to the keys there are:
a record names a key that was made, and holds its secret, none, or that of another
token of the same alias. `Follows` is what any step does to the keys: it makes one at
the end or lets one die. `Accounted` counts the stranded ones as `VMResource` does.

`Buckets`. `Exclusive` is that a handler that is inside has the mutex. `Led` says
where the block and the record have led each handler, and that a bucket just created
is what was asked for unless somebody has touched it.

`Spellings`. `Truthful` says that a fresh record tells the value of the object
(`Told`): a size its number of GiB, a set of disks its capacities, a list of ports or
targets what it means, a version its release. The lemmas before it are about the
functions of `storage_size.go`, `firewall_rule/util.go` and `k8s_version_type.go`: what
the preserving functions return has the value of what the API answered, and is the
configured spelling when the two are equal.

### Refinement

`KeepsPromise` of `Objects` and of `NodePool` names what a step can be to the abstract
specification (`Managed`): keep the object and the record, drop the record of an object
that is gone, make an object, learn of it, remove it, or abandon it. Every step of the
detailed module is one of these, by the invariant, and each of these is a step of
`ManagedObject` or a stutter.

### Assumptions

The proofs use the assumptions the modules declare, and TLC evaluates those in every
run. All are about constants: bounds are natural numbers; the values that stand for
nothing, for "known after apply" and for an empty one (`None`, `Unknown`, `Empty`,
`Detached`, `NoTags`, `Conflict`) are not among the values, the records or the names
of resources; a family is a string or `None`; periods are positive; configurations
are of the type the schema gives them. `SpellingsAssumption` says of the three literals
the code compares with that they are strings, because the provers know that of none.

One hypothesis is written in the theorems instead: `NoneIsNoSet`, that `None` is not a
set of disks. It is of the same sort, but TLC cannot decide it, there being infinitely
many sizes. In the runs `None` is a model value, for which it holds.

### What is only model-checked

- Liveness: `Converges` of the six modules that state it, and `GoneIsNoticed`. It rests
  on fairness and on ENABLED, which the prover does not handle.
- The four properties that fail: a counterexample is what they have.
- The catalogue of `Objects` is a definition that holds the attributes and requests of the
  code: the proofs are about that catalogue, for any values of the attributes and any
  choice of its kinds, and not about every catalogue.

## Not modelled

- Configuration and authentication: one pure decision at start-up, without steps;
  request signing is cryptography over strings.
- kubeconfig, data sources: one call or a projection of one.
- Validators: string syntax. State upgrades: conversions of records of older versions.
- Which error texts the HTTP client retries: only the verdict is, that a creation
  whose answer is lost is not sent again.
- `MoveState` between the two partition types: it changes a record while nothing runs.
- Of the instance by template: disks, host channel adapters and reservation in its
  Update. Of the public IP part the requests are there, and what they change is not:
  it is never read back.
- A panic as such: what it does to the record is what `Killed` does.
- A wait that never ends: the poll loop has no deadline, and fairness assumes that the
  API finishes what it starts.

## Plan

The modelling is complete as far as planned, and every safety property of a passing
run is proved. What is left:

1. The compute instance as an implementation of a weaker promise than `ManagedObject`,
   one in which a record may be dropped at a refresh.
2. Facts that several proof modules prove each for itself (a handler waits for its own
   operation; an object without a record is being created) stated once, for a frame of
   refresh, plan and apply that the modules share.
