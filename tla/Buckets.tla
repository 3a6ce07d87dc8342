------------------------------- MODULE Buckets -------------------------------
(***************************************************************************)
(* The crusoe_storage_s3_bucket resources of one configuration             *)
(* (internal/s3_bucket), run by one provider process.  Terraform calls the *)
(* handlers side by side; a mutex lets one of Create, Update and Delete in *)
(* at a time, and no Read waits for it.  An Update is up to three requests *)
(* and a reading back; Create is a request and a reading back.             *)
(*                                                                         *)
(* What Terraform itself does with an answer matters here: an applied      *)
(* value other than the planned one is an error, and a new object with     *)
(* such an error is tainted: the next run replaces it.                     *)
(***************************************************************************)
EXTENDS Integers, FiniteSets

CONSTANTS
  None,          \* null
  NoTags,        \* the empty map of tags
  Resources,     \* the resources, each with a bucket name of its own
  Tags, Locations,
  Periods,       \* configurable retention periods
  Half,          \* 2^31 of the int32 that a period is sent in
  Configs,       \* the configuration blocks tried
  MaxFaults, MaxEdits

Config == [location : Locations, versioning : BOOLEAN, lock : BOOLEAN,
           period : Periods \cup {None}, tags : Tags \cup {None, NoTags}]

ASSUME BucketsAssumption ==
  /\ None \notin Resources
  /\ None \notin Tags \cup {NoTags} /\ NoTags \notin Tags
  /\ Half \in Nat \ {0} /\ Periods \subseteq Nat \ {0}
  /\ Configs \subseteq Config
  /\ MaxFaults \in Nat /\ MaxEdits \in Nat

VARIABLES
  bucket,        \* the bucket of each resource's name, or None
  config,        \* the block of each resource, or None
  tf,            \* the record of each, or None
  pc,            \* the stage of each
  bucketMutex,   \* the resource whose handler has it, or None
  touched,       \* history: the resources whose bucket somebody else changed
  faults, edits

vars == <<bucket, config, tf, pc, bucketMutex, touched, faults, edits>>

\* period 0 is a lock without a retention period.
Bucket == [location : Locations, versioning : BOOLEAN, lock : BOOLEAN,
           period : 0..(Half - 1), tags : Tags \cup {NoTags}]
Record == [location : Locations, versioning : BOOLEAN, lock : BOOLEAN,
           period : Nat \cup {None}, tags : Tags \cup {None}, tainted : BOOLEAN]

Inside == {"create", "created", "tags", "versioning", "lock", "readback", "delete"}
Stages == {"idle", "refresh", "plan", "apply"} \cup Inside

TypeOK ==
  /\ bucket \in [Resources -> Bucket \cup {None}]
  /\ config \in [Resources -> Configs \cup {None}]
  /\ tf \in [Resources -> Record \cup {None}]
  /\ pc \in [Resources -> Stages]
  /\ bucketMutex \in Resources \cup {None}
  /\ touched \in SUBSET Resources /\ faults \in 0..MaxFaults /\ edits \in 0..MaxEdits
  /\ \A r \in Resources : /\ pc[r] \in {"create", "created"} => tf[r] = None
                          /\ pc[r] \in Inside \ {"create", "created"} => tf[r] # None
                          /\ tf[r] # None => (tf[r].period # None => tf[r].lock)

Init ==
  /\ bucket = [r \in Resources |-> None] /\ tf = [r \in Resources |-> None]
  /\ config \in [Resources -> Configs]
  /\ pc = [r \in Resources |-> "idle"] /\ bucketMutex = None
  /\ touched = {} /\ faults = 0 /\ edits = 0

Fault == faults < MaxFaults /\ faults' = faults + 1
Edit  == edits < MaxEdits /\ edits' = edits + 1
Quiet == UNCHANGED <<config, touched, edits>>
Answered == UNCHANGED faults /\ Quiet

At(r, stage) == pc[r] = stage
Go(r, stage) == pc' = [pc EXCEPT ![r] = stage] /\ UNCHANGED bucketMutex
Saved(r, rec) == tf' = [tf EXCEPT ![r] = rec]
Now(r, b) == bucket' = [bucket EXCEPT ![r] = b]

Return(r) == pc' = [pc EXCEPT ![r] = "idle"] /\ bucketMutex' = None

-----------------------------------------------------------------------------
(* Conversions.                                                            *)

\* int32(n) of Go.
Int32(n) == ((n + Half) % (2 * Half)) - Half

\* The period that goes into a request: none if it is not configured.  A period
\* stands for a length and its unit: they are configured, sent, stored and
\* answered together here, while the code sends an empty unit with a length that
\* has none and leaves it to the API to take it.
Requested(c) == IF c.period = None THEN 0 ELSE Int32(c.period)

\* Slip: a period is kept where there is no lock.
KeepsPeriod(b, model) ==
  [location |-> b.location, versioning |-> b.versioning, lock |-> b.lock,
   period |-> IF b.period > 0 THEN b.period ELSE model.period,
   tags |-> IF b.tags = NoTags THEN None ELSE b.tags, tainted |-> FALSE]
\* model is the planned or recorded resource the answer is put into: where
\* the answer has no period, a locked bucket keeps the one of the model.
s3BucketToTerraformResourceModel(b, model) ==
  [location |-> b.location, versioning |-> b.versioning, lock |-> b.lock,
   period |-> IF ~b.lock THEN None ELSE IF b.period > 0 THEN b.period ELSE model.period,
   tags |-> IF b.tags = NoTags THEN None ELSE b.tags, tainted |-> FALSE]

\* A result that Terraform accepts for a plan: what is configured is there.
AsPlanned(rec, c) ==
  /\ <<rec.location, rec.versioning, rec.lock, rec.tags>> = <<c.location, c.versioning, c.lock, c.tags>>
  /\ c.period # None => rec.period = c.period

-----------------------------------------------------------------------------
(* A run: every resource is refreshed and planned before one is applied.   *)

StartRun ==
  /\ \A r \in Resources : At(r, "idle")
  /\ pc' = [r \in Resources |-> "refresh"]
  /\ UNCHANGED <<bucket, tf, bucketMutex>> /\ Answered

Read(r) ==
  /\ At(r, "refresh")
  /\ Saved(r, IF tf[r] = None \/ bucket[r] = None THEN None
              ELSE [s3BucketToTerraformResourceModel(bucket[r], tf[r])
                      EXCEPT !.tainted = tf[r].tainted])
  /\ Go(r, "plan")
  /\ UNCHANGED bucket /\ Answered

\* A failed refresh ends the run of every resource.
ReadFails(r) ==
  /\ At(r, "refresh") /\ tf[r] # None /\ Fault
  /\ pc' = [s \in Resources |-> "idle"]
  /\ UNCHANGED <<bucket, tf, bucketMutex>> /\ Quiet

Planned == \A r \in Resources : ~At(r, "refresh")
Replaces(r) == tf[r].tainted \/ config[r].location # tf[r].location

PlanNothing(r) ==
  /\ At(r, "plan") /\ Planned
  /\ \/ config[r] = None /\ tf[r] = None
     \/ config[r] # None /\ tf[r] # None /\ ~Replaces(r) /\ AsPlanned(tf[r], config[r])
  /\ Go(r, "idle")
  /\ UNCHANGED <<bucket, tf>> /\ Answered

PlanChange(r) ==
  /\ At(r, "plan") /\ Planned
  /\ \/ tf[r] = None /\ config[r] # None
     \/ tf[r] # None /\ config[r] = None
     \/ config[r] # None /\ tf[r] # None /\ (Replaces(r) \/ ~AsPlanned(tf[r], config[r]))
  /\ Go(r, "apply")
  /\ UNCHANGED <<bucket, tf>> /\ Answered

\* Slip: the mutex is not there.
LockMissing(r) == UNCHANGED bucketMutex
Lock(r) == bucketMutex = None /\ bucketMutex' = r

\* The handler begins: Lock, and the Unlock deferred.
Enter(r) ==
  /\ At(r, "apply") /\ Lock(r)
  /\ \E stage \in {"create", "delete", "tags"} :
       /\ stage = "create" <=> tf[r] = None
       /\ stage = "delete" <=> tf[r] # None /\ (config[r] # None => Replaces(r))
       /\ pc' = [pc EXCEPT ![r] = stage]
  /\ UNCHANGED <<bucket, tf>> /\ Answered

-----------------------------------------------------------------------------
(* Create.                                                                 *)

\* Slip: the tags are left out.
RequestUntagged(c) ==
  [location |-> c.location, versioning |-> c.versioning, lock |-> c.lock,
   period |-> IF c.lock THEN Requested(c) ELSE 0, tags |-> NoTags]
\* The retention period is sent if the lock is.
Request(c) ==
  [location |-> c.location, versioning |-> c.versioning, lock |-> c.lock,
   period |-> IF c.lock THEN Requested(c) ELSE 0,
   tags |-> IF c.tags = None THEN NoTags ELSE c.tags]

\* The API takes a name that is free and a lock on versions, for no negative time.
Acceptable(b) == b.period >= 0 /\ (b.lock => b.versioning)

CreateS3Bucket(r) ==
  /\ At(r, "create") /\ bucket[r] = None /\ Acceptable(Request(config[r]))
  /\ Now(r, Request(config[r]))
  /\ Go(r, "created")
  /\ UNCHANGED tf /\ Answered

CreateFails(r) ==
  /\ At(r, "create")
  /\ \/ ~(bucket[r] = None /\ Acceptable(Request(config[r]))) /\ UNCHANGED <<bucket, faults>>
     \/ Fault /\ UNCHANGED bucket
     \/ bucket[r] = None /\ Acceptable(Request(config[r])) /\ Fault /\ Now(r, Request(config[r]))
  /\ Return(r)
  /\ UNCHANGED tf /\ Quiet

CreateRecords(r) ==
  /\ At(r, "created") /\ bucket[r] # None
  /\ LET rec == s3BucketToTerraformResourceModel(bucket[r], config[r])
     IN  Saved(r, [rec EXCEPT !.tainted = ~AsPlanned(rec, config[r])])
  /\ Return(r)
  /\ UNCHANGED bucket /\ Answered

\* There is a bucket then, no record of it, and its name is taken.
CreateUnread(r) ==
  /\ At(r, "created")
  /\ \/ bucket[r] = None /\ UNCHANGED faults
     \/ Fault
  /\ Return(r)
  /\ UNCHANGED <<bucket, tf>> /\ Quiet

-----------------------------------------------------------------------------
(* Update: three requests, each only if it is needed, and the answer.      *)

Disables(r) ==
  \/ tf[r].versioning /\ ~config[r].versioning
  \/ tf[r].lock /\ ~config[r].lock

UpdateRefused(r) ==
  /\ At(r, "tags") /\ Disables(r)
  /\ Return(r)
  /\ UNCHANGED <<bucket, tf>> /\ Answered

\* Slip: the lock comes before the versions it needs.
LockFirst == [tags |-> "lock", lock |-> "versioning", versioning |-> "readback"]
\* Of each part, what is after it, when it is needed and what it does.
Next3 == [tags |-> "versioning", versioning |-> "lock", lock |-> "readback"]
Needs(r, part) ==
  CASE part = "tags"       -> config[r].tags # tf[r].tags
    [] part = "versioning" -> ~tf[r].versioning /\ config[r].versioning
    [] part = "lock"       -> ~tf[r].lock /\ config[r].lock
Applied(r, part) ==
  CASE part = "tags"       -> [bucket[r] EXCEPT !.tags = IF config[r].tags = None THEN NoTags ELSE config[r].tags]
    [] part = "versioning" -> [bucket[r] EXCEPT !.versioning = TRUE]
    [] part = "lock"       -> [bucket[r] EXCEPT !.lock = TRUE, !.period = Requested(config[r])]
Takes(r, part) == bucket[r] # None /\ Acceptable(Applied(r, part))

UpdatePart(r, part) ==
  /\ At(r, part) /\ ~Disables(r)
  /\ \/ ~Needs(r, part) /\ UNCHANGED bucket
     \/ Needs(r, part) /\ Takes(r, part) /\ Now(r, Applied(r, part))
  /\ Go(r, Next3[part])
  /\ UNCHANGED tf /\ Answered

UpdatePartFails(r, part) ==
  /\ At(r, part) /\ ~Disables(r) /\ Needs(r, part)
  /\ \/ ~Takes(r, part) /\ UNCHANGED <<bucket, faults>>
     \/ Fault /\ UNCHANGED bucket
     \/ Takes(r, part) /\ Fault /\ Now(r, Applied(r, part))
  /\ Return(r)
  /\ UNCHANGED tf /\ Quiet

\* A result other than planned is an error here too, but nothing is tainted.
UpdateRecords(r) ==
  /\ At(r, "readback") /\ bucket[r] # None
  /\ Saved(r, s3BucketToTerraformResourceModel(bucket[r], config[r]))
  /\ Return(r)
  /\ UNCHANGED bucket /\ Answered

UpdateUnread(r) ==
  /\ At(r, "readback")
  /\ \/ bucket[r] = None /\ UNCHANGED faults
     \/ Fault
  /\ Return(r)
  /\ UNCHANGED <<bucket, tf>> /\ Quiet

-----------------------------------------------------------------------------
(* Delete; the Create of a replacement comes after it in the same run.     *)

DeleteS3Bucket(r) ==
  /\ At(r, "delete") /\ bucket[r] # None
  /\ Now(r, None) /\ Saved(r, None)
  /\ pc' = [pc EXCEPT ![r] = IF config[r] = None THEN "idle" ELSE "apply"]
  /\ bucketMutex' = None
  /\ Answered

DeleteFails(r) ==
  /\ At(r, "delete")
  /\ \/ bucket[r] = None /\ UNCHANGED <<bucket, faults>>
     \/ Fault /\ UNCHANGED bucket
     \/ Fault /\ Now(r, None)
  /\ Return(r)
  /\ UNCHANGED tf /\ Quiet

-----------------------------------------------------------------------------
(* Others.                                                                 *)

\* The provider is killed, and the handlers of all resources with it.
Killed ==
  /\ \E r \in Resources : pc[r] \in Inside
  /\ Fault
  /\ pc' = [r \in Resources |-> "idle"] /\ bucketMutex' = None
  /\ UNCHANGED <<bucket, tf>> /\ Quiet

ChangeConfig(r) ==
  /\ \A s \in Resources : At(s, "idle")
  /\ Edit
  /\ \E c \in (Configs \cup {None}) \ {config[r]} : config' = [config EXCEPT ![r] = c]
  /\ UNCHANGED <<bucket, tf, pc, bucketMutex, touched, faults>>

\* A bucket is changed, removed or made by somebody else.
Console(r) ==
  /\ Edit
  /\ \/ \E c \in Configs : Acceptable(Request(c)) /\ Now(r, Request(c))
     \/ Now(r, None)
  /\ bucket' # bucket /\ touched' = touched \cup {r}
  /\ UNCHANGED <<config, tf, pc, bucketMutex, faults>>

\* terraform import and the Read after it.
ImportState(r) ==
  /\ \A s \in Resources : At(s, "idle")
  /\ tf[r] = None /\ bucket[r] # None /\ config[r] # None /\ Edit
  /\ Saved(r, s3BucketToTerraformResourceModel(bucket[r], [period |-> None]))
  /\ UNCHANGED <<bucket, config, pc, bucketMutex, touched, faults>>

Handler(r) ==
  \/ Read(r) \/ ReadFails(r) \/ PlanNothing(r) \/ PlanChange(r) \/ Enter(r)
  \/ CreateS3Bucket(r) \/ CreateFails(r) \/ CreateRecords(r) \/ CreateUnread(r)
  \/ UpdateRefused(r) \/ \E part \in DOMAIN Next3 : UpdatePart(r, part) \/ UpdatePartFails(r, part)
  \/ UpdateRecords(r) \/ UpdateUnread(r) \/ DeleteS3Bucket(r) \/ DeleteFails(r)

Next ==
  \/ StartRun \/ Killed
  \/ \E r \in Resources : Handler(r) \/ ChangeConfig(r) \/ Console(r) \/ ImportState(r)

Spec == Init /\ [][Next]_vars

\* Terraform is run again and again, and every handler that can go on does.
FairSpec == Spec /\ WF_vars(StartRun) /\ \A r \in Resources : WF_vars(Handler(r))

-----------------------------------------------------------------------------
(* Properties.                                                             *)

\* "Serialize bucket operations to avoid API conflicts"
\* (s3_bucket_resource.go:169): no two handlers are at the API at once.
Serialized == Cardinality({r \in Resources : pc[r] \in Inside}) <= 1

\* What no bucket can have, so that Terraform finds another result than it
\* planned: an empty map of tags, or a period without a lock or beyond int32.
Unkeepable(c) ==
  \/ c.tags = NoTags
  \/ c.period # None /\ (~c.lock \/ Int32(c.period) # c.period)

\* A bucket is deleted, with what is in it, only if its block went or has
\* another location, or the bucket was tainted when it was made: and no other
\* bucket is tainted than one that was asked to be what none can, unless
\* somebody else changed it before it was read.
KeepsItsBucket ==
  [][\A r \in Resources :
       /\ (At(r, "delete") /\ bucket'[r] # bucket[r] /\ config[r] # None /\ r \notin touched) =>
            config[r].location # tf[r].location \/ tf[r].tainted
       /\ (tf[r] = None /\ tf'[r] # None /\ tf'[r].tainted /\ r \notin touched) =>
            Unkeepable(config[r])]_vars

\* Runs that can never succeed: the lock without versions, switching off, a
\* period for a bucket that is already locked, and a name that is taken.
Refused(r) ==
  \/ config[r].lock /\ ~config[r].versioning
  \/ tf[r] = None /\ bucket[r] # None
  \/ tf[r] # None /\ Disables(r)
  \/ tf[r] # None /\ tf[r].lock /\ config[r].period # None

\* When faults and edits are over, every bucket becomes what its block asks
\* for and its record says so, whatever the other bucket is at.
Settled(r) ==
  \/ config[r] = None /\ tf[r] = None
  \/ config[r] # None /\ (Unkeepable(config[r]) \/ Refused(r))
  \/ /\ config[r] # None /\ tf[r] # None /\ bucket[r] # None
     /\ AsPlanned(tf[r], config[r]) /\ ~tf[r].tainted
     /\ tf[r] = s3BucketToTerraformResourceModel(bucket[r], tf[r])
Converges == <>[](\A r \in Resources : At(r, "idle") => Settled(r))
=============================================================================
