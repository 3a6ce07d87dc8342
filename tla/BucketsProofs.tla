----------------------------- MODULE BucketsProofs -----------------------------
(***************************************************************************)
(* Proofs about Buckets, for any number of resources, any configuration    *)
(* blocks, failures and edits.                                             *)
(***************************************************************************)
EXTENDS Buckets, FiniteSetTheorems, TLAPS

\* A handler that is inside has the mutex.
Exclusive == \A r \in Resources : pc[r] \in Inside => bucketMutex = r

\* Each resource is where its record and its block have led it, and what
\* nobody else has changed since its creation is what was asked for.
Led ==
  \A r \in Resources :
    /\ pc[r] = "apply" => tf[r] # None \/ config[r] # None
    /\ pc[r] \in Inside \ {"delete"} => config[r] # None
    /\ (pc[r] = "delete" /\ config[r] # None) => Replaces(r)
    /\ (pc[r] = "created" /\ r \notin touched) => bucket[r] = Request(config[r])

Inv == TypeOK /\ Exclusive /\ Led

-----------------------------------------------------------------------------
(* Conversions.                                                            *)

\* Periods are positive numbers.
LEMMA PeriodsArePositive == \A p \in Periods : p \in Nat /\ p \in Int /\ p > 0
<1>1. Periods \subseteq Nat \ {0}
  BY BucketsAssumption
<1> QED
  BY <1>1

\* A conversion to int32 stays below 2^31.
LEMMA Int32Bound ==
  ASSUME NEW n \in Int
  PROVE  Int32(n) \in Int /\ Int32(n) < Half
<1>1. Half \in Nat /\ Half > 0
  BY BucketsAssumption
<1> DEFINE m == n + Half
           b == 2 * Half
<1>2. m \in Int /\ b \in Nat /\ b > 0
  BY <1>1
<1> HIDE DEF m, b
<1>3. m % b \in Int /\ m % b < b
  BY <1>2
<1> QED
  BY <1>1, <1>3 DEF Int32, m, b

\* A period that is asked for is that of a bucket, unless it is negative.
LEMMA RequestedBound ==
  ASSUME NEW c \in Config
  PROVE  Requested(c) \in Int /\ Requested(c) < Half
<1>1. CASE c.period = None
  BY <1>1, BucketsAssumption DEF Requested
<1>2. CASE c.period # None
  <2>1. c.period \in Int
    BY <1>2, PeriodsArePositive DEF Config
  <2> QED
    BY <1>2, <2>1, Int32Bound DEF Requested
<1> QED
  BY <1>1, <1>2

\* What the API takes for a new bucket is a bucket.
LEMMA RequestTyped ==
  ASSUME NEW c \in Config, Acceptable(Request(c))
  PROVE  Request(c) \in Bucket
<1>1. /\ c.location \in Locations /\ c.versioning \in BOOLEAN /\ c.lock \in BOOLEAN
      /\ c.tags \in Tags \cup {None, NoTags}
  BY DEF Config
<1> DEFINE p == IF c.lock THEN Requested(c) ELSE 0
<1>2. p \in Int /\ p < Half
  BY RequestedBound, BucketsAssumption
<1>3. p >= 0
  BY DEF Acceptable, Request
<1>4. p \in 0..(Half - 1)
  BY <1>2, <1>3, BucketsAssumption
<1> HIDE DEF p
<1>5. Request(c) = [location |-> c.location, versioning |-> c.versioning, lock |-> c.lock,
                    period |-> p, tags |-> IF c.tags = None THEN NoTags ELSE c.tags]
  BY DEF Request, p
<1> QED
  BY <1>1, <1>4, <1>5 DEF Bucket

\* What the API takes for a bucket that changes is a bucket.
LEMMA AppliedTyped ==
  ASSUME NEW r, NEW part \in DOMAIN Next3, bucket[r] \in Bucket, config[r] \in Config,
         Acceptable(Applied(r, part))
  PROVE  Applied(r, part) \in Bucket
<1>1. part \in {"tags", "versioning", "lock"}
  BY DEF Next3
<1>2. CASE part = "tags"
  BY <1>2 DEF Applied, Bucket, Config
<1>3. CASE part = "versioning"
  BY <1>3 DEF Applied, Bucket
<1>4. CASE part = "lock"
  <2>1. Applied(r, part) =
          [bucket[r] EXCEPT !.lock = TRUE, !.period = Requested(config[r])]
    BY <1>4 DEF Applied
  <2>2. Requested(config[r]) \in Int /\ Requested(config[r]) < Half
    BY RequestedBound
  <2>3. Applied(r, part).period = Requested(config[r])
    BY <2>1 DEF Bucket
  <2>4. Requested(config[r]) \in 0..(Half - 1)
    BY <2>2, <2>3, BucketsAssumption DEF Acceptable
  <2> QED
    BY <2>1, <2>4 DEF Bucket
<1> QED
  BY <1>1, <1>2, <1>3, <1>4

\* A record has a period only under a lock.
Sound(rec) == rec # None => (rec.period # None => rec.lock)

\* A bucket that is read gives a sound record.
LEMMA RecordTyped ==
  ASSUME NEW b \in Bucket, NEW model, model.period \in Nat \cup {None}
  PROVE  /\ s3BucketToTerraformResourceModel(b, model) \in Record
         /\ LET rec == s3BucketToTerraformResourceModel(b, model)
            IN  rec.period # None => rec.lock
         /\ s3BucketToTerraformResourceModel(b, model).tainted = FALSE
<1>1. b.period \in Nat
  BY BucketsAssumption DEF Bucket
<1> QED
  BY <1>1 DEF Bucket, Record, Sound, s3BucketToTerraformResourceModel

\* A taint changes nothing else of a record.
LEMMA TaintTyped ==
  ASSUME NEW rec \in Record, rec.period # None => rec.lock, NEW tainted \in BOOLEAN
  PROVE  /\ [rec EXCEPT !.tainted = tainted] \in Record
         /\ Sound([rec EXCEPT !.tainted = tainted])
         /\ [rec EXCEPT !.tainted = tainted].tainted = tainted
BY DEF Record, Sound

\* The reading back of a bucket that is what was asked for gives what was
\* planned, unless no bucket can have it.
LEMMA KeepableIsAsPlanned ==
  ASSUME NEW c \in Config, ~Unkeepable(c)
  PROVE  AsPlanned(s3BucketToTerraformResourceModel(Request(c), c), c)
<1>1. c.tags # NoTags /\ (c.period # None => c.lock /\ Int32(c.period) = c.period)
  BY DEF Unkeepable
<1>2. c.period # None => c.period \in Nat /\ c.period > 0
  BY PeriodsArePositive DEF Config
<1>3. c.tags # None => c.tags \in Tags
  BY <1>1 DEF Config
<1>4. (IF c.tags = None THEN NoTags ELSE c.tags) = NoTags <=> c.tags = None
  BY <1>1
<1> QED
  BY <1>1, <1>2, <1>4 DEF AsPlanned, s3BucketToTerraformResourceModel, Request, Requested

-----------------------------------------------------------------------------
(* Type correctness.                                                       *)

\* What the handlers of r change besides its stage.
Handled(r) ==
  /\ UNCHANGED bucket \/ \E b \in Bucket \cup {None} : Now(r, b)
  /\ UNCHANGED tf \/ \E rec \in Record \cup {None} : Saved(r, rec) /\ Sound(rec)
  /\ UNCHANGED faults \/ Fault
  /\ Quiet

\* Faults and edits stay within their bounds.
LEMMA CountersTyped ==
  ASSUME TypeOK
  PROVE  /\ UNCHANGED faults \/ Fault => faults' \in 0..MaxFaults
         /\ UNCHANGED edits \/ Edit => edits' \in 0..MaxEdits
BY BucketsAssumption DEF TypeOK, Fault, Edit

\* A handler that moves its resource to a stage that fits its record, and
\* leaves the others alone, keeps the types.
LEMMA HandledTyped ==
  ASSUME TypeOK, NEW r \in Resources, Handled(r),
         NEW stage \in Stages, pc' = [pc EXCEPT ![r] = stage],
         bucketMutex' \in Resources \cup {None},
         stage \in {"create", "created"} => tf'[r] = None,
         stage \in Inside \ {"create", "created"} => tf'[r] # None
  PROVE  TypeOK'
<1>1. bucket' \in [Resources -> Bucket \cup {None}]
  BY DEF TypeOK, Handled, Now
<1>2. /\ tf' \in [Resources -> Record \cup {None}]
      /\ \A s \in Resources : s # r => tf'[s] = tf[s]
      /\ Sound(tf'[r])
  BY DEF TypeOK, Handled, Saved, Sound
<1>3. pc' \in [Resources -> Stages] /\ pc'[r] = stage /\ \A s \in Resources : s # r => pc'[s] = pc[s]
  BY DEF TypeOK
<1>4. /\ config' \in [Resources -> Configs \cup {None}]
      /\ touched' \in SUBSET Resources
      /\ faults' \in 0..MaxFaults /\ edits' \in 0..MaxEdits
  BY CountersTyped DEF TypeOK, Handled, Quiet
<1>5. ASSUME NEW s \in Resources
      PROVE  /\ pc'[s] \in {"create", "created"} => tf'[s] = None
             /\ pc'[s] \in Inside \ {"create", "created"} => tf'[s] # None
             /\ tf'[s] # None => (tf'[s].period # None => tf'[s].lock)
  <2>1. CASE s = r
    BY <1>2, <1>3, <2>1 DEF Sound
  <2>2. CASE s # r
    BY <1>2, <1>3, <2>2 DEF TypeOK
  <2> QED
    BY <2>1, <2>2
<1> QED
  BY <1>1, <1>2, <1>3, <1>4, <1>5 DEF TypeOK

\* The configuration of a resource that has one.
LEMMA ConfigTyped ==
  ASSUME TypeOK, NEW r \in Resources, config[r] # None
  PROVE  config[r] \in Config /\ config[r].period \in Nat \cup {None}
<1>1. config[r] \in Config
  BY BucketsAssumption DEF TypeOK
<1> QED
  BY <1>1, PeriodsArePositive DEF Config

\* The handlers that make no request.
Returns(r) ==
  \/ CreateRecords(r) \/ CreateUnread(r) \/ UpdateRefused(r)
  \/ UpdateRecords(r) \/ UpdateUnread(r)

\* Every handler of a resource keeps the types.
LEMMA HandlerTyped ==
  ASSUME TypeOK, Led, NEW r \in Resources, Handler(r)
  PROVE  TypeOK'
<1> USE DEF Stages, Inside
<1>1. CASE Read(r)
  <2>1. CASE tf[r] = None \/ bucket[r] = None
    <3>1. Handled(r)
      BY <1>1, <2>1 DEF Read, Handled, Answered, Sound
    <3> QED
      BY <1>1, <3>1, HandledTyped DEF Read, Go, TypeOK
  <2>2. CASE ~(tf[r] = None \/ bucket[r] = None)
    <3>1. bucket[r] \in Bucket /\ tf[r] \in Record
      BY <2>2 DEF TypeOK
    <3>2. tf[r].period \in Nat \cup {None} /\ tf[r].tainted \in BOOLEAN
      BY <3>1 DEF Record
    <3>3. PICK rec \in Record : Saved(r, rec) /\ Sound(rec)
      <4> DEFINE rec == s3BucketToTerraformResourceModel(bucket[r], tf[r])
      <4>1. rec \in Record /\ (rec.period # None => rec.lock)
        BY <3>1, <3>2, RecordTyped
      <4>2. Saved(r, [rec EXCEPT !.tainted = tf[r].tainted])
        BY <1>1, <2>2 DEF Read
      <4> HIDE DEF rec
      <4> QED
        BY <3>2, <4>1, <4>2, TaintTyped
    <3>4. Handled(r)
      BY <1>1, <3>3 DEF Read, Handled, Answered
    <3> QED
      BY <1>1, <3>4, HandledTyped DEF Read, Go, TypeOK
  <2> QED
    BY <2>1, <2>2
<1>2. CASE ReadFails(r)
  BY <1>2, CountersTyped DEF ReadFails, Quiet, TypeOK
<1>3. CASE PlanNothing(r) \/ PlanChange(r)
  <2>1. Handled(r) /\ bucketMutex' \in Resources \cup {None}
    BY <1>3 DEF PlanNothing, PlanChange, Handled, Answered, Go, TypeOK
  <2> QED
    BY <1>3, <2>1, HandledTyped DEF PlanNothing, PlanChange, Go
<1>4. CASE Enter(r)
  <2>1. Handled(r) /\ bucketMutex' \in Resources \cup {None} /\ UNCHANGED tf
    BY <1>4 DEF Enter, Lock, Handled, Answered
  <2> QED
    BY <1>4, <2>1, HandledTyped DEF Enter
<1>5. CASE CreateS3Bucket(r) \/ CreateFails(r)
  <2>1. config[r] \in Config
    BY <1>5, ConfigTyped DEF CreateS3Bucket, CreateFails, At, Led
  <2>2. UNCHANGED tf /\ tf[r] = None
    BY <1>5 DEF CreateS3Bucket, CreateFails, At, TypeOK
  <2>3. Handled(r) /\ bucketMutex' \in Resources \cup {None}
    BY <1>5, <2>1, RequestTyped
       DEF CreateS3Bucket, CreateFails, Handled, Answered, Go, Return, TypeOK
  <2> QED
    BY <1>5, <2>2, <2>3, HandledTyped DEF CreateS3Bucket, CreateFails, Go, Return
<1>6. CASE Returns(r)
  <2>1. bucketMutex' \in Resources \cup {None} /\ pc' = [pc EXCEPT ![r] = "idle"]
    BY <1>6 DEF Returns, CreateRecords, CreateUnread, UpdateRefused, UpdateRecords, UpdateUnread, Return
  <2>2. CASE CreateUnread(r) \/ UpdateRefused(r) \/ UpdateUnread(r)
    <3>1. Handled(r)
      BY <2>2 DEF CreateUnread, UpdateRefused, UpdateUnread, Handled, Answered
    <3> QED
      BY <2>1, <3>1, HandledTyped
  <2>3. CASE CreateRecords(r) \/ UpdateRecords(r)
    <3>1. config[r] # None /\ bucket[r] \in Bucket
      BY <2>3 DEF CreateRecords, UpdateRecords, At, Led, TypeOK
    <3>2. config[r].period \in Nat \cup {None}
      BY <3>1, ConfigTyped
    <3>3. \A rec : AsPlanned(rec, config[r]) \in BOOLEAN
      BY DEF AsPlanned
    <3>4. PICK rec \in Record : Saved(r, rec) /\ Sound(rec)
      <4>1. CASE CreateRecords(r)
        <5> DEFINE rec == s3BucketToTerraformResourceModel(bucket[r], config[r])
        <5>1. rec \in Record /\ (rec.period # None => rec.lock)
          BY <3>1, <3>2, RecordTyped
        <5>2. Saved(r, [rec EXCEPT !.tainted = ~AsPlanned(rec, config[r])])
          BY <4>1 DEF CreateRecords
        <5> HIDE DEF rec
        <5> QED
          BY <3>3, <5>1, <5>2, TaintTyped
      <4>2. CASE UpdateRecords(r)
        BY <3>1, <3>2, <4>2, RecordTyped DEF UpdateRecords, Sound
      <4> QED
        BY <2>3, <4>1, <4>2
    <3>5. Handled(r)
      BY <2>3, <3>4 DEF CreateRecords, UpdateRecords, Handled, Answered
    <3> QED
      BY <2>1, <3>5, HandledTyped
  <2> QED
    BY <1>6, <2>2, <2>3 DEF Returns
<1>7. ASSUME NEW part \in DOMAIN Next3, UpdatePart(r, part) \/ UpdatePartFails(r, part)
      PROVE  TypeOK'
  <2>1. part \in {"tags", "versioning", "lock"}
    BY DEF Next3
  <2>2. config[r] # None /\ tf[r] # None
    BY <1>7, <2>1 DEF UpdatePart, UpdatePartFails, At, Led, TypeOK
  <2>3. config[r] \in Config
    BY <2>2, ConfigTyped
  <2>4. Takes(r, part) => Applied(r, part) \in Bucket
    BY <2>3, AppliedTyped DEF Takes, TypeOK
  <2>5. Handled(r) /\ bucketMutex' \in Resources \cup {None} /\ UNCHANGED tf
    BY <1>7, <2>4 DEF UpdatePart, UpdatePartFails, Handled, Answered, Go, Return, TypeOK
  <2>6. Next3[part] \in {"versioning", "lock", "readback"}
    BY <2>1 DEF Next3
  <2> QED
    BY <1>7, <2>2, <2>5, <2>6, HandledTyped DEF UpdatePart, UpdatePartFails, Go, Return
<1>8. CASE DeleteS3Bucket(r) \/ DeleteFails(r)
  <2>1. Handled(r) /\ bucketMutex' = None
    BY <1>8 DEF DeleteS3Bucket, DeleteFails, Handled, Answered, Return, Sound
  <2>2. \E stage \in {"idle", "apply"} : pc' = [pc EXCEPT ![r] = stage]
    BY <1>8 DEF DeleteS3Bucket, DeleteFails, Return
  <2> QED
    BY <2>1, <2>2, HandledTyped
<1> QED
  BY <1>1, <1>2, <1>3, <1>4, <1>5, <1>6, <1>7, <1>8 DEF Handler, Returns

\* Every step keeps the types.
LEMMA TypeStep ==
  ASSUME TypeOK, Led, [Next]_vars
  PROVE  TypeOK'
<1>1. CASE StartRun \/ Killed \/ UNCHANGED vars
  BY <1>1, CountersTyped DEF StartRun, Killed, vars, Answered, Quiet, TypeOK, Stages, Inside
<1>2. ASSUME NEW r \in Resources, Handler(r)
      PROVE  TypeOK'
  BY <1>2, HandlerTyped
<1>3. ASSUME NEW r \in Resources, ChangeConfig(r)
      PROVE  TypeOK'
  BY <1>3, CountersTyped DEF ChangeConfig, TypeOK
<1>4. ASSUME NEW r \in Resources, Console(r)
      PROVE  TypeOK'
  <2>1. PICK b \in Bucket \cup {None} : Now(r, b)
    BY <1>4, RequestTyped, BucketsAssumption DEF Console
  <2>2. bucket' \in [Resources -> Bucket \cup {None}]
    BY <2>1 DEF Now, TypeOK
  <2> QED
    BY <1>4, <2>2, CountersTyped DEF Console, TypeOK
<1>5. ASSUME NEW r \in Resources, ImportState(r)
      PROVE  TypeOK'
  <2>1. bucket[r] \in Bucket /\ [period |-> None].period \in Nat \cup {None}
    BY <1>5 DEF ImportState, TypeOK
  <2>2. PICK rec \in Record : Saved(r, rec) /\ Sound(rec)
    BY <1>5, <2>1, RecordTyped DEF ImportState, Sound
  <2>3. pc[r] = "idle"
    BY <1>5 DEF ImportState, At
  <2>4. tf' = [tf EXCEPT ![r] = rec]
    BY <2>2 DEF Saved
  <2> QED
    BY <1>5, <2>2, <2>3, <2>4, CountersTyped DEF ImportState, TypeOK, Sound, Inside
<1> QED
  BY <1>1, <1>2, <1>3, <1>4, <1>5 DEF Next

-----------------------------------------------------------------------------
(* One handler at a time.                                                  *)

\* Every step keeps the mutex with the handler that is inside.
LEMMA ExclusiveStep ==
  ASSUME TypeOK, Exclusive, [Next]_vars
  PROVE  Exclusive'
<1>1. CASE StartRun \/ Killed \/ UNCHANGED vars
  BY <1>1 DEF StartRun, Killed, vars, Exclusive, Inside
<1>2. ASSUME NEW r \in Resources, ChangeConfig(r) \/ Console(r) \/ ImportState(r)
      PROVE  Exclusive'
  BY <1>2 DEF ChangeConfig, Console, ImportState, Exclusive
<1>3. ASSUME NEW r \in Resources, Handler(r)
      PROVE  Exclusive'
  <2>1. CASE Enter(r)
    <3>1. \A s \in Resources : pc[s] \notin Inside
      BY <2>1, BucketsAssumption DEF Enter, Lock, Exclusive
    <3>2. \A s \in Resources : s # r => pc'[s] = pc[s]
      BY <2>1 DEF Enter, TypeOK
    <3> QED
      BY <2>1, <3>1, <3>2 DEF Enter, Lock, Exclusive
  <2>2. CASE ReadFails(r)
    BY <2>2 DEF ReadFails, Exclusive, Inside
  <2>3. CASE ~Enter(r) /\ ~ReadFails(r)
    <3>1. PICK stage \in Stages :
            /\ pc' = [pc EXCEPT ![r] = stage]
            /\ \/ UNCHANGED bucketMutex /\ (stage \in Inside => pc[r] \in Inside)
               \/ bucketMutex' = None /\ stage \notin Inside /\ pc[r] \in Inside
      <4>1. ASSUME NEW part \in DOMAIN Next3, UpdatePart(r, part) \/ UpdatePartFails(r, part)
            PROVE  \E stage \in Stages :
                     /\ pc' = [pc EXCEPT ![r] = stage]
                     /\ \/ UNCHANGED bucketMutex /\ (stage \in Inside => pc[r] \in Inside)
                        \/ bucketMutex' = None /\ stage \notin Inside /\ pc[r] \in Inside
        <5>1. part \in Inside /\ Next3[part] \in Stages
          BY DEF Next3, Inside, Stages
        <5> QED
          BY <4>1, <5>1 DEF UpdatePart, UpdatePartFails, At, Go, Return, Inside, Stages
      <4> QED
        BY <1>3, <2>3, <4>1
           DEF Handler, Read, PlanNothing, PlanChange, CreateS3Bucket, CreateFails, CreateRecords,
               CreateUnread, UpdateRefused, UpdateRecords, UpdateUnread, DeleteS3Bucket,
               DeleteFails, At, Go, Return, Inside, Stages
    <3>2. pc'[r] = stage /\ \A s \in Resources : s # r => pc'[s] = pc[s]
      BY <3>1 DEF TypeOK
    <3> QED
      BY <3>1, <3>2 DEF Exclusive
  <2> QED
    BY <2>1, <2>2, <2>3
<1> QED
  BY <1>1, <1>2, <1>3 DEF Next

\* The resources inside are none or the one that has the mutex.
LEMMA ExclusiveSerializes ==
  ASSUME Exclusive
  PROVE  Serialized
<1> DEFINE S == {r \in Resources : pc[r] \in Inside}
<1>1. S \subseteq {bucketMutex}
  BY DEF Exclusive
<1>2. IsFiniteSet({bucketMutex}) /\ Cardinality({bucketMutex}) = 1
  BY FS_Singleton
<1>3. Cardinality(S) <= Cardinality({bucketMutex})
  BY <1>1, <1>2, FS_Subset
<1> QED
  BY <1>2, <1>3 DEF Serialized

-----------------------------------------------------------------------------
(* What leads a resource to a stage.                                       *)

\* A resource r is where its record and its block have led it.
LedTo(r) ==
  /\ pc[r] = "apply" => tf[r] # None \/ config[r] # None
  /\ pc[r] \in Inside \ {"delete"} => config[r] # None
  /\ (pc[r] = "delete" /\ config[r] # None) => Replaces(r)
  /\ (pc[r] = "created" /\ r \notin touched) => bucket[r] = Request(config[r])

\* The handlers of a resource concern no other.
LEMMA HandlerOfOne ==
  ASSUME TypeOK, NEW r \in Resources, Handler(r), NEW s \in Resources, s # r
  PROVE  /\ bucket'[s] = bucket[s] /\ tf'[s] = tf[s] /\ UNCHANGED <<config, touched>>
         /\ pc'[s] \in {pc[s], "idle"}
<1>1. ASSUME NEW part \in DOMAIN Next3, UpdatePart(r, part) \/ UpdatePartFails(r, part)
      PROVE  /\ bucket'[s] = bucket[s] /\ tf'[s] = tf[s] /\ UNCHANGED <<config, touched>>
             /\ pc'[s] \in {pc[s], "idle"}
  BY <1>1 DEF UpdatePart, UpdatePartFails, Now, Answered, Quiet, Go, Return, TypeOK
<1> QED
  BY <1>1
     DEF Handler, Read, ReadFails, PlanNothing, PlanChange, Enter, CreateS3Bucket, CreateFails,
         CreateRecords, CreateUnread, UpdateRefused, UpdateRecords, UpdateUnread,
         DeleteS3Bucket, DeleteFails, Now, Saved, Answered, Quiet, Go, Return, TypeOK

\* Every step of the handlers of r leads r on.
LEMMA HandlerLeads ==
  ASSUME TypeOK, NEW r \in Resources, LedTo(r), Handler(r)
  PROVE  LedTo(r)'
<1>0. UNCHANGED <<config, touched>>
  <2>1. ASSUME NEW part \in DOMAIN Next3, UpdatePart(r, part) \/ UpdatePartFails(r, part)
        PROVE  UNCHANGED <<config, touched>>
    BY <2>1 DEF UpdatePart, UpdatePartFails, Answered, Quiet
  <2> QED
    BY <2>1
       DEF Handler, Read, ReadFails, PlanNothing, PlanChange, Enter, CreateS3Bucket, CreateFails,
           CreateRecords, CreateUnread, UpdateRefused, UpdateRecords, UpdateUnread,
           DeleteS3Bucket, DeleteFails, Answered, Quiet
<1>1. CASE pc'[r] \in {"idle", "plan"}
  BY <1>1 DEF LedTo, Inside
<1>2. CASE PlanChange(r)
  BY <1>0, <1>2 DEF PlanChange, Go, LedTo, Inside, TypeOK
<1>3. CASE Enter(r)
  BY <1>0, <1>3 DEF Enter, At, LedTo, Replaces, Inside, TypeOK
<1>4. CASE CreateS3Bucket(r)
  BY <1>0, <1>4 DEF CreateS3Bucket, At, Go, Now, LedTo, Inside, TypeOK
<1>5. ASSUME NEW part \in DOMAIN Next3, UpdatePart(r, part)
      PROVE  LedTo(r)'
  <2>1. part \in {"tags", "versioning", "lock"} /\ Next3[part] \in {"versioning", "lock", "readback"}
    BY DEF Next3
  <2>2. pc'[r] = Next3[part] /\ pc[r] = part
    BY <1>5 DEF UpdatePart, Go, At, TypeOK
  <2> QED
    BY <1>0, <2>1, <2>2 DEF LedTo, Inside
<1>6. CASE DeleteS3Bucket(r)
  BY <1>0, <1>6 DEF DeleteS3Bucket, LedTo, Inside, TypeOK
<1>7. ASSUME NEW part \in DOMAIN Next3, UpdatePartFails(r, part)
      PROVE  pc'[r] = "idle"
  BY <1>7 DEF UpdatePartFails, Return, TypeOK
<1> QED
  BY <1>1, <1>2, <1>3, <1>4, <1>5, <1>6, <1>7
     DEF Handler, Read, ReadFails, PlanNothing, CreateFails, CreateRecords, CreateUnread,
         UpdateRefused, UpdateRecords, UpdateUnread, DeleteFails, Go, Return, TypeOK

\* Every step leads every resource on.
LEMMA LedStep ==
  ASSUME TypeOK, Led, [Next]_vars
  PROVE  Led'
<1>1. Led = \A r \in Resources : LedTo(r)
  BY DEF Led, LedTo
<1>2. SUFFICES ASSUME NEW s \in Resources
               PROVE  LedTo(s)'
  BY <1>1 DEF Led, LedTo
<1>3. LedTo(s)
  BY <1>1
<1>4. CASE StartRun \/ Killed
  BY <1>4 DEF StartRun, Killed, LedTo, Inside
<1>5. CASE UNCHANGED vars
  BY <1>3, <1>5 DEF vars, LedTo, Replaces
<1>6. ASSUME NEW r \in Resources, ChangeConfig(r) \/ ImportState(r)
      PROVE  LedTo(s)'
  BY <1>6 DEF ChangeConfig, ImportState, At, LedTo, Inside
<1>7. ASSUME NEW r \in Resources, Console(r)
      PROVE  LedTo(s)'
  <2>1. UNCHANGED <<config, tf, pc>> /\ touched' = touched \cup {r}
    BY <1>7 DEF Console
  <2>2. s # r => bucket'[s] = bucket[s]
    BY <1>7 DEF Console, Now, TypeOK
  <2> QED
    BY <1>3, <2>1, <2>2 DEF LedTo, Replaces
<1>8. ASSUME NEW r \in Resources, Handler(r)
      PROVE  LedTo(s)'
  <2>1. CASE s = r
    BY <1>3, <1>8, <2>1, HandlerLeads
  <2>2. CASE s # r
    <3>1. /\ bucket'[s] = bucket[s] /\ tf'[s] = tf[s] /\ UNCHANGED <<config, touched>>
          /\ pc'[s] \in {pc[s], "idle"}
      BY <1>8, <2>2, HandlerOfOne
    <3> QED
      BY <1>3, <3>1 DEF LedTo, Replaces, Inside
  <2> QED
    BY <2>1, <2>2
<1> QED
  BY <1>4, <1>5, <1>6, <1>7, <1>8 DEF Next

-----------------------------------------------------------------------------
(* The theorems.                                                           *)

\* The initial states have the invariant.
LEMMA InitInv == Init => Inv
<1>1. Init => TypeOK
  BY BucketsAssumption DEF Init, TypeOK, Stages, Inside
<1>2. Init => Exclusive /\ Led
  BY DEF Init, Exclusive, Led, Inside
<1> QED
  BY <1>1, <1>2 DEF Inv

\* Types, the mutex and what leads to each stage are invariant together.
LEMMA Invariance == Spec => []Inv
<1>1. Inv /\ [Next]_vars => Inv'
  BY TypeStep, ExclusiveStep, LedStep DEF Inv
<1> QED
  BY <1>1, InitInv, PTL DEF Spec

\* Buckets, records, blocks and stages keep their types, whatever the handlers
\* of different resources do in between.
THEOREM TypeCorrect == Spec => []TypeOK
<1>1. Inv => TypeOK
  BY DEF Inv
<1> QED
  BY <1>1, Invariance, PTL

\* However many buckets there are, no two handlers are at the API at once.
THEOREM Serialization == Spec => []Serialized
<1>1. Inv => Serialized
  BY ExclusiveSerializes DEF Inv
<1> QED
  BY <1>1, Invariance, PTL

\* A step that records a new bucket as tainted is a Create reading back what
\* no bucket can have.
LEMMA TaintedIsUnkeepable ==
  ASSUME Inv, Next, NEW r \in Resources,
         tf[r] = None, tf'[r] # None, tf'[r].tainted, r \notin touched
  PROVE  Unkeepable(config[r])
<1> USE DEF Inv
<1>1. ASSUME NEW s \in Resources, Handler(s)
      PROVE  CreateRecords(r)
  <2>1. s = r
    BY <1>1, HandlerOfOne
  <2>2. ASSUME NEW part \in DOMAIN Next3, UpdatePart(r, part) \/ UpdatePartFails(r, part)
        PROVE  UNCHANGED tf
    BY <2>2 DEF UpdatePart, UpdatePartFails
  <2>3. ~UpdateRecords(r)
    BY DEF UpdateRecords, At, TypeOK, Inside
  <2> QED
    BY <1>1, <2>1, <2>2, <2>3
       DEF Handler, Read, ReadFails, PlanNothing, PlanChange, Enter, CreateS3Bucket, CreateFails,
           CreateUnread, UpdateRefused, UpdateUnread, DeleteS3Bucket, DeleteFails, Saved, TypeOK
<1>2. ASSUME NEW s \in Resources, ImportState(s)
      PROVE  FALSE
  <2>1. s = r
    BY <1>2 DEF ImportState, Saved, TypeOK
  <2>2. bucket[r] \in Bucket /\ [period |-> None].period \in Nat \cup {None}
    BY <1>2, <2>1 DEF ImportState, TypeOK
  <2>3. s3BucketToTerraformResourceModel(bucket[r], [period |-> None]).tainted = FALSE
    BY <2>2, RecordTyped
  <2> QED
    BY <1>2, <2>1, <2>3 DEF ImportState, Saved, TypeOK
<1>3. CreateRecords(r)
  BY <1>1, <1>2 DEF Next, StartRun, Killed, ChangeConfig, Console
<1>4. config[r] # None /\ bucket[r] = Request(config[r]) /\ bucket[r] \in Bucket
  BY <1>3 DEF CreateRecords, At, Led, TypeOK, Inside
<1>5. config[r] \in Config /\ config[r].period \in Nat \cup {None}
  BY <1>4, ConfigTyped
<1> DEFINE rec == s3BucketToTerraformResourceModel(bucket[r], config[r])
<1>6. rec \in Record /\ (rec.period # None => rec.lock)
  BY <1>4, <1>5, RecordTyped
<1>7. tf'[r] = [rec EXCEPT !.tainted = ~AsPlanned(rec, config[r])]
  BY <1>3 DEF CreateRecords, Saved, TypeOK
<1>8. AsPlanned(rec, config[r]) \in BOOLEAN
  BY DEF AsPlanned
<1>9. ~AsPlanned(rec, config[r])
  <2> HIDE DEF rec
  <2>1. tf'[r].tainted = ~AsPlanned(rec, config[r])
    BY <1>6, <1>7, <1>8, TaintTyped
  <2> QED
    BY <2>1
<1> QED
  BY <1>4, <1>5, <1>9, KeepableIsAsPlanned

\* No bucket is deleted, with what is in it, but one whose block is gone or
\* has another location, or one that was tainted when it was made; and that
\* happens only to a bucket that was asked to be what none can.
THEOREM BucketsAreKept == Spec => KeepsItsBucket
<1> DEFINE Kept(r) ==
      /\ (At(r, "delete") /\ bucket'[r] # bucket[r] /\ config[r] # None /\ r \notin touched) =>
           config[r].location # tf[r].location \/ tf[r].tainted
      /\ (tf[r] = None /\ tf'[r] # None /\ tf'[r].tainted /\ r \notin touched) =>
           Unkeepable(config[r])
<1>1. ASSUME Inv, Next, NEW r \in Resources
      PROVE  Kept(r)
  <2>1. At(r, "delete") /\ config[r] # None => Replaces(r)
    BY <1>1 DEF Inv, Led, At
  <2>2. (tf[r] = None /\ tf'[r] # None /\ tf'[r].tainted /\ r \notin touched) =>
          Unkeepable(config[r])
    BY <1>1, TaintedIsUnkeepable
  <2> QED
    BY <2>1, <2>2 DEF Replaces
<1>2. Inv /\ [Next]_vars => [\A r \in Resources : Kept(r)]_vars
  BY <1>1
<1> QED
  BY <1>2, Invariance, PTL DEF Spec, KeepsItsBucket

=============================================================================
