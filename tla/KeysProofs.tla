------------------------------ MODULE KeysProofs ------------------------------
(***************************************************************************)
(* Proofs about Keys, for any number of resources, keys, failures and      *)
(* edits, and for either service.                                          *)
(***************************************************************************)
EXTENDS Keys, Counting, SequenceTheorems, TLAPS

\* The secret of a record is that of its key, or there is none, or it is that
\* of another token of the same alias.
OwnSecret(rec) ==
  \/ rec.secret \in {0, rec.id}
  \/ service = "token" /\ keys[rec.id].alias = keys[rec.secret].alias

\* What a resource r holds and has recorded fits the keys there are.
Fits(r) ==
  /\ held[r] # 0 <=> pc[r] = "created"
  /\ pc[r] = "created" => /\ tf[r] = None /\ config[r] # None
                          /\ keys[held[r]].alias = config[r].alias
  /\ tf[r] # None => /\ tf[r].id <= Len(keys) /\ tf[r].secret <= Len(keys)
                     /\ OwnSecret(tf[r])

Base == TypeOK /\ \A r \in Resources : Fits(r)

Accounted == IsFiniteSet(Stranded) /\ Cardinality(Stranded) <= faults

Inv == Base /\ Accounted

-----------------------------------------------------------------------------
(* Keys.                                                                   *)

\* Keys are made at the end of the list, and what has been a key stays one with
\* its alias and maker; it may only die.
Follows ==
  /\ keys' \in Seq(Key)
  /\ Len(keys') \in Nat /\ Len(keys) <= Len(keys') /\ Len(keys') <= MaxKeys
  /\ \A k \in 1..Len(keys) : /\ keys'[k].alias = keys[k].alias
                             /\ keys'[k].maker = keys[k].maker
                             /\ keys'[k].live => keys[k].live

\* The keys have places.
LEMMA Places ==
  ASSUME TypeOK
  PROVE  /\ Len(keys) \in Nat /\ DOMAIN keys = 1..Len(keys)
         /\ \A k \in 1..Len(keys) : keys[k] \in Key
BY LenProperties, ElementOfSeq DEF TypeOK

\* Keys that stay as they are follow.
LEMMA KeptFollows ==
  ASSUME TypeOK, UNCHANGED keys
  PROVE  Follows
BY Places DEF TypeOK, Follows

\* A key that is made follows the others.
LEMMA NewFollows ==
  ASSUME TypeOK, NEW new \in Key, Len(keys) < MaxKeys, keys' = Append(keys, new)
  PROVE  /\ Follows
         /\ Len(keys') = Len(keys) + 1 /\ keys'[Len(keys')] = new
         /\ \A k \in 1..Len(keys) : keys'[k] = keys[k]
<1>1. /\ keys' \in Seq(Key) /\ Len(keys') = Len(keys) + 1
      /\ \A k \in 1..Len(keys) : keys'[k] = keys[k]
      /\ keys'[Len(keys) + 1] = new
  BY AppendProperties DEF TypeOK
<1> QED
  BY <1>1, Places, KeysAssumption DEF Follows

\* A key that is revoked keeps its place, and every other key is as it was.
LEMMA RevokeFollows ==
  ASSUME TypeOK, NEW id \in 1..Len(keys), Revoke(id)
  PROVE  /\ Follows
         /\ Len(keys') = Len(keys) /\ ~keys'[id].live
         /\ \A k \in 1..Len(keys) : k # id => keys'[k] = keys[k]
<1> DEFINE dead == [keys[id] EXCEPT !.live = FALSE]
<1>1. keys[id] \in Key
  BY Places
<1>2. dead \in Key /\ dead.alias = keys[id].alias /\ dead.maker = keys[id].maker /\ ~dead.live
  BY <1>1 DEF Key
<1>3. keys' = [keys EXCEPT ![id] = dead]
  BY DEF Revoke
<1> HIDE DEF dead
<1>4. /\ keys' \in Seq(Key) /\ Len(keys') = Len(keys)
      /\ \A k \in 1..Len(keys) : keys'[k] = IF k = id THEN dead ELSE keys[k]
  <2>1. keys \in Seq(Key)
    BY DEF TypeOK
  <2> QED
    BY <1>2, <1>3, <2>1, ExceptSeq
<1>5. Len(keys) <= MaxKeys
  BY DEF TypeOK
<1> QED
  BY <1>2, <1>4, <1>5, Places DEF Follows

\* A key a resource asks for is one, with the alias of its block and with its
\* maker.
LEMMA IssueFollows ==
  ASSUME TypeOK, NEW r \in Resources, config[r] # None, Issue(r)
  PROVE  /\ Follows
         /\ Len(keys') = Len(keys) + 1
         /\ keys'[Len(keys')].alias = config[r].alias
         /\ \A k \in 1..Len(keys) : keys'[k] = keys[k]
<1> DEFINE new == [alias |-> config[r].alias, expires |-> config[r].expires,
                   maker |-> r, live |-> TRUE]
<1>1. config[r] \in Config
  BY DEF TypeOK
<1>2. new \in Key /\ new.alias = config[r].alias
  BY <1>1 DEF Config, Key
<1>3. Len(keys) < MaxKeys /\ keys' = Append(keys, new)
  BY DEF Issue
<1> HIDE DEF new
<1> QED
  BY <1>2, <1>3, NewFollows

-----------------------------------------------------------------------------
(* Types, and what each resource holds and has recorded.                   *)

\* Faults and edits stay within their bounds.
LEMMA CountersTyped ==
  ASSUME TypeOK
  PROVE  /\ UNCHANGED faults \/ Fault => faults' \in 0..MaxFaults
         /\ UNCHANGED edits \/ Edit => edits' \in 0..MaxEdits
         /\ faults \in Nat
BY KeysAssumption DEF TypeOK, Fault, Edit

\* What fits goes on to fit, whatever keys are made and revoked.
LEMMA OthersFit ==
  ASSUME TypeOK, Follows, NEW s \in Resources, Fits(s),
         tf'[s] = tf[s], pc'[s] = pc[s], held'[s] = held[s], config'[s] = config[s],
         UNCHANGED service
  PROVE  Fits(s)'
<1>1. held[s] # 0 => keys'[held[s]].alias = keys[held[s]].alias
  BY Places DEF TypeOK, Follows
<1>2. tf[s] # None =>
        /\ tf[s].id <= Len(keys') /\ tf[s].secret <= Len(keys')
        /\ OwnSecret(tf[s])'
  <2>1. SUFFICES ASSUME tf[s] # None
                 PROVE  /\ tf[s].id <= Len(keys') /\ tf[s].secret <= Len(keys')
                        /\ OwnSecret(tf[s])'
    OBVIOUS
  <2>2. /\ tf[s].id \in 1..Len(keys) /\ tf[s].secret \in 0..Len(keys)
        /\ OwnSecret(tf[s])
    BY <2>1, Places, KeysAssumption DEF TypeOK, Fits, Record, Ids
  <2>3. keys'[tf[s].id].alias = keys[tf[s].id].alias
    BY <2>2 DEF Follows
  <2>4. tf[s].secret # 0 => keys'[tf[s].secret].alias = keys[tf[s].secret].alias
    BY <2>2, Places DEF Follows
  <2>5. OwnSecret(tf[s])'
    BY <2>2, <2>3, <2>4 DEF OwnSecret
  <2> QED
    BY <2>2, <2>5, Places DEF Follows
<1> QED
  BY <1>1, <1>2 DEF Fits

\* A handler of r that leaves what fits r keeps the base of the invariant.
LEMMA HandledBase ==
  ASSUME Base, Follows, NEW r \in Resources, Quiet, UNCHANGED faults \/ Fault,
         UNCHANGED tf \/ \E rec \in Record \cup {None} : Saved(r, rec),
         NEW stage \in {"idle", "plan", "created"}, Go(r, stage),
         UNCHANGED held \/ \E h \in 0..Len(keys') : held' = [held EXCEPT ![r] = h],
         Fits(r)'
  PROVE  Base'
<1> USE DEF Base
<1>1. /\ tf' \in [Resources -> Record \cup {None}]
      /\ \A s \in Resources : s # r => tf'[s] = tf[s]
  BY DEF Saved, TypeOK
<1>2. /\ pc' \in [Resources -> {"idle", "plan", "created"}]
      /\ \A s \in Resources : s # r => pc'[s] = pc[s]
  BY DEF Go, TypeOK
<1>3. /\ held' \in [Resources -> 0..Len(keys')]
      /\ \A s \in Resources : s # r => held'[s] = held[s]
  BY Places DEF Follows, TypeOK
<1>4. \A s \in Resources : Fits(s)'
  BY <1>1, <1>2, <1>3, OthersFit DEF Quiet
<1> QED
  BY <1>1, <1>2, <1>3, <1>4, CountersTyped DEF TypeOK, Fits, Follows, Quiet

\* A handler of r that stores nothing leaves what fits r.
LEMMA NothingStored ==
  ASSUME Base, Follows, NEW r \in Resources, Quiet, UNCHANGED <<tf, held>>,
         pc[r] # "created", NEW stage \in {"idle", "plan"}, Go(r, stage)
  PROVE  Fits(r)'
<1>1. tf[r] # None => /\ tf[r].id \in 1..Len(keys) /\ tf[r].secret \in 0..Len(keys)
                      /\ OwnSecret(tf[r])
  BY Places, KeysAssumption DEF Base, TypeOK, Fits, Record, Ids
<1>2. tf[r] # None => /\ tf[r].id <= Len(keys') /\ tf[r].secret <= Len(keys')
                      /\ OwnSecret(tf[r])'
  BY <1>1, Places DEF Base, Follows, OwnSecret, Quiet
<1>3. pc'[r] = stage
  BY DEF Base, Go, TypeOK
<1> QED
  BY <1>2, <1>3 DEF Base, Fits

\* The handlers that store nothing.
Idles(r) ==
  \/ PlanNothing(r) \/ Update(r) \/ CreateFails(r) \/ CreateRefused(r)
  \/ DeleteMissing(r) \/ DeleteFails(r)

\* A recorded key has a place.
LEMMA RecordedKey ==
  ASSUME Base, NEW r \in Resources, tf[r] # None
  PROVE  /\ tf[r] \in Record /\ tf[r].id \in 1..Len(keys)
         /\ tf[r].secret \in 0..Len(keys) /\ OwnSecret(tf[r])
BY Places, KeysAssumption DEF Base, TypeOK, Fits, Record, Ids

\* What the Read of an S3 key makes of a record.
Refreshed(r) ==
  [tf[r] EXCEPT !.expires = keys[tf[r].id].expires,
                !.alias = IF keys[tf[r].id].alias = None THEN tf[r].alias
                          ELSE keys[tf[r].id].alias]

\* A Read keeps the key and the secret of a record.
LEMMA RefreshTyped ==
  ASSUME Base, NEW r \in Resources, tf[r] # None
  PROVE  /\ Refreshed(r) \in Record /\ Refreshed(r) # None
         /\ Refreshed(r).id = tf[r].id /\ Refreshed(r).secret = tf[r].secret
<1> DEFINE k == keys[tf[r].id]
<1>1. tf[r] \in Record /\ k \in Key
  BY RecordedKey, Places DEF Base
<1>2. Refreshed(r) = [tf[r] EXCEPT !.expires = k.expires,
                                   !.alias = IF k.alias = None THEN tf[r].alias ELSE k.alias]
  BY DEF Refreshed
<1> HIDE DEF k
<1>3. /\ Refreshed(r) \in Record
      /\ Refreshed(r).id = tf[r].id /\ Refreshed(r).secret = tf[r].secret
  BY <1>1, <1>2 DEF Record, Key
<1> QED
  BY <1>3, RecordAssumption

\* What the handlers of r do to the keys.
LEMMA HandlerFollows ==
  ASSUME Base, NEW r \in Resources, Handler(r)
  PROVE  Follows
<1>1. config[r] # None /\ Issue(r) => Follows
  BY IssueFollows DEF Base
<1>2. tf[r] # None /\ Revoke(tf[r].id) => Follows
  BY RecordedKey, RevokeFollows DEF Base
<1>3. UNCHANGED keys => Follows
  BY KeptFollows DEF Base
<1> QED
  BY <1>1, <1>2, <1>3
     DEF Handler, Read, ReadFails, PlanNothing, Update, Create, CreateFails, CreateRefused,
         s3KeyListed, tokenListed, ListFails, Delete, DeleteMissing, DeleteFails, Creates, Deletes

\* What a resource asked for, holds and records is a record.
LEMMA RecordedTyped ==
  ASSUME Base, NEW r \in Resources, pc[r] = "created", NEW id \in 1..Len(keys),
         NEW found \in BOOLEAN
  PROVE  /\ Recorded(r, id, found) \in Record /\ Recorded(r, id, found) # None
         /\ held[r] \in 1..Len(keys)
<1>1. config[r] \in Config
  BY DEF Base, Fits, TypeOK
<1>2. held[r] \in 1..Len(keys)
  BY Places DEF Base, Fits, TypeOK
<1>3. Len(keys) \in Nat /\ Len(keys) <= MaxKeys /\ MaxKeys \in Nat
  BY Places, KeysAssumption DEF Base, TypeOK
<1>4. id \in Ids /\ held[r] \in Ids
  BY <1>2, <1>3 DEF Ids
<1>5. Recorded(r, id, found) \in Record
  BY <1>1, <1>4 DEF Recorded, Config, Record
<1> QED
  BY <1>2, <1>5, RecordAssumption

\* Every handler keeps the base of the invariant.
LEMMA HandlerBase ==
  ASSUME Base, NEW r \in Resources, Handler(r)
  PROVE  Base'
<1>1. Follows
  BY HandlerFollows
<1>2. CASE Read(r)
  <2>1. /\ Quiet /\ UNCHANGED <<keys, held, faults>> /\ pc[r] = "idle" /\ Go(r, "plan")
        /\ pc'[r] = "plan"
    BY <1>2 DEF Read, At, Go, Base, TypeOK
  <2>2. CASE UNCHANGED tf
    BY <1>1, <2>1, <2>2, HandledBase, NothingStored
  <2>3. CASE Saved(r, None)
    <3>1. tf'[r] = None
      BY <2>3 DEF Saved, Base, TypeOK
    <3>2. Fits(r)'
      BY <2>1, <3>1 DEF Base, Fits
    <3> QED
      BY <1>1, <2>1, <2>3, <3>2, HandledBase
  <2>4. ASSUME tf[r] # None, Saved(r, Refreshed(r))
        PROVE  Base'
    <3>1. /\ Refreshed(r) \in Record /\ Refreshed(r) # None
          /\ Refreshed(r).id = tf[r].id /\ Refreshed(r).secret = tf[r].secret
      BY <2>4, RefreshTyped
    <3>2. tf'[r] = Refreshed(r)
      BY <2>4 DEF Saved, Base, TypeOK
    <3>3. Fits(r)'
      BY <2>1, <2>4, <3>1, <3>2, RecordedKey DEF Base, Fits, OwnSecret, Quiet
    <3> QED
      BY <1>1, <2>1, <2>4, <3>1, <3>3, HandledBase
  <2> QED
    BY <1>2, <2>2, <2>3, <2>4 DEF Read, tokenRead, s3KeyRead, Refreshed
<1>3. CASE ReadFails(r)
  BY <1>3, CountersTyped DEF ReadFails, Quiet, Base, TypeOK, Fits, OwnSecret
<1>4. CASE Idles(r)
  <2>1. /\ Quiet /\ UNCHANGED <<tf, held>> /\ pc[r] = "plan" /\ Go(r, "idle")
        /\ UNCHANGED faults \/ Fault
    BY <1>4
       DEF Idles, PlanNothing, Update, CreateFails, CreateRefused, DeleteMissing, DeleteFails,
           Creates, Deletes, At
  <2> QED
    BY <1>1, <2>1, HandledBase, NothingStored
<1>5. CASE Create(r)
  <2>1. config[r] # None /\ tf[r] = None
    BY <1>5 DEF Create, Creates
  <2>2. Len(keys') = Len(keys) + 1 /\ keys'[Len(keys')].alias = config[r].alias
    BY <1>5, <2>1, IssueFollows DEF Create, Base
  <2>3. /\ held' = [held EXCEPT ![r] = Len(keys')] /\ Go(r, "created")
        /\ Quiet /\ UNCHANGED <<tf, faults>>
    BY <1>5 DEF Create
  <2>4. Len(keys') \in 0..Len(keys') /\ Len(keys') # 0
    BY <2>2, Places DEF Base
  <2>5. held'[r] = Len(keys') /\ pc'[r] = "created"
    BY <2>3 DEF Go, Base, TypeOK
  <2>6. Fits(r)'
    BY <2>1, <2>2, <2>3, <2>4, <2>5 DEF Fits, Quiet
  <2> QED
    BY <1>1, <2>3, <2>4, <2>6, HandledBase
<1>6. CASE s3KeyListed(r) \/ tokenListed(r) \/ ListFails(r)
  <2>1. /\ pc[r] = "created" /\ Return(r) /\ Quiet /\ UNCHANGED keys
        /\ (UNCHANGED faults \/ Fault) /\ tf[r] = None
    BY <1>6 DEF s3KeyListed, tokenListed, ListFails, At, Base, TypeOK
  <2>2. /\ Go(r, "idle") /\ held' = [held EXCEPT ![r] = 0] /\ 0 \in 0..Len(keys')
        /\ pc'[r] = "idle" /\ held'[r] = 0
    BY <2>1, Places DEF Return, Go, Base, TypeOK
  <2>3. CASE UNCHANGED tf
    <3>1. Fits(r)'
      BY <2>1, <2>2, <2>3 DEF Fits
    <3> QED
      BY <1>1, <2>1, <2>2, <2>3, <3>1, HandledBase
  <2>4. ASSUME NEW id \in 1..Len(keys), NEW found \in BOOLEAN, Saved(r, Recorded(r, id, found)),
               \/ id = held[r]
               \/ service = "token" /\ keys[id].alias = config[r].alias
        PROVE  Base'
    <3>1. /\ Recorded(r, id, found) \in Record /\ Recorded(r, id, found) # None
          /\ held[r] \in 1..Len(keys)
      BY <2>1, RecordedTyped
    <3>2. tf'[r] = Recorded(r, id, found)
      BY <2>4 DEF Saved, Base, TypeOK
    <3>3. tf'[r].id = id /\ tf'[r].secret = held[r]
      BY <3>2 DEF Recorded
    <3>4. keys[held[r]].alias = config[r].alias
      BY <2>1 DEF Base, Fits
    <3>5. OwnSecret(tf[r])'
      BY <2>1, <2>4, <3>3, <3>4 DEF OwnSecret, Quiet
    <3>6. id <= Len(keys) /\ held[r] <= Len(keys)
      BY <3>1, Places DEF Base
    <3>7. Fits(r)'
      BY <2>1, <2>2, <3>3, <3>5, <3>6 DEF Fits, OwnSecret
    <3> QED
      BY <1>1, <2>1, <2>2, <2>4, <3>1, <3>7, HandledBase
  <2>5. CASE s3KeyListed(r)
    <3>1. held[r] \in 1..Len(keys)
      BY <2>1, Places DEF Base, Fits, TypeOK
    <3> QED
      BY <2>4, <2>5, <3>1 DEF s3KeyListed
  <2>6. CASE tokenListed(r)
    BY <2>3, <2>4, <2>6, Places DEF tokenListed, SameAs, Base
  <2> QED
    BY <1>6, <2>3, <2>5, <2>6 DEF ListFails
<1>7. CASE Delete(r)
  <2>1. /\ Quiet /\ UNCHANGED <<held, faults>> /\ pc[r] = "plan" /\ Go(r, "idle")
        /\ Saved(r, None) /\ pc'[r] = "idle" /\ tf'[r] = None
    BY <1>7 DEF Delete, Deletes, At, Go, Saved, Base, TypeOK
  <2>2. Fits(r)'
    BY <2>1 DEF Base, Fits
  <2> QED
    BY <1>1, <2>1, <2>2, HandledBase
<1> QED
  BY <1>2, <1>3, <1>4, <1>5, <1>6, <1>7 DEF Handler, Idles

\* A key somebody else makes or revokes follows the others, and nobody of the
\* configuration asked for it.
LEMMA ElsewhereFollows ==
  ASSUME TypeOK, Elsewhere
  PROVE  /\ Follows
         /\ Len(keys') > Len(keys) =>
              Len(keys') = Len(keys) + 1 /\ keys'[Len(keys')].maker = None
<1>1. ASSUME NEW c \in Config, Len(keys) < MaxKeys,
             keys' = Append(keys, [alias |-> c.alias, expires |-> c.expires,
                                   maker |-> None, live |-> TRUE])
      PROVE  Follows /\ Len(keys') = Len(keys) + 1 /\ keys'[Len(keys')].maker = None
  <2> DEFINE new == [alias |-> c.alias, expires |-> c.expires, maker |-> None, live |-> TRUE]
  <2>1. new \in Key /\ new.maker = None
    BY DEF Config, Key
  <2>2. keys' = Append(keys, new)
    BY <1>1
  <2> HIDE DEF new
  <2> QED
    BY <1>1, <2>1, <2>2, NewFollows
<1>2. ASSUME NEW k \in 1..Len(keys), Revoke(k)
      PROVE  Follows /\ Len(keys') = Len(keys)
  BY <1>2, RevokeFollows
<1>3. CASE Len(keys) < MaxKeys /\ \E c \in Config :
             keys' = Append(keys, [alias |-> c.alias, expires |-> c.expires,
                                   maker |-> None, live |-> TRUE])
  BY <1>1, <1>3
<1>4. CASE \E k \in DOMAIN keys : Revoke(k)
  BY <1>2, <1>4, Places
<1> QED
  BY <1>3, <1>4 DEF Elsewhere

\* Whatever others do keeps the base of the invariant.
LEMMA OthersBase ==
  ASSUME Base, Elsewhere \/ \E r \in Resources : ImportState(r) \/ ChangeConfig(r)
  PROVE  Base'
<1>1. CASE Elsewhere
  <2>1. Follows /\ UNCHANGED <<service, config, tf, pc, held, faults>> /\ Edit
    BY <1>1, ElsewhereFollows DEF Elsewhere, Base
  <2>2. \A s \in Resources : Fits(s)'
    BY <2>1, OthersFit DEF Base
  <2>3. held' \in [Resources -> 0..Len(keys')]
    BY <2>1, Places DEF Base, TypeOK, Follows
  <2> QED
    BY <2>1, <2>2, <2>3, CountersTyped DEF Base, TypeOK, Fits, Follows
<1>2. ASSUME NEW r \in Resources, ImportState(r)
      PROVE  Base'
  <2>1. /\ UNCHANGED <<service, keys, config, pc, held, faults>> /\ Edit
        /\ pc[r] = "idle" /\ held[r] = 0
    BY <1>2 DEF ImportState, At, Base, Fits
  <2>2. PICK rec \in Record : Saved(r, rec) /\ rec.id <= Len(keys) /\ rec.secret = 0
    <3>1. PICK k \in 1..Len(keys) :
            \/ Saved(r, [id |-> k, secret |-> 0, alias |-> None, expires |-> None,
                         tainted |-> FALSE])
            \/ Saved(r, [id |-> k, secret |-> 0, alias |-> keys[k].alias,
                         expires |-> keys[k].expires, tainted |-> FALSE])
      BY <1>2, Places DEF ImportState, Base
    <3>2. k \in Ids /\ k <= Len(keys)
      BY Places, KeysAssumption DEF Base, TypeOK, Ids
    <3>3. keys[k].alias \in Aliases \cup {None} /\ keys[k].expires \in Expiries
      BY Places DEF Base, Key
    <3>4. ASSUME NEW a \in Aliases \cup {None}, NEW e \in Expiries \cup {None},
                 Saved(r, [id |-> k, secret |-> 0, alias |-> a, expires |-> e, tainted |-> FALSE])
          PROVE  \E rec \in Record : Saved(r, rec) /\ rec.id <= Len(keys) /\ rec.secret = 0
      <4> DEFINE rec == [id |-> k, secret |-> 0, alias |-> a, expires |-> e, tainted |-> FALSE]
      <4>1. rec \in Record
        BY <3>2 DEF Record
      <4>2. Saved(r, rec) /\ rec.id = k /\ rec.secret = 0
        BY <3>4
      <4> HIDE DEF rec
      <4> QED
        BY <3>2, <4>1, <4>2
    <3> QED
      BY <3>1, <3>3, <3>4
  <2>3. tf' \in [Resources -> Record \cup {None}] /\ tf'[r] = rec
    BY <2>2 DEF Saved, Base, TypeOK
  <2>4. Fits(r)'
    BY <2>1, <2>2, <2>3, Places DEF Base, Fits, OwnSecret
  <2>5. \A s \in Resources : s # r => tf'[s] = tf[s]
    BY <2>2 DEF Saved, Base, TypeOK
  <2>6. \A s \in Resources : Fits(s)'
    BY <2>1, <2>4, <2>5, OthersFit, KeptFollows DEF Base
  <2> QED
    BY <2>1, <2>3, <2>6, CountersTyped DEF Base, TypeOK, Fits
<1>3. ASSUME NEW r \in Resources, ChangeConfig(r)
      PROVE  Base'
  <2>1. /\ UNCHANGED <<service, keys, tf, pc, held, faults>> /\ Edit /\ pc[r] = "idle"
        /\ config' \in [Resources -> Config \cup {None}]
        /\ \A s \in Resources : s # r => config'[s] = config[s]
    BY <1>3 DEF ChangeConfig, At, Base, TypeOK
  <2>2. Fits(r)'
    BY <2>1 DEF Base, Fits, OwnSecret
  <2>3. \A s \in Resources : Fits(s)'
    BY <2>1, <2>2, OthersFit, KeptFollows DEF Base
  <2> QED
    BY <2>1, <2>3, CountersTyped DEF Base, TypeOK, Fits
<1> QED
  BY <1>1, <1>2, <1>3

-----------------------------------------------------------------------------
(* Keys nobody knows of.                                                   *)

\* A key is known to r if its Create holds it or its record names it.
Knows(r, k) == held[r] = k \/ (tf[r] # None /\ tf[r].id = k)

\* A key that was there before and is stranded now was known to somebody, or
\* it was stranded before.
LEMMA StrandedBefore ==
  ASSUME TypeOK, Follows, UNCHANGED service, NEW k \in Stranded', k \in 1..Len(keys),
         \A r \in Resources : ~Knows(r, k)
  PROVE  k \in Stranded
<1>1. /\ keys'[k].live /\ keys'[k].maker # None
      /\ ~(service = "token" /\ Twin(k)')
  BY DEF Stranded
<1>2. DOMAIN keys' = 1..Len(keys') /\ DOMAIN keys = 1..Len(keys)
  BY Places, LenProperties DEF Follows
<1>3. Twin(k) => Twin(k)'
  <2>1. SUFFICES ASSUME NEW j \in DOMAIN keys \ {k}, keys[j].alias = keys[k].alias
                 PROVE  j \in DOMAIN keys' \ {k} /\ keys'[j].alias = keys'[k].alias
    BY DEF Twin
  <2> QED
    BY <1>2, <2>1, Places DEF Follows
<1>4. keys[k].live /\ keys[k].maker # None
  BY <1>1 DEF Follows
<1> QED
  BY <1>1, <1>2, <1>3, <1>4 DEF Stranded, Knows

\* If nothing is forgotten but what the step itself leaves, no key is stranded
\* but such a one.
LEMMA NoneStranded ==
  ASSUME TypeOK, Follows, UNCHANGED service, NEW x,
         \A k \in 1..Len(keys) : \A r \in Resources :
           (k \in Stranded' /\ k # x) => (Knows(r, k) => Knows(r, k)'),
         \A k \in 1..Len(keys') : (k \in Stranded' /\ k # x) => k \in 1..Len(keys)
  PROVE  Stranded' \subseteq Stranded \cup {x}
<1>1. SUFFICES ASSUME NEW k \in Stranded', k # x
               PROVE  k \in Stranded
  OBVIOUS
<1>2. DOMAIN keys' = 1..Len(keys')
  BY LenProperties DEF Follows
<1>3. k \in 1..Len(keys)
  BY <1>1, <1>2 DEF Stranded
<1>4. \A r \in Resources : ~Knows(r, k)'
  BY <1>1 DEF Stranded, Knows
<1> QED
  BY <1>1, <1>3, <1>4, StrandedBefore

\* The handlers of a resource forget what no other knows.
LEMMA OthersKnow ==
  ASSUME Base, NEW r \in Resources, Handler(r), NEW s \in Resources, s # r, NEW k
  PROVE  Knows(s, k) => Knows(s, k)'
<1>1. held'[s] = held[s] /\ tf'[s] = tf[s]
  BY DEF Handler, Read, tokenRead, s3KeyRead, ReadFails, PlanNothing, Update, Create, CreateFails,
         CreateRefused, s3KeyListed, tokenListed, ListFails, Delete, DeleteMissing, DeleteFails,
         Saved, Return, Base, TypeOK
<1> QED
  BY <1>1 DEF Knows

\* Every handler keeps the account: it strands a key by a fault, and only one.
LEMMA HandlerAccounted ==
  ASSUME Inv, NEW r \in Resources, Handler(r)
  PROVE  Accounted'
<1> USE DEF Inv
<1>1. Follows /\ UNCHANGED service /\ TypeOK /\ faults \in Nat
  BY HandlerFollows, CountersTyped
     DEF Base, Handler, Read, ReadFails, PlanNothing, Update, Create, CreateFails, CreateRefused,
         s3KeyListed, tokenListed, ListFails, Delete, DeleteMissing, DeleteFails, Quiet
<1>2. ASSUME UNCHANGED faults \/ Fault, Stranded' \subseteq Stranded
      PROVE  Accounted'
  BY <1>1, <1>2, Paid DEF Accounted, Fault
<1>3. ASSUME Fault, NEW x, Stranded' \subseteq Stranded \cup {x}
      PROVE  Accounted'
  BY <1>1, <1>3, Paid DEF Accounted, Fault
<1>4. ASSUME NEW x, \A k \in Stranded' : k # x => k \in 1..Len(keys) /\ (Knows(r, k) => Knows(r, k)')
      PROVE  Stranded' \subseteq Stranded \cup {x}
  BY <1>1, <1>4, OthersKnow, NoneStranded
<1>5. Stranded' \subseteq 1..Len(keys') /\ 0 \notin Stranded' /\ Len(keys) + 1 \notin 1..Len(keys)
  BY <1>1, Places, LenProperties DEF Stranded, Follows
<1>6. ASSUME UNCHANGED faults \/ Fault, UNCHANGED <<keys, held>>,
             \A k \in Stranded' : Knows(r, k) => Knows(r, k)'
      PROVE  Accounted'
  <2>1. Stranded' \subseteq Stranded \cup {0}
    BY <1>4, <1>5, <1>6
  <2> QED
    BY <1>2, <1>5, <1>6, <2>1
<1>7. CASE Read(r)
  <2>1. UNCHANGED <<keys, held, faults>>
    BY <1>7 DEF Read
  <2>2. \A k \in Stranded' : Knows(r, k) => Knows(r, k)'
    <3>1. CASE UNCHANGED tf
      BY <2>1, <3>1 DEF Knows
    <3>2. CASE tf[r] # None /\ ~keys[tf[r].id].live
      BY <2>1, <3>2 DEF Knows, Stranded
    <3>3. CASE tf[r] # None /\ Saved(r, Refreshed(r))
      BY <2>1, <3>3, RefreshTyped DEF Knows, Saved, Base, TypeOK
    <3> QED
      BY <1>7, <3>1, <3>2, <3>3
         DEF Read, tokenRead, s3KeyRead, findKeyByAccessKeyID, Refreshed
  <2> QED
    BY <1>6, <2>1, <2>2
<1>8. CASE ReadFails(r) \/ PlanNothing(r) \/ Update(r) \/ CreateRefused(r) \/ DeleteMissing(r)
  <2>1. UNCHANGED <<keys, tf, held>> /\ (UNCHANGED faults \/ Fault)
    BY <1>8 DEF ReadFails, PlanNothing, Update, CreateRefused, DeleteMissing
  <2> QED
    BY <1>6, <2>1 DEF Knows
<1>9. CASE Create(r) \/ CreateFails(r)
  <2>1. /\ config[r] # None /\ tf[r] = None /\ UNCHANGED tf /\ held[r] = 0
        /\ Issue(r) \/ UNCHANGED <<keys, held>>
    BY <1>9 DEF Create, CreateFails, Creates, At, Base, Fits
  <2>2. \A k \in Stranded' : Knows(r, k) => Knows(r, k)'
    BY <1>5, <2>1 DEF Knows
  <2>3. CASE UNCHANGED <<keys, held>>
    <3>1. CreateFails(r) \/ UNCHANGED faults
      BY <1>9 DEF Create
    <3> QED
      BY <1>6, <2>2, <2>3, <3>1 DEF CreateFails
  <2>4. CASE Issue(r)
    <3>1. Len(keys') = Len(keys) + 1
      BY <2>1, <2>4, IssueFollows DEF Base
    <3>2. Stranded' \subseteq Stranded \cup {Len(keys')}
      BY <1>4, <1>5, <2>2, <3>1, Places DEF Base
    <3>3. CASE Create(r)
      <4>1. held'[r] = Len(keys')
        BY <3>3 DEF Create, Base, TypeOK
      <4>2. Len(keys') \notin Stranded'
        BY <4>1 DEF Stranded
      <4> QED
        BY <1>2, <3>2, <3>3, <4>2 DEF Create
    <3>4. CASE CreateFails(r)
      BY <1>3, <3>2, <3>4 DEF CreateFails
    <3> QED
      BY <1>9, <3>3, <3>4
  <2> QED
    BY <2>1, <2>3, <2>4
<1>10. CASE s3KeyListed(r) \/ tokenListed(r) \/ ListFails(r)
  <2>1. /\ pc[r] = "created" /\ tf[r] = None /\ UNCHANGED keys /\ held'[r] = 0
        /\ held[r] \in 1..Len(keys)
    <3>1. pc[r] = "created" /\ UNCHANGED keys /\ Return(r)
      BY <1>10 DEF s3KeyListed, tokenListed, ListFails, At
    <3>2. held[r] \in 1..Len(keys)
      BY <3>1, Places DEF Base, Fits, TypeOK
    <3> QED
      BY <3>1, <3>2 DEF Return, Base, TypeOK, Fits
  <2>2. \A k \in Stranded' : k # held[r] => k \in 1..Len(keys) /\ (Knows(r, k) => Knows(r, k)')
    BY <1>5, <2>1 DEF Knows
  <2>3. Stranded' \subseteq Stranded \cup {held[r]}
    BY <1>4, <2>2
  <2>4. CASE ListFails(r)
    BY <1>3, <2>3, <2>4 DEF ListFails
  <2>5. ASSUME NEW id \in 1..Len(keys), NEW found \in BOOLEAN, Saved(r, Recorded(r, id, found)),
               UNCHANGED faults \/ Fault,
               id = held[r] \/ (service = "token" /\ keys[id].alias = keys[held[r]].alias)
        PROVE  Accounted'
    <3>1. tf'[r] # None /\ tf'[r].id = id
      BY <2>1, <2>5, RecordedTyped DEF Saved, Recorded, Base, TypeOK
    <3>2. held[r] \notin Stranded'
      <4>1. CASE id = held[r]
        BY <3>1, <4>1 DEF Stranded
      <4>2. CASE id # held[r]
        <5>1. \E j \in DOMAIN keys' \ {held[r]} : keys'[j].alias = keys'[held[r]].alias
          BY <2>1, <2>5, <4>2, Places DEF Base
        <5> QED
          BY <1>1, <2>5, <4>2, <2>1, <5>1 DEF Stranded, Twin
      <4> QED
        BY <4>1, <4>2
    <3> QED
      BY <1>2, <2>3, <2>5, <3>2
  <2>6. CASE s3KeyListed(r)
    BY <2>1, <2>5, <2>6 DEF s3KeyListed
  <2>7. CASE tokenListed(r)
    <3>1. keys[held[r]].alias = config[r].alias
      BY <2>1 DEF Base, Fits
    <3>2. CASE \E k \in SameAs(r) : Saved(r, Recorded(r, k, TRUE))
      BY <2>5, <2>7, <3>1, <3>2, Places DEF tokenListed, SameAs, Base
    <3>3. CASE SameAs(r) = {}
      <4>1. ~keys[held[r]].live
        BY <2>1, <3>1, <3>3, Places DEF SameAs, Base
      <4>2. held[r] \notin Stranded'
        BY <2>1, <4>1 DEF Stranded
      <4> QED
        BY <1>2, <2>3, <2>7, <4>2 DEF tokenListed
    <3> QED
      BY <2>7, <3>2, <3>3 DEF tokenListed
  <2> QED
    BY <1>10, <2>4, <2>6, <2>7
<1>11. CASE Delete(r) \/ DeleteFails(r)
  <2>1. /\ tf[r] # None /\ UNCHANGED held /\ (UNCHANGED faults \/ Fault)
        /\ Revoke(tf[r].id) \/ UNCHANGED <<keys, tf>>
        /\ Revoke(tf[r].id) => UNCHANGED tf \/ Saved(r, None)
    BY <1>11 DEF Delete, DeleteFails, Deletes
  <2>2. CASE UNCHANGED <<keys, tf>>
    BY <1>6, <2>1, <2>2 DEF Knows
  <2>3. CASE Revoke(tf[r].id)
    <3>1. Len(keys') = Len(keys) /\ ~keys'[tf[r].id].live
      BY <2>1, <2>3, RecordedKey, RevokeFollows DEF Base
    <3>2. \A k \in Stranded' : k \in 1..Len(keys) /\ k # tf[r].id
      BY <1>5, <3>1 DEF Stranded
    <3>3. \A k \in Stranded' : Knows(r, k) => Knows(r, k)'
      BY <2>1, <3>2 DEF Knows
    <3>4. Stranded' \subseteq Stranded \cup {0}
      BY <1>4, <3>2, <3>3
    <3> QED
      BY <1>2, <1>5, <2>1, <3>4
  <2> QED
    BY <2>1, <2>2, <2>3
<1> QED
  BY <1>7, <1>8, <1>9, <1>10, <1>11 DEF Handler

\* Whatever others do strands no key: one they make nobody asked for.
LEMMA OthersAccounted ==
  ASSUME Inv, Elsewhere \/ \E r \in Resources : ImportState(r) \/ ChangeConfig(r)
  PROVE  Accounted'
<1> USE DEF Inv
<1>1. /\ Follows /\ UNCHANGED <<service, held, faults>> /\ TypeOK /\ faults \in Nat
      /\ Len(keys') > Len(keys) => Len(keys') = Len(keys) + 1 /\ keys'[Len(keys')].maker = None
      /\ \A k, r : r \in Resources /\ Knows(r, k) => Knows(r, k)'
  <2>1. CASE Elsewhere
    BY <2>1, ElsewhereFollows, CountersTyped DEF Elsewhere, Knows, Base
  <2>2. ASSUME NEW r \in Resources, ImportState(r) \/ ChangeConfig(r)
        PROVE  /\ UNCHANGED <<service, held, faults, keys>>
               /\ \A s \in Resources : tf[s] # None => tf'[s] = tf[s]
    BY <2>2 DEF ImportState, ChangeConfig, Saved, Base, TypeOK
  <2>3. CASE \E r \in Resources : ImportState(r) \/ ChangeConfig(r)
    BY <2>2, <2>3, KeptFollows, CountersTyped, Places DEF Knows, Base
  <2> QED
    BY <2>1, <2>3
<1>2. \A k \in 1..Len(keys') : (k \in Stranded' /\ k # 0) => k \in 1..Len(keys)
  BY <1>1, Places DEF Stranded, Follows, Base
<1>3. Stranded' \subseteq Stranded \cup {0}
  BY <1>1, <1>2, NoneStranded
<1>4. 0 \notin Stranded'
  BY <1>1, LenProperties DEF Stranded, Follows
<1>5. Stranded' \subseteq Stranded /\ faults' = faults
  BY <1>1, <1>3, <1>4
<1> QED
  BY <1>1, <1>5, Paid DEF Accounted

\* The invariant holds in the beginning and after every step.
LEMMA Invariance == Spec => []Inv
<1>1. Init => Inv
  <2> SUFFICES ASSUME Init
               PROVE  Inv
    OBVIOUS
  <2>1. keys = <<>> /\ Len(keys) = 0 /\ keys \in Seq(Key)
    BY EmptySeq DEF Init
  <2>2. 0 \in 0..MaxFaults /\ 0 \in 0..MaxEdits /\ Len(keys) <= MaxKeys
    BY <2>1, KeysAssumption
  <2>3. Base
    BY <2>1, <2>2 DEF Init, Base, TypeOK, Fits
  <2>4. Stranded = {}
    <3>1. DOMAIN keys = {}
      BY <2>1
    <3> QED
      BY <3>1 DEF Stranded
  <2>5. IsFiniteSet({}) /\ Cardinality({}) = 0
    BY FS_EmptySet
  <2> QED
    BY <2>3, <2>4, <2>5 DEF Init, Inv, Accounted
<1>2. Inv /\ [Next]_vars => Inv'
  <2> SUFFICES ASSUME Inv, [Next]_vars
               PROVE  Inv'
    OBVIOUS
  <2>1. CASE UNCHANGED vars
    BY <2>1 DEF vars, Inv, Base, TypeOK, Fits, OwnSecret, Accounted, Stranded, Twin
  <2>2. ASSUME NEW r \in Resources, Handler(r)
        PROVE  Inv'
    BY <2>2, HandlerBase, HandlerAccounted DEF Inv
  <2>3. CASE Elsewhere \/ \E r \in Resources : ImportState(r) \/ ChangeConfig(r)
    BY <2>3, OthersBase, OthersAccounted DEF Inv
  <2> QED
    BY <2>1, <2>2, <2>3 DEF Next
<1> QED
  BY <1>1, <1>2, PTL DEF Spec

-----------------------------------------------------------------------------
(* The theorems.                                                           *)

\* Keys, records and stages keep their types: a Create holds the answer of a
\* key exactly while it waits for the list, and no record names a key that was
\* never made.
THEOREM TypeCorrect == Spec => []TypeOK
<1>1. Inv => TypeOK
  BY DEF Inv, Base
<1> QED
  BY <1>1, Invariance, PTL

\* However often keys are made, replaced, revoked and imported, by however many
\* resources, no more live S3 keys, or live tokens whose alias no other token
\* ever had, are lost to Terraform than calls failed.  Of two tokens that share
\* an alias nothing is said: one may be lost with no call failing.
THEOREM StrandedAccounted == Spec => []StrandedNeedFaults
<1>1. Inv => StrandedNeedFaults
  BY DEF Inv, Accounted, StrandedNeedFaults
<1> QED
  BY <1>1, Invariance, PTL

\* A handler revokes the key that its record names and no other.  A record that
\* was not imported names the S3 key whose secret it has, or a token of the
\* alias of the one whose secret it has: so no S3 key of another resource, nor
\* a token of another alias, is revoked, except through an import of it.
THEOREM OnlyOwnAreDeleted == Spec => DeletesOnlyItsOwn
<1>1. ASSUME Inv, Next, NEW k \in DOMAIN keys, keys[k].live, ~keys'[k].live, edits' = edits
      PROVE  \E r \in Resources :
               /\ tf[r] # None /\ tf[r].id = k
               /\ \/ tf[r].secret \in {0, k}
                  \/ service = "token" /\ keys[k].alias = keys[tf[r].secret].alias
  <2>1. k \in 1..Len(keys) /\ TypeOK
    BY <1>1, Places DEF Inv, Base
  <2>2. keys' # keys
    BY <1>1
  <2>3. edits \in Nat
    BY KeysAssumption, <2>1 DEF TypeOK
  <2>4. ~Elsewhere /\ \A r \in Resources : ~ImportState(r) /\ ~ChangeConfig(r)
    BY <1>1, <2>3 DEF Elsewhere, ImportState, ChangeConfig, Edit
  <2>5. PICK r \in Resources : Handler(r)
    BY <1>1, <2>4 DEF Next
  <2>6. ~(config[r] # None /\ Issue(r))
    BY <1>1, <2>1, IssueFollows
  <2>7. tf[r] # None /\ Revoke(tf[r].id)
    BY <2>2, <2>5, <2>6
       DEF Handler, Read, ReadFails, PlanNothing, Update, Create, CreateFails, CreateRefused,
           s3KeyListed, tokenListed, ListFails, Delete, DeleteMissing, DeleteFails,
           Creates, Deletes
  <2>8. tf[r].id = k
    BY <1>1, <2>1, <2>7, RecordedKey, RevokeFollows DEF Inv
  <2>9. OwnSecret(tf[r])
    BY <1>1, <2>7, RecordedKey DEF Inv
  <2> QED
    BY <2>7, <2>8, <2>9 DEF OwnSecret
<1>2. Inv /\ [Next]_vars =>
        [\A k \in DOMAIN keys : (keys[k].live /\ ~keys'[k].live /\ edits' = edits) =>
           \E r \in Resources :
             /\ tf[r] # None /\ tf[r].id = k
             /\ \/ tf[r].secret \in {0, k}
                \/ service = "token" /\ keys[k].alias = keys[tf[r].secret].alias]_vars
  BY <1>1
<1> QED
  BY <1>2, Invariance, PTL DEF Spec, DeletesOnlyItsOwn

=============================================================================
