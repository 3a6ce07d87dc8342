-------------------------------- MODULE Keys --------------------------------
(***************************************************************************)
(* The crusoe_storage_s3_key and crusoe_registry_token resources of one    *)
(* configuration (internal/s3_key, internal/registry/token).  The API      *)
(* shows the secret of a new key once, in the answer that creates it; what *)
(* else there is to record is in a list the handler asks for afterwards.   *)
(* An S3 key is found in the list by the ID of the answer.  The answer for *)
(* a token has no ID: the first token of the list with its alias is taken. *)
(***************************************************************************)
EXTENDS Naturals, Sequences, FiniteSets

CONSTANTS
  None,
  Resources,     \* resources of the configuration
  Aliases,       \* aliases; None leaves the alias out
  Expiries,      \* values of expire_at and expires_at
  Services,      \* subset of {"s3", "token"}
  MaxKeys, MaxFaults, MaxEdits

ASSUME KeysAssumption ==
  /\ None \notin Aliases \cup Expiries \cup Resources
  /\ Services \subseteq {"s3", "token"}
  /\ MaxKeys \in Nat /\ MaxFaults \in Nat /\ MaxEdits \in Nat

VARIABLES
  service,   \* which of the two services this instance is about
  keys,      \* every key ever made; a key's ID is its place
  config,    \* of each resource, None if it has no block
  tf,        \* the record of each, or None
  pc,        \* the stage of each
  held,      \* the key each Create holds the answer of, or 0
  faults, edits

vars == <<service, keys, config, tf, pc, held, faults, edits>>

Config == [alias : Aliases \cup {None}, expires : Expiries]
\* maker is the resource that asked for the key, or None.
Key == [alias : Aliases \cup {None}, expires : Expiries, maker : Resources \cup {None}, live : BOOLEAN]
Ids == 1..MaxKeys
\* secret is the key whose secret is recorded, 0 after an import; a tainted
\* record was saved incomplete, and Terraform replaces its key.
Record == [id : Ids, secret : Ids \cup {0}, alias : Aliases \cup {None},
           expires : Expiries \cup {None}, tainted : BOOLEAN]

ASSUME RecordAssumption == None \notin Config \cup Record

TypeOK ==
  /\ service \in Services
  /\ keys \in Seq(Key) /\ Len(keys) <= MaxKeys
  /\ config \in [Resources -> Config \cup {None}]
  /\ tf \in [Resources -> Record \cup {None}]
  /\ pc \in [Resources -> {"idle", "plan", "created"}]
  /\ held \in [Resources -> 0..Len(keys)]
  /\ faults \in 0..MaxFaults /\ edits \in 0..MaxEdits
  /\ \A r \in Resources : /\ held[r] # 0 <=> pc[r] = "created"
                          /\ pc[r] = "created" => tf[r] = None /\ config[r] # None
                          /\ tf[r] # None => tf[r].id <= Len(keys)

Init ==
  /\ service \in Services
  /\ keys = <<>>
  /\ config \in [Resources -> Config \cup {None}]
  /\ tf = [r \in Resources |-> None]
  /\ pc = [r \in Resources |-> "idle"] /\ held = [r \in Resources |-> 0]
  /\ faults = 0 /\ edits = 0

Fault == faults < MaxFaults /\ faults' = faults + 1
Edit  == edits < MaxEdits /\ edits' = edits + 1

At(r, stage) == pc[r] = stage
Go(r, stage) == pc' = [pc EXCEPT ![r] = stage]
Saved(r, rec) == tf' = [tf EXCEPT ![r] = rec]
Quiet == UNCHANGED <<service, config, edits>>

\* A run looks at a token's record only: its Read asks the API nothing.
tokenRead(r) == service = "token" /\ tf' = tf

\* Slip: the list is searched for another ID than the recorded one.
findNoKey(id) == FALSE
findKeyByAccessKeyID(id) == keys[id].live
s3KeyRead(r) ==
  /\ service = "s3"
  /\ \/ tf[r] = None /\ tf' = tf
     \/ tf[r] # None /\ ~findKeyByAccessKeyID(tf[r].id) /\ Saved(r, None)
     \/ /\ tf[r] # None /\ findKeyByAccessKeyID(tf[r].id)
        /\ Saved(r, [tf[r] EXCEPT !.expires = keys[tf[r].id].expires,
                                  !.alias = IF keys[tf[r].id].alias = None THEN tf[r].alias
                                            ELSE keys[tf[r].id].alias])

Read(r) ==
  /\ At(r, "idle")
  /\ tokenRead(r) \/ s3KeyRead(r)
  /\ Go(r, "plan")
  /\ UNCHANGED <<keys, held, faults>> /\ Quiet

\* The organization or the list cannot be had: the record stays.
ReadFails(r) ==
  /\ At(r, "idle") /\ tf[r] # None /\ service = "s3" /\ Fault
  /\ UNCHANGED <<keys, tf, pc, held>> /\ Quiet

-----------------------------------------------------------------------------
\* A resource without a block goes; every change of an S3 key replaces it, and
\* a change of the alias a token.
RequiresReplace(r) ==
  config[r] # None => \/ tf[r].tainted \/ config[r].alias # tf[r].alias
                      \/ service = "s3" /\ config[r].expires # tf[r].expires

PlanNothing(r) ==
  /\ At(r, "plan")
  /\ \/ config[r] = None /\ tf[r] = None
     \/ /\ config[r] # None /\ tf[r] # None /\ ~tf[r].tainted
        /\ config[r] = [alias |-> tf[r].alias, expires |-> tf[r].expires]
  /\ Go(r, "idle")
  /\ UNCHANGED <<keys, tf, held, faults>> /\ Quiet

\* The plan offers to change the expiry of a token in place; Update refuses.
Update(r) ==
  /\ At(r, "plan") /\ config[r] # None /\ tf[r] # None
  /\ ~RequiresReplace(r) /\ config[r].expires # tf[r].expires
  /\ Go(r, "idle")
  /\ UNCHANGED <<keys, tf, held, faults>> /\ Quiet

-----------------------------------------------------------------------------
Creates(r) == At(r, "plan") /\ config[r] # None /\ tf[r] = None
Issue(r) ==
  /\ Len(keys) < MaxKeys
  /\ keys' = Append(keys, [alias |-> config[r].alias, expires |-> config[r].expires,
                           maker |-> r, live |-> TRUE])

Create(r) ==
  /\ Creates(r) /\ Issue(r)
  /\ held' = [held EXCEPT ![r] = Len(keys')]
  /\ Go(r, "created")
  /\ UNCHANGED <<tf, faults>> /\ Quiet

\* The request fails, or is obeyed and its answer lost.
CreateFails(r) ==
  /\ Creates(r) /\ Fault
  /\ UNCHANGED keys \/ Issue(r)
  /\ Go(r, "idle")
  /\ UNCHANGED <<tf, held>> /\ Quiet

\* MaxKeys is also the API's limit on keys: it refuses to make another.
CreateRefused(r) ==
  /\ Creates(r) /\ Len(keys) = MaxKeys
  /\ Go(r, "idle")
  /\ UNCHANGED <<keys, tf, held, faults>> /\ Quiet

\* The keys a new token may be taken for: usage and alias are all it looks at.
\* Slip: the alias is not looked at.
SameAsAny(r) == {k \in DOMAIN keys : keys[k].live}
SameAs(r) == {k \in DOMAIN keys : keys[k].live /\ keys[k].alias = config[r].alias}

Recorded(r, id, found) ==
  [id |-> id, secret |-> held[r], alias |-> config[r].alias, expires |-> config[r].expires,
   tainted |-> ~found]

\* Slip: the answer is not dropped.
ReturnHolding(r) == Go(r, "idle") /\ UNCHANGED held
Return(r) == Go(r, "idle") /\ held' = [held EXCEPT ![r] = 0]

\* A key that is not in the list, because it is gone or the list is behind, is
\* recorded with what else there is to record unknown.
s3KeyListed(r) ==
  /\ At(r, "created") /\ service = "s3"
  /\ \E found \in BOOLEAN :
       /\ found => keys[held[r]].live
       /\ IF keys[held[r]].live /\ ~found THEN Fault ELSE UNCHANGED faults
       /\ Saved(r, Recorded(r, held[r], found))
  /\ Return(r)
  /\ UNCHANGED keys /\ Quiet

tokenListed(r) ==
  /\ At(r, "created") /\ service = "token"
  /\ \/ \E k \in SameAs(r) : Saved(r, Recorded(r, k, TRUE))
     \/ SameAs(r) = {} /\ UNCHANGED tf
  /\ Return(r)
  /\ UNCHANGED <<keys, faults>> /\ Quiet

\* The list cannot be had, or the provider is killed: the secret is gone.
ListFails(r) ==
  /\ At(r, "created") /\ Fault
  /\ Return(r)
  /\ UNCHANGED <<keys, tf>> /\ Quiet

-----------------------------------------------------------------------------
Deletes(r) == At(r, "plan") /\ tf[r] # None /\ RequiresReplace(r)
Revoke(k) == keys' = [keys EXCEPT ![k].live = FALSE]

Delete(r) ==
  /\ Deletes(r) /\ keys[tf[r].id].live
  /\ Revoke(tf[r].id) /\ Saved(r, None) /\ Go(r, "idle")
  /\ UNCHANGED <<held, faults>> /\ Quiet

\* A key that is gone is an error of Delete.
DeleteMissing(r) ==
  /\ Deletes(r) /\ ~keys[tf[r].id].live
  /\ Go(r, "idle")
  /\ UNCHANGED <<keys, tf, held, faults>> /\ Quiet

DeleteFails(r) ==
  /\ Deletes(r) /\ Fault
  /\ UNCHANGED keys \/ Revoke(tf[r].id)
  /\ Go(r, "idle")
  /\ UNCHANGED <<tf, held>> /\ Quiet

-----------------------------------------------------------------------------
\* terraform import, and the Read after it: there is no secret.  The Read of a
\* token finds nothing out, whether there is such a token included.
ImportState(r) ==
  /\ At(r, "idle") /\ tf[r] = None /\ config[r] # None /\ Edit
  /\ \E k \in DOMAIN keys :
       IF service = "token"
       THEN Saved(r, [id |-> k, secret |-> 0, alias |-> None, expires |-> None,
                      tainted |-> FALSE])
       ELSE /\ findKeyByAccessKeyID(k)
            /\ Saved(r, [id |-> k, secret |-> 0, alias |-> keys[k].alias,
                         expires |-> keys[k].expires, tainted |-> FALSE])
  /\ UNCHANGED <<service, keys, config, pc, held, faults>>

ChangeConfig(r) ==
  /\ At(r, "idle") /\ Edit
  /\ \E c \in (Config \cup {None}) \ {config[r]} : config' = [config EXCEPT ![r] = c]
  /\ UNCHANGED <<service, keys, tf, pc, held, faults>>

\* Somebody makes a key, or revokes one; a key expires.
Elsewhere ==
  /\ Edit
  /\ \/ /\ Len(keys) < MaxKeys
        /\ \E c \in Config : keys' = Append(keys, [alias |-> c.alias, expires |-> c.expires,
                                                   maker |-> None, live |-> TRUE])
     \/ \E k \in DOMAIN keys : keys[k].live /\ Revoke(k)
  /\ UNCHANGED <<service, config, tf, pc, held, faults>>

Handler(r) ==
  \/ Read(r) \/ ReadFails(r) \/ PlanNothing(r) \/ Update(r)
  \/ Create(r) \/ CreateFails(r) \/ CreateRefused(r)
  \/ s3KeyListed(r) \/ tokenListed(r) \/ ListFails(r)
  \/ Delete(r) \/ DeleteMissing(r) \/ DeleteFails(r)

Next == (\E r \in Resources : Handler(r) \/ ImportState(r) \/ ChangeConfig(r)) \/ Elsewhere

Spec == Init /\ [][Next]_vars

-----------------------------------------------------------------------------
(* Properties.                                                             *)

\* A live S3 key, or token with an alias of its own, that Terraform asked for and
\* no longer knows is the price of a fault, one each.  Left out are the tokens
\* that ever shared their alias with another: Create takes either of two for
\* its own, and may lose one without any fault.
Twin(k) == \E j \in DOMAIN keys \ {k} : keys[j].alias = keys[k].alias
Stranded ==
  {k \in DOMAIN keys : /\ keys[k].live /\ keys[k].maker # None
                       /\ \A r \in Resources : held[r] # k /\ (tf[r] = None \/ tf[r].id # k)
                       /\ ~(service = "token" /\ Twin(k))}
StrandedNeedFaults == Cardinality(Stranded) <= faults

\* The key a handler revokes is the one that its record names.  Unless the
\* record was imported, which may name anybody's key, it has the secret of this
\* very S3 key, or the secret of a token of the same alias, which need not be
\* the same token.
DeletesOnlyItsOwn ==
  [][\A k \in DOMAIN keys : (keys[k].live /\ ~keys'[k].live /\ edits' = edits) =>
       \E r \in Resources :
         /\ tf[r] # None /\ tf[r].id = k
         /\ \/ tf[r].secret \in {0, k}
            \/ service = "token" /\ keys[k].alias = keys[tf[r].secret].alias]_vars

\* What the comments in Create say of a new token: "fetch the token ID from the
\* list API" and "Update the state with the created token"
\* (registry/token/token_resource.go:131, 160).  The key on record is the one the
\* secret on record belongs to.
RecordsTheCreated ==
  [][\A r \in Resources : (At(r, "created") /\ tf'[r] # tf[r]) => tf'[r].id = held[r]]_vars
=============================================================================
