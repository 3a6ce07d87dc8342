---------------------------- MODULE ObjectsProofs ----------------------------
(***************************************************************************)
(* Proofs about Objects, for any kinds of the catalogue, any values,       *)
(* failures and edits.                                                     *)
(***************************************************************************)
EXTENDS Objects, TLAPS

\* The requests a creation, an update and a deletion may have still to make.
Creating == {<<"lookup", "call">>, <<"call">>, <<"lookup", "start", "await">>,
             <<"start", "await">>, <<"await">>}
Updating == {<<>>, <<"refuse">>, <<"call">>, <<"get", "start", "await">>, <<"start", "await">>,
             <<"await">>, <<"start", "await", "get">>, <<"await", "get">>, <<"get">>}
Deleting == {<<"call">>, <<"get", "start", "await">>, <<"start", "await">>, <<"await">>}

\* The lists whose next step is to wait for an operation.
Waits == {<<"await">>, <<"await", "get">>}

\* The list of an update that only looks at the object once more.
LookAfter == <<"get">>

\* The attributes a record or an object always has a value of.
NeverNull(a) == rule[a] = "carried" /\ a # "nvlink_domain_id"

-----------------------------------------------------------------------------
(* What the proofs need of the catalogue.                                  *)

\* A catalogue entry and an Update of its kind are as the proofs need them: the
\* requests are known lists, an Update that records nothing it is told sends
\* nothing, what it sends changes in place, and one that has nothing to ask for
\* leaves the optional attributes out.
SchemaKnown(k, e) ==
  \A a \in DOMAIN e.schema :
    /\ e.schema[a] = "recomputed" => <<k, a>> \in Forgotten
    /\ (e.schema[a] = "carried" /\ a = "nvlink_domain_id") => <<k, a>> \in Forgotten
    /\ (e.schema[a] = "carried" /\ ~e.read.learns) => a = "nvlink_domain_id"
    /\ e.schema[a] = "alias" => <<k, a>> \notin Unsent
    /\ a = "extra_args" => e.schema[a] = "optional"

EntryKnown(k, e) ==
  /\ e.create \in Creating \ Waits /\ e.delete \in Deleting \ Waits
  /\ e.read.gone \in {"drop", "error"} /\ e.read.failed \in {"drop", "error"}
  /\ e.read.learns \in BOOLEAN
  /\ e.read.failed = "drop" => k \in {"firewall_rule", "vm_by_template"}
  /\ SchemaKnown(k, e)

UpdateKnown(schema, u, p) ==
  /\ u.steps \in Updating \ Waits /\ u.learns \in BOOLEAN
  /\ u.learns \/ u.sends = {}
  /\ \A a \in DOMAIN schema :
       /\ a \in u.sends => schema[a] \in InPlace
       /\ (u.steps = <<>> /\ schema[a] = "optional") => a = "extra_args" /\ p[a] = None

\* Both hold of every kind.
LEMMA CatalogueKnown ==
  ASSUME NEW k \in DOMAIN Catalogue, NEW p, NEW s
  PROVE  /\ EntryKnown(k, Catalogue[k])
         /\ UpdateKnown(Catalogue[k].schema, UpdateOf(k, p, s), p)
<1>1. CASE k = "vpc_network"
  <2>1. Catalogue[k] = Entry(networkSchema, networkCreate, networkRead, networkDelete)
    BY <1>1 DEF Catalogue
  <2>2. ASSUME NEW e, e = Entry(networkSchema, networkCreate, networkRead, networkDelete)
        PROVE  EntryKnown(k, e)
    <3>1. e.create \in Creating \ Waits /\ e.delete \in Deleting \ Waits
      BY <2>2 DEF Entry, Creating, Deleting, Waits, networkCreate, networkDelete
    <3>2. /\ e.read.gone \in {"drop", "error"} /\ e.read.failed \in {"drop", "error"}
          /\ e.read.learns \in BOOLEAN
          /\ e.read.failed = "drop" => k \in {"firewall_rule", "vm_by_template"}
      BY <1>1, <2>2 DEF Entry, networkRead
    <3>3. SchemaKnown(k, e)
      BY <1>1, <2>2 DEF SchemaKnown, Entry, Forgotten, Unsent, networkSchema, networkRead
    <3> QED
      BY <3>1, <3>2, <3>3 DEF EntryKnown
  <2>3. Catalogue[k].schema = networkSchema
    BY <2>1 DEF Entry
  <2>4. UpdateOf(k, p, s) = networkUpdate
    BY <1>1 DEF UpdateOf
  <2>5. ASSUME NEW u, u = networkUpdate
        PROVE  UpdateKnown(networkSchema, u, p)
    BY <2>5 DEF UpdateKnown, Updating, Waits, InPlace, networkSchema, networkUpdate
  <2> QED
    BY <2>1, <2>2, <2>3, <2>4, <2>5
<1>2. CASE k = "vpc_subnet"
  <2>1. Catalogue[k] = Entry(subnetSchema, subnetCreate, subnetRead, subnetDelete)
    BY <1>2 DEF Catalogue
  <2>2. ASSUME NEW e, e = Entry(subnetSchema, subnetCreate, subnetRead, subnetDelete)
        PROVE  EntryKnown(k, e)
    <3>1. e.create \in Creating \ Waits /\ e.delete \in Deleting \ Waits
      BY <2>2 DEF Entry, Creating, Deleting, Waits, subnetCreate, subnetDelete
    <3>2. /\ e.read.gone \in {"drop", "error"} /\ e.read.failed \in {"drop", "error"}
          /\ e.read.learns \in BOOLEAN
          /\ e.read.failed = "drop" => k \in {"firewall_rule", "vm_by_template"}
      BY <1>2, <2>2 DEF Entry, subnetRead
    <3>3. SchemaKnown(k, e)
      BY <1>2, <2>2 DEF SchemaKnown, Entry, Forgotten, Unsent, subnetSchema, subnetRead
    <3> QED
      BY <3>1, <3>2, <3>3 DEF EntryKnown
  <2>3. Catalogue[k].schema = subnetSchema
    BY <2>1 DEF Entry
  <2>4. UpdateOf(k, p, s) = subnetUpdate
    BY <1>2 DEF UpdateOf
  <2>5. ASSUME NEW u, u = subnetUpdate
        PROVE  UpdateKnown(subnetSchema, u, p)
    BY <2>5 DEF UpdateKnown, Updating, Waits, InPlace, subnetSchema, subnetUpdate
  <2> QED
    BY <2>1, <2>2, <2>3, <2>4, <2>5
<1>3. CASE k = "disk"
  <2>1. Catalogue[k] = Entry(diskSchema, diskCreate, diskRead, diskDelete)
    BY <1>3 DEF Catalogue
  <2>2. ASSUME NEW e, e = Entry(diskSchema, diskCreate, diskRead, diskDelete)
        PROVE  EntryKnown(k, e)
    <3>1. e.create \in Creating \ Waits /\ e.delete \in Deleting \ Waits
      BY <2>2 DEF Entry, Creating, Deleting, Waits, diskCreate, diskDelete
    <3>2. /\ e.read.gone \in {"drop", "error"} /\ e.read.failed \in {"drop", "error"}
          /\ e.read.learns \in BOOLEAN
          /\ e.read.failed = "drop" => k \in {"firewall_rule", "vm_by_template"}
      BY <1>3, <2>2 DEF Entry, diskRead
    <3>3. SchemaKnown(k, e)
      BY <1>3, <2>2 DEF SchemaKnown, Entry, Forgotten, Unsent, diskSchema, diskRead
    <3> QED
      BY <3>1, <3>2, <3>3 DEF EntryKnown
  <2>3. Catalogue[k].schema = diskSchema
    BY <2>1 DEF Entry
  <2>4. UpdateOf(k, p, s) = diskUpdate
    BY <1>3 DEF UpdateOf
  <2>5. ASSUME NEW u, u = diskUpdate
        PROVE  UpdateKnown(diskSchema, u, p)
    BY <2>5 DEF UpdateKnown, Updating, Waits, InPlace, diskSchema, diskUpdate
  <2> QED
    BY <2>1, <2>2, <2>3, <2>4, <2>5
<1>4. CASE k = "load_balancer"
  <2>1. Catalogue[k] = Entry(loadBalancerSchema, loadBalancerCreate, loadBalancerRead, loadBalancerDelete)
    BY <1>4 DEF Catalogue
  <2>2. ASSUME NEW e, e = Entry(loadBalancerSchema, loadBalancerCreate, loadBalancerRead, loadBalancerDelete)
        PROVE  EntryKnown(k, e)
    <3>1. e.create \in Creating \ Waits /\ e.delete \in Deleting \ Waits
      BY <2>2 DEF Entry, Creating, Deleting, Waits, loadBalancerCreate, loadBalancerDelete
    <3>2. /\ e.read.gone \in {"drop", "error"} /\ e.read.failed \in {"drop", "error"}
          /\ e.read.learns \in BOOLEAN
          /\ e.read.failed = "drop" => k \in {"firewall_rule", "vm_by_template"}
      BY <1>4, <2>2 DEF Entry, loadBalancerRead
    <3>3. SchemaKnown(k, e)
      BY <1>4, <2>2 DEF SchemaKnown, Entry, Forgotten, Unsent, loadBalancerSchema, loadBalancerRead
    <3> QED
      BY <3>1, <3>2, <3>3 DEF EntryKnown
  <2>3. Catalogue[k].schema = loadBalancerSchema
    BY <2>1 DEF Entry
  <2>4. UpdateOf(k, p, s) = loadBalancerUpdate
    BY <1>4 DEF UpdateOf
  <2>5. ASSUME NEW u, u = loadBalancerUpdate
        PROVE  UpdateKnown(loadBalancerSchema, u, p)
    BY <2>5 DEF UpdateKnown, Updating, Waits, InPlace, loadBalancerSchema, loadBalancerUpdate
  <2> QED
    BY <2>1, <2>2, <2>3, <2>4, <2>5
<1>5. CASE k = "firewall_rule"
  <2>1. Catalogue[k] = Entry(firewallSchema, firewallCreate, firewallRead, firewallDelete)
    BY <1>5 DEF Catalogue
  <2>2. ASSUME NEW e, e = Entry(firewallSchema, firewallCreate, firewallRead, firewallDelete)
        PROVE  EntryKnown(k, e)
    <3>1. e.create \in Creating \ Waits /\ e.delete \in Deleting \ Waits
      BY <2>2 DEF Entry, Creating, Deleting, Waits, firewallCreate, firewallDelete
    <3>2. /\ e.read.gone \in {"drop", "error"} /\ e.read.failed \in {"drop", "error"}
          /\ e.read.learns \in BOOLEAN
          /\ e.read.failed = "drop" => k \in {"firewall_rule", "vm_by_template"}
      BY <1>5, <2>2 DEF Entry, firewallRead
    <3>3. SchemaKnown(k, e)
      BY <1>5, <2>2 DEF SchemaKnown, Entry, Forgotten, Unsent, firewallSchema, firewallRead
    <3> QED
      BY <3>1, <3>2, <3>3 DEF EntryKnown
  <2>3. Catalogue[k].schema = firewallSchema
    BY <2>1 DEF Entry
  <2>4. UpdateOf(k, p, s) = firewallUpdate
    BY <1>5 DEF UpdateOf
  <2>5. ASSUME NEW u, u = firewallUpdate
        PROVE  UpdateKnown(firewallSchema, u, p)
    BY <2>5 DEF UpdateKnown, Updating, Waits, InPlace, firewallSchema, firewallUpdate
  <2> QED
    BY <2>1, <2>2, <2>3, <2>4, <2>5
<1>6. CASE k = "project"
  <2>1. Catalogue[k] = Entry(projectSchema, projectCreate, projectRead, projectDelete)
    BY <1>6 DEF Catalogue
  <2>2. ASSUME NEW e, e = Entry(projectSchema, projectCreate, projectRead, projectDelete)
        PROVE  EntryKnown(k, e)
    <3>1. e.create \in Creating \ Waits /\ e.delete \in Deleting \ Waits
      BY <2>2 DEF Entry, Creating, Deleting, Waits, projectCreate, projectDelete
    <3>2. /\ e.read.gone \in {"drop", "error"} /\ e.read.failed \in {"drop", "error"}
          /\ e.read.learns \in BOOLEAN
          /\ e.read.failed = "drop" => k \in {"firewall_rule", "vm_by_template"}
      BY <1>6, <2>2 DEF Entry, projectRead
    <3>3. SchemaKnown(k, e)
      BY <1>6, <2>2 DEF SchemaKnown, Entry, Forgotten, Unsent, projectSchema, projectRead
    <3> QED
      BY <3>1, <3>2, <3>3 DEF EntryKnown
  <2>3. Catalogue[k].schema = projectSchema
    BY <2>1 DEF Entry
  <2>4. UpdateOf(k, p, s) = projectUpdate
    BY <1>6 DEF UpdateOf
  <2>5. ASSUME NEW u, u = projectUpdate
        PROVE  UpdateKnown(projectSchema, u, p)
    BY <2>5 DEF UpdateKnown, Updating, Waits, InPlace, projectSchema, projectUpdate
  <2> QED
    BY <2>1, <2>2, <2>3, <2>4, <2>5
<1>7. CASE k = "ib_partition"
  <2>1. Catalogue[k] = Entry(ibPartitionSchema, ibPartitionCreate, ibPartitionRead, ibPartitionDelete)
    BY <1>7 DEF Catalogue
  <2>2. ASSUME NEW e, e = Entry(ibPartitionSchema, ibPartitionCreate, ibPartitionRead, ibPartitionDelete)
        PROVE  EntryKnown(k, e)
    <3>1. e.create \in Creating \ Waits /\ e.delete \in Deleting \ Waits
      BY <2>2 DEF Entry, Creating, Deleting, Waits, ibPartitionCreate, ibPartitionDelete
    <3>2. /\ e.read.gone \in {"drop", "error"} /\ e.read.failed \in {"drop", "error"}
          /\ e.read.learns \in BOOLEAN
          /\ e.read.failed = "drop" => k \in {"firewall_rule", "vm_by_template"}
      BY <1>7, <2>2 DEF Entry, ibPartitionRead
    <3>3. SchemaKnown(k, e)
      BY <1>7, <2>2 DEF SchemaKnown, Entry, Forgotten, Unsent, ibPartitionSchema, ibPartitionRead
    <3> QED
      BY <3>1, <3>2, <3>3 DEF EntryKnown
  <2>3. Catalogue[k].schema = ibPartitionSchema
    BY <2>1 DEF Entry
  <2>4. UpdateOf(k, p, s) = ibPartitionUpdate
    BY <1>7 DEF UpdateOf
  <2>5. ASSUME NEW u, u = ibPartitionUpdate
        PROVE  UpdateKnown(ibPartitionSchema, u, p)
    BY <2>5 DEF UpdateKnown, Updating, Waits, InPlace, ibPartitionSchema, ibPartitionUpdate
  <2> QED
    BY <2>1, <2>2, <2>3, <2>4, <2>5
<1>8. CASE k = "transport_partition"
  <2>1. Catalogue[k] = Entry(transportPartitionSchema, transportPartitionCreate, transportPartitionRead, transportPartitionDelete)
    BY <1>8 DEF Catalogue
  <2>2. ASSUME NEW e, e = Entry(transportPartitionSchema, transportPartitionCreate, transportPartitionRead, transportPartitionDelete)
        PROVE  EntryKnown(k, e)
    <3>1. e.create \in Creating \ Waits /\ e.delete \in Deleting \ Waits
      BY <2>2 DEF Entry, Creating, Deleting, Waits, transportPartitionCreate, transportPartitionDelete
    <3>2. /\ e.read.gone \in {"drop", "error"} /\ e.read.failed \in {"drop", "error"}
          /\ e.read.learns \in BOOLEAN
          /\ e.read.failed = "drop" => k \in {"firewall_rule", "vm_by_template"}
      BY <1>8, <2>2 DEF Entry, transportPartitionRead
    <3>3. SchemaKnown(k, e)
      BY <1>8, <2>2 DEF SchemaKnown, Entry, Forgotten, Unsent, transportPartitionSchema, transportPartitionRead
    <3> QED
      BY <3>1, <3>2, <3>3 DEF EntryKnown
  <2>3. Catalogue[k].schema = transportPartitionSchema
    BY <2>1 DEF Entry
  <2>4. UpdateOf(k, p, s) = transportPartitionUpdate
    BY <1>8 DEF UpdateOf
  <2>5. ASSUME NEW u, u = transportPartitionUpdate
        PROVE  UpdateKnown(transportPartitionSchema, u, p)
    BY <2>5 DEF UpdateKnown, Updating, Waits, InPlace, transportPartitionSchema, transportPartitionUpdate
  <2> QED
    BY <2>1, <2>2, <2>3, <2>4, <2>5
<1>9. CASE k = "instance_template"
  <2>1. Catalogue[k] = Entry(templateSchema, templateCreate, templateRead, templateDelete)
    BY <1>9 DEF Catalogue
  <2>2. ASSUME NEW e, e = Entry(templateSchema, templateCreate, templateRead, templateDelete)
        PROVE  EntryKnown(k, e)
    <3>1. e.create \in Creating \ Waits /\ e.delete \in Deleting \ Waits
      BY <2>2 DEF Entry, Creating, Deleting, Waits, templateCreate, templateDelete
    <3>2. /\ e.read.gone \in {"drop", "error"} /\ e.read.failed \in {"drop", "error"}
          /\ e.read.learns \in BOOLEAN
          /\ e.read.failed = "drop" => k \in {"firewall_rule", "vm_by_template"}
      BY <1>9, <2>2 DEF Entry, templateRead
    <3>3. SchemaKnown(k, e)
      BY <1>9, <2>2 DEF SchemaKnown, Entry, Forgotten, Unsent, templateSchema, templateRead
    <3> QED
      BY <3>1, <3>2, <3>3 DEF EntryKnown
  <2>3. Catalogue[k].schema = templateSchema
    BY <2>1 DEF Entry
  <2>4. UpdateOf(k, p, s) = templateUpdate(p, s)
    BY <1>9 DEF UpdateOf
  <2>5. ASSUME NEW u, u = templateUpdate(p, s)
        PROVE  UpdateKnown(templateSchema, u, p)
    BY <2>5 DEF UpdateKnown, Updating, Waits, InPlace, templateSchema, templateUpdate, aliasOnlyChange
  <2> QED
    BY <2>1, <2>2, <2>3, <2>4, <2>5
<1>10. CASE k = "kubernetes_cluster"
  <2>1. Catalogue[k] = Entry(clusterSchema, clusterCreate, clusterRead, clusterDelete)
    BY <1>10 DEF Catalogue
  <2>2. ASSUME NEW e, e = Entry(clusterSchema, clusterCreate, clusterRead, clusterDelete)
        PROVE  EntryKnown(k, e)
    <3>1. e.create \in Creating \ Waits /\ e.delete \in Deleting \ Waits
      BY <2>2 DEF Entry, Creating, Deleting, Waits, clusterCreate, clusterDelete
    <3>2. /\ e.read.gone \in {"drop", "error"} /\ e.read.failed \in {"drop", "error"}
          /\ e.read.learns \in BOOLEAN
          /\ e.read.failed = "drop" => k \in {"firewall_rule", "vm_by_template"}
      BY <1>10, <2>2 DEF Entry, clusterRead
    <3>3. SchemaKnown(k, e)
      BY <1>10, <2>2 DEF SchemaKnown, Entry, Forgotten, Unsent, clusterSchema, clusterRead
    <3> QED
      BY <3>1, <3>2, <3>3 DEF EntryKnown
  <2>3. Catalogue[k].schema = clusterSchema
    BY <2>1 DEF Entry
  <2>4. UpdateOf(k, p, s) = clusterUpdate(p)
    BY <1>10 DEF UpdateOf
  <2>5. ASSUME NEW u, u = clusterUpdate(p)
        PROVE  UpdateKnown(clusterSchema, u, p)
    BY <2>5 DEF UpdateKnown, Updating, Waits, InPlace, clusterSchema, clusterUpdate, hasEmptyExtraArg
  <2> QED
    BY <2>1, <2>2, <2>3, <2>4, <2>5
<1>11. CASE k = "registry_repository"
  <2>1. Catalogue[k] = Entry(repositorySchema, repositoryCreate, repositoryRead, repositoryDelete)
    BY <1>11 DEF Catalogue
  <2>2. ASSUME NEW e, e = Entry(repositorySchema, repositoryCreate, repositoryRead, repositoryDelete)
        PROVE  EntryKnown(k, e)
    <3>1. e.create \in Creating \ Waits /\ e.delete \in Deleting \ Waits
      BY <2>2 DEF Entry, Creating, Deleting, Waits, repositoryCreate, repositoryDelete
    <3>2. /\ e.read.gone \in {"drop", "error"} /\ e.read.failed \in {"drop", "error"}
          /\ e.read.learns \in BOOLEAN
          /\ e.read.failed = "drop" => k \in {"firewall_rule", "vm_by_template"}
      BY <1>11, <2>2 DEF Entry, repositoryRead
    <3>3. SchemaKnown(k, e)
      BY <1>11, <2>2 DEF SchemaKnown, Entry, Forgotten, Unsent, repositorySchema, repositoryRead
    <3> QED
      BY <3>1, <3>2, <3>3 DEF EntryKnown
  <2>3. Catalogue[k].schema = repositorySchema
    BY <2>1 DEF Entry
  <2>4. UpdateOf(k, p, s) = repositoryUpdate
    BY <1>11 DEF UpdateOf
  <2>5. ASSUME NEW u, u = repositoryUpdate
        PROVE  UpdateKnown(repositorySchema, u, p)
    BY <2>5 DEF UpdateKnown, Updating, Waits, InPlace, repositorySchema, repositoryUpdate
  <2> QED
    BY <2>1, <2>2, <2>3, <2>4, <2>5
<1>12. CASE k = "vm_by_template"
  <2>1. Catalogue[k] = Entry(byTemplateSchema, byTemplateCreate, byTemplateRead, byTemplateDelete)
    BY <1>12 DEF Catalogue
  <2>2. ASSUME NEW e, e = Entry(byTemplateSchema, byTemplateCreate, byTemplateRead, byTemplateDelete)
        PROVE  EntryKnown(k, e)
    <3>1. e.create \in Creating \ Waits /\ e.delete \in Deleting \ Waits
      BY <2>2 DEF Entry, Creating, Deleting, Waits, byTemplateCreate, byTemplateDelete
    <3>2. /\ e.read.gone \in {"drop", "error"} /\ e.read.failed \in {"drop", "error"}
          /\ e.read.learns \in BOOLEAN
          /\ e.read.failed = "drop" => k \in {"firewall_rule", "vm_by_template"}
      BY <1>12, <2>2 DEF Entry, byTemplateRead
    <3>3. SchemaKnown(k, e)
      BY <1>12, <2>2 DEF SchemaKnown, Entry, Forgotten, Unsent, byTemplateSchema, byTemplateRead
    <3> QED
      BY <3>1, <3>2, <3>3 DEF EntryKnown
  <2>3. Catalogue[k].schema = byTemplateSchema
    BY <2>1 DEF Entry
  <2>4. UpdateOf(k, p, s) = byTemplateUpdate
    BY <1>12 DEF UpdateOf
  <2>5. ASSUME NEW u, u = byTemplateUpdate
        PROVE  UpdateKnown(byTemplateSchema, u, p)
    BY <2>5 DEF UpdateKnown, Updating, Waits, InPlace, byTemplateSchema, byTemplateUpdate
  <2> QED
    BY <2>1, <2>2, <2>3, <2>4, <2>5
<1> QED
  BY <1>1, <1>2, <1>3, <1>4, <1>5, <1>6, <1>7, <1>8, <1>9, <1>10, <1>11, <1>12 DEF Catalogue

-----------------------------------------------------------------------------
(* The lists of requests.                                                  *)

\* A creation looks up, and then calls or starts and waits; the last step is the
\* one that makes the object.
LEMMA CreatingSteps ==
  ASSUME NEW l \in Creating
  PROVE  /\ l # <<>> /\ l \in Seq(Steps) /\ Head(l) \in {"lookup", "call", "start", "await"}
         /\ Head(l) = "lookup" => Len(l) > 1 /\ Tail(l) \in Creating /\ Tail(l) \notin Waits
         /\ Head(l) = "call" => Len(l) = 1
         /\ Head(l) = "start" => Tail(l) \in Creating /\ Tail(l) \in Waits
         /\ Head(l) = "await" => Len(l) = 1
         /\ Head(l) = "await" <=> l \in Waits
<1>1. CASE l = <<"lookup", "call">>
  BY <1>1 DEF Creating, Waits, Steps
<1>2. CASE l = <<"call">>
  BY <1>2 DEF Creating, Waits, Steps
<1>3. CASE l = <<"lookup", "start", "await">>
  BY <1>3 DEF Creating, Waits, Steps
<1>4. CASE l = <<"start", "await">>
  BY <1>4 DEF Creating, Waits, Steps
<1>5. CASE l = <<"await">>
  BY <1>5 DEF Creating, Waits, Steps
<1> QED
  BY <1>1, <1>2, <1>3, <1>4, <1>5 DEF Creating

\* An update may be refused, may call, or starts and waits, and may look at the
\* object before that or after it.
LEMMA UpdatingSteps ==
  ASSUME NEW l \in Updating
  PROVE  /\ l \in Seq(Steps)
         /\ l # <<>> => Head(l) \in {"refuse", "call", "get", "start", "await"}
         /\ (l # <<>> /\ Head(l) = "call") => Len(l) = 1
         /\ (l # <<>> /\ Head(l) = "get" /\ l # LookAfter) =>
              /\ Len(l) > 1 /\ Tail(l) \in Updating /\ Tail(l) \notin Waits
              /\ Tail(l) # <<>> /\ Tail(l) # LookAfter
         /\ l = LookAfter => Len(l) = 1
         /\ (l # <<>> /\ Head(l) = "start") => Tail(l) \in Updating /\ Tail(l) \in Waits
         /\ (l # <<>> /\ Head(l) = "await" /\ Len(l) > 1) => Tail(l) = LookAfter
         /\ (l # <<>> /\ Head(l) = "await") <=> l \in Waits
         /\ LookAfter \notin Waits /\ <<>> \notin Waits
<1>1. CASE l = <<>>
  BY <1>1 DEF Updating, LookAfter, Waits, Steps
<1>2. CASE l = <<"refuse">>
  BY <1>2 DEF Updating, LookAfter, Waits, Steps
<1>3. CASE l = <<"call">>
  BY <1>3 DEF Updating, LookAfter, Waits, Steps
<1>4. CASE l = <<"get", "start", "await">>
  BY <1>4 DEF Updating, LookAfter, Waits, Steps
<1>5. CASE l = <<"start", "await">>
  BY <1>5 DEF Updating, LookAfter, Waits, Steps
<1>6. CASE l = <<"await">>
  BY <1>6 DEF Updating, LookAfter, Waits, Steps
<1>7. CASE l = <<"start", "await", "get">>
  BY <1>7 DEF Updating, LookAfter, Waits, Steps
<1>8. CASE l = <<"await", "get">>
  BY <1>8 DEF Updating, LookAfter, Waits, Steps
<1>9. CASE l = LookAfter
  BY <1>9 DEF LookAfter, Updating, Waits, Steps
<1> QED
  BY <1>1, <1>2, <1>3, <1>4, <1>5, <1>6, <1>7, <1>8, <1>9 DEF Updating, LookAfter

\* A deletion calls, or starts and waits, and may look at the object before.
LEMMA DeletingSteps ==
  ASSUME NEW l \in Deleting
  PROVE  /\ l # <<>> /\ l \in Seq(Steps) /\ Head(l) \in {"call", "get", "start", "await"}
         /\ Head(l) = "get" => Len(l) > 1 /\ Tail(l) \in Deleting /\ Tail(l) \notin Waits
         /\ Head(l) = "call" => Len(l) = 1
         /\ Head(l) = "start" => Tail(l) \in Deleting /\ Tail(l) \in Waits
         /\ Head(l) = "await" => Len(l) = 1
         /\ Head(l) = "await" <=> l \in Waits
<1>1. CASE l = <<"call">>
  BY <1>1 DEF Deleting, Waits, Steps
<1>2. CASE l = <<"get", "start", "await">>
  BY <1>2 DEF Deleting, Waits, Steps
<1>3. CASE l = <<"start", "await">>
  BY <1>3 DEF Deleting, Waits, Steps
<1>4. CASE l = <<"await">>
  BY <1>4 DEF Deleting, Waits, Steps
<1> QED
  BY <1>1, <1>2, <1>3, <1>4 DEF Deleting

-----------------------------------------------------------------------------
(* Values, objects, records and plans.                                     *)

\* The three marks are different from all values, and from each other.
LEMMA DataKnown ==
  /\ None \in Data /\ Empty \in Data /\ Default \in Data /\ Default # None /\ Empty # None
  /\ Unknown \notin Data /\ Unknown # None
  /\ Values \subseteq Data /\ Partitions \subseteq Data
  /\ \A p \in Partitions : Given(p) /\ p.id # None /\ p # Empty
<1>1. {None, Unknown, Empty} \cap Partitions = {}
  BY CatalogueAssumption
<1>2. \A p \in Partitions : p.id \in Values
  BY DEF Partitions
<1> QED
  BY <1>1, <1>2, ObjectsAssumption DEF Data, Given

\* What the attributes of an object or a record have in common.
Fits(f) ==
  \A a \in Attrs : /\ rule[a] = "alias" => f[a] \in Partitions \cup {None}
                   /\ NeverNull(a) => f[a] # None

\* What is planned to be unknown is for the API to choose.
Plannable(p) ==
  \A a \in Attrs : /\ p[a] = Unknown => rule[a] \in Computed
                   /\ rule[a] = "alias" => p[a] \in Partitions \cup {None}

\* Objects, records, plans and operations are not null.
LEMMA NotNull ==
  ASSUME kind \in Kinds
  PROVE  /\ [Attrs -> Data] \subseteq Plans(Attrs)
         /\ None \notin Plans(Attrs) /\ None \notin Operations(Attrs)
         /\ None \notin [Attrs -> Data]
         /\ kind \in DOMAIN Catalogue
<1>1. [Attrs -> Data] \subseteq Plans(Attrs)
  BY DEF Plans
<1>2. None \notin Plans(DOMAIN Catalogue[kind].schema) \cup Operations(DOMAIN Catalogue[kind].schema)
  BY CatalogueAssumption
<1> QED
  BY <1>1, <1>2, CatalogueAssumption DEF Attrs, rule

\* What the catalogue says of the resource at hand.
LEMMA RulesKnown ==
  ASSUME kind \in Kinds
  PROVE  /\ Catalogue[kind].create \in Creating \ Waits
         /\ Catalogue[kind].delete \in Deleting \ Waits
         /\ Read.gone \in {"drop", "error"} /\ Read.failed \in {"drop", "error"}
         /\ Read.learns \in BOOLEAN
         /\ Read.failed = "drop" => kind \in {"firewall_rule", "vm_by_template"}
         /\ \A a \in Attrs :
              /\ rule[a] = "recomputed" => <<kind, a>> \in Forgotten
              /\ (rule[a] = "carried" /\ a = "nvlink_domain_id") => <<kind, a>> \in Forgotten
              /\ ~Read.learns => ~NeverNull(a)
              /\ rule[a] = "alias" => <<kind, a>> \notin Unsent
              /\ a = "extra_args" => rule[a] = "optional"
<1>1. kind \in DOMAIN Catalogue
  BY NotNull
<1>2. EntryKnown(kind, Catalogue[kind])
  BY <1>1, CatalogueKnown
<1>3. SchemaKnown(kind, Catalogue[kind])
  BY <1>2 DEF EntryKnown
<1> QED
  BY <1>2, <1>3 DEF EntryKnown, SchemaKnown, Attrs, rule, Read, NeverNull

\* And of its Update.
LEMMA UpdatesKnown ==
  ASSUME kind \in Kinds, NEW p, NEW s
  PROVE  /\ UpdateOf(kind, p, s).steps \in Updating \ Waits
         /\ UpdateOf(kind, p, s).learns \in BOOLEAN
         /\ UpdateOf(kind, p, s).learns \/ UpdateOf(kind, p, s).sends = {}
         /\ \A a \in Attrs :
              /\ a \in UpdateOf(kind, p, s).sends => rule[a] \in InPlace
              /\ (UpdateOf(kind, p, s).steps = <<>> /\ rule[a] = "optional") =>
                   a = "extra_args" /\ p[a] = None
<1>1. kind \in DOMAIN Catalogue
  BY NotNull
<1>2. UpdateKnown(Catalogue[kind].schema, UpdateOf(kind, p, s), p)
  BY <1>1, CatalogueKnown
<1> QED
  BY <1>2 DEF UpdateKnown, Attrs, rule

\* A configuration holds data, a partition where it names one.
LEMMA ConfigKnown ==
  ASSUME kind \in Kinds, NEW c \in Configs[kind]
  PROVE  /\ c \in [Attrs -> Data] /\ c # None
         /\ \A a \in Attrs : rule[a] = "alias" => c[a] \in Partitions \cup {None}
<1>1. c \in [Attrs -> Data] /\ \A a \in Attrs : c[a] \in Configurable(kind, a)
  BY DEF Configs, Attrs, rule
<1>2. c # None
  BY <1>1, NotNull
<1>3. ASSUME NEW a \in Attrs, rule[a] = "alias"
      PROVE  c[a] \in Partitions \cup {None}
  <2>1. <<kind, a>> \notin Unsent /\ Catalogue[kind].schema[a] = "alias"
    BY <1>3, RulesKnown DEF rule
  <2>2. Configurable(kind, a) = Partitions \cup {None}
    BY <2>1 DEF Configurable, Required
  <2> QED
    BY <1>1, <2>2
<1> QED
  BY <1>1, <1>2, <1>3

\* What the API makes of a plan is an object.
LEMMA MadeTyped ==
  ASSUME kind \in Kinds, NEW want \in Plans(Attrs), Plannable(want)
  PROVE  Made(want) \in [Attrs -> Data] /\ Made(want) # None /\ Fits(Made(want))
<1>1. Made(want) \in [Attrs -> Data]
  BY DataKnown DEF Made, Chosen, Given, Plans
<1>2. Fits(Made(want))
  <2>1. ASSUME NEW a \in Attrs, rule[a] = "alias"
        PROVE  Made(want)[a] \in Partitions \cup {None}
    <3>1. a # "extra_args" /\ want[a] \in Partitions \cup {None}
      BY <2>1, RulesKnown DEF Plannable
    <3> QED
      BY <2>1, <3>1 DEF Made, Chosen, Computed
  <2>2. ASSUME NEW a \in Attrs, NeverNull(a)
        PROVE  Made(want)[a] # None
    BY <2>2, DataKnown DEF NeverNull, Made, Chosen, Computed, Given
  <2> QED
    BY <2>1, <2>2 DEF Fits
<1> QED
  BY <1>1, <1>2, NotNull

\* What the API answers is data, and a partition for a partition.
LEMMA AnsweredTyped ==
  ASSUME NEW x
  PROVE  /\ x \in Data => Answered(x) \in Data
         /\ x \in Partitions \cup {None} => Answered(x) \in Partitions \cup {None}
         /\ x # None => Answered(x) # None
         /\ x \notin Partitions => Answered(x) = x
<1>1. ASSUME x \in Partitions
      PROVE  Answered(x) \in Partitions
  BY <1>1 DEF Answered, Partitions
<1>2. x \notin Partitions => Answered(x) = x
  BY DEF Answered
<1> QED
  BY <1>1, <1>2, DataKnown DEF Given

\* What becomes of an object that is updated; one that is sent nothing stays.
LEMMA AlteredTyped ==
  ASSUME kind \in Kinds, NEW want \in Plans(Attrs), object \in [Attrs -> Data], Fits(object)
  PROVE  /\ Altered(want) \in [Attrs -> Data] /\ Altered(want) # None /\ Fits(Altered(want))
         /\ UpdateOf(kind, want, want).sends = {} => Altered(want) = object
<1>1. Altered(want) \in [Attrs -> Data]
  BY DEF Altered, Given, Plans
<1>2. Fits(Altered(want))
  <2>1. ASSUME NEW a \in Attrs, rule[a] = "alias"
        PROVE  Altered(want)[a] = object[a]
    BY <2>1, UpdatesKnown DEF Altered, InPlace
  <2>2. ASSUME NEW a \in Attrs, object[a] # None
        PROVE  Altered(want)[a] # None
    BY <2>2 DEF Altered, Given
  <2> QED
    BY <2>1, <2>2 DEF Fits
<1>3. UpdateOf(kind, want, want).sends = {} => Altered(want) = object
  BY DEF Altered
<1> QED
  BY <1>1, <1>2, <1>3, NotNull

\* A record is made of an object and of a plan or a record.
LEMMA RecordedTyped ==
  ASSUME kind \in Kinds, NEW ref \in Plans(Attrs), Plannable(ref),
         NEW o \in [Attrs -> Data], Fits(o)
  PROVE  Recorded(ref, o) \in [Attrs -> Data] /\ Recorded(ref, o) # None /\ Fits(Recorded(ref, o))
<1>1. \A a \in Attrs : Recorded(ref, o)[a] \in Data
  <2>1. ASSUME NEW a \in Attrs
        PROVE  Recorded(ref, o)[a] \in Data
    <3>1. ref[a] \in Data \cup {Unknown} /\ o[a] \in Data /\ Recorded(ref, o)[a] \in {ref[a], Answered(o[a])}
      BY DEF Plans, Recorded
    <3>2. CASE ref[a] = Unknown
      <4>1. rule[a] # "hidden"
        BY <3>2 DEF Plannable, Computed
      <4> QED
        BY <3>1, <3>2, <4>1, DataKnown, AnsweredTyped DEF Recorded, Given
    <3> QED
      BY <3>1, <3>2, DataKnown, AnsweredTyped
  <2> QED
    BY <2>1
<1>2. Recorded(ref, o) \in [Attrs -> Data]
  BY <1>1 DEF Recorded
<1>3. Fits(Recorded(ref, o))
  <2>1. ASSUME NEW a \in Attrs, rule[a] = "alias"
        PROVE  Recorded(ref, o)[a] \in Partitions \cup {None}
    BY <2>1, AnsweredTyped DEF Fits, Plannable, Recorded
  <2>2. ASSUME NEW a \in Attrs, NeverNull(a)
        PROVE  Recorded(ref, o)[a] # None
    <3>1. o[a] # None /\ rule[a] = "carried"
      BY <2>2 DEF Fits, NeverNull
    <3>2. a # "extra_args"
      BY <3>1, RulesKnown
    <3> QED
      BY <3>1, <3>2, AnsweredTyped DEF Recorded
  <2> QED
    BY <2>1, <2>2 DEF Fits
<1> QED
  BY <1>2, <1>3, NotNull

\* Recording once more changes nothing.
LEMMA RecordedTwice ==
  ASSUME NEW ref, NEW o
  PROVE  Recorded(Recorded(ref, o), o) = Recorded(ref, o)
BY DEF Recorded, Given

\* A plan for a new object, and one for an object that is recorded.
LEMMA PlansTyped ==
  ASSUME kind \in Kinds, config \in Configs[kind]
  PROVE  /\ PlannedAnew \in Plans(Attrs) /\ PlannedAnew # None /\ Plannable(PlannedAnew)
         /\ (tf \in [Attrs -> Data] /\ tf # None) =>
              Planned \in Plans(Attrs) /\ Planned # None /\ Plannable(Planned)
<1>1. /\ config \in [Attrs -> Data]
      /\ \A a \in Attrs : rule[a] = "alias" => config[a] \in Partitions \cup {None}
  BY ConfigKnown
<1>2. PlannedAnew \in Plans(Attrs)
  BY <1>1 DEF PlannedAnew, Plans
<1>3. Plannable(PlannedAnew)
  <2>1. ASSUME NEW a \in Attrs, PlannedAnew[a] = Unknown
        PROVE  rule[a] \in Computed
    BY <1>1, <2>1, DataKnown DEF PlannedAnew
  <2>2. ASSUME NEW a \in Attrs, rule[a] = "alias"
        PROVE  PlannedAnew[a] \in Partitions \cup {None}
    BY <1>1, <2>2 DEF PlannedAnew, Computed
  <2> QED
    BY <2>1, <2>2 DEF Plannable
<1>4. ASSUME tf \in [Attrs -> Data]
      PROVE  Planned \in Plans(Attrs)
  BY <1>1, <1>4 DEF Planned, Proposed, Plans
<1>5. ASSUME tf \in [Attrs -> Data]
      PROVE  Plannable(Planned)
  <2>1. ASSUME NEW a \in Attrs, Planned[a] = Unknown
        PROVE  rule[a] \in Computed
    BY <1>1, <1>5, <2>1, DataKnown DEF Planned, Proposed, Forgets
  <2>2. ASSUME NEW a \in Attrs, rule[a] = "alias"
        PROVE  Planned[a] \in Partitions \cup {None}
    BY <1>1, <2>2 DEF Planned, Proposed, Forgets, Computed
  <2> QED
    BY <2>1, <2>2 DEF Plannable
<1> QED
  BY <1>2, <1>3, <1>4, <1>5, NotNull

-----------------------------------------------------------------------------
(* The base of the invariant.                                              *)

\* What a handler has still to do, and whether it waits.
Lists ==
  /\ pc = "create" => todo \in Creating
  /\ pc = "update" => todo \in Updating
  /\ pc = "delete" => todo \in Deleting
  /\ pc \notin {"create", "update", "delete"} => todo = <<>>
  /\ op # "NONE" <=> todo \in Waits
  /\ (pc = "update" /\ todo = <<>>) => UpdateOf(kind, plan, tf).steps = <<>>

\* The operation that is awaited is the handler's own, and where the object
\* stands meanwhile.
Jobs ==
  /\ op = "IN_PROGRESS" => job # None /\ job.verb = pc /\ (pc # "delete" => job.want = plan)
  /\ op \in {"SUCCEEDED", "FAILED"} => job = None
  /\ (job # None /\ job.verb = "create") => pc = "create"
  /\ (pc = "update" /\ op # "NONE") => object # None
  /\ pc = "create" => object = IF op = "SUCCEEDED" THEN Made(plan) ELSE None
  /\ (pc = "create" /\ op = "NONE") => job = None
  /\ (pc = "delete" /\ op = "SUCCEEDED") => object = None

\* An object that is not recorded is being created; any other is counted.
Named ==
  /\ (tf = None /\ pc # "create") => object = None /\ job = None
  /\ pc = "refresh" => tf # None
  /\ orphans <= faults

\* Objects, records and plans are well formed, and the two names of a partition
\* are not what an update changes.
Shapes ==
  /\ object # None => Fits(object)
  /\ tf # None => Fits(tf)
  /\ pc \in {"create", "update"} => Plannable(plan)
  /\ pc = "update" => \A a \in Attrs : rule[a] = "alias" => Effective(plan[a]) = Effective(tf[a])

Base == TypeOK /\ Lists /\ Jobs /\ Named /\ Shapes

\* Faults and edits stay within their bounds.
LEMMA CountersTyped ==
  ASSUME TypeOK
  PROVE  /\ (UNCHANGED faults \/ Fault) => faults' \in 0..MaxFaults /\ faults <= faults'
         /\ (UNCHANGED edits \/ Edit) => edits' \in 0..MaxEdits
         /\ faults \in Nat /\ orphans \in Nat
         /\ Fault => faults' = faults + 1
BY ObjectsAssumption DEF TypeOK, Fault, Edit

\* A list to wait with.
LEMMA WaitsKnown ==
  /\ <<>> \notin Waits
  /\ \A l \in Waits : l # <<>> /\ Head(l) = "await" /\ l \in Seq(Steps)
<1>1. <<>> \notin Waits
  BY DEF Waits
<1>2. ASSUME NEW l \in Waits
      PROVE  l # <<>> /\ Head(l) = "await" /\ l \in Seq(Steps)
  <2>1. CASE l = <<"await">>
    BY <2>1 DEF Steps
  <2>2. CASE l = <<"await", "get">>
    BY <2>2 DEF Steps
  <2> QED
    BY <2>1, <2>2 DEF Waits
<1> QED
  BY <1>1, <1>2

\* Outside of the handlers there is not much to see to.
LEMMA RestBase ==
  ASSUME Base, kind' = kind,
         pc' \in {"idle", "refresh", "plan"}, pc' = "refresh" => tf' # None,
         plan' \in Plans(Attrs) \cup {None}, todo' = <<>>, op' = "NONE",
         config' \in Configs[kind] \cup {None}, edits' \in 0..MaxEdits,
         UNCHANGED faults \/ Fault, disturbed' \in BOOLEAN,
         tf' \in [Attrs -> Data] \cup {None}, tf' # None => Fits(tf'),
         object' \in [Attrs -> Data] \cup {None}, object' # None => Fits(object'),
         job' \in Operations(Attrs) \cup {None}, job' # None => job'.verb # "create",
         tf' = None => object' = None /\ job' = None,
         orphans' \in Nat, orphans' <= faults'
  PROVE  Base'
<1>1. Attrs' = Attrs /\ rule' = rule
  BY DEF Attrs, rule
<1>2. TypeOK'
  BY <1>1, CountersTyped DEF Base, TypeOK
<1>3. Lists'
  BY WaitsKnown DEF Lists
<1>4. Jobs' /\ Named'
  BY DEF Jobs, Named
<1>5. Shapes'
  BY <1>1 DEF Shapes, Fits, NeverNull
<1> QED
  BY <1>2, <1>3, <1>4, <1>5 DEF Base

-----------------------------------------------------------------------------
(* The steps keep it.                                                      *)

\* The request at hand: when it is made, and what is left after it.
LEMMA HandlingKnown ==
  ASSUME Base, NEW step, Handling(step)
  PROVE  /\ pc \in {"create", "update", "delete"}
         /\ op # "NONE" <=> step = "await"
         /\ step = "lookup" => pc = "create" /\ Len(todo) > 1
         /\ step = "refuse" => pc = "update"
         /\ step = "get" => pc # "create" /\ (pc = "delete" => Len(todo) > 1)
         /\ step = "call" => Len(todo) = 1
         /\ step = "start" => Tail(todo) \in Waits
         /\ (step = "await" /\ Len(todo) > 1) => pc = "update" /\ Tail(todo) = LookAfter
         /\ (step = "start" \/ Len(todo) > 1) =>
              /\ pc = "create" => Tail(todo) \in Creating
              /\ pc = "update" => Tail(todo) \in Updating /\ Tail(todo) # <<>>
              /\ pc = "delete" => Tail(todo) \in Deleting
         /\ (step # "start" /\ Len(todo) > 1) => Tail(todo) \notin Waits
         /\ (pc = "update" /\ step = "get" /\ Len(todo) = 1) => todo = LookAfter
         /\ (pc = "update" /\ step # "await" /\ Len(todo) > 1) => Tail(todo) # LookAfter
<1>1. todo # <<>> /\ Head(todo) = step /\ pc \in {"create", "update", "delete"}
  BY DEF Handling
<1>2. op # "NONE" <=> todo \in Waits
  BY DEF Base, Lists
<1>3. CASE pc = "create"
  <2>1. todo \in Creating
    BY <1>3 DEF Base, Lists
  <2>2. /\ step \in {"lookup", "call", "start", "await"}
        /\ step = "lookup" => Len(todo) > 1 /\ Tail(todo) \in Creating /\ Tail(todo) \notin Waits
        /\ step = "call" => Len(todo) = 1
        /\ step = "start" => Tail(todo) \in Creating /\ Tail(todo) \in Waits
        /\ step = "await" => Len(todo) = 1
        /\ step = "await" <=> todo \in Waits
    BY <1>1, <2>1, CreatingSteps
  <2>3. Len(todo) = 1 => ~(Len(todo) > 1)
    OBVIOUS
  <2> QED
    BY <1>1, <1>2, <1>3, <2>2, <2>3, Zenon
<1>4. CASE pc = "update"
  <2>1. todo \in Updating
    BY <1>4 DEF Base, Lists
  <2>2. CASE todo = LookAfter
    <3>1. step = "get" /\ Len(todo) = 1 /\ todo \notin Waits
      BY <1>1, <2>1, <2>2, UpdatingSteps DEF LookAfter
    <3> QED
      BY <1>1, <1>2, <1>4, <2>2, <3>1
  <2>3. CASE todo # LookAfter
    <3>1. step \in {"refuse", "call", "get", "start", "await"}
      BY <1>1, <2>1, UpdatingSteps
    <3>2. /\ step = "call" => Len(todo) = 1
          /\ step = "get" => /\ Len(todo) > 1 /\ Tail(todo) \in Updating
                             /\ Tail(todo) \notin Waits
                             /\ Tail(todo) # <<>> /\ Tail(todo) # LookAfter
          /\ step = "start" => Tail(todo) \in Updating /\ Tail(todo) \in Waits
          /\ (step = "await" /\ Len(todo) > 1) => Tail(todo) = LookAfter
          /\ step = "await" <=> todo \in Waits
          /\ LookAfter \notin Waits /\ <<>> \notin Waits
      BY <1>1, <2>1, <2>3, UpdatingSteps
    <3>3. LookAfter \in Updating /\ LookAfter # <<>>
      BY DEF Updating, LookAfter
    <3>4. step = "refuse" => Len(todo) = 1
      BY <1>1, <2>1 DEF Updating
    <3>5. step = "start" => Tail(todo) # LookAfter /\ Tail(todo) # <<>>
      BY <3>2, Zenon
    <3>6. Len(todo) = 1 => ~(Len(todo) > 1)
      OBVIOUS
    <3>7. CASE step \in {"refuse", "call", "get"}
      BY <1>1, <1>2, <1>4, <3>2, <3>4, <3>6, <3>7, Zenon
    <3>8. CASE step = "start"
      BY <1>1, <1>2, <1>4, <3>2, <3>5, <3>8
    <3>9. CASE step = "await"
      BY <1>1, <1>2, <1>4, <3>2, <3>3, <3>9
    <3> QED
      BY <3>1, <3>7, <3>8, <3>9
  <2> QED
    BY <2>2, <2>3
<1>5. CASE pc = "delete"
  <2>1. todo \in Deleting
    BY <1>5 DEF Base, Lists
  <2> QED
    BY <1>1, <1>2, <1>5, <2>1, DeletingSteps
<1> QED
  BY <1>1, <1>3, <1>4, <1>5

\* Steps of a run before its handler starts, or without one.
LEMMA ReadsBase ==
  ASSUME Base, StartRun \/ ReadOK \/ ReadGone \/ ReadFails \/ PlanNothing \/ PlanRefused
  PROVE  Base'
<1>1. /\ kind' = kind /\ kind \in Kinds /\ config' = config /\ edits' = edits
      /\ config \in Configs[kind] \cup {None} /\ edits \in 0..MaxEdits
      /\ pc \in {"idle", "refresh", "plan"} /\ (UNCHANGED faults \/ Fault)
      /\ todo = <<>> /\ op = "NONE" /\ plan \in Plans(Attrs) \cup {None}
      /\ todo' = <<>> /\ op' = "NONE" /\ plan' \in Plans(Attrs) \cup {None}
  BY DEF Base, TypeOK, Lists, StartRun, ReadOK, ReadGone, ReadFails, PlanNothing, PlanRefused,
         Begin, Rest
<1>2. /\ tf \in [Attrs -> Data] \cup {None} /\ (tf # None => Fits(tf))
      /\ object \in [Attrs -> Data] \cup {None} /\ (object # None => Fits(object))
      /\ job \in Operations(Attrs) \cup {None} /\ (job # None => job.verb # "create")
      /\ tf = None => object = None /\ job = None
      /\ pc = "refresh" => tf # None
      /\ disturbed \in BOOLEAN /\ orphans \in Nat /\ orphans <= faults
  BY <1>1 DEF Base, TypeOK, Jobs, Named, Shapes
<1>3. faults \in Nat /\ faults <= faults' /\ (Fault => faults' = faults + 1) /\ faults' \in Nat
  BY <1>1, CountersTyped DEF Base
<1>4. CASE StartRun \/ PlanNothing \/ PlanRefused
  <2>1. /\ UNCHANGED <<tf, object, job, disturbed, orphans, faults>>
        /\ pc' \in {"idle", "refresh", "plan"} /\ (pc' = "refresh" => tf # None)
    BY <1>4 DEF StartRun, PlanNothing, PlanRefused, Begin
  <2> QED
    BY <1>1, <1>2, <2>1, RestBase
<1>5. CASE ReadOK
  <2>1. /\ UNCHANGED <<object, job, orphans, faults>> /\ pc' = "plan" /\ tf # None
        /\ object \in [Attrs -> Data] /\ object # None /\ tf \in [Attrs -> Data]
        /\ tf' = IF Read.learns THEN Recorded(tf, object) ELSE tf
        /\ disturbed' \in BOOLEAN
    BY <1>1, <1>2, <1>5 DEF ReadOK
  <2>2. tf \in Plans(Attrs) /\ Plannable(tf)
    BY <1>1, <1>2, <2>1, NotNull, DataKnown DEF Plannable, Fits
  <2>3. tf' \in [Attrs -> Data] /\ tf' # None /\ Fits(tf')
    BY <1>1, <1>2, <2>1, <2>2, RecordedTyped
  <2> QED
    BY <1>1, <1>2, <2>1, <2>3, RestBase
<1>6. CASE (ReadGone \/ ReadFails) /\ Rest
  <2>1. UNCHANGED <<tf, object, job, disturbed, orphans>> \/ (Drop /\ pc' = "plan")
    BY <1>6 DEF ReadGone, ReadFails
  <2>2. UNCHANGED <<tf, object, job, disturbed, orphans>> /\ pc' = "idle"
    BY <1>6, <2>1 DEF Rest
  <2> QED
    BY <1>1, <1>2, <1>3, <2>2, RestBase
<1>7. CASE (ReadGone \/ ReadFails) /\ Drop /\ pc' = "plan"
  <2>1. /\ tf' = None /\ object' = None /\ job' = None /\ disturbed' = FALSE
        /\ orphans' = IF object = None THEN orphans ELSE orphans + 1
    BY <1>7 DEF Drop
  <2>2. orphans' \in Nat /\ orphans' <= faults'
    BY <1>2, <1>3, <1>7, <2>1 DEF ReadGone, ReadFails
  <2> QED
    BY <1>1, <1>2, <1>7, <2>1, <2>2, RestBase
<1> QED
  BY <1>4, <1>5, <1>6, <1>7 DEF ReadGone, ReadFails

\* A plan that has something to do starts a handler.
LEMMA BeginsBase ==
  ASSUME Base, PlanCreate \/ PlanUpdate \/ PlanDelete
  PROVE  Base'
<1>1. /\ kind \in Kinds /\ pc = "plan" /\ op = "NONE"
      /\ UNCHANGED <<kind, object, job, config, tf, op, disturbed, orphans, faults, edits>>
  BY WaitsKnown DEF Base, TypeOK, Lists, PlanCreate, PlanUpdate, PlanDelete, Begin
<1>2. Attrs' = Attrs /\ rule' = rule
  BY <1>1 DEF Attrs, rule
<1>3. /\ tf = None => object = None /\ job = None
      /\ (job # None /\ job.verb = "create") => FALSE
      /\ tf # None => tf \in [Attrs -> Data]
      /\ config # None => config \in Configs[kind]
  BY <1>1 DEF Base, Jobs, Named, TypeOK
<1>4. CASE PlanCreate
  <2>1. /\ pc' = "create" /\ plan' = PlannedAnew /\ todo' = Catalogue[kind].create
        /\ tf = None /\ config # None
    BY <1>4 DEF PlanCreate, Begin
  <2>2. plan' \in Plans(Attrs) /\ plan' # None /\ Plannable(plan')
    BY <1>1, <1>3, <2>1, PlansTyped
  <2>3. todo' \in Creating /\ todo' \notin Waits /\ todo' \in Seq(Steps)
    BY <1>1, <2>1, RulesKnown, CreatingSteps
  <2>4. TypeOK' /\ Lists'
    BY <1>1, <1>2, <2>1, <2>2, <2>3 DEF Base, TypeOK, Lists
  <2>5. Jobs' /\ Named' /\ Shapes'
    BY <1>1, <1>2, <1>3, <2>1, <2>2
       DEF Base, Jobs, Named, Shapes, Fits, NeverNull, Plannable
  <2> QED
    BY <2>4, <2>5 DEF Base
<1>5. CASE PlanUpdate
  <2>1. /\ pc' = "update" /\ plan' = Planned /\ todo' = UpdateOf(kind, Planned, tf).steps
        /\ tf # None /\ config # None /\ \A a \in Attrs : ~Replaces(a)
    BY <1>5 DEF PlanUpdate, Begin
  <2>2. plan' \in Plans(Attrs) /\ plan' # None /\ Plannable(plan')
    BY <1>1, <1>3, <2>1, PlansTyped
  <2>3. todo' \in Updating /\ todo' \notin Waits /\ todo' \in Seq(Steps)
    BY <1>1, <2>1, UpdatesKnown, UpdatingSteps
  <2>4. TypeOK' /\ Lists'
    BY <1>1, <1>2, <2>1, <2>2, <2>3 DEF Base, TypeOK, Lists
  <2>5. \A a \in Attrs : rule[a] = "alias" => Effective(plan'[a]) = Effective(tf[a])
    BY <2>1 DEF Replaces
  <2>6. Jobs' /\ Named' /\ Shapes'
    BY <1>1, <1>2, <1>3, <2>1, <2>2, <2>5
       DEF Base, Jobs, Named, Shapes, Fits, NeverNull, Plannable, Effective
  <2> QED
    BY <2>4, <2>6 DEF Base
<1>6. CASE PlanDelete
  <2>1. /\ pc' = "delete" /\ plan' = None /\ todo' = Catalogue[kind].delete /\ tf # None
    BY <1>6 DEF PlanDelete, Begin
  <2>2. todo' \in Deleting /\ todo' \notin Waits /\ todo' \in Seq(Steps)
    BY <1>1, <2>1, RulesKnown, DeletingSteps
  <2>3. TypeOK' /\ Lists'
    BY <1>1, <1>2, <2>1, <2>2 DEF Base, TypeOK, Lists
  <2>4. Jobs' /\ Named' /\ Shapes'
    BY <1>1, <1>2, <1>3, <2>1 DEF Base, Jobs, Named, Shapes, Fits, NeverNull
  <2> QED
    BY <2>3, <2>4 DEF Base
<1> QED
  BY <1>4, <1>5, <1>6

\* A handler that goes on to its next request.
LEMMA AdvanceBase ==
  ASSUME Base, NEW step \in {"lookup", "get", "await"}, Handling(step), Len(todo) > 1,
         UNCHANGED <<kind, object, job, config, tf, pc, plan, disturbed, orphans, faults, edits>>,
         todo' = Tail(todo), op' = "NONE"
  PROVE  Base'
<1>1. /\ todo' \notin Waits
      /\ pc = "create" => todo' \in Creating /\ op = "NONE"
      /\ pc = "update" => todo' \in Updating /\ todo' # <<>>
      /\ pc = "delete" => todo' \in Deleting
      /\ pc \in {"create", "update", "delete"}
  BY HandlingKnown
<1>2. todo' \in Seq(Steps)
  BY <1>1, CreatingSteps, UpdatingSteps, DeletingSteps
<1>3. Attrs' = Attrs /\ rule' = rule
  BY DEF Attrs, rule
<1>4. TypeOK' /\ Lists'
  BY <1>1, <1>2, <1>3 DEF Base, TypeOK, Lists
<1>5. Jobs' /\ Named'
  BY <1>1, <1>3 DEF Base, Jobs, Named
<1>6. Shapes'
  BY <1>3 DEF Base, Shapes, Fits, NeverNull, Plannable, Effective
<1> QED
  BY <1>4, <1>5, <1>6 DEF Base

\* A handler that saves its record.
LEMMA SaveBase ==
  ASSUME Base, pc \in {"create", "update", "delete"},
         UNCHANGED <<kind, job, config, orphans, faults, edits>>,
         disturbed' \in BOOLEAN, tf' = Saved(object'), Rest,
         object' \in [Attrs -> Data] \cup {None}, object' # None => Fits(object'),
         pc = "delete" <=> object' = None, pc # "update" => job = None
  PROVE  Base' /\ (tf' = None <=> pc = "delete")
<1>1. /\ kind \in Kinds /\ config \in Configs[kind] \cup {None} /\ edits \in 0..MaxEdits
      /\ job \in Operations(Attrs) \cup {None} /\ orphans \in Nat /\ orphans <= faults
      /\ pc = "update" => tf \in [Attrs -> Data] /\ tf # None /\ Fits(tf)
      /\ pc # "delete" => plan \in Plans(Attrs) /\ Plannable(plan)
      /\ (job # None /\ job.verb = "create") => FALSE
  BY DEF Base, TypeOK, Jobs, Named, Shapes
<1>2. /\ tf' \in [Attrs -> Data] \cup {None} /\ (tf' # None => Fits(tf'))
      /\ tf' = None <=> pc = "delete"
  BY <1>1, RecordedTyped DEF Saved
<1> QED
  BY <1>1, <1>2, RestBase DEF Rest

\* What becomes of an object when a request is obeyed.
LEMMA EffectTyped ==
  ASSUME Base, pc \in {"create", "update", "delete"}, Accepts(pc)
  PROVE  /\ job = None
         /\ pc = "create" => object = None /\ Effect(pc, plan) = Made(plan)
         /\ pc = "update" => /\ object \in [Attrs -> Data] /\ object # None
                             /\ Effect(pc, plan) = Altered(plan)
         /\ pc = "delete" => /\ object \in [Attrs -> Data] /\ object # None
                             /\ Effect(pc, plan) = None
         /\ Effect(pc, plan) \in [Attrs -> Data] \cup {None}
         /\ Effect(pc, plan) # None => Fits(Effect(pc, plan))
         /\ pc = "delete" <=> Effect(pc, plan) = None
<1>1. /\ kind \in Kinds /\ object \in [Attrs -> Data] \cup {None}
      /\ object # None => Fits(object)
      /\ pc # "delete" => plan \in Plans(Attrs) /\ Plannable(plan)
  BY DEF Base, TypeOK, Shapes
<1>2. job = None /\ (pc = "create" <=> object = None)
  BY DEF Accepts
<1>3. CASE pc = "create"
  BY <1>1, <1>2, <1>3, MadeTyped DEF Effect
<1>4. CASE pc = "update"
  BY <1>1, <1>2, <1>4, AlteredTyped DEF Effect
<1>5. CASE pc = "delete"
  BY <1>1, <1>2, <1>5 DEF Effect
<1> QED
  BY <1>3, <1>4, <1>5

\* The operation asked for.
LEMMA OperationTyped ==
  ASSUME Base, pc \in {"create", "update", "delete"}, Accepts(pc),
         job' = [verb |-> pc, want |-> IF pc = "delete" THEN object ELSE plan]
  PROVE  /\ job' \in Operations(Attrs) /\ job' # None /\ job'.verb = pc
         /\ pc # "delete" => job'.want = plan
<1>1. (IF pc = "delete" THEN object ELSE plan) \in Plans(Attrs)
  <2>1. pc = "delete" => object \in [Attrs -> Data]
    BY EffectTyped
  <2> QED
    BY <2>1, NotNull DEF Base, TypeOK
<1>2. job' \in Operations(Attrs)
  BY <1>1 DEF Operations
<1> QED
  BY <1>2, NotNull DEF Base, TypeOK

\* A handler that ends with an error, having changed nothing more.
Quiet == Refuse \/ LookUpFails \/ GetFails \/ RequestFails \/ AwaitFails

LEMMA QuietBase ==
  ASSUME Base, Quiet
  PROVE  Base' /\ UNCHANGED <<kind, object, job, tf, orphans>> /\ pc \in {"create", "update", "delete"}
<1>1. /\ UNCHANGED <<kind, object, job, config, tf, orphans>> /\ Rest
      /\ UNCHANGED faults \/ Fault
      /\ UNCHANGED edits \/ Edit
      /\ disturbed' \in BOOLEAN
      /\ (\E step \in {"refuse", "lookup", "get", "call", "start"} : Handling(step)) \/ op = "FAILED"
  BY DEF Quiet, Refuse, LookUpFails, GetFails, RequestFails, AwaitFails, Fail, Base, TypeOK
<1>2. pc \in {"create", "update", "delete"}
  BY <1>1, HandlingKnown, WaitsKnown DEF Base, Lists
<1>3. pc = "create" => object = None /\ job = None
  BY <1>1, HandlingKnown DEF Base, Jobs
<1>4. /\ kind \in Kinds /\ config \in Configs[kind] \cup {None} /\ edits \in 0..MaxEdits
      /\ tf \in [Attrs -> Data] \cup {None} /\ (tf # None => Fits(tf))
      /\ object \in [Attrs -> Data] \cup {None} /\ (object # None => Fits(object))
      /\ job \in Operations(Attrs) \cup {None}
      /\ tf = None => pc = "create"
      /\ orphans \in Nat
  BY <1>2 DEF Base, TypeOK, Shapes
<1>5. (job # None /\ job.verb = "create") => FALSE
  BY <1>3 DEF Base, Jobs
<1>6. orphans' <= faults'
  <2>1. orphans <= faults /\ orphans \in Nat /\ faults \in Nat
    BY CountersTyped DEF Base, Named
  <2> QED
    BY <1>1, <2>1, CountersTyped DEF Base
<1>7. edits' \in 0..MaxEdits /\ (UNCHANGED faults \/ Fault)
  BY <1>1, CountersTyped DEF Base
<1>8. Base'
  BY <1>1, <1>3, <1>4, <1>5, <1>6, <1>7, RestBase DEF Rest
<1> QED
  BY <1>1, <1>2, <1>8

\* A handler that loses an answer, or sight of an operation, or its life.  What
\* it was about to create is nobody's from now on.
LEMMA LossesBase ==
  ASSUME Base, AnswerLost \/ LosesSight
  PROVE  /\ Base' /\ UNCHANGED <<kind, tf>> /\ pc \in {"create", "update", "delete"}
         /\ pc = "create" => object' = None
         /\ pc # "create" => orphans' = orphans
         /\ pc = "create" => (orphans' = orphans + 1 \/ (orphans' = orphans /\ object = None))
         /\ pc = "update" => (object' = None <=> object = None)
         /\ pc = "delete" => (object' # None => object' = object)
<1>1. /\ UNCHANGED <<kind, config, tf, edits>> /\ Rest /\ Fault
      /\ pc \in {"create", "update", "delete"}
      /\ disturbed' \in BOOLEAN
  BY DEF AnswerLost, LosesSight, Abandon, Fail, Handling, Base, TypeOK
<1>2. /\ kind \in Kinds /\ config \in Configs[kind] \cup {None} /\ edits \in 0..MaxEdits
      /\ tf \in [Attrs -> Data] \cup {None} /\ (tf # None => Fits(tf))
      /\ object \in [Attrs -> Data] \cup {None} /\ (object # None => Fits(object))
      /\ job \in Operations(Attrs) \cup {None}
      /\ tf = None => pc = "create"
      /\ job # None => (job.verb = "create" => pc = "create")
  BY <1>1 DEF Base, TypeOK, Shapes, Jobs
<1>3. /\ object' \in [Attrs -> Data] \cup {None} /\ (object' # None => Fits(object'))
      /\ job' \in Operations(Attrs) \cup {None} /\ (job' # None => job'.verb # "create")
      /\ pc = "create" => object' = None /\ job' = None
      /\ pc = "update" => (object' = None <=> object = None)
      /\ pc = "delete" => (object' # None => object' = object)
  <2>1. CASE LosesSight
    BY <1>1, <1>2, <2>1 DEF LosesSight, Abandon
  <2>2. CASE AnswerLost
    <3>1. Accepts(pc)
      BY <2>2 DEF AnswerLost
    <3>2. CASE Handling("call")
      <4>1. ~Handling("start")
        BY <3>2 DEF Handling
      <4>2. object' = (IF pc = "create" THEN None ELSE Effect(pc, plan)) /\ job' = job
        BY <2>2, <4>1 DEF AnswerLost
      <4> QED
        BY <1>1, <1>2, <3>1, <4>2, EffectTyped
    <3>3. CASE Handling("start")
      <4>1. ~Handling("call")
        BY <3>3 DEF Handling
      <4>2. /\ object' = object
            /\ job' = IF pc = "create" THEN None
                      ELSE [verb |-> pc, want |-> IF pc = "delete" THEN object ELSE plan]
        BY <2>2, <4>1 DEF AnswerLost
      <4>3. pc # "create" => job' \in Operations(Attrs) /\ job'.verb = pc
        BY <1>1, <3>1, <4>2, OperationTyped
      <4> QED
        BY <1>1, <1>2, <3>1, <4>2, <4>3, EffectTyped
    <3> QED
      BY <2>2, <3>2, <3>3 DEF AnswerLost
  <2> QED
    BY <2>1, <2>2
<1>4. /\ pc # "create" => orphans' = orphans
      /\ pc = "create" => (orphans' = orphans + 1 \/ (orphans' = orphans /\ object = None))
  BY DEF AnswerLost, LosesSight, Abandon
<1>5. orphans' \in Nat /\ orphans' <= faults'
  <2>1. orphans <= faults /\ orphans \in Nat /\ faults \in Nat /\ faults' = faults + 1
    BY <1>1, CountersTyped DEF Base, Named
  <2> QED
    BY <1>1, <1>4, <2>1
<1>6. Base'
  BY <1>1, <1>2, <1>3, <1>5, RestBase DEF Rest
<1> QED
  BY <1>1, <1>3, <1>4, <1>6

\* The request that is answered, and what it makes of the object.
Returns(step) ==
  /\ Handling(step)
  /\ Proceed(object')
  /\ UNCHANGED <<kind, job, config, orphans, faults, edits>>
  /\ step = "lookup" => object' = object
  /\ step = "get" => object' = object /\ object # None
  /\ step = "await" => object' = object /\ op = "SUCCEEDED"
  /\ step = "call" => Accepts(pc) /\ object' = Effect(pc, plan)

LEMMA AnswersKnown ==
  ASSUME Base, LookUp \/ Get \/ Await \/ Call
  PROVE  \E step \in {"lookup", "get", "await", "call"} : Returns(step)
<1>1. CASE LookUp
  <2>1. Proceed(object')
    BY <1>1 DEF LookUp, Proceed, Saved
  <2> QED
    BY <1>1, <2>1 DEF LookUp, Returns
<1>2. CASE Get
  <2>1. Proceed(object')
    BY <1>2 DEF Get, Proceed, Saved
  <2> QED
    BY <1>2, <2>1 DEF Get, Returns
<1>3. CASE Await
  <2>1. Proceed(object')
    BY <1>3 DEF Await, Proceed, Saved
  <2>2. Handling("await")
    BY <1>3, WaitsKnown DEF Await, Base, Lists, Handling
  <2> QED
    BY <1>3, <2>1, <2>2 DEF Await, Returns
<1>4. CASE Call
  BY <1>4 DEF Call, Returns
<1> QED
  BY <1>1, <1>2, <1>3, <1>4

\* A handler goes on while there is something left, and saves with the last.
LEMMA ProceedsKnown ==
  ASSUME NEW o, Proceed(o)
  PROVE  /\ Len(todo) > 1 => /\ Len(todo) # 1 /\ UNCHANGED <<pc, plan, tf, disturbed>>
                             /\ todo' = Tail(todo) /\ op' = "NONE"
         /\ ~(Len(todo) > 1) =>
              /\ tf' = Saved(o) /\ Rest
              /\ disturbed' = (disturbed /\ pc = "update" /\ ~UpdateOf(kind, plan, tf).learns)
<1>1. Len(todo) = 1 => ~(Len(todo) > 1)
  OBVIOUS
<1>2. CASE Len(todo) > 1
  <2>1. Len(todo) # 1
    BY <1>1, <1>2, Zenon
  <2>2. todo' = Tail(todo) /\ op' = "NONE"
    BY <2>1, Zenon DEF Proceed
  <2>3. UNCHANGED <<pc, plan, tf, disturbed>>
    BY <2>1 DEF Proceed
  <2> QED
    BY <1>2, <2>1, <2>2, <2>3, Zenon
<1>3. CASE ~(Len(todo) > 1)
  BY <1>3 DEF Proceed
<1> QED
  BY <1>2, <1>3

\* A request that is answered: the handler goes on, or saves its record.
LEMMA RequestsBase ==
  ASSUME Base, LookUp \/ Get \/ Await \/ Call
  PROVE  /\ Base' /\ UNCHANGED <<kind, orphans>>
         /\ \/ UNCHANGED <<object, tf>>
            \/ pc = "create" /\ tf = None /\ tf' # None /\ object' # None
            \/ pc = "update" /\ tf # None /\ tf' # None /\ object # None /\ object' # None
            \/ pc = "delete" /\ tf # None /\ tf' = None /\ object' = None
<1>1. PICK step \in {"lookup", "get", "await", "call"} : Returns(step)
  BY AnswersKnown
<1> USE <1>1 DEF Returns
<1>2. /\ pc \in {"create", "update", "delete"}
      /\ step = "lookup" => Len(todo) > 1
      /\ step = "get" => pc # "create" /\ (pc = "delete" => Len(todo) > 1)
      /\ step = "call" => Len(todo) = 1
  BY <1>1, HandlingKnown
<1>3. pc = "create" <=> tf = None
  BY <1>2 DEF Base, TypeOK
<1>4. CASE Len(todo) > 1
  <2>1. /\ Len(todo) # 1 /\ UNCHANGED <<pc, plan, tf, disturbed>>
        /\ todo' = Tail(todo) /\ op' = "NONE"
    BY <1>1, <1>4, ProceedsKnown
  <2>2. step \in {"lookup", "get", "await"}
    BY <1>2, <2>1, Zenon
  <2>3. Base'
    BY <1>1, <1>4, <2>1, <2>2, AdvanceBase
  <2> QED
    BY <1>1, <2>1, <2>2, <2>3
<1>5. CASE ~(Len(todo) > 1)
  <2>1. tf' = Saved(object') /\ Rest /\ disturbed' \in BOOLEAN
    BY <1>1, <1>5, ProceedsKnown DEF Base, TypeOK
  <2>2. /\ object' \in [Attrs -> Data] \cup {None} /\ (object' # None => Fits(object'))
        /\ pc = "delete" <=> object' = None
        /\ pc # "update" => job = None
        /\ pc = "update" => object # None
    <3>1. CASE step = "call"
      BY <1>1, <1>2, <3>1, EffectTyped
    <3>2. CASE step = "get"
      BY <1>1, <1>2, <1>5, <3>2 DEF Base, TypeOK, Shapes
    <3>3. CASE step = "await"
      <4>1. /\ object' = object /\ job = None
            /\ pc = "create" => object = Made(plan)
            /\ pc = "update" => object # None
            /\ pc = "delete" => object = None
        BY <1>1, <3>3 DEF Base, Jobs
      <4>2. pc = "create" => Made(plan) # None
        BY MadeTyped DEF Base, TypeOK, Shapes
      <4> QED
        BY <1>2, <4>1, <4>2 DEF Base, TypeOK, Shapes
    <3> QED
      BY <1>2, <1>5, <3>1, <3>2, <3>3
  <2>3. Base' /\ (tf' = None <=> pc = "delete")
    BY <1>1, <1>2, <2>1, <2>2, SaveBase
  <2> QED
    BY <1>1, <1>2, <1>3, <2>2, <2>3
<1> QED
  BY <1>4, <1>5

\* An update that asks for nothing.
LEMMA SaveAloneBase ==
  ASSUME Base, SaveAlone
  PROVE  Base' /\ UNCHANGED <<kind, object, orphans>> /\ tf # None /\ tf' # None
<1>1. /\ UNCHANGED <<kind, object, job, config, disturbed, orphans, faults, edits>> /\ Rest
      /\ pc = "update" /\ tf' = RecordedAlone
  BY DEF SaveAlone
<1>2. /\ kind \in Kinds /\ config \in Configs[kind] \cup {None} /\ edits \in 0..MaxEdits
      /\ tf \in [Attrs -> Data] /\ tf # None /\ Fits(tf)
      /\ plan \in Plans(Attrs) /\ Plannable(plan)
      /\ object \in [Attrs -> Data] \cup {None} /\ (object # None => Fits(object))
      /\ job \in Operations(Attrs) \cup {None} /\ (job # None => job.verb # "create")
      /\ disturbed \in BOOLEAN /\ orphans \in Nat /\ orphans <= faults
  BY <1>1 DEF Base, TypeOK, Shapes, Jobs, Named
<1>3. \A a \in Attrs : RecordedAlone[a] \in Data
  BY <1>2 DEF RecordedAlone, Plannable, Plans, Computed
<1>4. tf' \in [Attrs -> Data] /\ tf' # None
  BY <1>1, <1>2, <1>3, NotNull DEF RecordedAlone
<1>5. Fits(tf')
  BY <1>1, <1>2 DEF RecordedAlone, Fits, Plannable, NeverNull
<1>6. Base'
  BY <1>1, <1>2, <1>4, <1>5, RestBase DEF Rest
<1> QED
  BY <1>1, <1>2, <1>4, <1>6

\* An operation is started, to be waited for.
LEMMA StartBase ==
  ASSUME Base, Start
  PROVE  Base'
<1>1. /\ UNCHANGED <<kind, object, config, tf, pc, plan, disturbed, orphans, faults, edits>>
      /\ todo' = Tail(todo) /\ op' = "IN_PROGRESS" /\ Accepts(pc) /\ Handling("start")
      /\ job' = [verb |-> pc, want |-> IF pc = "delete" THEN object ELSE plan]
  BY DEF Start
<1>2. /\ pc \in {"create", "update", "delete"} /\ op = "NONE" /\ todo' \in Waits
      /\ pc = "create" => todo' \in Creating
      /\ pc = "update" => todo' \in Updating /\ todo' # <<>>
      /\ pc = "delete" => todo' \in Deleting
  BY <1>1, HandlingKnown
<1>3. /\ job' \in Operations(Attrs) /\ job' # None /\ job'.verb = pc
      /\ pc # "delete" => job'.want = plan
  BY <1>1, <1>2, OperationTyped
<1>4. Attrs' = Attrs /\ rule' = rule
  BY <1>1 DEF Attrs, rule
<1>5. todo' \in Seq(Steps) /\ todo' # <<>> /\ Head(todo') = "await"
  BY <1>2, WaitsKnown
<1>6. TypeOK' /\ Lists'
  BY <1>1, <1>2, <1>3, <1>4, <1>5 DEF Base, TypeOK, Lists
<1>7. pc = "create" => object = None
  BY <1>1 DEF Accepts
<1>8. pc = "update" => object # None
  BY <1>1 DEF Accepts
<1>9. Jobs' /\ Named'
  BY <1>1, <1>2, <1>3, <1>7, <1>8 DEF Base, TypeOK, Jobs, Named
<1>10. Shapes'
  BY <1>1, <1>4 DEF Base, Shapes, Fits, NeverNull, Plannable, Effective
<1> QED
  BY <1>6, <1>9, <1>10 DEF Base

\* The API finishes an operation.  One that is not polled was left behind by a
\* handler that creates nothing.
LEMMA APIBase ==
  ASSUME Base, API
  PROVE  /\ Base' /\ UNCHANGED <<kind, tf, orphans>> /\ (tf = None => pc = "create")
         /\ \/ object' = object
            \/ pc = "create" /\ object = None
            \/ object # None /\ (object' = None => tf # None)
<1>1. /\ UNCHANGED <<kind, config, tf, pc, plan, todo, orphans, edits>>
      /\ job # None /\ job' = None
      /\ UNCHANGED faults \/ Fault
  BY DEF API, OperationSucceeds, OperationFails
<1>2. /\ op' \in {"NONE", "IN_PROGRESS", "SUCCEEDED", "FAILED"}
      /\ op' # "IN_PROGRESS" /\ (op' # "NONE" <=> op # "NONE")
      /\ op = "NONE" => op' = "NONE"
      /\ op # "NONE" => op = "IN_PROGRESS" /\ job.verb = pc /\ (pc # "delete" => job.want = plan)
  BY <1>1 DEF Base, TypeOK, Jobs, API, OperationSucceeds, OperationFails, Polled
<1>3. /\ kind \in Kinds /\ job \in Operations(Attrs)
      /\ object \in [Attrs -> Data] \cup {None} /\ (object # None => Fits(object))
      /\ (job.verb = "create" => pc = "create") /\ (tf = None => pc = "create")
      /\ pc = "create" => op # "NONE" /\ object = None
  BY <1>1, <1>2 DEF Base, TypeOK, Jobs, Named, Shapes
<1>4. /\ object' \in [Attrs -> Data] \cup {None} /\ (object' # None => Fits(object'))
      /\ object = None => (object' # None => pc = "create")
      /\ pc = "create" => object' = IF op' = "SUCCEEDED" THEN Made(plan) ELSE None
      /\ (pc = "update" /\ op # "NONE") => object' # None
      /\ (pc = "delete" /\ op' = "SUCCEEDED") => object' = None
  <2>1. CASE OperationFails
    <3>1. object' = object /\ (op' = "SUCCEEDED" => op = "SUCCEEDED")
      BY <2>1 DEF OperationFails, Polled
    <3> QED
      BY <1>2, <1>3, <3>1 DEF Base, Jobs
  <2>2. CASE OperationSucceeds
    <3>1. /\ object' = IF job.verb = "create" \/ object # None
                       THEN Effect(job.verb, job.want) ELSE None
          /\ op # "NONE" => op' = "SUCCEEDED"
      BY <1>2, <2>2 DEF OperationSucceeds, Polled
    <3>2. job.verb \in {"create", "update", "delete"} /\ job.want \in Plans(Attrs)
      BY <1>3 DEF Operations
    <3>3. CASE job.verb = "create"
      <4>1. pc = "create" /\ job.want = plan /\ op' = "SUCCEEDED" /\ object' = Made(plan)
        BY <1>2, <1>3, <3>1, <3>3 DEF Effect
      <4>2. Made(plan) \in [Attrs -> Data] /\ Made(plan) # None /\ Fits(Made(plan))
        BY <1>3, <4>1, MadeTyped DEF Base, TypeOK, Shapes
      <4> QED
        BY <1>3, <4>1, <4>2
    <3>4. CASE job.verb = "update"
      <4>1. pc # "create" /\ object' = IF object # None THEN Altered(job.want) ELSE None
        BY <1>2, <1>3, <3>1, <3>4 DEF Effect
      <4>2. object # None => /\ Altered(job.want) \in [Attrs -> Data]
                             /\ Altered(job.want) # None /\ Fits(Altered(job.want))
        BY <1>3, <3>2, AlteredTyped
      <4>3. (pc = "delete" /\ op' = "SUCCEEDED") => FALSE
        BY <1>2, <3>4
      <4>4. (pc = "update" /\ op # "NONE") => object # None
        BY DEF Base, Jobs
      <4> QED
        BY <4>1, <4>2, <4>3, <4>4
    <3>5. CASE job.verb = "delete"
      <4>1. pc # "create" /\ object' = None
        BY <1>2, <1>3, <3>1, <3>5 DEF Effect
      <4>2. (pc = "update" /\ op # "NONE") => FALSE
        BY <1>2, <3>5
      <4> QED
        BY <4>1, <4>2
    <3> QED
      BY <3>2, <3>3, <3>4, <3>5
  <2> QED
    BY <2>1, <2>2 DEF API
<1>5. Attrs' = Attrs /\ rule' = rule
  BY <1>1 DEF Attrs, rule
<1>6. disturbed' \in BOOLEAN
  BY DEF API, OperationSucceeds, OperationFails, Base, TypeOK
<1>7. faults' \in 0..MaxFaults /\ orphans <= faults'
  <2>1. orphans <= faults /\ orphans \in Nat /\ faults \in Nat
    BY CountersTyped DEF Base, Named
  <2> QED
    BY <1>1, <2>1, CountersTyped DEF Base, TypeOK
<1>8. TypeOK'
  BY <1>1, <1>2, <1>3, <1>4, <1>5, <1>6, <1>7 DEF Base, TypeOK
<1>9. Lists'
  BY <1>1, <1>2, <1>5 DEF Base, Lists
<1>10. Made(plan)' = Made(plan)
  BY <1>1, <1>5 DEF Made, Chosen
<1>11. Jobs' /\ Named'
  <2>1. Jobs'
    BY <1>1, <1>2, <1>3, <1>4, <1>10 DEF Jobs
  <2>2. Named'
    BY <1>1, <1>3, <1>7 DEF Base, Named
  <2> QED
    BY <2>1, <2>2
<1>12. Shapes'
  BY <1>1, <1>4, <1>5 DEF Base, Shapes, Fits, NeverNull, Plannable, Effective
<1> QED
  BY <1>1, <1>3, <1>4, <1>8, <1>9, <1>11, <1>12 DEF Base

\* The practitioner and the console.
LEMMA WorldBase ==
  ASSUME Base, ChangeConfig \/ ImportState \/ Console
  PROVE  /\ Base' /\ UNCHANGED <<kind, orphans>>
         /\ \/ UNCHANGED <<object, tf>>
            \/ tf = None /\ object = None /\ tf' # None /\ object' # None
            \/ tf # None /\ object # None /\ UNCHANGED tf
<1>1. /\ UNCHANGED <<kind, job, handler, orphans, faults>> /\ Edit
      /\ kind \in Kinds /\ plan \in Plans(Attrs) \cup {None}
      /\ tf \in [Attrs -> Data] \cup {None} /\ (tf # None => Fits(tf))
      /\ object \in [Attrs -> Data] \cup {None} /\ (object # None => Fits(object))
      /\ job \in Operations(Attrs) \cup {None}
      /\ disturbed \in BOOLEAN /\ orphans \in Nat /\ orphans <= faults
      /\ config \in Configs[kind] \cup {None}
  BY DEF ChangeConfig, ImportState, Console, Base, TypeOK, Named, Shapes
<1>2. Attrs' = Attrs /\ rule' = rule
  BY <1>1 DEF Attrs, rule
<1>3. edits' \in 0..MaxEdits
  BY <1>1, CountersTyped DEF Base
<1>4. pc = "idle" => /\ todo = <<>> /\ op = "NONE"
                     /\ job # None => job.verb # "create"
                     /\ tf = None => object = None /\ job = None
  BY DEF Base, Lists, Jobs, Named, TypeOK
<1>5. CASE ChangeConfig
  <2>1. pc = "idle" /\ UNCHANGED <<object, tf, disturbed>>
    BY <1>5 DEF ChangeConfig
  <2>2. config' \in Configs[kind] \cup {None}
    <3>1. CASE config # None /\ config' = None
      BY <3>1
    <3>2. CASE config' \in Configs[kind]
      BY <3>2
    <3>3. CASE config # None /\ \E a \in Attrs : \E x \in Configurable(kind, a) \ {config[a]} :
                 config' = [config EXCEPT ![a] = x]
      <4> PICK a \in Attrs : \E x \in Configurable(kind, a) : config' = [config EXCEPT ![a] = x]
        BY <3>3
      <4>1. PICK x \in Configurable(kind, a) : config' = [config EXCEPT ![a] = x]
        OBVIOUS
      <4>2. /\ config \in [DOMAIN Catalogue[kind].schema -> Data]
            /\ \A b \in DOMAIN config : config[b] \in Configurable(kind, b)
        BY <1>1, <3>3 DEF Configs
      <4>3. x \in Data
        BY DataKnown DEF Configurable
      <4>4. /\ config' \in [DOMAIN Catalogue[kind].schema -> Data]
            /\ \A b \in DOMAIN config' : config'[b] \in Configurable(kind, b)
        BY <4>1, <4>2, <4>3 DEF Attrs, rule
      <4> QED
        BY <1>1, <4>4 DEF Configs
    <3> QED
      BY <1>5, <3>1, <3>2, <3>3 DEF ChangeConfig
  <2> QED
    BY <1>1, <1>3, <1>4, <1>5, <2>1, <2>2, RestBase DEF handler
<1>6. CASE ImportState
  <2> DEFINE nothing == [a \in Attrs |-> None]
  <2>1. /\ pc = "idle" /\ tf = None /\ config \in Configs[kind] /\ config' = config
        /\ object' = Made(config) /\ disturbed' \in BOOLEAN
        /\ tf' = IF Read.learns THEN Recorded(nothing, object') ELSE nothing
    BY <1>1, <1>6, RulesKnown DEF ImportState
  <2>2. config \in Plans(Attrs) /\ Plannable(config)
    BY <1>1, <2>1, ConfigKnown, DataKnown, NotNull DEF Plannable
  <2>3. object' \in [Attrs -> Data] /\ object' # None /\ Fits(object')
    BY <1>1, <2>1, <2>2, MadeTyped
  <2>4. nothing \in [Attrs -> Data] /\ Plannable(nothing)
    BY DataKnown DEF Plannable
  <2>5. tf' \in [Attrs -> Data] /\ tf' # None /\ Fits(tf')
    <3>1. CASE Read.learns
      <4>1. Recorded(nothing, object') \in [Attrs -> Data] /\ Recorded(nothing, object') # None
              /\ Fits(Recorded(nothing, object'))
        BY <1>1, <2>3, <2>4, NotNull, RecordedTyped
      <4> QED
        BY <2>1, <3>1, <4>1
    <3>2. CASE ~Read.learns
      <4>1. Fits(nothing)
        BY <1>1, <3>2, RulesKnown DEF Fits
      <4> QED
        BY <1>1, <2>1, <2>4, <3>2, <4>1, NotNull
    <3> QED
      BY <3>1, <3>2
  <2> HIDE DEF nothing
  <2> QED
    BY <1>1, <1>3, <1>4, <1>6, <2>1, <2>3, <2>5, RestBase DEF handler
<1>7. CASE Console
  <2>1. /\ tf # None /\ object # None /\ job = None /\ op = "NONE"
        /\ disturbed' = TRUE /\ UNCHANGED <<config, tf>>
        /\ UNCHANGED <<pc, plan, todo, op>>
    BY <1>7 DEF Console, handler
  <2>2. object' \in [Attrs -> Data] \cup {None} /\ (object' # None => Fits(object'))
    <3>1. CASE object' = None
      BY <3>1
    <3>2. CASE object' # None
      <4>1. PICK a \in Attrs, x \in Values : /\ rule[a] \in {"update", "optional"}
                                             /\ object' = [object EXCEPT ![a] = x]
        BY <1>7, <3>2 DEF Console
      <4>2. x \in Data /\ x # None
        BY DataKnown, ObjectsAssumption
      <4>3. object' \in [Attrs -> Data]
        BY <1>1, <2>1, <4>1, <4>2
      <4>4. Fits(object')
        BY <1>1, <2>1, <4>1, <4>2 DEF Fits
      <4> QED
        BY <4>3, <4>4
    <3> QED
      BY <3>1, <3>2
  <2>3. pc # "create"
    BY <2>1 DEF Base, TypeOK
  <2>4. TypeOK' /\ Lists'
    BY <1>1, <1>2, <1>3, <2>1, <2>2 DEF Base, TypeOK, Lists
  <2>5. Jobs' /\ Named'
    BY <1>1, <2>1, <2>3 DEF Base, Jobs, Named
  <2>6. Shapes'
    BY <1>1, <1>2, <2>1, <2>2 DEF Base, Shapes, Fits, NeverNull, Plannable, Effective
  <2> QED
    BY <1>1, <1>7, <2>1, <2>4, <2>5, <2>6 DEF Base
<1> QED
  BY <1>5, <1>6, <1>7

LEMMA InitBase ==
  ASSUME Init
  PROVE  Base
<1>1. config \in Configs[kind] /\ kind \in Kinds
  BY DEF Init
<1>2. TypeOK
  <2>1. <<>> \in Seq(Steps) /\ 0 \in 0..MaxFaults /\ 0 \in 0..MaxEdits
    BY ObjectsAssumption
  <2> QED
    BY <1>1, <2>1 DEF Init, TypeOK
<1>3. Lists /\ Jobs /\ Named /\ Shapes
  BY WaitsKnown DEF Init, Lists, Jobs, Named, Shapes
<1> QED
  BY <1>2, <1>3 DEF Base

LEMMA StepBase ==
  ASSUME Base, [Next]_vars
  PROVE  Base'
<1>1. CASE UNCHANGED vars
  <2>1. UNCHANGED <<kind, object, job, config, tf, pc, plan, todo, op, disturbed, orphans,
                    faults, edits>>
    BY <1>1 DEF vars, handler
  <2>2. Attrs' = Attrs /\ rule' = rule
    BY <2>1 DEF Attrs, rule
  <2>3. TypeOK'
    BY <2>1, <2>2 DEF Base, TypeOK
  <2>4. Lists' /\ Named' /\ Shapes'
    BY <2>1, <2>2 DEF Base, Lists, Named, Shapes, Fits, NeverNull, Plannable, Effective
  <2>5. Jobs'
    BY <2>1, <2>2 DEF Base, Jobs, Made, Chosen
  <2> QED
    BY <2>3, <2>4, <2>5 DEF Base
<1>2. CASE Next
  <2>1. \/ StartRun \/ ReadOK \/ ReadGone \/ ReadFails \/ PlanNothing \/ PlanRefused
        \/ PlanCreate \/ PlanUpdate \/ PlanDelete
        \/ LookUp \/ Get \/ Await \/ Call
        \/ SaveAlone
        \/ Start
        \/ Quiet
        \/ AnswerLost \/ LosesSight
        \/ API
        \/ ChangeConfig \/ ImportState \/ Console
    BY <1>2 DEF Next, Handler, Quiet
  <2> QED
    BY <2>1, ReadsBase, BeginsBase, RequestsBase, SaveAloneBase, StartBase, QuietBase, LossesBase,
       APIBase, WorldBase
<1> QED
  BY <1>1, <1>2

-----------------------------------------------------------------------------
(* The record and the object.                                              *)

\* Nothing that the running handler does is missing from the record yet: no
\* update has been made that it will save, and nothing has been deleted.
Intact ==
  /\ pc = "update" => \/ ~UpdateOf(kind, plan, tf).learns
                      \/ op # "SUCCEEDED" /\ todo # LookAfter
  /\ pc = "delete" => op # "SUCCEEDED"

Tracked ==
  (tf # None /\ ~disturbed /\ Intact) => object # None /\ tf = Recorded(tf, object)

Inv == Base /\ Tracked

\* A step that leaves the record and the object alone, or records the object.
LEMMA TrackedKept ==
  ASSUME Tracked, UNCHANGED <<kind, object, tf>>, (tf # None /\ ~disturbed') => ~disturbed,
         (tf # None /\ ~disturbed' /\ Intact') => Intact
  PROVE  Tracked'
<1>1. Attrs' = Attrs /\ rule' = rule
  BY DEF Attrs, rule
<1>2. Recorded(tf, object)' = Recorded(tf, object)
  BY <1>1 DEF Recorded
<1> QED
  BY <1>2 DEF Tracked

LEMMA TrackedAnew ==
  ASSUME kind' = kind, NEW ref, tf' = Recorded(ref, object'), object' # None
  PROVE  Tracked'
<1>1. Attrs' = Attrs /\ rule' = rule
  BY DEF Attrs, rule
<1>2. Recorded(tf, object)' = Recorded(tf', object')
  BY <1>1 DEF Recorded
<1>3. Recorded(tf', object') = tf'
  BY RecordedTwice
<1> QED
  BY <1>2, <1>3 DEF Tracked

\* Whether an Update learns does not depend on the record.
LEMMA LearnsKnown ==
  ASSUME kind \in Kinds, NEW p, NEW s, ~UpdateOf(kind, p, s).learns
  PROVE  UpdateOf(kind, p, p).sends = {}
<1>1. CASE kind = "instance_template"
  BY <1>1 DEF UpdateOf, templateUpdate
<1>2. CASE kind # "instance_template"
  <2>1. UpdateOf(kind, p, s) = UpdateOf(kind, p, p)
    BY <1>2 DEF UpdateOf
  <2> QED
    BY <2>1, UpdatesKnown
<1> QED
  BY <1>1, <1>2

\* A read, a plan, or an edit of the configuration.
LEMMA ReadsTracked ==
  ASSUME Inv,
         \/ StartRun \/ ReadOK \/ ReadGone \/ ReadFails \/ PlanNothing \/ PlanRefused
         \/ PlanCreate \/ PlanUpdate \/ PlanDelete
         \/ ChangeConfig \/ ImportState \/ Console
  PROVE  Tracked'
<1>1. kind' = kind
  BY DEF StartRun, ReadOK, ReadGone, ReadFails, PlanNothing, PlanRefused, PlanCreate, PlanUpdate,
         PlanDelete, Begin, ChangeConfig, ImportState, Console
<1>2. ASSUME UNCHANGED <<object, tf, disturbed>>, pc \in {"idle", "refresh", "plan"}
      PROVE  Tracked'
  BY <1>1, <1>2, TrackedKept DEF Inv, Intact
<1>3. CASE StartRun \/ PlanNothing \/ PlanRefused \/ PlanCreate \/ PlanUpdate \/ PlanDelete
           \/ ChangeConfig
  BY <1>2, <1>3 DEF StartRun, PlanNothing, PlanRefused, PlanCreate, PlanUpdate, PlanDelete, Begin,
                    ChangeConfig
<1>4. CASE ReadOK
  <2>1. CASE Read.learns
    <3>1. tf' = Recorded(tf, object') /\ object' # None
      BY <1>4, <2>1 DEF ReadOK
    <3> QED
      BY <1>1, <3>1, TrackedAnew
  <2>2. CASE ~Read.learns
    <3>1. UNCHANGED <<object, tf, disturbed>> /\ pc = "refresh"
      BY <1>4, <2>2 DEF ReadOK, Inv, Base, TypeOK
    <3> QED
      BY <1>2, <3>1
  <2> QED
    BY <2>1, <2>2
<1>5. CASE ReadGone \/ ReadFails
  <2>1. CASE Drop
    BY <2>1 DEF Drop, Tracked
  <2>2. CASE ~Drop
    BY <1>2, <1>5, <2>2 DEF ReadGone, ReadFails
  <2> QED
    BY <2>1, <2>2
<1>6. CASE ImportState
  <2>1. object' # None
    <3>1. kind \in Kinds /\ config \in Configs[kind] /\ object' = Made(config)
      BY <1>6 DEF ImportState, Inv, Base, TypeOK
    <3>2. config \in Plans(Attrs) /\ Plannable(config)
      BY <3>1, ConfigKnown, DataKnown, NotNull DEF Plannable
    <3> QED
      BY <3>1, <3>2, MadeTyped
  <2>2. CASE Read.learns
    <3>1. tf' = Recorded([a \in Attrs |-> None], object')
      BY <1>6, <2>2 DEF ImportState
    <3> QED
      BY <1>1, <2>1, <3>1, TrackedAnew
  <2>3. CASE ~Read.learns
    BY <1>6, <2>3 DEF ImportState, Tracked
  <2> QED
    BY <2>2, <2>3
<1>7. CASE Console
  BY <1>7 DEF Console, Tracked
<1> QED
  BY <1>3, <1>4, <1>5, <1>6, <1>7

\* An Update that only saves what nobody but the record knows.
LEMMA SaveAloneTracked ==
  ASSUME Inv, SaveAlone
  PROVE  Tracked'
<1>1. /\ UNCHANGED <<kind, object, disturbed>> /\ pc = "update" /\ todo = <<>>
      /\ tf' = RecordedAlone
  BY DEF SaveAlone
<1>2. Attrs' = Attrs /\ rule' = rule
  BY <1>1 DEF Attrs, rule
<1>3. Recorded(tf, object)' = Recorded(tf', object)
  BY <1>1, <1>2 DEF Recorded
<1>4. /\ kind \in Kinds /\ tf # None /\ Fits(tf) /\ Plannable(plan)
      /\ UpdateOf(kind, plan, tf).steps = <<>>
      /\ \A a \in Attrs : rule[a] = "alias" => Effective(plan[a]) = Effective(tf[a])
  BY <1>1 DEF Inv, Base, TypeOK, Lists, Shapes
<1>5. Intact
  <2>1. op # "SUCCEEDED"
    BY <1>1, WaitsKnown DEF Inv, Base, Lists
  <2>2. todo # LookAfter
    BY <1>1 DEF LookAfter
  <2> QED
    BY <1>1, <2>1, <2>2 DEF Intact
<1>6. SUFFICES ASSUME ~disturbed, object # None, tf = Recorded(tf, object), NEW a \in Attrs
               PROVE  Recorded(tf', object)[a] = tf'[a]
  <2>1. tf' = [a \in Attrs |-> tf'[a]]
    BY <1>1 DEF RecordedAlone
  <2>2. Recorded(tf', object) = [a \in Attrs |-> Recorded(tf', object)[a]]
    BY DEF Recorded
  <2> QED
    BY <1>1, <1>3, <1>4, <1>5, <2>1, <2>2 DEF Inv, Tracked
<1>7. tf'[a] = IF rule[a] \in {"optional", "alias"} THEN plan[a] ELSE tf[a]
  BY <1>1 DEF RecordedAlone
<1>8. /\ tf[a] = IF \/ rule[a] = "hidden"
                    \/ rule[a] \in {"alias", "remembered"} /\ Given(tf[a])
                    \/ a = "extra_args" /\ tf[a] = None
                 THEN tf[a] ELSE Answered(object[a])
      /\ Recorded(tf', object)[a] =
           IF \/ rule[a] = "hidden"
              \/ rule[a] \in {"alias", "remembered"} /\ Given(tf'[a])
              \/ a = "extra_args" /\ tf'[a] = None
           THEN tf'[a] ELSE Answered(object[a])
  BY <1>6 DEF Recorded
<1>9. CASE rule[a] = "optional"
  <2>1. a = "extra_args" /\ plan[a] = None
    BY <1>4, <1>9, UpdatesKnown
  <2> QED
    BY <1>7, <1>8, <1>9, <2>1
<1>10. CASE rule[a] = "alias"
  <2>1. /\ plan[a] \in Partitions \cup {None} /\ tf[a] \in Partitions \cup {None}
        /\ Effective(plan[a]) = Effective(tf[a])
    BY <1>4, <1>10 DEF Plannable, Fits
  <2>2. CASE plan[a] \in Partitions
    BY <1>7, <1>8, <1>10, <2>2, DataKnown
  <2>3. CASE plan[a] = None
    <3>1. tf[a] = None
      BY <2>1, <2>3, DataKnown DEF Effective
    <3>2. ~Given(tf[a]) /\ ~Given(tf'[a])
      BY <1>7, <1>10, <2>3, <3>1 DEF Given
    <3> QED
      BY <1>7, <1>8, <1>10, <2>3, <3>1, <3>2
  <2> QED
    BY <2>1, <2>2, <2>3
<1>11. CASE rule[a] \notin {"optional", "alias"}
  BY <1>7, <1>8, <1>11
<1> QED
  BY <1>9, <1>10, <1>11

\* A handler that ends with an error: where it is not known what came of the
\* request, the object counts as disturbed.
LEMMA EndsTracked ==
  ASSUME Inv, Quiet \/ AnswerLost \/ LosesSight
  PROVE  Tracked'
<1>1. CASE Quiet
  <2>1. UNCHANGED <<kind, object, tf>> /\ pc \in {"create", "update", "delete"}
    BY <1>1, QuietBase DEF Inv
  <2>2. (tf # None /\ ~disturbed') => ~disturbed
    BY <1>1 DEF Quiet, Refuse, LookUpFails, GetFails, RequestFails, AwaitFails
  <2>3. ASSUME ~disturbed'
        PROVE  Intact
    <3>1. CASE GetFails
      <4>1. pc # "update" /\ op = "NONE"
        BY <2>3, <3>1, HandlingKnown DEF GetFails, Inv
      <4> QED
        BY <4>1 DEF Intact
    <3>2. CASE ~GetFails
      <4>1. (\E step \in {"refuse", "lookup", "call", "start"} : Handling(step)) \/ op = "FAILED"
        BY <1>1, <3>2 DEF Quiet, Refuse, LookUpFails, RequestFails, AwaitFails
      <4>2. op \in {"NONE", "FAILED"}
        BY <4>1, HandlingKnown DEF Inv
      <4>3. todo # LookAfter
        <5>1. LookAfter # <<>> /\ Head(LookAfter) = "get"
          BY DEF LookAfter
        <5>2. op = "FAILED" => Head(todo) = "await"
          BY WaitsKnown DEF Inv, Base, Lists
        <5> QED
          BY <4>1, <5>1, <5>2 DEF Handling
      <4> QED
        BY <4>2, <4>3 DEF Intact
    <3> QED
      BY <3>1, <3>2
  <2> QED
    BY <2>1, <2>2, <2>3, TrackedKept DEF Inv
<1>2. CASE AnswerLost
  BY <1>2 DEF AnswerLost, Tracked
<1>3. CASE LosesSight
  <2>1. pc = "create" => tf' = None
    BY <1>3 DEF LosesSight, Abandon, Fail, Inv, Base, TypeOK
  <2>2. pc # "create" => disturbed'
    BY <1>3 DEF LosesSight, Abandon
  <2> QED
    BY <2>1, <2>2 DEF Tracked
<1> QED
  BY <1>1, <1>2, <1>3

\* A request that is answered, and the last one of a handler: what is saved is
\* what the object has become.
LEMMA SavesTracked ==
  ASSUME Inv, pc \in {"create", "update", "delete"}, kind' = kind,
         tf' = Saved(object'),
         disturbed' = (disturbed /\ pc = "update" /\ ~UpdateOf(kind, plan, tf).learns),
         pc # "delete" => object' # None,
         object' = object \/ object' = Effect(pc, plan)
  PROVE  Tracked'
<1>1. CASE pc = "delete"
  BY <1>1 DEF Saved, Tracked
<1>2. CASE pc = "create" \/ (pc = "update" /\ UpdateOf(kind, plan, tf).learns)
  <2>1. tf' = Recorded(plan, object') /\ object' # None
    BY <1>2 DEF Saved
  <2> QED
    BY <2>1, TrackedAnew
<1>3. CASE pc = "update" /\ ~UpdateOf(kind, plan, tf).learns
  <2>1. tf' = tf /\ disturbed' = disturbed /\ Intact
    BY <1>3 DEF Saved, Intact, Inv, Base, TypeOK
  <2>2. object # None => Effect(pc, plan) = object
    <3>1. /\ kind \in Kinds /\ plan \in Plans(Attrs)
          /\ object # None => object \in [Attrs -> Data] /\ Fits(object)
      BY <1>3 DEF Inv, Base, TypeOK, Shapes
    <3>2. UpdateOf(kind, plan, plan).sends = {}
      BY <1>3, <3>1, LearnsKnown
    <3> QED
      BY <1>3, <3>1, <3>2, AlteredTyped DEF Effect
  <2>3. CASE object = None
    BY <2>1, <2>3 DEF Inv, Tracked
  <2>4. CASE object # None
    <3>1. object' = object
      BY <2>2, <2>4
    <3> QED
      BY <2>1, <3>1, TrackedKept DEF Inv
  <2> QED
    BY <2>3, <2>4
<1> QED
  BY <1>1, <1>2, <1>3

\* A request that is answered.
LEMMA RequestsTracked ==
  ASSUME Inv, LookUp \/ Get \/ Await \/ Call
  PROVE  Tracked'
<1>1. PICK step \in {"lookup", "get", "await", "call"} : Returns(step)
  BY AnswersKnown DEF Inv
<1>2. Handling(step) /\ Proceed(object') /\ kind' = kind
  BY <1>1 DEF Returns
<1>3. /\ pc \in {"create", "update", "delete"}
      /\ op # "NONE" <=> step = "await"
      /\ step = "lookup" => Len(todo) > 1
      /\ step = "get" => pc # "create"
      /\ step = "call" => Len(todo) = 1
      /\ (step = "await" /\ Len(todo) > 1) => pc = "update" /\ Tail(todo) = LookAfter
      /\ (pc = "update" /\ step # "await" /\ Len(todo) > 1) => Tail(todo) # LookAfter
  BY <1>2, HandlingKnown DEF Inv
<1>4. CASE Len(todo) > 1
  <2>1. /\ Len(todo) # 1 /\ UNCHANGED <<pc, plan, tf, disturbed>>
        /\ todo' = Tail(todo) /\ op' = "NONE"
    BY <1>2, <1>4, ProceedsKnown
  <2>2. step # "call"
    BY <1>3, <2>1, Zenon
  <2>3. object' = object
    BY <1>1, <2>2 DEF Returns
  <2>4. ASSUME Intact'
        PROVE  Intact
    <3>1. CASE step = "await"
      <4>1. pc = "update" /\ todo' = LookAfter
        BY <1>3, <1>4, <2>1, <3>1
      <4>2. ~UpdateOf(kind, plan, tf).learns
        BY <1>2, <2>1, <2>4, <4>1 DEF Intact
      <4> QED
        BY <4>1, <4>2 DEF Intact
    <3>2. CASE step # "await"
      <4>1. op = "NONE"
        BY <1>3, <3>2
      <4>2. todo # LookAfter
        BY <2>1 DEF LookAfter
      <4> QED
        BY <4>1, <4>2 DEF Intact
    <3> QED
      BY <3>1, <3>2
  <2> QED
    BY <1>2, <2>1, <2>3, <2>4, TrackedKept DEF Inv
<1>5. CASE ~(Len(todo) > 1)
  <2>1. /\ tf' = Saved(object')
        /\ disturbed' = (disturbed /\ pc = "update" /\ ~UpdateOf(kind, plan, tf).learns)
    BY <1>2, <1>5, ProceedsKnown
  <2>2. object' = object \/ object' = Effect(pc, plan)
    BY <1>1 DEF Returns
  <2>3. pc # "delete" => object' # None
    <3>1. CASE step = "call"
      BY <1>1, <1>3, <3>1, EffectTyped DEF Returns, Inv
    <3>2. CASE step = "await"
      <4>1. object' = object /\ op = "SUCCEEDED"
        BY <1>1, <3>2 DEF Returns
      <4>2. pc = "create" => object = Made(plan)
        BY <4>1 DEF Inv, Base, Jobs
      <4>3. pc = "create" => Made(plan) # None
        BY MadeTyped DEF Inv, Base, TypeOK, Shapes
      <4> QED
        BY <1>3, <4>1, <4>2, <4>3 DEF Inv, Base, Jobs
    <3>3. CASE step = "get"
      BY <1>1, <3>3 DEF Returns
    <3> QED
      BY <1>3, <1>5, <3>1, <3>2, <3>3
  <2> QED
    BY <1>2, <1>3, <2>1, <2>2, <2>3, SavesTracked
<1> QED
  BY <1>4, <1>5

\* An operation that is started or ends.  One whose handler is gone disturbs
\* the object; one that is awaited is saved by its handler, unless there is
\* nothing in it to be saved.
LEMMA OperationsTracked ==
  ASSUME Inv, Start \/ API
  PROVE  Tracked'
<1>1. CASE Start
  <2>1. UNCHANGED <<kind, object, tf, disturbed>> /\ Handling("start")
    BY <1>1 DEF Start
  <2>2. op = "NONE" /\ todo # LookAfter
    <3>1. op = "NONE"
      BY <2>1, HandlingKnown DEF Inv
    <3>2. LookAfter # <<>> /\ Head(LookAfter) = "get"
      BY DEF LookAfter
    <3> QED
      BY <2>1, <3>1, <3>2 DEF Handling
  <2> QED
    BY <2>1, <2>2, TrackedKept DEF Inv, Intact
<1>2. CASE OperationFails
  <2>1. /\ UNCHANGED <<kind, object, tf, disturbed, pc, plan, todo>>
        /\ op = "SUCCEEDED" => op' = "SUCCEEDED"
    BY <1>2 DEF OperationFails, Polled
  <2>2. Intact' => Intact
    BY <2>1 DEF Intact
  <2> QED
    BY <2>1, <2>2, TrackedKept DEF Inv
<1>3. CASE OperationSucceeds
  <2>1. /\ UNCHANGED <<kind, tf, pc, plan, todo>> /\ job # None
        /\ object' = IF job.verb = "create" \/ object # None
                     THEN Effect(job.verb, job.want) ELSE None
        /\ disturbed' = (disturbed \/ ~Polled) /\ op' = IF Polled THEN "SUCCEEDED" ELSE op
    BY <1>3 DEF OperationSucceeds
  <2>2. SUFFICES ASSUME tf # None, ~disturbed', Intact'
                 PROVE  Tracked'
    BY <2>1 DEF Tracked
  <2>3. op = "IN_PROGRESS" /\ op' = "SUCCEEDED" /\ ~disturbed
    BY <2>1, <2>2 DEF Polled
  <2>4. /\ job.verb = pc /\ (pc # "delete" => job.want = plan)
        /\ pc \in {"create", "update", "delete"} /\ pc # "create"
        /\ pc = "update" => object # None
    BY <2>2, <2>3, WaitsKnown DEF Inv, Base, TypeOK, Lists, Jobs
  <2>5. pc = "update" /\ ~UpdateOf(kind, plan, tf).learns
    BY <2>1, <2>2, <2>3, <2>4 DEF Intact
  <2>6. object' = Altered(plan)
    BY <2>1, <2>4, <2>5 DEF Effect
  <2>7. Altered(plan) = object
    <3>1. /\ kind \in Kinds /\ plan \in Plans(Attrs)
          /\ object \in [Attrs -> Data] /\ Fits(object)
      BY <2>4, <2>5 DEF Inv, Base, TypeOK, Shapes
    <3>2. UpdateOf(kind, plan, plan).sends = {}
      BY <2>5, <3>1, LearnsKnown
    <3> QED
      BY <3>1, <3>2, AlteredTyped
  <2>8. Intact
    BY <2>5 DEF Intact
  <2> QED
    BY <2>1, <2>3, <2>6, <2>7, <2>8, TrackedKept DEF Inv
<1> QED
  BY <1>1, <1>2, <1>3 DEF API

\* The invariant holds.
LEMMA Invariance == Spec => []Inv
<1>1. Init => Inv
  BY InitBase DEF Inv, Init, Tracked
<1>2. ASSUME Inv, [Next]_vars
      PROVE  Inv'
  <2>1. Base'
    BY <1>2, StepBase DEF Inv
  <2>2. CASE UNCHANGED vars
    <3>1. UNCHANGED <<kind, object, tf, disturbed, pc, plan, todo, op>>
      BY <2>2 DEF vars, handler
    <3>2. Intact' => Intact
      BY <3>1 DEF Intact
    <3>3. Tracked'
      BY <1>2, <3>1, <3>2, TrackedKept DEF Inv
    <3> QED
      BY <2>1, <3>3 DEF Inv
  <2>3. CASE Next
    <3>1. \/ StartRun \/ ReadOK \/ ReadGone \/ ReadFails \/ PlanNothing \/ PlanRefused
          \/ PlanCreate \/ PlanUpdate \/ PlanDelete
          \/ ChangeConfig \/ ImportState \/ Console
          \/ SaveAlone
          \/ Quiet \/ AnswerLost \/ LosesSight
          \/ LookUp \/ Get \/ Await \/ Call
          \/ Start \/ API
      BY <2>3 DEF Next, Handler, Quiet
    <3>2. Tracked'
      BY <1>2, <3>1, ReadsTracked, SaveAloneTracked, EndsTracked, RequestsTracked, OperationsTracked
    <3> QED
      BY <2>1, <3>2 DEF Inv
  <2> QED
    BY <1>2, <2>2, <2>3
<1> QED
  BY <1>1, <1>2, PTL DEF Spec

-----------------------------------------------------------------------------
(* The theorems.                                                           *)

\* Of every kind, objects, records, plans and requests keep their types: a
\* handler that polls has an operation to wait for next, and no object is
\* abandoned but by a fault.
THEOREM TypeCorrect == Spec => []TypeOK
<1>1. Inv => TypeOK
  BY DEF Inv, Base
<1> QED
  BY <1>1, Invariance, PTL

\* Between runs the record of an object nobody else changed is true, whatever
\* was refused, failed or saved without asking since the last refresh.
THEOREM RecordIsTrue == Spec => []RecordTracksObject
<1>1. Inv => RecordTracksObject
  BY DEF Inv, Tracked, Intact, RecordTracksObject
<1> QED
  BY <1>1, Invariance, PTL

\* Of no kind is an object lost but by a fault: a refresh drops no record of an
\* object that exists, and no handler forgets what it made, unless a request
\* failed or its answer was lost.
THEOREM OrphansAccounted == Spec => []OrphansNeedFaults
<1>1. ASSUME Inv
      PROVE  OrphansNeedFaults
  <2>1. (pc = "idle" /\ tf = None) => object = None
    BY <1>1 DEF Inv, Base, Named
  <2>2. orphans \in Nat /\ orphans <= faults
    BY <1>1 DEF Inv, Base, Named, TypeOK
  <2> QED
    BY <2>1, <2>2 DEF OrphansNeedFaults
<1> QED
  BY <1>1, Invariance, PTL

\* What a replacement is planned for: what is planned is what is configured, or
\* what is recorded, or not known yet.
LEMMA ReplacesKnown ==
  ASSUME Inv, tf # None, NEW a \in Attrs, Replaces(a)
  PROVE  \/ Asked(a) /\ rule[a] \notin InPlace
         \/ <<kind, a>> \in Forgotten /\ config[a] = None /\ \E b \in Attrs : Asked(b)
<1>1. rule[a] \in Replacing \cup {"configured", "remembered", "alias", "nested"}
  BY DEF Replaces
<1>2. rule[a] \notin InPlace
  BY <1>1 DEF Replacing, InPlace
<1>3. Planned[a] = IF Forgets(a) THEN Unknown ELSE Proposed(a)
  BY DEF Planned
<1>4. CASE config[a] # None \/ rule[a] \notin Computed
  <2>1. Planned[a] = config[a]
    BY <1>3, <1>4 DEF Forgets, Proposed
  <2>2. config[a] # tf[a]
    BY <2>1 DEF Replaces
  <2> QED
    BY <1>2, <1>4, <2>2 DEF Asked
<1>5. CASE config[a] = None /\ rule[a] \in Computed
  <2>1. rule[a] \in {"carried", "kept", "recomputed"} /\ Planned[a] # tf[a]
    BY <1>5 DEF Replaces, Replacing, Computed
  <2>2. Forgets(a)
    BY <1>3, <1>5, <2>1 DEF Proposed
  <2>3. <<kind, a>> \in Forgotten
    <3>1. CASE rule[a] = "carried"
      <4>1. tf[a] = None
        BY <2>2, <3>1 DEF Forgets, Carrying
      <4>2. a = "nvlink_domain_id"
        BY <3>1, <4>1 DEF Inv, Base, Shapes, Fits, NeverNull
      <4> QED
        BY <3>1, <4>2, RulesKnown DEF Inv, Base, TypeOK
    <3>2. CASE rule[a] = "recomputed"
      BY <3>2, RulesKnown DEF Inv, Base, TypeOK
    <3>3. CASE rule[a] = "kept"
      BY <2>2, <3>3 DEF Forgets, Carrying
    <3> QED
      BY <2>1, <3>1, <3>2, <3>3
  <2>4. PICK b \in Attrs : Proposed(b) # tf[b]
    BY <2>2 DEF Forgets, Differs
  <2>5. Asked(b)
    BY <2>4 DEF Proposed, Asked
  <2> QED
    BY <1>5, <2>3, <2>5
<1> QED
  BY <1>4, <1>5

\* A Delete is only planned by a plan.
LEMMA DeletesPlanned ==
  ASSUME Inv, [Next]_vars, pc = "plan", pc' = "delete"
  PROVE  PlanDelete
<1>1. op = "NONE" /\ todo = <<>>
  BY WaitsKnown DEF Inv, Base, Lists
<1>2. pc' # pc
  OBVIOUS
<1>3. ~UNCHANGED vars /\ ~API /\ ~ChangeConfig /\ ~ImportState /\ ~Console
  BY <1>2 DEF vars, handler, API, OperationSucceeds, OperationFails, ChangeConfig, ImportState,
              Console
<1>4. ~SaveAlone /\ ~Quiet /\ ~LookUp /\ ~Get /\ ~Call /\ ~Start /\ ~AnswerLost /\ ~LosesSight
      /\ ~Await
  BY <1>1 DEF SaveAlone, Quiet, Refuse, LookUpFails, GetFails, RequestFails, AwaitFails, LookUp,
              Get, Call, Start, AnswerLost, LosesSight, Await, Handling
<1>5. ~StartRun /\ ~ReadOK /\ ~ReadGone /\ ~ReadFails /\ ~PlanNothing /\ ~PlanRefused
      /\ ~PlanCreate /\ ~PlanUpdate
  BY DEF StartRun, ReadOK, ReadGone, ReadFails, PlanNothing, PlanRefused, PlanCreate, PlanUpdate,
         Begin
<1> QED
  BY <1>3, <1>4, <1>5 DEF Next, Handler, Quiet

\* An object is replaced because the configuration asks for what it cannot have
\* in place, or because an attribute of the three in Forgotten was left out.
THEOREM ReplacementsHaveCauses == Spec => ReplacesForCause
<1>1. ASSUME Inv, [Next]_vars, pc = "plan", pc' = "delete", config # None
      PROVE  \E a \in Attrs : \/ Asked(a) /\ rule[a] \notin InPlace
                              \/ <<kind, a>> \in Forgotten /\ config[a] = None
                                   /\ \E b \in Attrs : Asked(b)
  <2>1. PlanDelete
    BY <1>1, DeletesPlanned
  <2>2. tf # None /\ \E a \in Attrs : Replaces(a)
    BY <1>1, <2>1 DEF PlanDelete
  <2> QED
    BY <1>1, <2>2, ReplacesKnown
<1>2. Inv /\ [Next]_vars =>
        [(pc = "plan" /\ pc' = "delete" /\ config # None) =>
           \E a \in Attrs : \/ Asked(a) /\ rule[a] \notin InPlace
                            \/ <<kind, a>> \in Forgotten /\ config[a] = None
                                 /\ \E b \in Attrs : Asked(b)]_vars
  BY <1>1
<1> QED
  BY <1>2, Invariance, PTL DEF Spec, ReplacesForCause

-----------------------------------------------------------------------------
(* The refinement.                                                         *)

\* What a step of a plain kind does to the object, the record and the count of
\* objects left behind is a step of a managed object, or none.
KeepsBoth ==
  (object' = None <=> object = None) /\ (tf' = None <=> tf = None) /\ orphans' = orphans
DropsRecord ==
  object = None /\ object' = None /\ tf # None /\ tf' = None /\ orphans' = orphans
MakesObject == object = None /\ tf = None /\ object' # None /\ orphans' = orphans
LearnsOfObject ==
  object # None /\ object' # None /\ tf = None /\ tf' # None /\ orphans' = orphans
UnmakesObject == object # None /\ tf # None /\ object' = None /\ orphans' = orphans
AbandonsObject == tf = None /\ tf' = None /\ object' = None /\ orphans' = orphans + 1

Managed ==
  KeepsBoth \/ DropsRecord \/ MakesObject \/ LearnsOfObject \/ UnmakesObject \/ AbandonsObject

LEMMA PromiseStep ==
  ASSUME kind' = kind, Managed
  PROVE  [Promise!Next]_(Promise!vars)
<1>1. Plain' = Plain
  BY DEF Plain
<1>2. CASE ~Plain
  BY <1>1, <1>2 DEF Promise!vars
<1>3. CASE Plain /\ KeepsBoth
  BY <1>1, <1>3 DEF Promise!vars, KeepsBoth
<1>4. CASE Plain /\ DropsRecord
  BY <1>1, <1>4 DEF Promise!Next, Promise!Forget, DropsRecord
<1>5. CASE Plain /\ MakesObject
  BY <1>1, <1>5 DEF Promise!Next, Promise!Make, MakesObject
<1>6. CASE Plain /\ LearnsOfObject
  BY <1>1, <1>6 DEF Promise!Next, Promise!Learn, LearnsOfObject
<1>7. CASE Plain /\ UnmakesObject
  BY <1>1, <1>7 DEF Promise!Next, Promise!Unmake, UnmakesObject
<1>8. CASE Plain /\ AbandonsObject
  BY <1>1, <1>8 DEF Promise!Next, Promise!Abandon, AbandonsObject
<1> QED
  BY <1>2, <1>3, <1>4, <1>5, <1>6, <1>7, <1>8 DEF Managed

\* A refresh or a plan, of a plain kind, drops the record of a missing object
\* at most.
LEMMA RunsManaged ==
  ASSUME Inv, Plain,
         \/ StartRun \/ ReadOK \/ ReadGone \/ ReadFails \/ PlanNothing \/ PlanRefused
         \/ PlanCreate \/ PlanUpdate \/ PlanDelete
  PROVE  Managed /\ kind' = kind
<1>1. kind' = kind
  BY DEF StartRun, ReadOK, ReadGone, ReadFails, PlanNothing, PlanRefused, PlanCreate, PlanUpdate,
         PlanDelete, Begin
<1>2. UNCHANGED <<object, tf, orphans>> => Managed
  BY DEF Managed, KeepsBoth
<1>3. CASE StartRun \/ PlanNothing \/ PlanRefused \/ PlanCreate \/ PlanUpdate \/ PlanDelete
  BY <1>1, <1>2, <1>3 DEF StartRun, PlanNothing, PlanRefused, PlanCreate, PlanUpdate, PlanDelete,
                          Begin
<1>4. CASE ReadOK
  <2>1. /\ UNCHANGED <<object, orphans>> /\ pc = "refresh" /\ object # None /\ pc' = "plan"
        /\ tf' = IF Read.learns THEN Recorded(tf, object) ELSE tf
    BY <1>4 DEF ReadOK
  <2>2. /\ kind \in Kinds /\ tf # None /\ tf \in [Attrs -> Data] /\ Fits(tf)
        /\ object \in [Attrs -> Data] /\ Fits(object)
    BY <2>1 DEF Inv, Base, TypeOK, Named, Shapes
  <2>3. tf \in Plans(Attrs) /\ Plannable(tf)
    BY <2>2, NotNull, DataKnown DEF Plannable, Fits
  <2>4. tf' # None
    BY <2>1, <2>2, <2>3, RecordedTyped
  <2> QED
    BY <1>1, <2>1, <2>2, <2>4 DEF Managed, KeepsBoth
<1>5. CASE ReadGone
  <2>1. object = None /\ pc = "refresh"
    BY <1>5 DEF ReadGone
  <2>2. tf # None
    BY <2>1 DEF Inv, Base, Named
  <2>3. (Drop => DropsRecord) /\ (~Drop => UNCHANGED <<object, tf, orphans>>)
    BY <1>5, <2>1, <2>2 DEF ReadGone, Drop, DropsRecord
  <2> QED
    BY <1>1, <1>2, <2>3 DEF Managed
<1>6. CASE ReadFails
  <2>1. Read.failed # "drop"
    BY RulesKnown DEF Inv, Base, TypeOK, Plain
  <2>2. UNCHANGED <<object, tf, orphans>>
    BY <1>6, <2>1 DEF ReadFails
  <2> QED
    BY <1>1, <1>2, <2>2
<1> QED
  BY <1>3, <1>4, <1>5, <1>6

\* No step of a handler, of the API or of the world does more than a managed
\* object may.
LEMMA StepManaged ==
  ASSUME Inv, Plain, [Next]_vars
  PROVE  Managed /\ kind' = kind
<1>1. UNCHANGED <<object, tf, orphans>> => Managed
  BY DEF Managed, KeepsBoth
<1>2. CASE UNCHANGED vars \/ Start
  BY <1>1, <1>2 DEF vars, Start
<1>3. CASE \/ StartRun \/ ReadOK \/ ReadGone \/ ReadFails \/ PlanNothing \/ PlanRefused
           \/ PlanCreate \/ PlanUpdate \/ PlanDelete
  BY <1>3, RunsManaged
<1>4. CASE LookUp \/ Get \/ Await \/ Call
  <2>1. /\ UNCHANGED <<kind, orphans>>
        /\ \/ UNCHANGED <<object, tf>>
           \/ pc = "create" /\ tf = None /\ tf' # None /\ object' # None
           \/ pc = "update" /\ tf # None /\ tf' # None /\ object # None /\ object' # None
           \/ pc = "delete" /\ tf # None /\ tf' = None /\ object' = None
    BY <1>4, RequestsBase DEF Inv
  <2> QED
    BY <2>1 DEF Managed, KeepsBoth, MakesObject, LearnsOfObject, UnmakesObject, DropsRecord
<1>5. CASE SaveAlone
  BY <1>5, SaveAloneBase DEF Inv, Managed, KeepsBoth
<1>6. CASE Quiet
  BY <1>1, <1>6, QuietBase DEF Inv
<1>7. CASE AnswerLost \/ LosesSight
  <2>1. /\ UNCHANGED <<kind, tf>> /\ pc \in {"create", "update", "delete"}
        /\ pc = "create" => object' = None
        /\ pc # "create" => orphans' = orphans
        /\ pc = "create" => (orphans' = orphans + 1 \/ (orphans' = orphans /\ object = None))
        /\ pc = "update" => (object' = None <=> object = None)
        /\ pc = "delete" => (object' # None => object' = object)
    BY <1>7, LossesBase DEF Inv
  <2>2. pc = "create" <=> tf = None
    BY <2>1 DEF Inv, Base, TypeOK
  <2> QED
    BY <2>1, <2>2 DEF Managed, KeepsBoth, UnmakesObject, AbandonsObject
<1>8. CASE API
  <2>1. /\ UNCHANGED <<kind, tf, orphans>>
        /\ \/ object' = object
           \/ pc = "create" /\ object = None
           \/ object # None /\ (object' = None => tf # None)
    BY <1>8, APIBase DEF Inv
  <2>2. pc = "create" => tf = None
    BY DEF Inv, Base, TypeOK
  <2> QED
    BY <2>1, <2>2 DEF Managed, KeepsBoth, MakesObject, UnmakesObject
<1>9. CASE ChangeConfig \/ ImportState \/ Console
  BY <1>9, WorldBase DEF Inv, Managed, KeepsBoth, MakesObject, UnmakesObject
<1> QED
  BY <1>2, <1>3, <1>4, <1>5, <1>6, <1>7, <1>8, <1>9 DEF Next, Handler, Quiet

\* Every kind but the two whose Read takes any error for a missing object keeps
\* the promise: one object at most, recorded once it is known, and given up only
\* when it has gone or when its creation was cut short.
THEOREM KeepsPromise == Spec => KeepsItsPromise
<1>1. Init => Promise!Init
  BY DEF Init, Promise!Init, Plain
<1>2. ASSUME Inv, [Next]_vars
      PROVE  [Promise!Next]_(Promise!vars)
  <2>1. CASE Plain
    BY <1>2, <2>1, StepManaged, PromiseStep
  <2>2. CASE ~Plain
    <3>1. kind' = kind
      BY <1>2 DEF Next, vars, Handler, API, StartRun, ReadOK, ReadGone, ReadFails, PlanNothing,
                  PlanRefused, PlanCreate, PlanUpdate, PlanDelete, Begin, SaveAlone, Refuse, LookUp,
                  LookUpFails, Get, GetFails, Call, Start, RequestFails, AnswerLost, Await,
                  AwaitFails, OperationSucceeds, OperationFails, LosesSight, ChangeConfig,
                  ImportState, Console
    <3> QED
      BY <2>2, <3>1 DEF Plain, Promise!vars
  <2> QED
    BY <2>1, <2>2
<1> QED
  BY <1>1, <1>2, Invariance, PTL DEF Spec, KeepsItsPromise, Promise!Spec

=============================================================================
