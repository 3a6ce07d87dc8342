----------------------------- MODULE Spellings -----------------------------
(***************************************************************************)
(* Attributes whose value has more than one spelling.  The API answers in  *)
(* a spelling of its own; the provider puts the practitioner's in place of *)
(* it wherever both name the same value, and must neither report such a    *)
(* difference as a change nor hide a real one behind it.  One attribute of *)
(* one object is modelled, of one of these kinds:                          *)
(*   size       of a disk, in GiB or TiB                                   *)
(*   disks      of an instance template, a set of sizes and types          *)
(*   ports      of a firewall rule, where "*" and nothing mean all         *)
(*   targets    of a firewall rule, under the deprecated name or the new   *)
(*   cluster    version of a CMKv1 cluster, answered with its build        *)
(*   clusterV2  version of a CMKv2 cluster, answered without               *)
(*   pool       version of a node pool                                     *)
(* Requests succeed unless the value is refused: failures are the subject  *)
(* of the other modules.                                                   *)
(***************************************************************************)
EXTENDS Naturals, SequencesExt

CONSTANTS
  None,
  Spellings,   \* the configurations of each kind
  MaxEdits,    \* how often the practitioner changes the configuration
  MaxDrifts    \* how often somebody else changes the object

\* What the schema accepts of each kind and the API has a value for.  Targets
\* under the deprecated name are addresses, never the id of a resource, and are
\* not left empty, which the schema allows; two disks stand for any number.
ids == {"subnet"}
Sizes == [n : Nat \ {0}, unit : {"GiB", "TiB", "gib", "tib"}]
Disks == [size : Sizes, type : STRING]
Builds == [semver : STRING, build : STRING, tarball : BOOLEAN]
Schema ==
  [size |-> Sizes,
   disks |-> {disks \in SUBSET Disks : IsFiniteSet(disks) /\ Cardinality(disks) \in 1 .. 2},
   ports |-> Seq(STRING \ {""}),
   targets |-> [field : {"source"}, list : Seq(STRING \ ({""} \cup ids)) \ {<<>>}]
                 \cup [field : {"sources"}, list : Seq(STRING \ {""}) \ {<<>>}],
   cluster |-> Builds, clusterV2 |-> Builds, pool |-> Builds]

\* What a record of each kind holds: an element that names no address is
\* kept as nothing, "both" is an empty source with sources beside it, and a
\* version may be recorded without its build.
Releases == [semver : STRING, build : STRING \cup {None}, tarball : BOOLEAN]
Records ==
  [size |-> Sizes, disks |-> SUBSET Disks, ports |-> Seq(STRING \ {""}),
   targets |-> [field : {"source", "sources", "both"}, list : Seq(STRING)],
   cluster |-> Builds, clusterV2 |-> Releases, pool |-> Builds]

ASSUME SpellingsAssumption ==
  /\ MaxEdits \in Nat /\ MaxDrifts \in Nat
  /\ DOMAIN Spellings \subseteq DOMAIN Schema
  /\ \A k \in DOMAIN Spellings : \A s \in Spellings[k] : s \in Schema[k]
  /\ {"", "1-65535", "10.1.2.3/32"} \subseteq STRING  \* the provers know no element of STRING
  /\ None \notin STRING /\ \A k \in DOMAIN Records \ {"disks"} : None \notin Records[k]

VARIABLES
  kind,
  config,      \* the spelling in the configuration
  object,      \* the value the API holds
  record,      \* the spelling in the state file
  fresh,       \* the object is as it was when the record was written
  tainted,     \* its creation ended in an error: the next run replaces it
  outcome,     \* of the last run: none, applied, inconsistent or refused
  edits, drifts

vars == <<kind, config, object, record, fresh, tainted, outcome, edits, drifts>>

Kinds == DOMAIN Spellings
Clusters == {"cluster", "clusterV2"}
Versions == Clusters \cup {"pool"}

-----------------------------------------------------------------------------
(* Sizes: a number and a unit, in upper or lower case.                     *)

gibInTib == 1024
InTiB(s) == s.unit \in {"TiB", "tib"}
StorageSizeInGiB(s) == IF InTiB(s) THEN s.n * gibInTib ELSE s.n

\* Slip: what is not a whole number of TiB is rounded down.
PreserveRounded(user, api) ==
  IF user = None \/ InTiB(user) = InTiB(api) THEN api
  ELSE IF InTiB(api) THEN [n |-> StorageSizeInGiB(api), unit |-> "GiB"]
  ELSE [n |-> api.n \div gibInTib, unit |-> "TiB"]

PreserveSizeFormat(user, api) ==
  IF user = None \/ InTiB(user) = InTiB(api) THEN api
  ELSE IF InTiB(api) THEN [n |-> StorageSizeInGiB(api), unit |-> "GiB"]
  ELSE IF api.n >= gibInTib /\ api.n % gibInTib = 0 THEN [n |-> api.n \div gibInTib, unit |-> "TiB"]
  ELSE api

\* The API's own reading of a size, and its answer in GiB, or TiB where it can.
Amount(s) == IF InTiB(s) THEN s.n * gibInTib ELSE s.n
SizeAnswers(gib) ==
  {s \in [n : {gib, gib \div gibInTib}, unit : {"GiB", "TiB"}] : Amount(s) = gib}

-----------------------------------------------------------------------------
(* The disks of a template.  Each answered disk takes the first configured *)
(* size of its capacity, whatever its type; a set has no order of its own. *)

Capacity(disk) == [size |-> Amount(disk.size), type |-> disk.type]
DisksMean(disks) ==
  [c \in {Capacity(d) : d \in disks} |-> Cardinality({d \in disks : Capacity(d) = c})]
DiskAnswers(bag) ==
  {[i \in DOMAIN s |-> [size |-> [n |-> s[i].size, unit |-> "GiB"], type |-> s[i].type]] :
     s \in {q \in UNION {[1 .. k -> DOMAIN bag] : k \in 1 .. 2} :
              \A c \in DOMAIN bag : Cardinality({i \in DOMAIN q : q[i] = c}) = bag[c]}}

configuredSizeFormats(disks) ==
  IF disks = None THEN {<<>>} ELSE {[i \in DOMAIN s |-> s[i].size] : s \in SetToSeqs(disks)}
take(formats, size) ==
  {i \in DOMAIN formats : formats[i] # None /\ StorageSizeInGiB(formats[i]) = StorageSizeInGiB(size)}
place(acc, disk) ==
  LET hits == take(acc.formats, disk.size)
      used == Min(hits)
  IN IF hits = {} THEN [formats |-> acc.formats, disks |-> acc.disks \cup {disk}]
     ELSE [formats |-> [acc.formats EXCEPT ![used] = None],
           disks |-> acc.disks \cup
             {[size |-> PreserveSizeFormat(acc.formats[used], disk.size), type |-> disk.type]}]
disksToSet(formats, answer) ==
  LET placed[i \in 0 .. Len(answer)] ==
        IF i = 0 THEN [formats |-> formats, disks |-> {}] ELSE place(placed[i - 1], answer[i])
  IN placed[Len(answer)].disks

-----------------------------------------------------------------------------
(* Firewall rules: comma-separated lists, and lists of rule objects.  They *)
(* are compared sorted, with what is repeated: of a sorted list matters how *)
(* often each element occurs.                                              *)

wildcardPortRange == "1-65535"

\* Slip: the wildcard is not expanded.
canonicalizeListRaw(elems, expandWildcard) == Restrict(ToBag(elems), ToSet(elems) \ {""})

expanded(elems, expandWildcard) ==
  [i \in DOMAIN elems |->
     IF expandWildcard /\ elems[i] = "*" THEN wildcardPortRange ELSE elems[i]]
canonicalizeList(elems, expandWildcard) ==
  LET out == expanded(elems, expandWildcard)
  IN IF expandWildcard /\ ToSet(out) \subseteq {""} THEN ToBag(<<wildcardPortRange>>)
     ELSE Restrict(ToBag(out), ToSet(out) \ {""})

preserveListFormat(configured, apiElems, expandWildcard) ==
  IF configured # None
     /\ canonicalizeList(configured, expandWildcard) = canonicalizeList(apiElems, expandWildcard)
  THEN configured ELSE apiElems

\* Two targets stand for all: an address, and a resource the API names by its id.
canonicalCIDR(cidr) == IF cidr = "10.1.2.3" THEN "10.1.2.3/32" ELSE cidr
cidrList(objects) == [i \in DOMAIN objects |-> IF objects[i] \in ids THEN "" ELSE objects[i]]
canonicalCIDRs(list) == [i \in DOMAIN list |-> canonicalCIDR(list[i])]
ruleObjectKeys(list) == ToBag(canonicalCIDRs(list))

ruleObjectsToState(configured, objects) ==
  IF configured # <<>> /\ ruleObjectKeys(configured) = ruleObjectKeys(objects)
  THEN configured ELSE objects

\* The deprecated field holds something; where it is empty, the list beside it
\* is filled.
isSet(prior) == prior # None /\ prior.field = "source" /\ prior.list \notin {<<>>, <<"">>}
applyRuleObjectsToState(prior, objects) ==
  IF isSet(prior) THEN [prior EXCEPT !.list = preserveListFormat(@, cidrList(objects), FALSE)]
  ELSE IF prior = None THEN [field |-> "sources", list |-> objects]
  ELSE IF prior.field = "source" THEN [field |-> "both", list |-> objects]
  ELSE [prior EXCEPT !.list = ruleObjectsToState(@, objects)]

-----------------------------------------------------------------------------
(* Versions: an upstream release, a build, and whether a bootstrap tarball *)
(* is appended.                                                            *)

withoutTarball(version) == [version EXCEPT !.tarball = FALSE]
upstreamSemver(version) == [version EXCEPT !.build = None]

\* Slip: two builds of one release are the same version.
SameRelease(a, b) == upstreamSemver(withoutTarball(a)) = upstreamSemver(withoutTarball(b))

SameK8sVersion(a, b) ==
  LET x == withoutTarball(a) y == withoutTarball(b)
  IN x = y \/ x = upstreamSemver(y) \/ y = upstreamSemver(x)

StringSemanticEquals(prior, answer) ==
  IF prior # None /\ SameK8sVersion(prior, answer) THEN prior ELSE answer

-----------------------------------------------------------------------------
(* What a spelling names to the API, how the API may answer, and what the  *)
(* provider records.  Of ports and targets the API keeps each once, in an  *)
(* order of its own; a "*" it reads as all ports, be it expanded by Create *)
(* before it is sent or sent as it is, as Update does.                     *)

PortsMean(list) == IF list = <<>> \/ "*" \in ToSet(list)
                   THEN (ToSet(list) \ {"*"}) \cup {"1-65535"} ELSE ToSet(list)
TargetsMean(list) == {IF t = "10.1.2.3" THEN "10.1.2.3/32" ELSE t : t \in ToSet(list)}

Means(k, s) ==
  CASE k = "size" -> Amount(s)
    [] k = "disks" -> DisksMean(s)
    [] k = "ports" -> PortsMean(s)
    [] k = "targets" -> TargetsMean(s.list)
    [] OTHER -> [s EXCEPT !.tarball = FALSE]

Answers(k, value) ==
  CASE k = "size" -> SizeAnswers(value)
    [] k = "disks" -> DiskAnswers(value)
    [] k \in {"ports", "targets"} -> SetToSeqs(value)
    [] k = "clusterV2" -> {[value EXCEPT !.build = None]}
    [] OTHER -> {value}

Kept(k, prior, answer) ==
  CASE k = "size" -> {PreserveSizeFormat(prior, answer)}
    [] k = "disks" -> {disksToSet(formats, answer) : formats \in configuredSizeFormats(prior)}
    [] k = "ports" -> {preserveListFormat(prior, answer, TRUE)}
    [] k = "targets" -> {applyRuleObjectsToState(prior, answer)}
    [] OTHER -> {StringSemanticEquals(prior, answer)}

\* What the handler saves, starting from the plan, the record, or nothing.
Recorded(prior, value) == UNION {Kept(kind, prior, answer) : answer \in Answers(kind, value)}

Values(k) == {Means(k, s) : s \in Spellings[k]}

-----------------------------------------------------------------------------
Init ==
  /\ kind \in Kinds
  /\ config \in Spellings[kind]
  /\ object \in {None} \cup Values(kind)
  /\ record = None /\ fresh = FALSE /\ tainted = FALSE /\ outcome = "none"
  /\ edits = 0 /\ drifts = 0

\* An object made elsewhere is imported: Read has no spelling to keep.
ImportState ==
  /\ record = None /\ object # None
  /\ record' \in Recorded(None, object)
  /\ fresh' = TRUE
  /\ UNCHANGED <<kind, config, object, tainted, outcome, edits, drifts>>

Read ==
  /\ record # None /\ ~fresh
  /\ record' \in Recorded(record, object)
  /\ fresh' = TRUE
  /\ UNCHANGED <<kind, config, object, tainted, outcome, edits, drifts>>

\* Terraform holds the handler to the planned value.
Applied(value) ==
  /\ object' = value
  /\ record' \in Recorded(config, value)
  /\ fresh' = TRUE
  /\ outcome' = IF record' = config THEN "applied" ELSE "inconsistent"

Create ==
  /\ record = None /\ object = None
  /\ Applied(Means(kind, config))
  /\ tainted' = (record' # config)
  /\ UNCHANGED <<kind, config, edits, drifts>>

\* The disks of a template are replaced when their spelling changes.
Replace ==
  /\ record # None /\ fresh
  /\ tainted \/ (kind = "disks" /\ record # config)
  /\ Applied(Means(kind, config))
  /\ tainted' = (record' # config)
  /\ UNCHANGED <<kind, config, edits, drifts>>

PlansUpdate == record # None /\ fresh /\ ~tainted /\ record # config /\ kind # "disks"


\* The plan modifier of a cluster's version.
ImmutableStringModifier == kind \in Clusters /\ ~SameK8sVersion(record, config)

\* A disk does not shrink.  To resize it to the size it has, in another unit, is
\* taken to be accepted: were it not, such an edit would be planned for ever.
ResizeRefused == kind = "size" /\ Means(kind, config) < object

Refused ==
  /\ PlansUpdate
  /\ ImmutableStringModifier \/ ResizeRefused
  /\ outcome # "refused"
  /\ outcome' = "refused"
  /\ UNCHANGED <<kind, config, object, record, fresh, tainted, edits, drifts>>

\* An empty list in a patch means all ports, or the client leaves it out; a
\* cluster's version is never sent.
Patched ==
  CASE kind = "ports" /\ config = <<>> -> {Means(kind, config), object}
    [] kind \in Clusters -> {object}
    [] OTHER -> {Means(kind, config)}

Update ==
  /\ PlansUpdate /\ ~ImmutableStringModifier /\ ~ResizeRefused
  /\ \E value \in Patched : Applied(value)
  /\ UNCHANGED <<kind, config, tainted, edits, drifts>>

ChangeConfig ==
  /\ edits < MaxEdits /\ edits' = edits + 1
  /\ config' \in Spellings[kind] \ {config}
  /\ outcome' = "none"
  /\ UNCHANGED <<kind, object, record, fresh, tainted, drifts>>

\* The console, the CLI, or an upgrade by support.  A template never changes.
Drift ==
  /\ drifts < MaxDrifts /\ drifts' = drifts + 1
  /\ object # None /\ kind # "disks"
  /\ object' \in Values(kind) \ {object}
  /\ fresh' = FALSE
  /\ UNCHANGED <<kind, config, record, tainted, outcome, edits>>

Run == ImportState \/ Read \/ Create \/ Replace \/ Refused \/ Update
Next == Run \/ ChangeConfig \/ Drift

Spec == Init /\ [][Next]_vars
FairSpec == Spec /\ WF_vars(Run)

-----------------------------------------------------------------------------
(* Where the code does not keep the promise.                               *)

\* Spellings the provider accepts and does not put back: a unit in lower
\* case; a bare address under the deprecated name; no ports, once the rule
\* has some; ports or targets written twice; two disks alike in capacity and
\* not in spelling or type.
Unsettled ==
  \/ kind = "size" /\ config.unit \in {"gib", "tib"}
  \/ kind = "targets" /\ config.field = "source" /\ "10.1.2.3" \in ToSet(config.list)
  \/ kind = "targets" /\ ~IsInjective(canonicalCIDRs(config.list))
  \/ kind = "ports" /\ (config = <<>> \/ ~IsInjective(expanded(config, TRUE)))
  \/ kind = "disks" /\ \/ \E d \in config : d.size.unit \in {"gib", "tib"}
                       \/ \E d, e \in config : /\ d.size # e.size /\ d.type # e.type
                                               /\ Capacity(d).size = Capacity(e).size

\* What the record cannot tell from the configured value: the build of a
\* CMKv2 control plane, a resource among targets under the old name, and how
\* many disks alike a template has, which a set names once.
Indistinct ==
  \/ kind = "clusterV2" /\ object.semver = config.semver
  \/ kind = "targets" /\ config.field = "source" /\ object \ ids = Means(kind, config)
  \/ /\ kind = "disks" /\ DOMAIN object = DOMAIN Means(kind, config)
     /\ \A c \in DOMAIN object : Means(kind, config)[c] <= object[c]

-----------------------------------------------------------------------------
TypeOK ==
  /\ kind \in Kinds /\ config \in Spellings[kind]
  /\ object \in {None} \cup Values(kind)
  /\ fresh \in BOOLEAN /\ tainted \in BOOLEAN
  /\ outcome \in {"none", "applied", "inconsistent", "refused"}
  /\ edits \in 0 .. MaxEdits /\ drifts \in 0 .. MaxDrifts
  /\ record = None => ~fresh /\ ~tainted
  /\ record # None => record \in Records[kind]

\* A run that was not refused records what it planned, character for
\* character, or Terraform ends it with "inconsistent result after apply" and
\* replaces what it has just created: only the spellings above do that to
\* anyone (storage_size.go, firewall_rule/util.go, k8s_version_type.go).
AppliedAsPlanned == outcome = "inconsistent" => Unsettled

\* When a plan made on a fresh record has nothing to do, the object is what
\* the configuration says: no spelling is kept over a real difference, but
\* for what the record cannot tell.
NoDriftHidden ==
  (record # None /\ fresh /\ record = config) => (object = Means(kind, config) \/ Indistinct)

\* Whatever spelling an object was created or imported with, edited to or
\* drifted from, running Terraform settles on the configured one for good,
\* unless the value is refused or the spelling is an unsettled one: an import
\* leaves no update planned for ever, and no two answers of the API alternate.
Settled == record = config /\ ~tainted /\ (object = Means(kind, config) \/ Indistinct)
Hopeless ==
  \/ Unsettled
  \/ kind = "size" /\ Means(kind, config) < object
  \/ kind \in Clusters /\ object # Means(kind, config)
  \/ kind = "clusterV2" /\ record.build \notin {None, config.build}
Converges == <>[](record # None /\ (Settled \/ Hopeless))
=============================================================================
