-------------------------- MODULE SpellingsProofs --------------------------
(***************************************************************************)
(* Theorems about Spellings: whatever the configurations of each kind, a   *)
(* run that is not refused records what it planned unless the spelling is  *)
(* one of the unsettled ones, and a record that equals the configuration   *)
(* hides no difference but those it cannot tell.                           *)
(***************************************************************************)
EXTENDS Spellings, FiniteSetTheorems, FunctionTheorems, TLAPS

-----------------------------------------------------------------------------
(* Sizes.                                                                  *)

Upper == {"GiB", "TiB"}

LEMMA NoneIsNoSize == None \notin Sizes
<1>1. "size" \in DOMAIN Records \ {"disks"} /\ Records["size"] = Sizes BY DEF Records
<1>. QED BY <1>1, SpellingsAssumption

\* A size keeps its amount when it is put in another unit.
LEMMA PreserveAmount ==
  ASSUME NEW a \in Sizes, a.unit \in Upper, NEW p
  PROVE  /\ PreserveSizeFormat(p, a) \in Sizes
         /\ Amount(PreserveSizeFormat(p, a)) = Amount(a)
<1>1. CASE p = None \/ InTiB(p) = InTiB(a)
  BY <1>1 DEF PreserveSizeFormat
<1>2. CASE ~(p = None \/ InTiB(p) = InTiB(a)) /\ InTiB(a)
  <2>1. PreserveSizeFormat(p, a) = [n |-> a.n * 1024, unit |-> "GiB"]
    BY <1>2 DEF PreserveSizeFormat, StorageSizeInGiB, gibInTib
  <2>2. a.n \in Nat \ {0} BY DEF Sizes
  <2>. QED BY <1>2, <2>1, <2>2 DEF Amount, InTiB, Sizes, gibInTib
<1>3. CASE ~(p = None \/ InTiB(p) = InTiB(a)) /\ ~InTiB(a) /\ a.n >= 1024 /\ a.n % 1024 = 0
  <2>1. PreserveSizeFormat(p, a) = [n |-> a.n \div 1024, unit |-> "TiB"]
    BY <1>3 DEF PreserveSizeFormat, gibInTib
  <2>2. a.n \in Nat /\ a.n \div 1024 \in Nat \ {0} /\ (a.n \div 1024) * 1024 = a.n
    BY <1>3 DEF Sizes
  <2>. QED BY <1>3, <2>1, <2>2 DEF Amount, InTiB, Sizes, gibInTib
<1>4. CASE ~(p = None \/ InTiB(p) = InTiB(a)) /\ ~InTiB(a) /\ ~(a.n >= 1024 /\ a.n % 1024 = 0)
  BY <1>4 DEF PreserveSizeFormat, gibInTib
<1>. QED BY <1>1, <1>2, <1>3, <1>4

\* A whole number of TiB.
LEMMA WholeTiB ==
  ASSUME NEW n \in Nat \ {0}
  PROVE  n * 1024 >= 1024 /\ (n * 1024) % 1024 = 0 /\ (n * 1024) \div 1024 = n
<1>1. n * 1024 >= 1024 OBVIOUS
<1>2. (n * 1024) % 1024 = 0 OBVIOUS
<1>3. (n * 1024) \div 1024 = n OBVIOUS
<1>. QED BY <1>1, <1>2, <1>3

\* A configured size in upper case comes back from any answer of its amount.
LEMMA PreserveRestores ==
  ASSUME NEW a \in Sizes, a.unit \in Upper, NEW p \in Sizes, p.unit \in Upper,
         Amount(p) = Amount(a)
  PROVE  PreserveSizeFormat(p, a) = p
<1>1. a = [n |-> a.n, unit |-> a.unit] /\ p = [n |-> p.n, unit |-> p.unit]
  BY DEF Sizes
<1>2. a.n \in Nat \ {0} /\ p.n \in Nat \ {0} BY DEF Sizes
<1>3. p # None BY NoneIsNoSize
<1>4. CASE InTiB(p) /\ InTiB(a)
  <2>1. a.unit = p.unit /\ a.n = p.n BY <1>2, <1>4 DEF Amount, InTiB, Upper, gibInTib
  <2>. QED BY <1>1, <1>4, <2>1 DEF PreserveSizeFormat
<1>5. CASE ~InTiB(p) /\ ~InTiB(a)
  <2>1. a.unit = p.unit /\ a.n = p.n BY <1>2, <1>5 DEF Amount, InTiB, Upper
  <2>. QED BY <1>1, <1>5, <2>1 DEF PreserveSizeFormat
<1>6. CASE ~InTiB(p) /\ InTiB(a)
  <2>1. p.unit = "GiB" /\ p.n = a.n * 1024
    BY <1>2, <1>6 DEF Amount, InTiB, Upper, gibInTib
  <2>2. ~(p = None \/ InTiB(p) = InTiB(a)) BY <1>3, <1>6
  <2>3. PreserveSizeFormat(p, a) = [n |-> a.n * 1024, unit |-> "GiB"]
    BY <1>6, <2>2 DEF PreserveSizeFormat, StorageSizeInGiB, gibInTib, InTiB
  <2>. QED BY <1>1, <2>1, <2>3
<1>7. CASE InTiB(p) /\ ~InTiB(a)
  <2>1. p.unit = "TiB" /\ a.n = p.n * 1024
    BY <1>2, <1>7 DEF Amount, InTiB, Upper, gibInTib
  <2>2. a.n >= 1024 /\ a.n % 1024 = 0 /\ a.n \div 1024 = p.n BY <1>2, <2>1, WholeTiB
  <2>3. ~(p = None \/ InTiB(p) = InTiB(a)) BY <1>3, <1>7
  <2>4. PreserveSizeFormat(p, a) = [n |-> a.n \div 1024, unit |-> "TiB"]
    BY <1>7, <2>2, <2>3 DEF PreserveSizeFormat, gibInTib, InTiB
  <2>. QED BY <1>1, <2>1, <2>2, <2>4
<1>. QED BY <1>4, <1>5, <1>6, <1>7

LEMMA AmountType == ASSUME NEW s \in Sizes PROVE Amount(s) \in Nat \ {0}
  BY DEF Sizes, Amount, gibInTib

LEMMA SizeAnswer ==
  ASSUME NEW s \in Sizes, NEW a \in SizeAnswers(Amount(s))
  PROVE  a \in Sizes /\ a.unit \in Upper /\ Amount(a) = Amount(s)
<1>1. Amount(s) \in Nat \ {0} BY AmountType
<1>2. a \in [n : {Amount(s), Amount(s) \div 1024}, unit : {"GiB", "TiB"}] /\ Amount(a) = Amount(s)
  BY DEF SizeAnswers, gibInTib
<1>3. a.n \in Nat /\ a.unit \in Upper
  <2>1. Amount(s) \div 1024 \in Nat BY <1>1
  <2>. QED BY <1>1, <1>2, <2>1 DEF Upper
<1>4. a.n # 0 BY <1>1, <1>2, <1>3 DEF Amount, gibInTib
<1>. QED BY <1>2, <1>3, <1>4 DEF Sizes, Upper

-----------------------------------------------------------------------------
(* Sequences of the elements of a set.                                     *)

LEMMA ElementsFinite ==
  ASSUME NEW S, NEW s \in Seq(S)
  PROVE  IsFiniteSet(ToSet(s)) /\ ToSet(s) \subseteq S
<1>1. s \in [1 .. Len(s) -> S] /\ Len(s) \in Nat OBVIOUS
<1>2. s \in [1 .. Len(s) -> ToSet(s)] BY <1>1 DEF ToSet
<1>3. \A e \in ToSet(s) : \E i \in 1 .. Len(s) : s[i] = e BY <1>1 DEF ToSet
<1>4. s \in Surjection(1 .. Len(s), ToSet(s)) BY <1>2, <1>3, Fun_IsSurj
<1>5. IsFiniteSet(1 .. Len(s)) BY <1>1, FS_Interval
<1>6. IsFiniteSet(ToSet(s)) BY <1>4, <1>5, FS_Surjection
<1>. QED BY <1>1, <1>6 DEF ToSet

LEMMA NoElements ==
  ASSUME NEW S, NEW s \in Seq(S)
  PROVE  s = <<>> <=> ToSet(s) = {}
<1>1. Len(s) \in Nat /\ DOMAIN s = 1 .. Len(s) OBVIOUS
<1>2. s = <<>> <=> Len(s) = 0 OBVIOUS
<1>3. ToSet(s) = {} <=> 1 .. Len(s) = {} BY <1>1 DEF ToSet
<1>4. 1 .. Len(s) = {} <=> Len(s) = 0
  <2>1. Len(s) # 0 => 1 \in 1 .. Len(s) BY <1>1
  <2>. QED BY <1>1, <2>1
<1>. QED BY <1>2, <1>3, <1>4

LEMMA SequenceOver ==
  ASSUME NEW S, NEW T, S \subseteq T, NEW s \in Seq(S)
  PROVE  s \in Seq(T)
<1>1. Len(s) \in Nat /\ s \in [1 .. Len(s) -> S] OBVIOUS
<1>2. s \in [1 .. Len(s) -> T] BY <1>1
<1>. QED BY <1>1, <1>2

LEMMA ElementsOf ==
  ASSUME NEW S, IsFiniteSet(S), NEW q \in SetToSeqs(S)
  PROVE  q \in Seq(S) /\ Len(q) = Cardinality(S) /\ ToSet(q) = S /\ IsInjective(q)
<1>1. Cardinality(S) \in Nat BY FS_CardinalityType
<1>2. /\ q \in [1 .. Cardinality(S) -> S]
      /\ \A i, j \in 1 .. Cardinality(S) : i # j => q[i] # q[j]
  BY DEF SetToSeqs
<1>3. q \in Injection(1 .. Cardinality(S), S) BY <1>2, Fun_IsInj
<1>4. Cardinality(1 .. Cardinality(S)) = Cardinality(S)
  <2>1. Cardinality(1 .. Cardinality(S)) = IF 1 > Cardinality(S) THEN 0 ELSE Cardinality(S) - 1 + 1
    BY <1>1, FS_Interval
  <2>. QED BY <1>1, <2>1
<1>5. q \in Surjection(1 .. Cardinality(S), S)
  <2>. DEFINE D == 1 .. Cardinality(S)
  <2>1. q \in Injection(D, S) /\ Cardinality(D) = Cardinality(S) BY <1>3, <1>4
  <2>. HIDE DEF D
  <2>2. Cardinality(D) = Cardinality(S) <=> q \in Surjection(D, S) BY <2>1, FS_Injection
  <2>3. q \in Surjection(D, S) BY <2>1, <2>2
  <2>. QED BY <2>3 DEF D
<1>6. \A e \in S : \E i \in 1 .. Cardinality(S) : q[i] = e BY <1>5 DEF Surjection
<1>7. ToSet(q) = S BY <1>2, <1>6 DEF ToSet
<1>8. q \in Seq(S) /\ Len(q) = Cardinality(S) BY <1>1, <1>2
<1>9. IsInjective(q) BY <1>2 DEF IsInjective
<1>. QED BY <1>7, <1>8, <1>9

-----------------------------------------------------------------------------
(* Of a sorted list matters how often each element occurs: once each, when *)
(* nothing is written twice.                                               *)

OnceEach(S) == [e \in S |-> 1]

LEMMA BagElements ==
  ASSUME NEW s
  PROVE  DOMAIN ToBag(s) = ToSet(s)
  BY DEF ToBag, ToSet, Range

LEMMA BagOnce ==
  ASSUME NEW s, NEW e, \E i \in DOMAIN s : s[i] = e,
         \A i, j \in DOMAIN s : s[i] = e /\ s[j] = e => i = j
  PROVE  e \in ToSet(s) /\ ToBag(s)[e] = 1
<1>1. PICK k \in DOMAIN s : s[k] = e OBVIOUS
<1>2. {i \in DOMAIN s : s[i] = e} = {k} BY <1>1
<1>3. Cardinality({k}) = 1 BY FS_Singleton
<1>4. e \in Range(s) BY <1>1 DEF Range
<1>5. ToBag(s)[e] = Cardinality({i \in DOMAIN s : s[i] = e}) BY <1>4 DEF ToBag
<1>. QED BY <1>1, <1>2, <1>3, <1>5 DEF ToSet

LEMMA BagOnceEach ==
  ASSUME NEW s, IsInjective(s)
  PROVE  ToBag(s) = OnceEach(ToSet(s))
<1>1. \A e \in ToSet(s) : ToBag(s)[e] = 1
  <2>. SUFFICES ASSUME NEW e \in ToSet(s) PROVE ToBag(s)[e] = 1 OBVIOUS
  <2>1. \E i \in DOMAIN s : s[i] = e BY DEF ToSet
  <2>2. \A i, j \in DOMAIN s : s[i] = e /\ s[j] = e => i = j BY DEF IsInjective
  <2>. QED BY <2>1, <2>2, BagOnce
<1>2. ToBag(s) = [e \in ToSet(s) |-> ToBag(s)[e]] BY BagElements DEF ToBag
<1>. QED BY <1>1, <1>2 DEF OnceEach

-----------------------------------------------------------------------------
(* Ports.                                                                  *)

PortList == Seq(STRING \ {""})

\* The elements of the canonical form of a list of ports are what it means to
\* the API, each once unless it is written twice.
LEMMA PortsCanonical ==
  ASSUME NEW s \in PortList
  PROVE  /\ DOMAIN canonicalizeList(s, TRUE) = PortsMean(s)
         /\ IsInjective(expanded(s, TRUE)) => canonicalizeList(s, TRUE) = OnceEach(PortsMean(s))
         /\ (s = <<>> <=> ToSet(s) = {})
<1>1. s = <<>> <=> ToSet(s) = {} BY NoElements DEF PortList
<1>2. ToSet(s) \subseteq STRING \ {""} BY ElementsFinite DEF PortList
<1>. DEFINE out == expanded(s, TRUE)
<1>3. ToSet(out) = IF "*" \in ToSet(s) THEN (ToSet(s) \ {"*"}) \cup {"1-65535"} ELSE ToSet(s)
  <2>1. ToSet(out) = {IF s[i] = "*" THEN "1-65535" ELSE s[i] : i \in DOMAIN s}
    BY DEF ToSet, expanded, wildcardPortRange
  <2>2. ToSet(s) = {s[i] : i \in DOMAIN s} BY DEF ToSet
  <2>. QED BY <2>1, <2>2
<1>4. canonicalizeList(s, TRUE) =
        IF ToSet(out) \subseteq {""} THEN ToBag(<<"1-65535">>) ELSE Restrict(ToBag(out), ToSet(out) \ {""})
  BY DEF canonicalizeList, wildcardPortRange
<1>. HIDE DEF out
<1>5. CASE s = <<>>
  <2>. DEFINE w == <<"1-65535">>
  <2>1. ToSet(out) = {} BY <1>1, <1>3, <1>5
  <2>2. canonicalizeList(s, TRUE) = ToBag(w) BY <1>4, <2>1
  <2>3. ToSet(w) = {"1-65535"} /\ IsInjective(w)
    <3>1. DOMAIN w = {1} /\ w[1] = "1-65535" OBVIOUS
    <3>. HIDE DEF w
    <3>2. ToSet(w) = {w[i] : i \in {1}} BY <3>1 DEF ToSet
    <3>3. ToSet(w) = {"1-65535"} BY <3>1, <3>2
    <3>4. IsInjective(w) BY <3>1 DEF IsInjective
    <3>. QED BY <3>3, <3>4
  <2>4. PortsMean(s) = {"1-65535"} BY <1>1, <1>5 DEF PortsMean
  <2>. HIDE DEF w
  <2>. QED BY <1>1, <2>2, <2>3, <2>4, BagElements, BagOnceEach
<1>6. CASE s # <<>>
  <2>1. ToSet(out) = PortsMean(s) BY <1>3, <1>6 DEF PortsMean
  <2>2. ToSet(out) # {} /\ "" \notin ToSet(out)
    <3>1. ToSet(s) # {} BY <1>1, <1>6
    <3>2. CASE "*" \in ToSet(s)
      <4>1. ToSet(out) = (ToSet(s) \ {"*"}) \cup {"1-65535"} BY <1>3, <3>2
      <4>. QED BY <1>2, <4>1
    <3>3. CASE "*" \notin ToSet(s)
      <4>1. ToSet(out) = ToSet(s) BY <1>3, <3>3
      <4>. QED BY <1>2, <3>1, <4>1
    <3>. QED BY <3>2, <3>3
  <2>3. canonicalizeList(s, TRUE) = [x \in ToSet(out) |-> ToBag(out)[x]]
    <3>1. ToSet(out) \ {""} = ToSet(out) BY <2>2
    <3>2. ~(ToSet(out) \subseteq {""}) BY <2>2
    <3>. QED BY <1>4, <3>1, <3>2 DEF Restrict
  <2>4. IsInjective(out) => canonicalizeList(s, TRUE) = OnceEach(ToSet(out))
    <3>. SUFFICES ASSUME IsInjective(out)
                  PROVE  canonicalizeList(s, TRUE) = OnceEach(ToSet(out))
      OBVIOUS
    <3>1. ToBag(out) = OnceEach(ToSet(out)) BY BagOnceEach
    <3>2. \A x \in ToSet(out) : ToBag(out)[x] = 1 BY <3>1 DEF OnceEach
    <3>. QED BY <2>3, <3>2 DEF OnceEach
  <2>5. DOMAIN canonicalizeList(s, TRUE) = ToSet(out) BY <2>3
  <2>. QED BY <1>1, <2>1, <2>4, <2>5 DEF out
<1>. QED BY <1>5, <1>6

\* An answer lists what the configured ports mean, each once and without a
\* wildcard.
LEMMA PortsAnswer ==
  ASSUME NEW s \in PortList, NEW a \in SetToSeqs(PortsMean(s))
  PROVE  /\ a \in PortList /\ PortsMean(a) = PortsMean(s)
         /\ canonicalizeList(a, TRUE) = OnceEach(PortsMean(s))
<1>. DEFINE v == PortsMean(s)
<1>1. IsFiniteSet(ToSet(s)) /\ ToSet(s) \subseteq STRING \ {""} BY ElementsFinite DEF PortList
<1>2. v \subseteq STRING \ {""} /\ v # {} /\ "*" \notin v
  <2>1. ToSet(s) = {} => s = <<>> BY PortsCanonical
  <2>2. v = IF s = <<>> \/ "*" \in ToSet(s) THEN (ToSet(s) \ {"*"}) \cup {"1-65535"} ELSE ToSet(s)
    BY DEF PortsMean
  <2>. HIDE DEF v
  <2>3. v \subseteq STRING \ {""} BY <1>1, <2>2, SpellingsAssumption
  <2>4. v # {} /\ "*" \notin v BY <2>1, <2>2
  <2>. QED BY <2>3, <2>4
<1>3. IsFiniteSet(v)
  <2>1. IsFiniteSet(ToSet(s) \ {"*"}) BY <1>1, FS_Difference
  <2>2. IsFiniteSet((ToSet(s) \ {"*"}) \cup {"1-65535"}) BY <2>1, FS_AddElement
  <2>. QED BY <1>1, <2>2 DEF PortsMean
<1>4. a \in Seq(v) /\ ToSet(a) = v /\ IsInjective(a) BY <1>3, ElementsOf
<1>5. a \in PortList
  <2>. HIDE DEF v
  <2>. QED BY <1>2, <1>4, SequenceOver DEF PortList
<1>6. a # <<>> BY <1>2, <1>4, <1>5, PortsCanonical
<1>7. PortsMean(a) = v
  <2>. HIDE DEF v
  <2>. QED BY <1>2, <1>4, <1>6 DEF PortsMean
<1>8. expanded(a, TRUE) = a
  <2>. HIDE DEF v
  <2>1. a = [i \in DOMAIN a |-> a[i]] BY <1>4
  <2>2. \A i \in DOMAIN a : a[i] # "*" BY <1>2, <1>4 DEF ToSet
  <2>. QED BY <2>1, <2>2 DEF expanded
<1>9. canonicalizeList(a, TRUE) = OnceEach(v) BY <1>4, <1>5, <1>7, <1>8, PortsCanonical
<1>. QED BY <1>5, <1>7, <1>9

LEMMA PortsKept ==
  ASSUME NEW s \in PortList, NEW a \in SetToSeqs(PortsMean(s)), NEW p \in PortList \cup {None}
  PROVE  LET r == preserveListFormat(p, a, TRUE)
         IN /\ r \in PortList /\ PortsMean(r) = PortsMean(s)
            /\ (p # None /\ PortsMean(p) = PortsMean(s) /\ IsInjective(expanded(p, TRUE))) => r = p
<1>1. /\ a \in PortList /\ PortsMean(a) = PortsMean(s)
      /\ canonicalizeList(a, TRUE) = OnceEach(PortsMean(s))
  BY PortsAnswer
<1>2. DOMAIN OnceEach(PortsMean(s)) = PortsMean(s) BY DEF OnceEach
<1>3. p # None => /\ p \in PortList /\ DOMAIN canonicalizeList(p, TRUE) = PortsMean(p)
                  /\ IsInjective(expanded(p, TRUE)) => canonicalizeList(p, TRUE) = OnceEach(PortsMean(p))
  BY PortsCanonical
<1>. QED BY <1>1, <1>2, <1>3 DEF preserveListFormat

-----------------------------------------------------------------------------
(* Targets.                                                                *)

TargetList == Seq(STRING \ {""})
AddressList == Seq(STRING \ ({""} \cup ids))

\* The keys of a list of targets are what it means to the API, each once unless
\* it is written twice.
LEMMA KeysAreMeaning ==
  ASSUME NEW list
  PROVE  /\ DOMAIN ruleObjectKeys(list) = TargetsMean(list)
         /\ IsInjective(canonicalCIDRs(list)) => ruleObjectKeys(list) = OnceEach(TargetsMean(list))
<1>1. ToSet(canonicalCIDRs(list)) = {canonicalCIDR(list[i]) : i \in DOMAIN list}
  BY DEF ToSet, canonicalCIDRs
<1>2. TargetsMean(list) = {canonicalCIDR(list[i]) : i \in DOMAIN list}
  BY DEF ToSet, TargetsMean, canonicalCIDR
<1>. QED BY <1>1, <1>2, BagElements, BagOnceEach DEF ruleObjectKeys

\* What targets mean is a finite set of addresses in canonical form, and ids.
LEMMA MeaningCanonical ==
  ASSUME NEW list \in TargetList
  PROVE  /\ IsFiniteSet(TargetsMean(list)) /\ TargetsMean(list) \subseteq STRING \ {""}
         /\ "10.1.2.3" \notin TargetsMean(list)
         /\ "10.1.2.3" \notin ToSet(list) => TargetsMean(list) = ToSet(list)
<1>1. IsFiniteSet(ToSet(list)) /\ ToSet(list) \subseteq STRING \ {""}
  BY ElementsFinite DEF TargetList
<1>2. TargetsMean(list) =
        IF "10.1.2.3" \in ToSet(list) THEN (ToSet(list) \ {"10.1.2.3"}) \cup {"10.1.2.3/32"}
                                      ELSE ToSet(list)
  BY DEF TargetsMean
<1>3. IsFiniteSet((ToSet(list) \ {"10.1.2.3"}) \cup {"10.1.2.3/32"})
  <2>1. IsFiniteSet(ToSet(list) \ {"10.1.2.3"}) BY <1>1, FS_Difference
  <2>. QED BY <2>1, FS_AddElement
<1>4. "10.1.2.3" \notin TargetsMean(list) BY DEF TargetsMean
<1>5. "10.1.2.3" \notin ToSet(list) => TargetsMean(list) = ToSet(list) BY DEF TargetsMean
<1>6. IsFiniteSet(TargetsMean(list)) BY <1>1, <1>2, <1>3
<1>7. TargetsMean(list) \subseteq STRING \ {""} BY <1>1, <1>2, SpellingsAssumption
<1>. QED BY <1>4, <1>5, <1>6, <1>7

\* Without a wildcard the canonical form has the elements of the list, but for
\* the empty ones; each of them once, unless it is written twice.
LEMMA CanonicalRaw ==
  ASSUME NEW list \in Seq(STRING)
  PROVE  /\ DOMAIN canonicalizeList(list, FALSE) = ToSet(list) \ {""}
         /\ (\A i, j \in DOMAIN list : list[i] = list[j] /\ list[i] # "" => i = j)
              => canonicalizeList(list, FALSE) = OnceEach(ToSet(list) \ {""})
<1>1. expanded(list, FALSE) = list
  <2>1. list = [i \in DOMAIN list |-> list[i]] OBVIOUS
  <2>. QED BY <2>1 DEF expanded
<1>2. canonicalizeList(list, FALSE) = [x \in ToSet(list) \ {""} |-> ToBag(list)[x]]
  BY <1>1 DEF canonicalizeList, Restrict
<1>3. ASSUME \A i, j \in DOMAIN list : list[i] = list[j] /\ list[i] # "" => i = j,
             NEW x \in ToSet(list) \ {""}
      PROVE  ToBag(list)[x] = 1
  <2>1. \E i \in DOMAIN list : list[i] = x BY DEF ToSet
  <2>2. \A i, j \in DOMAIN list : list[i] = x /\ list[j] = x => i = j BY <1>3
  <2>. QED BY <2>1, <2>2, BagOnce
<1>. QED BY <1>2, <1>3 DEF OnceEach

\* An answer lists what the configured targets mean; under the deprecated
\* name the resources among them are left out.
LEMMA TargetsAnswer ==
  ASSUME NEW list \in TargetList, NEW a \in SetToSeqs(TargetsMean(list))
  PROVE  /\ a \in TargetList /\ ToSet(a) = TargetsMean(list) /\ TargetsMean(a) = TargetsMean(list)
         /\ ruleObjectKeys(a) = OnceEach(TargetsMean(list))
         /\ cidrList(a) \in Seq(STRING)
         /\ ToSet(cidrList(a)) \ {""} = TargetsMean(list) \ ids
         /\ canonicalizeList(cidrList(a), FALSE) = OnceEach(TargetsMean(list) \ ids)
<1>. DEFINE v == TargetsMean(list)
<1>1. IsFiniteSet(v) /\ v \subseteq STRING \ {""} /\ "10.1.2.3" \notin v BY MeaningCanonical
<1>. HIDE DEF v
<1>2. a \in SetToSeqs(v) BY DEF v
<1>3. a \in Seq(v) /\ ToSet(a) = v /\ IsInjective(a) BY <1>1, <1>2, ElementsOf
<1>4. a \in TargetList BY <1>1, <1>3, SequenceOver DEF TargetList
<1>5. TargetsMean(a) = v BY <1>1, <1>3, <1>4, MeaningCanonical
<1>6. /\ Len(a) \in Nat /\ DOMAIN a = 1 .. Len(a)
      /\ \A i \in 1 .. Len(a) : a[i] \in v
  BY <1>3
<1>7. cidrList(a) \in Seq(STRING)
  <2>1. cidrList(a) \in [1 .. Len(a) -> STRING]
    BY <1>1, <1>6, SpellingsAssumption DEF cidrList
  <2>. QED BY <1>6, <2>1
<1>8. ToSet(cidrList(a)) \ {""} = v \ ids
  <2>1. ToSet(cidrList(a)) = {IF a[i] \in ids THEN "" ELSE a[i] : i \in 1 .. Len(a)}
    BY <1>6 DEF ToSet, cidrList
  <2>2. ToSet(a) = {a[i] : i \in 1 .. Len(a)} BY <1>6 DEF ToSet
  <2>. QED BY <1>1, <1>3, <2>1, <2>2
<1>9. canonicalizeList(cidrList(a), FALSE) = OnceEach(v \ ids)
  <2>1. DOMAIN cidrList(a) = DOMAIN a BY DEF cidrList
  <2>2. \A i \in DOMAIN a : cidrList(a)[i] # "" => cidrList(a)[i] = a[i] BY DEF cidrList
  <2>3. \A i, j \in DOMAIN cidrList(a) :
           cidrList(a)[i] = cidrList(a)[j] /\ cidrList(a)[i] # "" => i = j
    BY <1>3, <2>1, <2>2 DEF IsInjective
  <2>. QED BY <1>7, <1>8, <2>3, CanonicalRaw
<1>10. ruleObjectKeys(a) = OnceEach(v)
  <2>1. \A i \in DOMAIN a : a[i] # "10.1.2.3" BY <1>1, <1>6
  <2>2. canonicalCIDRs(a) = a
    <3>1. a = [i \in DOMAIN a |-> a[i]] BY <1>3
    <3>. QED BY <2>1, <3>1 DEF canonicalCIDRs, canonicalCIDR
  <2>. QED BY <1>3, <1>5, <2>2, KeysAreMeaning
<1>. QED BY <1>3, <1>4, <1>5, <1>7, <1>8, <1>9, <1>10 DEF v

\* Records and configurations of targets, and what a record says of them.
TargetRecords == [field : {"source", "sources", "both"}, list : Seq(STRING)]
TargetConfigs ==
  [field : {"source"}, list : AddressList \ {<<>>}] \cup [field : {"sources"}, list : TargetList \ {<<>>}]
TargetsTold(v, r) ==
  IF r.field = "source" THEN ToSet(r.list) \ {""} = v \ ids ELSE TargetsMean(r.list) = v

LEMMA TargetConfigType ==
  ASSUME NEW c \in TargetConfigs
  PROVE  c \in TargetRecords /\ c.list \in TargetList /\ c.list # None
<1>1. None \notin TargetList
  <2>1. "ports" \in DOMAIN Records \ {"disks"} /\ Records["ports"] = TargetList
    BY DEF Records, TargetList
  <2>. QED BY <2>1, SpellingsAssumption
<1>2. c.list \in TargetList
  <2>1. c.list \in AddressList \/ c.list \in TargetList BY DEF TargetConfigs
  <2>. QED BY <2>1, SequenceOver DEF AddressList, TargetList
<1>3. c.list \in Seq(STRING) BY <1>2, SequenceOver DEF TargetList
<1>4. c = [field |-> c.field, list |-> c.list] /\ c.field \in {"source", "sources", "both"}
  BY DEF TargetConfigs
<1>. QED BY <1>1, <1>2, <1>3, <1>4 DEF TargetRecords

LEMMA TargetRecordOf ==
  ASSUME NEW f \in {"source", "sources", "both"}, NEW l \in Seq(STRING), NEW v,
         f = "source" => ToSet(l) \ {""} = v \ ids,
         f # "source" => TargetsMean(l) = v
  PROVE  /\ [field |-> f, list |-> l] \in TargetRecords
         /\ TargetsTold(v, [field |-> f, list |-> l])
<1>1. [field |-> f, list |-> l] \in TargetRecords BY DEF TargetRecords
<1>2. TargetsTold(v, [field |-> f, list |-> l]) BY DEF TargetsTold
<1>. QED BY <1>1, <1>2

LEMMA TargetsKept ==
  ASSUME NEW c \in TargetConfigs, NEW a \in SetToSeqs(TargetsMean(c.list)),
         NEW p \in TargetRecords \cup {None}
  PROVE  /\ applyRuleObjectsToState(p, a) \in TargetRecords
         /\ TargetsTold(TargetsMean(c.list), applyRuleObjectsToState(p, a))
<1>. DEFINE v == TargetsMean(c.list)
<1>0. c.list \in TargetList BY TargetConfigType
<1>1. /\ a \in TargetList /\ TargetsMean(a) = v
      /\ cidrList(a) \in Seq(STRING) /\ ToSet(cidrList(a)) \ {""} = v \ ids
  BY <1>0, TargetsAnswer
<1>2. a \in Seq(STRING) BY <1>1, SequenceOver DEF TargetList
<1>. HIDE DEF v
<1>3. CASE isSet(p)
  <2>. DEFINE l == preserveListFormat(p.list, cidrList(a), FALSE)
  <2>1. p = [field |-> "source", list |-> p.list] /\ p.list \in Seq(STRING)
    BY <1>3 DEF TargetRecords, isSet
  <2>2. l \in Seq(STRING) /\ ToSet(l) \ {""} = v \ ids
    <3>1. canonicalizeList(l, FALSE) = canonicalizeList(cidrList(a), FALSE) /\ l \in Seq(STRING)
      BY <1>1, <2>1 DEF preserveListFormat
    <3>. HIDE DEF l
    <3>2. DOMAIN canonicalizeList(l, FALSE) = ToSet(l) \ {""} BY <3>1, CanonicalRaw
    <3>3. DOMAIN canonicalizeList(cidrList(a), FALSE) = ToSet(cidrList(a)) \ {""}
      BY <1>1, CanonicalRaw
    <3>. QED BY <1>1, <3>1, <3>2, <3>3
  <2>3. applyRuleObjectsToState(p, a) = [field |-> "source", list |-> l]
    <3>1. applyRuleObjectsToState(p, a) = [p EXCEPT !.list = l] BY <1>3 DEF applyRuleObjectsToState
    <3>. HIDE DEF l
    <3>. QED BY <2>1, <3>1
  <2>. HIDE DEF l
  <2>4. /\ [field |-> "source", list |-> l] \in TargetRecords
        /\ TargetsTold(v, [field |-> "source", list |-> l])
    BY <2>2, TargetRecordOf
  <2>. QED BY <2>3, <2>4 DEF v
<1>4. CASE p = None
  <2>1. ~isSet(p) BY <1>4 DEF isSet
  <2>2. applyRuleObjectsToState(p, a) = [field |-> "sources", list |-> a]
    BY <1>4, <2>1 DEF applyRuleObjectsToState
  <2>. QED BY <1>1, <1>2, <2>2, TargetRecordOf DEF v
<1>5. CASE ~isSet(p) /\ p # None /\ p.field = "source"
  <2>1. applyRuleObjectsToState(p, a) = [field |-> "both", list |-> a]
    BY <1>5 DEF applyRuleObjectsToState
  <2>. QED BY <1>1, <1>2, <2>1, TargetRecordOf DEF v
<1>6. CASE ~isSet(p) /\ p # None /\ p.field # "source"
  <2>. DEFINE l == ruleObjectsToState(p.list, a)
  <2>1. p = [field |-> p.field, list |-> p.list] /\ p.list \in Seq(STRING) /\ p.field \in {"sources", "both"}
    BY <1>6 DEF TargetRecords
  <2>2. applyRuleObjectsToState(p, a) = [field |-> p.field, list |-> l]
    BY <1>6, <2>1 DEF applyRuleObjectsToState
  <2>3. l \in Seq(STRING) /\ ruleObjectKeys(l) = ruleObjectKeys(a)
    BY <1>2, <2>1 DEF ruleObjectsToState
  <2>. HIDE DEF l
  <2>4. TargetsMean(l) = v BY <1>1, <2>3, KeysAreMeaning
  <2>5. /\ [field |-> p.field, list |-> l] \in TargetRecords
        /\ TargetsTold(v, [field |-> p.field, list |-> l])
    BY <2>1, <2>3, <2>4, TargetRecordOf
  <2>. QED BY <2>2, <2>5 DEF v
<1>. QED
  <2>1. isSet(p) => p # None /\ p.field = "source" BY DEF isSet
  <2>. QED BY <1>3, <1>4, <1>5, <1>6, <2>1

\* What was configured comes back, what is written twice and a bare address
\* under the old name excepted.
SettledTargets(c) ==
  /\ c.field = "source" => "10.1.2.3" \notin ToSet(c.list)
  /\ IsInjective(canonicalCIDRs(c.list))

LEMMA TargetsRestored ==
  ASSUME NEW c \in TargetConfigs, NEW a \in SetToSeqs(TargetsMean(c.list)),
         SettledTargets(c), c # None
  PROVE  applyRuleObjectsToState(c, a) = c
<1>. DEFINE v == TargetsMean(c.list)
<1>0. c.list \in TargetList /\ c.list # None BY TargetConfigType
<1>1. /\ a \in TargetList /\ ruleObjectKeys(a) = OnceEach(v)
      /\ canonicalizeList(cidrList(a), FALSE) = OnceEach(v \ ids)
  BY <1>0, TargetsAnswer
<1>. HIDE DEF v
<1>2. CASE c.field = "source"
  <2>1. c.list \in AddressList /\ c.list # <<>> /\ c = [field |-> c.field, list |-> c.list]
    BY <1>2 DEF TargetConfigs
  <2>2. ToSet(c.list) \subseteq STRING \ ({""} \cup ids)
    BY <2>1, ElementsFinite DEF AddressList
  <2>3. v = ToSet(c.list) BY <1>0, <1>2, MeaningCanonical DEF SettledTargets, v
  <2>4. canonicalizeList(c.list, FALSE) = OnceEach(v \ ids)
    <3>1. \A i, j \in DOMAIN c.list : c.list[i] = c.list[j] => i = j
      BY DEF SettledTargets, IsInjective, canonicalCIDRs
    <3>2. c.list \in Seq(STRING) BY <1>0, SequenceOver DEF TargetList
    <3>3. ToSet(c.list) \ {""} = v \ ids BY <2>2, <2>3
    <3>. QED BY <3>1, <3>2, <3>3, CanonicalRaw
  <2>5. preserveListFormat(c.list, cidrList(a), FALSE) = c.list
    BY <1>0, <1>1, <2>4 DEF preserveListFormat
  <2>6. isSet(c)
    <3>1. c.list # <<"">>
      <4>1. <<"">>[1] = "" /\ 1 \in DOMAIN <<"">> OBVIOUS
      <4>2. \A i \in DOMAIN c.list : c.list[i] # "" BY <2>2 DEF ToSet
      <4>. QED BY <4>1, <4>2
    <3>. QED BY <1>2, <2>1, <3>1 DEF isSet
  <2>. QED BY <2>1, <2>5, <2>6 DEF applyRuleObjectsToState
<1>3. CASE c.field # "source"
  <2>1. c = [field |-> "sources", list |-> c.list] /\ c.list # <<>>
    BY <1>3 DEF TargetConfigs
  <2>2. ruleObjectKeys(c.list) = OnceEach(v) BY KeysAreMeaning DEF SettledTargets, v
  <2>3. ruleObjectsToState(c.list, a) = c.list BY <1>1, <2>1, <2>2 DEF ruleObjectsToState
  <2>4. ~isSet(c) BY <1>3 DEF isSet
  <2>. QED BY <1>3, <2>1, <2>3, <2>4 DEF applyRuleObjectsToState
<1>. QED BY <1>2, <1>3

-----------------------------------------------------------------------------
(* Versions.                                                               *)

LEMMA NoneIsNoVersion == None \notin STRING /\ None \notin Builds /\ None \notin Releases
<1>1. "cluster" \in DOMAIN Records \ {"disks"} /\ Records["cluster"] = Builds BY DEF Records
<1>2. "clusterV2" \in DOMAIN Records \ {"disks"} /\ Records["clusterV2"] = Releases BY DEF Records
<1>. QED BY <1>1, <1>2, SpellingsAssumption

No == FALSE

LEMMA NoTarball == No \in BOOLEAN /\ \A r : withoutTarball(r) = [r EXCEPT !.tarball = No]
  BY DEF No, withoutTarball

LEMMA PartReplaced ==
  ASSUME NEW s, NEW b, NEW t, NEW x
  PROVE  /\ [[semver |-> s, build |-> b, tarball |-> t] EXCEPT !.tarball = x] =
              [semver |-> s, build |-> b, tarball |-> x]
         /\ [[semver |-> s, build |-> b, tarball |-> t] EXCEPT !.build = x] =
              [semver |-> s, build |-> x, tarball |-> t]
  OBVIOUS

\* A version is what it is written from.
LEMMA VersionParts ==
  ASSUME NEW r \in Releases
  PROVE  /\ r = [semver |-> r.semver, build |-> r.build, tarball |-> r.tarball]
         /\ withoutTarball(r) = [semver |-> r.semver, build |-> r.build, tarball |-> No]
         /\ withoutTarball(r) \in Releases
         /\ upstreamSemver(withoutTarball(r)) = [semver |-> r.semver, build |-> None, tarball |-> No]
         /\ upstreamSemver(withoutTarball(r)) \in Releases
         /\ withoutTarball(upstreamSemver(withoutTarball(r))) = upstreamSemver(withoutTarball(r))
         /\ upstreamSemver(upstreamSemver(withoutTarball(r))) = upstreamSemver(withoutTarball(r))
         /\ withoutTarball(withoutTarball(r)) = withoutTarball(r)
<1>1. r = [semver |-> r.semver, build |-> r.build, tarball |-> r.tarball]
      /\ r.semver \in STRING /\ r.build \in STRING \cup {None}
  BY DEF Releases
<1>. DEFINE w == [semver |-> r.semver, build |-> r.build, tarball |-> No]
            u == [semver |-> r.semver, build |-> None, tarball |-> No]
<1>2. withoutTarball(r) = w
  <2>1. [[semver |-> r.semver, build |-> r.build, tarball |-> r.tarball] EXCEPT !.tarball = No] = w
    BY PartReplaced
  <2>. QED BY <1>1, <2>1, NoTarball
<1>3. w \in Releases /\ u \in Releases BY <1>1, NoTarball DEF Releases
<1>4. withoutTarball(w) = w /\ withoutTarball(u) = u
  BY PartReplaced, NoTarball
<1>5. upstreamSemver(w) = u /\ upstreamSemver(u) = u
  BY PartReplaced DEF upstreamSemver
<1>. QED BY <1>1, <1>2, <1>3, <1>4, <1>5

LEMMA BuildParts ==
  ASSUME NEW r \in Builds
  PROVE  /\ r \in Releases /\ withoutTarball(r) \in Builds /\ r.build # None
         /\ upstreamSemver(withoutTarball(r)) \notin Builds
<1>1. r = [semver |-> r.semver, build |-> r.build, tarball |-> r.tarball]
      /\ r.semver \in STRING /\ r.build \in STRING /\ r.tarball \in BOOLEAN
  BY DEF Builds
<1>2. r \in Releases BY <1>1 DEF Releases
<1>3. withoutTarball(r) \in Builds BY <1>1, <1>2, VersionParts, NoTarball DEF Builds
<1>4. upstreamSemver(withoutTarball(r)).build = None BY <1>2, VersionParts
<1>5. upstreamSemver(withoutTarball(r)) \notin Builds BY <1>4, NoneIsNoVersion DEF Builds
<1>. QED BY <1>1, <1>2, <1>3, <1>5, NoneIsNoVersion

\* Two versions that both name a build are the same only as one build.
LEMMA SameBuild ==
  ASSUME NEW r \in Builds, NEW c \in Builds, SameK8sVersion(r, c)
  PROVE  withoutTarball(r) = withoutTarball(c)
  BY BuildParts DEF SameK8sVersion

\* The same version is the same release.
LEMMA SameUpstream ==
  ASSUME NEW r \in Releases, NEW c \in Releases, SameK8sVersion(r, c)
  PROVE  upstreamSemver(withoutTarball(r)) = upstreamSemver(withoutTarball(c))
  BY VersionParts DEF SameK8sVersion

\* An answer with the build: the record names that build.
LEMMA BuildKept ==
  ASSUME NEW c \in Builds, NEW p \in Builds \cup {None}
  PROVE  LET v == withoutTarball(c)
             r == StringSemanticEquals(p, v)
         IN r \in Builds /\ withoutTarball(r) = v
<1>. DEFINE v == withoutTarball(c)
<1>1. v \in Builds /\ withoutTarball(v) = v BY BuildParts, VersionParts
<1>. HIDE DEF v
<1>2. ASSUME p # None, SameK8sVersion(p, v)
      PROVE  StringSemanticEquals(p, v) \in Builds /\ withoutTarball(StringSemanticEquals(p, v)) = v
  <2>1. StringSemanticEquals(p, v) = p BY <1>2, Zenon DEF StringSemanticEquals
  <2>. QED BY <1>1, <1>2, <2>1, SameBuild
<1>3. ASSUME ~(p # None /\ SameK8sVersion(p, v))
      PROVE  StringSemanticEquals(p, v) \in Builds /\ withoutTarball(StringSemanticEquals(p, v)) = v
  <2>1. StringSemanticEquals(p, v) = v BY <1>3, Zenon DEF StringSemanticEquals
  <2>. QED BY <1>1, <2>1
<1>4. StringSemanticEquals(p, v) \in Builds /\ withoutTarball(StringSemanticEquals(p, v)) = v BY <1>2, <1>3
<1>. QED BY <1>4 DEF v

LEMMA BuildRestored ==
  ASSUME NEW c \in Builds
  PROVE  StringSemanticEquals(c, withoutTarball(c)) = c
<1>1. withoutTarball(withoutTarball(c)) = withoutTarball(c) BY BuildParts, VersionParts
<1>2. c # None BY NoneIsNoVersion
<1>. QED BY <1>1, <1>2 DEF StringSemanticEquals, SameK8sVersion

\* An answer without: the record names that release.
LEMMA ReleaseKept ==
  ASSUME NEW c \in Builds, NEW p \in Releases \cup {None}
  PROVE  LET u == upstreamSemver(withoutTarball(c))
             r == StringSemanticEquals(p, u)
         IN r \in Releases /\ upstreamSemver(withoutTarball(r)) = u
<1>. DEFINE u == upstreamSemver(withoutTarball(c))
<1>1. u \in Releases /\ upstreamSemver(withoutTarball(u)) = u BY BuildParts, VersionParts
<1>. HIDE DEF u
<1>2. ASSUME p # None, SameK8sVersion(p, u)
      PROVE  StringSemanticEquals(p, u) \in Releases /\ upstreamSemver(withoutTarball(StringSemanticEquals(p, u))) = u
  <2>1. StringSemanticEquals(p, u) = p BY <1>2, Zenon DEF StringSemanticEquals
  <2>. QED BY <1>1, <1>2, <2>1, SameUpstream
<1>3. ASSUME ~(p # None /\ SameK8sVersion(p, u))
      PROVE  StringSemanticEquals(p, u) \in Releases /\ upstreamSemver(withoutTarball(StringSemanticEquals(p, u))) = u
  <2>1. StringSemanticEquals(p, u) = u BY <1>3, Zenon DEF StringSemanticEquals
  <2>. QED BY <1>1, <2>1
<1>4. StringSemanticEquals(p, u) \in Releases /\ upstreamSemver(withoutTarball(StringSemanticEquals(p, u))) = u BY <1>2, <1>3
<1>. QED BY <1>4 DEF u

LEMMA ReleaseRestored ==
  ASSUME NEW c \in Builds
  PROVE  StringSemanticEquals(c, upstreamSemver(withoutTarball(c))) = c
<1>1. withoutTarball(upstreamSemver(withoutTarball(c))) = upstreamSemver(withoutTarball(c))
  BY BuildParts, VersionParts
<1>2. c # None BY NoneIsNoVersion
<1>. QED BY <1>1, <1>2 DEF StringSemanticEquals, SameK8sVersion

-----------------------------------------------------------------------------
(* The disks of a template.                                                *)

Unused(n) == [1 .. n -> Sizes \cup {None}]
Answered == {d \in Disks : d.size.unit \in Upper}

LEMMA AmountIsStorageSize ==
  ASSUME NEW s
  PROVE  StorageSizeInGiB(s) = Amount(s)
  BY DEF StorageSizeInGiB, Amount, gibInTib

LEMMA DiskParts ==
  ASSUME NEW d \in Disks
  PROVE  /\ d = [size |-> d.size, type |-> d.type] /\ d.size \in Sizes /\ d.type \in STRING
         /\ Capacity(d) = [size |-> Amount(d.size), type |-> d.type]
         /\ Amount(d.size) \in Nat \ {0}
<1>1. d = [size |-> d.size, type |-> d.type] /\ d.size \in Sizes /\ d.type \in STRING
  BY DEF Disks
<1>. QED BY <1>1, AmountType DEF Capacity

\* A format in use is the first of those not taken yet.
LEMMA FirstHit ==
  ASSUME NEW n \in 0 .. 2, NEW hits \in SUBSET (1 .. n), hits # {}
  PROVE  Min(hits) \in hits /\ \A i \in hits : Min(hits) <= i
<1>1. hits \subseteq {1, 2} OBVIOUS
<1>2. \E m \in hits : \A i \in hits : m <= i
  <2>1. CASE 1 \in hits
    <3>1. \A i \in hits : 1 <= i BY <1>1
    <3>. QED BY <2>1, <3>1
  <2>2. CASE 1 \notin hits
    <3>1. hits = {2} BY <1>1, <2>2
    <3>. QED BY <3>1
  <2>. QED BY <2>1, <2>2
<1>. QED BY <1>2 DEF Min

LEMMA AnsweredAt ==
  ASSUME NEW a \in Seq(Answered), NEW i \in 1 .. Len(a)
  PROVE  a[i] \in Answered
  OBVIOUS

\* Each answered disk becomes one recorded disk of its capacity.
Accumulated(n) == [formats : Unused(n), disks : SUBSET Disks]

LEMMA PlaceKeeps ==
  ASSUME NEW n \in 0 .. 2, NEW acc \in Accumulated(n), NEW d \in Answered
  PROVE  /\ place(acc, d) \in Accumulated(n)
         /\ \E e \in Disks : place(acc, d).disks = acc.disks \cup {e} /\ Capacity(e) = Capacity(d)
<1>. DEFINE f == acc.formats
            hits == take(f, d.size)
<1>0. f \in Unused(n) /\ acc.disks \in SUBSET Disks BY DEF Accumulated
<1>1. d \in Disks /\ d.size.unit \in Upper BY DEF Answered
<1>2. hits \subseteq 1 .. n BY <1>0 DEF take, Unused
<1>3. CASE hits = {}
  <2>1. place(acc, d) = [formats |-> f, disks |-> acc.disks \cup {d}]
    BY <1>3 DEF place
  <2>. HIDE DEF f
  <2>2. place(acc, d) \in Accumulated(n) BY <1>0, <1>1, <2>1 DEF Accumulated
  <2>. QED BY <1>1, <2>1, <2>2
<1>4. CASE hits # {}
  <2>. DEFINE size == PreserveSizeFormat(f[Min(hits)], d.size)
              e == [size |-> size, type |-> d.type]
              g == [f EXCEPT ![Min(hits)] = None]
  <2>1. g \in Unused(n) BY <1>0 DEF Unused
  <2>2. size \in Sizes /\ Amount(size) = Amount(d.size) BY <1>1, DiskParts, PreserveAmount
  <2>3. place(acc, d) = [formats |-> g, disks |-> acc.disks \cup {e}]
    BY <1>4 DEF place
  <2>. HIDE DEF size, g
  <2>4. e \in Disks BY <1>1, <2>2, DiskParts DEF Disks
  <2>5. Capacity(e) = Capacity(d) BY <2>2 DEF Capacity
  <2>. HIDE DEF e
  <2>6. place(acc, d) \in Accumulated(n) BY <1>0, <2>1, <2>3, <2>4 DEF Accumulated
  <2>. QED BY <2>3, <2>4, <2>5, <2>6
<1>. QED BY <1>3, <1>4

\* An answered disk takes the first configured size of its capacity.
Used(f, i) == [f EXCEPT ![i] = None]
Sized(size, d) == [size |-> size, type |-> d.type]
Takes(n, acc, d, i) ==
  /\ acc \in Accumulated(n) /\ d \in Answered /\ i \in 1 .. n
  /\ acc.formats[i] \in Sizes /\ acc.formats[i].unit \in Upper
  /\ Amount(acc.formats[i]) = Amount(d.size)
  /\ \A j \in 1 .. n : (j < i /\ acc.formats[j] # None) => Amount(acc.formats[j]) # Amount(d.size)

LEMMA PlaceTakes ==
  ASSUME NEW n \in 0 .. 2, NEW acc, NEW d, NEW i, Takes(n, acc, d, i)
  PROVE  /\ place(acc, d) \in Accumulated(n)
         /\ place(acc, d).formats = Used(acc.formats, i)
         /\ place(acc, d).disks = acc.disks \cup {Sized(acc.formats[i], d)}
<1>. USE DEF Takes, Used, Sized
<1>. DEFINE f == acc.formats
            hits == take(f, d.size)
<1>0. f \in Unused(n) BY DEF Accumulated
<1>1. d \in Disks /\ d.size.unit \in Upper /\ d.size \in Sizes BY DiskParts DEF Answered
<1>2. hits = {j \in 1 .. n : f[j] # None /\ Amount(f[j]) = Amount(d.size)}
  BY <1>0, AmountIsStorageSize DEF take, Unused
<1>3. i \in hits BY <1>2, NoneIsNoSize
<1>. HIDE DEF hits
<1>4. Min(hits) \in hits /\ Min(hits) <= i BY <1>2, <1>3, FirstHit
<1>5. Min(hits) = i BY <1>2, <1>4
<1>6. PreserveSizeFormat(f[i], d.size) = f[i] BY <1>1, PreserveRestores
<1>7. place(acc, d) = [formats |-> [f EXCEPT ![i] = None],
                       disks |-> acc.disks \cup {[size |-> f[i], type |-> d.type]}]
  BY <1>3, <1>5, <1>6 DEF place, hits
<1>8. place(acc, d) \in Accumulated(n) BY PlaceKeeps
<1>9. /\ place(acc, d).formats = [f EXCEPT ![i] = None]
      /\ place(acc, d).disks = acc.disks \cup {[size |-> f[i], type |-> d.type]}
  <2>. HIDE DEF f
  <2>. QED BY <1>7
<1>. QED BY <1>8, <1>9

\* The disks of an answer are placed one after the other.
LEMMA PlacedInTurn ==
  ASSUME NEW f, NEW a, Len(a) \in 1 .. 2
  PROVE  LET z == [formats |-> f, disks |-> {}]
         IN disksToSet(f, a) = IF Len(a) = 1 THEN place(z, a[1]).disks
                               ELSE place(place(z, a[1]), a[2]).disks
<1>. DEFINE z == [formats |-> f, disks |-> {}]
            Step(p) == [i \in 0 .. Len(a) |-> IF i = 0 THEN z ELSE place(p[i - 1], a[i])]
            g == [i \in 0 .. Len(a) |-> IF i = 0 THEN z ELSE IF i = 1 THEN place(z, a[1])
                                        ELSE place(place(z, a[1]), a[2])]
            placed == CHOOSE p : p = Step(p)
<1>. HIDE DEF z
<1>0. Len(a) = 1 \/ Len(a) = 2 OBVIOUS
<1>1. g = Step(g)
  <2>1. ASSUME NEW i \in 0 .. Len(a)
        PROVE  g[i] = IF i = 0 THEN z ELSE place(g[i - 1], a[i])
    <3>1. i = 0 \/ i = 1 \/ i = 2
      <4>1. i \in 0 .. 1 \/ i \in 0 .. 2 BY <1>0, Zenon
      <4>. QED BY <4>1
    <3>2. CASE i = 0 BY <3>2
    <3>3. CASE i = 1
      <4>1. g[0] = z /\ g[1] = place(z, a[1]) BY <3>3
      <4>. QED BY <3>3, <4>1
    <3>4. CASE i = 2
      <4>1. g[1] = place(z, a[1]) /\ g[2] = place(place(z, a[1]), a[2]) BY <3>4
      <4>. QED BY <3>4, <4>1
    <3>. QED BY <3>1, <3>2, <3>3, <3>4
  <2>. QED BY <2>1
<1>2. placed = Step(placed) BY <1>1
<1>3. disksToSet(f, a) = placed[Len(a)].disks BY DEF disksToSet, z
<1>. HIDE DEF placed, g
<1>4. \A i \in 0 .. Len(a) : placed[i] = IF i = 0 THEN z ELSE place(placed[i - 1], a[i]) BY <1>2
<1>5. placed[0] = z /\ placed[1] = place(z, a[1]) BY <1>0, <1>4
<1>6. Len(a) = 2 => placed[2] = place(place(z, a[1]), a[2]) BY <1>4, <1>5
<1>7. disksToSet(f, a) = IF Len(a) = 1 THEN place(z, a[1]).disks ELSE place(place(z, a[1]), a[2]).disks
  BY <1>0, <1>3, <1>5, <1>6
<1>. QED BY <1>7 DEF z

\* The multisets of capacities a configuration of disks may name.
DiskConfigs == {disks \in SUBSET Disks : IsFiniteSet(disks) /\ Cardinality(disks) \in 1 .. 2}

LEMMA OneOrTwo ==
  ASSUME NEW c \in DiskConfigs
  PROVE  \E d, e \in Disks : c = {d, e}
<1>1. IsFiniteSet(c) /\ c \subseteq Disks /\ Cardinality(c) \in 1 .. 2 BY DEF DiskConfigs
<1>2. PICK d \in c : TRUE BY <1>1, FS_EmptySet
<1>3. IsFiniteSet(c \ {d}) /\ Cardinality(c \ {d}) = Cardinality(c) - 1 BY <1>1, <1>2, FS_RemoveElement
<1>4. CASE Cardinality(c) = 1
  <2>1. c \ {d} = {} BY <1>3, <1>4, FS_EmptySet
  <2>2. c = {d, d} BY <1>2, <2>1
  <2>. QED BY <1>1, <2>2
<1>5. CASE Cardinality(c) = 2
  <2>1. Cardinality(c \ {d}) = 1 BY <1>3, <1>5
  <2>2. PICK e : c \ {d} = {e} BY <1>3, <2>1, FS_Singleton
  <2>3. c = {d, e} /\ e \in c BY <1>2, <2>2
  <2>. QED BY <1>1, <2>3
<1>6. Cardinality(c) = 1 \/ Cardinality(c) = 2 BY <1>1
<1>. QED BY <1>4, <1>5, <1>6

LEMMA PairCounts ==
  ASSUME NEW d, NEW e
  PROVE  IsFiniteSet({d, e}) /\ Cardinality({d, e}) = IF d = e THEN 1 ELSE 2
<1>1. IsFiniteSet({d}) /\ Cardinality({d}) = 1 BY FS_Singleton
<1>2. /\ IsFiniteSet({d} \cup {e})
      /\ Cardinality({d} \cup {e}) = IF e \in {d} THEN Cardinality({d}) ELSE Cardinality({d}) + 1
  BY <1>1, FS_AddElement
<1>3. {d} \cup {e} = {d, e} OBVIOUS
<1>. QED BY <1>1, <1>2, <1>3

\* An answer lists one disk for each the configuration names: the capacities
\* of the one are those of the other, one to one.
LEMMA DiskAnswer ==
  ASSUME NEW c \in DiskConfigs, NEW a \in DiskAnswers(DisksMean(c))
  PROVE  /\ a \in Seq(Answered) /\ Len(a) = Cardinality(c) /\ Len(a) \in 1 .. 2
         /\ {Capacity(a[i]) : i \in 1 .. Len(a)} = {Capacity(d) : d \in c}
         /\ \A x \in {Capacity(d) : d \in c} :
              Cardinality({i \in 1 .. Len(a) : Capacity(a[i]) = x}) = DisksMean(c)[x]
<1>. DEFINE bag == DisksMean(c)
            caps == {Capacity(d) : d \in c}
<1>1. DOMAIN bag = caps /\ \A x \in caps : bag[x] = Cardinality({d \in c : Capacity(d) = x})
  BY DEF DisksMean
<1>. HIDE DEF bag
<1>2. PICK k \in 1 .. 2, q \in UNION {[1 .. m -> DOMAIN bag] : m \in 1 .. 2} :
         /\ q \in [1 .. k -> caps]
         /\ \A x \in caps : Cardinality({i \in DOMAIN q : q[i] = x}) = bag[x]
         /\ a = [i \in DOMAIN q |-> [size |-> [n |-> q[i].size, unit |-> "GiB"], type |-> q[i].type]]
  BY <1>1 DEF DiskAnswers, bag
<1>3. a = [i \in 1 .. k |-> [size |-> [n |-> q[i].size, unit |-> "GiB"], type |-> q[i].type]]
  BY <1>2
<1>4. Len(a) = k /\ Len(a) \in 1 .. 2 BY <1>3
<1>5. \A i \in 1 .. k : a[i] \in Answered /\ Capacity(a[i]) = q[i]
  <2>1. SUFFICES ASSUME NEW i \in 1 .. k PROVE a[i] \in Answered /\ Capacity(a[i]) = q[i]
    OBVIOUS
  <2>2. PICK d \in c : q[i] = Capacity(d) BY <1>2
  <2>3. d \in Disks BY DEF DiskConfigs
  <2>4. q[i] = [size |-> q[i].size, type |-> q[i].type] /\ q[i].size \in Nat \ {0} /\ q[i].type \in STRING
    BY <2>2, <2>3, DiskParts
  <2>. DEFINE s == [n |-> q[i].size, unit |-> "GiB"]
  <2>5. s \in Sizes /\ s.unit \in Upper /\ Amount(s) = q[i].size
    BY <2>4 DEF Sizes, Upper, Amount, InTiB
  <2>6. a[i] = [size |-> s, type |-> q[i].type] BY <1>3
  <2>. HIDE DEF s
  <2>7. a[i] \in Answered BY <2>4, <2>5, <2>6 DEF Answered, Disks
  <2>8. Capacity(a[i]) = q[i] BY <2>4, <2>5, <2>6 DEF Capacity
  <2>. QED BY <2>7, <2>8
<1>6. a \in Seq(Answered)
  <2>1. a = [i \in 1 .. k |-> a[i]] BY <1>3
  <2>2. a \in [1 .. k -> Answered] BY <1>5, <2>1, Zenon
  <2>. QED BY <1>4, <2>2
<1>7. \A x \in caps : Cardinality({i \in 1 .. k : Capacity(a[i]) = x}) = bag[x]
  <2>1. SUFFICES ASSUME NEW x \in caps PROVE Cardinality({i \in 1 .. k : Capacity(a[i]) = x}) = bag[x]
    OBVIOUS
  <2>2. {i \in 1 .. k : Capacity(a[i]) = x} = {i \in DOMAIN q : q[i] = x} BY <1>2, <1>5
  <2>. QED BY <1>2, <2>2
<1>8. IsFiniteSet(c) BY DEF DiskConfigs
<1>9. \A x \in caps : \E i \in 1 .. k : q[i] = x
  <2>1. SUFFICES ASSUME NEW d \in c, \A i \in 1 .. k : q[i] # Capacity(d) PROVE FALSE
    OBVIOUS
  <2>. DEFINE x == Capacity(d)
              same == {e \in c : Capacity(e) = x}
  <2>2. {i \in 1 .. k : Capacity(a[i]) = x} = {} BY <1>5, <2>1
  <2>3. Cardinality(same) = 0
    <3>1. x \in caps OBVIOUS
    <3>2. bag[x] = Cardinality(same) BY <1>1, <3>1
    <3>3. bag[x] = Cardinality({}) BY <1>7, <2>2, <3>1, Zenon
    <3>. QED BY <3>2, <3>3, FS_EmptySet
  <2>4. IsFiniteSet(same) BY <1>8, FS_Subset
  <2>5. d \in same OBVIOUS
  <2>. HIDE DEF same
  <2>. QED BY <2>3, <2>4, <2>5, FS_EmptySet
<1>10. {Capacity(a[i]) : i \in 1 .. k} = caps
  <2>1. \A i \in 1 .. k : Capacity(a[i]) = q[i] BY <1>5
  <2>2. \A i \in 1 .. k : q[i] \in caps BY <1>2
  <2>. HIDE DEF caps
  <2>3. \A i \in 1 .. k : Capacity(a[i]) \in caps BY <2>1, <2>2
  <2>4. \A x \in caps : \E i \in 1 .. k : Capacity(a[i]) = x BY <1>9, <2>1
  <2>. QED BY <2>3, <2>4
<1>11. k = Cardinality(c)
  <2>1. PICK d, e \in Disks : c = {d, e} BY OneOrTwo
  <2>2. caps = {Capacity(d), Capacity(e)} BY <2>1
  <2>3. CASE Capacity(d) = Capacity(e)
    <3>1. {i \in 1 .. k : Capacity(a[i]) = Capacity(d)} = 1 .. k BY <1>10, <2>2, <2>3
    <3>2. {b \in c : Capacity(b) = Capacity(d)} = c BY <2>1, <2>3
    <3>3. Cardinality(1 .. k) = k
      <4>1. Cardinality(1 .. k) = IF 1 > k THEN 0 ELSE k - 1 + 1 BY FS_Interval
      <4>. QED BY <4>1
    <3>. QED BY <1>1, <1>7, <2>2, <3>1, <3>2, <3>3
  <2>4. CASE Capacity(d) # Capacity(e)
    <3>1. Cardinality(c) = 2 BY <2>1, <2>4, PairCounts
    <3>2. PICK i \in 1 .. k : q[i] = Capacity(d) BY <1>9, <2>2
    <3>3. PICK j \in 1 .. k : q[j] = Capacity(e) BY <1>9, <2>2
    <3>4. i # j BY <2>4, <3>2, <3>3
    <3>. QED BY <3>1, <3>4
  <2>. QED BY <2>3, <2>4
<1>. QED BY <1>4, <1>6, <1>7, <1>10, <1>11 DEF bag

\* What a record of disks says of a template: its capacities, each at most as
\* often as the template has it.
DisksTold(v, r) ==
  DOMAIN DisksMean(r) = DOMAIN v /\ \A x \in DOMAIN v : DisksMean(r)[x] <= v[x]

LEMMA DisksPlaced ==
  ASSUME NEW n \in 0 .. 2, NEW f \in Unused(n), NEW a \in Seq(Answered), Len(a) \in 1 .. 2
  PROVE  \E h \in [1 .. Len(a) -> Disks] :
            /\ disksToSet(f, a) = {h[i] : i \in 1 .. Len(a)}
            /\ \A i \in 1 .. Len(a) : Capacity(h[i]) = Capacity(a[i])
<1>. DEFINE z == [formats |-> f, disks |-> {}]
<1>1. disksToSet(f, a) = IF Len(a) = 1 THEN place(z, a[1]).disks ELSE place(place(z, a[1]), a[2]).disks
  BY PlacedInTurn
<1>2. a[1] \in Answered /\ (Len(a) = 2 => a[2] \in Answered) BY AnsweredAt
<1>3. z \in Accumulated(n) /\ z.disks = {} BY DEF Accumulated
<1>. DEFINE y == place(z, a[1])
<1>. HIDE DEF z
<1>4. y \in Accumulated(n) BY <1>2, <1>3, PlaceKeeps
<1>5. PICK e \in Disks : y.disks = z.disks \cup {e} /\ Capacity(e) = Capacity(a[1])
  BY <1>2, <1>3, PlaceKeeps
<1>6. CASE Len(a) = 1
  <2>. DEFINE h == [i \in 1 .. Len(a) |-> e]
  <2>1. h \in [1 .. Len(a) -> Disks] OBVIOUS
  <2>2. disksToSet(f, a) = {e} BY <1>1, <1>3, <1>5, <1>6
  <2>3. {h[i] : i \in 1 .. Len(a)} = {e} BY <1>6
  <2>4. \A i \in 1 .. Len(a) : Capacity(h[i]) = Capacity(a[i]) BY <1>5, <1>6
  <2>. HIDE DEF h
  <2>. QED BY <2>1, <2>2, <2>3, <2>4
<1>7. CASE Len(a) = 2
  <2>. HIDE DEF y
  <2>1. PICK b \in Disks : place(y, a[2]).disks = y.disks \cup {b} /\ Capacity(b) = Capacity(a[2])
    BY <1>2, <1>4, <1>7, PlaceKeeps
  <2>. DEFINE h == [i \in 1 .. Len(a) |-> IF i = 1 THEN e ELSE b]
  <2>2. h \in [1 .. Len(a) -> Disks] OBVIOUS
  <2>3. disksToSet(f, a) = {e, b}
    <3>1. disksToSet(f, a) = place(y, a[2]).disks BY <1>1, <1>7 DEF y
    <3>. QED BY <1>3, <1>5, <2>1, <3>1
  <2>4. {h[i] : i \in 1 .. Len(a)} = {e, b}
    <3>1. 1 .. Len(a) = {1, 2} BY <1>7
    <3>2. h[1] = e /\ h[2] = b BY <1>7
    <3>. HIDE DEF h
    <3>. QED BY <3>1, <3>2
  <2>5. \A i \in 1 .. Len(a) : Capacity(h[i]) = Capacity(a[i])
    <3>1. ASSUME NEW i \in 1 .. Len(a) PROVE i = 1 \/ i = 2 BY <1>7
    <3>. QED BY <1>5, <2>1, <3>1
  <2>. HIDE DEF h
  <2>. QED BY <2>2, <2>3, <2>4, <2>5
<1>8. Len(a) = 1 \/ Len(a) = 2 OBVIOUS
<1>. QED BY <1>6, <1>7, <1>8

LEMMA DisksKept ==
  ASSUME NEW c \in DiskConfigs, NEW a \in DiskAnswers(DisksMean(c)),
         NEW n \in 0 .. 2, NEW f \in Unused(n)
  PROVE  disksToSet(f, a) \in SUBSET Disks /\ DisksTold(DisksMean(c), disksToSet(f, a))
<1>. DEFINE r == disksToSet(f, a)
            k == Len(a)
            caps == {Capacity(d) : d \in c}
            bag == DisksMean(c)
<1>1. /\ a \in Seq(Answered) /\ k \in 1 .. 2
      /\ {Capacity(a[i]) : i \in 1 .. k} = caps
      /\ \A x \in caps : Cardinality({i \in 1 .. k : Capacity(a[i]) = x}) = bag[x]
  BY DiskAnswer
<1>2. DOMAIN bag = caps BY DEF DisksMean
<1>3. PICK h \in [1 .. k -> Disks] :
        /\ r = {h[i] : i \in 1 .. k}
        /\ \A i \in 1 .. k : Capacity(h[i]) = Capacity(a[i])
  BY <1>1, DisksPlaced
<1>. HIDE DEF k, caps, bag, r
<1>4. r \in SUBSET Disks BY <1>3
<1>5. {Capacity(d) : d \in r} = caps
  <2>1. {Capacity(d) : d \in r} = {Capacity(h[i]) : i \in 1 .. k} BY <1>3
  <2>2. {Capacity(h[i]) : i \in 1 .. k} = {Capacity(a[i]) : i \in 1 .. k} BY <1>3
  <2>. QED BY <1>1, <2>1, <2>2
<1>6. DOMAIN DisksMean(r) = caps BY <1>5 DEF DisksMean
<1>7. ASSUME NEW x \in caps PROVE DisksMean(r)[x] <= bag[x]
  <2>. DEFINE S == {i \in 1 .. k : Capacity(a[i]) = x}
              T == {d \in r : Capacity(d) = x}
              F == [i \in S |-> h[i]]
  <2>1. DisksMean(r)[x] = Cardinality(T) BY <1>5 DEF DisksMean
  <2>2. bag[x] = Cardinality(S) BY <1>1
  <2>3. IsFiniteSet(S)
    <3>1. IsFiniteSet(1 .. k) BY <1>1, FS_Interval
    <3>. QED BY <3>1, FS_Subset
  <2>4. F \in [S -> T] BY <1>3
  <2>5. \A d \in T : \E i \in S : F[i] = d BY <1>3
  <2>. HIDE DEF S, T, F
  <2>6. F \in Surjection(S, T) BY <2>4, <2>5, Fun_IsSurj
  <2>7. Cardinality(T) <= Cardinality(S) BY <2>3, <2>6, FS_Surjection
  <2>. QED BY <2>1, <2>2, <2>7
<1>8. DisksTold(bag, r) BY <1>2, <1>6, <1>7 DEF DisksTold
<1>. QED BY <1>4, <1>8 DEF r, bag

\* Two configured sizes, taken by the answered disks of their amounts.
LEMMA PlaceTwo ==
  ASSUME NEW f \in [1 .. 2 -> Sizes], \A m \in 1 .. 2 : f[m].unit \in Upper,
         NEW b \in Answered, NEW c \in Answered, NEW i \in 1 .. 2, NEW j \in 1 .. 2, i # j,
         Amount(b.size) = Amount(f[i]), Amount(c.size) = Amount(f[j]),
         Amount(f[1]) = Amount(f[2]) => i = 1
  PROVE  place(place([formats |-> f, disks |-> {}], b), c).disks =
            {Sized(f[i], b), Sized(f[j], c)}
<1>. DEFINE z == [formats |-> f, disks |-> {}]
            y == place(z, b)
            d == Sized(f[i], b)
            e == Sized(f[j], c)
<1>1. z \in Accumulated(2) /\ z.formats = f /\ z.disks = {} BY DEF Accumulated, Unused
<1>. HIDE DEF z
<1>3. f[i] \in Sizes /\ f[i].unit \in Upper /\ f[j] \in Sizes /\ f[j].unit \in Upper OBVIOUS
<1>4. \A m \in 1 .. 2 : (m < i /\ f[m] # None) => Amount(f[m]) # Amount(b.size)
  <2>1. \A m \in 1 .. 2 : m < i => m = 1 /\ i = 2 OBVIOUS
  <2>. QED BY <2>1
<1>5. y \in Accumulated(2) /\ y.formats = Used(f, i) /\ y.disks = {d}
  <2>1. 2 \in 0 .. 2 OBVIOUS
  <2>2. /\ y \in Accumulated(2) /\ y.formats = Used(z.formats, i)
        /\ y.disks = z.disks \cup {Sized(z.formats[i], b)}
    <3>1. z.formats[i] \in Sizes /\ z.formats[i].unit \in Upper BY <1>1, <1>3
    <3>2. Amount(z.formats[i]) = Amount(b.size) BY <1>1
    <3>3. \A m \in 1 .. 2 : (m < i /\ z.formats[m] # None) => Amount(z.formats[m]) # Amount(b.size)
      BY <1>1, <1>4
    <3>4. Takes(2, z, b, i) BY <1>1, <3>1, <3>2, <3>3 DEF Takes
    <3>. QED BY <2>1, <3>4, PlaceTakes
  <2>. HIDE DEF y
  <2>. QED BY <1>1, <2>2
<1>. HIDE DEF y
<1>6. /\ y.formats[j] = f[j] /\ y.formats[i] = None
      /\ \A m \in 1 .. 2 : m < j => m = i
  BY <1>5 DEF Used
<1>7. place(y, c).disks = y.disks \cup {Sized(y.formats[j], c)}
  <2>1. 2 \in 0 .. 2 OBVIOUS
  <2>2. \A m \in 1 .. 2 : (m < j /\ y.formats[m] # None) => Amount(y.formats[m]) # Amount(c.size)
    BY <1>6
  <2>3. y.formats[j] \in Sizes /\ y.formats[j].unit \in Upper BY <1>3, <1>6
  <2>4. Amount(y.formats[j]) = Amount(c.size) BY <1>6
  <2>5. Takes(2, y, c, j) BY <1>5, <2>2, <2>3, <2>4 DEF Takes
  <2>. QED BY <2>1, <2>5, PlaceTakes
<1>. HIDE DEF d
<1>8. place(y, c).disks = {d} \cup {e} BY <1>5, <1>6, <1>7
<1>. HIDE DEF e
<1>9. place(y, c).disks = {d, e} BY <1>8
<1>. QED BY <1>9 DEF d, e, y, z

LEMMA FormatsType ==
  ASSUME NEW p, p = None \/ p \in DiskConfigs, NEW f \in configuredSizeFormats(p)
  PROVE  \E n \in 0 .. 2 : f \in Unused(n)
<1>1. CASE p = None
  <2>1. f = <<>> BY <1>1 DEF configuredSizeFormats
  <2>2. f \in [1 .. 0 -> Sizes \cup {None}] BY <2>1
  <2>. QED BY <2>2 DEF Unused
<1>2. CASE p # None
  <2>1. p \in DiskConfigs /\ IsFiniteSet(p) /\ p \subseteq Disks /\ Cardinality(p) \in 0 .. 2
    BY <1>2 DEF DiskConfigs
  <2>2. PICK s \in SetToSeqs(p) : f = [i \in DOMAIN s |-> s[i].size]
    BY <1>2 DEF configuredSizeFormats
  <2>3. s \in Seq(p) /\ Len(s) = Cardinality(p) BY <2>1, ElementsOf
  <2>4. DOMAIN s = 1 .. Cardinality(p) /\ \A i \in 1 .. Cardinality(p) : s[i] \in Disks
    BY <2>1, <2>3
  <2>5. f \in [1 .. Cardinality(p) -> Sizes \cup {None}] BY <2>2, <2>4, DiskParts
  <2>. QED BY <2>1, <2>5 DEF Unused
<1>. QED BY <1>1, <1>2

\* The configured disks come back, but for those in lower case and those that
\* are alike in capacity and differ in spelling and in type.
SettledDisks(c) ==
  /\ \A d \in c : d.size.unit \in Upper
  /\ \A d, e \in c : (d.size # e.size /\ d.type # e.type) => Capacity(d).size # Capacity(e).size

LEMMA SizedBack ==
  ASSUME NEW d \in Disks, NEW a \in Disks, a.type = d.type
  PROVE  Sized(d.size, a) = d
  BY DiskParts DEF Sized

LEMMA DisksRestored ==
  ASSUME NEW c \in DiskConfigs, c # None, SettledDisks(c),
         NEW a \in DiskAnswers(DisksMean(c)), NEW f \in configuredSizeFormats(c)
  PROVE  disksToSet(f, a) = c
<1>1. IsFiniteSet(c) /\ c \subseteq Disks BY DEF DiskConfigs
<1>2. PICK s \in SetToSeqs(c) : f = [i \in DOMAIN s |-> s[i].size] BY DEF configuredSizeFormats
<1>3. s \in Seq(c) /\ Len(s) = Cardinality(c) /\ ToSet(s) = c BY <1>1, ElementsOf
<1>. DEFINE k == Len(a)
<1>4. /\ a \in Seq(Answered) /\ k = Cardinality(c) /\ k \in 1 .. 2
      /\ {Capacity(a[i]) : i \in 1 .. k} = {Capacity(d) : d \in c}
  BY DiskAnswer
<1>5. DOMAIN s = 1 .. k /\ (\A i \in 1 .. k : s[i] \in c) /\ c = {s[i] : i \in 1 .. k}
  BY <1>3, <1>4 DEF ToSet
<1>6. /\ \A i \in 1 .. k : f[i] = s[i].size /\ f[i] \in Sizes /\ f[i].unit \in Upper
      /\ f = [i \in 1 .. k |-> f[i]]
  BY <1>1, <1>2, <1>5, DiskParts DEF SettledDisks
<1>7. \A i \in 1 .. k : a[i] \in Answered /\ a[i] \in Disks BY <1>4, AnsweredAt DEF Answered
<1>8. disksToSet(f, a) = IF k = 1 THEN place([formats |-> f, disks |-> {}], a[1]).disks
                         ELSE place(place([formats |-> f, disks |-> {}], a[1]), a[2]).disks
  BY <1>4, PlacedInTurn
<1>. HIDE DEF k
<1>9. CASE k = 1
  <2>. DEFINE d == s[1]
              z == [formats |-> f, disks |-> {}]
  <2>1. 1 .. k = {1} BY <1>9
  <2>2. c = {d} /\ d \in Disks BY <1>1, <1>5, <2>1
  <2>3. Capacity(a[1]) = Capacity(d)
    <3>1. {Capacity(a[i]) : i \in 1 .. k} = {Capacity(a[1])} BY <2>1
    <3>2. {Capacity(b) : b \in c} = {Capacity(d)} BY <2>2
    <3>. QED BY <1>4, <3>1, <3>2
  <2>4. a[1] \in Disks /\ a[1].type = d.type /\ Amount(a[1].size) = Amount(d.size)
    BY <1>7, <2>1, <2>2, <2>3, DiskParts
  <2>5. z \in Accumulated(1) /\ z.formats = f /\ z.disks = {} BY <1>6, <1>9 DEF Accumulated, Unused
  <2>6. f[1] = d.size /\ f[1] \in Sizes /\ f[1].unit \in Upper BY <1>6, <2>1
  <2>. HIDE DEF z, d
  <2>7. Takes(1, z, a[1], 1)
    <3>1. \A j \in 1 .. 1 : ~(j < 1) OBVIOUS
    <3>. QED BY <1>7, <2>1, <2>4, <2>5, <2>6, <3>1 DEF Takes
  <2>8. place(z, a[1]).disks = {} \cup {Sized(d.size, a[1])} BY <2>5, <2>6, <2>7, PlaceTakes
  <2>9. Sized(d.size, a[1]) = d BY <2>2, <2>4, SizedBack
  <2>10. disksToSet(f, a) = place(z, a[1]).disks BY <1>8, <1>9 DEF z
  <2>. QED BY <2>2, <2>8, <2>9, <2>10
<1>10. CASE k = 2
  <2>. DEFINE d == s[1]
              e == s[2]
  <2>1. 1 .. k = {1, 2} BY <1>10
  <2>2. c = {d, e} /\ d \in Disks /\ e \in Disks BY <1>1, <1>5, <2>1
  <2>3. d # e
    <3>. HIDE DEF d, e
    <3>1. Cardinality({d, e}) = IF d = e THEN 1 ELSE 2 BY PairCounts
    <3>2. Cardinality({d, e}) = 2 BY <1>4, <1>10, <2>2
    <3>. QED BY <3>1, <3>2
  <2>4. /\ a[1] \in Answered /\ a[2] \in Answered /\ a[1] \in Disks /\ a[2] \in Disks
        /\ f[1] = d.size /\ f[2] = e.size
    BY <1>6, <1>7, <2>1
  <2>5. f \in [1 .. 2 -> Sizes] /\ \A m \in 1 .. 2 : f[m].unit \in Upper BY <1>6, <1>10
  <2>6. {Capacity(a[1]), Capacity(a[2])} = {Capacity(d), Capacity(e)}
    <3>1. {Capacity(a[i]) : i \in 1 .. k} = {Capacity(a[1]), Capacity(a[2])} BY <2>1
    <3>2. {Capacity(b) : b \in c} = {Capacity(d), Capacity(e)} BY <2>2
    <3>. QED BY <1>4, <3>1, <3>2
  <2>7. disksToSet(f, a) = place(place([formats |-> f, disks |-> {}], a[1]), a[2]).disks
    BY <1>8, <1>10
  <2>8. (d.size # e.size /\ d.type # e.type) => Amount(d.size) # Amount(e.size)
    BY <2>2, DiskParts DEF SettledDisks
  <2>. HIDE DEF d, e
  <2>9. ASSUME NEW x \in {d, e}, NEW b \in {a[1], a[2]}, Capacity(b) = Capacity(x)
        PROVE  b.type = x.type /\ Amount(b.size) = Amount(x.size)
    BY <2>2, <2>4, <2>9, DiskParts
  <2>10. CASE Capacity(a[1]) = Capacity(d) /\ Capacity(a[2]) = Capacity(e)
    <3>1. /\ a[1].type = d.type /\ Amount(a[1].size) = Amount(f[1])
          /\ a[2].type = e.type /\ Amount(a[2].size) = Amount(f[2])
      BY <2>4, <2>9, <2>10
    <3>2. place(place([formats |-> f, disks |-> {}], a[1]), a[2]).disks = {Sized(f[1], a[1]), Sized(f[2], a[2])}
      BY <2>4, <2>5, <3>1, PlaceTwo
    <3>3. Sized(f[1], a[1]) = d /\ Sized(f[2], a[2]) = e BY <2>2, <2>4, <3>1, SizedBack
    <3>. QED BY <2>2, <2>7, <3>2, <3>3
  <2>11. CASE Capacity(a[1]) = Capacity(e) /\ Capacity(a[2]) = Capacity(d) /\ Capacity(d) # Capacity(e)
    <3>1. /\ a[1].type = e.type /\ Amount(a[1].size) = Amount(e.size)
          /\ a[2].type = d.type /\ Amount(a[2].size) = Amount(d.size)
      BY <2>9, <2>11
    <3>2. CASE Amount(d.size) # Amount(e.size)
      <4>1. place(place([formats |-> f, disks |-> {}], a[1]), a[2]).disks = {Sized(f[2], a[1]), Sized(f[1], a[2])}
        BY <2>4, <2>5, <3>1, <3>2, PlaceTwo
      <4>2. Sized(f[2], a[1]) = e /\ Sized(f[1], a[2]) = d BY <2>2, <2>4, <3>1, SizedBack
      <4>. QED BY <2>2, <2>7, <4>1, <4>2
    <3>3. CASE Amount(d.size) = Amount(e.size)
      <4>1. d.type # e.type BY <2>2, <2>11, <3>3, DiskParts
      <4>2. d.size = e.size BY <2>8, <3>3, <4>1
      <4>3. place(place([formats |-> f, disks |-> {}], a[1]), a[2]).disks = {Sized(f[1], a[1]), Sized(f[2], a[2])}
        BY <2>4, <2>5, <3>1, <3>3, PlaceTwo
      <4>4. Sized(f[1], a[1]) = e /\ Sized(f[2], a[2]) = d BY <2>2, <2>4, <3>1, <4>2, SizedBack
      <4>. QED BY <2>2, <2>7, <4>3, <4>4
    <3>. QED BY <3>2, <3>3
  <2>12. \/ Capacity(a[1]) = Capacity(d) /\ Capacity(a[2]) = Capacity(e)
         \/ Capacity(a[1]) = Capacity(e) /\ Capacity(a[2]) = Capacity(d) /\ Capacity(d) # Capacity(e)
    BY <2>6
  <2>. QED BY <2>10, <2>11, <2>12
<1>. QED BY <1>4, <1>9, <1>10

-----------------------------------------------------------------------------
(* What each kind of value means, how it is answered and what is kept.     *)

LEMMA KindCases ==
  ASSUME NEW k \in Kinds
  PROVE  /\ k \in {"size", "disks", "ports", "targets", "cluster", "clusterV2", "pool"}
         /\ \A s \in Spellings[k] : s \in Schema[k]
  BY SpellingsAssumption DEF Kinds, Schema

LEMMA SchemaOf ==
  /\ Schema["size"] = Sizes /\ Schema["disks"] = DiskConfigs /\ Schema["ports"] = PortList
  /\ Schema["targets"] = TargetConfigs
  /\ Schema["cluster"] = Builds /\ Schema["clusterV2"] = Builds /\ Schema["pool"] = Builds
  BY DEF Schema, DiskConfigs, PortList, TargetConfigs, AddressList, TargetList

LEMMA RecordsOf ==
  /\ Records["size"] = Sizes /\ Records["disks"] = SUBSET Disks /\ Records["ports"] = PortList
  /\ Records["targets"] = TargetRecords
  /\ Records["cluster"] = Builds /\ Records["clusterV2"] = Releases /\ Records["pool"] = Builds
  BY DEF Records, PortList, TargetRecords

LEMMA SizeRules ==
  ASSUME NEW c, NEW v, NEW p, NEW a
  PROVE  /\ Means("size", c) = Amount(c) /\ Answers("size", v) = SizeAnswers(v)
         /\ Kept("size", p, a) = {PreserveSizeFormat(p, a)}
  BY DEF Means, Answers, Kept

LEMMA DiskRules ==
  ASSUME NEW c, NEW v, NEW p, NEW a
  PROVE  /\ Means("disks", c) = DisksMean(c) /\ Answers("disks", v) = DiskAnswers(v)
         /\ Kept("disks", p, a) = {disksToSet(f, a) : f \in configuredSizeFormats(p)}
  BY DEF Means, Answers, Kept

LEMMA PortRules ==
  ASSUME NEW c, NEW v, NEW p, NEW a
  PROVE  /\ Means("ports", c) = PortsMean(c) /\ Answers("ports", v) = SetToSeqs(v)
         /\ Kept("ports", p, a) = {preserveListFormat(p, a, TRUE)}
  BY DEF Means, Answers, Kept

LEMMA TargetRules ==
  ASSUME NEW c, NEW v, NEW p, NEW a
  PROVE  /\ Means("targets", c) = TargetsMean(c.list) /\ Answers("targets", v) = SetToSeqs(v)
         /\ Kept("targets", p, a) = {applyRuleObjectsToState(p, a)}
  BY DEF Means, Answers, Kept

LEMMA ClusterRules ==
  ASSUME NEW c, NEW v, NEW p, NEW a
  PROVE  /\ Means("cluster", c) = withoutTarball(c) /\ Answers("cluster", v) = {v}
         /\ Kept("cluster", p, a) = {StringSemanticEquals(p, a)}
  BY DEF Means, Answers, Kept, withoutTarball

LEMMA ClusterV2Rules ==
  ASSUME NEW c, NEW v, NEW p, NEW a
  PROVE  /\ Means("clusterV2", c) = withoutTarball(c) /\ Answers("clusterV2", v) = {upstreamSemver(v)}
         /\ Kept("clusterV2", p, a) = {StringSemanticEquals(p, a)}
  BY DEF Means, Answers, Kept, withoutTarball, upstreamSemver

LEMMA PoolRules ==
  ASSUME NEW c, NEW v, NEW p, NEW a
  PROVE  /\ Means("pool", c) = withoutTarball(c) /\ Answers("pool", v) = {v}
         /\ Kept("pool", p, a) = {StringSemanticEquals(p, a)}
  BY DEF Means, Answers, Kept, withoutTarball

\* What a fresh record says of the object, under every kind.
Told(k, v, r) ==
  /\ k = "size" => Amount(r) = v
  /\ k = "disks" => DisksTold(v, r)
  /\ k = "ports" => PortsMean(r) = v
  /\ k = "targets" => TargetsTold(v, r)
  /\ k \in {"cluster", "pool"} => withoutTarball(r) = v
  /\ k = "clusterV2" => upstreamSemver(withoutTarball(r)) = upstreamSemver(v)

Prior(k, p) == p = None \/ (p \in Records[k] /\ (k = "disks" => p \in DiskConfigs))

LEMMA ConfigIsPrior ==
  ASSUME NEW k \in Kinds, NEW c \in Spellings[k]
  PROVE  c \in Schema[k] /\ c \in Records[k] /\ Prior(k, c)
<1>1. c \in Schema[k] BY KindCases
<1>2. DiskConfigs \subseteq SUBSET Disks BY DEF DiskConfigs
<1>3. TargetConfigs \subseteq TargetRecords BY TargetConfigType
<1>4. Builds \subseteq Releases BY BuildParts
<1>5. c \in Records[k] BY <1>1, <1>2, <1>3, <1>4, KindCases, SchemaOf, RecordsOf
<1>6. k = "disks" => c \in DiskConfigs BY <1>1, SchemaOf
<1>. QED BY <1>1, <1>5, <1>6 DEF Prior

\* Whatever the record was, what is kept of an answer tells the value it names.
LEMMA Recording ==
  ASSUME NEW k \in Kinds, NEW v \in Values(k), NEW p, Prior(k, p),
         NEW a \in Answers(k, v), NEW r \in Kept(k, p, a)
  PROVE  r \in Records[k] /\ Told(k, v, r)
<1>1. PICK c \in Spellings[k] : v = Means(k, c) BY DEF Values
<1>2. c \in Schema[k] BY ConfigIsPrior
<1>3. CASE k = "size"
  <2>1. c \in Sizes /\ v = Amount(c) /\ a \in SizeAnswers(v) /\ r = PreserveSizeFormat(p, a)
    BY <1>1, <1>2, <1>3, SchemaOf, SizeRules
  <2>2. a \in Sizes /\ a.unit \in Upper /\ Amount(a) = v BY <2>1, SizeAnswer
  <2>3. r \in Sizes /\ Amount(r) = v BY <2>1, <2>2, PreserveAmount
  <2>. QED BY <1>3, <2>3, RecordsOf DEF Told
<1>4. CASE k = "disks"
  <2>1. c \in DiskConfigs /\ v = DisksMean(c) /\ a \in DiskAnswers(v)
    BY <1>1, <1>2, <1>4, SchemaOf, DiskRules
  <2>2. PICK f \in configuredSizeFormats(p) : r = disksToSet(f, a) BY <1>4, DiskRules
  <2>3. p = None \/ p \in DiskConfigs BY <1>4 DEF Prior
  <2>4. PICK n \in 0 .. 2 : f \in Unused(n) BY <2>3, FormatsType
  <2>5. r \in SUBSET Disks /\ DisksTold(v, r) BY <2>1, <2>2, <2>4, DisksKept
  <2>. QED BY <1>4, <2>5, RecordsOf DEF Told
<1>5. CASE k = "ports"
  <2>1. c \in PortList /\ v = PortsMean(c) /\ a \in SetToSeqs(v) /\ r = preserveListFormat(p, a, TRUE)
    BY <1>1, <1>2, <1>5, SchemaOf, PortRules
  <2>2. p \in PortList \cup {None} BY <1>5, RecordsOf DEF Prior
  <2>3. r \in PortList /\ PortsMean(r) = v BY <2>1, <2>2, PortsKept
  <2>. QED BY <1>5, <2>3, RecordsOf DEF Told
<1>6. CASE k = "targets"
  <2>1. /\ c \in TargetConfigs /\ v = TargetsMean(c.list) /\ a \in SetToSeqs(v)
        /\ r = applyRuleObjectsToState(p, a)
    BY <1>1, <1>2, <1>6, SchemaOf, TargetRules
  <2>2. p \in TargetRecords \cup {None} BY <1>6, RecordsOf DEF Prior
  <2>3. r \in TargetRecords /\ TargetsTold(v, r) BY <2>1, <2>2, TargetsKept
  <2>. QED BY <1>6, <2>3, RecordsOf DEF Told
<1>7. CASE k \in {"cluster", "pool"}
  <2>1. c \in Builds /\ v = withoutTarball(c) /\ a = v /\ r = StringSemanticEquals(p, a)
    BY <1>1, <1>2, <1>7, SchemaOf, ClusterRules, PoolRules
  <2>2. p \in Builds \cup {None} BY <1>7, RecordsOf DEF Prior
  <2>3. r \in Builds /\ withoutTarball(r) = v BY <2>1, <2>2, BuildKept
  <2>. QED BY <1>7, <2>3, RecordsOf DEF Told
<1>8. CASE k = "clusterV2"
  <2>1. c \in Builds /\ v = withoutTarball(c) /\ a = upstreamSemver(v) /\ r = StringSemanticEquals(p, a)
    BY <1>1, <1>2, <1>8, SchemaOf, ClusterV2Rules
  <2>2. p \in Releases \cup {None} BY <1>8, RecordsOf DEF Prior
  <2>3. r \in Releases /\ upstreamSemver(withoutTarball(r)) = upstreamSemver(v)
    BY <2>1, <2>2, ReleaseKept
  <2>. QED BY <1>8, <2>3, RecordsOf DEF Told
<1>. QED BY <1>3, <1>4, <1>5, <1>6, <1>7, <1>8, KindCases

\* No value is no set of disks.  A hypothesis of the theorems and not part of
\* SpellingsAssumption: TLC cannot decide it, there are infinitely many sizes.
NoneIsNoSet == None \notin SUBSET Disks

LEMMA SomeRecord ==
  ASSUME NoneIsNoSet, NEW k \in Kinds, NEW r \in Records[k]
  PROVE  r # None
<1>1. CASE k = "disks" BY <1>1, RecordsOf DEF NoneIsNoSet
<1>2. CASE k # "disks"
  <2>1. DOMAIN Records = {"size", "disks", "ports", "targets", "cluster", "clusterV2", "pool"}
    BY DEF Records
  <2>2. k \in DOMAIN Records \ {"disks"} BY <1>2, <2>1, KindCases
  <2>. QED BY <2>2, SpellingsAssumption
<1>. QED BY <1>1, <1>2

\* The spellings the provider puts back.
SettledSpelling(k, c) ==
  /\ k = "size" => c.unit \in Upper
  /\ k = "targets" => SettledTargets(c)
  /\ k = "ports" => IsInjective(expanded(c, TRUE))
  /\ k = "disks" => SettledDisks(c)

\* What the API answers for the configured value, or for another build of its
\* release where it names no build, is recorded as configured.
Same(k, v, w) == v = w \/ (k = "clusterV2" /\ upstreamSemver(v) = upstreamSemver(w))

LEMMA Restoring ==
  ASSUME NoneIsNoSet, NEW k \in Kinds, NEW c \in Spellings[k], SettledSpelling(k, c),
         NEW v, Same(k, v, Means(k, c)), NEW a \in Answers(k, v), NEW r \in Kept(k, c, a)
  PROVE  r = c
<1>1. c \in Schema[k] /\ c \in Records[k] BY ConfigIsPrior
<1>2. c # None BY <1>1, SomeRecord
<1>3. CASE k = "size"
  <2>1. c \in Sizes /\ c.unit \in Upper /\ a \in SizeAnswers(Amount(c)) /\ r = PreserveSizeFormat(c, a)
    BY <1>1, <1>3, SchemaOf, SizeRules DEF SettledSpelling, Same
  <2>2. a \in Sizes /\ a.unit \in Upper /\ Amount(a) = Amount(c) BY <2>1, SizeAnswer
  <2>. QED BY <2>1, <2>2, PreserveRestores
<1>4. CASE k = "disks"
  <2>1. c \in DiskConfigs /\ SettledDisks(c) /\ a \in DiskAnswers(DisksMean(c))
    BY <1>1, <1>4, SchemaOf, DiskRules DEF SettledSpelling, Same
  <2>2. PICK f \in configuredSizeFormats(c) : r = disksToSet(f, a) BY <1>4, DiskRules
  <2>. QED BY <1>2, <2>1, <2>2, DisksRestored
<1>5. CASE k = "ports"
  <2>1. /\ c \in PortList /\ a \in SetToSeqs(PortsMean(c)) /\ r = preserveListFormat(c, a, TRUE)
        /\ IsInjective(expanded(c, TRUE))
    BY <1>1, <1>5, SchemaOf, PortRules DEF SettledSpelling, Same
  <2>. QED BY <1>2, <2>1, PortsKept
<1>6. CASE k = "targets"
  <2>1. /\ c \in TargetConfigs /\ a \in SetToSeqs(TargetsMean(c.list))
        /\ r = applyRuleObjectsToState(c, a) /\ SettledTargets(c)
    BY <1>1, <1>6, SchemaOf, TargetRules DEF SettledSpelling, Same
  <2>. QED BY <1>2, <2>1, TargetsRestored
<1>7. CASE k \in {"cluster", "pool"}
  <2>1. c \in Builds /\ a = withoutTarball(c) /\ r = StringSemanticEquals(c, a)
    BY <1>1, <1>7, SchemaOf, ClusterRules, PoolRules DEF Same
  <2>. QED BY <2>1, BuildRestored
<1>8. CASE k = "clusterV2"
  <2>1. c \in Builds /\ a = upstreamSemver(withoutTarball(c)) /\ r = StringSemanticEquals(c, a)
    BY <1>1, <1>8, SchemaOf, ClusterV2Rules DEF Same
  <2>. QED BY <2>1, ReleaseRestored
<1>. QED BY <1>3, <1>4, <1>5, <1>6, <1>7, <1>8, KindCases

LEMMA UnitCases == ASSUME NEW s \in Sizes PROVE s.unit \in Upper <=> s.unit \notin {"gib", "tib"}
  BY DEF Sizes, Upper

LEMMA UnsettledIs ==
  ASSUME kind \in Kinds, config \in Spellings[kind], ~Unsettled
  PROVE  SettledSpelling(kind, config)
<1>1. config \in Schema[kind] BY ConfigIsPrior
<1>2. ASSUME kind = "size" PROVE config.unit \in Upper
  <2>1. config \in Sizes BY <1>1, <1>2, SchemaOf
  <2>. QED BY <1>2, <2>1, UnitCases DEF Unsettled
<1>3. ASSUME kind = "disks" PROVE SettledDisks(config)
  <2>1. config \in SUBSET Disks BY <1>1, <1>3, SchemaOf DEF DiskConfigs
  <2>2. \A d \in config : d.size \in Sizes BY <2>1, DiskParts
  <2>3. \A d \in config : d.size.unit \in Upper BY <1>3, <2>2, UnitCases DEF Unsettled
  <2>4. \A d, e \in config : (d.size # e.size /\ d.type # e.type) => Capacity(d).size # Capacity(e).size
    BY <1>3 DEF Unsettled
  <2>. QED BY <2>3, <2>4 DEF SettledDisks
<1>4. kind = "ports" => IsInjective(expanded(config, TRUE)) BY DEF Unsettled
<1>5. kind = "targets" => SettledTargets(config) BY DEF Unsettled, SettledTargets
<1>. QED BY <1>2, <1>3, <1>4, <1>5 DEF SettledSpelling

-----------------------------------------------------------------------------
(* The inductive invariant: what a fresh record tells of the object.       *)

Truthful ==
  /\ record # None => object \in Values(kind) /\ (kind = "disks" => fresh)
  /\ fresh => Told(kind, object, record)

Inv == TypeOK /\ AppliedAsPlanned /\ Truthful

LEMMA MeansIsValue ==
  ASSUME NEW k \in Kinds, NEW c \in Spellings[k]
  PROVE  Means(k, c) \in Values(k)
  BY DEF Values

\* What the handler saves tells the value, and is a record.
LEMMA SavingTells ==
  ASSUME NoneIsNoSet, kind \in Kinds, NEW v \in Values(kind), NEW p, Prior(kind, p),
         NEW r \in Recorded(p, v)
  PROVE  r \in Records[kind] /\ r # None /\ Told(kind, v, r)
<1>1. PICK a \in Answers(kind, v) : r \in Kept(kind, p, a) BY DEF Recorded
<1>2. r \in Records[kind] /\ Told(kind, v, r) BY <1>1, Recording
<1>. QED BY <1>2, SomeRecord

LEMMA SavingRestores ==
  ASSUME NoneIsNoSet, kind \in Kinds, config \in Spellings[kind], ~Unsettled,
         NEW v, Same(kind, v, Means(kind, config)), NEW r \in Recorded(config, v)
  PROVE  r = config
<1>1. PICK a \in Answers(kind, v) : r \in Kept(kind, config, a) BY DEF Recorded
<1>. QED BY <1>1, UnsettledIs, Restoring

\* A run that applies a value tells it, and records the configured spelling
\* where it is a settled one.
LEMMA AppliedTells ==
  ASSUME NoneIsNoSet, Inv, UNCHANGED <<kind, config>>, tainted' \in BOOLEAN,
         UNCHANGED <<edits, drifts>>, NEW v \in Values(kind), Applied(v),
         ~Unsettled => Same(kind, v, Means(kind, config))
  PROVE  Inv'
<1>0. /\ kind \in Kinds /\ config \in Spellings[kind] /\ kind' = kind /\ config' = config
      /\ edits' \in 0 .. MaxEdits /\ drifts' \in 0 .. MaxDrifts
  BY DEF Inv, TypeOK
<1>1. object' = v /\ record' \in Recorded(config, v) /\ fresh' = TRUE
  BY DEF Applied
<1>2. outcome' = IF record' = config THEN "applied" ELSE "inconsistent"
  BY DEF Applied
<1>3. record' \in Records[kind] /\ record' # None /\ Told(kind, v, record')
  BY <1>0, <1>1, ConfigIsPrior, SavingTells
<1>4. TypeOK' BY <1>0, <1>1, <1>2, <1>3 DEF TypeOK
<1>5. ~Unsettled => record' = config BY <1>0, <1>1, SavingRestores
<1>6. Unsettled' <=> Unsettled BY <1>0 DEF Unsettled
<1>7. AppliedAsPlanned' BY <1>2, <1>5, <1>6 DEF AppliedAsPlanned
<1>8. Truthful' BY <1>0, <1>1, <1>3 DEF Truthful
<1>. QED BY <1>4, <1>7, <1>8 DEF Inv

\* An update sends what is configured, or the object has it already.
LEMMA PatchedSame ==
  ASSUME Inv, PlansUpdate, ~ImmutableStringModifier, NEW v \in Patched
  PROVE  v \in Values(kind) /\ (~Unsettled => Same(kind, v, Means(kind, config)))
<1>1. /\ kind \in Kinds /\ config \in Spellings[kind] /\ record # None /\ fresh
      /\ record \in Records[kind] /\ object \in Values(kind) /\ Told(kind, object, record)
  BY DEF Inv, TypeOK, Truthful, PlansUpdate
<1>2. Means(kind, config) \in Values(kind) BY <1>1, MeansIsValue
<1>3. CASE kind \notin Clusters
  <2>1. v = Means(kind, config) \/ (v = object /\ kind = "ports" /\ config = <<>>)
    BY <1>3 DEF Patched
  <2>2. v # Means(kind, config) => Unsettled BY <2>1 DEF Unsettled
  <2>. QED BY <1>1, <1>2, <2>1, <2>2 DEF Same
<1>4. CASE kind \in Clusters
  <2>1. v = object BY <1>4 DEF Patched, Clusters
  <2>2. SameK8sVersion(record, config) BY <1>4 DEF ImmutableStringModifier
  <2>3. config \in Schema[kind] BY <1>1, ConfigIsPrior
  <2>4. CASE kind = "cluster"
    <3>1. record \in Builds /\ config \in Builds BY <1>1, <2>3, <2>4, RecordsOf, SchemaOf
    <3>2. object = withoutTarball(record) BY <1>1, <2>4 DEF Told
    <3>3. Means(kind, config) = withoutTarball(config) BY <2>4, ClusterRules
    <3>. QED BY <1>1, <2>1, <2>2, <3>1, <3>2, <3>3, SameBuild DEF Same
  <2>5. CASE kind = "clusterV2"
    <3>1. record \in Releases /\ config \in Builds BY <1>1, <2>3, <2>5, RecordsOf, SchemaOf
    <3>2. upstreamSemver(withoutTarball(record)) = upstreamSemver(object) BY <1>1, <2>5 DEF Told
    <3>3. Means(kind, config) = withoutTarball(config) BY <2>5, ClusterV2Rules
    <3>4. upstreamSemver(object) = upstreamSemver(withoutTarball(config))
      BY <2>2, <3>1, <3>2, SameUpstream, BuildParts
    <3>. QED BY <1>1, <2>1, <2>5, <3>3, <3>4 DEF Same
  <2>. QED BY <1>4, <2>4, <2>5 DEF Clusters
<1>. QED BY <1>3, <1>4

LEMMA Bounds == MaxEdits \in Nat /\ MaxDrifts \in Nat
  BY SpellingsAssumption

LEMMA InitInv == Init => Inv
<1>. SUFFICES ASSUME Init PROVE Inv OBVIOUS
<1>1. TypeOK
  <2>1. 0 \in 0 .. MaxEdits /\ 0 \in 0 .. MaxDrifts BY Bounds
  <2>2. /\ kind \in Kinds /\ config \in Spellings[kind] /\ object \in {None} \cup Values(kind)
        /\ record = None /\ fresh = FALSE /\ tainted = FALSE /\ outcome = "none"
        /\ edits = 0 /\ drifts = 0
    BY DEF Init
  <2>3. record = None => ~fresh /\ ~tainted BY <2>2
  <2>4. fresh \in BOOLEAN /\ tainted \in BOOLEAN BY <2>2
  <2>. QED BY <2>1, <2>2, <2>3, <2>4 DEF TypeOK
<1>2. AppliedAsPlanned BY DEF Init, AppliedAsPlanned
<1>3. Truthful BY DEF Init, Truthful
<1>. QED BY <1>1, <1>2, <1>3 DEF Inv

\* Reading changes the record alone.
LEMMA ReadTells ==
  ASSUME NoneIsNoSet, Inv, object \in Values(kind), NEW p, Prior(kind, p),
         record' \in Recorded(p, object), fresh' = TRUE,
         UNCHANGED <<kind, config, object, tainted, outcome, edits, drifts>>
  PROVE  Inv'
<1>1. kind \in Kinds BY DEF Inv, TypeOK
<1>2. record' \in Records[kind] /\ record' # None /\ Told(kind, object, record')
  BY <1>1, SavingTells
<1>3. TypeOK' BY <1>2 DEF Inv, TypeOK
<1>4. Unsettled' <=> Unsettled BY DEF Unsettled
<1>5. AppliedAsPlanned' BY <1>4 DEF Inv, AppliedAsPlanned
<1>6. Truthful' BY <1>2 DEF Truthful
<1>. QED BY <1>3, <1>5, <1>6 DEF Inv

LEMMA NextInv == ASSUME NoneIsNoSet, Inv, [Next]_vars PROVE Inv'
<1>0. kind \in Kinds /\ config \in Spellings[kind] /\ object \in {None} \cup Values(kind)
  BY DEF Inv, TypeOK
<1>1. Means(kind, config) \in Values(kind) BY <1>0, MeansIsValue
<1>2. CASE ImportState
  <2>1. object \in Values(kind) BY <1>0, <1>2 DEF ImportState
  <2>. QED BY <1>2, <2>1, ReadTells DEF ImportState, Prior
<1>3. CASE Read
  <2>1. object \in Values(kind) /\ kind # "disks" BY <1>3 DEF Inv, Truthful, Read
  <2>2. Prior(kind, record) BY <1>3, <2>1 DEF Inv, TypeOK, Read, Prior
  <2>. QED BY <1>3, <2>1, <2>2, ReadTells DEF Read
<1>4. CASE Create
  BY <1>1, <1>4, AppliedTells DEF Create, Same
<1>5. CASE Replace
  BY <1>1, <1>5, AppliedTells DEF Replace, Same
<1>6. CASE Refused
  <2>. USE <1>6 DEF Refused
  <2>1. TypeOK' BY DEF Inv, TypeOK
  <2>2. AppliedAsPlanned' BY DEF AppliedAsPlanned
  <2>3. Truthful' BY DEF Inv, Truthful
  <2>. QED BY <2>1, <2>2, <2>3 DEF Inv
<1>7. CASE Update
  <2>1. PICK v \in Patched : Applied(v) BY <1>7 DEF Update
  <2>2. v \in Values(kind) /\ (~Unsettled => Same(kind, v, Means(kind, config)))
    BY <1>7, PatchedSame DEF Update
  <2>3. tainted' \in BOOLEAN BY <1>7 DEF Inv, TypeOK, Update
  <2>. QED BY <1>7, <2>1, <2>2, <2>3, AppliedTells DEF Update
<1>8. CASE ChangeConfig
  <2>. USE <1>8 DEF ChangeConfig
  <2>1. edits' \in 0 .. MaxEdits BY Bounds DEF Inv, TypeOK
  <2>2. TypeOK' BY <2>1 DEF Inv, TypeOK
  <2>3. AppliedAsPlanned' BY DEF AppliedAsPlanned
  <2>4. Truthful' BY DEF Inv, Truthful
  <2>. QED BY <2>2, <2>3, <2>4 DEF Inv
<1>9. CASE Drift
  <2>. USE <1>9 DEF Drift
  <2>1. drifts' \in 0 .. MaxDrifts BY Bounds DEF Inv, TypeOK
  <2>2. TypeOK' BY <2>1 DEF Inv, TypeOK
  <2>3. Unsettled' <=> Unsettled BY DEF Unsettled
  <2>4. AppliedAsPlanned' BY <2>3 DEF Inv, AppliedAsPlanned
  <2>5. Truthful' BY DEF Inv, Truthful
  <2>. QED BY <2>2, <2>4, <2>5 DEF Inv
<1>10. CASE UNCHANGED vars
  <2>. USE <1>10 DEF vars
  <2>1. TypeOK' BY DEF Inv, TypeOK
  <2>2. Unsettled' <=> Unsettled BY DEF Unsettled
  <2>3. AppliedAsPlanned' BY <2>2 DEF Inv, AppliedAsPlanned
  <2>4. Truthful' BY DEF Inv, Truthful
  <2>. QED BY <2>1, <2>3, <2>4 DEF Inv
<1>. QED BY <1>2, <1>3, <1>4, <1>5, <1>6, <1>7, <1>8, <1>9, <1>10 DEF Next, Run

\* A record that equals the configuration tells the object the configured
\* value, or what the record cannot tell is different.
LEMMA InvHidesNothing == ASSUME NoneIsNoSet, Inv PROVE NoDriftHidden
<1>. SUFFICES ASSUME record # None, fresh, record = config
              PROVE  object = Means(kind, config) \/ Indistinct
  BY DEF NoDriftHidden
<1>1. /\ kind \in Kinds /\ config \in Spellings[kind] /\ object \in Values(kind)
      /\ Told(kind, object, config)
  BY DEF Inv, TypeOK, Truthful
<1>2. config \in Schema[kind] BY <1>1, ConfigIsPrior
<1>3. CASE kind = "size"
  BY <1>1, <1>3, SizeRules DEF Told
<1>4. CASE kind = "disks"
  <2>1. DisksTold(object, config) BY <1>1, <1>4 DEF Told
  <2>2. Means(kind, config) = DisksMean(config) BY <1>4, DiskRules
  <2>. QED BY <1>4, <2>1, <2>2 DEF DisksTold, Indistinct
<1>5. CASE kind = "ports"
  BY <1>1, <1>5, PortRules DEF Told
<1>6. CASE kind = "targets"
  <2>1. PICK o \in Spellings[kind] : object = Means(kind, o) BY <1>1 DEF Values
  <2>2. o \in TargetConfigs /\ config \in TargetConfigs
    BY <1>1, <1>2, <1>6, <2>1, ConfigIsPrior, SchemaOf
  <2>3. /\ object = TargetsMean(o.list) /\ Means(kind, config) = TargetsMean(config.list)
        /\ TargetsTold(object, config)
    BY <1>1, <1>6, <2>1, TargetRules DEF Told
  <2>4. o.list \in TargetList /\ config.list \in TargetList BY <2>2, TargetConfigType
  <2>5. CASE config.field = "source"
    <3>1. ToSet(config.list) \ {""} = object \ ids BY <2>3, <2>5 DEF TargetsTold
    <3>2. "10.1.2.3" \notin object BY <2>3, <2>4, MeaningCanonical
    <3>3. "10.1.2.3" \notin ToSet(config.list) BY <3>1, <3>2
    <3>4. ToSet(config.list) \subseteq STRING \ {""} BY <2>4, ElementsFinite DEF TargetList
    <3>5. Means(kind, config) = object \ ids BY <2>3, <2>4, <3>1, <3>3, <3>4, MeaningCanonical
    <3>. QED BY <1>6, <2>5, <3>5 DEF Indistinct
  <2>6. CASE config.field # "source"
    BY <2>3, <2>6 DEF TargetsTold
  <2>. QED BY <2>5, <2>6
<1>7. CASE kind \in {"cluster", "pool"}
  BY <1>1, <1>7, ClusterRules, PoolRules DEF Told
<1>8. CASE kind = "clusterV2"
  <2>1. PICK o \in Spellings[kind] : object = Means(kind, o) BY <1>1 DEF Values
  <2>2. o \in Builds /\ config \in Builds BY <1>1, <1>2, <1>8, <2>1, ConfigIsPrior, SchemaOf
  <2>3. object = withoutTarball(o) BY <1>8, <2>1, ClusterV2Rules
  <2>4. upstreamSemver(withoutTarball(config)) = upstreamSemver(withoutTarball(o))
    BY <1>1, <1>8, <2>3 DEF Told
  <2>5. config.semver = o.semver BY <2>2, <2>4, BuildParts, VersionParts
  <2>6. object.semver = o.semver BY <2>2, <2>3, BuildParts, VersionParts
  <2>. QED BY <1>8, <2>5, <2>6 DEF Indistinct
<1>. QED BY <1>1, <1>3, <1>4, <1>5, <1>6, <1>7, <1>8, KindCases

LEMMA Invariance == ASSUME NoneIsNoSet PROVE Spec => []Inv
<1>1. Init => Inv BY InitInv
<1>2. Inv /\ [Next]_vars => Inv' BY NextInv
<1>. QED BY <1>1, <1>2, PTL DEF Spec

\* The object is a value of its kind, and a record, when there is one, has
\* the form its kind is recorded in: whatever the API answers, nothing but a
\* size, a list or a version gets into the state file.
THEOREM TypeCorrect == ASSUME NoneIsNoSet PROVE Spec => []TypeOK
<1>1. Inv => TypeOK BY DEF Inv
<1>. QED BY <1>1, Invariance, PTL

\* Whatever the configurations, a run records what it planned, character for
\* character, unless the spelling is one of those listed as unsettled: the
\* handlers put the configured spelling back over every answer of the API
\* (storage_size.go, instance_template/util.go, firewall_rule/util.go,
\* k8s_version_type.go).
THEOREM RecordsAsPlanned == ASSUME NoneIsNoSet PROVE Spec => []AppliedAsPlanned
<1>1. Inv => AppliedAsPlanned BY DEF Inv
<1>. QED BY <1>1, Invariance, PTL

\* When a plan on a fresh record has nothing to do the object is what the
\* configuration says, but for what the record cannot tell: no spelling is
\* kept over a real difference, whatever the values and however they changed.
THEOREM NothingHidden == ASSUME NoneIsNoSet PROVE Spec => []NoDriftHidden
<1>1. ASSUME Inv PROVE NoDriftHidden BY <1>1, InvHidesNothing
<1>2. Inv => NoDriftHidden BY <1>1
<1>. QED BY <1>2, Invariance, PTL

=============================================================================
