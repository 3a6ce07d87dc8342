---------------------------- MODULE MCSpellings ----------------------------
(***************************************************************************)
(* Spellings for TLC: for each kind the configurations that differ in      *)
(* spelling only, and some that differ in value.                           *)
(***************************************************************************)
EXTENDS Spellings

GiB(n) == [n |-> n, unit |-> "GiB"]
TiB(n) == [n |-> n, unit |-> "TiB"]
MCSizes ==
  {GiB(512), GiB(1024), GiB(1536), GiB(2048), TiB(1), TiB(2), [n |-> 1, unit |-> "tib"], [n |-> 1024, unit |-> "gib"]}

Disk(size, type) == [size |-> size, type |-> type]
MCDisks ==
  {{Disk(GiB(1024), "ssd")}, {Disk(GiB(512), "ssd"), Disk(TiB(1), "ssd")}, {Disk(GiB(512), "ssd"), Disk(GiB(1024), "ssd")},
   {Disk(TiB(1), "ssd"), Disk(GiB(1024), "ssd")}, {Disk(TiB(1), "ssd"), Disk(GiB(1024), "shared")},
   {Disk(TiB(1), "ssd"), Disk(TiB(1), "shared")}, {Disk(GiB(512), "ssd"), Disk([n |-> 1, unit |-> "tib"], "ssd")}}

MCPorts == {<<>>, <<"*">>, <<"1-65535">>, <<"22">>, <<"22", "443">>, <<"443", "22">>, <<"22", "*">>,
            <<"22", "22">>, <<"*", "1-65535">>}

Lists == {<<"10.1.2.3">>, <<"10.1.2.3/32">>, <<"10.0.0.0/24">>, <<"10.0.0.0/24", "10.1.2.3/32">>, <<"10.1.2.3/32", "10.0.0.0/24">>,
          <<"10.1.2.3/32", "10.1.2.3/32">>}
MCTargets ==
  [field : {"source"}, list : Lists]
    \cup [field : {"sources"}, list : Lists \cup {<<"subnet">>, <<"10.0.0.0/24", "subnet">>, <<"10.1.2.3", "10.1.2.3/32">>}]

MCVersions == [semver : {"1.35.5", "1.36.0"}, build : {"22", "23"}, tarball : BOOLEAN]

MCSpellingsOf ==
  [k \in {"size", "disks", "ports", "targets"} \cup Versions |->
     CASE k = "size" -> MCSizes [] k = "disks" -> MCDisks [] k = "ports" -> MCPorts
       [] k = "targets" -> MCTargets [] OTHER -> MCVersions]
=============================================================================
