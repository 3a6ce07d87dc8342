------------------------------ MODULE MCBuckets ------------------------------
(***************************************************************************)
(* Buckets for TLC: blocks that differ in what is hard about them.         *)
(***************************************************************************)
EXTENDS Buckets, TLC

CONSTANTS t, here, there

MCTags == {t}
MCLocations == {here, there}
MCPeriods == {1, 4, 5}     \* with Half = 2 a period of 4 is sent as 0, one of 5 as 1

Plain == [location |-> here, versioning |-> FALSE, lock |-> FALSE, period |-> None, tags |-> None]
Locked == [Plain EXCEPT !.versioning = TRUE, !.lock = TRUE]
MCConfigs ==
  {Plain, [Plain EXCEPT !.location = there], [Plain EXCEPT !.tags = NoTags], [Plain EXCEPT !.period = 1],
   [Plain EXCEPT !.lock = TRUE], [Plain EXCEPT !.versioning = TRUE, !.tags = t], [Locked EXCEPT !.tags = t]}
    \cup [location : {here}, versioning : {TRUE}, lock : {TRUE}, period : {1, 4, 5}, tags : {None}]

Symmetry == Permutations(Resources)
=============================================================================
