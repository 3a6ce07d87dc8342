--------------------------- MODULE ManagedObject ---------------------------
(***************************************************************************)
(* What a resource of the provider promises, whatever its kind: it has one *)
(* object at most, recorded once it is known to exist, and the record goes *)
(* only when the object has gone.  A creation cut short may leave an       *)
(* object behind; nothing else does.                                       *)
(***************************************************************************)
EXTENDS Naturals

VARIABLES
  exists,  \* the object is there
  known,   \* Terraform has a record of it
  lost     \* how many objects were left behind

vars == <<exists, known, lost>>

Init == exists = FALSE /\ known = FALSE /\ lost = 0

\* A new object, recorded at once or later.
Make ==
  /\ ~exists /\ ~known
  /\ exists' = TRUE /\ known' \in BOOLEAN /\ UNCHANGED lost

Learn ==
  /\ exists /\ ~known
  /\ known' = TRUE /\ UNCHANGED <<exists, lost>>

\* The object goes, by Delete or by somebody else's hand.
Unmake ==
  /\ exists /\ known
  /\ exists' = FALSE /\ known' \in BOOLEAN /\ UNCHANGED lost

Forget ==
  /\ known /\ ~exists
  /\ known' = FALSE /\ UNCHANGED <<exists, lost>>

\* A creation is cut short, before the object exists or after.
Abandon ==
  /\ ~known
  /\ exists' = FALSE /\ lost' = lost + 1 /\ UNCHANGED known

Next == Make \/ Learn \/ Unmake \/ Forget \/ Abandon

Spec == Init /\ [][Next]_vars
=============================================================================
