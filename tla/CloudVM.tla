------------------------------ MODULE CloudVM -------------------------------
(***************************************************************************)
(* The Crusoe compute API as internal/vm sees it: instances with a power   *)
(* state, a type, attached disks and one network interface, changed by     *)
(* asynchronous operations.  The API is not part of the repository, so     *)
(* everything here is modelled from how internal/vm uses it:               *)
(*                                                                         *)
(*   - a request either starts an operation or is refused; an operation    *)
(*     succeeds as a whole or fails without effect;                        *)
(*   - an instance runs one operation at a time, and refuses a request     *)
(*     while it runs one;                                                  *)
(*   - a resize needs the instance off, a public IP update needs it        *)
(*     running (vm_resource.go says both), and disks attach and detach in  *)
(*     any power state (CHANGELOG.md:581).                                 *)
(***************************************************************************)

CONSTANTS
  VMs,         \* identities an instance can have
  Types,       \* instance types
  Disks,       \* disk IDs
  Modes,       \* disk access modes
  Detached,    \* marks a disk that is not attached
  Nics,        \* configurations of the single network interface
  None         \* "no such thing", for every optional value of the model

VARIABLES
  vm,          \* vm[v]: what instance v is, None if there is no such instance
  job          \* job[v]: the operation running on v, or None

cloudVars == <<vm, job>>

StateRunning == "STATE_RUNNING"
StateStopped == "STATE_STOPPED"
StateShutoff == "STATE_SHUTOFF"

\* A power state none of the provider's constants names (starting, stopping).
OtherState == "STATE_OTHER"

Powers == {StateRunning, StateStopped, StateShutoff, OtherState}

Off(power) == power \in {StateStopped, StateShutoff}

DiskMap  == [Disks -> Modes \cup {Detached}]
Want     == [type : Types, disks : DiskMap, nic : Nics]
Instance == [power : Powers, type : Types, disks : DiskMap, nic : Nics]

\* An operation: the disks its request names, and the plan the request was
\* built from if it carries any of it.
Job ==
  [kind : {"create", "attach", "nic", "resize"}, ids : SUBSET Disks, want : Want]
    \cup [kind : {"detach", "stop", "start", "delete"}, ids : SUBSET Disks, want : {None}]

ASSUME NoneAssumption ==
  /\ None \notin VMs \cup Nics \cup Want \cup Instance \cup Job
  /\ Detached \notin Modes

CloudTypeOK ==
  /\ vm \in [VMs -> Instance \cup {None}]
  /\ job \in [VMs -> Job \cup {None}]

CloudInit ==
  /\ vm = [v \in VMs |-> None]
  /\ job = [v \in VMs |-> None]

-----------------------------------------------------------------------------

\* Whether a request to change v starts an operation.
Accepts(v) == vm[v] # None /\ job[v] = None

\* Whether an operation may succeed on instance i.
Admits(i, j) ==
  /\ j.kind = "resize" => Off(i.power)
  /\ j.kind = "nic" => i.power = StateRunning

Without(disks, ids)   == [d \in Disks |-> IF d \in ids THEN Detached ELSE disks[d]]
With(disks, ids, new) == [d \in Disks |-> IF d \in ids THEN new[d] ELSE disks[d]]

Created(want) ==
  [power |-> StateRunning, type |-> want.type, disks |-> want.disks, nic |-> want.nic]

\* What instance i is once operation j has succeeded on it.
Effect(i, j) ==
  CASE j.kind = "create" -> Created(j.want)
    [] j.kind = "detach" -> [i EXCEPT !.disks = Without(i.disks, j.ids)]
    [] j.kind = "attach" -> [i EXCEPT !.disks = With(i.disks, j.ids, j.want.disks)]
    [] j.kind = "nic"    -> [i EXCEPT !.nic = j.want.nic]
    [] j.kind = "resize" -> [i EXCEPT !.type = j.want.type]
    [] j.kind = "stop"   -> [i EXCEPT !.power = IF Off(i.power) THEN i.power ELSE StateStopped]
    [] j.kind = "start"  -> [i EXCEPT !.power = StateRunning]
    [] j.kind = "delete" -> None

\* The operation of v succeeds.
Completes(v) ==
  /\ job[v] # None
  /\ Admits(vm[v], job[v])
  /\ vm' = [vm EXCEPT ![v] = Effect(vm[v], job[v])]
  /\ job' = [job EXCEPT ![v] = None]

\* The operation of v fails and leaves the instance as it was.
Fails(v) ==
  /\ job[v] # None
  /\ job' = [job EXCEPT ![v] = None]
  /\ UNCHANGED vm

\* What somebody working in the console can make of instance i in one step.
Altered(i) ==
  ({[i EXCEPT !.power = p] : p \in Powers} \cup {[i EXCEPT !.type = t] : t \in Types}
    \cup {[i EXCEPT !.disks = m] : m \in DiskMap} \cup {[i EXCEPT !.nic = n] : n \in Nics}
    \cup {None}) \ {i}

\* Somebody else changes or deletes an idle instance.
AlteredElsewhere(v) ==
  /\ Accepts(v)
  /\ \E i \in Altered(vm[v]) : vm' = [vm EXCEPT ![v] = i]
  /\ UNCHANGED job
=============================================================================
