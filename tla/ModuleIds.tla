------------------------------ MODULE ModuleIds ------------------------------
(***************************************************************************)
(* The ids by which frames know modules: each pipeline has an IdxManager   *)
(* that gives them out, a module keeps the one it was given, or the value  *)
(* its member id_ has from the start, for the constructor does not set it. *)
(* A module is offered to one pipeline at a time; its owner may give it to *)
(* the next when the first is gone.                                        *)
(***************************************************************************)
EXTENDS Integers, FiniteSets, FiniteSetsExt

CONSTANTS
  Modules, Pipelines,
  Nobody,      \* no pipeline
  MaxModules,  \* GetMaxModuleNumber, the bits of module_id_mask_
  Uninitialised \* the values the member id_ of a new module may hold

IdsAssumption ==
  MaxModules \in Nat /\ IsFiniteSet(Modules) /\ Nobody \notin Pipelines \cup Modules

VARIABLES
  ids,        \* module -> id_
  container,  \* module -> container_, or Nobody
  members,    \* pipeline -> modules_map_
  mask,       \* pipeline -> module_id_mask_ of its IdxManager, as a set of bits
  alive,      \* the pipelines and modules that exist
  unset       \* history: the modules whose id_ is still the value it began with

idVars == <<ids, container, members, mask, alive, unset>>

Invalid == -1  \* INVALID_MODULE_ID, larger than every id

IdsInit ==
  /\ ids \in [Modules -> Uninitialised]
  /\ container = [m \in Modules |-> Nobody]
  /\ members = [p \in Pipelines |-> {}]
  /\ mask = [p \in Pipelines |-> {}]
  /\ alive = Modules \cup Pipelines
  /\ unset = {m \in Modules : ids[m] # Invalid}

FreeIds(p) == (0..MaxModules - 1) \ mask[p]
GetModuleIdx(p) == IF FreeIds(p) = {} THEN Invalid ELSE Min(FreeIds(p))

\* Module::GetId asks the pipeline only where id_ is INVALID_MODULE_ID.
GetId(p, m) == IF ids[m] = Invalid THEN GetModuleIdx(p) ELSE ids[m]

\* A module that gets no id is refused, with the pipeline as its container.
AddModule(p, m) ==
  /\ {p, m} \subseteq alive /\ container[m] = Nobody
  /\ container' = [container EXCEPT ![m] = p]
  /\ ids' = [ids EXCEPT ![m] = GetId(p, m)]
  /\ mask' = [mask EXCEPT ![p] = @ \cup (IF ids[m] = Invalid THEN {GetModuleIdx(p)} \ {Invalid}
                                         ELSE {})]
  /\ members' = [members EXCEPT ![p] = @ \cup (IF GetId(p, m) = Invalid THEN {} ELSE {m})]
  /\ UNCHANGED <<alive, unset>>

\* Its modules forget their ids, SetContainer(nullptr).  A module it refused
\* goes on pointing to it.
DestroyPipeline(p) ==
  /\ p \in alive
  /\ container' = [m \in Modules |-> IF m \in members[p] THEN Nobody ELSE container[m]]
  /\ ids' = [m \in Modules |-> IF m \in members[p] THEN Invalid ELSE ids[m]]
  /\ unset' = unset \ members[p]
  /\ members' = [members EXCEPT ![p] = {}] /\ alive' = alive \ {p}
  /\ UNCHANGED mask

\* A pipeline holds its members: the last pointer to a module is the owner's
\* only when no pipeline has it.  ReturnModuleIdx leaves at once for Invalid.
DestroyModule(m) ==
  /\ m \in alive /\ \A p \in Pipelines : m \notin members[p]
  /\ mask' = IF container[m] \in alive
             THEN [mask EXCEPT ![container[m]] = @ \ {ids[m]}] ELSE mask
  /\ alive' = alive \ {m}
  /\ UNCHANGED <<ids, container, members, unset>>

IdsNext ==
  \/ \E p \in Pipelines : DestroyPipeline(p) \/ \E m \in Modules : AddModule(p, m)
  \/ \E m \in Modules : DestroyModule(m)

(***************************************************************************)
(* Two modules of a pipeline share an id, and with it the bit of a frame's *)
(* mask that says who passed it, only when one of them still has the value *)
(* its id_ began with.  No id is ever given back: the 32-bit shift of      *)
(* ReturnModuleIdx, which would take others with it, is never reached.     *)
(***************************************************************************)
IdsTellApart ==
  /\ \A p \in Pipelines : \A m, n \in members[p] :
       m # n /\ ids[m] = ids[n] => {m, n} \cap unset # {}
  /\ \A p \in Pipelines \cap alive : \A m \in members[p] \ unset : ids[m] \in mask[p]
  /\ \A m \in Modules :
       container[m] # Nobody => ids[m] = Invalid \/ m \in members[container[m]]
=============================================================================
