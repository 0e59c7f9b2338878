------------------------------ MODULE MCControl ------------------------------
(***************************************************************************)
(* A chain of two modules that Start accepts, and two that it refuses: an  *)
(* inner module whose conveyors are fewer than its threads (a capacity of  *)
(* zero), and a root with a thread, beside an inner module whose threads   *)
(* may have been created before.                                           *)
(***************************************************************************)
EXTENDS ControlProperties

Chain(inner, capacity) ==
  LinkModules(SetModuleAttribute(SetModuleAttribute(
    AddModule(AddModule(EmptyGraph, "source"), "inner"), "source", 0, 1),
    "inner", inner, capacity), "source", "inner")

GoodChain == Chain(2, 1)
ControlGraphs ==
  {GoodChain, Chain(2, 0), SetModuleAttribute(Chain(1, 1), "source", 1, 1)}
OneGraph == {GoodChain}
=============================================================================
