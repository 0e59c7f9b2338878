---------------------------- MODULE PipelineGraph ----------------------------
(***************************************************************************)
(* How a pipeline is put together: Pipeline::AddModule, SetModuleAttribute *)
(* and LinkModules, BuildPipeline on top of them, the route masks, and     *)
(* what Pipeline::Start asks of the result.                                *)
(*                                                                         *)
(* A graph is the record of what the pipeline knows of its modules:        *)
(*   modules      the keys of modules_ and modules_map_                    *)
(*   parallelism  ModuleAssociatedInfo::parallelism                        *)
(*   conveyors    GetConveyorCount() of its connector, 0 for no connector  *)
(*   links        pairs <<up, down>>: down_nodes, input_connectors and the *)
(*                parents of a module are its columns                      *)
(***************************************************************************)
EXTENDS Naturals, Sequences, FiniteSets, SequencesExt

EmptyGraph ==
  [modules |-> {}, parallelism |-> <<>>, conveyors |-> <<>>, links |-> {}]

DownNodesOf(g, m) == {d \in g.modules : <<m, d>> \in g.links}
ParentsOf(g, m) == {u \in g.modules : <<u, m>> \in g.links}
RootsOf(g) == {m \in g.modules : ParentsOf(g, m) = {}}
LeavesOf(g) == {m \in g.modules : DownNodesOf(g, m) = {}}

(* Pipeline::AddModule: a name that is taken is refused; a new module gets *)
(* one thread and a connector of one conveyor.                             *)
AddModule(g, m) ==
  IF m \in g.modules THEN g
  ELSE [modules |-> g.modules \cup {m},
        parallelism |-> [n \in g.modules \cup {m} |-> IF n = m THEN 1 ELSE g.parallelism[n]],
        conveyors |-> [n \in g.modules \cup {m} |-> IF n = m THEN 1 ELSE g.conveyors[n]],
        links |-> g.links]

(* Pipeline::SetModuleAttribute: no connector without threads; with a      *)
(* capacity of zero the connector stays what it was.                       *)
SetModuleAttribute(g, m, parallelism, capacity) ==
  IF m \notin g.modules THEN g
  ELSE [g EXCEPT !.parallelism[m] = parallelism,
                 !.conveyors[m] = CASE parallelism = 0 -> 0
                                    [] parallelism > 0 /\ capacity > 0 -> parallelism
                                    [] OTHER -> @]

(* Pipeline::LinkModules fails for an unknown module and for one without a *)
(* connector; a link that exists already is no failure.                    *)
CanLink(g, up, down) == {up, down} \subseteq g.modules /\ g.conveyors[down] > 0
LinkModules(g, up, down) ==
  IF CanLink(g, up, down) THEN [g EXCEPT !.links = @ \cup {<<up, down>>}] ELSE g

(***************************************************************************)
(* Pipeline::BuildPipeline.  A config is a record with the fields name,    *)
(* source (the className is one of the three that need no input),          *)
(* parallelism, capacity (maxInputQueueSize), next (a sequence of names)   *)
(* and created, whether the ModuleFactory makes such a module.             *)
(***************************************************************************)

(* The first loop, up to the first module that cannot be created. *)
AddConfigured(g, c) ==
  SetModuleAttribute(AddModule(g, c.name), c.name, c.parallelism, c.capacity)
AddAll(configs) ==
  FoldLeft(AddConfigured, EmptyGraph, configs)

(* connections_config_: the last config of a name wins. *)
ConfigOf(configs, m) == configs[CHOOSE i \in DOMAIN configs :
  /\ configs[i].name = m
  /\ \A j \in DOMAIN configs : configs[j].name = m => j <= i]
Connections(configs) ==
  UNION {{<<m, ConfigOf(configs, m).next[i]>> : i \in DOMAIN ConfigOf(configs, m).next} :
           m \in {configs[i].name : i \in DOMAIN configs}}

(* The second loop.  No link changes what the others need, so that all of  *)
(* them succeed in every order, or none of the orders finishes.            *)
LinkAll(g, configs) == [g EXCEPT !.links = @ \cup Connections(configs)]
LinksSucceed(g, configs) == \A l \in Connections(configs) : CanLink(g, l[1], l[2])

(* The third loop: linked_id_mask. *)
InnerModulesLinked(g, configs) ==
  \A i \in DOMAIN configs :
     configs[i].source \/ \E l \in Connections(configs) : l[2] = configs[i].name

BuildSucceeds(configs) ==
  LET g == AddAll(configs) IN
  /\ \A i \in DOMAIN configs : configs[i].created
  /\ LinksSucceed(g, configs)
  /\ InnerModulesLinked(g, configs)

BuildPipeline(configs) == LinkAll(AddAll(configs), configs)

(***************************************************************************)
(* Pipeline::GenerateRouteMask: a breadth-first search from every root,    *)
(* which takes each node it visits out of the mask by exclusive or.  With  *)
(* the queue and the visited nodes as its state, a run of the loop is a    *)
(* fold over enough rounds to empty the queue.                             *)
(***************************************************************************)
Xor(mask, m) == IF m \in mask THEN mask \ {m} ELSE mask \cup {m}

(* Variant: the test of visit[node] is missing. *)
VisitAgain(g, s) ==
  LET node == Head(s.queue) IN
  [queue |-> Tail(s.queue) \o SetToSeq(DownNodesOf(g, node)),
   visit |-> s.visit \cup {node},
   mask |-> Xor(s.mask, node)]

VisitNext(g, s) ==
  LET node == Head(s.queue) IN
  IF node \in s.visit THEN [s EXCEPT !.queue = Tail(@)]
  ELSE [queue |-> Tail(s.queue) \o SetToSeq(DownNodesOf(g, node)),
        visit |-> s.visit \cup {node},
        mask |-> Xor(s.mask, node)]

(* A node enters the queue once as the root and at most once per link. *)
Rounds(g) == 1..(1 + Cardinality(g.links))
RouteMaskOf(g, root) ==
  FoldLeft(LAMBDA s, i : IF s.queue = <<>> THEN s ELSE VisitNext(g, s),
           [queue |-> <<root>>, visit |-> {}, mask |-> g.modules],
           SetToSeq(Rounds(g))).mask

(* Pipeline::GetEndModule, for the order in which modules_ is visited: a   *)
(* leaf is remembered if none is, and forgets the one that is.             *)
NoModule == ""
EndModuleAfter(g, order) ==
  FoldLeft(LAMBDA end, m : IF m \notin LeavesOf(g) THEN end
                           ELSE IF end = NoModule THEN m ELSE NoModule,
           NoModule, order)

(* The two checks Pipeline::Start makes of a module before it creates its  *)
(* threads.                                                                *)
StartAccepts(g, m) ==
  /\ (g.parallelism[m] = 0) <=> (m \in RootsOf(g))
  /\ g.parallelism[m] = g.conveyors[m]
=============================================================================
