---------------------------- MODULE Configuration ----------------------------
(***************************************************************************)
(* From a configuration file to a pipeline and to the parameters of its    *)
(* modules: ConfigsFromJsonFile, Pipeline::BuildPipelineByJSONFile on the  *)
(* graph of PipelineGraph, and ModuleParamsHelper, the check modules may   *)
(* make of their parameters.                                               *)
(*                                                                         *)
(* A JSON value is [kind, of]; a file is a sequence of [name, value], its  *)
(* items, where the of of an object is the record of the members the code  *)
(* looks for, or, for the profiler, a sequence of [name, value].  A text   *)
(* is a sequence of characters: Blank, digits, "-", or a word as a whole.  *)
(***************************************************************************)
EXTENDS Integers, PipelineGraph

CONSTANTS
  Files,       \* the configuration files; BrokenFile is one that does not parse
  Factories,   \* the sets of classes the factory may know when it is asked
  Registers,   \* the sequences of descriptions given to Register
  ParamSets,   \* the parameters given to ParseParamsAndInspect
  Wrap,        \* an int has Wrap values, half of them negative
  MaxInspections \* bound: the calls of ParseParamsAndInspect

VARIABLES
  file, factory, \* what is read, and the classes the factory makes
  read,          \* what ConfigsFromJsonFile leaves: outcome, configs, profiler
  built, graph,  \* what BuildPipeline returned, and the pipeline it leaves
  descs, values, accepted, given, inspections \* a ModuleParamsHelper

buildVars == <<file, factory, read, built, graph>>
paramVars == <<descs, values, accepted, given, inspections>>

BrokenFile == <<[name |-> "broken", value |-> [kind |-> "broken", of |-> <<>>]]>>
ProfilerItem == "profiler_config"
JsonDir == <<"json_file_dir">>
EasysaDir == <<"easysa_dir">>

(***************************************************************************)
(* Reading the file                                                        *)
(***************************************************************************)
SignedInt(n) == IF n % Wrap >= Wrap \div 2 THEN (n % Wrap) - Wrap ELSE n % Wrap
NeedsNoInput == {"easysa::DataSource", "easysa::TestDataSource", "easysa::ModuleIPC"}
IntOr(member, default) == IF member.kind = "uint" THEN SignedInt(member.of) ELSE default

ThreadsSuit(class, parallelism) == class \in NeedsNoInput \/ parallelism >= 1

ModuleParses(m) ==
  /\ m.class_name.kind = "string"
  /\ {m.parallelism.kind, m.max_input_queue_size.kind} \subseteq {"absent", "uint"}
  /\ m.parallelism.kind = "uint" => ThreadsSuit(m.class_name.of, SignedInt(m.parallelism.of))
  /\ \/ m.next_modules.kind = "absent"
     \/ /\ m.next_modules.kind = "array"
        /\ \A i \in DOMAIN m.next_modules.of : m.next_modules.of[i].kind = "string"
  /\ m.custom_params.kind \in {"absent", "object"}

\* The directory of the file is a parameter of every module.
ModuleConfigOf(name, m) ==
  [name |-> name, class |-> m.class_name.of, source |-> m.class_name.of \in NeedsNoInput,
   parallelism |-> IntOr(m.parallelism, 1), capacity |-> IntOr(m.max_input_queue_size, 20),
   next |-> IF m.next_modules.kind = "absent" THEN <<>>
            ELSE [i \in DOMAIN m.next_modules.of |-> m.next_modules.of[i].of],
   parameters |-> {JsonDir} \cup
                  (IF m.custom_params.kind = "absent" THEN {} ELSE m.custom_params.of)]

ProfilerKinds ==
  [enable_profiling |-> "bool", enable_tracing |-> "bool", trace_event_capacity |-> "uint"]
ProfilerDefaults ==
  [enable_profiling |-> FALSE, enable_tracing |-> FALSE, trace_event_capacity |-> 100000]
\* ProfilerConfig::ParseByJSONStr sets what it reads up to the first member it refuses.
ProfilerMember(r, m) ==
  IF r.outcome # "reading" THEN r
  ELSE IF m.name \in DOMAIN ProfilerKinds /\ m.value.kind = ProfilerKinds[m.name]
       THEN [r EXCEPT !.profiler[m.name] = m.value.of]
       ELSE [r EXCEPT !.outcome = "failed"]

NameTaken(r, name) == \E i \in DOMAIN r.configs : r.configs[i].name = name

\* rapidjson asserts that a value whose members are asked for is an object.
ReadItem(r, item) ==
  IF r.outcome # "reading" THEN r
  ELSE IF item.value.kind = "broken" THEN [r EXCEPT !.outcome = "failed"]
  ELSE IF item.name # ProfilerItem /\ NameTaken(r, item.name)
       THEN [r EXCEPT !.outcome = "failed"]
  ELSE IF item.value.kind # "object" THEN [r EXCEPT !.outcome = "aborted"]
  ELSE IF item.name = ProfilerItem THEN FoldLeft(ProfilerMember, r, item.value.of)
  ELSE IF ModuleParses(item.value.of)
       THEN [r EXCEPT !.configs = Append(@, ModuleConfigOf(item.name, item.value.of))]
       ELSE [r EXCEPT !.outcome = "failed"]

ConfigsFromJsonFile(f) ==
  FoldLeft(ReadItem, [outcome |-> "reading", configs |-> <<>>, profiler |-> ProfilerDefaults], f)

(***************************************************************************)
(* Building.  Instance() of the code makes a new factory for every call,   *)
(* so that {} is the factory of the program as it stands: nothing that was *)
(* registered is created.                                                  *)
(***************************************************************************)
Created(c) ==
  [name |-> c.name, source |-> c.source, parallelism |-> c.parallelism % Wrap,
   capacity |-> c.capacity % Wrap, next |-> c.next, created |-> c.class \in factory]
ConfigsBuilt(configs) == [i \in DOMAIN configs |-> Created(configs[i])]
\* The modules added before the first that is not created.
AddedBefore(cs) ==
  LET refused == {i \in DOMAIN cs : ~cs[i].created}
  IN IF refused = {} THEN cs ELSE SubSeq(cs, 1, (CHOOSE i \in refused : \A j \in refused : i <= j) - 1)

BuildPipelineByJSONFile ==
  /\ read.outcome = "unread"
  /\ read' = ConfigsFromJsonFile(file)
  /\ LET cs == ConfigsBuilt(read'.configs) IN
     IF read'.outcome = "reading" /\ BuildSucceeds(cs)
     THEN built' = TRUE /\ graph' = BuildPipeline(cs)
     ELSE built' = FALSE /\ graph' = IF read'.outcome = "reading" THEN AddAll(AddedBefore(cs))
                                     ELSE EmptyGraph
  /\ UNCHANGED <<file, factory>>

(***************************************************************************)
(* ModuleParamsHelper                                                      *)
(***************************************************************************)
Blank == "_"
DigitOf == [c \in {"0", "1", "5", "9"} |->
  CASE c = "0" -> 0 [] c = "1" -> 1 [] c = "5" -> 5 [] c = "9" -> 9]
Unblanked(text) == FoldLeft(LAMBDA kept, c : IF c = Blank THEN kept ELSE Append(kept, c), <<>>, text)

\* std::remove_if moves what it keeps to the front; nobody erases the rest.
RemovedIf(text) ==
  LET kept == Unblanked(text) IN kept \o SubSeq(text, Len(kept) + 1, Len(text))

\* std::stoi and its kin: the longest prefix that is a number, <<>> when there is none.
Decimal(digits) == FoldLeft(LAMBDA n, c : 10 * n + DigitOf[c], 0, digits)
NumberIn(text) ==
  LET signed == text # <<>> /\ text[1] = "-"
      digits == IF signed THEN Tail(text) ELSE text
      length == Cardinality({n \in DOMAIN digits :
                               \A i \in 1..n : digits[i] \in DOMAIN DigitOf})
      size == Decimal(SubSeq(digits, 1, length))
  IN IF length = 0 THEN <<>> ELSE <<IF signed THEN -size ELSE size>>

\* ModuleParamParser<type>::Parser after the blanks: <<value>>, or <<>> for a failure.
ParsedAs(type, text) ==
  CASE type = "string" -> <<text>>
    [] type = "bool" -> IF text \in {<<"true">>, <<"1">>} THEN <<TRUE>>
                        ELSE IF text \in {<<"false">>, <<"0">>} THEN <<FALSE>> ELSE <<>>
    [] type = "int" -> LET n == NumberIn(text)
                       IN IF n = <<>> \/ n[1] # SignedInt(n[1]) THEN <<>> ELSE n
    [] type = "uint" -> LET n == NumberIn(text)
                        IN IF n = <<>> THEN n ELSE <<n[1] % Wrap>>

\* Register goes on to the first description without a name or a parser.
Register(known, desc) ==
  IF known.failed \/ desc.type = "none" \/ desc.name = <<>> THEN [known EXCEPT !.failed = TRUE]
  ELSE [known EXCEPT !.descs = {d \in @ : d.name # RemovedIf(desc.name)} \cup
                               {[desc EXCEPT !.name = RemovedIf(@)]}]
Registered(register) == FoldLeft(Register, [failed |-> FALSE, descs |-> {}], register).descs

TextFor(params, d) == IF d.name \in DOMAIN params THEN params[d.name] ELSE d.default

\* A parser that fails leaves the value as it was, and nobody asks whether it did.
ValuesAfter(params, visited) ==
  [d \in descs |->
     LET value == ParsedAs(d.type, RemovedIf(TextFor(params, d)))
     IN IF d \in visited /\ value # <<>> THEN value ELSE values[d]]

\* A hash table is visited in any order up to the first mandatory parameter missing.
ParseParamsAndInspect(params) ==
  LET missing == {d \in descs : d.must /\ d.name \notin DOMAIN params} IN
  /\ inspections < MaxInspections /\ inspections' = inspections + 1
  /\ given' = params
  /\ \/ /\ missing # {}
        /\ \E visited \in SUBSET (descs \ missing) : values' = ValuesAfter(params, visited)
        /\ accepted' = FALSE
     \/ /\ missing = {}
        /\ values' = ValuesAfter(params, descs)
        /\ accepted' = (DOMAIN params \subseteq {d.name : d \in descs} \cup {EasysaDir})
  /\ UNCHANGED descs

BuildInit ==
  /\ file \in Files /\ factory \in Factories
  /\ read = [outcome |-> "unread", configs |-> <<>>, profiler |-> ProfilerDefaults]
  /\ built = FALSE /\ graph = EmptyGraph
ParamInit ==
  /\ descs \in {Registered(r) : r \in Registers}
  /\ values = [d \in descs |-> <<>>]
  /\ accepted = FALSE /\ given = <<>> /\ inspections = 0
ParamNext == \E params \in ParamSets : ParseParamsAndInspect(params)

(***************************************************************************)
(* What is read: a uint is what the parser calls one, 32 bits without a    *)
(* sign; items, profiler members and texts are sequences; no name stands   *)
(* for the null pointer of GetEndModule; an int holds the default size of  *)
(* a queue.                                                                *)
(***************************************************************************)
ParserTypes == {"string", "bool", "int", "uint"}
IsSequence(s) == s \in Seq(Range(s))
IsUint(value) == value.kind = "uint" => value \in [kind : {"uint"}, of : 0..Wrap - 1]
ConfigurationAssumption ==
  /\ Wrap \in Nat /\ Wrap > 20
  /\ \A f \in Files :
       /\ IsSequence(f)
       /\ \A i \in DOMAIN f :
            /\ f[i].name # NoModule
            /\ f[i].value.kind = "object" =>
                 IF f[i].name = ProfilerItem THEN IsSequence(f[i].value.of)
                 ELSE LET m == f[i].value.of IN
                      /\ IsUint(m.parallelism) /\ IsUint(m.max_input_queue_size)
                      /\ m.next_modules.kind = "array" => IsSequence(m.next_modules.of)
  /\ \A r \in Registers :
       /\ IsSequence(r)
       /\ \A i \in DOMAIN r :
            /\ DOMAIN r[i] = {"name", "default", "must", "type"}
            /\ r[i].type \in ParserTypes \cup {"none"}
            /\ IsSequence(r[i].name) /\ IsSequence(r[i].default)
  /\ \A params \in ParamSets : \A name \in DOMAIN params : IsSequence(params[name])

(***************************************************************************)
(* Every node a root reaches is missing from its route mask and no other   *)
(* is, and GetEndModule finds the leaf of a pipeline that converges (with  *)
(* three leaves it may return one of them).                                *)
(***************************************************************************)
ReachedFrom(root) ==
  {m \in graph.modules : \A s \in SUBSET graph.modules :
     (root \in s /\ \A l \in graph.links : l[1] \in s => l[2] \in s) => m \in s}
RoutesComplete ==
  built =>
    /\ \A root \in RootsOf(graph) : RouteMaskOf(graph, root) = graph.modules \ ReachedFrom(root)
    /\ Cardinality(LeavesOf(graph)) <= 2 =>
         \A order \in SetToSeqs(graph.modules) :
           EndModuleAfter(graph, order) =
             IF Cardinality(LeavesOf(graph)) = 1 THEN CHOOSE m \in LeavesOf(graph) : TRUE
             ELSE NoModule

(***************************************************************************)
(* A file that is read says what the pipeline is: as many modules as items *)
(* and the links of the file; if its sources have no threads and no queue  *)
(* has the size 0, Start accepts every module of it.                       *)
(***************************************************************************)
ModuleItems == {i \in DOMAIN file : file[i].name # ProfilerItem}
BuiltAsRead ==
  built =>
    /\ Cardinality(graph.modules) = Cardinality(ModuleItems)
    /\ \A l \in graph.links : \E i \in ModuleItems :
         /\ file[i].name = l[1]
         /\ l[2] \in {file[i].value.of.next_modules.of[j].of :
                        j \in DOMAIN file[i].value.of.next_modules.of}
    /\ (\A i \in ModuleItems :
          LET m == file[i].value.of IN
          /\ m.class_name.of \in NeedsNoInput => m.parallelism = [kind |-> "uint", of |-> 0]
          /\ m.max_input_queue_size # [kind |-> "uint", of |-> 0])
       => \A m \in graph.modules : StartAccepts(graph, m)

(***************************************************************************)
(* Parameters that pass the inspection have every mandatory one and none   *)
(* nobody knows, and a value is what its text says without its blanks: of  *)
(* a text when it has none, of a number when they all follow it.           *)
(***************************************************************************)
ParametersAsGiven ==
  accepted =>
  /\ DOMAIN given \ {EasysaDir} \subseteq {d.name : d \in descs}
  /\ \A d \in descs :
    LET text == TextFor(given, d)
        plain == Unblanked(text)
        inFront == d.type # "string" /\ SubSeq(text, 1, Len(plain)) = plain
    IN /\ d.must => d.name \in DOMAIN given
       /\ (text = plain \/ (inFront /\ d.type # "bool")) /\ ParsedAs(d.type, plain) # <<>>
          => values[d] = ParsedAs(d.type, plain)

ConfigurationStands == RoutesComplete /\ BuiltAsRead /\ ParametersAsGiven
=============================================================================
