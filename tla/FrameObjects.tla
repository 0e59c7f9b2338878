---------------------------- MODULE FrameObjects ----------------------------
(***************************************************************************)
(* What the modules share of one frame besides its masks: the InferObject  *)
(* with its attributes, extra attributes and features, and the DataFrame   *)
(* with the picture that is cloned when a module first asks for it.        *)
(***************************************************************************)
EXTENDS Integers, FiniteSets

CONSTANTS
  Modules,  \* the threads of the modules that have the frame
  Keys,     \* the names of attributes and features
  Labels,   \* their values; Marks of drawings
  Sizes,    \* heights and strides
  Unset     \* what Get... returns for a name that is not there

ObjectsAssumption == Sizes \subseteq Nat

VARIABLES
  attributes, extra, features, \* name -> value
  holder,    \* who is inside attribute_mutex_ for good, or Unset
  picture,   \* bgr_mat: {} for none, or {the set of marks drawn on it}
  held,      \* the modules that keep the pointer ImageBGR returned
  seen,      \* history: the attributes and features that were read
  drawn      \* history: the marks ever drawn

objectVars == <<attributes, extra, features, holder, picture, held, seen, drawn>>

Nothing == [k \in Keys |-> Unset]
ObjectInit ==
  /\ attributes = Nothing /\ extra = Nothing /\ features = Nothing
  /\ holder = Unset /\ picture = {} /\ held = {}
  /\ seen = {} /\ drawn = {}

\* A name that is there keeps its value, and the caller gets false.
Added(map, k, v) == [map EXCEPT ![k] = IF @ = Unset THEN v ELSE @]

AddAttribute(k, v) ==
  /\ holder = Unset
  /\ attributes' = Added(attributes, k, v)
  /\ UNCHANGED <<extra, features, holder, picture, held, seen, drawn>>
GetAttribute(k) ==
  /\ holder = Unset
  /\ seen' = seen \cup ({<<"attribute", k, attributes[k]>>} \ {<<"attribute", k, Unset>>})
  /\ UNCHANGED <<attributes, extra, features, holder, picture, held, drawn>>

AddExtraAttribute(k, v) ==
  /\ holder = Unset
  /\ extra' = Added(extra, k, v)
  /\ UNCHANGED <<attributes, features, holder, picture, held, seen, drawn>>
\* It calls AddExtraAttribute with the mutex in its hands, and waits for itself;
\* without pairs it returns.
AddExtraAttributes(m, pairs) ==
  /\ holder = Unset
  /\ holder' = IF pairs = {} THEN Unset ELSE m
  /\ UNCHANGED <<attributes, extra, features, picture, held, seen, drawn>>
RemoveExtraAttribute(k) ==
  /\ holder = Unset
  /\ extra' = [extra EXCEPT ![k] = Unset]
  /\ UNCHANGED <<attributes, features, holder, picture, held, seen, drawn>>

\* Features have a mutex of their own.
AddFeature(k, v) ==
  /\ features' = Added(features, k, v)
  /\ UNCHANGED <<attributes, extra, holder, picture, held, seen, drawn>>
GetFeature(k) ==
  /\ seen' = seen \cup ({<<"feature", k, features[k]>>} \ {<<"feature", k, Unset>>})
  /\ UNCHANGED <<attributes, extra, features, holder, picture, held, drawn>>

ImageBGR(m) ==
  /\ m # holder
  /\ picture' = IF picture = {} THEN {{}} ELSE picture
  /\ held' = held \cup {m}
  /\ UNCHANGED <<attributes, extra, features, holder, seen, drawn>>
DrawOn(m, v) ==
  /\ m \in held \ {holder}
  /\ picture' = {marks \cup {v} : marks \in picture} /\ drawn' = drawn \cup {v}
  /\ UNCHANGED <<attributes, extra, features, holder, held, seen>>

ObjectNext ==
  \/ \E k \in Keys, v \in Labels :
       AddAttribute(k, v) \/ AddExtraAttribute(k, v) \/ AddFeature(k, v)
  \/ \E k \in Keys : GetAttribute(k) \/ GetFeature(k) \/ RemoveExtraAttribute(k)
  \/ \E m \in Modules : AddExtraAttributes(m, {}) \/ AddExtraAttributes(m, Keys)
  \/ \E m \in Modules : ImageBGR(m)
  \/ \E m \in Modules, v \in Labels : DrawOn(m, v)

(***************************************************************************)
(* DataFrame::GetPlaneBytes and GetBytes; the last format has no planes.   *)
(***************************************************************************)
GetPlanesByFormat(fmt) ==
  CASE fmt \in {"BGR24", "RGB24"} -> 1 [] fmt \in {"NV12", "NV21"} -> 2 [] OTHER -> 0
GetPlaneBytes(fmt, height, stride, plane) ==
  CASE plane \notin 0..(GetPlanesByFormat(fmt) - 1) -> 0
    [] fmt \in {"BGR24", "RGB24"} -> height * stride * 3
    [] fmt \in {"NV12", "NV21"} -> IF plane = 0 THEN height * stride
                                   ELSE (height * stride + 1) \div 2
GetBytes(fmt, height, stride) ==
  GetPlaneBytes(fmt, height, stride, 0) + GetPlaneBytes(fmt, height, stride, 1)

(***************************************************************************)
(* An attribute or a feature that a module has read is never another one   *)
(* for the modules behind it, and no module gets a picture without what    *)
(* the others drew.  The bytes of a frame hold its chroma: one sample in   *)
(* four, rounded up per row -- which only frames of an even height have.   *)
(***************************************************************************)
ObjectsKept ==
  /\ \A s \in seen : s[3] = IF s[1] = "attribute" THEN attributes[s[2]] ELSE features[s[2]]
  /\ picture \subseteq {drawn}
  /\ \A height \in {h \in Sizes : h % 2 = 0}, stride \in Sizes :
       /\ GetBytes("NV12", height, stride) = height * stride + (height \div 2) * stride
       /\ GetBytes("RGBA32", height, stride) = 0
=============================================================================
