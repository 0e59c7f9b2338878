--------------------------- MODULE DetectionProof ---------------------------
(***************************************************************************)
(* Proofs, for all networks, images, outputs and datasets, about what      *)
(* Detection computes: anchors are centred on their cells, the faces kept  *)
(* are the best that do not overlap, of a batch as of an image, and no     *)
(* label has more votes than the pose.                                     *)
(***************************************************************************)
EXTENDS ConfigurationProof, TLAPS

-----------------------------------------------------------------------------
(* The suppression of overlapping boxes.                                   *)

\* Cardinality of Detection is that of FiniteSets.
LEMMA DetectorCardinality == \A S : Detector!Cardinality(S) = Cardinality(S)
  BY DEF Cardinality, Detector!Cardinality

-----------------------------------------------------------------------------
\* The boxes a list keeps, one after the other.
Keeping(F, n) == [selected : Seq(F), merged : SUBSET (1..n)]
KeepNext(b, percent, n, i, k) ==
  IF i \in k.merged THEN k
  ELSE [selected |-> Append(k.selected, b[i]),
        merged |-> k.merged \cup {j \in i + 1..n : Detector!Merges(b[i], b[j], percent)}]
Keeps(b, percent, n, g) ==
  /\ g[0] = [selected |-> <<>>, merged |-> {}]
  /\ \A i \in 1..n : g[i] = KeepNext(b, percent, n, i, g[i - 1])

\* Nms as such steps.
NmsGoes(b, percent, n, g) ==
  Keeps(b, percent, n, g) /\ Detector!Nms(b, percent) = g[n].selected

\* Nms goes through the boxes, one at a time.
LEMMA NmsSteps ==
  ASSUME NEW F, NEW n \in Nat, NEW b \in [1..n -> F], NEW percent
  PROVE  \E g \in [0..n -> Keeping(F, n)] :
           NmsGoes(b, percent, n, g)
<1>1. PICK A : A = Keeping(F, n)
  OBVIOUS
<1>2. PICK base : base = [selected |-> <<>>, merged |-> {}]
  OBVIOUS
<1>3. base \in A
  BY <1>1, <1>2 DEF Keeping
<1>4. ASSUME NEW k \in A, NEW i \in 1..n PROVE KeepNext(b, percent, n, i, k) \in A
  <2>1. CASE i \in k.merged
    BY <2>1 DEF KeepNext
  <2>2. CASE i \notin k.merged
    <3>1. PICK s : s = Append(k.selected, b[i])
      OBVIOUS
    <3>2. k.selected \in Seq(F) /\ k.merged \in SUBSET (1..n) /\ b[i] \in F
      BY <1>1 DEF Keeping
    <3>3. s \in Seq(F)
      BY <3>1, <3>2
    <3>4. PICK m \in SUBSET (1..n) :
            m = k.merged \cup {j \in i + 1..n : Detector!Merges(b[i], b[j], percent)}
      <4>1. \A j \in i + 1..n : j \in 1..n
        OBVIOUS
      <4>2. {j \in i + 1..n : Detector!Merges(b[i], b[j], percent)} \subseteq 1..n
        BY <4>1
      <4> QED
        BY <3>2, <4>2
    <3>5. KeepNext(b, percent, n, i, k) = [selected |-> s, merged |-> m]
      BY <2>2, <3>1, <3>4, Zenon DEF KeepNext
    <3> QED
      BY <1>1, <3>3, <3>5 DEF Keeping
  <2> QED
    BY <2>1, <2>2
<1>5. PICK op : op = [q \in A \X (1..n) |-> KeepNext(b, percent, n, q[2], q[1])]
  OBVIOUS
<1>6. op \in [A \X (1..n) -> A]
  BY <1>4, <1>5
<1>7. PICK g \in [0..n -> A] : GoesOn(n, base, op, g)
  BY <1>3, <1>6, StepsExist
<1>8. ASSUME NEW i \in 1..n PROVE g[i] = KeepNext(b, percent, n, i, g[i - 1])
  <2>1. i - 1 \in 0..n
    OBVIOUS
  <2>2. g[i - 1] \in A /\ g[i] = op[<<g[i - 1], i>>]
    BY <1>7, <2>1 DEF GoesOn
  <2> QED
    BY <1>5, <2>2
<1>9. g[0] = base
  BY <1>7 DEF GoesOn
<1>10. Keeps(b, percent, n, g)
  BY <1>2, <1>8, <1>9 DEF Keeps
<1>11. Len(b) = n
  OBVIOUS
<1> DEFINE Of(h) == [i \in 0..Len(b) |->
             IF i = 0 THEN [selected |-> <<>>, merged |-> {}]
             ELSE KeepNext(b, percent, Len(b), i, h[i - 1])]
           chosen == CHOOSE h : h = Of(h)
<1>12. Detector!Nms(b, percent) = chosen[n].selected
  BY <1>11 DEF Detector!Nms, KeepNext
<1>13. g = Of(g)
  BY <1>2, <1>8, <1>9, <1>11
<1>14. chosen = Of(chosen)
  <2> HIDE DEF Of
  <2> QED
    BY <1>13
<1> HIDE DEF chosen
<1>15. chosen[0] = base /\ \A i \in 1..n : chosen[i] = KeepNext(b, percent, n, i, chosen[i - 1])
  <2>1. chosen = [i \in 0..n |-> IF i = 0 THEN base ELSE KeepNext(b, percent, n, i, chosen[i - 1])]
    BY <1>2, <1>11, <1>14
  <2> HIDE DEF Of
  <2>2. 0 \in 0..n /\ \A i \in 1..n : i \in 0..n /\ i # 0
    OBVIOUS
  <2>3. chosen[0] = base
    BY <2>1, <2>2, Zenon
  <2>4. ASSUME NEW i \in 1..n PROVE chosen[i] = KeepNext(b, percent, n, i, chosen[i - 1])
    BY <2>1, <2>2, Zenon
  <2> QED
    BY <2>3, <2>4
<1> HIDE DEF Of
<1> DEFINE S == {i \in 0..n : chosen[i] = g[i]}
<1>16. 0 \in S
  BY <1>9, <1>15
<1>17. ASSUME NEW i \in 0..n - 1, i \in S PROVE i + 1 \in S
  <2>1. PICK j \in 1..n : j = i + 1 /\ j - 1 = i /\ j \in 0..n
    OBVIOUS
  <2>2. chosen[j] = g[j]
    BY <1>8, <1>15, <1>17, <2>1
  <2> QED
    BY <2>1, <2>2
<1>18. \A i \in 0..n : i \in S
  <2> HIDE DEF S
  <2> QED
    BY <1>16, <1>17, UpTo
<1>19. chosen[n] = g[n]
  <2>1. n \in 0..n
    OBVIOUS
  <2> QED
    BY <1>18, <2>1
<1> QED
  BY <1>1, <1>10, <1>12, <1>19 DEF NmsGoes

-----------------------------------------------------------------------------
\* A list with x behind it.
OneMore(s, t, x, l) == Len(t) = l + 1 /\ t[l + 1] = x /\ \A i \in 1..l : t[i] = s[i]

\* A list with one more member has it at its end.
LEMMA Appended ==
  ASSUME NEW F, NEW s \in Seq(F), NEW x \in F, NEW l \in Nat, l = Len(s)
  PROVE  OneMore(s, Append(s, x), x, l)
<1>1. PICK t \in Seq(F) : t = Append(s, x) /\ Len(t) = l + 1
  <2>1. Append(s, x) \in Seq(F)
    OBVIOUS
  <2>2. Len(Append(s, x)) = l + 1
    OBVIOUS
  <2> QED
    BY <2>1, <2>2
<1>2. t[l + 1] = x /\ \A i \in 1..l : t[i] = s[i]
  BY <1>1
<1> QED
  BY <1>1, <1>2 DEF OneMore

\* It has the members of the list, and that one.
LEMMA AppendedIn ==
  ASSUME NEW F, NEW s \in Seq(F), NEW x \in F
  PROVE  In(Append(s, x)) = In(s) \cup {x}
<1>1. PICK l \in Nat : l = Len(s)
  OBVIOUS
<1>2. PICK t \in Seq(F) : t = Append(s, x) /\ Len(t) = l + 1
  <2>1. Append(s, x) \in Seq(F)
    OBVIOUS
  <2>2. Len(Append(s, x)) = l + 1
    BY <1>1
  <2> QED
    BY <2>1, <2>2
<1>3. t[l + 1] = x /\ \A i \in 1..l : t[i] = s[i]
  BY <1>1, <1>2
<1>4. \A i \in 1..l + 1 : i \in 1..l \/ i = l + 1
  OBVIOUS
<1>5. l + 1 \in 1..l + 1 /\ \A i \in 1..l : i \in 1..l + 1
  OBVIOUS
<1> QED
  BY <1>1, <1>2, <1>3, <1>4, <1>5 DEF In

\* Which of them it keeps: those no kept one before them overlaps too much.
KeptAt(b, percent, n, K) ==
  /\ K \subseteq 1..n
  /\ \A i \in 1..n : i \in K <=> \A p \in K : p < i => ~Detector!Merges(b[p], b[i], percent)

\* Those are the boxes of K, up to i.
KeptUpTo(b, percent, n, K, i, k) ==
  /\ In(k.selected) = {b[p] : p \in K \cap (1..i)}
  /\ k.merged = {j \in 1..n : \E p \in K \cap (1..i) : p < j /\ Detector!Merges(b[p], b[j], percent)}

\* In the end, those of K in their order.
NmsKept(b, percent, n, K) ==
  KeptAt(b, percent, n, K) /\ In(Detector!Nms(b, percent)) = {b[p] : p \in K}

\* Nms keeps a box unless one that was kept before merges it.
LEMMA NmsKeeps ==
  ASSUME NEW F, NEW n \in Nat, NEW b \in [1..n -> F], NEW percent
  PROVE  Detector!Nms(b, percent) \in Seq(F) /\ \E K : NmsKept(b, percent, n, K)
<1>0. \E g \in [0..n -> Keeping(F, n)] : NmsGoes(b, percent, n, g)
  BY NmsSteps
<1>1. PICK g \in [0..n -> Keeping(F, n)] :
        Keeps(b, percent, n, g) /\ Detector!Nms(b, percent) = g[n].selected
  BY <1>0 DEF NmsGoes
<1>2. PICK K \in SUBSET (1..n) : K = {i \in 1..n : i \notin g[i - 1].merged}
  OBVIOUS
<1> DEFINE S == {i \in 0..n : KeptUpTo(b, percent, n, K, i, g[i])}
<1>3. 0 \in S
  <2>1. K \cap (1..0) = {}
    OBVIOUS
  <2>2. g[0].selected = <<>> /\ g[0].merged = {}
    BY <1>1 DEF Keeps
  <2>3. In(<<>>) = {}
    <3>1. Len(<<>>) = 0 /\ 1..0 = {}
      OBVIOUS
    <3> QED
      BY <3>1 DEF In
  <2> QED
    BY <2>1, <2>2, <2>3 DEF KeptUpTo
<1>4. ASSUME NEW i \in 0..n - 1, i \in S PROVE i + 1 \in S
  <2>1. PICK j \in 1..n : j = i + 1 /\ j - 1 = i /\ i \in 0..n /\ j \in 0..n
    OBVIOUS
  <2>2. PICK k \in Keeping(F, n) : k = g[i] /\ KeptUpTo(b, percent, n, K, i, k)
    BY <1>4, <2>1
  <2>3. g[j] = KeepNext(b, percent, n, j, k)
    BY <1>1, <2>1, <2>2 DEF Keeps
  <2>4. j \in K <=> j \notin k.merged
    BY <1>2, <2>1, <2>2
  <2>5. 1..j = (1..i) \cup {j}
    BY <2>1
  <2>6. CASE j \notin K
    <3>1. g[j] = k
      BY <2>3, <2>4, <2>6 DEF KeepNext
    <3>2. K \cap (1..j) = K \cap (1..i)
      BY <2>5, <2>6
    <3>3. KeptUpTo(b, percent, n, K, j, k)
      BY <2>2, <3>2 DEF KeptUpTo
    <3> QED
      BY <2>1, <3>1, <3>3
  <2>7. CASE j \in K
    <3>1. PICK h : h = g[j] /\ h = [selected |-> Append(k.selected, b[j]),
             merged |-> k.merged \cup {l \in j + 1..n : Detector!Merges(b[j], b[l], percent)}]
      BY <2>3, <2>4, <2>7 DEF KeepNext
    <3>2. In(h.selected) = {b[p] : p \in K \cap (1..j)}
      <4>1. k.selected \in Seq(F) /\ b[j] \in F
        BY DEF Keeping
      <4>2. In(Append(k.selected, b[j])) = In(k.selected) \cup {b[j]}
        BY <4>1, AppendedIn
      <4>3. K \cap (1..j) = (K \cap (1..i)) \cup {j}
        BY <2>5, <2>7
      <4>4. In(k.selected) = {b[p] : p \in K \cap (1..i)}
        BY <2>2 DEF KeptUpTo
      <4>5. h.selected = Append(k.selected, b[j])
        BY <3>1
      <4> QED
        BY <4>2, <4>3, <4>4, <4>5
    <3>3. h.merged = {l \in 1..n :
                        \E p \in K \cap (1..j) : p < l /\ Detector!Merges(b[p], b[l], percent)}
      <4>1. \A l \in 1..n : l \in j + 1..n <=> j < l
        BY <2>1
      <4>2. h.merged = k.merged \cup {l \in j + 1..n : Detector!Merges(b[j], b[l], percent)}
        BY <3>1
      <4>3. k.merged = {l \in 1..n :
                          \E p \in K \cap (1..i) : p < l /\ Detector!Merges(b[p], b[l], percent)}
        BY <2>2 DEF KeptUpTo
      <4>4. \A l \in j + 1..n : l \in 1..n
        BY <2>1
      <4> QED
        BY <2>5, <2>7, <4>1, <4>2, <4>3, <4>4
    <3> QED
      BY <2>1, <3>1, <3>2, <3>3 DEF KeptUpTo
  <2> QED
    BY <2>6, <2>7
<1>5. \A i \in 0..n : i \in S
  <2> HIDE DEF S
  <2> QED
    BY <1>3, <1>4, UpTo
<1>6. KeptUpTo(b, percent, n, K, n, g[n]) /\ g[n] \in Keeping(F, n)
  <2>1. n \in 0..n
    OBVIOUS
  <2> QED
    BY <1>5, <2>1
<1>7. In(g[n].selected) = {b[p] : p \in K}
  <2>1. K \cap (1..n) = K
    OBVIOUS
  <2> QED
    BY <1>6, <2>1 DEF KeptUpTo
<1>8. KeptAt(b, percent, n, K)
  <2> SUFFICES ASSUME NEW i \in 1..n
               PROVE  i \in K <=> \A p \in K : p < i => ~Detector!Merges(b[p], b[i], percent)
    BY DEF KeptAt
  <2>1. i - 1 \in 0..n /\ KeptUpTo(b, percent, n, K, i - 1, g[i - 1])
    BY <1>5
  <2>2. i \in K <=> i \notin g[i - 1].merged
    BY <1>2
  <2>3. \A p \in K : p \in K \cap (1..i - 1) <=> p < i
    OBVIOUS
  <2> QED
    BY <2>1, <2>2, <2>3 DEF KeptUpTo
<1>9. g[n].selected \in Seq(F)
  BY <1>6 DEF Keeping
<1> QED
  BY <1>1, <1>7, <1>8, <1>9 DEF NmsKept

-----------------------------------------------------------------------------
\* The corners are numbers.
IsRect(r) == r.x1 \in Int /\ r.x2 \in Int /\ r.y1 \in Int /\ r.y2 \in Int

\* Two boxes overlap each other alike, and nothing overlaps a box without pixels.
LEMMA OverlapSame ==
  ASSUME NEW a, NEW b, IsRect(a), IsRect(b), NEW percent
  PROVE  Detector!OverlapPercent(a, b, percent) <=> Detector!OverlapPercent(b, a, percent)
<1> USE DEF IsRect
<1>1. /\ Detector!Least(a.x2, b.x2) = Detector!Least(b.x2, a.x2)
      /\ Detector!Least(a.y2, b.y2) = Detector!Least(b.y2, a.y2)
      /\ Detector!Greatest(a.x1, b.x1) = Detector!Greatest(b.x1, a.x1)
      /\ Detector!Greatest(a.y1, b.y1) = Detector!Greatest(b.y1, a.y1)
  BY DEF Detector!Least, Detector!Greatest
<1>2. Detector!Overlap(a, b) = Detector!Overlap(b, a)
  BY <1>1, Zenon DEF Detector!Overlap
<1>3. Detector!Area(a) \in Int /\ Detector!Area(b) \in Int
  BY DEF Detector!Area
<1>4. PICK o : o = Detector!Overlap(a, b) /\ o = Detector!Overlap(b, a)
  BY <1>2
<1>5. o \in Int
  <2>1. PICK w \in Int, h \in Int :
          /\ w = Detector!Least(a.x2, b.x2) - Detector!Greatest(a.x1, b.x1) + 2
          /\ h = Detector!Least(a.y2, b.y2) - Detector!Greatest(a.y1, b.y1) + 2
    BY DEF Detector!Least, Detector!Greatest
  <2>2. o = IF w <= 0 \/ h <= 0 THEN 0 ELSE w * h
    BY <1>4, <2>1 DEF Detector!Overlap
  <2> QED
    BY <2>2
<1>6. PICK s : s = Detector!Area(a) + Detector!Area(b) - o /\ s = Detector!Area(b) + Detector!Area(a) - o
  <2>1. \A x, y, z \in Int : x + y - z = y + x - z
    OBVIOUS
  <2> QED
    BY <1>3, <1>5, <2>1
<1>7. /\ Detector!OverlapPercent(a, b, percent) <=> (o # 0 /\ 100 * o > percent * s)
      /\ Detector!OverlapPercent(b, a, percent) <=> (o # 0 /\ 100 * o > percent * s)
  BY <1>4, <1>6, Zenon DEF Detector!OverlapPercent
<1> QED
  BY <1>7

\* A rectangle so far inside out that it has no pixels.
NoPixel(r) == r.x2 + 2 <= r.x1 \/ r.y2 + 2 <= r.y1

\* The overlap with a box without pixels is empty.
LEMMA NothingOverlaps ==
  ASSUME NEW a, NEW b, IsRect(a), IsRect(b), NEW percent, NoPixel(b)
  PROVE  ~Detector!OverlapPercent(a, b, percent)
<1>1. PICK w \in Int, h \in Int :
        /\ w = Detector!Least(a.x2, b.x2) - Detector!Greatest(a.x1, b.x1) + 2
        /\ h = Detector!Least(a.y2, b.y2) - Detector!Greatest(a.y1, b.y1) + 2
        /\ w <= b.x2 - b.x1 + 2 /\ h <= b.y2 - b.y1 + 2
  BY DEF Detector!Least, Detector!Greatest, IsRect
<1>2. w <= 0 \/ h <= 0
  BY <1>1 DEF NoPixel, IsRect
<1>3. Detector!Overlap(a, b) = 0
  BY <1>1, <1>2 DEF Detector!Overlap
<1> QED
  BY <1>3 DEF Detector!OverlapPercent

-----------------------------------------------------------------------------
\* Faces with boxes, the best first.
Ranked(b, n) ==
  /\ \A i \in 1..n : b[i].score \in Int /\ IsRect(b[i].rect)
  /\ \A i, j \in 1..n : i < j => b[i].score > b[j].score

\* Nms keeps boxes that do not overlap, for every other a better one that overlaps it.
LEMMA NmsIsGreedy ==
  ASSUME NEW F, NEW n \in Nat, NEW b \in [1..n -> F], Ranked(b, n), F = {b[i] : i \in 1..n}
  PROVE  /\ In(Detector!Nms(b, NmsPercent)) \subseteq F
         /\ Detector!Greedy(F, In(Detector!Nms(b, NmsPercent)))
<1>0. \E K : NmsKept(b, NmsPercent, n, K)
  BY NmsKeeps
<1>1. PICK K : /\ KeptAt(b, NmsPercent, n, K)
               /\ In(Detector!Nms(b, NmsPercent)) = {b[p] : p \in K}
  BY <1>0 DEF NmsKept
<1>2. PICK kept : kept = In(Detector!Nms(b, NmsPercent)) /\ kept = {b[p] : p \in K}
  BY <1>1
<1>3. /\ K \subseteq 1..n
      /\ \A i \in 1..n : i \in K <=> \A p \in K : p < i => ~Detector!Merges(b[p], b[i], NmsPercent)
  BY <1>1 DEF KeptAt
<1>4. \A p, i \in 1..n : Detector!Merges(b[p], b[i], NmsPercent)
                         <=> Detector!OverlapPercent(b[p].rect, b[i].rect, NmsPercent)
  BY DEF Detector!Merges
<1>5. \A p, i \in 1..n : Detector!OverlapPercent(b[p].rect, b[i].rect, NmsPercent)
                         <=> Detector!OverlapPercent(b[i].rect, b[p].rect, NmsPercent)
  BY OverlapSame DEF Ranked
<1>6. ASSUME NEW face \in kept, NEW other \in kept, face # other
      PROVE  ~Detector!OverlapPercent(face.rect, other.rect, NmsPercent)
  <2>1. PICK p \in K, q \in K : face = b[p] /\ other = b[q] /\ p # q
    BY <1>2, <1>6
  <2>2. p \in 1..n /\ q \in 1..n
    BY <1>3
  <2>3. CASE p < q
    BY <1>3, <1>4, <2>1, <2>2, <2>3
  <2>4. CASE q < p
    BY <1>3, <1>4, <1>5, <2>1, <2>2, <2>4
  <2> QED
    BY <2>1, <2>2, <2>3, <2>4
<1>7. ASSUME NEW face \in F \ kept
      PROVE  \E better \in kept : /\ better.score > face.score
                                  /\ Detector!OverlapPercent(better.rect, face.rect, NmsPercent)
  <2>1. PICK i \in 1..n : face = b[i] /\ i \notin K
    BY <1>2
  <2>2. PICK p \in K : p < i /\ Detector!Merges(b[p], b[i], NmsPercent)
    BY <1>3, <2>1
  <2>3. p \in 1..n /\ b[p] \in kept
    BY <1>2, <1>3
  <2>4. b[p].score > b[i].score
    BY <2>2, <2>3 DEF Ranked
  <2> QED
    BY <1>4, <2>1, <2>2, <2>3, <2>4
<1>8. ASSUME NEW face \in F, NoPixel(face.rect) PROVE face \in kept
  <2> SUFFICES ASSUME face \notin kept PROVE FALSE
    OBVIOUS
  <2>1. PICK better \in kept : Detector!OverlapPercent(better.rect, face.rect, NmsPercent)
    BY <1>7
  <2>2. PICK p \in 1..n, i \in 1..n : better = b[p] /\ face = b[i]
    BY <1>2, <1>3
  <2> QED
    BY <1>8, <2>1, <2>2, NothingOverlaps DEF Ranked
<1>9. kept \subseteq F
  BY <1>2, <1>3
<1>10. Detector!Greedy(F, kept)
  BY <1>6, <1>7, <1>8 DEF Detector!Greedy, NoPixel
<1> QED
  BY <1>2, <1>9, <1>10

-----------------------------------------------------------------------------
\* Lists of boxes in the same places keep what is at the same places.
ListsAt(s, b, at) == Len(s) = Len(at) /\ \A k \in 1..Len(at) : s[k] = b[at[k]]

\* One more box of the same place.
LEMMA ListsMore ==
  ASSUME NEW F, NEW n \in Nat, NEW b \in [1..n -> F], NEW s \in Seq(F), NEW at \in Seq(1..n),
         ListsAt(s, b, at), NEW j \in 1..n
  PROVE  ListsAt(Append(s, b[j]), b, Append(at, j))
<1>1. PICK l \in Nat : l = Len(s) /\ l = Len(at)
  BY DEF ListsAt
<1>2. PICK t, u : t = Append(s, b[j]) /\ u = Append(at, j)
  OBVIOUS
<1>3. Len(t) = l + 1 /\ t[l + 1] = b[j] /\ \A k \in 1..l : t[k] = s[k]
  <2>1. b[j] \in F /\ l = Len(s)
    BY <1>1
  <2>2. OneMore(s, Append(s, b[j]), b[j], l)
    BY <2>1, Appended
  <2> QED
    BY <1>2, <2>2 DEF OneMore
<1>4. Len(u) = l + 1 /\ u[l + 1] = j /\ \A k \in 1..l : u[k] = at[k]
  <2>1. OneMore(at, Append(at, j), j, l)
    BY <1>1, Appended
  <2> QED
    BY <1>2, <2>1 DEF OneMore
<1>5. \A k \in 1..l + 1 : k \in 1..l \/ k = l + 1
  OBVIOUS
<1>6. \A k \in 1..l : s[k] = b[at[k]]
  BY <1>1 DEF ListsAt
<1>7. \A k \in 1..l + 1 : t[k] = b[u[k]]
  BY <1>3, <1>4, <1>5, <1>6
<1> QED
  BY <1>2, <1>3, <1>4, <1>7 DEF ListsAt

\* Two lists are those of two lists of boxes at the same positions.
Alike(s, b, t, d, n) == \E at \in Seq(1..n) : ListsAt(s, b, at) /\ ListsAt(t, d, at)

\* Of lists with the same boxes Nms keeps the same places.
LEMMA NmsAlike ==
  ASSUME NEW F, NEW n \in Nat, NEW b \in [1..n -> F], NEW d \in [1..n -> F], NEW percent,
         \A i \in 1..n : b[i].rect = d[i].rect
  PROVE  Alike(Detector!Nms(b, percent), b, Detector!Nms(d, percent), d, n)
<1>0. /\ \E g \in [0..n -> Keeping(F, n)] : NmsGoes(b, percent, n, g)
      /\ \E g \in [0..n -> Keeping(F, n)] : NmsGoes(d, percent, n, g)
  BY NmsSteps
<1>1. PICK g \in [0..n -> Keeping(F, n)] :
        Keeps(b, percent, n, g) /\ Detector!Nms(b, percent) = g[n].selected
  BY <1>0 DEF NmsGoes
<1>2. PICK h \in [0..n -> Keeping(F, n)] :
        Keeps(d, percent, n, h) /\ Detector!Nms(d, percent) = h[n].selected
  BY <1>0 DEF NmsGoes
<1>3. \A i, j \in 1..n : Detector!Merges(b[i], b[j], percent) <=> Detector!Merges(d[i], d[j], percent)
  BY DEF Detector!Merges
<1> DEFINE S == {i \in 0..n : /\ g[i].merged = h[i].merged
                              /\ Alike(g[i].selected, b, h[i].selected, d, n)}
<1>4. 0 \in S
  <2>1. g[0].selected = <<>> /\ h[0].selected = <<>> /\ g[0].merged = {} /\ h[0].merged = {}
    BY <1>1, <1>2 DEF Keeps
  <2>2. Len(<<>>) = 0 /\ 1..0 = {} /\ <<>> \in Seq(1..n)
    OBVIOUS
  <2>3. ListsAt(<<>>, b, <<>>) /\ ListsAt(<<>>, d, <<>>)
    BY <2>2 DEF ListsAt
  <2>4. Alike(<<>>, b, <<>>, d, n)
    BY <2>2, <2>3 DEF Alike
  <2>5. 0 \in 0..n /\ g[0].merged = h[0].merged /\ Alike(g[0].selected, b, h[0].selected, d, n)
    BY <2>1, <2>4
  <2> QED
    BY <2>5
<1>5. ASSUME NEW i \in 0..n - 1, i \in S PROVE i + 1 \in S
  <2>1. PICK j \in 1..n : j = i + 1 /\ j - 1 = i /\ i \in 0..n /\ j \in 0..n
    OBVIOUS
  <2>2. PICK k \in Keeping(F, n), l \in Keeping(F, n) :
          k = g[i] /\ l = h[i] /\ k.merged = l.merged /\ Alike(k.selected, b, l.selected, d, n)
    BY <1>5, <2>1
  <2>3. g[j] = KeepNext(b, percent, n, j, k) /\ h[j] = KeepNext(d, percent, n, j, l)
    BY <1>1, <1>2, <2>1, <2>2 DEF Keeps
  <2>4. CASE j \in k.merged
    <3>1. g[j] = k /\ h[j] = l
      BY <2>2, <2>3, <2>4 DEF KeepNext
    <3> QED
      BY <2>1, <2>2, <3>1
  <2>5. CASE j \notin k.merged
    <3>1. PICK m : m = {o \in j + 1..n : Detector!Merges(b[j], b[o], percent)}
      OBVIOUS
    <3>2. m = {o \in j + 1..n : Detector!Merges(d[j], d[o], percent)}
      <4>1. \A o \in j + 1..n : o \in 1..n
        OBVIOUS
      <4> QED
        BY <1>3, <3>1, <4>1
    <3>3. /\ g[j] = [selected |-> Append(k.selected, b[j]), merged |-> k.merged \cup m]
          /\ h[j] = [selected |-> Append(l.selected, d[j]), merged |-> l.merged \cup m]
      BY <2>2, <2>3, <2>5, <3>1, <3>2, Zenon DEF KeepNext
    <3>4. PICK at \in Seq(1..n) : ListsAt(k.selected, b, at) /\ ListsAt(l.selected, d, at)
      BY <2>2 DEF Alike
    <3>5. k.selected \in Seq(F) /\ l.selected \in Seq(F)
      BY DEF Keeping
    <3>6. /\ ListsAt(Append(k.selected, b[j]), b, Append(at, j))
          /\ ListsAt(Append(l.selected, d[j]), d, Append(at, j))
      BY <3>4, <3>5, ListsMore
    <3>7. Append(at, j) \in Seq(1..n)
      OBVIOUS
    <3>8. Alike(Append(k.selected, b[j]), b, Append(l.selected, d[j]), d, n)
      BY <3>6, <3>7 DEF Alike
    <3>9. /\ g[j].selected = Append(k.selected, b[j]) /\ h[j].selected = Append(l.selected, d[j])
          /\ g[j].merged = h[j].merged
      BY <2>2, <3>3
    <3> QED
      BY <2>1, <3>8, <3>9
  <2> QED
    BY <2>4, <2>5
<1>6. \A i \in 0..n : i \in S
  <2> HIDE DEF S
  <2> QED
    BY <1>4, <1>5, UpTo
<1>7. Alike(g[n].selected, b, h[n].selected, d, n)
  <2>1. n \in 0..n
    OBVIOUS
  <2> QED
    BY <1>6, <2>1
<1> QED
  BY <1>1, <1>2, <1>7

-----------------------------------------------------------------------------
(* The order of the faces.                                                 *)

\* The members of a set in the order of their scores, the best first.
Better(C, out, c) == {d \in C : out[d] > out[c]}
Orders(C, out, n, order) ==
  /\ \A c \in C : \E i \in 1..n : order[i] = c
  /\ \A i, j \in 1..n : i < j => out[order[i]] > out[order[j]]
Scored(C, out) ==
  /\ IsFiniteSet(C) /\ \A c \in C : out[c] \in Int
  /\ \A c, d \in C : out[c] = out[d] => c = d

\* What is better than the better one is fewer.
LEMMA RanksDiffer ==
  ASSUME NEW C, NEW out, Scored(C, out), NEW c \in C, NEW d \in C, out[c] > out[d]
  PROVE  /\ Cardinality(Better(C, out, c)) < Cardinality(Better(C, out, d))
         /\ Cardinality(Better(C, out, c)) \in Nat /\ Cardinality(Better(C, out, d)) \in Nat
<1>1. PICK P, Q : P = Better(C, out, c) /\ Q = Better(C, out, d)
  OBVIOUS
<1>2. P \subseteq Q /\ c \in Q /\ c \notin P /\ Q \subseteq C
  BY <1>1 DEF Better, Scored
<1>3. IsFiniteSet(Q) /\ IsFiniteSet(P)
  BY <1>2, FS_Subset DEF Scored
<1>4. Cardinality(P) <= Cardinality(Q) /\ (Cardinality(P) = Cardinality(Q) => P = Q)
  BY <1>2, <1>3, FS_Subset
<1>5. Cardinality(P) \in Nat /\ Cardinality(Q) \in Nat
  BY <1>3, FS_CardinalityType
<1> QED
  BY <1>1, <1>2, <1>4, <1>5

\* The scores being different, the numbers of better ones put the members in order.
LEMMA RankIs ==
  ASSUME NEW C, NEW out, Scored(C, out), NEW n \in Nat, n = Cardinality(C)
  PROVE  \E order \in [1..n -> C] :
           /\ Orders(C, out, n, order)
           /\ \A i \in 1..n : \A c \in C : Cardinality(Better(C, out, c)) = i - 1 <=> c = order[i]
<1> DEFINE rank == [c \in C |-> Cardinality(Better(C, out, c)) + 1]
<1>1. ASSUME NEW c \in C PROVE Cardinality(Better(C, out, c)) \in 0..n - 1
  <2>1. Better(C, out, c) \subseteq C /\ c \notin Better(C, out, c)
    BY DEF Better, Scored
  <2>2. IsFiniteSet(Better(C, out, c)) /\ Cardinality(Better(C, out, c)) \in Nat
    BY <2>1, FS_Subset, FS_CardinalityType DEF Scored
  <2>3. Cardinality(Better(C, out, c)) <= n /\ Cardinality(Better(C, out, c)) # n
    BY <2>1, FS_Subset DEF Scored
  <2> QED
    BY <2>2, <2>3
<1>2. rank \in [C -> 1..n]
  BY <1>1
<1>3. \A c, d \in C : rank[c] = rank[d] => c = d
  <2> SUFFICES ASSUME NEW c \in C, NEW d \in C, c # d PROVE rank[c] # rank[d]
    OBVIOUS
  <2>1. out[c] > out[d] \/ out[d] > out[c]
    BY DEF Scored
  <2>2. Cardinality(Better(C, out, c)) # Cardinality(Better(C, out, d))
    BY <2>1, RanksDiffer
  <2>3. Cardinality(Better(C, out, c)) \in Nat /\ Cardinality(Better(C, out, d)) \in Nat
    BY <1>1
  <2> QED
    BY <2>2, <2>3
<1>4. \A c \in C : rank[c] = Cardinality(Better(C, out, c)) + 1
  OBVIOUS
<1> HIDE DEF rank
<1>5. rank \in Injection(C, 1..n)
  BY <1>2, <1>3 DEF Injection, IsInjective
<1>6. IsFiniteSet(1..n) /\ Cardinality(1..n) = n
  <2>1. n \in Int /\ 1 \in Int /\ n - 1 + 1 = n /\ (1 > n => n = 0)
    OBVIOUS
  <2> QED
    BY <2>1, FS_Interval
<1>7. \A i \in 1..n : \E c \in C : rank[c] = i
  <2>1. rank \in Surjection(C, 1..n)
    BY <1>5, <1>6, FS_Injection
  <2> QED
    BY <2>1 DEF Surjection
<1>8. PICK order : order = [i \in 1..n |-> CHOOSE c \in C : rank[c] = i]
  OBVIOUS
<1>9. \A i \in 1..n : order[i] \in C /\ rank[order[i]] = i
  BY <1>7, <1>8
<1>10. order \in [1..n -> C]
  BY <1>8, <1>9
<1>11. ASSUME NEW i \in 1..n, NEW c \in C
       PROVE  Cardinality(Better(C, out, c)) = i - 1 <=> c = order[i]
  <2>1. PICK r \in Nat : r = Cardinality(Better(C, out, c)) /\ rank[c] = r + 1
    BY <1>1, <1>4
  <2>2. r = i - 1 <=> rank[c] = i
    BY <2>1
  <2>3. rank[c] = i <=> c = order[i]
    BY <1>3, <1>9
  <2> QED
    BY <2>1, <2>2, <2>3
<1>12. \A c \in C : \E i \in 1..n : order[i] = c
  <2> SUFFICES ASSUME NEW c \in C PROVE \E i \in 1..n : order[i] = c
    OBVIOUS
  <2>1. rank[c] \in 1..n
    BY <1>2
  <2> QED
    BY <1>3, <1>9, <2>1
<1>13. ASSUME NEW i \in 1..n, NEW j \in 1..n, i < j PROVE out[order[i]] > out[order[j]]
  <2>1. PICK c \in C, d \in C : c = order[i] /\ d = order[j]
    BY <1>9
  <2>2. Cardinality(Better(C, out, c)) = i - 1 /\ Cardinality(Better(C, out, d)) = j - 1
    BY <1>11, <2>1
  <2>3. out[c] \in Int /\ out[d] \in Int
    BY DEF Scored
  <2>4. c # d
    BY <1>13, <2>2
  <2>5. ~(out[d] > out[c])
    <3> SUFFICES ASSUME out[d] > out[c] PROVE FALSE
      OBVIOUS
    <3>1. Cardinality(Better(C, out, d)) < Cardinality(Better(C, out, c))
      BY RanksDiffer
    <3> QED
      BY <1>13, <2>2, <3>1
  <2>6. out[c] # out[d]
    BY <2>4 DEF Scored
  <2> QED
    BY <2>1, <2>3, <2>5, <2>6
<1> QED
  BY <1>10, <1>11, <1>12, <1>13 DEF Orders

-----------------------------------------------------------------------------
\* The list of the boxes of a set of cells, which is that of the cells.
FacesOf(C, f) == {f[c] : c \in C}
Follows(s, f, n, order) == s = [i \in 1..n |-> f[order[i]]]

\* Sorted lists the faces in the order of their cells.
LEMMA SortedIs ==
  ASSUME NEW C, NEW out, Scored(C, out), NEW n \in Nat, n = Cardinality(C),
         NEW order \in [1..n -> C], Orders(C, out, n, order),
         \A i \in 1..n : \A c \in C : Cardinality(Better(C, out, c)) = i - 1 <=> c = order[i],
         NEW S, NEW f \in [C -> S], \A c \in C : f[c].score = out[c]
  PROVE  Follows(Detector!Sorted(FacesOf(C, f)), f, n, order)
<1>1. PICK B : B = FacesOf(C, f)
  OBVIOUS
<1>2. \A b \in B : \E c \in C : b = f[c]
  BY <1>1 DEF FacesOf
<1>3. \A c \in C : f[c] \in B
  BY <1>1 DEF FacesOf
<1>4. \A c, d \in C : f[c] = f[d] => c = d
  <2> SUFFICES ASSUME NEW c \in C, NEW d \in C, f[c] = f[d] PROVE c = d
    OBVIOUS
  <2>1. out[c] = out[d]
    <3>1. f[c].score = f[d].score
      OBVIOUS
    <3> QED
      BY <3>1
  <2> QED
    BY <2>1 DEF Scored
<1>5. IsFiniteSet(B) /\ Cardinality(B) = n
  <2>1. f \in [C -> B]
    BY <1>3
  <2>2. f \in Bijection(C, B)
    BY <1>2, <1>4, <2>1 DEF Bijection, Injection, Surjection, IsInjective
  <2>3. ExistsBijection(C, B)
    BY <2>2 DEF ExistsBijection
  <2> QED
    BY <2>3, FS_Bijection DEF Scored
<1>6. ASSUME NEW c \in C
      PROVE  Cardinality({b \in B : b.score > f[c].score}) = Cardinality(Better(C, out, c))
  <2>1. PICK P : P = Better(C, out, c) /\ P \subseteq C
    <3>1. Better(C, out, c) \subseteq C
      BY DEF Better
    <3> QED
      BY <3>1
  <2>2. PICK Q : Q = {b \in B : b.score > f[c].score}
    OBVIOUS
  <2>3. IsFiniteSet(P)
    BY <2>1, FS_Subset DEF Scored
  <2>4. PICK h : h = [d \in P |-> f[d]]
    OBVIOUS
  <2>5. \A d \in C : d \in P <=> f[d].score > f[c].score
    BY <2>1 DEF Better
  <2>6. \A d \in P : f[d] \in Q
    BY <1>3, <2>1, <2>2, <2>5
  <2>7. \A q \in Q : \E d \in P : f[d] = q
    BY <1>2, <2>2, <2>5
  <2>8. h \in [P -> Q]
    BY <2>4, <2>6
  <2>9. h \in Bijection(P, Q)
    BY <1>4, <2>1, <2>4, <2>7, <2>8 DEF Bijection, Injection, Surjection, IsInjective
  <2>10. ExistsBijection(P, Q)
    BY <2>9 DEF ExistsBijection
  <2> QED
    BY <2>1, <2>2, <2>3, <2>10, FS_Bijection
<1>7. ASSUME NEW i \in 1..n
      PROVE  (CHOOSE box \in B : Cardinality({better \in B : better.score > box.score}) = i - 1)
               = f[order[i]]
  <2>1. order[i] \in C
    OBVIOUS
  <2>2. \A box \in B :
          Cardinality({better \in B : better.score > box.score}) = i - 1 <=> box = f[order[i]]
    <3> SUFFICES ASSUME NEW c \in C
                 PROVE  Cardinality({better \in B : better.score > f[c].score}) = i - 1 <=> f[c] = f[order[i]]
      BY <1>2
    <3>1. Cardinality({better \in B : better.score > f[c].score}) = i - 1 <=> c = order[i]
      BY <1>6
    <3> QED
      BY <1>4, <2>1, <3>1
  <2>3. f[order[i]] \in B
    BY <1>3, <2>1
  <2> QED
    BY <2>2, <2>3
<1>8. Detector!Sorted(B) = [i \in 1..n |-> CHOOSE box \in B :
                               Cardinality({better \in B : better.score > box.score}) = i - 1]
  <2>1. Detector!Sorted(B) = [i \in 1..Cardinality(B) |-> CHOOSE box \in B :
                                Cardinality({better \in B : better.score > box.score}) = i - 1]
    BY DEF Detector!Sorted, Detector!Cardinality, Cardinality
  <2> QED
    BY <1>5, <2>1
<1> QED
  BY <1>1, <1>7, <1>8 DEF Follows

-----------------------------------------------------------------------------
(* Anchors.                                                                *)

\* The window w by h around a point, and the windows around the middle of the base.
Window(w, h, x, y) == [w |-> w, h |-> h, x_ctr |-> x, y_ctr |-> y]
Around(w, h, x, y) == Detector!MkAnchors(Window(w, h, x, y))
Shapes == {Around(q[1], q[2], 15, 15) : q \in Int \X Int}

\* It has the width and the height, and corners that are numbers.
LEMMA AroundIs ==
  ASSUME NEW w \in Int, NEW h \in Int, NEW x \in Int, NEW y \in Int
  PROVE  /\ Detector!Whctrs(Around(w, h, x, y)) = Window(w, h, x, y)
         /\ IsRect(Around(w, h, x, y))
<1>1. PICK b : b = Around(w, h, x, y)
  OBVIOUS
<1>2. /\ b.x1 = x - (w - 1) /\ b.x2 = x + (w - 1)
      /\ b.y1 = y - (h - 1) /\ b.y2 = y + (h - 1)
  BY <1>1 DEF Around, Window, Detector!MkAnchors, Detector!Box
<1>3. (b.x2 - b.x1) \div 2 + 1 = w /\ (b.y2 - b.y1) \div 2 + 1 = h
  BY <1>2
<1>4. Detector!Whctrs(b) = Window(w, h, x, y)
  <2>1. b.x1 + (w - 1) = x /\ b.y1 + (h - 1) = y
    BY <1>2
  <2> QED
    BY <1>3, <2>1 DEF Detector!Whctrs, Window
<1>6. IsRect(b)
  BY <1>2 DEF IsRect
<1> QED
  BY <1>1, <1>4, <1>6

\* Shifted, it is the window around the shifted point.
LEMMA ShiftIs ==
  ASSUME NEW w \in Int, NEW h \in Int, NEW x \in Int, NEW y \in Int, NEW dx \in Int, NEW dy \in Int
  PROVE  Detector!Shift(Around(w, h, x, y), dx, dy) = Around(w, h, x + dx, y + dy)
<1>1. PICK b : b = Around(w, h, x, y)
  OBVIOUS
<1>2. /\ b.x1 = x - (w - 1) /\ b.x2 = x + (w - 1)
      /\ b.y1 = y - (h - 1) /\ b.y2 = y + (h - 1)
  BY <1>1 DEF Around, Window, Detector!MkAnchors, Detector!Box
<1>3. /\ b.x1 + dx = (x + dx) - (w - 1) /\ b.x2 + dx = (x + dx) + (w - 1)
      /\ b.y1 + dy = (y + dy) - (h - 1) /\ b.y2 + dy = (y + dy) + (h - 1)
  BY <1>2
<1> QED
  BY <1>1, <1>3 DEF Detector!Shift, Around, Window, Detector!MkAnchors, Detector!Box

\* A window of another size with the same middle.
Wider(win, w, h) == [win EXCEPT !.w = w, !.h = h]

\* Of another width and height it has the same middle.
LEMMA OtherWindow ==
  ASSUME NEW w, NEW h, NEW x, NEW y, NEW a, NEW b, NEW win, win = Window(a, b, x, y)
  PROVE  Wider(win, w, h) = Window(w, h, x, y)
<1>1. PICK wider : wider = [win EXCEPT !.w = w]
  OBVIOUS
<1>2. wider = [w |-> w, h |-> b, x_ctr |-> x, y_ctr |-> y]
  BY <1>1 DEF Window
<1>3. [wider EXCEPT !.h = h] = [w |-> w, h |-> h, x_ctr |-> x, y_ctr |-> y]
  BY <1>2
<1>4. [win EXCEPT !.w = w, !.h = h] = [wider EXCEPT !.h = h]
  BY <1>1 DEF Window
<1> QED
  BY <1>3, <1>4 DEF Window, Wider

\* The configuration of a feature map.
Sizes == {Detector!One, <<3, 2>>}
IsConfig(cfg) ==
  /\ cfg.STRIDE \in Nat \ {0} /\ cfg.BASE_SIZE = 16
  /\ cfg.SCALES \in Seq(Nat) /\ cfg.RATIOS \in Seq(Sizes)

\* AnchorConfig gives every feature map one.
LEMMA ConfigsAre ==
  ASSUME NEW network, NEW map \in DOMAIN Detector!AnchorConfig(network)
  PROVE  IsConfig(Detector!AnchorConfig(network)[map])
<1>1. Detector!Ratios(network) \in Seq(Sizes)
  <2>1. <<>> \in Seq(Sizes) /\ <<Detector!One>> \in Seq(Sizes) /\ <<Detector!One, <<3, 2>>>> \in Seq(Sizes)
    BY DEF Sizes
  <2> QED
    BY <2>1 DEF Detector!Ratios, Detector!NoRatio
<1>2. PICK r \in Seq(Sizes) : r = Detector!Ratios(network)
  BY <1>1
<1>3. Detector!FeatureMaps(network) = 3
  BY DEF Detector!AnchorConfig
<1>4. Detector!AnchorConfig(network)
        = <<Detector!Config(32, <<32, 16>>, r), Detector!Config(16, <<8, 4>>, r),
            Detector!Config(8, <<2, 1>>, r)>>
  BY <1>2, <1>3, Zenon DEF Detector!AnchorConfig
<1>5. PICK cs : cs = Detector!AnchorConfig(network)
  OBVIOUS
<1>6. map \in 1..3
  BY <1>4
<1>7. cs[map] \in {Detector!Config(32, <<32, 16>>, r), Detector!Config(16, <<8, 4>>, r),
                   Detector!Config(8, <<2, 1>>, r)}
  BY <1>4, <1>5, <1>6
<1>8. <<32, 16>> \in Seq(Nat) /\ <<8, 4>> \in Seq(Nat) /\ <<2, 1>> \in Seq(Nat)
  OBVIOUS
<1>9. ASSUME NEW stride \in Nat \ {0}, NEW scales \in Seq(Nat)
      PROVE  IsConfig(Detector!Config(stride, scales, r))
  BY DEF IsConfig, Detector!Config
<1>10. /\ IsConfig(Detector!Config(32, <<32, 16>>, r)) /\ IsConfig(Detector!Config(16, <<8, 4>>, r))
       /\ IsConfig(Detector!Config(8, <<2, 1>>, r))
  <2>1. 32 \in Nat \ {0} /\ 16 \in Nat \ {0} /\ 8 \in Nat \ {0}
    OBVIOUS
  <2> HIDE DEF IsConfig
  <2> QED
    BY <1>8, <1>9, <2>1
<1> QED
  <2> HIDE DEF IsConfig
  <2> QED
    BY <1>5, <1>7, <1>10, Zenon

\* What lists of lists come to is a list of what they list.
FlatNext(seqs, i, k) == IF i = 1 THEN seqs[i] ELSE k \o seqs[i]

\* FlattenSeq, by the recursion it is made of.
LEMMA Flattened ==
  ASSUME NEW S, NEW n \in Nat, NEW seqs, seqs \in [1..n -> Seq(S)]
  PROVE  Detector!FlattenSeq(seqs) \in Seq(S)
<1>1. Len(seqs) = n /\ DOMAIN seqs = 1..n
  OBVIOUS
<1>2. CASE n = 0
  <2>1. seqs = <<>>
    BY <1>2
  <2> QED
    BY <1>1, <1>2, <2>1 DEF Detector!FlattenSeq
<1>3. CASE n # 0
  <2>1. PICK A : A = Seq(S)
    OBVIOUS
  <2>2. 1 \in 1..n /\ seqs[1] \in A
    BY <1>3, <2>1
  <2>3. ASSUME NEW i \in 1..n, NEW k \in A PROVE FlatNext(seqs, i, k) \in A
    BY <2>1 DEF FlatNext
  <2>4. PICK op : op = [q \in A \X (1..n) |-> FlatNext(seqs, q[2], q[1])]
    OBVIOUS
  <2>5. op \in [A \X (1..n) -> A]
    BY <2>3, <2>4
  <2>6. PICK g \in [0..n -> A] : GoesOn(n, seqs[1], op, g)
    BY <2>2, <2>5, StepsExist
  <2>7. ASSUME NEW i \in 1..n PROVE g[i] = FlatNext(seqs, i, g[i - 1])
    <3>1. i - 1 \in 0..n
      OBVIOUS
    <3>2. g[i - 1] \in A /\ g[i] = op[<<g[i - 1], i>>]
      BY <2>6, <3>1 DEF GoesOn
    <3> QED
      BY <2>4, <3>2
  <2> DEFINE Of(h) == [i \in 1..Len(seqs) |-> IF i = 1 THEN seqs[i] ELSE h[i - 1] \o seqs[i]]
             chosen == CHOOSE h : h = Of(h)
  <2>8. Detector!FlattenSeq(seqs) = chosen[n]
    BY <1>1, <1>3 DEF Detector!FlattenSeq
  <2>9. PICK h : h = [i \in 1..n |-> g[i]]
    OBVIOUS
  <2>10. h = Of(h)
    <3>1. ASSUME NEW i \in 1..n PROVE h[i] = IF i = 1 THEN seqs[i] ELSE h[i - 1] \o seqs[i]
      <4>1. i # 1 => i - 1 \in 1..n
        OBVIOUS
      <4> QED
        BY <2>7, <2>9, <4>1 DEF FlatNext
    <3> QED
      BY <1>1, <2>9, <3>1
  <2>11. chosen = Of(chosen)
    <3> HIDE DEF Of
    <3> QED
      BY <2>10
  <2> HIDE DEF chosen
  <2>12. ASSUME NEW i \in 1..n
         PROVE  chosen[i] = IF i = 1 THEN seqs[i] ELSE chosen[i - 1] \o seqs[i]
    BY <1>1, <2>11
  <2> HIDE DEF Of
  <2> DEFINE T == {i \in 0..n : i = 0 \/ chosen[i] \in Seq(S)}
  <2>13. 0 \in T
    OBVIOUS
  <2>14. ASSUME NEW i \in 0..n - 1, i \in T PROVE i + 1 \in T
    <3>1. PICK j \in 1..n : j = i + 1 /\ j - 1 = i /\ j \in 0..n
      OBVIOUS
    <3>2. seqs[j] \in Seq(S)
      OBVIOUS
    <3>3. chosen[j] \in Seq(S)
      <4>1. CASE j = 1
        BY <2>12, <3>2, <4>1
      <4>2. CASE j # 1
        <5>1. chosen[i] \in Seq(S)
          BY <2>14, <3>1, <4>2
        <5>2. chosen[j] = chosen[i] \o seqs[j]
          BY <2>12, <3>1, <4>2
        <5> QED
          BY <3>2, <5>1, <5>2
      <4> QED
        BY <4>1, <4>2
    <3> QED
      BY <3>1, <3>3
  <2>15. \A i \in 0..n : i \in T
    <3> HIDE DEF T
    <3> QED
      BY <2>13, <2>14, UpTo
  <2>16. n \in T
    BY <2>15
  <2> QED
    BY <1>3, <2>8, <2>16
<1> QED
  BY <1>2, <1>3

-----------------------------------------------------------------------------
\* The rounded root of the area of the base exists for the ratios there are.
LEMMA RootsAre ==
  ASSUME NEW r \in Sizes
  PROVE  Detector!RoundedRoot(256, r) \in Int
<1>1. r = <<1, 1>> \/ r = <<3, 2>>
  BY DEF Sizes, Detector!One
<1>2. (r[1] = 1 /\ r[2] = 1) \/ (r[1] = 3 /\ r[2] = 2)
  BY <1>1
<1>3. \E w \in 0..256 : /\ (2 * w - 1) * (2 * w - 1) * r[1] <= 4 * 256 * r[2]
                        /\ (2 * w + 1) * (2 * w + 1) * r[1] > 4 * 256 * r[2]
  <2>1. CASE r[1] = 1 /\ r[2] = 1
    <3>1. 16 \in 0..256 /\ (2 * 16 - 1) * (2 * 16 - 1) * r[1] <= 4 * 256 * r[2]
                        /\ (2 * 16 + 1) * (2 * 16 + 1) * r[1] > 4 * 256 * r[2]
      BY <2>1
    <3> QED
      BY <3>1
  <2>2. CASE r[1] = 3 /\ r[2] = 2
    <3>1. 13 \in 0..256 /\ (2 * 13 - 1) * (2 * 13 - 1) * r[1] <= 4 * 256 * r[2]
                        /\ (2 * 13 + 1) * (2 * 13 + 1) * r[1] > 4 * 256 * r[2]
      BY <2>2
    <3> QED
      BY <3>1
  <2> QED
    BY <1>2, <2>1, <2>2
<1>4. Detector!RoundedRoot(256, r) \in 0..256
  BY <1>3 DEF Detector!RoundedRoot
<1> QED
  BY <1>4

\* GenerateAnchors makes windows around the middle of the base.
LEMMA AnchorsAre ==
  ASSUME NEW cfg, IsConfig(cfg)
  PROVE  Detector!GenerateAnchors(cfg) \in Seq(Shapes)
<1>1. PICK n \in Nat, scales \in Seq(Nat), ratios \in Seq(Sizes) :
        scales = cfg.SCALES /\ ratios = cfg.RATIOS /\ n = Len(ratios) /\ DOMAIN ratios = 1..n
  BY DEF IsConfig
<1>2. PICK base : base = Detector!Box(0, 0, 2 * (cfg.BASE_SIZE - 1), 2 * (cfg.BASE_SIZE - 1))
  OBVIOUS
<1>3. Detector!Whctrs(base) = Window(16, 16, 15, 15)
  <2>1. base = Detector!Box(0, 0, 30, 30)
    BY <1>2 DEF IsConfig
  <2>2. base.x1 = 0 /\ base.y1 = 0 /\ base.x2 = 30 /\ base.y2 = 30
    BY <2>1 DEF Detector!Box
  <2> QED
    BY <2>2 DEF Detector!Whctrs, Window
<1>4. PICK byRatio : byRatio = Detector!RatioEnum(base, ratios)
  OBVIOUS
<1>5. DOMAIN byRatio = 1..n
  BY <1>1, <1>4 DEF Detector!RatioEnum
<1>6. ASSUME NEW i \in 1..n
      PROVE  \E w \in Int, h \in Int : byRatio[i] = Around(w, h, 15, 15)
  <2>1. PICK r \in Sizes : r = ratios[i]
    BY <1>1
  <2>2. PICK w \in Int : w = Detector!RoundedRoot(256, r)
    BY RootsAre
  <2>3. r[1] \in Int /\ r[2] \in {1, 2}
    BY DEF Sizes, Detector!One
  <2>4. PICK h \in Int : h = (2 * w * r[1] + r[2]) \div (2 * r[2])
    <3>1. 2 * w * r[1] + r[2] \in Int
      BY <2>3
    <3>2. 2 * r[2] \in {2, 4}
      BY <2>3
    <3> QED
      BY <3>1, <3>2
  <2>5. byRatio[i] = Detector!MkAnchors(Wider(Window(16, 16, 15, 15), w, h))
    <3>1. PICK win : win = Window(16, 16, 15, 15) /\ win = Detector!Whctrs(base) /\ win.w * win.h = 256
      BY <1>3 DEF Window
    <3>2. i \in DOMAIN ratios
      BY <1>1
    <3>3. byRatio[i] = LET v == Detector!RoundedRoot(win.w * win.h, r)
                       IN Detector!MkAnchors([win EXCEPT !.w = v, !.h = (2 * v * r[1] + r[2]) \div (2 * r[2])])
      BY <1>4, <2>1, <3>1, <3>2 DEF Detector!RatioEnum
    <3>4. w = Detector!RoundedRoot(win.w * win.h, r)
      BY <2>2, <3>1
    <3>5. byRatio[i] = Detector!MkAnchors(Wider(win, w, (2 * w * r[1] + r[2]) \div (2 * r[2])))
      BY <3>3, <3>4, Zenon DEF Wider
    <3> QED
      BY <2>4, <3>1, <3>5
  <2>6. Wider(Window(16, 16, 15, 15), w, h) = Window(w, h, 15, 15)
    BY OtherWindow
  <2> QED
    BY <2>5, <2>6 DEF Around
<1>7. ASSUME NEW i \in 1..n PROVE Detector!ScaleEnum(byRatio[i], scales) \in Seq(Shapes)
  <2>1. PICK w \in Int, h \in Int : byRatio[i] = Around(w, h, 15, 15)
    BY <1>6
  <2>2. Detector!Whctrs(byRatio[i]) = Window(w, h, 15, 15)
    BY <2>1, AroundIs
  <2>3. PICK m \in Nat : m = Len(scales) /\ DOMAIN scales = 1..m /\ \A k \in 1..m : scales[k] \in Nat
    OBVIOUS
  <2>4. PICK s : s = Detector!ScaleEnum(byRatio[i], scales)
    OBVIOUS
  <2>5. DOMAIN s = 1..m
    BY <2>3, <2>4 DEF Detector!ScaleEnum
  <2>6. ASSUME NEW k \in 1..m PROVE s[k] \in Shapes
    <3>0. PICK win : win = Window(w, h, 15, 15) /\ win = Detector!Whctrs(byRatio[i])
      BY <2>2
    <3>1. s[k] = Detector!MkAnchors(Wider(win, win.w * scales[k], win.h * scales[k]))
      BY <2>3, <2>4, <3>0 DEF Detector!ScaleEnum, Wider
    <3>2. Wider(win, win.w * scales[k], win.h * scales[k]) = Window(w * scales[k], h * scales[k], 15, 15)
      <4>1. win.w = w /\ win.h = h
        BY <3>0 DEF Window
      <4> QED
        BY <3>0, <4>1, OtherWindow
    <3>3. PICK a \in Int, b \in Int : a = w * scales[k] /\ b = h * scales[k]
      BY <2>3
    <3>4. s[k] = Around(a, b, 15, 15)
      BY <3>1, <3>2, <3>3 DEF Around
    <3>5. PICK q \in Int \X Int : q = <<a, b>> /\ q[1] = a /\ q[2] = b
      <4>1. <<a, b>> \in Int \X Int /\ <<a, b>>[1] = a /\ <<a, b>>[2] = b
        OBVIOUS
      <4> QED
        BY <4>1
    <3>6. s[k] = Around(q[1], q[2], 15, 15)
      BY <3>4, <3>5
    <3> QED
      BY <3>6 DEF Shapes
  <2>7. s \in [1..m -> Shapes]
    <3>1. s = [k \in 1..m |-> s[k]]
      BY <2>4, <2>5 DEF Detector!ScaleEnum
    <3> QED
      BY <2>6, <3>1
  <2> QED
    BY <2>4, <2>7, SeqDef
<1>8. PICK seqs : seqs = [i \in 1..n |-> Detector!ScaleEnum(byRatio[i], scales)]
  OBVIOUS
<1>9. seqs \in [1..n -> Seq(Shapes)]
  BY <1>7, <1>8
<1>10. Detector!FlattenSeq(seqs) \in Seq(Shapes)
  BY <1>9, Flattened
<1>11. Detector!GenerateAnchors(cfg) = Detector!FlattenSeq(seqs)
  BY <1>1, <1>2, <1>4, <1>5, <1>8 DEF Detector!GenerateAnchors
<1> QED
  BY <1>10, <1>11

-----------------------------------------------------------------------------
\* Where an anchor is in the plane: the cells row by row, the anchors plane by plane.
Plane(base, side, stride, j, num) ==
  Detector!AnchorsPlane(side, side, stride, base)[j + side * side * num + 1]
    = Detector!Shift(base[num + 1], 2 * stride * (j % side), 2 * stride * (j \div side))

\* AnchorsPlane shifts the base of the number to the cell.
LEMMA PlaneIs ==
  ASSUME NEW base, NEW l \in Nat, l = Len(base), NEW side \in Nat, NEW stride \in Nat,
         NEW j \in Nat, NEW num \in Nat, j < side * side, num < l
  PROVE  side # 0 /\ Plane(base, side, stride, j, num)
<1>1. side # 0
  <2>1. side = 0 => side * side = 0
    OBVIOUS
  <2> QED
    BY <2>1
<1>2. PICK n \in Nat \ {0} : n = side * side /\ j \in 0..n - 1
  <2>1. side * side \in Nat
    OBVIOUS
  <2>2. PICK n \in Nat : n = side * side
    BY <2>1
  <2> QED
    BY <2>2
<1>3. PICK q \in Nat : q = n * num + j
  <2>1. n * num \in Nat
    BY ProductFacts
  <2> QED
    BY <2>1
<1>4. q \div n = num /\ q % n = j
  BY <1>2, <1>3, DivisionIs
<1>5. q + 1 \in 1..n * l
  <2>1. n * (l - num) >= n /\ n * (l - num) = n * l - n * num /\ n * l \in Int /\ n * num \in Int
    BY ProductFacts
  <2>2. j <= n - 1
    BY <1>2
  <2> QED
    BY <1>3, <2>1, <2>2
<1>6. PICK p \in 1..n * l : p = q + 1 /\ p - 1 = q
  BY <1>5
<1>7. j + side * side * num + 1 = p
  <2>1. n * num \in Int
    BY ProductFacts
  <2> QED
    BY <1>2, <1>3, <1>6, <2>1
<1>8. Detector!AnchorsPlane(side, side, stride, base)[p]
        = Detector!Shift(base[Detector!AnchorOf(q, side, side, l)],
                         2 * stride * ((q % n) % side), 2 * stride * ((q % n) \div side))
  <2>1. side * side * l = n * l
    BY <1>2
  <2>2. p \in 1..side * side * Len(base)
    BY <1>6, <2>1
  <2> QED
    BY <1>2, <1>6, <2>2 DEF Detector!AnchorsPlane
<1>9. Detector!AnchorOf(q, side, side, l) = num + 1
  BY <1>2, <1>4 DEF Detector!AnchorOf
<1> QED
  BY <1>1, <1>4, <1>7, <1>8, <1>9 DEF Plane

-----------------------------------------------------------------------------
\* The anchor of a cell has the shape of its number, around the cell.
AnchorAt(cfg, cell, w, h, dx, dy) ==
  /\ Detector!GenerateAnchors(cfg)[cell.num + 1] = Around(w, h, 15, 15)
  /\ Detector!Anchors(cfg)[cell.j + Detector!Side(cfg.STRIDE) * Detector!Side(cfg.STRIDE) * cell.num + 1]
       = Around(w, h, 15 + dx, 15 + dy)
  /\ dx = 2 * cfg.STRIDE * (cell.j % Detector!Side(cfg.STRIDE))
  /\ dy = 2 * cfg.STRIDE * (cell.j \div Detector!Side(cfg.STRIDE))

\* What a cell is made of, and when a network has it.
IsCell(cell) == /\ cell.map \in Nat /\ cell.num \in Nat /\ cell.j \in Nat
                /\ cell.dx \in Int /\ cell.dy \in Int /\ cell.grow \in Int

\* The cell is one of the network's, with an anchor.
Fits(network, cell) ==
  /\ cell.map \in DOMAIN Detector!AnchorConfig(network)
  /\ cell.num < Len(Detector!GenerateAnchors(Detector!AnchorConfig(network)[cell.map]))

\* That is where Anchors puts it, for every cell of the network.
LEMMA AnchorIs ==
  ASSUME NEW network \in Networks, NEW cell \in Cells, Fits(network, cell),
         Detector!DetectionAssumption
  PROVE  \E w \in Int, h \in Int, dx \in Int, dy \in Int :
           AnchorAt(Detector!AnchorConfig(network)[cell.map], cell, w, h, dx, dy)
<1>1. PICK cfg : cfg = Detector!AnchorConfig(network)[cell.map]
  OBVIOUS
<1>2. IsConfig(cfg)
  BY <1>1, ConfigsAre DEF Fits
<1>3. PICK base \in Seq(Shapes) : base = Detector!GenerateAnchors(cfg)
  BY <1>2, AnchorsAre
<1>4. PICK l \in Nat : l = Len(base) /\ \A i \in 1..l : base[i] \in Shapes
  OBVIOUS
<1>5. PICK stride \in Nat \ {0} : stride = cfg.STRIDE
  BY <1>2 DEF IsConfig
<1>6. NetSize \in Nat
  BY DEF Detector!DetectionAssumption
<1>7. PICK side \in Nat : side = Detector!Side(stride)
  <2>1. NetSize \div stride \in Nat
    BY <1>6, Division
  <2> QED
    BY <2>1 DEF Detector!Side
<1>8. PICK j \in Nat, num \in Nat : j = cell.j /\ num = cell.num
  BY DEF Detector!DetectionAssumption
<1>9. j < side * side
  BY <1>1, <1>5, <1>7, <1>8 DEF Detector!DetectionAssumption, Fits
<1>10. num < l
  BY <1>1, <1>3, <1>4, <1>8 DEF Fits
<1>11. side # 0 /\ Plane(base, side, stride, j, num)
  BY <1>4, <1>9, <1>10, PlaneIs
<1>12. PICK dx \in Int, dy \in Int :
         dx = 2 * stride * (j % side) /\ dy = 2 * stride * (j \div side)
  <2>1. j % side \in Int /\ j \div side \in Int
    BY <1>11, Division
  <2>2. PICK a \in Int, b \in Int : a = j % side /\ b = j \div side
    BY <2>1
  <2>3. 2 * stride * a \in Int /\ 2 * stride * b \in Int
    OBVIOUS
  <2> QED
    BY <2>2, <2>3
<1>13. PICK w \in Int, h \in Int : base[num + 1] = Around(w, h, 15, 15)
  <2>1. num + 1 \in 1..l
    BY <1>10
  <2>2. base[num + 1] \in Shapes
    BY <1>4, <2>1
  <2> QED
    BY <2>2 DEF Shapes
<1>14. Detector!Shift(Around(w, h, 15, 15), dx, dy) = Around(w, h, 15 + dx, 15 + dy)
  <2>1. PICK x \in Int : x = 15
    OBVIOUS
  <2>2. Detector!Shift(Around(w, h, x, x), dx, dy) = Around(w, h, x + dx, x + dy)
    BY ShiftIs
  <2> QED
    BY <2>1, <2>2
<1>15. Detector!Anchors(cfg) = Detector!AnchorsPlane(side, side, stride, base)
  BY <1>3, <1>5, <1>7 DEF Detector!Anchors
<1>16. Detector!Anchors(cfg)[j + side * side * num + 1] = Around(w, h, 15 + dx, 15 + dy)
  BY <1>11, <1>12, <1>13, <1>14, <1>15 DEF Plane
<1>17. AnchorAt(cfg, cell, w, h, dx, dy)
  BY <1>3, <1>5, <1>7, <1>8, <1>12, <1>13, <1>16 DEF AnchorAt
<1> QED
  BY <1>1, <1>17

\* The anchor is centred on its cell, and has the shape of its number.
LEMMA CellCentred ==
  ASSUME NEW network \in Networks, NEW cell \in Cells, Fits(network, cell),
         Detector!DetectionAssumption
  PROVE  Detector!Centred(network, cell)
<1>1. PICK cfg : cfg = Detector!AnchorConfig(network)[cell.map]
  OBVIOUS
<1>2. PICK w \in Int, h \in Int, dx \in Int, dy \in Int : AnchorAt(cfg, cell, w, h, dx, dy)
  BY <1>1, AnchorIs
<1>3. cfg.BASE_SIZE = 16
  BY <1>1, ConfigsAre DEF IsConfig, Fits
<1>4. PICK win : win = Detector!Whctrs(Detector!Anchors(cfg)[cell.j
                          + Detector!Side(cfg.STRIDE) * Detector!Side(cfg.STRIDE) * cell.num + 1])
                 /\ win = Window(w, h, 15 + dx, 15 + dy)
  <2>1. 15 + dx \in Int /\ 15 + dy \in Int
    OBVIOUS
  <2> QED
    BY <1>2, <2>1, AroundIs DEF AnchorAt
<1>5. PICK shape : shape = Detector!Whctrs(Detector!GenerateAnchors(cfg)[cell.num + 1])
                   /\ shape = Window(w, h, 15, 15)
  <2>1. 15 \in Int
    OBVIOUS
  <2> QED
    BY <1>2, <2>1, AroundIs DEF AnchorAt
<1>6. win.x_ctr = 15 + dx /\ win.y_ctr = 15 + dy /\ win.w = shape.w /\ win.h = shape.h
  BY <1>4, <1>5 DEF Window
<1>7. /\ cfg.BASE_SIZE - 1 + 2 * cfg.STRIDE * (cell.j % Detector!Side(cfg.STRIDE)) = 15 + dx
      /\ cfg.BASE_SIZE - 1 + 2 * cfg.STRIDE * (cell.j \div Detector!Side(cfg.STRIDE)) = 15 + dy
  <2>1. cfg.BASE_SIZE - 1 = 15
    BY <1>3
  <2> QED
    BY <1>2, <2>1 DEF AnchorAt
<1> QED
  BY <1>1, <1>4, <1>5, <1>6, <1>7 DEF Detector!Centred

\* A face decoded of a cell has a box.
LEMMA DecodedRect ==
  ASSUME NEW network \in Networks, NEW cell \in Cells, Fits(network, cell),
         Detector!DetectionAssumption, NEW cfg, cfg = Detector!AnchorConfig(network)[cell.map],
         NEW anchor, anchor = Detector!Anchors(cfg)[cell.j
                        + Detector!Side(cfg.STRIDE) * Detector!Side(cfg.STRIDE) * cell.num + 1]
  PROVE  IsRect(Detector!ClipBoxes(Detector!BBoxPred(anchor, cell), NetSize, NetSize))
<1>1. PICK w \in Int, h \in Int, dx \in Int, dy \in Int : AnchorAt(cfg, cell, w, h, dx, dy)
  BY AnchorIs
<1>2. PICK x \in Int, y \in Int : x = 15 + dx /\ y = 15 + dy
  OBVIOUS
<1>3. Detector!Whctrs(anchor) = Window(w, h, x, y)
  <2>1. anchor = Around(w, h, x, y)
    BY <1>1, <1>2 DEF AnchorAt
  <2> QED
    BY <2>1, AroundIs
<1>4. PICK a \in Int, b \in Int, g \in Int : a = cell.dx /\ b = cell.dy /\ g = cell.grow
  BY DEF Detector!DetectionAssumption
<1>5. PICK u \in Int, v \in Int : u = (a * w) \div 8 + x /\ v = (b * h) \div 8 + y
  <2>1. PICK m \in Int, n \in Int : m = a * w /\ n = b * h
    OBVIOUS
  <2>2. m \div 8 + x \in Int /\ n \div 8 + y \in Int
    OBVIOUS
  <2> QED
    BY <2>1, <2>2
<1>6. PICK m \in Int, n \in Int : m = g * w /\ n = g * h
  OBVIOUS
<1>7. PICK box : box = Detector!BBoxPred(anchor, cell)
  OBVIOUS
<1>8. box = Detector!MkAnchors([w |-> m, h |-> n, x_ctr |-> u, y_ctr |-> v])
  <2>1. PICK win : win = Window(w, h, x, y) /\ win = Detector!Whctrs(anchor)
    BY <1>3
  <2>2. win.w = w /\ win.h = h /\ win.x_ctr = x /\ win.y_ctr = y
    BY <2>1 DEF Window
  <2> QED
    BY <1>4, <1>5, <1>6, <1>7, <2>1, <2>2, Zenon DEF Detector!BBoxPred
<1>9. IsRect(box)
  BY <1>8 DEF IsRect, Detector!MkAnchors, Detector!Box
<1>10. PICK edge \in Int : edge = 2 * (NetSize - 1)
  <2>1. NetSize \in Int
    BY DEF Detector!DetectionAssumption
  <2> QED
    BY <2>1
<1>11. PICK l \in Int, r \in Int, t \in Int, d \in Int :
         /\ l = Detector!Greatest(box.x1, 0) /\ t = Detector!Greatest(box.y1, 0)
         /\ r = Detector!Least(box.x2, edge) /\ d = Detector!Least(box.y2, edge)
  <2>1. 0 \in Int /\ box.x1 \in Int /\ box.x2 \in Int /\ box.y1 \in Int /\ box.y2 \in Int
    BY <1>9 DEF IsRect
  <2>2. Detector!Greatest(box.x1, 0) \in Int /\ Detector!Greatest(box.y1, 0) \in Int
    BY <2>1 DEF Detector!Greatest
  <2>3. Detector!Least(box.x2, edge) \in Int /\ Detector!Least(box.y2, edge) \in Int
    BY <1>10, <2>1 DEF Detector!Least
  <2> QED
    BY <2>2, <2>3
<1>12. Detector!ClipBoxes(box, NetSize, NetSize) = Detector!Box(l, t, r, d)
  BY <1>10, <1>11, Zenon DEF Detector!ClipBoxes
<1>13. IsRect(Detector!Box(l, t, r, d))
  BY DEF IsRect, Detector!Box
<1> QED
  BY <1>7, <1>12, <1>13

-----------------------------------------------------------------------------
(* The image in the input of the network.                                  *)

\* What is no longer than the longest side fits, and the longest side fits exactly.
LEMMA RoundedFits ==
  ASSUME NEW n \in Nat \ {0}, NEW l \in Nat \ {0}, NEW m \in Nat, m <= l
  PROVE  Detector!Rounded(m * n, l) \in 0..n /\ (m = l => Detector!Rounded(m * n, l) = n)
<1>1. PICK x \in Nat, y \in Nat : x = n * m /\ y = n * l
  <2>1. n * m \in Nat /\ n * l \in Nat
    OBVIOUS
  <2> QED
    BY <2>1
<1>2. x <= y /\ (m = l => x = y) /\ m * n = x
  <2>1. n * (l - m) = n * l - n * m /\ n * (l - m) >= 0
    <3>1. l - m \in Int /\ l - m >= 0
      OBVIOUS
    <3> QED
      BY <3>1, ProductFacts
  <2>2. m * n = n * m
    OBVIOUS
  <2> QED
    BY <1>1, <2>1, <2>2
<1>3. PICK d \in Nat \ {0}, a \in Nat : d = 2 * l /\ a = 2 * x + l
  OBVIOUS
<1>4. PICK q \in Nat, r \in 0..d - 1 : q = a \div d /\ a = d * q + r
  BY Division
<1>5. d * n = 2 * y
  <2>1. d * n = 2 * l * n /\ 2 * l * n = 2 * (n * l)
    BY <1>3
  <2> QED
    BY <1>1, <2>1
<1>6. q <= n
  <2> SUFFICES ASSUME q >= n + 1 PROVE FALSE
    OBVIOUS
  <2>1. PICK e \in Int : e = q - (n + 1) /\ e >= 0
    OBVIOUS
  <2>2. d * e >= 0 /\ d * e = d * q - d * (n + 1) /\ d * (n + 1) = d * n + d * 1
    <3>1. d \in Nat /\ n + 1 \in Int /\ q \in Int /\ n \in Int /\ 1 \in Int
      OBVIOUS
    <3> QED
      BY <2>1, <3>1, ProductFacts
  <2>3. d * q \in Int /\ d * 1 = d
    OBVIOUS
  <2> QED
    BY <1>2, <1>3, <1>4, <1>5, <2>2, <2>3
<1>7. m = l => q = n
  <2> SUFFICES ASSUME m = l PROVE q = n
    OBVIOUS
  <2>1. a = d * n + l /\ l \in 0..d - 1
    BY <1>2, <1>3, <1>5
  <2>2. a \div d = n
    BY <2>1, DivisionIs
  <2> QED
    BY <1>4, <2>2
<1>8. Detector!Rounded(m * n, l) = q
  BY <1>2, <1>3, <1>4 DEF Detector!Rounded
<1> QED
  BY <1>6, <1>7, <1>8

\* The resized image and its border fill the input of the network.
LEMMA ImageFills ==
  ASSUME NEW image \in ImageSizes, Detector!DetectionAssumption
  PROVE  Detector!Fills(image)
<1>1. PICK n \in Nat \ {0}, c \in Nat \ {0}, r \in Nat \ {0} :
        n = NetSize /\ c = image.cols /\ r = image.rows
  BY DEF Detector!DetectionAssumption
<1>2. PICK l \in Nat \ {0} : l = Detector!Greatest(c, r) /\ c <= l /\ r <= l /\ (l = c \/ l = r)
  BY DEF Detector!Greatest
<1>3. PICK scale : scale = Detector!FitScale(image)
  OBVIOUS
<1>4. scale = IF l > n THEN Detector!Fraction(l, n) ELSE Detector!Fraction(1, 1)
  BY <1>1, <1>2, <1>3 DEF Detector!FitScale
<1>5. PICK size : size = Detector!Resized(image)
  OBVIOUS
<1>6. /\ size.cols = Detector!Rounded(c * scale.d, scale.n)
      /\ size.rows = Detector!Rounded(r * scale.d, scale.n)
  BY <1>1, <1>3, <1>5 DEF Detector!Resized
<1>7. PICK border : border = Detector!Border(image)
  OBVIOUS
<1>8. CASE l <= n
  <2>1. scale = Detector!Fraction(1, 1) /\ scale.n = 1 /\ scale.d = 1
    BY <1>4, <1>8 DEF Detector!Fraction
  <2>2. size.cols = c /\ size.rows = r
    BY <1>6, <2>1 DEF Detector!Rounded
  <2>3. border = [right |-> n - c, below |-> n - r]
    BY <1>1, <1>3, <1>5, <1>7, <2>1, <2>2 DEF Detector!Border
  <2>4. border.right = n - c /\ border.below = n - r
    BY <2>3
  <2> QED
    BY <1>1, <1>2, <1>5, <1>7, <1>8, <2>2, <2>4 DEF Detector!Fills
<1>9. CASE l > n
  <2>1. scale = Detector!Fraction(l, n) /\ scale.n = l /\ scale.d = n
    BY <1>4, <1>9 DEF Detector!Fraction
  <2>2. scale # Detector!Fraction(1, 1)
    BY <1>9, <2>1 DEF Detector!Fraction
  <2>3. PICK w \in 0..n, h \in 0..n : /\ w = size.cols /\ h = size.rows
                                      /\ (c = l => w = n) /\ (r = l => h = n)
    <3>1. Detector!Rounded(c * n, l) \in 0..n /\ (c = l => Detector!Rounded(c * n, l) = n)
      BY <1>2, RoundedFits
    <3>2. Detector!Rounded(r * n, l) \in 0..n /\ (r = l => Detector!Rounded(r * n, l) = n)
      BY <1>2, RoundedFits
    <3>3. size.cols = Detector!Rounded(c * n, l) /\ size.rows = Detector!Rounded(r * n, l)
      BY <1>6, <2>1
    <3> QED
      BY <3>1, <3>2, <3>3
  <2>4. border = IF c = r THEN [right |-> n - w, below |-> n - h]
                 ELSE IF c > r THEN [right |-> 0, below |-> n - h]
                 ELSE [right |-> n - w, below |-> 0]
    BY <1>1, <1>3, <1>5, <1>7, <2>2, <2>3 DEF Detector!Border
  <2>5. border.right = (IF c > r THEN 0 ELSE n - w) /\ border.below = (IF c >= r THEN n - h ELSE 0)
    BY <2>4
  <2>6. (c > r => w = n) /\ (r > c => h = n)
    BY <1>2, <2>3
  <2>7. PICK right \in Int, below \in Int : right = border.right /\ below = border.below
    <3>1. (IF c > r THEN 0 ELSE n - w) \in Int /\ (IF c >= r THEN n - h ELSE 0) \in Int
      OBVIOUS
    <3>2. border.right \in Int /\ border.below \in Int
      BY <2>5, <3>1, Zenon
    <3> QED
      BY <3>2
  <2>8. right >= 0 /\ below >= 0 /\ w + right = n /\ h + below = n
    BY <2>5, <2>6, <2>7
  <2> QED
    BY <1>1, <1>5, <1>7, <2>3, <2>7, <2>8 DEF Detector!Fills
<1> QED
  BY <1>8, <1>9

-----------------------------------------------------------------------------
(* The faces of an output.                                                 *)

\* The face of a cell, the cells that have one, and which of two lists are of the same cells.
FaceOf(network, output, scales, cell) ==
  LET cfg == Detector!AnchorConfig(network)[cell.map]
      anchor == Detector!Anchors(cfg)[cell.j
                  + Detector!Side(cfg.STRIDE) * Detector!Side(cfg.STRIDE) * cell.num + 1]
  IN [score |-> output[cell],
      rect |-> Detector!ClipBoxes(Detector!BBoxPred(anchor, cell), NetSize, NetSize),
      pts |-> Detector!LandmarkPred(anchor, [x |-> cell.dx, y |-> cell.dy]),
      scale_ratio |-> scales[cell.map]]
Above(network, output) == {cell \in Cells : output[cell] > Threshold /\ Fits(network, cell)}
Detected(network, output, scales) ==
  Detector!Nms(Detector!Sorted(Detector!Decoded(network, output, scales)), NmsPercent)
SameCells(network, output, scales, others, found, again) ==
  /\ Len(again) = Len(found)
  /\ \A i \in 1..Len(found) : \E cell \in Above(network, output) :
       /\ found[i] = FaceOf(network, output, scales, cell)
       /\ again[i] = FaceOf(network, output, others, cell)

\* Decoded has the faces of the cells above the threshold.
LEMMA DecodedIs ==
  ASSUME NEW network, NEW output \in [Cells -> Scores], NEW scales
  PROVE  Detector!Decoded(network, output, scales)
           = {FaceOf(network, output, scales, cell) : cell \in Above(network, output)}
<1>1. Above(network, output)
        = {c \in DOMAIN output : /\ output[c] > Threshold
                                 /\ c.map \in DOMAIN Detector!AnchorConfig(network)
                                 /\ c.num < Len(Detector!GenerateAnchors(Detector!AnchorConfig(network)[c.map]))}
  BY DEF Above, Fits
<1> QED
  BY <1>1, Zenon DEF Detector!Decoded, FaceOf

\* Those cells have different scores.
LEMMA AboveScored ==
  ASSUME NEW network, NEW output \in [Cells -> Scores], Detector!Apart(output), Detector!DetectionAssumption
  PROVE  Scored(Above(network, output), output)
<1>1. Above(network, output) \subseteq Cells
  BY DEF Above
<1>2. IsFiniteSet(Cells)
  BY DEF Detector!DetectionAssumption, Detector!IsFiniteSet, IsFiniteSet
<1>3. IsFiniteSet(Above(network, output))
  BY <1>1, <1>2, FS_Subset
<1>4. \A c \in Above(network, output) : output[c] \in Int
  BY <1>1 DEF Detector!DetectionAssumption
<1>5. \A c, d \in Above(network, output) : output[c] = output[d] => c = d
  BY DEF Above, Detector!Apart
<1> QED
  BY <1>3, <1>4, <1>5 DEF Scored

\* The face has the score of its cell and a box.
LEMMA FaceHas ==
  ASSUME NEW network \in Networks, NEW output \in [Cells -> Scores], NEW scales,
         NEW cell \in Above(network, output), Detector!DetectionAssumption
  PROVE  /\ FaceOf(network, output, scales, cell).score = output[cell]
         /\ FaceOf(network, output, scales, cell).scale_ratio = scales[cell.map]
         /\ IsRect(FaceOf(network, output, scales, cell).rect)
<1>1. PICK cfg : cfg = Detector!AnchorConfig(network)[cell.map]
  OBVIOUS
<1>2. PICK anchor : anchor = Detector!Anchors(cfg)[cell.j
                      + Detector!Side(cfg.STRIDE) * Detector!Side(cfg.STRIDE) * cell.num + 1]
  OBVIOUS
<1>3. PICK rect : rect = Detector!ClipBoxes(Detector!BBoxPred(anchor, cell), NetSize, NetSize)
  OBVIOUS
<1>4. PICK pts : pts = Detector!LandmarkPred(anchor, [x |-> cell.dx, y |-> cell.dy])
  OBVIOUS
<1>5. IsRect(rect)
  BY <1>1, <1>2, <1>3, DecodedRect DEF Above
<1>6. PICK face : /\ face = FaceOf(network, output, scales, cell)
                  /\ face = [score |-> output[cell], rect |-> rect, pts |-> pts,
                             scale_ratio |-> scales[cell.map]]
  BY <1>1, <1>2, <1>3, <1>4, Zenon DEF FaceOf
<1>7. face.rect = rect /\ face.score = output[cell] /\ face.scale_ratio = scales[cell.map]
  BY <1>6
<1> QED
  BY <1>5, <1>6, <1>7

\* Whatever the scales, it is in its place; it is the same if its scale is.
LEMMA FacesAlike ==
  ASSUME NEW network, NEW output, NEW cell, NEW scales, NEW others
  PROVE  /\ FaceOf(network, output, scales, cell).rect = FaceOf(network, output, others, cell).rect
         /\ Detector!Placed(FaceOf(network, output, scales, cell))
              = Detector!Placed(FaceOf(network, output, others, cell))
         /\ scales[cell.map] = others[cell.map]
              => FaceOf(network, output, scales, cell) = FaceOf(network, output, others, cell)
<1>1. PICK cfg : cfg = Detector!AnchorConfig(network)[cell.map]
  OBVIOUS
<1>2. PICK anchor : anchor = Detector!Anchors(cfg)[cell.j
                      + Detector!Side(cfg.STRIDE) * Detector!Side(cfg.STRIDE) * cell.num + 1]
  OBVIOUS
<1>3. PICK rect : rect = Detector!ClipBoxes(Detector!BBoxPred(anchor, cell), NetSize, NetSize)
  OBVIOUS
<1>4. PICK pts : pts = Detector!LandmarkPred(anchor, [x |-> cell.dx, y |-> cell.dy])
  OBVIOUS
<1>5. PICK face, other :
        /\ face = FaceOf(network, output, scales, cell) /\ other = FaceOf(network, output, others, cell)
        /\ face = [score |-> output[cell], rect |-> rect, pts |-> pts, scale_ratio |-> scales[cell.map]]
        /\ other = [score |-> output[cell], rect |-> rect, pts |-> pts, scale_ratio |-> others[cell.map]]
  BY <1>1, <1>2, <1>3, <1>4, Zenon DEF FaceOf
<1>6. /\ face.rect = rect /\ face.score = output[cell] /\ face.pts = pts
      /\ other.rect = rect /\ other.score = output[cell] /\ other.pts = pts
  BY <1>5
<1>7. Detector!Placed(face) = Detector!Placed(other)
  BY <1>6 DEF Detector!Placed
<1>8. scales[cell.map] = others[cell.map] => face = other
  BY <1>5
<1> QED
  BY <1>5, <1>6, <1>7, <1>8

-----------------------------------------------------------------------------
\* What is found is kept as it has to be, and whatever the scales, of the same cells.
Finds(network, output, scales, others) ==
  /\ In(Detected(network, output, scales)) \subseteq Detector!Decoded(network, output, scales)
  /\ Detector!Greedy(Detector!Decoded(network, output, scales), In(Detected(network, output, scales)))
  /\ \E S : Detected(network, output, scales) \in Seq(S)
  /\ SameCells(network, output, scales, others, Detected(network, output, scales),
               Detected(network, output, others))

\* So it is, by NmsIsGreedy and NmsAlike.
LEMMA DetectedIs ==
  ASSUME NEW network \in Networks, NEW output \in [Cells -> Scores], Detector!Apart(output),
         Detector!DetectionAssumption, NEW scales, NEW others
  PROVE  Finds(network, output, scales, others)
<1>1. PICK C : C = Above(network, output)
  OBVIOUS
<1>2. Scored(C, output) /\ \A c \in C : c \in Above(network, output)
  BY <1>1, AboveScored
<1>3. PICK n \in Nat : n = Cardinality(C)
  BY <1>2, FS_CardinalityType DEF Scored
<1>4. PICK order \in [1..n -> C] :
        /\ Orders(C, output, n, order)
        /\ \A i \in 1..n : \A c \in C : Cardinality(Better(C, output, c)) = i - 1 <=> c = order[i]
  BY <1>2, <1>3, RankIs
<1>5. PICK f, g : /\ f = [c \in C |-> FaceOf(network, output, scales, c)]
                  /\ g = [c \in C |-> FaceOf(network, output, others, c)]
  OBVIOUS
<1>6. PICK S : S = {f[c] : c \in C} \cup {g[c] : c \in C}
  OBVIOUS
<1>7. f \in [C -> S] /\ g \in [C -> S]
  BY <1>5, <1>6
<1>8. \A c \in C : f[c] = FaceOf(network, output, scales, c) /\ g[c] = FaceOf(network, output, others, c)
  BY <1>5
<1>9. ASSUME NEW c \in C
      PROVE  /\ f[c].score = output[c] /\ g[c].score = output[c] /\ IsRect(f[c].rect)
             /\ f[c].rect = g[c].rect
  <2>1. c \in Above(network, output)
    BY <1>2
  <2>2. PICK face, other : face = f[c] /\ other = g[c] /\ face = FaceOf(network, output, scales, c)
                           /\ other = FaceOf(network, output, others, c)
    BY <1>8
  <2>3. /\ FaceOf(network, output, scales, c).score = output[c]
        /\ IsRect(FaceOf(network, output, scales, c).rect)
    BY <2>1, FaceHas
  <2>4. FaceOf(network, output, others, c).score = output[c]
    BY <2>1, FaceHas
  <2>5. FaceOf(network, output, scales, c).rect = FaceOf(network, output, others, c).rect
    BY FacesAlike
  <2> QED
    BY <2>2, <2>3, <2>4, <2>5
<1>21. /\ \A c \in C : f[c].score = output[c]
       /\ \A c \in C : g[c].score = output[c]
  BY <1>9
<1>10. /\ Detector!Decoded(network, output, scales) = FacesOf(C, f)
       /\ Detector!Decoded(network, output, others) = FacesOf(C, g)
  BY <1>1, <1>8, DecodedIs DEF FacesOf
<1>11. PICK b, d : b = [i \in 1..n |-> f[order[i]]] /\ d = [i \in 1..n |-> g[order[i]]]
  OBVIOUS
<1>12. Detector!Sorted(FacesOf(C, f)) = b
  <2>1. Follows(Detector!Sorted(FacesOf(C, f)), f, n, order)
    BY <1>2, <1>3, <1>4, <1>7, <1>21, SortedIs
  <2> QED
    BY <1>11, <2>1 DEF Follows
<1>13. Detector!Sorted(FacesOf(C, g)) = d
  <2>1. Follows(Detector!Sorted(FacesOf(C, g)), g, n, order)
    BY <1>2, <1>3, <1>4, <1>7, <1>21, SortedIs
  <2> QED
    BY <1>11, <2>1 DEF Follows
<1>14. PICK found, again : /\ found = Detected(network, output, scales)
                           /\ again = Detected(network, output, others)
                           /\ found = Detector!Nms(b, NmsPercent) /\ again = Detector!Nms(d, NmsPercent)
  BY <1>10, <1>12, <1>13 DEF Detected
<1>15. PICK F : F = FacesOf(C, f)
  OBVIOUS
<1>16. b \in [1..n -> F] /\ F = {b[i] : i \in 1..n}
  <2>1. \A i \in 1..n : b[i] = f[order[i]] /\ order[i] \in C
    BY <1>4, <1>11
  <2>2. \A i \in 1..n : b[i] \in F
    BY <1>15, <2>1 DEF FacesOf
  <2>3. \A c \in C : \E i \in 1..n : b[i] = f[c]
    BY <1>4, <2>1 DEF Orders
  <2>4. \A x \in F : \E i \in 1..n : b[i] = x
    BY <1>15, <2>3 DEF FacesOf
  <2> QED
    BY <1>11, <2>2, <2>4
<1>17. Ranked(b, n)
  <2>1. ASSUME NEW i \in 1..n
        PROVE  order[i] \in C /\ b[i].score = output[order[i]] /\ IsRect(b[i].rect)
    BY <1>4, <1>9, <1>11
  <2>2. \A i \in 1..n : output[order[i]] \in Int
    BY <1>2, <2>1 DEF Scored
  <2> QED
    BY <1>4, <2>1, <2>2 DEF Ranked, Orders
<1>18. In(found) \subseteq F /\ Detector!Greedy(F, In(found))
  BY <1>14, <1>16, <1>17, NmsIsGreedy
<1>19. found \in Seq(F)
  BY <1>14, <1>16, NmsKeeps
<1>20. SameCells(network, output, scales, others, found, again)
  <2>1. b \in [1..n -> S] /\ d \in [1..n -> S]
    BY <1>4, <1>7, <1>11
  <2>2. \A i \in 1..n : b[i].rect = d[i].rect
    <3> SUFFICES ASSUME NEW i \in 1..n PROVE b[i].rect = d[i].rect
      OBVIOUS
    <3>1. order[i] \in C /\ b[i] = f[order[i]] /\ d[i] = g[order[i]]
      BY <1>4, <1>11
    <3> QED
      BY <1>9, <3>1
  <2>3. Alike(found, b, again, d, n)
    BY <1>14, <2>1, <2>2, NmsAlike
  <2>4. PICK at \in Seq(1..n) : ListsAt(found, b, at) /\ ListsAt(again, d, at)
    BY <2>3 DEF Alike
  <2>5. PICK l \in Nat : l = Len(at) /\ l = Len(found) /\ l = Len(again)
    BY <2>4 DEF ListsAt
  <2>6. ASSUME NEW i \in 1..l
        PROVE  \E cell \in Above(network, output) : /\ found[i] = FaceOf(network, output, scales, cell)
                                                    /\ again[i] = FaceOf(network, output, others, cell)
    <3>1. PICK k \in 1..n : k = at[i]
      <4>1. i \in 1..Len(at)
        BY <2>5
      <4>2. at[i] \in 1..n
        BY <4>1
      <4> QED
        BY <4>2
    <3>2. found[i] = b[k] /\ again[i] = d[k]
      BY <2>4, <2>5, <3>1 DEF ListsAt
    <3>3. PICK c \in C : c = order[k]
      BY <1>4
    <3>4. b[k] = f[c] /\ d[k] = g[c]
      BY <1>11, <3>3
    <3> QED
      BY <1>1, <1>8, <3>2, <3>3, <3>4
  <2> QED
    BY <2>5, <2>6 DEF SameCells
<1> QED
  BY <1>10, <1>14, <1>15, <1>18, <1>19, <1>20 DEF Finds

-----------------------------------------------------------------------------
(* The pose.                                                               *)

\* Max of Detection is the Max of the community modules.
LEMMA DetectorMax == \A S : Detector!Max(S) = Max(S)
  BY DEF Max, Detector!Max

\* The labels, looked at one after the other.
VoteSteps(lines, n, base, seq, g, end) ==
  /\ g[0] = base /\ g[n] = end
  /\ \A i \in 1..n : g[i] = (IF Detector!Votes(lines, seq[i]) > Detector!Votes(lines, g[i - 1])
                            THEN seq[i] ELSE g[i - 1])
VoteStays(lines, A, n, seq) ==
  \A k \in A : \A i \in 1..n : (IF Detector!Votes(lines, seq[i]) > Detector!Votes(lines, k)
                               THEN seq[i] ELSE k) \in A

\* The vote is such a function of the steps.
LEMMA VoteFold ==
  ASSUME NEW A, NEW lines, NEW base \in A, NEW n \in Nat, NEW seq, DOMAIN seq = 1..n, base = Head(seq),
         VoteStays(lines, A, n, seq)
  PROVE  \E g \in [0..n -> A] : VoteSteps(lines, n, base, seq, g, Detector!Vote(lines, seq))
<1> DEFINE Next(k, c) == (IF Detector!Votes(lines, c) > Detector!Votes(lines, k) THEN c ELSE k)
           op == [q \in A \X (1..n) |-> Next(q[1], seq[q[2]])]
           Of(iter) == [s \in SUBSET DOMAIN seq |->
                          IF s = {} THEN base
                          ELSE Next(iter[s \ {Detector!Max(s)}], seq[Detector!Max(s)])]
           chosen == CHOOSE iter : iter = Of(iter)
<1>1. Detector!Vote(lines, seq) = chosen[1..n]
  BY DEF Detector!Vote, Detector!FoldLeft, Detector!MapThenFoldSet
<1>2. \A k \in A : \A i \in 1..n : Next(k, seq[i]) \in A
  BY DEF VoteStays
<1>3. \A g, end : g[0] = base /\ g[n] = end /\ (\A i \in 1..n : g[i] = Next(g[i - 1], seq[i]))
                  => VoteSteps(lines, n, base, seq, g, end)
  BY DEF VoteSteps
<1> HIDE DEF Next
<1>4. op \in [A \X (1..n) -> A] /\ \A k \in A : \A i \in 1..n : op[<<k, i>>] = Next(k, seq[i])
  BY <1>2
<1> HIDE DEF op
<1>5. PICK it \in [SUBSET (1..n) -> A] : Recursion(n, base, op, it)
  BY <1>4, FoldExists
<1>6. ASSUME NEW s \in SUBSET (1..n)
      PROVE  it[s] = IF s = {} THEN base ELSE Next(it[s \ {Detector!Max(s)}], seq[Detector!Max(s)])
  <2>1. CASE s = {}
    BY <1>5, <2>1 DEF Recursion
  <2>2. CASE s # {}
    <3>1. PICK m \in 1..n : m = Max(s) /\ m = Detector!Max(s)
      BY <2>2, MaxIs, DetectorMax
    <3>2. it[s \ {m}] \in A /\ it[s] = op[<<it[s \ {m}], m>>]
      BY <1>5, <2>2, <3>1 DEF Recursion
    <3> QED
      BY <1>4, <2>2, <3>1, <3>2
  <2> QED
    BY <2>1, <2>2
<1>7. it = Of(it)
  BY <1>6
<1>8. chosen = Of(chosen)
  <2> HIDE DEF Of
  <2> QED
    BY <1>7
<1> HIDE DEF chosen
<1>9. chosen[{}] = base
  BY <1>8
<1>10. ASSUME NEW i \in 1..n, chosen[1..i - 1] \in A
       PROVE  chosen[1..i] = op[<<chosen[1..i - 1], i>>]
  <2>1. /\ 1..i \in SUBSET (1..n) /\ 1..i # {}
        /\ Detector!Max(1..i) = i /\ (1..i) \ {Detector!Max(1..i)} = 1..i - 1
    BY LastOfRange, DetectorMax
  <2>2. chosen[1..i] = Next(chosen[1..i - 1], seq[i])
    BY <1>8, <2>1
  <2> QED
    BY <1>4, <1>10, <2>2
<1>11. GoesUp(n, A, base, op, chosen)
  BY <1>9, <1>10 DEF GoesUp
<1>12. PICK g \in [0..n -> A] : Arrives(n, base, op, g, chosen[1..n])
  BY <1>4, <1>11, FoldedUpTo
<1>13. ASSUME NEW i \in 1..n PROVE g[i] = Next(g[i - 1], seq[i])
  <2>1. i - 1 \in 0..n
    OBVIOUS
  <2>2. g[i - 1] \in A /\ g[i] = op[<<g[i - 1], i>>]
    BY <1>12, <2>1 DEF Arrives, GoesOn
  <2> QED
    BY <1>4, <2>2
<1>14. g[0] = base /\ g[n] = chosen[1..n]
  BY <1>12 DEF Arrives, GoesOn
<1> QED
  BY <1>1, <1>3, <1>13, <1>14

\* As many votes as any label up to the i-th.
Most(lines, seq, i, label) ==
  \A k \in 1..i : Detector!Votes(lines, seq[k]) <= Detector!Votes(lines, label)

\* The votes for a label are counted.
LEMMA VotesAre ==
  ASSUME Detector!DetectionAssumption, NEW lines, NEW label
  PROVE  Detector!Votes(lines, label) \in Nat
<1>1. PICK n \in Nat : n = Tickets
  BY DEF Detector!DetectionAssumption
<1>2. IsFiniteSet(1..n)
  <2>1. n \in Int /\ 1 \in Int /\ n - 1 + 1 = n /\ (1 > n => n = 0)
    OBVIOUS
  <2> QED
    BY <2>1, FS_Interval
<1>3. PICK S : S = {i \in 1..n : Dataset[lines[i]].label = label} /\ S \subseteq 1..n
  OBVIOUS
<1>4. Cardinality(S) \in Nat
  BY <1>2, <1>3, FS_Subset, FS_CardinalityType
<1>5. Detector!Votes(lines, label) = Cardinality(S)
  <2>1. Detector!Votes(lines, label) = Detector!Cardinality(S)
    BY <1>1, <1>3 DEF Detector!Votes
  <2> QED
    BY <2>1, DetectorCardinality
<1> QED
  BY <1>4, <1>5

\* No label has more votes than the one that is elected, in any order of the map.
LEMMA VoteIsMost ==
  ASSUME Detector!DetectionAssumption, NEW lines, NEW listed \in Detector!SetToSeqs(Labels)
  PROVE  /\ Detector!Vote(lines, listed) \in Labels
         /\ \A label \in Labels : Detector!Votes(lines, label)
                                  <= Detector!Votes(lines, Detector!Vote(lines, listed))
<1>1. PICK n \in Nat : n = Cardinality(Labels) /\ IsFiniteSet(Labels)
  <2>1. IsFiniteSet(Labels)
    BY DEF Detector!DetectionAssumption, Detector!IsFiniteSet, IsFiniteSet
  <2> QED
    BY <2>1, FS_CardinalityType
<1>2. n # 0
  BY <1>1, FS_EmptySet DEF Detector!DetectionAssumption
<1>3. listed \in [1..n -> Labels] /\ Differ(listed, n)
  <2>1. Detector!Cardinality(Labels) = n
    BY <1>1, DetectorCardinality
  <2> QED
    BY <2>1 DEF Detector!SetToSeqs, Differ
<1>4. DOMAIN listed = 1..n /\ 1 \in 1..n
  BY <1>2, <1>3
<1>5. PICK base \in Labels : base = Head(listed) /\ base = listed[1]
  <2>1. listed \in Seq(Labels) /\ listed # <<>>
    BY <1>3, <1>4, SeqDef
  <2>2. Head(listed) = listed[1]
    BY <2>1
  <2> QED
    BY <1>3, <1>4, <2>2
<1>6. VoteStays(lines, Labels, n, listed)
  BY <1>3 DEF VoteStays
<1>7. PICK g \in [0..n -> Labels] : VoteSteps(lines, n, base, listed, g, Detector!Vote(lines, listed))
  BY <1>4, <1>5, <1>6, VoteFold
<1> DEFINE S == {i \in 0..n : Most(lines, listed, i, g[i])}
<1>8. 0 \in S
  BY DEF Most
<1>9. ASSUME NEW i \in 0..n - 1, i \in S PROVE i + 1 \in S
  <2>1. PICK j \in 1..n : j = i + 1 /\ j - 1 = i
    OBVIOUS
  <2>2. PICK best \in Labels, label \in Labels : best = g[i] /\ label = listed[j]
    BY <1>3
  <2>3. g[j] = IF Detector!Votes(lines, label) > Detector!Votes(lines, best) THEN label ELSE best
    BY <1>7, <2>1, <2>2 DEF VoteSteps
  <2>4. PICK b \in Nat, l \in Nat : b = Detector!Votes(lines, best) /\ l = Detector!Votes(lines, label)
    BY VotesAre
  <2>5. PICK v \in Nat : v = Detector!Votes(lines, g[j]) /\ b <= v /\ l <= v
    BY <2>3, <2>4
  <2>6. ASSUME NEW k \in 1..j PROVE Detector!Votes(lines, listed[k]) <= Detector!Votes(lines, g[j])
    <3>1. CASE k = j
      BY <2>2, <2>4, <2>5, <3>1
    <3>2. CASE k # j
      <4>1. k \in 1..i
        BY <2>1, <3>2
      <4>2. Detector!Votes(lines, listed[k]) <= b
        BY <1>9, <2>2, <2>4, <4>1 DEF Most
      <4>3. Detector!Votes(lines, listed[k]) \in Nat
        BY VotesAre
      <4> QED
        BY <2>5, <4>2, <4>3
    <3> QED
      BY <3>1, <3>2
  <2> QED
    BY <2>1, <2>6 DEF Most
<1>10. Most(lines, listed, n, g[n])
  <2> HIDE DEF S
  <2>1. \A i \in 0..n : i \in S
    BY <1>8, <1>9, UpTo
  <2>2. n \in S
    BY <2>1
  <2> QED
    BY <2>2 DEF S
<1>11. g[n] = Detector!Vote(lines, listed) /\ g[n] \in Labels
  BY <1>7 DEF VoteSteps
<1>12. \A label \in Labels : \E i \in 1..n : listed[i] = label
  BY <1>1, <1>3, ListsAll
<1> QED
  BY <1>10, <1>11, <1>12 DEF Most

-----------------------------------------------------------------------------
(* What is computed.                                                       *)

\* Nothing is computed in the beginning.
LEMMA DetectionInvInit == SuiteInit => DetectionInv
<1> SUFFICES ASSUME SuiteInit, part = "detection"
             PROVE  computed = [at |-> "nothing"] /\ ("batch" \in DOMAIN images => FacesGiven)
  BY DEF DetectionInv
<1>1. Detector!Init
  BY DEF SuiteInit
<1>2. CASE images \in [network : Networks, batch : Batches]
  BY <1>1, <1>2 DEF Detector!Init, FacesGiven
<1>3. CASE images \in [lines : [1..Neighbours -> DOMAIN Dataset]]
  <2>1. DOMAIN images = {"lines"}
    BY <1>3
  <2> QED
    BY <1>1, <2>1 DEF Detector!Init
<1> QED
  BY <1>1, <1>2, <1>3 DEF Detector!Init

\* DetectFaces and Predict compute of what is given, once.
LEMMA DetectionInvNext ==
  ASSUME DetectionInv, part' = part, part = "detection" => [Detector!Next]_detectionVars
  PROVE  DetectionInv'
<1> SUFFICES ASSUME part = "detection" PROVE DetectionInv'
  BY DEF DetectionInv
<1>1. CASE UNCHANGED detectionVars
  <2>1. images' = images /\ computed' = computed
    BY <1>1 DEF detectionVars
  <2>2. (FacesGiven' <=> FacesGiven) /\ (FacesComputed' <=> FacesComputed)
        /\ (PoseComputed' <=> PoseComputed)
    BY <2>1 DEF FacesGiven, FacesComputed, PoseComputed
  <2> QED
    BY <2>1, <2>2 DEF DetectionInv
<1>2. CASE Detector!DetectFaces
  <2>1. computed.at = "nothing" /\ "batch" \in DOMAIN images /\ images' = images
    BY <1>2 DEF Detector!DetectFaces
  <2>2. FacesGiven
    <3>1. FacesComputed => computed.at = "faces"
      BY DEF FacesComputed
    <3>2. PoseComputed => computed.at = "pose"
      BY DEF PoseComputed
    <3> QED
      BY <2>1, <3>1, <3>2 DEF DetectionInv
  <2>3. FacesGiven'
    BY <2>1, <2>2 DEF FacesGiven
  <2>4. FacesComputed'
    BY <1>2, <2>1 DEF Detector!DetectFaces, FacesComputed
  <2> QED
    BY <2>3, <2>4 DEF DetectionInv
<1>3. CASE Detector!Predict
  <2>1. images' = images
    BY <1>3 DEF Detector!Predict
  <2>2. PoseComputed'
    BY <1>3, <2>1 DEF Detector!Predict, PoseComputed
  <2> QED
    BY <2>2 DEF DetectionInv
<1> QED
  BY <1>1, <1>2, <1>3 DEF Detector!Next

-----------------------------------------------------------------------------
\* No image is scaled by what lies past the end of the scales.
LEMMA ScalesArePositive ==
  ASSUME NEW image \in ImageSizes, Detector!DetectionAssumption
  PROVE  Detector!FitScale(image) # Detector!PastTheEnd
<1>1. NetSize # 0 /\ NetSize \in Nat
  BY DEF Detector!DetectionAssumption
<1>2. Detector!FitScale(image).d # 0
  BY <1>1 DEF Detector!FitScale, Detector!Fraction
<1>3. Detector!PastTheEnd.d = 0
  BY DEF Detector!PastTheEnd, Detector!Fraction
<1> QED
  BY <1>2, <1>3

\* The scales DetectBatchImages takes.
BatchScales(network, pics) ==
  [map \in DOMAIN Detector!AnchorConfig(network) |->
     IF map \in DOMAIN pics THEN Detector!FitScale(pics[map]) ELSE Detector!PastTheEnd]

\* What a batch finds of one of its images is what the image has by itself, but for the scales.
LEMMA BatchFinds ==
  ASSUME Detector!DetectionAssumption, NEW network \in Networks, NEW pics \in Seq(ImageSizes),
         NEW b \in DOMAIN pics, NEW output \in [Cells -> Scores], Detector!Apart(output)
  PROVE  LET found == Detected(network, output, Detector!OneScale(network, pics[b]))
             again == Detected(network, output, BatchScales(network, pics))
         IN /\ Detector!FacesFound(network, pics[b], output, found)
            /\ Detector!BatchOf(pics, b, output, found, again)
<1>1. PICK one, scales : /\ one = Detector!OneScale(network, pics[b])
                         /\ scales = BatchScales(network, pics)
  OBVIOUS
<1>2. PICK found, again : /\ found = Detected(network, output, one)
                          /\ again = Detected(network, output, scales)
  OBVIOUS
<1>3. Finds(network, output, one, scales) /\ Finds(network, output, scales, one)
  BY DetectedIs
<1>4. PICK S, T : found \in Seq(S) /\ again \in Seq(T)
  BY <1>2, <1>3 DEF Finds
<1>5. PICK l \in Nat : l = Len(found) /\ l = Len(again) /\ DOMAIN found = 1..l /\ DOMAIN again = 1..l
  BY <1>2, <1>3, <1>4 DEF Finds, SameCells
<1>6. Detector!FacesFound(network, pics[b], output, found)
  <2>1. PICK decoded : decoded = Detector!Decoded(network, output, one)
    OBVIOUS
  <2>2. In(found) \subseteq decoded /\ Detector!Greedy(decoded, In(found))
    BY <1>2, <1>3, <2>1 DEF Finds
  <2>3. Detector!Range(found) = In(found)
    BY <1>5 DEF Detector!Range, In
  <2> QED
    BY <1>1, <2>1, <2>2, <2>3 DEF Detector!FacesFound
<1>7. \A cell \in Cells : Detector!ScaledAlike(pics, b, cell.map) /\ cell \in Above(network, output)
                         <=> scales[cell.map] = one[cell.map] /\ cell \in Above(network, output)
  <2> SUFFICES ASSUME NEW cell \in Above(network, output)
               PROVE  Detector!ScaledAlike(pics, b, cell.map) <=> scales[cell.map] = one[cell.map]
    OBVIOUS
  <2>1. PICK map \in DOMAIN Detector!AnchorConfig(network) : map = cell.map
    BY DEF Above, Fits
  <2>2. one[map] = Detector!FitScale(pics[b])
    BY <1>1 DEF Detector!OneScale
  <2>3. scales[map] = IF map \in DOMAIN pics THEN Detector!FitScale(pics[map]) ELSE Detector!PastTheEnd
    BY <1>1 DEF BatchScales
  <2>4. Detector!FitScale(pics[b]) # Detector!PastTheEnd
    BY ScalesArePositive
  <2> QED
    BY <2>1, <2>2, <2>3, <2>4 DEF Detector!ScaledAlike
<1>8. ASSUME NEW i \in 1..l
      PROVE  \E cell \in Above(network, output) :
               /\ found[i] = FaceOf(network, output, one, cell)
               /\ again[i] = FaceOf(network, output, scales, cell)
  BY <1>2, <1>3, <1>5 DEF Finds, SameCells
<1>9. \A i \in 1..l : Detector!Placed(again[i]) = Detector!Placed(found[i])
  BY <1>8, FacesAlike
<1>10. ASSUME again = found, NEW cell \in Cells, Detector!HasFace(cell, output, found)
       PROVE  Detector!ScaledAlike(pics, b, cell.map)
  <2>1. PICK i \in 1..l : found[i].score = output[cell]
    BY <1>5, <1>10 DEF Detector!HasFace
  <2>2. PICK c \in Above(network, output) : /\ found[i] = FaceOf(network, output, one, c)
                                            /\ again[i] = FaceOf(network, output, scales, c)
    BY <1>8
  <2>3. found[i].score = output[c] /\ found[i].scale_ratio = one[c.map]
    BY <2>2, FaceHas
  <2>4. again[i].scale_ratio = scales[c.map]
    BY <2>2, FaceHas
  <2>5. c = cell
    BY <2>1, <2>3 DEF Above, Detector!Apart
  <2>6. scales[c.map] = one[c.map]
    BY <1>10, <2>3, <2>4
  <2> QED
    BY <1>7, <2>5, <2>6
<1>11. ASSUME \A cell \in Cells : Detector!HasFace(cell, output, found)
                                => Detector!ScaledAlike(pics, b, cell.map)
       PROVE  again = found
  <2>1. ASSUME NEW i \in 1..l PROVE again[i] = found[i]
    <3>1. PICK c \in Above(network, output) : /\ found[i] = FaceOf(network, output, one, c)
                                              /\ again[i] = FaceOf(network, output, scales, c)
      BY <1>8
    <3>2. found[i].score = output[c] /\ c \in Cells
      BY <3>1, FaceHas DEF Above
    <3>3. Detector!HasFace(c, output, found)
      BY <1>5, <3>2 DEF Detector!HasFace
    <3>4. scales[c.map] = one[c.map]
      BY <1>7, <1>11, <3>2, <3>3
    <3> QED
      BY <3>1, <3>4, FacesAlike
  <2> QED
    BY <1>4, <1>5, <2>1
<1>12. Detector!BatchOf(pics, b, output, found, again)
  BY <1>5, <1>9, <1>10, <1>11 DEF Detector!BatchOf
<1> QED
  BY <1>1, <1>2, <1>6, <1>12

\* Of single images and of batches of any length the faces are right.
LEMMA FacesAreRight ==
  ASSUME FacesGiven, FacesComputed, Detector!DetectionAssumption
  PROVE  Detector!FacesStand
<1>1. PICK network \in Networks, batch \in Batches : network = images.network /\ batch = images.batch
  BY DEF FacesGiven
<1>2. PICK pics, outputs : pics = batch.images /\ outputs = batch.outputs
  OBVIOUS
<1>3. /\ pics \in Seq(ImageSizes) /\ outputs \in [DOMAIN pics -> [Cells -> Scores]]
      /\ \A b \in DOMAIN pics : Detector!Apart(outputs[b])
  BY <1>1, <1>2 DEF Detector!DetectionAssumption
<1>4. /\ computed.faces = Detector!DetectEach(network, pics, outputs)
      /\ computed.batch = Detector!DetectBatchImages(network, pics, outputs)
  BY <1>1, <1>2 DEF FacesComputed
<1>5. ASSUME NEW b \in DOMAIN pics
      PROVE  /\ Detector!Fills(pics[b])
             /\ Detector!FacesFound(network, pics[b], outputs[b], computed.faces[b])
             /\ Detector!BatchOf(pics, b, outputs[b], computed.faces[b], computed.batch[b])
  <2>1. pics[b] \in ImageSizes /\ outputs[b] \in [Cells -> Scores] /\ Detector!Apart(outputs[b])
    BY <1>3
  <2>2. computed.faces[b] = Detected(network, outputs[b], Detector!OneScale(network, pics[b]))
    BY <1>4 DEF Detector!DetectEach, Detector!Detect, Detected
  <2>3. computed.batch[b] = Detected(network, outputs[b], BatchScales(network, pics))
    BY <1>4 DEF Detector!DetectBatchImages, BatchScales, Detected
  <2> QED
    BY <1>3, <2>1, <2>2, <2>3, ImageFills, BatchFinds
<1>6. \A cell \in Cells : /\ cell.map \in DOMAIN Detector!AnchorConfig(network)
                          /\ cell.num < Len(Detector!GenerateAnchors(Detector!AnchorConfig(network)[cell.map]))
                          => Detector!Centred(network, cell)
  BY CellCentred DEF Fits
<1> QED
  BY <1>1, <1>2, <1>5, <1>6, Zenon DEF Detector!FacesStand

\* Whatever the network, the images, its outputs and the dataset: anchors are centred on their
\* cells; the faces Detect keeps do not overlap by more than the nms threshold, and each one it
\* drops overlaps a better one that it keeps; the resized images and their borders fill the
\* input; DetectBatchImages finds, in a batch of any length, the faces of every image in their
\* places, and with their scales just when every feature map with a face numbers an image of
\* the scale; and no label has more votes than the one Predict returns, in any order of its map.
THEOREM DetectionsRight == SuiteSpec => []DetectionsStand
<1>1. SuiteInit => DetectionInv
  BY DetectionInvInit
<1>2. DetectionInv /\ [SuiteNext]_suiteVars => DetectionInv'
  <2> SUFFICES ASSUME DetectionInv, [SuiteNext]_suiteVars PROVE DetectionInv'
    OBVIOUS
  <2>1. part' = part /\ (part = "detection" => [Detector!Next]_detectionVars)
    BY DEF SuiteNext, suiteVars, Alone
  <2> QED
    BY <2>1, DetectionInvNext
<1>3. DetectionInv => DetectionsStand
  <2> SUFFICES ASSUME DetectionInv, part = "detection" PROVE Detector!DetectionsStand
    BY DEF DetectionsStand
  <2>0. Detector!DetectionAssumption
    BY SuiteAssumption
  <2>1. CASE computed = [at |-> "nothing"]
    BY <2>1 DEF Detector!DetectionsStand, Detector!FacesStand
  <2>2. CASE FacesGiven /\ FacesComputed
    <3>1. Detector!FacesStand
      BY <2>0, <2>2, FacesAreRight
    <3>2. computed.at = "faces"
      BY <2>2 DEF FacesComputed
    <3> QED
      BY <3>1, <3>2 DEF Detector!DetectionsStand
  <2>3. CASE PoseComputed
    <3>1. PICK listed \in Detector!SetToSeqs(Labels) :
            computed = [at |-> "pose", label |-> Detector!Vote(Detector!Drawn(images.lines), listed)]
      BY <2>3 DEF PoseComputed
    <3>2. computed.at = "pose" /\ computed.label = Detector!Vote(Detector!Drawn(images.lines), listed)
      BY <3>1
    <3>3. PICK lines : lines = Detector!Drawn(images.lines)
      OBVIOUS
    <3>4. \A label \in Labels : Detector!Votes(lines, label) <= Detector!Votes(lines, computed.label)
      BY <2>0, <3>2, <3>3, VoteIsMost
    <3> QED
      BY <3>2, <3>3, <3>4 DEF Detector!DetectionsStand, Detector!FacesStand
  <2> QED
    BY <2>1, <2>2, <2>3 DEF DetectionInv
<1> QED
  BY <1>1, <1>2, <1>3, PTL DEF SuiteSpec
=============================================================================
