------------------------- MODULE ConfigurationProof -------------------------
(***************************************************************************)
(* Proofs, for all files, registers and parameters, about what             *)
(* Configuration computes: a pipeline is what its file says, its routes    *)
(* are complete, and the parameters accepted are those given.              *)
(***************************************************************************)
EXTENDS SuiteProof, FiniteSetTheorems, SequenceTheorems, WellFoundedInduction, TLAPS

-----------------------------------------------------------------------------
(* Folds.  A FoldLeft is a recursion over sets of positions: it has a      *)
(* solution, which goes through the list from its first member to its      *)
(* last.                                                                   *)

\* What holds at the beginning and is passed on holds up to the end.
LEMMA UpTo ==
  ASSUME NEW n \in Nat, NEW S, 0 \in S, \A i \in 0..n - 1 : i \in S => i + 1 \in S
  PROVE  \A i \in 0..n : i \in S
<1> DEFINE Left == {i \in 0..n : i \notin S}
<1> SUFFICES ASSUME Left # {} PROVE FALSE
  OBVIOUS
<1>1. PICK i \in Left : \A j \in Left : i <= j
  <2>1. Left \subseteq Nat
    OBVIOUS
  <2> HIDE DEF Left
  <2> QED
    BY <2>1, SmallestExists
<1>2. i # 0 /\ i - 1 \in 0..n - 1 /\ i - 1 \notin Left /\ (i - 1) + 1 = i
  BY <1>1
<1>3. i - 1 \in S
  BY <1>2
<1> QED
  BY <1>1, <1>2, <1>3

\* What follows on base by op, as a function of the number of steps.
GoesOn(n, base, op, g) == g[0] = base /\ \A i \in 1..n : g[i] = op[<<g[i - 1], i>>]

\* There is such a function of the steps.
LEMMA StepsExist ==
  ASSUME NEW n \in Nat, NEW A, NEW base \in A, NEW op \in [A \X (1..n) -> A]
  PROVE  \E g \in [0..n -> A] : GoesOn(n, base, op, g)
<1> DEFINE S == {k \in 0..n : \E g \in [0..k -> A] : GoesOn(k, base, op, g)}
<1>1. 0 \in S
  <2>1. PICK g : g = [i \in 0..0 |-> base]
    OBVIOUS
  <2>2. g \in [0..0 -> A] /\ GoesOn(0, base, op, g)
    BY <2>1 DEF GoesOn
  <2>3. 0 \in 0..n
    OBVIOUS
  <2> QED
    BY <2>2, <2>3
<1>2. ASSUME NEW k \in 0..n - 1, k \in S PROVE k + 1 \in S
  <2>1. PICK g \in [0..k -> A] : GoesOn(k, base, op, g)
    BY <1>2
  <2>2. PICK a \in A : a = op[<<g[k], k + 1>>]
    <3>1. g[k] \in A /\ k + 1 \in 1..n
      OBVIOUS
    <3> QED
      BY <3>1
  <2>3. PICK h : h = [i \in 0..k + 1 |-> IF i = k + 1 THEN a ELSE g[i]]
    OBVIOUS
  <2>4. h \in [0..k + 1 -> A]
    BY <2>3
  <2>5. h[0] = g[0] /\ h[k + 1] = a /\ \A i \in 0..k : h[i] = g[i]
    BY <2>3
  <2>6. \A i \in 1..k + 1 : h[i] = op[<<h[i - 1], i>>]
    <3> SUFFICES ASSUME NEW i \in 1..k + 1 PROVE h[i] = op[<<h[i - 1], i>>]
      OBVIOUS
    <3>1. CASE i = k + 1
      <4>1. i - 1 = k /\ h[i - 1] = g[k]
        BY <2>5, <3>1
      <4> QED
        BY <2>2, <2>5, <3>1, <4>1
    <3>2. CASE i # k + 1
      <4>1. i \in 1..k /\ i \in 0..k /\ i - 1 \in 0..k
        BY <3>2
      <4>2. h[i] = g[i] /\ h[i - 1] = g[i - 1] /\ g[i] = op[<<g[i - 1], i>>]
        BY <2>1, <2>5, <4>1 DEF GoesOn
      <4> QED
        BY <4>2
    <3> QED
      BY <3>1, <3>2
  <2>7. GoesOn(k + 1, base, op, h) /\ k + 1 \in 0..n
    BY <2>1, <2>5, <2>6 DEF GoesOn
  <2> QED
    BY <2>4, <2>7
<1> HIDE DEF S
<1>3. n \in S
  BY <1>1, <1>2, UpTo
<1> QED
  BY <1>3 DEF S

\* Max of a set of positions is its greatest.
LEMMA MaxIs ==
  ASSUME NEW n \in Nat, NEW s \in SUBSET (1..n), s # {}
  PROVE  Max(s) \in s /\ \A y \in s : y <= Max(s)
<1> DEFINE T == {n - y : y \in s}
<1>1. PICK t \in T : \A u \in T : t <= u
  <2>1. \A y \in s : n - y \in Nat
    OBVIOUS
  <2>2. T \subseteq Nat
    BY <2>1
  <2>3. T # {}
    OBVIOUS
  <2> HIDE DEF T
  <2> QED
    BY <2>2, <2>3, SmallestExists
<1>2. PICK x \in s : t = n - x
  BY <1>1
<1>3. \A y \in s : x >= y
  <2> SUFFICES ASSUME NEW y \in s PROVE x >= y
    OBVIOUS
  <2>1. n - x <= n - y
    BY <1>1, <1>2
  <2> QED
    BY <2>1
<1>4. Max(s) \in s /\ \A y \in s : Max(s) >= y
  BY <1>3 DEF Max
<1> QED
  BY <1>4

\* g is what base becomes in going through 1..n, passing over what is not in s.
Leads(n, base, op, s, g) ==
  /\ g[0] = base
  /\ \A i \in 1..n : g[i] = IF i \in s THEN op[<<g[i - 1], i>>] ELSE g[i - 1]

\* Every set of positions can be gone through.
LEMMA PassExists ==
  ASSUME NEW n \in Nat, NEW A, NEW base \in A, NEW op \in [A \X (1..n) -> A], NEW s
  PROVE  \E g \in [0..n -> A] : Leads(n, base, op, s, g)
<1>1. PICK p : p = [q \in A \X (1..n) |-> IF q[2] \in s THEN op[q] ELSE q[1]]
  OBVIOUS
<1>2. p \in [A \X (1..n) -> A]
  <2>1. \A q \in A \X (1..n) : (IF q[2] \in s THEN op[q] ELSE q[1]) \in A
    OBVIOUS
  <2> QED
    BY <1>1, <2>1
<1>3. \E g \in [0..n -> A] : GoesOn(n, base, p, g)
  BY <1>2, StepsExist
<1>4. PICK g \in [0..n -> A] : g[0] = base /\ \A i \in 1..n : g[i] = p[<<g[i - 1], i>>]
  BY <1>3 DEF GoesOn
<1>5. ASSUME NEW i \in 1..n
      PROVE  g[i] = IF i \in s THEN op[<<g[i - 1], i>>] ELSE g[i - 1]
  <2>1. g[i - 1] \in A
    <3>1. i - 1 \in 0..n
      OBVIOUS
    <3> QED
      BY <3>1
  <2>2. p[<<g[i - 1], i>>] = IF i \in s THEN op[<<g[i - 1], i>>] ELSE g[i - 1]
    BY <1>1, <2>1
  <2>3. g[i] = p[<<g[i - 1], i>>]
    BY <1>4
  <2> QED
    BY <2>2, <2>3
<1> QED
  BY <1>4, <1>5 DEF Leads

\* Two passes agree as long as the sets do.
LEMMA PassesAgree ==
  ASSUME NEW n \in Nat, NEW base, NEW op, NEW s, NEW t, NEW g, NEW h,
         Leads(n, base, op, s, g), Leads(n, base, op, t, h),
         NEW k \in 0..n, \A i \in 1..k : i \in s <=> i \in t
  PROVE  g[k] = h[k]
<1> DEFINE Same == {i \in 0..k : g[i] = h[i]}
<1>1. k \in Nat /\ 0 \in Same
  BY DEF Leads
<1>2. ASSUME NEW i \in 0..k - 1, i \in Same PROVE i + 1 \in Same
  <2>1. PICK j \in 1..k : j = i + 1 /\ j \in 1..n /\ j - 1 = i
    OBVIOUS
  <2>2. g[j - 1] = h[j - 1]
    BY <1>2, <2>1
  <2>3. g[j] = IF j \in s THEN op[<<g[j - 1], j>>] ELSE g[j - 1]
    BY <2>1 DEF Leads
  <2>4. h[j] = IF j \in t THEN op[<<h[j - 1], j>>] ELSE h[j - 1]
    BY <2>1 DEF Leads
  <2>5. j \in s <=> j \in t
    OBVIOUS
  <2>6. g[j] = h[j]
    BY <2>2, <2>3, <2>4, <2>5
  <2> QED
    BY <2>1, <2>6
<1> HIDE DEF Same
<1>3. k \in Same
  <2>1. \A i \in 0..k : i \in Same
    BY <1>1, <1>2, UpTo
  <2> QED
    BY <1>1, <2>1
<1> QED
  BY <1>3 DEF Same

\* Of the first m positions.
Within(s, m) == s \subseteq 1..m

\* Nothing happens behind the greatest position.
LEMMA PassEnds ==
  ASSUME NEW n \in Nat, NEW base, NEW op, NEW s, NEW g, Leads(n, base, op, s, g),
         NEW m \in 0..n, Within(s, m)
  PROVE  g[n] = g[m]
<1>1. PICK d \in Nat : d = n - m
  OBVIOUS
<1> DEFINE Same == {i \in 0..d : g[m + i] = g[m]}
<1>2. 0 \in Same
  OBVIOUS
<1>3. ASSUME NEW i \in 0..d - 1, i \in Same PROVE i + 1 \in Same
  <2>1. PICK j \in 1..n : j = m + (i + 1) /\ j - 1 = m + i /\ j \notin s
    BY <1>1 DEF Within
  <2>2. g[j] = g[j - 1]
    BY <2>1 DEF Leads
  <2> QED
    BY <1>3, <2>1, <2>2
<1>4. d \in Same
  <2> HIDE DEF Same
  <2>1. \A i \in 0..d : i \in Same
    BY <1>2, <1>3, UpTo
  <2> QED
    BY <1>1, <2>1
<1> QED
  BY <1>1, <1>4

\* The recursion a fold is: of no positions the base, of others the last by op.
Recursion(n, base, op, iter) ==
  \A s \in SUBSET (1..n) : iter[s] = IF s = {} THEN base ELSE op[<<iter[s \ {Max(s)}], Max(s)>>]

\* The recursion over sets of positions that a fold is made of has a solution: a set is
\* gone through in order, passing over the positions that are not in it.
LEMMA FoldExists ==
  ASSUME NEW n \in Nat, NEW A, NEW base \in A, NEW op \in [A \X (1..n) -> A]
  PROVE  \E iter \in [SUBSET (1..n) -> A] : Recursion(n, base, op, iter)
<1> DEFINE Run(s) == CHOOSE g \in [0..n -> A] : Leads(n, base, op, s, g)
           iter == [s \in SUBSET (1..n) |-> Run(s)[n]]
<1>1. ASSUME NEW s \in SUBSET (1..n)
      PROVE  Run(s) \in [0..n -> A] /\ Leads(n, base, op, s, Run(s))
  <2>1. \E g \in [0..n -> A] : Leads(n, base, op, s, g)
    BY PassExists
  <2> QED
    BY <2>1
<1> HIDE DEF Run
<1>2. iter \in [SUBSET (1..n) -> A]
  <2>1. ASSUME NEW s \in SUBSET (1..n) PROVE Run(s)[n] \in A
    <3>1. PICK g \in [0..n -> A] : g = Run(s)
      BY <1>1
    <3> QED
      BY <3>1
  <2> QED
    BY <2>1
<1>3. \A s \in SUBSET (1..n) : iter[s] = Run(s)[n]
  OBVIOUS
<1> HIDE DEF iter
<1>4. ASSUME NEW s \in SUBSET (1..n)
      PROVE  iter[s] = IF s = {} THEN base ELSE op[<<iter[s \ {Max(s)}], Max(s)>>]
  <2>1. PICK g \in [0..n -> A] : g = Run(s)
    BY <1>1
  <2>2. Leads(n, base, op, s, g) /\ iter[s] = g[n]
    BY <1>1, <1>3, <2>1
  <2>3. CASE s = {}
    <3>1. 0 \in 0..n /\ Within(s, 0)
      BY <2>3 DEF Within
    <3>2. g[n] = g[0]
      BY <2>2, <3>1, PassEnds
    <3>3. g[0] = base
      BY <2>2 DEF Leads
    <3> QED
      BY <2>2, <2>3, <3>2, <3>3
  <2>4. CASE s # {}
    <3>1. PICK m \in s : m = Max(s) /\ \A y \in s : y <= m
      BY <2>4, MaxIs
    <3>2. PICK t \in SUBSET (1..n) : t = s \ {m}
      OBVIOUS
    <3>3. PICK h \in [0..n -> A] : h = Run(t)
      BY <1>1
    <3>4. Leads(n, base, op, t, h) /\ iter[t] = h[n]
      BY <1>1, <1>3, <3>3
    <3>5. m \in 0..n /\ m - 1 \in 0..n /\ m \in 1..n
      OBVIOUS
    <3>6. g[n] = g[m]
      <4>1. Within(s, m)
        BY <3>1 DEF Within
      <4> QED
        BY <2>2, <3>5, <4>1, PassEnds
    <3>7. h[n] = h[m - 1]
      <4>1. Within(t, m - 1)
        BY <3>1, <3>2, <3>5 DEF Within
      <4> QED
        BY <3>4, <3>5, <4>1, PassEnds
    <3>8. g[m - 1] = h[m - 1]
      <4>1. \A i \in 1..m - 1 : i \in s <=> i \in t
        BY <3>2, <3>5
      <4> QED
        BY <2>2, <3>4, <3>5, <4>1, PassesAgree
    <3>9. g[m] = op[<<g[m - 1], m>>]
      BY <2>2, <3>5 DEF Leads
    <3>10. iter[s] = op[<<iter[t], m>>]
      BY <2>2, <3>4, <3>6, <3>7, <3>8, <3>9
    <3> QED
      BY <2>4, <3>1, <3>2, <3>10
  <2> QED
    BY <2>3, <2>4
<1> QED
  BY <1>2, <1>4 DEF Recursion

\* Max of Configuration is the Max of the community modules.
LEMMA SameMax == \A S : Config!Max(S) = Max(S)
  BY DEF Max, Config!Max

\* The positions up to i, without the last, are those up to i - 1.
LEMMA LastOfRange ==
  ASSUME NEW n \in Nat, NEW i \in 1..n
  PROVE  /\ 1..i \in SUBSET (1..n) /\ 1..i # {}
         /\ Max(1..i) = i /\ (1..i) \ {Max(1..i)} = 1..i - 1
<1>1. 1..i \in SUBSET (1..n) /\ 1..i # {} /\ i \in 1..i
  OBVIOUS
<1>2. PICK m \in 1..i : m = Max(1..i) /\ i <= m
  BY <1>1, MaxIs
<1>3. m = i
  BY <1>2
<1> QED
  BY <1>1, <1>2, <1>3

\* What the steps lead to in the end, and where a recursion ends whose steps stay in A.
Arrives(n, base, op, g, end) == GoesOn(n, base, op, g) /\ g[n] = end
GoesUp(n, A, base, op, iter) ==
  /\ iter[{}] = base
  /\ \A i \in 1..n : iter[1..i - 1] \in A => iter[1..i] = op[<<iter[1..i - 1], i>>]

\* The recursion of a fold, taken to the positions up to each in turn.
LEMMA FoldedUpTo ==
  ASSUME NEW n \in Nat, NEW A, NEW base \in A, NEW op \in [A \X (1..n) -> A], NEW iter,
         GoesUp(n, A, base, op, iter)
  PROVE  \E g \in [0..n -> A] : Arrives(n, base, op, g, iter[1..n])
<1> DEFINE S == {i \in 0..n : iter[1..i] \in A}
<1>1. 0 \in S
  <2>1. 1..0 = {}
    OBVIOUS
  <2> QED
    BY <2>1 DEF GoesUp
<1>2. ASSUME NEW i \in 0..n - 1, i \in S PROVE i + 1 \in S
  <2>1. PICK j \in 1..n : j = i + 1 /\ j - 1 = i
    OBVIOUS
  <2>2. iter[1..j] = op[<<iter[1..j - 1], j>>] /\ iter[1..j - 1] \in A
    BY <1>2, <2>1 DEF GoesUp
  <2>3. iter[1..j] \in A
    BY <2>2
  <2> QED
    BY <2>1, <2>3
<1>3. \A i \in 0..n : iter[1..i] \in A
  <2> HIDE DEF S
  <2>1. \A i \in 0..n : i \in S
    BY <1>1, <1>2, UpTo
  <2> QED
    BY <2>1 DEF S
<1>4. PICK g : g = [i \in 0..n |-> iter[1..i]]
  OBVIOUS
<1>5. g \in [0..n -> A] /\ g[n] = iter[1..n]
  BY <1>3, <1>4
<1>6. g[0] = base
  <2>1. 1..0 = {} /\ 0 \in 0..n
    OBVIOUS
  <2> QED
    BY <1>4, <2>1 DEF GoesUp
<1>7. ASSUME NEW i \in 1..n PROVE g[i] = op[<<g[i - 1], i>>]
  <2>1. i \in 0..n /\ i - 1 \in 0..n
    OBVIOUS
  <2>2. g[i] = iter[1..i] /\ g[i - 1] = iter[1..i - 1] /\ iter[1..i - 1] \in A
    BY <1>3, <1>4, <2>1
  <2> QED
    BY <2>2 DEF GoesUp
<1> QED
  BY <1>5, <1>6, <1>7 DEF GoesOn, Arrives

-----------------------------------------------------------------------------
(* The parameters of a module: the text without its blanks.                *)

\* The text without its blanks after each of its characters.
Strips(text, n, g, end) ==
  /\ g[0] = <<>> /\ g[n] = end
  /\ \A i \in 1..n : g[i] = IF text[i] = Config!Blank THEN g[i - 1] ELSE Append(g[i - 1], text[i])

\* Unblanked goes through the text, a character at a time.
LEMMA UnblankedSteps ==
  ASSUME NEW A, NEW text \in Seq(A), NEW n \in Nat, n = Len(text)
  PROVE  \E g \in [0..n -> Seq(A)] : Strips(text, n, g, Config!Unblanked(text))
<1> DEFINE Next(kept, c) == IF c = Config!Blank THEN kept ELSE Append(kept, c)
           op == [q \in Seq(A) \X (1..n) |-> Next(q[1], text[q[2]])]
           Of(iter) == [s \in SUBSET DOMAIN text |->
                          IF s = {} THEN <<>>
                          ELSE Next(iter[s \ {Config!Max(s)}], text[Config!Max(s)])]
           chosen == CHOOSE iter : iter = Of(iter)
<1>1. op \in [Seq(A) \X (1..n) -> Seq(A)] /\ <<>> \in Seq(A)
  <2>1. \A q \in Seq(A) \X (1..n) : Next(q[1], text[q[2]]) \in Seq(A)
    OBVIOUS
  <2> QED
    BY <2>1
<1>2. \A a \in Seq(A), i \in 1..n : op[<<a, i>>] = Next(a, text[i])
  OBVIOUS
<1> HIDE DEF op
<1>3. PICK it \in [SUBSET (1..n) -> Seq(A)] : Recursion(n, <<>>, op, it)
  BY <1>1, FoldExists
<1>d. DOMAIN text = 1..n
  OBVIOUS
<1>4. it = Of(it)
  <2>1. ASSUME NEW s \in SUBSET (1..n)
        PROVE  it[s] = Of(it)[s]
    <3>1. CASE s = {}
      BY <1>3, <1>d, <3>1 DEF Recursion
    <3>2. CASE s # {}
      <4>1. PICK m \in 1..n : m = Max(s) /\ m = Config!Max(s)
        BY <3>2, MaxIs, SameMax
      <4>2. it[s \ {m}] \in Seq(A)
        OBVIOUS
      <4>3. it[s] = op[<<it[s \ {m}], m>>]
        BY <1>3, <3>2, <4>1 DEF Recursion
      <4>4. it[s] = Next(it[s \ {m}], text[m])
        BY <1>2, <4>2, <4>3
      <4> HIDE DEF Next
      <4> QED
        BY <1>d, <3>2, <4>1, <4>4
    <3> QED
      BY <3>1, <3>2
  <2> HIDE DEF Next
  <2> QED
    BY <1>d, <2>1
<1>5. chosen = Of(chosen)
  <2> HIDE DEF Of
  <2> QED
    BY <1>4
<1>6. Config!Unblanked(text) = chosen[DOMAIN text]
  BY DEF Config!Unblanked, Config!FoldLeft, Config!MapThenFoldSet
<1> HIDE DEF Next, chosen
<1>7. chosen[{}] = <<>>
  BY <1>d, <1>5
<1>8. ASSUME NEW i \in 1..n, chosen[1..i - 1] \in Seq(A)
      PROVE  chosen[1..i] = op[<<chosen[1..i - 1], i>>]
  <2>1. /\ 1..i \in SUBSET (1..n) /\ 1..i # {}
        /\ Config!Max(1..i) = i /\ (1..i) \ {Config!Max(1..i)} = 1..i - 1
    BY LastOfRange, SameMax
  <2>2. chosen[1..i] = Next(chosen[1..i - 1], text[i])
    BY <1>d, <1>5, <2>1
  <2> QED
    BY <1>2, <1>8, <2>2
<1>e. GoesUp(n, Seq(A), <<>>, op, chosen)
  BY <1>7, <1>8 DEF GoesUp
<1>9. PICK g \in [0..n -> Seq(A)] : Arrives(n, <<>>, op, g, chosen[1..n])
  BY <1>1, <1>e, FoldedUpTo
<1>10. ASSUME NEW i \in 1..n PROVE g[i] = Next(g[i - 1], text[i])
  <2>1. g[i - 1] \in Seq(A)
    <3>1. i - 1 \in 0..n
      OBVIOUS
    <3> QED
      BY <3>1
  <2>2. g[i] = op[<<g[i - 1], i>>]
    BY <1>9 DEF GoesOn, Arrives
  <2> QED
    BY <1>2, <2>1, <2>2
<1> QED
  BY <1>d, <1>6, <1>9, <1>10 DEF GoesOn, Arrives, Next, Strips

\* What it keeps has no blanks, and where it differs from the text first there is a blank.
LEMMA UnblankedIs ==
  ASSUME NEW A, NEW text \in Seq(A), NEW n \in Nat, n = Len(text),
         NEW plain, plain = Config!Unblanked(text)
  PROVE  /\ plain \in Seq(A) /\ Len(plain) <= n
         /\ \A i \in DOMAIN plain : plain[i] # Config!Blank
         /\ (\A i \in 1..Len(plain) : text[i] = plain[i]) /\ Len(plain) < n
              => text[Len(plain) + 1] = Config!Blank
<1>1. PICK g \in [0..n -> Seq(A)] : Strips(text, n, g, plain)
  BY UnblankedSteps
<1>2. ASSUME NEW i \in 0..n - 1
      PROVE  /\ i + 1 \in 1..n /\ g[i] \in Seq(A) /\ g[i + 1] \in Seq(A)
             /\ \/ text[i + 1] = Config!Blank /\ g[i + 1] = g[i]
                \/ text[i + 1] # Config!Blank /\ g[i + 1] = Append(g[i], text[i + 1])
  <2>1. PICK j \in 1..n : j = i + 1 /\ j - 1 = i /\ j \in 0..n /\ i \in 0..n
    OBVIOUS
  <2>2. g[j] = IF text[j] = Config!Blank THEN g[j - 1] ELSE Append(g[j - 1], text[j])
    BY <1>1 DEF Strips
  <2> QED
    BY <2>1, <2>2
<1>3. \A i \in 0..n : Len(g[i]) <= i /\ \A k \in 1..Len(g[i]) : g[i][k] # Config!Blank
  <2> DEFINE S == {i \in 0..n : Len(g[i]) <= i /\ \A k \in 1..Len(g[i]) : g[i][k] # Config!Blank}
  <2>1. 0 \in S
    BY <1>1 DEF Strips
  <2>2. ASSUME NEW i \in 0..n - 1, i \in S PROVE i + 1 \in S
    <3>1. Len(g[i]) <= i /\ \A k \in 1..Len(g[i]) : g[i][k] # Config!Blank
      BY <2>2
    <3>2. CASE g[i + 1] = g[i]
      BY <1>2, <3>1, <3>2
    <3>3. CASE text[i + 1] # Config!Blank /\ g[i + 1] = Append(g[i], text[i + 1])
      <4>1. PICK s \in Seq(A), l \in Nat : s = g[i] /\ l = Len(s)
        BY <1>2
      <4>2. PICK c \in A : c = text[i + 1]
        BY <1>2
      <4>3. /\ Len(Append(s, c)) = l + 1
            /\ \A k \in 1..l + 1 : Append(s, c)[k] = IF k = l + 1 THEN c ELSE s[k]
        BY <4>1
      <4>4. g[i + 1] = Append(s, c)
        BY <3>3, <4>1, <4>2
      <4>5. \A k \in 1..l + 1 : Append(s, c)[k] # Config!Blank
        <5> SUFFICES ASSUME NEW k \in 1..l + 1 PROVE Append(s, c)[k] # Config!Blank
          OBVIOUS
        <5>1. CASE k = l + 1
          BY <3>3, <4>2, <4>3, <5>1
        <5>2. CASE k # l + 1
          <6>1. k \in 1..l
            BY <4>1, <5>2
          <6> QED
            BY <3>1, <4>1, <4>3, <5>2, <6>1
        <5> QED
          BY <5>1, <5>2
      <4>6. Len(g[i + 1]) = l + 1 /\ l <= i /\ i + 1 \in 0..n
        BY <3>1, <4>1, <4>3, <4>4
      <4>7. Len(g[i + 1]) <= i + 1
        BY <4>1, <4>6
      <4>8. \A k \in 1..Len(g[i + 1]) : g[i + 1][k] # Config!Blank
        BY <4>4, <4>5, <4>6
      <4> QED
        BY <4>6, <4>7, <4>8
    <3> QED
      BY <1>2, <3>2, <3>3
  <2> HIDE DEF S
  <2>3. \A i \in 0..n : i \in S
    BY <2>1, <2>2, UpTo
  <2> QED
    BY <2>3 DEF S
<1>4. plain \in Seq(A) /\ Len(plain) <= n /\ \A i \in 1..Len(plain) : plain[i] # Config!Blank
  <2>1. n \in 0..n
    OBVIOUS
  <2> QED
    BY <1>1, <1>3, <2>1 DEF Strips
<1>5. ASSUME \A i \in 1..Len(plain) : text[i] = plain[i], Len(plain) < n,
             text[Len(plain) + 1] # Config!Blank
      PROVE  FALSE
  <2>1. PICK k \in 0..n - 1 : k = Len(plain)
    BY <1>4, <1>5
  <2>2. \A i \in 1..k + 1 : text[i] # Config!Blank
    <3> SUFFICES ASSUME NEW i \in 1..k + 1 PROVE text[i] # Config!Blank
      OBVIOUS
    <3>1. CASE i = k + 1
      BY <1>5, <2>1, <3>1
    <3>2. CASE i # k + 1
      <4>1. i \in 1..Len(plain)
        BY <2>1, <3>2
      <4> QED
        BY <1>4, <1>5, <4>1
    <3> QED
      BY <3>1, <3>2
  <2>3. \A i \in 0..k + 1 : Len(g[i]) = i
    <3> DEFINE S == {i \in 0..k + 1 : Len(g[i]) = i}
    <3>1. 0 \in S /\ k + 1 \in Nat
      BY <1>1 DEF Strips
    <3>2. ASSUME NEW i \in 0..(k + 1) - 1, i \in S PROVE i + 1 \in S
      <4>1. i \in 0..n - 1 /\ i + 1 \in 1..k + 1
        OBVIOUS
      <4>2. g[i + 1] = Append(g[i], text[i + 1]) /\ g[i] \in Seq(A)
        BY <1>2, <2>2, <4>1
      <4> QED
        BY <3>2, <4>1, <4>2
    <3> HIDE DEF S
    <3>3. \A i \in 0..k + 1 : i \in S
      BY <3>1, <3>2, UpTo
    <3> QED
      BY <3>3 DEF S
  <2>4. PICK m \in Nat : m = n - (k + 1)
    <3>1. n - (k + 1) \in Nat
      OBVIOUS
    <3> QED
      BY <3>1
  <2>5. \A i \in 0..m : Len(g[k + 1 + i]) >= k + 1
    <3> DEFINE S == {i \in 0..m : Len(g[k + 1 + i]) >= k + 1}
    <3>1. 0 \in S
      <4>1. Len(g[k + 1]) = k + 1 /\ k + 1 + 0 = k + 1
        BY <2>3
      <4> QED
        BY <4>1
    <3>2. ASSUME NEW i \in 0..m - 1, i \in S PROVE i + 1 \in S
      <4>1. PICK j \in 0..n - 1 : j = k + 1 + i /\ j + 1 = k + 1 + (i + 1)
        BY <2>4
      <4>2. Len(g[j]) >= k + 1
        BY <3>2, <4>1
      <4>3. Len(g[j + 1]) >= k + 1
        <5>1. Len(g[j + 1]) >= Len(g[j])
          <6>1. PICK l \in Nat : l = Len(g[j])
            BY <1>2
          <6>2. CASE g[j + 1] = g[j]
            BY <6>1, <6>2
          <6>3. CASE g[j + 1] = Append(g[j], text[j + 1])
            <7>1. Len(g[j + 1]) = l + 1
              BY <1>2, <6>1, <6>3
            <7> QED
              BY <6>1, <7>1
          <6> QED
            BY <1>2, <6>2, <6>3
        <5>2. Len(g[j]) \in Nat /\ Len(g[j + 1]) \in Nat
          BY <1>2
        <5> QED
          BY <4>2, <5>1, <5>2
      <4> QED
        BY <4>1, <4>3
    <3> HIDE DEF S
    <3>3. \A i \in 0..m : i \in S
      BY <3>1, <3>2, UpTo
    <3> QED
      BY <3>3 DEF S
  <2>6. k + 1 + m = n /\ m \in 0..m
    BY <2>4
  <2> QED
    BY <1>1, <2>1, <2>5, <2>6 DEF Strips
<1>6. DOMAIN plain = 1..Len(plain)
  BY <1>4
<1> QED
  BY <1>4, <1>5, <1>6

\* Cardinality of Configuration is that of FiniteSets.
LEMMA ConfigCardinality == \A S : Config!Cardinality(S) = Cardinality(S)
  BY DEF Cardinality, Config!Cardinality

\* A blank ends a number as the end of the text does: stoi reads the same number.
LEMMA SameNumber ==
  ASSUME NEW A, NEW text \in Seq(A), NEW plain \in Seq(A), Len(plain) # 0,
         Len(plain) <= Len(text), \A i \in 1..Len(plain) : text[i] = plain[i],
         Len(plain) < Len(text) => text[Len(plain) + 1] = Config!Blank
  PROVE  Config!NumberIn(text) = Config!NumberIn(plain)
<1> DEFINE Signed(s) == s # <<>> /\ s[1] = "-"
           Digits(s) == IF Signed(s) THEN Tail(s) ELSE s
           Prefix(s) == {n \in DOMAIN s : \A i \in 1..n : s[i] \in DOMAIN Config!DigitOf}
<1>1. Signed(text) <=> Signed(plain)
  OBVIOUS
<1>2. PICK d \in Seq(A), e \in Seq(A) : d = Digits(text) /\ e = Digits(plain)
  <2>1. \A s \in Seq(A) : Digits(s) \in Seq(A)
    OBVIOUS
  <2> HIDE DEF Digits
  <2> QED
    BY <2>1
<1>3. PICK k \in Nat, n \in Nat : k = Len(e) /\ n = Len(d)
  BY <1>2
<1>4. k <= n /\ (\A i \in 1..k : d[i] = e[i]) /\ (k < n => d[k + 1] = Config!Blank)
  <2>1. CASE Signed(text)
    <3>1. d = Tail(text) /\ e = Tail(plain) /\ k = Len(plain) - 1 /\ n = Len(text) - 1
      BY <1>1, <1>2, <1>3, <2>1
    <3>2. (\A i \in 1..n : d[i] = text[i + 1]) /\ \A i \in 1..k : e[i] = plain[i + 1]
      BY <3>1
    <3>3. k <= n
      BY <3>1
    <3>4. ASSUME NEW i \in 1..k PROVE d[i] = e[i]
      <4>1. i + 1 \in 1..Len(plain) /\ i \in 1..n
        BY <3>1, <3>3
      <4> QED
        BY <3>2, <4>1
    <3>5. ASSUME k < n PROVE d[k + 1] = Config!Blank
      <4>1. k + 1 \in 1..n /\ (k + 1) + 1 = Len(plain) + 1 /\ Len(plain) < Len(text)
        BY <3>1, <3>5
      <4> QED
        BY <3>2, <4>1
    <3> QED
      BY <3>3, <3>4, <3>5
  <2>2. CASE ~Signed(text)
    BY <1>1, <1>2, <1>3, <2>2
  <2> QED
    BY <2>1, <2>2
<1> HIDE DEF Digits
<1>5. Config!Blank \notin DOMAIN Config!DigitOf
  BY DEF Config!Blank, Config!DigitOf
<1>6. Prefix(d) = Prefix(e)
  <2>1. DOMAIN d = 1..n /\ DOMAIN e = 1..k
    BY <1>3
  <2>2. ASSUME NEW i \in Prefix(d) PROVE i <= k
    <3> SUFFICES ASSUME i > k PROVE FALSE
      BY <1>3, <2>1
    <3>1. i \in 1..n /\ k + 1 \in 1..i /\ k < n
      BY <1>3, <2>1
    <3>2. d[k + 1] \in DOMAIN Config!DigitOf
      BY <3>1
    <3> QED
      BY <1>4, <1>5, <3>1, <3>2
  <2>3. ASSUME NEW i \in Prefix(d) PROVE i \in Prefix(e)
    <3>1. i \in 1..k
      BY <1>3, <2>1, <2>2
    <3>2. \A h \in 1..i : d[h] = e[h]
      BY <1>4, <3>1
    <3> QED
      BY <2>1, <3>1, <3>2
  <2>4. ASSUME NEW i \in Prefix(e) PROVE i \in Prefix(d)
    <3>1. i \in 1..k /\ i \in 1..n
      BY <1>3, <1>4, <2>1
    <3>2. \A h \in 1..i : d[h] = e[h]
      BY <1>4, <3>1
    <3> QED
      BY <2>1, <3>1, <3>2
  <2> HIDE DEF Prefix
  <2> QED
    BY <2>3, <2>4
<1>7. PICK l : l = Config!Cardinality(Prefix(d)) /\ l = Config!Cardinality(Prefix(e))
  BY <1>6
<1>8. l \in Nat /\ l <= k
  <2>1. Prefix(e) \subseteq 1..k
    BY <1>3
  <2>2. IsFiniteSet(1..k) /\ Cardinality(1..k) = k
    BY FS_Interval
  <2> HIDE DEF Prefix
  <2>3. IsFiniteSet(Prefix(e)) /\ Cardinality(Prefix(e)) <= k
    BY <2>1, <2>2, FS_Subset
  <2>4. Cardinality(Prefix(e)) \in Nat
    BY <2>3, FS_CardinalityType
  <2> QED
    BY <1>7, <2>3, <2>4, ConfigCardinality
<1>9. SubSeq(d, 1, l) = SubSeq(e, 1, l)
  <2>1. \A i \in 1..l : d[i] = e[i]
    BY <1>4, <1>8
  <2> QED
    BY <1>8, <2>1
<1>10. Config!NumberIn(text) =
         IF l = 0 THEN <<>>
         ELSE <<IF Signed(text) THEN -Config!Decimal(SubSeq(d, 1, l))
                ELSE Config!Decimal(SubSeq(d, 1, l))>>
  BY <1>2, <1>7, Zenon DEF Config!NumberIn, Digits
<1>11. Config!NumberIn(plain) =
         IF l = 0 THEN <<>>
         ELSE <<IF Signed(plain) THEN -Config!Decimal(SubSeq(e, 1, l))
                ELSE Config!Decimal(SubSeq(e, 1, l))>>
  BY <1>2, <1>7, Zenon DEF Config!NumberIn, Digits
<1>12. PICK x : x = Config!Decimal(SubSeq(d, 1, l)) /\ x = Config!Decimal(SubSeq(e, 1, l))
  BY <1>9
<1> HIDE DEF Signed
<1>13. Config!NumberIn(text) = IF l = 0 THEN <<>> ELSE <<IF Signed(text) THEN -x ELSE x>>
  BY <1>10, <1>12, Zenon
<1>14. Config!NumberIn(plain) = IF l = 0 THEN <<>> ELSE <<IF Signed(plain) THEN -x ELSE x>>
  BY <1>11, <1>12, Zenon
<1> QED
  BY <1>1, <1>13, <1>14

-----------------------------------------------------------------------------
\* The texts of the descriptions registered are those given.
LEMMA RegisteredAre ==
  ASSUME NEW r \in Registers, NEW d \in Config!Registered(r)
  PROVE  Config!IsSequence(d.default) /\ d.type \in Config!ParserTypes
<1>1. PICK n \in Nat : n = Len(r) /\ DOMAIN r = 1..n
  <2>1. r \in Seq(Config!Range(r))
    BY SuiteAssumption DEF Config!ConfigurationAssumption, Config!IsSequence
  <2> QED
    BY <2>1
<1>2. PICK D : D = {[r[i] EXCEPT !.name = Config!RemovedIf(@)] :
                       i \in {k \in 1..n : r[k].type # "none"}}
  OBVIOUS
<1>3. ASSUME NEW e \in D PROVE Config!IsSequence(e.default) /\ e.type \in Config!ParserTypes
  <2>1. PICK i \in 1..n : r[i].type # "none" /\ e = [r[i] EXCEPT !.name = Config!RemovedIf(@)]
    BY <1>2
  <2>2. DOMAIN r[i] = {"name", "default", "must", "type"} /\ Config!IsSequence(r[i].default)
        /\ r[i].type \in Config!ParserTypes \cup {"none"}
    BY <1>1, SuiteAssumption DEF Config!ConfigurationAssumption
  <2>3. e.default = r[i].default /\ e.type = r[i].type
    BY <2>1, <2>2
  <2> QED
    BY <2>1, <2>2, <2>3
<1> DEFINE A == [failed : BOOLEAN, descs : SUBSET D]
           base == [failed |-> FALSE, descs |-> {}]
           Next(k, c) == Config!Register(k, c)
           op == [q \in A \X (1..n) |-> Next(q[1], r[q[2]])]
           Of(iter) == [s \in SUBSET DOMAIN r |->
                          IF s = {} THEN base
                          ELSE Next(iter[s \ {Config!Max(s)}], r[Config!Max(s)])]
           chosen == CHOOSE iter : iter = Of(iter)
<1>4. op \in [A \X (1..n) -> A] /\ base \in A
  <2>1. ASSUME NEW k \in A, NEW i \in 1..n PROVE Next(k, r[i]) \in A
    <3>2. CASE k.failed \/ r[i].type = "none" \/ r[i].name = <<>>
      <4>1. Next(k, r[i]) = [k EXCEPT !.failed = TRUE]
        BY <3>2 DEF Config!Register
      <4> QED
        BY <4>1
    <3>3. CASE ~(k.failed \/ r[i].type = "none" \/ r[i].name = <<>>)
      <4>1. PICK kept : kept = {e \in k.descs : e.name # Config!RemovedIf(r[i].name)}
                               \cup {[r[i] EXCEPT !.name = Config!RemovedIf(@)]}
        OBVIOUS
      <4>2. Next(k, r[i]) = [k EXCEPT !.descs = kept]
        BY <3>3, <4>1 DEF Config!Register
      <4>3. [r[i] EXCEPT !.name = Config!RemovedIf(@)] \in D
        BY <1>2, <3>3
      <4>4. kept \in SUBSET D
        BY <4>1, <4>3
      <4> QED
        BY <4>2, <4>4
    <3> QED
      BY <3>2, <3>3
  <2>2. base \in A
    OBVIOUS
  <2> HIDE DEF A, Next, base
  <2> QED
    BY <2>1, <2>2
<1> HIDE DEF A, base
<1>5. \A a \in A, i \in 1..n : op[<<a, i>>] = Next(a, r[i])
  <2> HIDE DEF Next
  <2> QED
    OBVIOUS
<1> HIDE DEF op
<1>6. PICK it \in [SUBSET (1..n) -> A] : Recursion(n, base, op, it)
  BY <1>4, FoldExists
<1>7. it = Of(it)
  <2> HIDE DEF Next
  <2>1. ASSUME NEW s \in SUBSET (1..n)
        PROVE  it[s] = Of(it)[s]
    <3>1. CASE s = {}
      BY <1>1, <1>6, <3>1 DEF Recursion
    <3>2. CASE s # {}
      <4>1. PICK m \in 1..n : m = Max(s) /\ m = Config!Max(s)
        BY <3>2, MaxIs, SameMax
      <4>2. it[s \ {m}] \in A
        OBVIOUS
      <4>3. it[s] = op[<<it[s \ {m}], m>>]
        BY <1>6, <3>2, <4>1 DEF Recursion
      <4>4. it[s] = Next(it[s \ {m}], r[m])
        BY <1>5, <4>2, <4>3
      <4> QED
        BY <1>1, <3>2, <4>1, <4>4
    <3> QED
      BY <3>1, <3>2
  <2> QED
    BY <1>1, <2>1
<1>8. chosen = Of(chosen)
  <2> HIDE DEF Of
  <2> QED
    BY <1>7
<1>9. Config!Registered(r) = chosen[DOMAIN r].descs
  BY DEF Config!Registered, Config!FoldLeft, Config!MapThenFoldSet, base
<1> HIDE DEF Next, chosen
<1>10. GoesUp(n, A, base, op, chosen)
  <2>1. chosen[{}] = base
    BY <1>1, <1>8
  <2>2. ASSUME NEW i \in 1..n, chosen[1..i - 1] \in A
        PROVE  chosen[1..i] = op[<<chosen[1..i - 1], i>>]
    <3>1. /\ 1..i \in SUBSET (1..n) /\ 1..i # {}
          /\ Config!Max(1..i) = i /\ (1..i) \ {Config!Max(1..i)} = 1..i - 1
      BY LastOfRange, SameMax
    <3>2. chosen[1..i] = Next(chosen[1..i - 1], r[i])
      BY <1>1, <1>8, <3>1
    <3> QED
      BY <1>5, <2>2, <3>2
  <2> QED
    BY <2>1, <2>2 DEF GoesUp
<1>11. PICK g \in [0..n -> A] : Arrives(n, base, op, g, chosen[1..n])
  BY <1>4, <1>10, FoldedUpTo
<1>12. chosen[1..n] \in A
  <2>1. n \in 0..n /\ g[n] = chosen[1..n]
    BY <1>11 DEF Arrives
  <2> QED
    BY <2>1
<1>13. d \in D
  BY <1>1, <1>9, <1>12 DEF A
<1> QED
  BY <1>3, <1>13

-----------------------------------------------------------------------------
\* No inspection was passed in the beginning.
LEMMA ParamInvInit == SuiteInit => ParamInv
<1> SUFFICES ASSUME SuiteInit PROVE ParamInv
  OBVIOUS
<1>1. ~accepted /\ given = <<>>
  BY DEF SuiteInit, Config!ParamInit
<1>2. \A d \in descs : Config!IsSequence(d.default) /\ d.type \in Config!ParserTypes
  <2>1. CASE descs = {}
    BY <2>1
  <2>2. CASE descs \in {Config!Registered(r) : r \in Registers}
    BY <2>2, RegisteredAre
  <2> QED
    BY <2>1, <2>2 DEF SuiteInit, Config!ParamInit
<1> QED
  BY <1>1, <1>2 DEF ParamInv

\* ParseParamsAndInspect passes what it stored, and a rejected one is not accepted.
LEMMA ParamInvNext ==
  ASSUME ParamInv, [Config!ParamNext]_paramVars
  PROVE  ParamInv'
<1>1. CASE UNCHANGED paramVars
  <2>1. descs' = descs /\ given' = given /\ accepted' = accepted /\ values' = values
    BY <1>1 DEF paramVars
  <2> QED
    BY <2>1 DEF ParamInv, Config!TextFor
<1>2. ASSUME NEW params \in ParamSets, Config!ParseParamsAndInspect(params)
      PROVE  ParamInv'
  <2>1. descs' = descs /\ given' = params
    BY <1>2 DEF Config!ParseParamsAndInspect
  <2>2. \A name \in DOMAIN params : Config!IsSequence(params[name])
    BY SuiteAssumption DEF Config!ConfigurationAssumption
  <2>3. CASE ~accepted'
    BY <2>1, <2>2, <2>3 DEF ParamInv
  <2>4. CASE accepted'
    <3>1. /\ \A d \in descs : d.must => d.name \in DOMAIN params
          /\ values' = Config!ValuesAfter(params, descs)
          /\ DOMAIN params \subseteq {d.name : d \in descs} \cup {Config!EasysaDir}
      BY <1>2, <2>4 DEF Config!ParseParamsAndInspect
    <3>2. ASSUME NEW d \in descs, NEW value,
                 value = Config!ParsedAs(d.type, Config!RemovedIf(Config!TextFor(params, d))),
                 value # <<>>
          PROVE  values'[d] = value
      BY <3>1, <3>2 DEF Config!ValuesAfter
    <3> QED
      BY <2>1, <2>2, <3>1, <3>2 DEF ParamInv, Config!TextFor
  <2> QED
    BY <2>3, <2>4
<1> QED
  BY <1>1, <1>2 DEF Config!ParamNext

\* An empty text has no number.
LEMMA NoNumber == Config!NumberIn(<<>>) = <<>>
<1>1. {n \in DOMAIN <<>> : \A i \in 1..n : <<>>[i] \in DOMAIN Config!DigitOf} = {}
  OBVIOUS
<1>2. Config!Cardinality({}) = 0
  BY ConfigCardinality, FS_EmptySet
<1> QED
  BY <1>1, <1>2 DEF Config!NumberIn

\* What is stored of the text with its blanks removed in place is what the text means.
LEMMA ParametersRead == ParamInv => Config!ParametersAsGiven
<1> SUFFICES ASSUME ParamInv, accepted,
                    NEW d \in descs, NEW text, text = Config!TextFor(given, d),
                    NEW plain, plain = Config!Unblanked(text),
                    \/ text = plain
                    \/ /\ d.type # "string" /\ d.type # "bool"
                       /\ SubSeq(text, 1, Len(plain)) = plain,
                    Config!ParsedAs(d.type, plain) # <<>>
             PROVE  values[d] = Config!ParsedAs(d.type, plain)
  BY DEF Config!ParametersAsGiven, ParamInv
<1>1. PICK A : text \in Seq(A)
  BY DEF ParamInv, Config!TextFor, Config!IsSequence
<1>2. PICK n \in Nat : n = Len(text)
  BY <1>1
<1>3. /\ plain \in Seq(A) /\ Len(plain) <= n
      /\ (\A i \in 1..Len(plain) : text[i] = plain[i]) /\ Len(plain) < n
           => text[Len(plain) + 1] = Config!Blank
  BY <1>1, <1>2, UnblankedIs
<1>4. SubSeq(text, 1, Len(plain)) = plain
  BY <1>1
<1>5. Config!RemovedIf(text) = text
  <2>1. Config!RemovedIf(text) = plain \o SubSeq(text, Len(plain) + 1, Len(text))
    BY DEF Config!RemovedIf
  <2>2. PICK k \in 0..n : k = Len(plain)
    BY <1>3
  <2>3. SubSeq(text, 1, k) \o SubSeq(text, k + 1, n) = SubSeq(text, 1, n)
    <3>1. 1 \in 1..Len(text) + 1 /\ k \in 1 - 1..Len(text) /\ n \in k..Len(text)
      BY <1>2, <2>2
    <3> QED
      BY <1>1, <3>1, ConcatAdjacentSubSeq
  <2>4. SubSeq(text, 1, n) = text
    BY <1>1, <1>2
  <2> QED
    BY <1>2, <1>4, <2>1, <2>2, <2>3, <2>4
<1>6. Config!ParsedAs(d.type, text) = Config!ParsedAs(d.type, plain)
  <2>1. CASE text = plain
    BY <2>1
  <2>2. CASE d.type # "string" /\ d.type # "bool"
    <3>1. d.type \in {"int", "uint"}
      BY <2>2 DEF ParamInv, Config!ParserTypes
    <3>2. Len(plain) # 0
      <4> SUFFICES ASSUME plain = <<>> PROVE FALSE
        BY <1>3
      <4>1. Config!NumberIn(plain) = <<>>
        BY NoNumber
      <4> QED
        BY <3>1, <4>1 DEF Config!ParsedAs
    <3>3. \A i \in 1..Len(plain) : text[i] = plain[i]
      <4>1. Len(plain) \in Nat /\ \A i \in 1..Len(plain) : SubSeq(text, 1, Len(plain))[i] = text[i]
        BY <1>1, <1>2, <1>3
      <4> QED
        BY <1>4, <4>1
    <3>4. Config!NumberIn(text) = Config!NumberIn(plain)
      BY <1>1, <1>2, <1>3, <3>2, <3>3, SameNumber
    <3> QED
      BY <3>1, <3>4 DEF Config!ParsedAs
  <2> QED
    BY <2>1, <2>2
<1> QED
  BY <1>5, <1>6 DEF ParamInv

-----------------------------------------------------------------------------
(* The folds of Configuration, as functions of the number of steps.  A     *)
(* lemma cannot have the operator that is folded as a parameter: there is  *)
(* one for each.                                                           *)

\* The members of the profiler, read one after the other.
MemberSteps(n, base, seq, g, end) ==
  /\ g[0] = base /\ g[n] = end
  /\ \A i \in 1..n : g[i] = Config!ProfilerMember(g[i - 1], seq[i])
MemberStays(A, n, seq) ==
  \A k \in A : \A i \in 1..n : Config!ProfilerMember(k, seq[i]) \in A

\* The fold over them is such a function of the steps.
LEMMA MemberFold ==
  ASSUME NEW A, NEW base \in A, NEW n \in Nat, NEW seq, DOMAIN seq = 1..n,
         MemberStays(A, n, seq)
  PROVE  \E g \in [0..n -> A] :
           MemberSteps(n, base, seq, g, Config!FoldLeft(Config!ProfilerMember, base, seq))
<1> DEFINE Next(k, c) == Config!ProfilerMember(k, c)
           op == [q \in A \X (1..n) |-> Next(q[1], seq[q[2]])]
           Of(iter) == [s \in SUBSET DOMAIN seq |->
                          IF s = {} THEN base
                          ELSE Next(iter[s \ {Config!Max(s)}], seq[Config!Max(s)])]
           chosen == CHOOSE iter : iter = Of(iter)
<1>1. Config!FoldLeft(Config!ProfilerMember, base, seq) = chosen[1..n]
  BY DEF Config!FoldLeft, Config!MapThenFoldSet
<1>2. \A k \in A : \A i \in 1..n : Next(k, seq[i]) \in A
  BY DEF MemberStays
<1>3. \A g, end : g[0] = base /\ g[n] = end /\ (\A i \in 1..n : g[i] = Next(g[i - 1], seq[i]))
                  => MemberSteps(n, base, seq, g, end)
  BY DEF MemberSteps
<1> HIDE DEF Next
<1>4. op \in [A \X (1..n) -> A] /\ \A k \in A : \A i \in 1..n : op[<<k, i>>] = Next(k, seq[i])
  BY <1>2
<1> HIDE DEF op
<1>5. PICK it \in [SUBSET (1..n) -> A] : Recursion(n, base, op, it)
  BY <1>4, FoldExists
<1>6. ASSUME NEW s \in SUBSET (1..n)
      PROVE  it[s] = IF s = {} THEN base ELSE Next(it[s \ {Config!Max(s)}], seq[Config!Max(s)])
  <2>1. CASE s = {}
    BY <1>5, <2>1 DEF Recursion
  <2>2. CASE s # {}
    <3>1. PICK m \in 1..n : m = Max(s) /\ m = Config!Max(s)
      BY <2>2, MaxIs, SameMax
    <3>2. it[s \ {m}] \in A /\ it[s] = op[<<it[s \ {m}], m>>]
      BY <1>5, <2>2, <3>1 DEF Recursion
    <3> QED
      BY <1>4, <2>2, <3>1, <3>2
  <2> QED
    BY <2>1, <2>2
<1>7. it = Of(it)
  BY <1>6
<1>8. chosen = Of(chosen)
  <2> HIDE DEF Of
  <2> QED
    BY <1>7
<1> HIDE DEF chosen
<1>9. chosen[{}] = base
  BY <1>8
<1>10. ASSUME NEW i \in 1..n, chosen[1..i - 1] \in A
       PROVE  chosen[1..i] = op[<<chosen[1..i - 1], i>>]
  <2>1. /\ 1..i \in SUBSET (1..n) /\ 1..i # {}
        /\ Config!Max(1..i) = i /\ (1..i) \ {Config!Max(1..i)} = 1..i - 1
    BY LastOfRange, SameMax
  <2>2. chosen[1..i] = Next(chosen[1..i - 1], seq[i])
    BY <1>8, <2>1
  <2> QED
    BY <1>4, <1>10, <2>2
<1>11. GoesUp(n, A, base, op, chosen)
  BY <1>9, <1>10 DEF GoesUp
<1>12. PICK g \in [0..n -> A] : Arrives(n, base, op, g, chosen[1..n])
  BY <1>4, <1>11, FoldedUpTo
<1>13. ASSUME NEW i \in 1..n PROVE g[i] = Next(g[i - 1], seq[i])
  <2>1. i - 1 \in 0..n
    OBVIOUS
  <2>2. g[i - 1] \in A /\ g[i] = op[<<g[i - 1], i>>]
    BY <1>12, <2>1 DEF Arrives, GoesOn
  <2> QED
    BY <1>4, <2>2
<1>14. g[0] = base /\ g[n] = chosen[1..n]
  BY <1>12 DEF Arrives, GoesOn
<1> QED
  BY <1>1, <1>3, <1>13, <1>14

\* The items of a file, read one after the other.
ItemSteps(n, base, seq, g, end) ==
  /\ g[0] = base /\ g[n] = end
  /\ \A i \in 1..n : g[i] = Config!ReadItem(g[i - 1], seq[i])
ItemStays(A, n, seq) ==
  \A k \in A : \A i \in 1..n : Config!ReadItem(k, seq[i]) \in A

\* The fold over them is such a function of the steps.
LEMMA ItemFold ==
  ASSUME NEW A, NEW base \in A, NEW n \in Nat, NEW seq, DOMAIN seq = 1..n,
         ItemStays(A, n, seq)
  PROVE  \E g \in [0..n -> A] :
           ItemSteps(n, base, seq, g, Config!FoldLeft(Config!ReadItem, base, seq))
<1> DEFINE Next(k, c) == Config!ReadItem(k, c)
           op == [q \in A \X (1..n) |-> Next(q[1], seq[q[2]])]
           Of(iter) == [s \in SUBSET DOMAIN seq |->
                          IF s = {} THEN base
                          ELSE Next(iter[s \ {Config!Max(s)}], seq[Config!Max(s)])]
           chosen == CHOOSE iter : iter = Of(iter)
<1>1. Config!FoldLeft(Config!ReadItem, base, seq) = chosen[1..n]
  BY DEF Config!FoldLeft, Config!MapThenFoldSet
<1>2. \A k \in A : \A i \in 1..n : Next(k, seq[i]) \in A
  BY DEF ItemStays
<1>3. \A g, end : g[0] = base /\ g[n] = end /\ (\A i \in 1..n : g[i] = Next(g[i - 1], seq[i]))
                  => ItemSteps(n, base, seq, g, end)
  BY DEF ItemSteps
<1> HIDE DEF Next
<1>4. op \in [A \X (1..n) -> A] /\ \A k \in A : \A i \in 1..n : op[<<k, i>>] = Next(k, seq[i])
  BY <1>2
<1> HIDE DEF op
<1>5. PICK it \in [SUBSET (1..n) -> A] : Recursion(n, base, op, it)
  BY <1>4, FoldExists
<1>6. ASSUME NEW s \in SUBSET (1..n)
      PROVE  it[s] = IF s = {} THEN base ELSE Next(it[s \ {Config!Max(s)}], seq[Config!Max(s)])
  <2>1. CASE s = {}
    BY <1>5, <2>1 DEF Recursion
  <2>2. CASE s # {}
    <3>1. PICK m \in 1..n : m = Max(s) /\ m = Config!Max(s)
      BY <2>2, MaxIs, SameMax
    <3>2. it[s \ {m}] \in A /\ it[s] = op[<<it[s \ {m}], m>>]
      BY <1>5, <2>2, <3>1 DEF Recursion
    <3> QED
      BY <1>4, <2>2, <3>1, <3>2
  <2> QED
    BY <2>1, <2>2
<1>7. it = Of(it)
  BY <1>6
<1>8. chosen = Of(chosen)
  <2> HIDE DEF Of
  <2> QED
    BY <1>7
<1> HIDE DEF chosen
<1>9. chosen[{}] = base
  BY <1>8
<1>10. ASSUME NEW i \in 1..n, chosen[1..i - 1] \in A
       PROVE  chosen[1..i] = op[<<chosen[1..i - 1], i>>]
  <2>1. /\ 1..i \in SUBSET (1..n) /\ 1..i # {}
        /\ Config!Max(1..i) = i /\ (1..i) \ {Config!Max(1..i)} = 1..i - 1
    BY LastOfRange, SameMax
  <2>2. chosen[1..i] = Next(chosen[1..i - 1], seq[i])
    BY <1>8, <2>1
  <2> QED
    BY <1>4, <1>10, <2>2
<1>11. GoesUp(n, A, base, op, chosen)
  BY <1>9, <1>10 DEF GoesUp
<1>12. PICK g \in [0..n -> A] : Arrives(n, base, op, g, chosen[1..n])
  BY <1>4, <1>11, FoldedUpTo
<1>13. ASSUME NEW i \in 1..n PROVE g[i] = Next(g[i - 1], seq[i])
  <2>1. i - 1 \in 0..n
    OBVIOUS
  <2>2. g[i - 1] \in A /\ g[i] = op[<<g[i - 1], i>>]
    BY <1>12, <2>1 DEF Arrives, GoesOn
  <2> QED
    BY <1>4, <2>2
<1>14. g[0] = base /\ g[n] = chosen[1..n]
  BY <1>12 DEF Arrives, GoesOn
<1> QED
  BY <1>1, <1>3, <1>13, <1>14

\* The modules of the configs, added one after the other.
AddSteps(n, base, seq, g, end) ==
  /\ g[0] = base /\ g[n] = end
  /\ \A i \in 1..n : g[i] = Config!AddConfigured(g[i - 1], seq[i])
AddStays(A, n, seq) ==
  \A k \in A : \A i \in 1..n : Config!AddConfigured(k, seq[i]) \in A

\* The fold over them is such a function of the steps.
LEMMA AddFold ==
  ASSUME NEW A, NEW base \in A, NEW n \in Nat, NEW seq, DOMAIN seq = 1..n,
         AddStays(A, n, seq)
  PROVE  \E g \in [0..n -> A] :
           AddSteps(n, base, seq, g, Config!FoldLeft(Config!AddConfigured, base, seq))
<1> DEFINE Next(k, c) == Config!AddConfigured(k, c)
           op == [q \in A \X (1..n) |-> Next(q[1], seq[q[2]])]
           Of(iter) == [s \in SUBSET DOMAIN seq |->
                          IF s = {} THEN base
                          ELSE Next(iter[s \ {Config!Max(s)}], seq[Config!Max(s)])]
           chosen == CHOOSE iter : iter = Of(iter)
<1>1. Config!FoldLeft(Config!AddConfigured, base, seq) = chosen[1..n]
  BY DEF Config!FoldLeft, Config!MapThenFoldSet
<1>2. \A k \in A : \A i \in 1..n : Next(k, seq[i]) \in A
  BY DEF AddStays
<1>3. \A g, end : g[0] = base /\ g[n] = end /\ (\A i \in 1..n : g[i] = Next(g[i - 1], seq[i]))
                  => AddSteps(n, base, seq, g, end)
  BY DEF AddSteps
<1> HIDE DEF Next
<1>4. op \in [A \X (1..n) -> A] /\ \A k \in A : \A i \in 1..n : op[<<k, i>>] = Next(k, seq[i])
  BY <1>2
<1> HIDE DEF op
<1>5. PICK it \in [SUBSET (1..n) -> A] : Recursion(n, base, op, it)
  BY <1>4, FoldExists
<1>6. ASSUME NEW s \in SUBSET (1..n)
      PROVE  it[s] = IF s = {} THEN base ELSE Next(it[s \ {Config!Max(s)}], seq[Config!Max(s)])
  <2>1. CASE s = {}
    BY <1>5, <2>1 DEF Recursion
  <2>2. CASE s # {}
    <3>1. PICK m \in 1..n : m = Max(s) /\ m = Config!Max(s)
      BY <2>2, MaxIs, SameMax
    <3>2. it[s \ {m}] \in A /\ it[s] = op[<<it[s \ {m}], m>>]
      BY <1>5, <2>2, <3>1 DEF Recursion
    <3> QED
      BY <1>4, <2>2, <3>1, <3>2
  <2> QED
    BY <2>1, <2>2
<1>7. it = Of(it)
  BY <1>6
<1>8. chosen = Of(chosen)
  <2> HIDE DEF Of
  <2> QED
    BY <1>7
<1> HIDE DEF chosen
<1>9. chosen[{}] = base
  BY <1>8
<1>10. ASSUME NEW i \in 1..n, chosen[1..i - 1] \in A
       PROVE  chosen[1..i] = op[<<chosen[1..i - 1], i>>]
  <2>1. /\ 1..i \in SUBSET (1..n) /\ 1..i # {}
        /\ Config!Max(1..i) = i /\ (1..i) \ {Config!Max(1..i)} = 1..i - 1
    BY LastOfRange, SameMax
  <2>2. chosen[1..i] = Next(chosen[1..i - 1], seq[i])
    BY <1>8, <2>1
  <2> QED
    BY <1>4, <1>10, <2>2
<1>11. GoesUp(n, A, base, op, chosen)
  BY <1>9, <1>10 DEF GoesUp
<1>12. PICK g \in [0..n -> A] : Arrives(n, base, op, g, chosen[1..n])
  BY <1>4, <1>11, FoldedUpTo
<1>13. ASSUME NEW i \in 1..n PROVE g[i] = Next(g[i - 1], seq[i])
  <2>1. i - 1 \in 0..n
    OBVIOUS
  <2>2. g[i - 1] \in A /\ g[i] = op[<<g[i - 1], i>>]
    BY <1>12, <2>1 DEF Arrives, GoesOn
  <2> QED
    BY <1>4, <2>2
<1>14. g[0] = base /\ g[n] = chosen[1..n]
  BY <1>12 DEF Arrives, GoesOn
<1> QED
  BY <1>1, <1>3, <1>13, <1>14

\* The rounds of the breadth-first search.
VisitSteps(h, n, base, seq, g) ==
  /\ g[0] = base
  /\ \A i \in 1..n : g[i] = (IF g[i - 1].queue = <<>> THEN g[i - 1] ELSE Config!VisitNext(h, g[i - 1]))
VisitStays(h, A, n, seq) ==
  \A k \in A : \A i \in 1..n : (IF k.queue = <<>> THEN k ELSE Config!VisitNext(h, k)) \in A

\* A search begins at its root, and has a round for every module and link.
Begins(h, root, base) == base = [queue |-> <<root>>, visit |-> {}, mask |-> h.modules]
Rounded(h, seq) == seq = Config!SetToSeq(Config!Rounds(h))

\* The fold over them is such a function of the steps, and its mask the route mask.
LEMMA VisitFold ==
  ASSUME NEW A, NEW h, NEW root, NEW base \in A, Begins(h, root, base), NEW n \in Nat,
         NEW seq, Rounded(h, seq), DOMAIN seq = 1..n,
         VisitStays(h, A, n, seq)
  PROVE  \E g \in [0..n -> A] :
           VisitSteps(h, n, base, seq, g) /\ Config!RouteMaskOf(h, root) = g[n].mask
<1> DEFINE Next(k, c) == (IF k.queue = <<>> THEN k ELSE Config!VisitNext(h, k))
           op == [q \in A \X (1..n) |-> Next(q[1], seq[q[2]])]
           Of(iter) == [s \in SUBSET DOMAIN seq |->
                          IF s = {} THEN base
                          ELSE Next(iter[s \ {Config!Max(s)}], seq[Config!Max(s)])]
           chosen == CHOOSE iter : iter = Of(iter)
<1>1. Config!RouteMaskOf(h, root) = chosen[1..n].mask
  BY DEF Config!FoldLeft, Config!MapThenFoldSet, Config!RouteMaskOf, Begins, Rounded
<1>2. \A k \in A : \A i \in 1..n : Next(k, seq[i]) \in A
  BY DEF VisitStays
<1>3. \A g : g[0] = base /\ (\A i \in 1..n : g[i] = Next(g[i - 1], seq[i]))
                  => VisitSteps(h, n, base, seq, g)
  BY DEF VisitSteps
<1> HIDE DEF Next
<1>4. op \in [A \X (1..n) -> A] /\ \A k \in A : \A i \in 1..n : op[<<k, i>>] = Next(k, seq[i])
  BY <1>2
<1> HIDE DEF op
<1>5. PICK it \in [SUBSET (1..n) -> A] : Recursion(n, base, op, it)
  BY <1>4, FoldExists
<1>6. ASSUME NEW s \in SUBSET (1..n)
      PROVE  it[s] = IF s = {} THEN base ELSE Next(it[s \ {Config!Max(s)}], seq[Config!Max(s)])
  <2>1. CASE s = {}
    BY <1>5, <2>1 DEF Recursion
  <2>2. CASE s # {}
    <3>1. PICK m \in 1..n : m = Max(s) /\ m = Config!Max(s)
      BY <2>2, MaxIs, SameMax
    <3>2. it[s \ {m}] \in A /\ it[s] = op[<<it[s \ {m}], m>>]
      BY <1>5, <2>2, <3>1 DEF Recursion
    <3> QED
      BY <1>4, <2>2, <3>1, <3>2
  <2> QED
    BY <2>1, <2>2
<1>7. it = Of(it)
  BY <1>6
<1>8. chosen = Of(chosen)
  <2> HIDE DEF Of
  <2> QED
    BY <1>7
<1> HIDE DEF chosen
<1>9. chosen[{}] = base
  BY <1>8
<1>10. ASSUME NEW i \in 1..n, chosen[1..i - 1] \in A
       PROVE  chosen[1..i] = op[<<chosen[1..i - 1], i>>]
  <2>1. /\ 1..i \in SUBSET (1..n) /\ 1..i # {}
        /\ Config!Max(1..i) = i /\ (1..i) \ {Config!Max(1..i)} = 1..i - 1
    BY LastOfRange, SameMax
  <2>2. chosen[1..i] = Next(chosen[1..i - 1], seq[i])
    BY <1>8, <2>1
  <2> QED
    BY <1>4, <1>10, <2>2
<1>11. GoesUp(n, A, base, op, chosen)
  BY <1>9, <1>10 DEF GoesUp
<1>12. PICK g \in [0..n -> A] : Arrives(n, base, op, g, chosen[1..n])
  BY <1>4, <1>11, FoldedUpTo
<1>13. ASSUME NEW i \in 1..n PROVE g[i] = Next(g[i - 1], seq[i])
  <2>1. i - 1 \in 0..n
    OBVIOUS
  <2>2. g[i - 1] \in A /\ g[i] = op[<<g[i - 1], i>>]
    BY <1>12, <2>1 DEF Arrives, GoesOn
  <2> QED
    BY <1>4, <2>2
<1>14. g[0] = base /\ g[n] = chosen[1..n]
  BY <1>12 DEF Arrives, GoesOn
<1> QED
  BY <1>1, <1>3, <1>13, <1>14

\* The modules GetEndModule looks at, one after the other.
EndSteps(h, n, base, seq, g, end) ==
  /\ g[0] = base /\ g[n] = end
  /\ \A i \in 1..n : g[i] = (IF seq[i] \notin Config!LeavesOf(h) THEN g[i - 1]
                            ELSE IF g[i - 1] = Config!NoModule THEN seq[i] ELSE Config!NoModule)
EndStays(h, A, n, seq) ==
  \A k \in A : \A i \in 1..n : (IF seq[i] \notin Config!LeavesOf(h) THEN k
                               ELSE IF k = Config!NoModule THEN seq[i] ELSE Config!NoModule) \in A

\* The fold over them is such a function of the steps.
LEMMA EndFold ==
  ASSUME NEW A, NEW h, Config!NoModule \in A, NEW n \in Nat, NEW seq, DOMAIN seq = 1..n,
         EndStays(h, A, n, seq)
  PROVE  \E g \in [0..n -> A] : EndSteps(h, n, Config!NoModule, seq, g, Config!EndModuleAfter(h, seq))
<1> DEFINE Next(k, c) == (IF c \notin Config!LeavesOf(h) THEN k
                          ELSE IF k = Config!NoModule THEN c ELSE Config!NoModule)
           op == [q \in A \X (1..n) |-> Next(q[1], seq[q[2]])]
           Of(iter) == [s \in SUBSET DOMAIN seq |->
                          IF s = {} THEN Config!NoModule
                          ELSE Next(iter[s \ {Config!Max(s)}], seq[Config!Max(s)])]
           chosen == CHOOSE iter : iter = Of(iter)
<1>1. Config!EndModuleAfter(h, seq) = chosen[1..n]
  BY DEF Config!FoldLeft, Config!MapThenFoldSet, Config!EndModuleAfter
<1>2. \A k \in A : \A i \in 1..n : Next(k, seq[i]) \in A
  BY DEF EndStays
<1>3. \A g, end : g[0] = Config!NoModule /\ g[n] = end
                  /\ (\A i \in 1..n : g[i] = Next(g[i - 1], seq[i]))
                  => EndSteps(h, n, Config!NoModule, seq, g, end)
  BY DEF EndSteps
<1> HIDE DEF Next
<1>4. op \in [A \X (1..n) -> A] /\ \A k \in A : \A i \in 1..n : op[<<k, i>>] = Next(k, seq[i])
  BY <1>2
<1> HIDE DEF op
<1>5. PICK it \in [SUBSET (1..n) -> A] : Recursion(n, Config!NoModule, op, it)
  BY <1>4, FoldExists
<1>6. ASSUME NEW s \in SUBSET (1..n)
      PROVE  it[s] = IF s = {} THEN Config!NoModule
                     ELSE Next(it[s \ {Config!Max(s)}], seq[Config!Max(s)])
  <2>1. CASE s = {}
    BY <1>5, <2>1 DEF Recursion
  <2>2. CASE s # {}
    <3>1. PICK m \in 1..n : m = Max(s) /\ m = Config!Max(s)
      BY <2>2, MaxIs, SameMax
    <3>2. it[s \ {m}] \in A /\ it[s] = op[<<it[s \ {m}], m>>]
      BY <1>5, <2>2, <3>1 DEF Recursion
    <3> QED
      BY <1>4, <2>2, <3>1, <3>2
  <2> QED
    BY <2>1, <2>2
<1>7. it = Of(it)
  BY <1>6
<1>8. chosen = Of(chosen)
  <2> HIDE DEF Of
  <2> QED
    BY <1>7
<1> HIDE DEF chosen
<1>9. chosen[{}] = Config!NoModule
  BY <1>8
<1>10. ASSUME NEW i \in 1..n, chosen[1..i - 1] \in A
       PROVE  chosen[1..i] = op[<<chosen[1..i - 1], i>>]
  <2>1. /\ 1..i \in SUBSET (1..n) /\ 1..i # {}
        /\ Config!Max(1..i) = i /\ (1..i) \ {Config!Max(1..i)} = 1..i - 1
    BY LastOfRange, SameMax
  <2>2. chosen[1..i] = Next(chosen[1..i - 1], seq[i])
    BY <1>8, <2>1
  <2> QED
    BY <1>4, <1>10, <2>2
<1>11. GoesUp(n, A, Config!NoModule, op, chosen)
  BY <1>9, <1>10 DEF GoesUp
<1>12. PICK g \in [0..n -> A] : Arrives(n, Config!NoModule, op, g, chosen[1..n])
  BY <1>4, <1>11, FoldedUpTo
<1>13. ASSUME NEW i \in 1..n PROVE g[i] = Next(g[i - 1], seq[i])
  <2>1. i - 1 \in 0..n
    OBVIOUS
  <2>2. g[i - 1] \in A /\ g[i] = op[<<g[i - 1], i>>]
    BY <1>12, <2>1 DEF Arrives, GoesOn
  <2> QED
    BY <1>4, <2>2
<1>14. g[0] = Config!NoModule /\ g[n] = chosen[1..n]
  BY <1>12 DEF Arrives, GoesOn
<1> QED
  BY <1>1, <1>3, <1>13, <1>14

-----------------------------------------------------------------------------
(* What is read of a file: a config for every module, in any order.        *)

\* The config of an item, the items that are modules, and what is read of the first i.
ConfigAt(f, i) == Config!ModuleConfigOf(f[i].name, f[i].value.of)
IsModule(f, i) == f[i].name # Config!ProfilerItem

\* What the first i items of a file that are read make of the configs.
ReadUpTo(f, i, cs) ==
  /\ \A k \in 1..i : IsModule(f, k) =>
       /\ f[k].value.kind = "object" /\ Config!ModuleParses(f[k].value.of)
       /\ \E c \in DOMAIN cs : cs[c] = ConfigAt(f, k)
  /\ \A c \in DOMAIN cs : \E k \in 1..i : IsModule(f, k) /\ cs[c] = ConfigAt(f, k)
  /\ \A c, d \in DOMAIN cs : cs[c].name = cs[d].name => c = d
  /\ \A k, l \in 1..i : IsModule(f, k) /\ IsModule(f, l) /\ f[k].name = f[l].name => k = l

\* A config has the name of its item.
LEMMA ConfigNamed == \A f, i : ConfigAt(f, i).name = f[i].name
  BY DEF ConfigAt, Config!ModuleConfigOf

\* The members of the profiler are those that have a kind.
LEMMA AsksProfiler ==
  /\ DOMAIN Config!ProfilerDefaults = DOMAIN Config!ProfilerKinds
  BY DEF Config!ProfilerDefaults, Config!ProfilerKinds

\* What is read so far, with configs in C and members of the profiler in V.
ReadSoFar(C, V) == [outcome : {"reading", "failed", "aborted"}, configs : Seq(C),
                    profiler : [DOMAIN Config!ProfilerKinds -> V]]

\* The members of the profiler leave the configs as they are.
LEMMA MembersRead ==
  ASSUME NEW C, NEW V, NEW base, NEW seq, Config!IsSequence(seq),
         base \in ReadSoFar(C, V),
         \A i \in DOMAIN seq : seq[i].value.of \in V
  PROVE  /\ Config!FoldLeft(Config!ProfilerMember, base, seq) \in ReadSoFar(C, V)
         /\ Config!FoldLeft(Config!ProfilerMember, base, seq).configs = base.configs
<1>1. PICK n \in Nat : DOMAIN seq = 1..n
  <2>1. seq \in Seq(Config!Range(seq))
    BY DEF Config!IsSequence
  <2> QED
    BY <2>1
<1>2. PICK c \in Seq(C) : c = base.configs
  BY DEF ReadSoFar
<1> DEFINE A == [outcome : {"reading", "failed", "aborted"}, configs : {c},
                 profiler : [DOMAIN Config!ProfilerKinds -> V]]
<1>3. base \in A
  BY <1>2 DEF ReadSoFar
<1>4. MemberStays(A, n, seq)
  <2> SUFFICES ASSUME NEW k \in A, NEW i \in 1..n
               PROVE  Config!ProfilerMember(k, seq[i]) \in A
    BY DEF MemberStays
  <2>0. PICK name : name = seq[i].name
    OBVIOUS
  <2>1. PICK v \in V : v = seq[i].value.of
    BY <1>1
  <2>2. \/ Config!ProfilerMember(k, seq[i]) = k
        \/ /\ name \in DOMAIN Config!ProfilerKinds
           /\ Config!ProfilerMember(k, seq[i]) = [k EXCEPT !.profiler[name] = v]
        \/ Config!ProfilerMember(k, seq[i]) = [k EXCEPT !.outcome = "failed"]
    BY <2>0, <2>1, Zenon DEF Config!ProfilerMember
  <2>3. [k EXCEPT !.outcome = "failed"] \in A
    OBVIOUS
  <2>4. ASSUME name \in DOMAIN Config!ProfilerKinds
        PROVE  [k EXCEPT !.profiler[name] = v] \in A
    <3>1. [k.profiler EXCEPT ![name] = v] \in [DOMAIN Config!ProfilerKinds -> V]
      BY <2>4
    <3> QED
      BY <3>1
  <2> QED
    BY <2>2, <2>3, <2>4
<1>5. PICK g \in [0..n -> A] :
        MemberSteps(n, base, seq, g, Config!FoldLeft(Config!ProfilerMember, base, seq))
  <2> HIDE DEF A
  <2> QED
    BY <1>1, <1>3, <1>4, MemberFold
<1>6. Config!FoldLeft(Config!ProfilerMember, base, seq) \in A
  <2>1. n \in 0..n
    OBVIOUS
  <2> QED
    BY <1>5, <2>1 DEF MemberSteps
<1> QED
  BY <1>2, <1>6 DEF ReadSoFar

\* What one more item does to what is read, k.
Reads(f, i, k) ==
  Config!ReadItem(k, f[i]).outcome = "reading" =>
    /\ k.outcome = "reading"
    /\ ~IsModule(f, i) => Config!ReadItem(k, f[i]).configs = k.configs
    /\ IsModule(f, i) =>
         /\ ~Config!NameTaken(k, f[i].name)
         /\ f[i].value.kind = "object" /\ Config!ModuleParses(f[i].value.of)
         /\ Config!ReadItem(k, f[i]).configs = Append(k.configs, ConfigAt(f, i))

\* One more module with a name of its own, read.
LEMMA ReadNext ==
  ASSUME NEW f, NEW C, NEW i \in Nat, NEW cs \in Seq(C), ReadUpTo(f, i, cs),
         NEW j, j = i + 1, IsModule(f, j),
         f[j].value.kind = "object", Config!ModuleParses(f[j].value.of),
         \A c \in DOMAIN cs : cs[c].name # f[j].name
  PROVE  ReadUpTo(f, i + 1, Append(cs, ConfigAt(f, j)))
<1>1. PICK ds : ds = Append(cs, ConfigAt(f, j))
  OBVIOUS
<1>2. PICK m \in Nat : m = Len(cs)
  OBVIOUS
<1>3. /\ DOMAIN cs = 1..m /\ DOMAIN ds = 1..m + 1 /\ ds[m + 1] = ConfigAt(f, j)
      /\ \A c \in 1..m : ds[c] = cs[c]
  BY <1>1, <1>2
<1>4. ConfigAt(f, j).name = f[j].name
  BY ConfigNamed
<1>5. \A c \in 1..m + 1 : c \in 1..m \/ c = m + 1
  BY <1>2
<1>6. \A c \in 1..m : c \in 1..m + 1 /\ c # m + 1
  BY <1>2
<1>7. m + 1 \in 1..m + 1 /\ j \in 1..i + 1
  BY <1>2
<1>8. \A l \in 1..i + 1 : l \in 1..i \/ l = j
  OBVIOUS
<1>9. \A l \in 1..i : l \in 1..i + 1
  OBVIOUS
<1>10. ASSUME NEW l \in 1..i + 1, IsModule(f, l)
       PROVE  /\ f[l].value.kind = "object" /\ Config!ModuleParses(f[l].value.of)
              /\ \E c \in DOMAIN ds : ds[c] = ConfigAt(f, l)
  <2>1. CASE l = j
    BY <1>3, <1>7, <2>1
  <2>2. CASE l \in 1..i
    <3>1. /\ f[l].value.kind = "object" /\ Config!ModuleParses(f[l].value.of)
          /\ \E c \in DOMAIN cs : cs[c] = ConfigAt(f, l)
      BY <1>10, <2>2 DEF ReadUpTo
    <3>2. PICK c \in 1..m : cs[c] = ConfigAt(f, l)
      BY <1>3, <3>1
    <3> QED
      BY <1>3, <1>6, <3>1, <3>2
  <2> QED
    BY <1>8, <2>1, <2>2
<1>11. ASSUME NEW c \in DOMAIN ds
       PROVE  \E l \in 1..i + 1 : IsModule(f, l) /\ ds[c] = ConfigAt(f, l)
  <2>1. CASE c = m + 1
    BY <1>3, <1>7, <2>1
  <2>2. CASE c \in 1..m
    <3>1. PICK l \in 1..i : IsModule(f, l) /\ cs[c] = ConfigAt(f, l)
      BY <1>3, <2>2 DEF ReadUpTo
    <3> QED
      BY <1>3, <1>9, <2>2, <3>1
  <2> QED
    BY <1>3, <1>5, <2>1, <2>2
<1>12. ASSUME NEW c \in DOMAIN ds, NEW d \in DOMAIN ds, ds[c].name = ds[d].name
       PROVE  c = d
  <2>1. \A e \in 1..m : ds[e].name # f[j].name
    BY <1>3
  <2>2. CASE c \in 1..m /\ d \in 1..m
    BY <1>3, <1>12, <2>2 DEF ReadUpTo
  <2>3. CASE ~(c \in 1..m /\ d \in 1..m)
    BY <1>3, <1>4, <1>5, <1>12, <2>1, <2>3
  <2> QED
    BY <2>2, <2>3
<1>13. ASSUME NEW l \in 1..i, IsModule(f, l) PROVE f[l].name # f[j].name
  <2>1. PICK c \in DOMAIN cs : cs[c] = ConfigAt(f, l)
    BY <1>13 DEF ReadUpTo
  <2> QED
    BY <2>1, ConfigNamed
<1>14. ASSUME NEW l \in 1..i + 1, NEW h \in 1..i + 1, IsModule(f, l), IsModule(f, h),
              f[l].name = f[h].name
       PROVE  l = h
  BY <1>8, <1>13, <1>14 DEF ReadUpTo
<1> QED
  BY <1>1, <1>10, <1>11, <1>12, <1>14 DEF ReadUpTo

\* ConfigsFromJsonFile reads every item, and each into a config of its own.
LEMMA ItemsRead ==
  ASSUME NEW f \in Files, NEW r, r = Config!ConfigsFromJsonFile(f), r.outcome = "reading"
  PROVE  /\ ReadUpTo(f, Len(f), r.configs) /\ Len(f) \in Nat /\ DOMAIN f = 1..Len(f)
         /\ r.configs \in Seq({ConfigAt(f, i) : i \in 1..Len(f)})
<1>1. PICK n \in Nat : n = Len(f) /\ DOMAIN f = 1..n
  <2>1. f \in Seq(Config!Range(f))
    BY SuiteAssumption DEF Config!ConfigurationAssumption, Config!IsSequence
  <2> QED
    BY <2>1
<1> DEFINE C == {ConfigAt(f, i) : i \in 1..n}
           W(i) == {f[i].value.of[j].value.of : j \in DOMAIN f[i].value.of}
           V == {Config!ProfilerDefaults[k] : k \in DOMAIN Config!ProfilerKinds}
                \cup UNION {W(i) : i \in 1..n}
           A == ReadSoFar(C, V)
           base == [outcome |-> "reading", configs |-> <<>>, profiler |-> Config!ProfilerDefaults]
<1>2. base \in A
  <2>1. Config!ProfilerDefaults \in [DOMAIN Config!ProfilerKinds -> V]
    <3>1. Config!ProfilerDefaults
            = [k \in DOMAIN Config!ProfilerDefaults |-> Config!ProfilerDefaults[k]]
      BY DEF Config!ProfilerDefaults
    <3> QED
      BY <3>1, AsksProfiler
  <2> HIDE DEF V, C
  <2> QED
    BY <2>1 DEF ReadSoFar
<1>3. ASSUME NEW k \in A, NEW i \in 1..n
      PROVE  Config!ReadItem(k, f[i]) \in A /\ Reads(f, i, k)
  <2>1. CASE k.outcome # "reading"
    <3> HIDE DEF A
    <3> QED
      BY <2>1 DEF Config!ReadItem, Reads
  <2>2. CASE k.outcome = "reading" /\ (\/ f[i].value.kind = "broken"
                                       \/ f[i].name # Config!ProfilerItem /\ Config!NameTaken(k, f[i].name))
    <3>1. Config!ReadItem(k, f[i]) = [k EXCEPT !.outcome = "failed"]
      BY <2>2, Zenon DEF Config!ReadItem
    <3> HIDE DEF C, V
    <3> QED
      BY <3>1 DEF ReadSoFar, Reads
  <2>3. CASE /\ k.outcome = "reading" /\ f[i].value.kind # "broken"
             /\ ~(f[i].name # Config!ProfilerItem /\ Config!NameTaken(k, f[i].name))
             /\ f[i].value.kind # "object"
    <3>1. Config!ReadItem(k, f[i]) = [k EXCEPT !.outcome = "aborted"]
      BY <2>3, Zenon DEF Config!ReadItem
    <3> HIDE DEF C, V
    <3> QED
      BY <3>1 DEF ReadSoFar, Reads
  <2>4. CASE /\ k.outcome = "reading" /\ f[i].value.kind = "object"
             /\ f[i].name = Config!ProfilerItem
    <3>1. Config!ReadItem(k, f[i])
            = Config!FoldLeft(Config!ProfilerMember, k, f[i].value.of)
      <4>1. f[i].value.kind # "broken"
        BY <2>4
      <4> QED
        BY <2>4, <4>1, Zenon DEF Config!ReadItem
    <3>2. Config!IsSequence(f[i].value.of)
      BY <1>1, <2>4, SuiteAssumption DEF Config!ConfigurationAssumption
    <3>3. PICK seq : seq = f[i].value.of
      OBVIOUS
    <3>4. \A j \in DOMAIN seq : seq[j].value.of \in V
      <4>1. \A j \in DOMAIN seq : seq[j].value.of \in W(i)
        BY <3>3
      <4> HIDE DEF W
      <4> QED
        BY <4>1
    <3> HIDE DEF V, C
    <3>5. /\ Config!FoldLeft(Config!ProfilerMember, k, seq) \in A
          /\ Config!FoldLeft(Config!ProfilerMember, k, seq).configs = k.configs
      BY <3>2, <3>3, <3>4, MembersRead
    <3> QED
      BY <2>4, <3>1, <3>3, <3>5 DEF IsModule, Reads
  <2>5. CASE /\ k.outcome = "reading" /\ f[i].value.kind = "object"
             /\ f[i].name # Config!ProfilerItem /\ ~Config!NameTaken(k, f[i].name)
    <3>1. f[i].value.kind # "broken"
      BY <2>5
    <3>2. CASE Config!ModuleParses(f[i].value.of)
      <4>1. Config!ReadItem(k, f[i]) = [k EXCEPT !.configs = Append(@, ConfigAt(f, i))]
        BY <2>5, <3>1, <3>2, Zenon DEF Config!ReadItem, ConfigAt
      <4>2. ConfigAt(f, i) \in C
        OBVIOUS
      <4> HIDE DEF C, V
      <4>3. [k EXCEPT !.configs = Append(@, ConfigAt(f, i))] \in A
        <5>1. Append(k.configs, ConfigAt(f, i)) \in Seq(C)
          BY <4>2 DEF ReadSoFar
        <5> QED
          BY <5>1 DEF ReadSoFar
      <4>4. [k EXCEPT !.configs = Append(@, ConfigAt(f, i))].configs = Append(k.configs, ConfigAt(f, i))
        BY DEF ReadSoFar
      <4> QED
        BY <2>5, <3>2, <4>1, <4>3, <4>4 DEF IsModule, Reads
    <3>3. CASE ~Config!ModuleParses(f[i].value.of)
      <4>1. Config!ReadItem(k, f[i]) = [k EXCEPT !.outcome = "failed"]
        BY <2>5, <3>1, <3>3, Zenon DEF Config!ReadItem
      <4> HIDE DEF C, V
      <4> QED
        BY <4>1 DEF ReadSoFar, Reads
    <3> QED
      BY <3>2, <3>3
  <2> QED
    BY <2>1, <2>2, <2>3, <2>4, <2>5
<1>4. r = Config!FoldLeft(Config!ReadItem, base, f)
  BY DEF Config!ConfigsFromJsonFile
<1> HIDE DEF base, A, C, V
<1>5. ItemStays(A, n, f)
  BY <1>3 DEF ItemStays
<1>6. PICK g \in [0..n -> A] : ItemSteps(n, base, f, g, r)
  BY <1>1, <1>2, <1>4, <1>5, ItemFold
<1> DEFINE S == {i \in 0..n : g[i].outcome = "reading" => ReadUpTo(f, i, g[i].configs)}
<1>7. 0 \in S
  BY <1>6 DEF ItemSteps, base, ReadUpTo
<1>8. ASSUME NEW i \in 0..n - 1, i \in S PROVE i + 1 \in S
  <2> SUFFICES ASSUME g[i + 1].outcome = "reading" PROVE ReadUpTo(f, i + 1, g[i + 1].configs)
    OBVIOUS
  <2>1. PICK j \in 1..n : j = i + 1 /\ j - 1 = i
    OBVIOUS
  <2>2. PICK k \in A : k = g[i] /\ g[j] = Config!ReadItem(k, f[j])
    <3>1. i \in 0..n
      OBVIOUS
    <3>2. g[j] = Config!ReadItem(g[j - 1], f[j])
      BY <1>6, <2>1 DEF ItemSteps
    <3> QED
      BY <2>1, <3>1, <3>2
  <2>3. PICK cs \in Seq(C) : cs = k.configs /\ ReadUpTo(f, i, cs)
    <3>1. k.outcome = "reading"
      <4>1. Reads(f, j, k) /\ Config!ReadItem(k, f[j]) = g[i + 1]
        BY <1>3, <2>1, <2>2
      <4> QED
        BY <4>1 DEF Reads
    <3>2. k.configs \in Seq(C)
      BY DEF A, ReadSoFar
    <3> QED
      BY <1>8, <2>2, <3>1, <3>2
  <2>4. Reads(f, j, k) /\ Config!ReadItem(k, f[j]) = g[i + 1]
    BY <1>3, <2>1, <2>2
  <2>6. CASE ~IsModule(f, j)
    <3>1. g[i + 1].configs = cs
      BY <2>3, <2>4, <2>6 DEF Reads
    <3>2. ReadUpTo(f, i + 1, cs)
      <4>1. \A l \in 1..i + 1 : l \in 1..i \/ l = j
        BY <2>1
      <4>2. \A l \in 1..i : l \in 1..i + 1
        OBVIOUS
      <4> QED
        BY <2>3, <2>6, <4>1, <4>2, Zenon DEF ReadUpTo
    <3> QED
      BY <3>1, <3>2
  <2>7. CASE IsModule(f, j)
    <3>1. /\ ~Config!NameTaken(k, f[j].name)
          /\ f[j].value.kind = "object" /\ Config!ModuleParses(f[j].value.of)
          /\ g[i + 1].configs = Append(cs, ConfigAt(f, j))
      BY <2>3, <2>4, <2>7 DEF Reads
    <3>2. \A c \in DOMAIN cs : cs[c].name # f[j].name
      BY <2>3, <3>1 DEF Config!NameTaken
    <3>3. i \in Nat /\ cs \in Seq(C) /\ ReadUpTo(f, i, cs) /\ j = i + 1
      BY <2>1, <2>3
    <3>4. ReadUpTo(f, i + 1, Append(cs, ConfigAt(f, j)))
      BY <2>7, <3>1, <3>2, <3>3, ReadNext
    <3> QED
      BY <3>1, <3>4
  <2> QED
    BY <2>6, <2>7
<1>9. \A i \in 0..n : i \in S
  <2> HIDE DEF S
  <2> QED
    BY <1>7, <1>8, UpTo
<1>10. g[n] = r /\ n \in 0..n
  BY <1>6 DEF ItemSteps
<1> QED
  BY <1>1, <1>9, <1>10 DEF A

-----------------------------------------------------------------------------
(* What is built of the configs.                                           *)

\* The graphs without links whose modules are named in N.
GraphsOn(S) == [modules : {S}, parallelism : [S -> Nat], conveyors : [S -> Nat], links : {{}}]
GraphsOf(N) == UNION {GraphsOn(S) : S \in SUBSET N}

\* The conveyors of a config.
ConveyorsOf(c) == IF c.parallelism = 0 THEN 0 ELSE IF c.capacity > 0 THEN c.parallelism ELSE 1

\* A module added has the threads and conveyors of its config, and the others keep theirs.
LEMMA AddedIs ==
  ASSUME NEW N, NEW k \in GraphsOf(N), NEW c, c.name \in N,
         c.parallelism \in Nat, c.capacity \in Nat,
         NEW h, h = Config!AddConfigured(k, c)
  PROVE  /\ h \in GraphsOf(N)
         /\ h.modules = k.modules \cup {c.name}
         /\ \A n \in k.modules \ {c.name} :
              h.parallelism[n] = k.parallelism[n] /\ h.conveyors[n] = k.conveyors[n]
         /\ c.name \notin k.modules =>
              h.parallelism[c.name] = c.parallelism /\ h.conveyors[c.name] = ConveyorsOf(c)
<1>1. PICK S \in SUBSET N : k \in GraphsOn(S)
  BY DEF GraphsOf
<1>2. /\ k.modules = S /\ k.parallelism \in [S -> Nat] /\ k.conveyors \in [S -> Nat]
      /\ k.links = {}
  BY <1>1 DEF GraphsOn
<1>3. PICK T \in SUBSET N, name \in N, p \in Nat, cap \in Nat :
        /\ name = c.name /\ T = S \cup {name} /\ p = c.parallelism /\ cap = c.capacity
  OBVIOUS
<1>4. PICK g : g = Config!AddModule(k, name)
  OBVIOUS
<1>5. /\ g \in GraphsOn(T)
      /\ \A n \in S \ {name} : g.parallelism[n] = k.parallelism[n] /\ g.conveyors[n] = k.conveyors[n]
      /\ name \notin S => g.conveyors[name] = 1
  <2>1. CASE name \in S
    <3>1. g = k /\ T = S
      BY <1>2, <1>3, <1>4, <2>1 DEF Config!AddModule
    <3> QED
      BY <1>1, <2>1, <3>1
  <2>2. CASE name \notin S
    <3>1. g = [modules |-> T,
               parallelism |-> [n \in T |-> IF n = name THEN 1 ELSE k.parallelism[n]],
               conveyors |-> [n \in T |-> IF n = name THEN 1 ELSE k.conveyors[n]],
               links |-> {}]
      BY <1>2, <1>3, <1>4, <2>2 DEF Config!AddModule
    <3>2. /\ [n \in T |-> IF n = name THEN 1 ELSE k.parallelism[n]] \in [T -> Nat]
          /\ [n \in T |-> IF n = name THEN 1 ELSE k.conveyors[n]] \in [T -> Nat]
      BY <1>2, <1>3
    <3>3. g \in GraphsOn(T)
      BY <3>1, <3>2 DEF GraphsOn
    <3> QED
      BY <1>3, <3>1, <3>3
  <2> QED
    BY <2>1, <2>2
<1>6. PICK conv \in Nat : /\ conv = CASE p = 0 -> 0 [] p > 0 /\ cap > 0 -> p [] OTHER -> g.conveyors[name]
                          /\ name \notin S => conv = ConveyorsOf(c)
  <2>1. name \in T /\ g.conveyors[name] \in Nat
    BY <1>3, <1>5 DEF GraphsOn
  <2> QED
    BY <1>3, <1>5, <2>1 DEF ConveyorsOf
<1>7. h = [g EXCEPT !.parallelism = [@ EXCEPT ![name] = p], !.conveyors = [@ EXCEPT ![name] = conv]]
  <2>1. g.modules = T /\ name \in T
    BY <1>3, <1>5 DEF GraphsOn
  <2>2. h = Config!SetModuleAttribute(g, name, p, cap)
    BY <1>3, <1>4 DEF Config!AddConfigured
  <2> QED
    BY <1>6, <2>1, <2>2 DEF Config!SetModuleAttribute
<1>8. /\ g.modules = T /\ g.parallelism \in [T -> Nat] /\ g.conveyors \in [T -> Nat] /\ g.links = {}
  BY <1>5 DEF GraphsOn
<1>9. PICK pf \in [T -> Nat], cf \in [T -> Nat] :
        /\ pf = [g.parallelism EXCEPT ![name] = p] /\ cf = [g.conveyors EXCEPT ![name] = conv]
  BY <1>8
<1>10. h \in GraphsOn(T) /\ h.modules = T /\ h.parallelism = pf /\ h.conveyors = cf
  BY <1>5, <1>7, <1>9 DEF GraphsOn
<1>11. name \in T /\ pf[name] = p /\ cf[name] = conv
  BY <1>3, <1>8, <1>9
<1>12. \A n \in S \ {name} : n \in T /\ pf[n] = g.parallelism[n] /\ cf[n] = g.conveyors[n]
  BY <1>3, <1>8, <1>9
<1> QED
  BY <1>2, <1>3, <1>5, <1>6, <1>10, <1>11, <1>12 DEF GraphsOf

\* The configs of modules with names of their own, and numbers.
Distinct(cs, m) ==
  /\ DOMAIN cs = 1..m
  /\ \A i \in 1..m : cs[i].parallelism \in Nat /\ cs[i].capacity \in Nat
  /\ \A i, j \in 1..m : cs[i].name = cs[j].name => i = j

\* The first i configs are added.
AddedUpTo(cs, i, g) ==
  /\ g.modules = {cs[k].name : k \in 1..i} /\ g.links = {}
  /\ \A k \in 1..i : /\ g.parallelism[cs[k].name] = cs[k].parallelism
                     /\ g.conveyors[cs[k].name] = ConveyorsOf(cs[k])

\* All of them are added, and not linked.
LEMMA AllAdded ==
  ASSUME NEW m \in Nat, NEW cs, Distinct(cs, m)
  PROVE  /\ AddedUpTo(cs, m, Config!AddAll(cs))
         /\ Config!AddAll(cs) \in GraphsOn({cs[k].name : k \in 1..m})
<1>1. PICK N : N = {cs[k].name : k \in 1..m}
  OBVIOUS
<1>2. PICK base : base = Config!EmptyGraph
  OBVIOUS
<1>3. base \in GraphsOf(N)
  <2>1. base \in GraphsOn({})
    <3>1. <<>> \in [{} -> Nat]
      OBVIOUS
    <3> QED
      BY <1>2, <3>1 DEF GraphsOn, Config!EmptyGraph
  <2> QED
    BY <2>1 DEF GraphsOf
<1>4. ASSUME NEW k \in GraphsOf(N), NEW i \in 1..m
      PROVE  /\ Config!AddConfigured(k, cs[i]) \in GraphsOf(N)
             /\ Config!AddConfigured(k, cs[i]).modules = k.modules \cup {cs[i].name}
  <2>1. cs[i].name \in N /\ cs[i].parallelism \in Nat /\ cs[i].capacity \in Nat
    BY <1>1 DEF Distinct
  <2> QED
    BY <2>1, AddedIs
<1>5. AddStays(GraphsOf(N), m, cs)
  BY <1>4 DEF AddStays
<1>6. PICK g \in [0..m -> GraphsOf(N)] :
        AddSteps(m, base, cs, g, Config!FoldLeft(Config!AddConfigured, base, cs))
  <2>1. DOMAIN cs = 1..m
    BY DEF Distinct
  <2> QED
    BY <1>3, <1>5, <2>1, AddFold
<1>7. g[m] = Config!AddAll(cs)
  BY <1>2, <1>6 DEF AddSteps, Config!AddAll
<1> DEFINE S == {i \in 0..m : AddedUpTo(cs, i, g[i])}
<1>8. 0 \in S
  BY <1>2, <1>6 DEF AddSteps, AddedUpTo, Config!EmptyGraph
<1>9. ASSUME NEW i \in 0..m - 1, i \in S PROVE i + 1 \in S
  <2>1. PICK j \in 1..m : j = i + 1 /\ j - 1 = i /\ i \in 0..m /\ j \in 0..m
    OBVIOUS
  <2>2. PICK k \in GraphsOf(N) : k = g[i] /\ AddedUpTo(cs, i, k)
    BY <1>9, <2>1
  <2>3. PICK h : h = g[j] /\ h = Config!AddConfigured(k, cs[j])
    BY <1>6, <2>1, <2>2 DEF AddSteps
  <2>4. PICK c : c = cs[j] /\ c.name \in N /\ c.parallelism \in Nat /\ c.capacity \in Nat
    BY <1>1 DEF Distinct
  <2>5. /\ h \in GraphsOf(N)
        /\ h.modules = k.modules \cup {c.name}
        /\ \A n \in k.modules \ {c.name} :
             h.parallelism[n] = k.parallelism[n] /\ h.conveyors[n] = k.conveyors[n]
        /\ c.name \notin k.modules =>
             h.parallelism[c.name] = c.parallelism /\ h.conveyors[c.name] = ConveyorsOf(c)
    BY <2>2, <2>3, <2>4, AddedIs
  <2>6. \A l \in 1..i : l \in 1..m /\ cs[l].name # c.name
    BY <2>1, <2>4 DEF Distinct
  <2>7. \A l \in 1..i + 1 : l \in 1..i \/ l = j
    BY <2>1
  <2>8. h.modules = {cs[l].name : l \in 1..i + 1}
    <3>1. k.modules = {cs[l].name : l \in 1..i}
      BY <2>2 DEF AddedUpTo
    <3>2. \A l \in 1..i : l \in 1..i + 1
      OBVIOUS
    <3>3. j \in 1..i + 1
      BY <2>1
    <3> QED
      BY <2>4, <2>5, <2>7, <3>1, <3>2, <3>3
  <2>9. c.name \notin k.modules
    BY <2>2, <2>6 DEF AddedUpTo
  <2>10. ASSUME NEW l \in 1..i + 1
         PROVE  /\ h.parallelism[cs[l].name] = cs[l].parallelism
                /\ h.conveyors[cs[l].name] = ConveyorsOf(cs[l])
    <3>1. CASE l = j
      BY <2>4, <2>5, <2>9, <3>1
    <3>2. CASE l \in 1..i
      <4>1. cs[l].name \in k.modules \ {c.name}
        BY <2>2, <2>6, <3>2 DEF AddedUpTo
      <4>2. /\ k.parallelism[cs[l].name] = cs[l].parallelism
            /\ k.conveyors[cs[l].name] = ConveyorsOf(cs[l])
        BY <2>2, <3>2 DEF AddedUpTo
      <4> QED
        BY <2>5, <4>1, <4>2
    <3> QED
      BY <2>7, <3>1, <3>2
  <2>11. h.links = {}
    BY <2>5 DEF GraphsOf, GraphsOn
  <2> QED
    BY <2>1, <2>3, <2>8, <2>10, <2>11 DEF AddedUpTo
<1>10. \A i \in 0..m : i \in S
  <2> HIDE DEF S
  <2> QED
    BY <1>8, <1>9, UpTo
<1>11. AddedUpTo(cs, m, g[m]) /\ g[m] \in GraphsOf(N)
  <2>1. m \in 0..m
    OBVIOUS
  <2> QED
    BY <1>10, <2>1
<1>12. g[m] \in GraphsOn(N)
  <2>1. PICK T \in SUBSET N : g[m] \in GraphsOn(T)
    BY <1>11 DEF GraphsOf
  <2>2. T = N
    BY <1>1, <1>11, <2>1 DEF AddedUpTo, GraphsOn
  <2> QED
    BY <2>1, <2>2
<1> QED
  BY <1>1, <1>7, <1>11, <1>12

-----------------------------------------------------------------------------
\* The links of configs with names of their own.
LEMMA LinksAre ==
  ASSUME NEW m \in Nat, NEW cs, Distinct(cs, m)
  PROVE  Config!Connections(cs)
           = UNION {{<<cs[i].name, cs[i].next[j]>> : j \in DOMAIN cs[i].next} : i \in 1..m}
<1>1. ASSUME NEW i \in 1..m PROVE Config!ConfigOf(cs, cs[i].name) = cs[i]
  <2>1. DOMAIN cs = 1..m /\ \A j \in 1..m : cs[j].name = cs[i].name => j = i
    BY DEF Distinct
  <2>2. \A k \in DOMAIN cs :
          (cs[k].name = cs[i].name /\ \A j \in DOMAIN cs : cs[j].name = cs[i].name => j <= k) <=> k = i
    BY <2>1
  <2>3. (CHOOSE k \in DOMAIN cs :
           cs[k].name = cs[i].name /\ \A j \in DOMAIN cs : cs[j].name = cs[i].name => j <= k) = i
    BY <2>1, <2>2
  <2> QED
    BY <2>3 DEF Config!ConfigOf
<1> DEFINE L(i) == {<<cs[i].name, cs[i].next[j]>> : j \in DOMAIN cs[i].next}
           K(n) == {<<n, Config!ConfigOf(cs, n).next[j]>> : j \in DOMAIN Config!ConfigOf(cs, n).next}
<1>2. \A i \in 1..m : K(cs[i].name) = L(i)
  BY <1>1
<1>3. Config!Connections(cs) = UNION {K(n) : n \in {cs[i].name : i \in 1..m}}
  BY DEF Config!Connections, Distinct
<1> HIDE DEF K, L
<1>4. {K(n) : n \in {cs[i].name : i \in 1..m}} = {L(i) : i \in 1..m}
  BY <1>2
<1> QED
  BY <1>3, <1>4 DEF L

-----------------------------------------------------------------------------
\* An unsigned number survives its way through int.
LEMMA WrapsBack ==
  ASSUME NEW w \in Nat, w > 20, NEW n \in 0..w - 1
  PROVE  n % w = n /\ (n - w) % w = n
  OBVIOUS

\* So does the size of a queue, and of a positive int the size is positive.
LEMMA SignedWraps ==
  ASSUME NEW n \in 0..Wrap - 1
  PROVE  Config!SignedInt(n) % Wrap = n /\ (Config!SignedInt(n) >= 1 => n >= 1)
<1>1. PICK w \in Nat : w = Wrap /\ w > 20
  BY SuiteAssumption DEF Config!ConfigurationAssumption
<1>2. n % w = n /\ (n - w) % w = n
  BY <1>1, WrapsBack
<1>3. PICK big \in BOOLEAN : big <=> n >= w \div 2
  OBVIOUS
<1>4. Config!SignedInt(n) = IF big THEN n - w ELSE n
  BY <1>1, <1>2, <1>3 DEF Config!SignedInt
<1> QED
  BY <1>1, <1>2, <1>4

\* A module of the file, as a config for BuildPipeline.
CreatedAt(f, k) == Config!Created(ConfigAt(f, k))

\* The config has what the item says of the module.
LEMMA CreatedIs ==
  ASSUME NEW f \in Files, NEW k \in DOMAIN f, IsModule(f, k), f[k].value.kind = "object",
         NEW m, m = f[k].value.of, Config!ModuleParses(m), NEW c, c = CreatedAt(f, k)
  PROVE  /\ c.name = f[k].name /\ c.source = (m.class_name.of \in Config!NeedsNoInput)
         /\ c.parallelism \in Nat /\ c.capacity \in Nat
         /\ m.parallelism = [kind |-> "uint", of |-> 0] => c.parallelism = 0
         /\ m.class_name.of \notin Config!NeedsNoInput => c.parallelism >= 1
         /\ m.max_input_queue_size # [kind |-> "uint", of |-> 0] => c.capacity > 0
         /\ \A j \in DOMAIN c.next : j \in DOMAIN m.next_modules.of
                                     /\ c.next[j] = m.next_modules.of[j].of
<1>1. /\ Config!IsUint(m.parallelism) /\ Config!IsUint(m.max_input_queue_size)
      /\ Wrap \in Nat /\ Wrap > 20
  BY SuiteAssumption DEF Config!ConfigurationAssumption, IsModule
<1>2. PICK p : p = m.parallelism
  OBVIOUS
<1>3. PICK q : q = m.max_input_queue_size
  OBVIOUS
<1>4. /\ p.kind \in {"absent", "uint"} /\ q.kind \in {"absent", "uint"}
      /\ p.kind = "uint" => Config!ThreadsSuit(m.class_name.of, Config!SignedInt(p.of))
      /\ m.next_modules.kind \in {"absent", "array"}
  BY <1>2, <1>3 DEF Config!ModuleParses
<1>5. /\ c.name = f[k].name /\ c.source = (m.class_name.of \in Config!NeedsNoInput)
      /\ c.parallelism = Config!IntOr(p, 1) % Wrap /\ c.capacity = Config!IntOr(q, 20) % Wrap
      /\ c.next = IF m.next_modules.kind = "absent" THEN <<>>
                  ELSE [i \in DOMAIN m.next_modules.of |-> m.next_modules.of[i].of]
  BY <1>2, <1>3 DEF CreatedAt, Config!Created, ConfigAt, Config!ModuleConfigOf
<1>6. c.parallelism = IF p.kind = "uint" THEN p.of ELSE 1
  <2>1. CASE p.kind = "uint"
    <3>1. p.of \in 0..Wrap - 1
      BY <1>1, <1>2, <2>1 DEF Config!IsUint
    <3>2. Config!IntOr(p, 1) = Config!SignedInt(p.of)
      BY <2>1 DEF Config!IntOr
    <3> QED
      BY <1>5, <2>1, <3>1, <3>2, SignedWraps
  <2>2. CASE p.kind = "absent"
    <3>1. Config!IntOr(p, 1) = 1
      BY <2>2 DEF Config!IntOr
    <3>2. 1 % Wrap = 1
      <4>1. 1 \in 0..Wrap - 1
        BY <1>1
      <4> QED
        BY <1>1, <4>1, WrapsBack
    <3> QED
      BY <1>5, <2>2, <3>1, <3>2
  <2> QED
    BY <1>4, <2>1, <2>2
<1>7. c.capacity = IF q.kind = "uint" THEN q.of ELSE 20
  <2>1. CASE q.kind = "uint"
    <3>1. q.of \in 0..Wrap - 1
      BY <1>1, <1>3, <2>1 DEF Config!IsUint
    <3>2. Config!IntOr(q, 20) = Config!SignedInt(q.of)
      BY <2>1 DEF Config!IntOr
    <3> QED
      BY <1>5, <2>1, <3>1, <3>2, SignedWraps
  <2>2. CASE q.kind = "absent"
    <3>1. Config!IntOr(q, 20) = 20
      BY <2>2 DEF Config!IntOr
    <3>2. 20 % Wrap = 20
      <4>1. 20 \in 0..Wrap - 1
        BY <1>1
      <4> QED
        BY <1>1, <4>1, WrapsBack
    <3> QED
      BY <1>5, <2>2, <3>1, <3>2
  <2> QED
    BY <1>4, <2>1, <2>2
<1>8. /\ p.kind = "uint" => p \in [kind : {"uint"}, of : 0..Wrap - 1]
      /\ q.kind = "uint" => q \in [kind : {"uint"}, of : 0..Wrap - 1]
  BY <1>1, <1>2, <1>3 DEF Config!IsUint
<1>9. c.parallelism \in Nat /\ c.capacity \in Nat
  BY <1>6, <1>7, <1>8
<1>10. m.parallelism = [kind |-> "uint", of |-> 0] => c.parallelism = 0
  BY <1>2, <1>6
<1>11. m.class_name.of \notin Config!NeedsNoInput => c.parallelism >= 1
  <2>1. CASE p.kind = "uint"
    BY <1>4, <1>6, <1>8, <2>1, SignedWraps DEF Config!ThreadsSuit
  <2>2. CASE p.kind = "absent"
    BY <1>6, <2>2
  <2> QED
    BY <1>4, <2>1, <2>2
<1>12. m.max_input_queue_size # [kind |-> "uint", of |-> 0] => c.capacity > 0
  <2> SUFFICES ASSUME c.capacity = 0 PROVE q = [kind |-> "uint", of |-> 0]
    BY <1>3, <1>9
  <2>1. q.kind = "uint" /\ q.of = 0
    BY <1>7
  <2> QED
    BY <1>8, <2>1
<1>13. \A j \in DOMAIN c.next : j \in DOMAIN m.next_modules.of
                                /\ c.next[j] = m.next_modules.of[j].of
  <2>1. CASE m.next_modules.kind = "absent"
    <3>1. c.next = <<>>
      BY <1>5, <2>1, Zenon
    <3>2. DOMAIN c.next = {}
      BY <3>1
    <3> QED
      BY <3>2
  <2>2. CASE m.next_modules.kind # "absent"
    <3>1. c.next = [i \in DOMAIN m.next_modules.of |-> m.next_modules.of[i].of]
      BY <1>5, <2>2, Zenon
    <3> QED
      BY <3>1, Zenon
  <2> QED
    BY <2>1, <2>2
<1> QED
  BY <1>5, <1>9, <1>10, <1>11, <1>12, <1>13

-----------------------------------------------------------------------------
\* Nothing is built in the beginning.
LEMMA FileInvInit == Config!BuildInit => FileInv
  BY DEF Config!BuildInit, FileInv

\* BuildPipelineByJSONFile builds from what it has read, or nothing.
LEMMA FileInvNext ==
  ASSUME FileInv, [Config!BuildPipelineByJSONFile]_buildVars
  PROVE  FileInv'
<1>1. CASE UNCHANGED buildVars
  <2>1. file' = file /\ built' = built /\ read' = read /\ graph' = graph /\ factory' = factory
    BY <1>1 DEF buildVars
  <2>2. Config!ConfigsBuilt(read.configs)' = Config!ConfigsBuilt(read.configs)
    BY <2>1 DEF Config!ConfigsBuilt, Config!Created
  <2> QED
    BY <2>1, <2>2 DEF FileInv
<1>2. CASE Config!BuildPipelineByJSONFile
  <2>1. /\ file' = file /\ factory' = factory
        /\ read' = Config!ConfigsFromJsonFile(file)
        /\ built' =>
             /\ read'.outcome = "reading"
             /\ Config!BuildSucceeds(Config!ConfigsBuilt(read'.configs))
             /\ graph' = Config!BuildPipeline(Config!ConfigsBuilt(read'.configs))
    BY <1>2, Zenon DEF Config!BuildPipelineByJSONFile
  <2>2. Config!ConfigsBuilt(read.configs)' = Config!ConfigsBuilt(read'.configs)
    BY <2>1 DEF Config!ConfigsBuilt, Config!Created
  <2>3. file \in Files
    BY DEF FileInv
  <2> QED
    BY <2>1, <2>2, <2>3 DEF FileInv
<1> QED
  BY <1>1, <1>2

\* The configs of a pipeline that was built, and the modules of its file.
From(f, cs, m) ==
  /\ Distinct(cs, m)
  /\ \A c \in 1..m : \E k \in DOMAIN f : IsModule(f, k) /\ cs[c] = CreatedAt(f, k)
  /\ \A k \in DOMAIN f : IsModule(f, k) =>
       /\ f[k].value.kind = "object" /\ Config!ModuleParses(f[k].value.of)
       /\ \E c \in 1..m : cs[c] = CreatedAt(f, k)
  /\ \A k, l \in DOMAIN f : IsModule(f, k) /\ IsModule(f, l) /\ f[k].name = f[l].name => k = l

\* A pipeline that was built was built from all of the modules of its file.
LEMMA BuiltFrom ==
  ASSUME FileInv, built
  PROVE  \E m \in Nat : From(file, Config!ConfigsBuilt(read.configs), m)
<1>1. /\ ReadUpTo(file, Len(file), read.configs) /\ Len(file) \in Nat /\ DOMAIN file = 1..Len(file)
      /\ read.configs \in Seq({ConfigAt(file, i) : i \in 1..Len(file)})
  BY ItemsRead DEF FileInv
<1>2. PICK m \in Nat : DOMAIN read.configs = 1..m
  BY <1>1
<1>3. PICK cs : cs = Config!ConfigsBuilt(read.configs)
  OBVIOUS
<1>4. DOMAIN cs = 1..m /\ \A c \in 1..m : cs[c] = Config!Created(read.configs[c])
  BY <1>2, <1>3 DEF Config!ConfigsBuilt
<1>5. ASSUME NEW k \in DOMAIN file, IsModule(file, k)
      PROVE  /\ file[k].value.kind = "object" /\ Config!ModuleParses(file[k].value.of)
             /\ \E c \in 1..m : cs[c] = CreatedAt(file, k)
  <2>1. /\ file[k].value.kind = "object" /\ Config!ModuleParses(file[k].value.of)
        /\ \E c \in DOMAIN read.configs : read.configs[c] = ConfigAt(file, k)
    BY <1>1, <1>5, Zenon DEF ReadUpTo
  <2>2. PICK c \in 1..m : read.configs[c] = ConfigAt(file, k)
    BY <1>2, <2>1, Zenon
  <2>3. cs[c] = CreatedAt(file, k)
    BY <1>4, <2>2, Zenon DEF CreatedAt
  <2> QED
    BY <2>1, <2>3
<1>6. ASSUME NEW c \in 1..m
      PROVE  \E k \in DOMAIN file : IsModule(file, k) /\ cs[c] = CreatedAt(file, k)
  <2>1. PICK k \in 1..Len(file) : IsModule(file, k) /\ read.configs[c] = ConfigAt(file, k)
    BY <1>1, <1>2 DEF ReadUpTo
  <2>2. cs[c] = CreatedAt(file, k)
    BY <1>4, <2>1 DEF CreatedAt
  <2> QED
    BY <1>1, <2>1, <2>2
<1>7. ASSUME NEW c \in 1..m
      PROVE  /\ cs[c].parallelism \in Nat /\ cs[c].capacity \in Nat
             /\ cs[c].name = read.configs[c].name
  <2>1. PICK k \in DOMAIN file : IsModule(file, k) /\ cs[c] = CreatedAt(file, k)
    BY <1>6
  <2>2. file \in Files /\ file[k].value.kind = "object" /\ Config!ModuleParses(file[k].value.of)
    BY <1>5, <2>1 DEF FileInv
  <2>3. cs[c].parallelism \in Nat /\ cs[c].capacity \in Nat
    BY <2>1, <2>2, CreatedIs
  <2>4. cs[c].name = read.configs[c].name
    BY <1>4 DEF Config!Created
  <2> QED
    BY <2>3, <2>4
<1>8. Distinct(cs, m)
  <2>1. \A c, d \in 1..m : cs[c].name = cs[d].name => c = d
    BY <1>1, <1>2, <1>7 DEF ReadUpTo
  <2> QED
    BY <1>4, <1>7, <2>1 DEF Distinct
<1>9. \A k, l \in DOMAIN file :
        IsModule(file, k) /\ IsModule(file, l) /\ file[k].name = file[l].name => k = l
  BY <1>1 DEF ReadUpTo
<1>10. From(file, cs, m)
  BY <1>5, <1>6, <1>8, <1>9 DEF From
<1> QED
  BY <1>3, <1>10

\* What BuildPipeline leaves when it succeeds.
Linked(cs, m, g) ==
  /\ g.modules = {cs[i].name : i \in 1..m}
  /\ g.links = UNION {{<<cs[i].name, cs[i].next[j]>> : j \in DOMAIN cs[i].next} : i \in 1..m}
  /\ \A i \in 1..m : /\ g.parallelism[cs[i].name] = cs[i].parallelism
                     /\ g.conveyors[cs[i].name] = ConveyorsOf(cs[i])
                     /\ cs[i].source \/ \E l \in g.links : l[2] = cs[i].name
  /\ \A l \in g.links : l[1] \in g.modules /\ l[2] \in g.modules /\ g.conveyors[l[2]] > 0

\* It has the modules, the links and the threads of its configs.
LEMMA PipelineIs ==
  ASSUME NEW m \in Nat, NEW cs, Distinct(cs, m), Config!BuildSucceeds(cs),
         NEW g, g = Config!BuildPipeline(cs)
  PROVE  Linked(cs, m, g)
<1>1. PICK h : h = Config!AddAll(cs) /\ AddedUpTo(cs, m, h) /\ h \in GraphsOn({cs[k].name : k \in 1..m})
  BY AllAdded
<1>2. /\ h.modules = {cs[i].name : i \in 1..m} /\ h.links = {}
      /\ \A i \in 1..m : /\ h.parallelism[cs[i].name] = cs[i].parallelism
                         /\ h.conveyors[cs[i].name] = ConveyorsOf(cs[i])
  BY <1>1 DEF AddedUpTo
<1>3. PICK L : L = Config!Connections(cs)
  OBVIOUS
<1>4. g = [h EXCEPT !.links = L]
  BY <1>1, <1>2, <1>3 DEF Config!BuildPipeline, Config!LinkAll
<1>5. /\ g.modules = h.modules /\ g.parallelism = h.parallelism /\ g.conveyors = h.conveyors
      /\ g.links = L
  BY <1>1, <1>4 DEF GraphsOn
<1>6. /\ \A l \in L : Config!CanLink(h, l[1], l[2])
      /\ \A i \in 1..m : cs[i].source \/ \E l \in L : l[2] = cs[i].name
  BY <1>1, <1>3 DEF Config!BuildSucceeds, Config!LinksSucceed, Config!InnerModulesLinked, Distinct
<1>7. \A l \in L : l[1] \in h.modules /\ l[2] \in h.modules /\ h.conveyors[l[2]] > 0
  BY <1>6 DEF Config!CanLink
<1>8. L = UNION {{<<cs[i].name, cs[i].next[j]>> : j \in DOMAIN cs[i].next} : i \in 1..m}
  BY <1>3, LinksAre
<1> QED
  BY <1>2, <1>5, <1>6, <1>7, <1>8 DEF Linked

\* There are as many modules as items.
NamedIn(f, S) == \A x \in S : \E k \in DOMAIN f : IsModule(f, k) /\ x = f[k].name

\* No module is lost: their names are different.
LEMMA AsManyModules ==
  ASSUME NEW f, NEW n \in Nat, DOMAIN f = 1..n, NEW cs, NEW m \in Nat, NEW g,
         From(f, cs, m), Linked(cs, m, g), f \in Files
  PROVE  /\ IsFiniteSet(g.modules)
         /\ Cardinality(g.modules) = Cardinality({i \in DOMAIN f : IsModule(f, i)})
         /\ NamedIn(f, g.modules)
<1> DEFINE Items == {i \in DOMAIN f : IsModule(f, i)}
           name == [i \in Items |-> f[i].name]
<1>1. ASSUME NEW k \in Items PROVE CreatedAt(f, k).name = f[k].name
  <2>1. f[k].value.kind = "object" /\ Config!ModuleParses(f[k].value.of)
    BY DEF From
  <2> QED
    BY <2>1, CreatedIs
<1>2. ASSUME NEW x \in g.modules PROVE \E k \in Items : x = f[k].name
  <2>1. PICK c \in 1..m : x = cs[c].name
    BY DEF Linked
  <2>2. PICK k \in Items : cs[c] = CreatedAt(f, k)
    BY DEF From
  <2> QED
    BY <1>1, <2>1, <2>2
<1>3. ASSUME NEW k \in Items PROVE f[k].name \in g.modules
  <2>1. PICK c \in 1..m : cs[c] = CreatedAt(f, k)
    BY DEF From
  <2>2. cs[c].name \in g.modules
    BY DEF Linked
  <2> QED
    BY <1>1, <2>1, <2>2
<1>4. \A k, l \in Items : f[k].name = f[l].name => k = l
  BY DEF From
<1>5. IsFiniteSet(Items)
  <2>1. IsFiniteSet(1..n) /\ Items \subseteq 1..n
    BY FS_Interval
  <2> HIDE DEF Items
  <2> QED
    BY <2>1, FS_Subset
<1> HIDE DEF Items
<1>6. name \in Bijection(Items, g.modules)
  BY <1>2, <1>3, <1>4 DEF Bijection, Injection, Surjection, IsInjective
<1> HIDE DEF name
<1>7. ExistsBijection(Items, g.modules)
  BY <1>6 DEF ExistsBijection
<1>8. IsFiniteSet(g.modules) /\ Cardinality(g.modules) = Cardinality(Items)
  BY <1>5, <1>7, FS_Bijection
<1> QED
  BY <1>2, <1>8 DEF Items, NamedIn

-----------------------------------------------------------------------------
\* A pipeline that was built is linked as its file says.
LEMMA PipelineFrom ==
  ASSUME FileInv, built
  PROVE  \E m \in Nat : \E cs : From(file, cs, m) /\ Linked(cs, m, graph)
<1>1. PICK cs : cs = Config!ConfigsBuilt(read.configs)
  OBVIOUS
<1>2. PICK m \in Nat : From(file, cs, m)
  BY <1>1, BuiltFrom
<1>3. Config!BuildSucceeds(cs) /\ graph = Config!BuildPipeline(cs) /\ Distinct(cs, m)
  BY <1>1, <1>2 DEF FileInv, From
<1>4. Linked(cs, m, graph)
  BY <1>3, PipelineIs
<1> QED
  BY <1>2, <1>4

\* Sources without threads, and no queue of the size 0.
Threaded(f) ==
  \A i \in DOMAIN f : IsModule(f, i) =>
    /\ f[i].value.of.class_name.of \in Config!NeedsNoInput =>
         f[i].value.of.parallelism = [kind |-> "uint", of |-> 0]
    /\ f[i].value.of.max_input_queue_size # [kind |-> "uint", of |-> 0]

\* Then Start accepts every module.
LEMMA EachStarts ==
  ASSUME NEW f \in Files, NEW m \in Nat, NEW cs, NEW g, From(f, cs, m), Linked(cs, m, g),
         Threaded(f), NEW x \in g.modules
  PROVE  Config!StartAccepts(g, x)
<1>1. PICK c \in 1..m : x = cs[c].name
  BY DEF Linked
<1>2. PICK k \in DOMAIN f : IsModule(f, k) /\ cs[c] = CreatedAt(f, k)
  BY DEF From
<1>3. PICK r : r = f[k].value.of /\ f[k].value.kind = "object" /\ Config!ModuleParses(r)
  BY <1>2 DEF From
<1>4. PICK d : d = cs[c]
  OBVIOUS
<1>5. /\ d.source = (r.class_name.of \in Config!NeedsNoInput)
      /\ d.parallelism \in Nat /\ d.capacity \in Nat
      /\ r.parallelism = [kind |-> "uint", of |-> 0] => d.parallelism = 0
      /\ r.class_name.of \notin Config!NeedsNoInput => d.parallelism >= 1
      /\ r.max_input_queue_size # [kind |-> "uint", of |-> 0] => d.capacity > 0
  BY <1>2, <1>3, <1>4, CreatedIs
<1>6. /\ r.class_name.of \in Config!NeedsNoInput => r.parallelism = [kind |-> "uint", of |-> 0]
      /\ r.max_input_queue_size # [kind |-> "uint", of |-> 0]
  BY <1>2, <1>3 DEF Threaded
<1>7. /\ g.parallelism[x] = d.parallelism /\ g.conveyors[x] = ConveyorsOf(d)
      /\ d.source \/ \E l \in g.links : l[2] = x
  BY <1>1, <1>4 DEF Linked
<1>8. ConveyorsOf(d) = d.parallelism
  BY <1>5, <1>6 DEF ConveyorsOf
<1>9. CASE r.class_name.of \in Config!NeedsNoInput
  <2>1. d.parallelism = 0
    BY <1>5, <1>6, <1>9
  <2>2. \A l \in g.links : l[2] # x
    <3>1. \A l \in g.links : g.conveyors[l[2]] > 0
      BY DEF Linked
    <3>2. ~(g.conveyors[x] > 0)
      BY <1>7, <1>8, <2>1
    <3> QED
      BY <3>1, <3>2
  <2>3. Config!ParentsOf(g, x) = {}
    BY <2>2 DEF Config!ParentsOf
  <2> QED
    BY <1>7, <1>8, <2>1, <2>3 DEF Config!StartAccepts, Config!RootsOf
<1>10. CASE r.class_name.of \notin Config!NeedsNoInput
  <2>1. d.parallelism # 0 /\ ~d.source
    <3>1. d.parallelism # 0
      BY <1>5, <1>10
    <3>2. ~d.source
      BY <1>5, <1>10, Zenon
    <3> QED
      BY <3>1, <3>2
  <2>2. PICK l \in g.links : l[2] = x
    BY <1>7, <2>1
  <2>3. l[1] \in g.modules
    BY DEF Linked
  <2>4. l = <<l[1], x>>
    <3>1. PICK i \in 1..m : l \in {<<cs[i].name, cs[i].next[j]>> : j \in DOMAIN cs[i].next}
      BY DEF Linked
    <3> QED
      BY <2>2, <3>1
  <2>5. l[1] \in Config!ParentsOf(g, x)
    BY <2>3, <2>4 DEF Config!ParentsOf
  <2> QED
    BY <1>7, <1>8, <2>1, <2>5 DEF Config!StartAccepts, Config!RootsOf
<1> QED
  BY <1>9, <1>10

\* What BuiltAsRead says of a pipeline follows from what it was built from.
LEMMA FileBuilt == ASSUME FileInv PROVE Config!BuiltAsRead
<1> SUFFICES ASSUME built PROVE Config!BuiltAsRead
  BY DEF Config!BuiltAsRead
<1>1. PICK m \in Nat : \E cs : From(file, cs, m) /\ Linked(cs, m, graph)
  BY PipelineFrom
<1>2. PICK cs : From(file, cs, m) /\ Linked(cs, m, graph)
  BY <1>1
<1>3. PICK f \in Files : f = file
  BY DEF FileInv
<1>4. PICK n \in Nat : DOMAIN f = 1..n
  BY <1>3, ItemsRead
<1>5. PICK g : g = graph
  OBVIOUS
<1>6. From(f, cs, m) /\ Linked(cs, m, g)
  BY <1>2, <1>3, <1>5
<1>7. Config!ModuleItems = {i \in DOMAIN f : IsModule(f, i)}
  BY <1>3 DEF Config!ModuleItems, IsModule
<1>8. Config!Cardinality(graph.modules) = Config!Cardinality(Config!ModuleItems)
  BY <1>4, <1>5, <1>6, <1>7, AsManyModules, ConfigCardinality
<1>9. ASSUME NEW l \in graph.links
      PROVE  \E i \in Config!ModuleItems :
               /\ file[i].name = l[1]
               /\ l[2] \in {file[i].value.of.next_modules.of[j].of :
                              j \in DOMAIN file[i].value.of.next_modules.of}
  <2>1. PICK i \in 1..m : l \in {<<cs[i].name, cs[i].next[j]>> : j \in DOMAIN cs[i].next}
    BY <1>5, <1>6 DEF Linked
  <2>2. PICK j \in DOMAIN cs[i].next : l = <<cs[i].name, cs[i].next[j]>>
    BY <2>1
  <2>3. PICK k \in DOMAIN f : IsModule(f, k) /\ cs[i] = CreatedAt(f, k)
    BY <1>6 DEF From
  <2>4. PICK r : r = f[k].value.of /\ f[k].value.kind = "object" /\ Config!ModuleParses(r)
    BY <1>6, <2>3 DEF From
  <2>5. /\ cs[i].name = f[k].name
        /\ j \in DOMAIN r.next_modules.of /\ cs[i].next[j] = r.next_modules.of[j].of
    BY <2>2, <2>3, <2>4, CreatedIs
  <2>6. l[1] = f[k].name /\ l[2] = r.next_modules.of[j].of
    BY <2>2, <2>5
  <2> QED
    BY <1>3, <1>7, <2>3, <2>4, <2>5, <2>6
<1>10. ASSUME \A i \in Config!ModuleItems :
                LET m_1 == file[i].value.of IN
                /\ m_1.class_name.of \in Config!NeedsNoInput => m_1.parallelism = [kind |-> "uint", of |-> 0]
                /\ m_1.max_input_queue_size # [kind |-> "uint", of |-> 0],
              NEW x \in graph.modules
       PROVE  Config!StartAccepts(graph, x)
  <2>1. Threaded(f)
    BY <1>3, <1>7, <1>10 DEF Threaded
  <2> QED
    BY <1>5, <1>6, <2>1, EachStarts
<1> QED
  BY <1>8, <1>9, <1>10 DEF Config!BuiltAsRead

-----------------------------------------------------------------------------
(* The end module and the routes of a graph.                               *)

\* A list without repetitions of as many members as a set has, has them all.
Differ(seq, n) == \A i, j \in 1..n : i # j => seq[i] # seq[j]
\* That is what FS_Injection says.
LEMMA ListsAll ==
  ASSUME NEW M, IsFiniteSet(M), NEW n \in Nat, n = Cardinality(M),
         NEW seq \in [1..n -> M], Differ(seq, n)
  PROVE  \A x \in M : \E i \in 1..n : seq[i] = x
<1>2. seq \in Injection(1..n, M)
  BY DEF Injection, IsInjective, Differ
<1>3. Cardinality(1..n) = n
  <2>1. n \in Int /\ 1 \in Int /\ n - 1 + 1 = n /\ (1 > n => n = 0)
    OBVIOUS
  <2> QED
    BY <2>1, FS_Interval
<1>4. seq \in Surjection(1..n, M)
  BY <1>2, <1>3, FS_Injection
<1> QED
  BY <1>4 DEF Surjection

\* A set of at most two has none, one or two members.
LEMMA AtMostTwo ==
  ASSUME NEW S, IsFiniteSet(S), Cardinality(S) <= 2
  PROVE  \/ S = {} /\ Cardinality(S) = 0
         \/ \E a \in S : S = {a} /\ Cardinality(S) = 1
         \/ \E a, b \in S : a # b /\ S = {a, b} /\ Cardinality(S) = 2
<1>1. Cardinality(S) \in Nat
  BY FS_CardinalityType
<1>2. CASE S = {}
  BY <1>2, FS_EmptySet
<1>3. CASE S # {}
  <2>1. PICK a \in S : TRUE
    BY <1>3
  <2>2. IsFiniteSet(S \ {a}) /\ Cardinality(S \ {a}) = Cardinality(S) - 1
    BY <2>1, FS_RemoveElement
  <2>3. CASE S \ {a} = {}
    <3>1. S = {a}
      BY <2>1, <2>3
    <3> QED
      BY <2>1, <3>1, FS_Singleton
  <2>4. CASE S \ {a} # {}
    <3>1. Cardinality(S \ {a}) # 0
      BY <2>2, <2>4, FS_EmptySet
    <3>2. Cardinality(S \ {a}) = 1 /\ Cardinality(S) = 2
      <4>1. PICK n \in Nat : n = Cardinality(S)
        BY <1>1
      <4>2. n # 0
        BY <1>3, <4>1, FS_EmptySet
      <4> QED
        BY <2>2, <3>1, <4>1, <4>2
    <3>3. PICK b : S \ {a} = {b}
      BY <2>2, <3>2, FS_Singleton
    <3>4. b \in S /\ a # b /\ S = {a, b}
      BY <2>1, <3>3
    <3> QED
      BY <2>1, <3>2, <3>4
  <2> QED
    BY <2>3, <2>4
<1> QED
  BY <1>2, <1>3

\* What GetEndModule remembers after the first i modules.
Remembers(seq, i, L, end) ==
  LET Met(x) == \E k \in 1..i : seq[k] = x IN
  /\ (\A x \in L : ~Met(x)) => end = Config!NoModule
  /\ \A x \in L : Met(x) =>
       /\ (\A y \in L : Met(y) => y = x) => end = x
       /\ (\E y \in L : Met(y) /\ y # x) => end = Config!NoModule

\* Of one leaf GetEndModule returns it, of none or two nothing, in any order of the map.
LEMMA EndModuleIs ==
  ASSUME NEW h, IsFiniteSet(h.modules), Config!NoModule \notin h.modules,
         NEW L, L = Config!LeavesOf(h), Cardinality(L) <= 2,
         NEW order \in Config!SetToSeqs(h.modules)
  PROVE  Config!EndModuleAfter(h, order) =
           IF Cardinality(L) = 1 THEN CHOOSE m \in L : TRUE ELSE Config!NoModule
<1>1. PICK n \in Nat : n = Cardinality(h.modules) /\ n = Config!Cardinality(h.modules)
  BY FS_CardinalityType, ConfigCardinality
<1>2. PICK seq \in [1..n -> h.modules] :
        seq = order /\ Differ(seq, n)
  BY <1>1 DEF Config!SetToSeqs, Differ
<1>3. \A x \in h.modules : \E i \in 1..n : seq[i] = x
  <2>1. PICK M : M = h.modules
    OBVIOUS
  <2>2. IsFiniteSet(M) /\ n = Cardinality(M) /\ seq \in [1..n -> M] /\ Differ(seq, n)
    BY <1>1, <1>2, <2>1
  <2>3. \A x \in M : \E i \in 1..n : seq[i] = x
    BY <2>2, ListsAll
  <2> QED
    BY <2>1, <2>3
<1>4. L \subseteq h.modules
  BY DEF Config!LeavesOf
<1>5. IsFiniteSet(L)
  BY <1>4, FS_Subset
<1>6. PICK A : A = h.modules \cup {Config!NoModule}
  OBVIOUS
<1>7. EndStays(h, A, n, seq)
  BY <1>6 DEF EndStays
<1>8. Config!NoModule \in A /\ DOMAIN seq = 1..n
  BY <1>6
<1>9. PICK g \in [0..n -> A] : EndSteps(h, n, Config!NoModule, seq, g, Config!EndModuleAfter(h, seq))
  BY <1>7, <1>8, EndFold
<1>10. /\ g[0] = Config!NoModule /\ g[n] = Config!EndModuleAfter(h, order)
       /\ \A i \in 1..n : g[i] = IF seq[i] \notin L THEN g[i - 1]
                                 ELSE IF g[i - 1] = Config!NoModule THEN seq[i] ELSE Config!NoModule
  BY <1>2, <1>9 DEF EndSteps
<1> DEFINE S == {i \in 0..n : Remembers(seq, i, L, g[i])}
<1>11. 0 \in S
  BY <1>10 DEF Remembers
<1>12. \A x, y, z \in L : x = y \/ x = z \/ y = z
  BY <1>5, AtMostTwo
<1>13. ASSUME NEW i \in 0..n - 1, i \in S PROVE i + 1 \in S
  <2>1. PICK j \in 1..n : j = i + 1 /\ j - 1 = i /\ i \in 0..n /\ j \in 0..n
    OBVIOUS
  <2>2. PICK c \in h.modules : c = seq[j]
    OBVIOUS
  <2>3. \A k \in 1..i : k \in 1..n /\ seq[k] # c
    BY <1>2, <2>1, <2>2 DEF Differ
  <2>4. g[j] = IF c \notin L THEN g[i] ELSE IF g[i] = Config!NoModule THEN c ELSE Config!NoModule
    BY <1>10, <2>1, <2>2
  <2> DEFINE Met(x) == \E k \in 1..i : seq[k] = x
             Then(x) == \E k \in 1..j : seq[k] = x
  <2>5. \A x : Then(x) <=> Met(x) \/ x = c
    <3>1. \A k \in 1..j : k \in 1..i \/ k = j
      BY <2>1
    <3>2. j \in 1..j /\ \A k \in 1..i : k \in 1..j
      BY <2>1
    <3> QED
      BY <2>2, <3>1, <3>2
  <2>6. ~Met(c)
    BY <2>3
  <2>7. /\ (\A x \in L : ~Met(x)) => g[i] = Config!NoModule
        /\ \A x \in L : Met(x) =>
             /\ (\A y \in L : Met(y) => y = x) => g[i] = x
             /\ (\E y \in L : Met(y) /\ y # x) => g[i] = Config!NoModule
    BY <1>13 DEF Remembers
  <2>8. \A x \in L : x # Config!NoModule
    BY <1>4
  <2> HIDE DEF Met, Then
  <2>9. (\A x \in L : ~Then(x)) => g[j] = Config!NoModule
    BY <2>4, <2>5, <2>7
  <2>10. ASSUME NEW x \in L, Then(x)
         PROVE  /\ (\A y \in L : Then(y) => y = x) => g[j] = x
                /\ (\E y \in L : Then(y) /\ y # x) => g[j] = Config!NoModule
    <3>1. CASE c \notin L
      BY <2>4, <2>5, <2>7, <2>10, <3>1
    <3>2. CASE c \in L /\ \A y \in L : ~Met(y)
      BY <2>4, <2>5, <2>7, <2>10, <3>2
    <3>3. CASE c \in L /\ \E y \in L : Met(y)
      <4>1. PICK y \in L : Met(y)
        BY <3>3
      <4>2. y # c /\ \A z \in L : Met(z) => z = y
        BY <1>12, <2>6, <3>3, <4>1
      <4>3. g[i] = y /\ y # Config!NoModule
        BY <2>7, <2>8, <4>1, <4>2
      <4>4. g[j] = Config!NoModule
        BY <2>4, <3>3, <4>3
      <4>5. Then(y) /\ Then(c)
        BY <2>5, <4>1
      <4> QED
        BY <3>3, <4>2, <4>4, <4>5
    <3> QED
      BY <3>1, <3>2, <3>3
  <2>11. Remembers(seq, j, L, g[j])
    BY <2>9, <2>10 DEF Remembers, Then
  <2> QED
    BY <2>1, <2>11
<1>14. \A i \in 0..n : i \in S
  <2> HIDE DEF S
  <2> QED
    BY <1>11, <1>13, UpTo
<1>15. PICK end : end = g[n] /\ Remembers(seq, n, L, end)
  <2>1. n \in 0..n
    OBVIOUS
  <2> QED
    BY <1>14, <2>1
<1>16. /\ L = {} => end = Config!NoModule
       /\ \A x \in L : /\ (\A y \in L : y = x) => end = x
                       /\ (\E y \in L : y # x) => end = Config!NoModule
  <2>1. \A x \in L : \E k \in 1..n : seq[k] = x
    BY <1>3, <1>4
  <2> QED
    BY <1>15, <2>1 DEF Remembers
<1>17. end = IF Cardinality(L) = 1 THEN CHOOSE m \in L : TRUE ELSE Config!NoModule
  <2>1. CASE L = {} /\ Cardinality(L) = 0
    BY <1>16, <2>1
  <2>2. CASE \E a \in L : L = {a} /\ Cardinality(L) = 1
    BY <1>16, <2>2
  <2>3. CASE \E a, b \in L : a # b /\ L = {a, b} /\ Cardinality(L) = 2
    BY <1>16, <2>3
  <2> QED
    BY <1>5, <2>1, <2>2, <2>3, AtMostTwo
<1> QED
  BY <1>10, <1>15, <1>17

-----------------------------------------------------------------------------
\* The list SetToSeq makes of a finite set.
LEMMA ListOf ==
  ASSUME NEW M, IsFiniteSet(M), NEW n \in Nat, n = Cardinality(M), NEW seq, seq = Config!SetToSeq(M)
  PROVE  seq \in [1..n -> M] /\ \A x \in M : \E i \in 1..n : seq[i] = x
<1>1. PICK f \in Bijection(1..n, M) : TRUE
  <2>1. ExistsBijection(1..n, M)
    BY FS_CardinalityType
  <2> QED
    BY <2>1 DEF ExistsBijection
<1>2. f \in [1..n -> M] /\ Config!IsInjective(f)
  BY DEF Bijection, Injection, IsInjective, Config!IsInjective
<1>3. n = Config!Cardinality(M)
  BY ConfigCardinality
<1>4. seq = CHOOSE g \in [1..n -> M] : Config!IsInjective(g)
  BY <1>3 DEF Config!SetToSeq
<1>5. seq \in [1..n -> M] /\ Config!IsInjective(seq)
  BY <1>2, <1>4
<1>6. Differ(seq, n)
  BY <1>5 DEF Config!IsInjective, Differ
<1>7. \A x \in M : \E i \in 1..n : seq[i] = x
  BY <1>5, <1>6, ListsAll
<1> QED
  BY <1>5, <1>7

\* The members of a queue.
In(q) == {q[i] : i \in 1..Len(q)}

\* The first of a list and the rest.
LEMMA FirstOf ==
  ASSUME NEW M, NEW q \in Seq(M), q # <<>>
  PROVE  /\ Head(q) \in M /\ Tail(q) \in Seq(M) /\ Len(Tail(q)) = Len(q) - 1 /\ Len(q) \in Nat
         /\ In(q) = {Head(q)} \cup In(Tail(q))
<1>1. PICK n \in Nat : n = Len(q) /\ n # 0
  OBVIOUS
<1>2. PICK t \in Seq(M) : t = Tail(q) /\ Len(t) = n - 1 /\ \A i \in 1..n - 1 : t[i] = q[i + 1]
  <2>1. Tail(q) \in Seq(M) /\ Len(Tail(q)) = n - 1
    BY <1>1
  <2>2. \A i \in 1..n - 1 : Tail(q)[i] = q[i + 1]
    BY <1>1, HeadTailProperties
  <2> QED
    BY <2>1, <2>2
<1>3. \A i \in 1..n : i = 1 \/ (i - 1 \in 1..n - 1 /\ (i - 1) + 1 = i)
  BY <1>1
<1>4. 1 \in 1..n /\ \A i \in 1..n - 1 : i + 1 \in 1..n
  BY <1>1
<1>5. Head(q) = q[1] /\ q[1] \in M
  BY <1>1, <1>4
<1>6. In(q) \subseteq {Head(q)} \cup In(t)
  <2> SUFFICES ASSUME NEW i \in 1..n, i # 1 PROVE q[i] \in In(t)
    BY <1>1, <1>5 DEF In
  <2>1. i - 1 \in 1..Len(t) /\ t[i - 1] = q[i]
    BY <1>2, <1>3
  <2> QED
    BY <2>1 DEF In
<1>7. {Head(q)} \cup In(t) \subseteq In(q)
  BY <1>1, <1>2, <1>4, <1>5 DEF In
<1> QED
  BY <1>1, <1>2, <1>5, <1>6, <1>7

\* A list behind a list.
LEMMA BothOf ==
  ASSUME NEW M, NEW q \in Seq(M), NEW r \in Seq(M)
  PROVE  /\ q \o r \in Seq(M) /\ Len(q \o r) = Len(q) + Len(r)
         /\ In(q \o r) = In(q) \cup In(r)
<1>1. PICK n \in Nat, l \in Nat : n = Len(q) /\ l = Len(r)
  OBVIOUS
<1>2. PICK s \in Seq(M) : /\ s = q \o r /\ Len(s) = n + l
                          /\ \A i \in 1..n + l : s[i] = IF i <= n THEN q[i] ELSE r[i - n]
  <2>1. q \o r \in Seq(M)
    OBVIOUS
  <2>2. Len(q \o r) = n + l
    BY <1>1
  <2>3. \A i \in 1..n + l : (q \o r)[i] = IF i <= n THEN q[i] ELSE r[i - n]
    BY <1>1
  <2> QED
    BY <2>1, <2>2, <2>3
<1>3. \A i \in 1..n + l : i \in 1..n \/ (i - n \in 1..l /\ ~(i <= n))
  BY <1>1
<1>4. /\ \A i \in 1..n : i \in 1..n + l /\ i <= n
      /\ \A i \in 1..l : i + n \in 1..n + l /\ ~(i + n <= n) /\ (i + n) - n = i
  BY <1>1
<1>5. In(s) \subseteq In(q) \cup In(r)
  BY <1>1, <1>2, <1>3 DEF In
<1>6. In(q) \subseteq In(s)
  BY <1>1, <1>2, <1>4 DEF In
<1>7. In(r) \subseteq In(s)
  <2> SUFFICES ASSUME NEW i \in 1..l PROVE r[i] \in In(s)
    BY <1>1 DEF In
  <2>1. s[i + n] = r[i] /\ i + n \in 1..Len(s)
    BY <1>2, <1>4
  <2> QED
    BY <2>1 DEF In
<1> QED
  BY <1>1, <1>2, <1>5, <1>6, <1>7

-----------------------------------------------------------------------------
\* A finite graph.
FiniteGraph(h) == IsFiniteSet(h.modules) /\ h.links \subseteq h.modules \X h.modules

\* The states of a search.
Searches(M) == [queue : Seq(M), visit : SUBSET M, mask : SUBSET M]

\* What was left open of a search: the successors of what was visited wait in the queue.
Closed(h, s) == \A l \in h.links : l[1] \in s => l[2] \in s
Searched(h, root, k) ==
  /\ root \in k.visit \cup In(k.queue)
  /\ \A l \in h.links : l[1] \in k.visit => l[2] \in k.visit \cup In(k.queue)
  /\ \A s \in SUBSET h.modules : root \in s /\ Closed(h, s) => k.visit \cup In(k.queue) \subseteq s
  /\ k.mask = h.modules \ k.visit
Pending(h, v) == {l \in h.links : l[1] \notin v}

\* There are finitely many links, and finitely many that wait.
LEMMA LinksFinite ==
  ASSUME NEW h, FiniteGraph(h)
  PROVE  /\ IsFiniteSet(h.links) /\ Cardinality(h.links) \in Nat
         /\ \A v : IsFiniteSet(Pending(h, v)) /\ Cardinality(Pending(h, v)) \in Nat
<1>1. IsFiniteSet(h.links)
  <2>1. IsFiniteSet(h.modules \X h.modules)
    BY FS_Product DEF FiniteGraph
  <2> QED
    BY <2>1, FS_Subset DEF FiniteGraph
<1>2. ASSUME NEW v PROVE IsFiniteSet(Pending(h, v))
  BY <1>1, FS_Subset DEF Pending
<1> QED
  BY <1>1, <1>2, FS_CardinalityType

\* The nodes behind a node, and the list of them.
LEMMA DownNodes ==
  ASSUME NEW h, FiniteGraph(h), NEW node \in h.modules, NEW d, d = Config!DownNodesOf(h, node),
         NEW seq, seq = Config!SetToSeq(d)
  PROVE  /\ d \subseteq h.modules /\ seq \in Seq(h.modules) /\ In(seq) = d
         /\ Len(seq) = Cardinality({l \in h.links : l[1] = node})
         /\ \A l \in h.links : l[1] = node => l[2] \in d
         /\ \A x \in d : <<node, x>> \in h.links
<1>1. d = {x \in h.modules : <<node, x>> \in h.links}
  BY DEF Config!DownNodesOf
<1>2. IsFiniteSet(d)
  BY <1>1, FS_Subset DEF FiniteGraph
<1>3. PICK n \in Nat : n = Cardinality(d)
  BY <1>2, FS_CardinalityType
<1>4. seq \in [1..n -> d] /\ \A x \in d : \E i \in 1..n : seq[i] = x
  BY <1>2, <1>3, ListOf
<1>5. seq \in Seq(h.modules) /\ Len(seq) = n
  <2>1. seq \in Seq(d)
    BY <1>4, SeqDef
  <2>2. Len(seq) = n
    BY <1>4, <2>1, LenProperties
  <2> QED
    <3>1. DOMAIN seq = 1..n /\ \A i \in 1..n : seq[i] \in h.modules
      BY <1>1, <1>4
    <3>2. seq \in [1..n -> h.modules]
      BY <1>4, <3>1
    <3> QED
      BY <2>2, <3>2, SeqDef
<1>6. In(seq) = d
  BY <1>4, <1>5 DEF In
<1>7. PICK out : out = {l \in h.links : l[1] = node}
  OBVIOUS
<1>8. n = Cardinality(out)
  <2>1. PICK f : f = [x \in d |-> <<node, x>>]
    OBVIOUS
  <2>2. \A l \in out : l[2] \in d /\ l = <<node, l[2]>>
    BY <1>1, <1>7 DEF FiniteGraph
  <2>3. \A x \in d : <<node, x>> \in out /\ f[x] = <<node, x>>
    BY <1>1, <1>7, <2>1
  <2>4. f \in [d -> out]
    BY <2>1, <2>3
  <2>5. \A l \in out : \E x \in d : f[x] = l
    BY <2>2, <2>3
  <2>6. \A x, y \in d : f[x] = f[y] => x = y
    <3>1. \A x, y \in d : <<node, x>> = <<node, y>> => x = y
      OBVIOUS
    <3> QED
      BY <2>3, <3>1, Zenon
  <2>7. f \in Bijection(d, out)
    BY <2>4, <2>5, <2>6 DEF Bijection, Injection, Surjection, IsInjective
  <2>8. ExistsBijection(d, out)
    BY <2>7 DEF ExistsBijection
  <2> QED
    BY <1>2, <1>3, <2>8, FS_Bijection
<1>9. \A l \in h.links : l[1] = node => l[2] \in d
  BY <1>1 DEF FiniteGraph
<1> QED
  BY <1>1, <1>5, <1>6, <1>7, <1>8, <1>9

\* What one round of the search does.
Round(h, k, j) ==
  LET node == Head(k.queue) IN
  /\ k.queue # <<>> /\ node \in h.modules /\ j \in Searches(h.modules)
  /\ In(k.queue) = {node} \cup In(Tail(k.queue))
  /\ IF node \in k.visit
     THEN /\ j.visit = k.visit /\ j.mask = k.mask /\ In(j.queue) = In(Tail(k.queue))
          /\ Len(j.queue) = Len(k.queue) - 1
     ELSE /\ j.visit = k.visit \cup {node} /\ j.mask = Config!Xor(k.mask, node)
          /\ In(j.queue) = In(Tail(k.queue)) \cup Config!DownNodesOf(h, node)
          /\ Len(j.queue) = Len(k.queue) - 1 + Cardinality({l \in h.links : l[1] = node})

\* VisitNext is such a round.
LEMMA RoundIs ==
  ASSUME NEW h, FiniteGraph(h), NEW M, M = h.modules, NEW k \in Searches(M), k.queue # <<>>,
         NEW j, j = Config!VisitNext(h, k)
  PROVE  Round(h, k, j)
<1>1. PICK q \in Seq(M), v \in SUBSET M, w \in SUBSET M :
        k = [queue |-> q, visit |-> v, mask |-> w] /\ q # <<>>
  BY DEF Searches
<1>2. PICK node \in M : node = Head(q)
  BY <1>1, FirstOf
<1>3. PICK t \in Seq(M) : /\ t = Tail(q) /\ Len(t) = Len(q) - 1
                          /\ In(q) = {node} \cup In(t) /\ Len(q) \in Nat
  BY <1>1, <1>2, FirstOf
<1>4. CASE node \in v
  <2>1. j = [queue |-> t, visit |-> v, mask |-> w]
    BY <1>1, <1>2, <1>3, <1>4 DEF Config!VisitNext
  <2>2. j \in Searches(M)
    BY <2>1 DEF Searches
  <2>3. /\ k.queue = q /\ k.visit = v /\ k.mask = w
        /\ j.queue = t /\ j.visit = v /\ j.mask = w
    BY <1>1, <2>1
  <2>4. Head(k.queue) = node /\ Tail(k.queue) = t /\ k.queue # <<>> /\ node \in h.modules
    BY <1>1, <1>2, <1>3, <2>3
  <2> QED
    BY <1>3, <1>4, <2>2, <2>3, <2>4 DEF Round
<1>5. CASE node \notin v
  <2>1. PICK d : d = Config!DownNodesOf(h, node)
    OBVIOUS
  <2>2. PICK seq : seq = Config!SetToSeq(d)
    OBVIOUS
  <2>3. seq \in Seq(M) /\ In(seq) = d /\ Len(seq) = Cardinality({l \in h.links : l[1] = node})
    BY <2>1, <2>2, DownNodes
  <2>4. t \o seq \in Seq(M) /\ Len(t \o seq) = Len(t) + Len(seq) /\ In(t \o seq) = In(t) \cup d
    BY <2>3, BothOf
  <2>5. PICK x \in SUBSET M : x = Config!Xor(w, node)
    BY DEF Config!Xor
  <2>6. j = [queue |-> t \o seq, visit |-> v \cup {node}, mask |-> x]
    BY <1>1, <1>2, <1>3, <1>5, <2>1, <2>2, <2>5 DEF Config!VisitNext
  <2>7. j \in Searches(M)
    BY <2>4, <2>6 DEF Searches
  <2>8. /\ k.queue = q /\ k.visit = v /\ k.mask = w
        /\ j.queue = t \o seq /\ j.visit = v \cup {node} /\ j.mask = x
    BY <1>1, <2>6
  <2>9. Head(k.queue) = node /\ Tail(k.queue) = t /\ k.queue # <<>> /\ node \in h.modules
    BY <1>1, <1>2, <1>3, <2>8
  <2>10. Len(j.queue) = Len(q) - 1 + Cardinality({l \in h.links : l[1] = node})
    BY <1>3, <2>3, <2>4, <2>8
  <2> QED
    BY <1>3, <1>5, <2>1, <2>4, <2>5, <2>7, <2>8, <2>9, <2>10 DEF Round
<1> QED
  BY <1>4, <1>5

\* It goes on with the search.
LEMMA RoundSearches ==
  ASSUME NEW h, FiniteGraph(h), NEW root, NEW k \in Searches(h.modules), NEW j, Round(h, k, j),
         Searched(h, root, k)
  PROVE  Searched(h, root, j)
<1>1. PICK node \in h.modules : node = Head(k.queue)
  BY DEF Round
<1>2. PICK Q : Q = In(k.queue)
  OBVIOUS
<1>3. PICK T : T = In(Tail(k.queue)) /\ Q = {node} \cup T
  BY <1>1, <1>2 DEF Round
<1>4. PICK v \in SUBSET h.modules : v = k.visit
  BY DEF Searches
<1>5. /\ root \in v \cup Q
      /\ \A l \in h.links : l[1] \in v => l[2] \in v \cup Q
      /\ \A s \in SUBSET h.modules : root \in s /\ Closed(h, s) => v \cup Q \subseteq s
      /\ k.mask = h.modules \ v
  BY <1>2, <1>4 DEF Searched
<1>6. CASE node \in v
  <2>1. j.visit = v /\ j.mask = k.mask /\ In(j.queue) = T
    BY <1>1, <1>3, <1>4, <1>6 DEF Round
  <2>2. v \cup T = v \cup Q
    BY <1>3, <1>6
  <2> QED
    BY <1>5, <2>1, <2>2 DEF Searched
<1>7. CASE node \notin v
  <2>1. PICK d : d = Config!DownNodesOf(h, node)
    OBVIOUS
  <2>2. j.visit = v \cup {node} /\ j.mask = Config!Xor(k.mask, node) /\ In(j.queue) = T \cup d
    BY <1>1, <1>3, <1>4, <1>7, <2>1 DEF Round
  <2>3. /\ \A l \in h.links : l[1] = node => l[2] \in d
        /\ \A x \in d : <<node, x>> \in h.links
    BY <2>1, DownNodes
  <2>4. j.mask = h.modules \ j.visit
    BY <1>5, <1>7, <2>2 DEF Config!Xor
  <2>5. j.visit \cup In(j.queue) = v \cup Q \cup d
    BY <1>3, <2>2
  <2>6. \A l \in h.links : l[1] \in j.visit => l[2] \in v \cup Q \cup d
    BY <1>5, <2>2, <2>3
  <2>7. ASSUME NEW s \in SUBSET h.modules, root \in s, Closed(h, s)
        PROVE  v \cup Q \cup d \subseteq s
    <3>1. v \cup Q \subseteq s /\ node \in s
      BY <1>3, <1>5, <2>7
    <3>2. ASSUME NEW x \in d PROVE x \in s
      <4>1. <<node, x>> \in h.links /\ <<node, x>>[1] = node /\ <<node, x>>[2] = x
        BY <2>3
      <4> QED
        BY <2>7, <3>1, <4>1 DEF Closed
    <3> QED
      BY <3>1, <3>2
  <2> QED
    BY <1>5, <2>4, <2>5, <2>6, <2>7 DEF Searched
<1> QED
  BY <1>6, <1>7

\* Every round takes one away from what is still to do.
LEMMA RoundTakes ==
  ASSUME NEW h, FiniteGraph(h), NEW k \in Searches(h.modules), NEW j, Round(h, k, j)
  PROVE  /\ Len(j.queue) + Cardinality(Pending(h, j.visit))
              = (Len(k.queue) + Cardinality(Pending(h, k.visit))) - 1
         /\ Len(k.queue) \in Nat /\ Len(j.queue) \in Nat
<1>1. PICK node \in h.modules : node = Head(k.queue)
  BY DEF Round
<1>2. PICK a \in Nat, b \in Nat : a = Len(k.queue) /\ b = Len(j.queue)
  <2>1. k.queue \in Seq(h.modules) /\ j.queue \in Seq(h.modules)
    BY DEF Searches, Round
  <2> QED
    BY <2>1
<1>3. CASE node \in k.visit
  <2>1. j.visit = k.visit /\ b = a - 1
    BY <1>1, <1>2, <1>3 DEF Round
  <2>2. PICK c \in Nat : c = Cardinality(Pending(h, k.visit))
    BY LinksFinite
  <2> QED
    BY <1>2, <2>1, <2>2
<1>4. CASE node \notin k.visit
  <2>1. PICK out : out = {l \in h.links : l[1] = node}
    OBVIOUS
  <2>2. j.visit = k.visit \cup {node} /\ b = a - 1 + Cardinality(out)
    BY <1>1, <1>2, <1>4, <2>1 DEF Round
  <2>3. PICK P : P = Pending(h, k.visit) /\ IsFiniteSet(P) /\ Cardinality(P) \in Nat
    BY LinksFinite
  <2>4. Pending(h, j.visit) = P \ out /\ P \cap out = out
    BY <1>4, <2>1, <2>2, <2>3 DEF Pending
  <2>5. Cardinality(P \ out) = Cardinality(P) - Cardinality(P \cap out)
    BY <2>3, FS_Difference
  <2>6. PICK c \in Nat, d \in Nat : c = Cardinality(P) /\ d = Cardinality(out)
    <3>1. IsFiniteSet(out)
      BY <2>3, <2>4, FS_Subset
    <3> QED
      BY <2>3, <3>1, FS_CardinalityType
  <2>7. Cardinality(Pending(h, j.visit)) = c - d
    BY <2>4, <2>5, <2>6
  <2>8. Cardinality(Pending(h, k.visit)) = c /\ b = a - 1 + d
    BY <2>2, <2>3, <2>6
  <2> QED
    BY <1>2, <2>7, <2>8
<1> QED
  BY <1>3, <1>4

-----------------------------------------------------------------------------
\* The search empties its queue in the rounds it has.
LEMMA SearchEnds ==
  ASSUME NEW h, FiniteGraph(h), NEW root \in h.modules
  PROVE  \E k \in Searches(h.modules) :
           /\ Config!RouteMaskOf(h, root) = k.mask
           /\ k.queue = <<>> /\ Searched(h, root, k)
<1>1. PICK M : M = h.modules
  OBVIOUS
<1>2. PICK n \in Nat : n = 1 + Cardinality(h.links)
  BY LinksFinite
<1>3. PICK seq : seq = Config!SetToSeq(Config!Rounds(h))
  OBVIOUS
<1>4. DOMAIN seq = 1..n
  <2>1. Config!Rounds(h) = 1..n
    BY <1>2, ConfigCardinality DEF Config!Rounds
  <2>2. IsFiniteSet(1..n) /\ Cardinality(1..n) = n
    <3>1. n \in Int /\ 1 \in Int /\ n - 1 + 1 = n /\ (1 > n => n = 0)
      OBVIOUS
    <3> QED
      BY <3>1, FS_Interval
  <2>3. seq \in [1..n -> 1..n]
    BY <1>3, <2>1, <2>2, ListOf
  <2> QED
    BY <2>3
<1>5. PICK base : base = [queue |-> <<root>>, visit |-> {}, mask |-> h.modules]
  OBVIOUS
<1>6. base.queue = <<root>> /\ base.visit = {} /\ base.mask = h.modules
  BY <1>5
<1>7. base \in Searches(M) /\ In(base.queue) = {root} /\ Len(base.queue) = 1
  <2>1. <<root>> \in Seq(M) /\ Len(<<root>>) = 1 /\ In(<<root>>) = {root}
    <3>1. <<root>> \in Seq(M) /\ Len(<<root>>) = 1 /\ <<root>>[1] = root
      <4>1. \A S : \A x \in S : <<x>> \in Seq(S)
        OBVIOUS
      <4>2. Len(<<root>>) = 1 /\ <<root>>[1] = root
        OBVIOUS
      <4> QED
        BY <1>1, <4>1, <4>2
    <3>2. 1..1 = {1}
      OBVIOUS
    <3>3. In(<<root>>) = {<<root>>[i] : i \in {1}}
      BY <3>1, <3>2 DEF In
    <3> QED
      BY <3>1, <3>3
  <2>2. base \in Searches(M)
    BY <1>1, <1>5, <2>1 DEF Searches
  <2> QED
    BY <1>6, <2>1, <2>2
<1>8. ASSUME NEW k \in Searches(M), k.queue # <<>>
      PROVE  Round(h, k, Config!VisitNext(h, k)) /\ Config!VisitNext(h, k) \in Searches(M)
  <2>1. Round(h, k, Config!VisitNext(h, k))
    BY <1>1, <1>8, RoundIs
  <2> QED
    BY <1>1, <2>1 DEF Round
<1>9. VisitStays(h, Searches(M), n, seq)
  BY <1>8 DEF VisitStays
<1>10. PICK g \in [0..n -> Searches(M)] :
         VisitSteps(h, n, base, seq, g) /\ Config!RouteMaskOf(h, root) = g[n].mask
  <2>1. Begins(h, root, base) /\ Rounded(h, seq)
    BY <1>3, <1>5 DEF Begins, Rounded
  <2>2. base \in Searches(M)
    BY <1>7
  <2> QED
    BY <1>4, <1>9, <2>1, <2>2, VisitFold
<1>11. /\ g[0] = base
       /\ \A i \in 1..n : g[i] = IF g[i - 1].queue = <<>> THEN g[i - 1]
                                 ELSE Config!VisitNext(h, g[i - 1])
  BY <1>10 DEF VisitSteps
<1> DEFINE Left(k) == Len(k.queue) + Cardinality(Pending(h, k.visit))
           S == {i \in 0..n : /\ Searched(h, root, g[i])
                              /\ g[i].queue = <<>> \/ Left(g[i]) + i = n}
<1>12. 0 \in S
  <2>1. Searched(h, root, base)
    <3>1. root \in base.visit \cup In(base.queue)
      BY <1>7
    <3>2. base.visit \cup In(base.queue) = {root}
      BY <1>6, <1>7
    <3> QED
      BY <1>6, <3>1, <3>2 DEF Searched
  <2>2. Pending(h, base.visit) = h.links
    BY <1>6 DEF Pending
  <2>3. Left(base) + 0 = n
    BY <1>2, <1>7, <2>2
  <2>4. 0 \in 0..n
    OBVIOUS
  <2> QED
    BY <1>11, <2>1, <2>3, <2>4
<1>13. ASSUME NEW i \in 0..n - 1, i \in S PROVE i + 1 \in S
  <2>1. PICK j \in 1..n : j = i + 1 /\ j - 1 = i /\ i \in 0..n /\ j \in 0..n
    OBVIOUS
  <2>2. PICK k \in Searches(M) : k = g[i]
    BY <2>1
  <2>3. Searched(h, root, k) /\ (k.queue = <<>> \/ Left(k) + i = n)
    BY <1>13, <2>2
  <2>4. CASE k.queue = <<>>
    <3>1. g[j] = k
      BY <1>11, <2>1, <2>2, <2>4
    <3> QED
      BY <2>1, <2>3, <2>4, <3>1
  <2>5. CASE k.queue # <<>>
    <3>1. PICK l \in Searches(M) : l = g[j] /\ Round(h, k, l)
      <4>1. g[j] = Config!VisitNext(h, k)
        BY <1>11, <2>1, <2>2, <2>5
      <4> QED
        BY <1>8, <2>5, <4>1
    <3>2. Searched(h, root, l)
      BY <1>1, <2>3, <3>1, RoundSearches
    <3>3. Left(l) = Left(k) - 1
      <4>1. k \in Searches(h.modules) /\ Round(h, k, l)
        BY <1>1, <3>1
      <4>2. Len(l.queue) + Cardinality(Pending(h, l.visit))
              = (Len(k.queue) + Cardinality(Pending(h, k.visit))) - 1
        BY <4>1, RoundTakes
      <4> QED
        BY <4>2, Zenon
    <3>4. PICK p \in Nat, q \in Nat : p = Left(k) /\ q = Left(l)
      <4>1. Len(k.queue) \in Nat /\ Len(l.queue) \in Nat
        BY <1>1, <3>1, RoundTakes
      <4>2. Cardinality(Pending(h, k.visit)) \in Nat /\ Cardinality(Pending(h, l.visit)) \in Nat
        BY LinksFinite
      <4> QED
        BY <4>1, <4>2
    <3> HIDE DEF Left
    <3>5. q + j = n
      BY <2>1, <2>3, <2>5, <3>3, <3>4
    <3> QED
      BY <2>1, <3>1, <3>2, <3>4, <3>5
  <2> QED
    BY <2>4, <2>5
<1>14. \A i \in 0..n : i \in S
  <2> HIDE DEF S
  <2> QED
    BY <1>12, <1>13, UpTo
<1>15. PICK k \in Searches(M) : k = g[n] /\ Searched(h, root, k) /\ (k.queue = <<>> \/ Left(k) + n = n)
  <2>1. n \in 0..n
    OBVIOUS
  <2> QED
    BY <1>14, <2>1
<1>16. k.queue = <<>>
  <2> SUFFICES ASSUME Left(k) + n = n PROVE k.queue = <<>>
    BY <1>15
  <2>1. k.queue \in Seq(M)
    BY DEF Searches
  <2>2. PICK p \in Nat, q \in Nat : p = Len(k.queue) /\ q = Cardinality(Pending(h, k.visit))
    BY <2>1, LinksFinite
  <2>3. Len(k.queue) = 0
    BY <2>2
  <2>4. \A t \in Seq(M) : Len(t) = 0 => t = <<>>
    BY EmptySeq
  <2> QED
    BY <2>1, <2>3, <2>4, Zenon
<1> QED
  BY <1>1, <1>10, <1>15, <1>16

\* What it has visited then is what the root reaches.
LEMMA RouteMasks ==
  ASSUME NEW h, FiniteGraph(h), h = graph, NEW root \in h.modules
  PROVE  Config!RouteMaskOf(h, root) = h.modules \ Config!ReachedFrom(root)
<1>1. PICK k \in Searches(h.modules) :
        Config!RouteMaskOf(h, root) = k.mask /\ k.queue = <<>> /\ Searched(h, root, k)
  BY SearchEnds
<1>2. PICK v \in SUBSET h.modules : v = k.visit
  BY DEF Searches
<1>3. In(k.queue) = {}
  <2>1. Len(<<>>) = 0 /\ 1..0 = {}
    OBVIOUS
  <2> QED
    BY <1>1, <2>1 DEF In
<1>4. /\ root \in v
      /\ Closed(h, v)
      /\ \A s \in SUBSET h.modules : root \in s /\ Closed(h, s) => v \subseteq s
      /\ k.mask = h.modules \ v
  BY <1>1, <1>2, <1>3 DEF Searched, Closed
<1>5. Config!ReachedFrom(root) = {m \in h.modules : \A s \in SUBSET h.modules :
                                     root \in s /\ Closed(h, s) => m \in s}
  BY DEF Config!ReachedFrom, Closed
<1>6. Config!ReachedFrom(root) = v
  BY <1>4, <1>5
<1> QED
  BY <1>1, <1>4, <1>6

\* The routes of a pipeline that was built are complete, and its end module is its only leaf.
LEMMA FileRoutes == ASSUME FileInv PROVE Config!RoutesComplete
<1> SUFFICES ASSUME built PROVE Config!RoutesComplete
  BY DEF Config!RoutesComplete
<1>1. PICK m \in Nat : \E cs : From(file, cs, m) /\ Linked(cs, m, graph)
  BY PipelineFrom
<1>2. PICK cs : From(file, cs, m) /\ Linked(cs, m, graph)
  BY <1>1
<1>3. PICK f \in Files : f = file
  BY DEF FileInv
<1>4. PICK n \in Nat : DOMAIN f = 1..n
  BY <1>3, ItemsRead
<1>5. PICK g : g = graph
  OBVIOUS
<1>6. From(f, cs, m) /\ Linked(cs, m, g)
  BY <1>2, <1>3, <1>5
<1>7. IsFiniteSet(g.modules) /\ \A x \in g.modules : \E k \in DOMAIN f : x = f[k].name
  <2>1. IsFiniteSet(g.modules)
    BY <1>4, <1>6, AsManyModules
  <2>2. NamedIn(f, g.modules)
    BY <1>4, <1>6, AsManyModules
  <2> QED
    BY <2>1, <2>2 DEF NamedIn
<1>8. g.links \subseteq g.modules \X g.modules
  <2> SUFFICES ASSUME NEW l \in g.links PROVE l \in g.modules \X g.modules
    OBVIOUS
  <2>1. PICK i \in 1..m : l \in {<<cs[i].name, cs[i].next[j]>> : j \in DOMAIN cs[i].next}
    BY <1>6 DEF Linked
  <2>2. l = <<l[1], l[2]>> /\ l[1] \in g.modules /\ l[2] \in g.modules
    BY <1>6, <2>1 DEF Linked
  <2> QED
    BY <2>2
<1>9. FiniteGraph(g)
  BY <1>7, <1>8 DEF FiniteGraph
<1>10. Config!NoModule \notin g.modules
  <2>1. \A k \in DOMAIN f : f[k].name # Config!NoModule
    BY SuiteAssumption DEF Config!ConfigurationAssumption
  <2> QED
    BY <1>7, <2>1
<1>11. ASSUME NEW root \in Config!RootsOf(graph)
       PROVE  Config!RouteMaskOf(graph, root) = graph.modules \ Config!ReachedFrom(root)
  <2>1. root \in g.modules
    BY <1>5 DEF Config!RootsOf
  <2> QED
    BY <1>5, <1>9, <2>1, RouteMasks
<1>12. PICK L : L = Config!LeavesOf(g)
  OBVIOUS
<1>13. ASSUME Config!Cardinality(L) <= 2, NEW order \in Config!SetToSeqs(g.modules)
       PROVE  Config!EndModuleAfter(g, order) =
                IF Config!Cardinality(L) = 1 THEN CHOOSE x \in L : TRUE ELSE Config!NoModule
  BY <1>7, <1>10, <1>12, <1>13, EndModuleIs, ConfigCardinality
<1> QED
  BY <1>5, <1>11, <1>12, <1>13 DEF Config!RoutesComplete

-----------------------------------------------------------------------------
(* What BuildPipelineByJSONFile and ParseParamsAndInspect make of what     *)
(* they are given.                                                         *)

\* Whatever the file, a pipeline that BuildPipelineByJSONFile has built has a module for every
\* item and only links the file names, and Start accepts its modules if sources have no threads
\* and no queue has size 0; the route mask of a source has just the modules it does not reach,
\* and GetEndModule returns the only leaf in any order of the map.  Parameters that pass
\* ParseParamsAndInspect have every one that must be there and none that is unknown, and their
\* values are what the texts say; no two modules of a pipeline have one id.
THEOREM ConfigurationRight == SuiteSpec => []ConfigurationStands
<1> DEFINE Inv == ParamInv /\ FileInv
<1>1. SuiteInit => Inv
  <2> SUFFICES ASSUME SuiteInit PROVE Inv
    OBVIOUS
  <2>1. Config!BuildInit
    BY DEF SuiteInit
  <2> QED
    BY <2>1, ParamInvInit, FileInvInit
<1>2. Inv /\ [SuiteNext]_suiteVars => Inv'
  BY SuiteStep, ParamInvNext, FileInvNext
<1>3. Inv => Config!ConfigurationStands
  BY ParametersRead, FileBuilt, FileRoutes DEF Config!ConfigurationStands
<1>4. Config!ConfigurationStands /\ Ids!IdsTellApart => ConfigurationStands
  BY DEF ConfigurationStands
<1> HIDE DEF Inv
<1>5. SuiteSpec => []Config!ConfigurationStands
  BY <1>1, <1>2, <1>3, PTL DEF SuiteSpec
<1> QED
  BY <1>4, <1>5, ModulesToldApart, PTL
=============================================================================
