--------------------------- MODULE ScannerProofs ---------------------------
(***************************************************************************)
(* Safety of the scanner for every text, request, limit and place of the   *)
(* reader.                                                                 *)
(*                                                                         *)
(* The matcher comes first, over any sequence: the failure table holds the *)
(* longest border of every prefix of the pattern, and the state is the     *)
(* longest prefix of the pattern that the bytes read end in.  Then the     *)
(* line in progress, whose state, window, match and preview are described  *)
(* by the bytes read (Capturing, which one more byte preserves); the       *)
(* results, each of which describes one line of the text and which leave   *)
(* out no line that ends before a place in it (SoundTo, CompleteTo); the   *)
(* inductive invariant made of these; and the properties of the runs.      *)
(***************************************************************************)
EXTENDS Scanner, FiniteSetTheorems, SequenceTheorems, WellFoundedInduction, TLAPS

\* A set of natural numbers has a least element: the form in which induction is
\* within reach of the provers, as a minimal counterexample.
LEMMA LeastNatural ==
  ASSUME NEW S \in SUBSET Nat, S # {}
  PROVE  \E n \in S : \A y \in S : n <= y
<1> DEFINE Below(n) == {i \in S : i < n}
           F == {Below(n) : n \in S}
<1>0. \A n \in S : n \in Nat
  OBVIOUS
<1>1. F \subseteq FiniteSubsetsOf(S) /\ F # {}
  <2>1. ASSUME NEW n \in S PROVE Below(n) \in SUBSET S /\ IsFiniteSet(Below(n))
    <3>1. n \in Nat /\ \A i \in Below(n) : i \in Nat /\ i < n
      BY <1>0
    <3>2. \A i, k \in Nat : i < k => i <= k
      OBVIOUS
    <3>3. Below(n) \in SUBSET Nat /\ \A i \in Below(n) : i <= n
      BY <3>1, <3>2
    <3>4. Below(n) \in SUBSET S
      OBVIOUS
    <3> HIDE DEF Below
    <3> QED BY <3>1, <3>3, <3>4, FS_BoundedSetOfNaturals
  <2> QED BY <2>1 DEF FiniteSubsetsOf
<1>2. PICK x \in F : \A y \in F : ~(<<y, x>> \in StrictSubsetOrdering(S))
  BY <1>1, FS_StrictSubsetOrderingWellFounded, WFMin
<1>3. PICK n \in S : x = Below(n)
  BY <1>2
<1>4. ASSUME NEW m \in S, m < n PROVE FALSE
  <2>1. Below(m) \subseteq Below(n) /\ m \in Below(n) /\ m \notin Below(m)
    <3>1. m \in Nat /\ n \in Nat
      BY <1>0
    <3>2. \A i \in Nat : (i < m => i < n) /\ ~(m < m)
      BY <1>4, <3>1
    <3> QED BY <1>0, <1>4, <3>1, <3>2
  <2>2. <<Below(m), Below(n)>> \in StrictSubsetOrdering(S)
    BY <2>1 DEF StrictSubsetOrdering
  <2> QED BY <1>2, <1>3, <2>2
<1> QED BY <1>4

\* A set of numbers up to n has a greatest one.
LEMMA GreatestNatural ==
  ASSUME NEW n \in Nat, NEW S \in SUBSET (0..n), S # {}
  PROVE  \E k \in S : \A j \in S : j <= k
<1> DEFINE D == {d \in 0..n : n - d \in S}
<1>1. D \in SUBSET Nat /\ D # {}
  <2>1. PICK k \in S : k \in 0..n
    OBVIOUS
  <2>2. n - k \in 0..n /\ n - (n - k) = k /\ n - k \in Nat
    BY <2>1
  <2>3. n - k \in D
    BY <2>1, <2>2
  <2>4. \A d \in 0..n : d \in Nat
    OBVIOUS
  <2> QED BY <2>3, <2>4
<1>2. PICK d \in D : \A y \in D : d <= y
  <2> HIDE DEF D
  <2> QED BY <1>1, LeastNatural
<1>3. ASSUME NEW j \in S PROVE j <= n - d
  <2>1. n - j \in D
    OBVIOUS
  <2>2. d <= n - j /\ d \in 0..n /\ j \in 0..n
    BY <1>2, <2>1
  <2> QED BY <2>2
<1> QED BY <1>3

\* The first k elements of p are the last k of those of w in (b + 1)..e.
Suffix(p, w, b, e, k) ==
  /\ k \in 0..(e - b) /\ k <= Len(p)
  /\ \A j \in 1..k : p[j] = w[e - k + j]

\* The longest such prefix of at most n elements.
Longest(p, w, b, e, n, k) ==
  /\ Suffix(p, w, b, e, k) /\ k <= n
  /\ \A j \in 0..n : Suffix(p, w, b, e, j) => j <= k

\* f holds the longest proper border of every prefix of p up to n.
RightUpTo(p, f, n) == \A i \in 1..n : Longest(p, p, 1, i, Len(p), f[i])

\* The states from which the automaton can read on: s and those its failure
\* links lead to, as far as the byte extends them.
Extends(p, s, byte, k) ==
  /\ k = s \/ Suffix(p, p, 1, s, k)
  /\ k = 0 \/ p[k + 1] = byte

\* The longest of them.
Fallen(p, s, byte, k) == Extends(p, s, byte, k) /\ \A j \in 0..s : Extends(p, s, byte, j) => j <= k

\* The borders of a prefix are its longest one and the borders of that.
LEMMA BorderOfBorder ==
  ASSUME NEW p, Len(p) \in Nat, NEW s \in 1..Len(p), NEW f, Longest(p, p, 1, s, Len(p), f), NEW j \in 0..s
  PROVE  /\ f \in 0..(s - 1)
         /\ Suffix(p, p, 1, s, j) <=> j = f \/ Suffix(p, p, 1, f, j)
<1>1. f \in 0..(s - 1)
  BY DEF Longest, Suffix
<1>2. ASSUME Suffix(p, p, 1, s, j), j # f PROVE Suffix(p, p, 1, f, j)
  <2>1. j \in Nat /\ f \in Nat /\ s \in Nat /\ j < f /\ f < s /\ s <= Len(p) /\ Len(p) \in Nat
    BY <1>1, <1>2 DEF Longest, Suffix
  <2>2. ASSUME NEW i \in 1..j PROVE p[i] = p[f - j + i]
    <3>1. p[i] = p[s - j + i]
      BY <1>2 DEF Suffix
    <3>2. f - j + i \in 1..f /\ s - f + (f - j + i) = s - j + i
      BY <2>1
    <3>3. p[f - j + i] = p[s - f + (f - j + i)]
      BY <3>2 DEF Longest, Suffix
    <3> QED BY <3>1, <3>2, <3>3
  <2> QED BY <2>1, <2>2 DEF Suffix
<1>3. ASSUME Suffix(p, p, 1, f, j) PROVE Suffix(p, p, 1, s, j)
  <2>1. j \in Nat /\ f \in Nat /\ s \in Nat /\ j < f /\ f < s /\ s <= Len(p) /\ Len(p) \in Nat
    BY <1>1, <1>3 DEF Suffix
  <2>2. ASSUME NEW i \in 1..j PROVE p[i] = p[s - j + i]
    <3>1. p[i] = p[f - j + i]
      BY <1>3 DEF Suffix
    <3>2. f - j + i \in 1..f /\ s - f + (f - j + i) = s - j + i
      BY <2>1
    <3>3. p[f - j + i] = p[s - f + (f - j + i)]
      BY <3>2 DEF Longest, Suffix
    <3> QED BY <3>1, <3>2, <3>3
  <2> QED BY <2>1, <2>2 DEF Suffix
<1> QED BY <1>1, <1>2, <1>3 DEF Longest

LEMMA FallExists ==
  ASSUME NEW p, Len(p) \in Nat, NEW s \in 0..(Len(p) - 1), NEW byte
  PROVE  \E k \in 0..s : Fallen(p, s, byte, k)
<1> DEFINE S == {k \in 0..s : Extends(p, s, byte, k)}
<1>1. 0 \in S
  BY DEF Extends, Suffix
<1>2. S \in SUBSET (0..s) /\ s \in Nat
  OBVIOUS
<1>3. PICK k \in S : \A j \in S : j <= k
  <2> HIDE DEF S
  <2> QED BY <1>1, <1>2, GreatestNatural
<1>4. \A j \in 0..s : Extends(p, s, byte, j) => j <= k
  BY <1>3
<1> QED BY <1>3, <1>4 DEF Fallen

\* The failure links lead to the longest state that the byte extends.
LEMMA FallBackRight ==
  ASSUME NEW p, Len(p) \in Nat, NEW s \in 0..(Len(p) - 1), NEW byte, NEW f, RightUpTo(p, f, s)
  PROVE  FallBack(p, f, s, byte) \in 0..s /\ Fallen(p, s, byte, FallBack(p, f, s, byte))
<1> DEFINE Falls(g) ==
             g = [k \in 0..s |-> IF k > 0 /\ p[k + 1] # byte THEN g[f[k]] ELSE k]
<1>1. ASSUME NEW k \in 1..s PROVE f[k] \in 0..(k - 1) /\ Longest(p, p, 1, k, Len(p), f[k])
  BY DEF RightUpTo, Longest, Suffix
\* Where the byte does not extend k, what extends k is what extends f[k].
<1>2. ASSUME NEW k \in 1..s, p[k + 1] # byte, NEW j, Fallen(p, f[k], byte, j), j \in 0..f[k]
      PROVE  Fallen(p, k, byte, j)
  <2>1. k \in 1..Len(p) /\ f[k] \in 0..(k - 1)
    BY <1>1
  <2>2. ASSUME NEW i \in 0..k PROVE Extends(p, k, byte, i) <=> (i \in 0..f[k] /\ Extends(p, f[k], byte, i))
    <3>1. Suffix(p, p, 1, k, i) <=> i = f[k] \/ Suffix(p, p, 1, f[k], i)
      BY <1>1, <2>1, BorderOfBorder
    <3>2. Suffix(p, p, 1, f[k], i) => i \in 0..f[k]
      BY <2>1 DEF Suffix
    <3>3. i = k => ~Extends(p, k, byte, i) /\ i \notin 0..f[k]
      BY <1>2, <2>1 DEF Extends
    <3> QED BY <3>1, <3>2, <3>3, <2>1 DEF Extends
  <2>3. j \in 0..k /\ \A i \in 0..k : i \in 0..f[k] \/ i \notin 0..f[k]
    BY <1>2, <2>1
  <2> QED BY <1>2, <2>2, <2>3 DEF Fallen
<1>3. ASSUME NEW k \in 0..s, k = 0 \/ p[k + 1] = byte PROVE Fallen(p, k, byte, k)
  BY <1>3 DEF Fallen, Extends
<1>4. ASSUME NEW k \in 0..s, NEW i \in 0..k, NEW j \in 0..k, Fallen(p, k, byte, i), Fallen(p, k, byte, j)
      PROVE  i = j
  BY <1>4 DEF Fallen
<1>5. \E g : Falls(g)
  <2>1. \A k \in 0..s : \E j \in 0..k : Fallen(p, k, byte, j)
    <3>1. ASSUME NEW k \in 0..s PROVE k \in 0..(Len(p) - 1)
      OBVIOUS
    <3> QED BY <3>1, FallExists
  <2> DEFINE d == [k \in 0..s |-> CHOOSE j \in 0..k : Fallen(p, k, byte, j)]
  <2>2. \A k \in 0..s : d[k] \in 0..k /\ Fallen(p, k, byte, d[k])
    BY <2>1
  <2>3. ASSUME NEW k \in 0..s PROVE d[k] = IF k > 0 /\ p[k + 1] # byte THEN d[f[k]] ELSE k
    <3> HIDE DEF d
    <3>1. CASE k > 0 /\ p[k + 1] # byte
      <4>1. k \in 1..s /\ f[k] \in 0..(k - 1)
        BY <3>1, <1>1
      <4>2. f[k] \in 0..s /\ d[f[k]] \in 0..f[k] /\ Fallen(p, f[k], byte, d[f[k]])
        BY <4>1, <2>2
      <4>3. Fallen(p, k, byte, d[f[k]]) /\ d[f[k]] \in 0..k
        BY <4>1, <4>2, <3>1, <1>2
      <4>4. d[k] = d[f[k]]
        BY <4>3, <2>2, <1>4
      <4> QED BY <4>4, <3>1
    <3>2. CASE ~(k > 0 /\ p[k + 1] # byte)
      <4>1. Fallen(p, k, byte, k) /\ k \in 0..k
        BY <3>2, <1>3
      <4> QED BY <4>1, <3>2, <2>2, <1>4
    <3> QED BY <3>1, <3>2
  <2>4. d = [k \in 0..s |-> d[k]]
    OBVIOUS
  <2> HIDE DEF d
  <2>5. d = [k \in 0..s |-> IF k > 0 /\ p[k + 1] # byte THEN d[f[k]] ELSE k]
    BY <2>3, <2>4
  <2> QED BY <2>5
<1>6. PICK g : Falls(g) /\ FallBack(p, f, s, byte) = g[s]
  BY <1>5 DEF FallBack
<1>7. ASSUME NEW k \in 0..s PROVE g[k] = IF k > 0 /\ p[k + 1] # byte THEN g[f[k]] ELSE k
  BY <1>6
<1> HIDE DEF Falls
<1> DEFINE Wrong == {k \in 0..s : ~(g[k] \in 0..k /\ Fallen(p, k, byte, g[k]))}
<1>8. Wrong = {}
  <2> SUFFICES ASSUME Wrong # {} PROVE FALSE
    OBVIOUS
  <2>1. PICK k \in Wrong : \A y \in Wrong : k <= y
    <3>1. Wrong \in SUBSET Nat
      OBVIOUS
    <3> HIDE DEF Wrong
    <3> QED BY <3>1, LeastNatural
  <2>2. \A i \in 0..(k - 1) : g[i] \in 0..i /\ Fallen(p, i, byte, g[i])
    <3>1. ASSUME NEW i \in 0..(k - 1) PROVE i \in 0..s /\ i \notin Wrong
      <4>1. i \in 0..s /\ i < k /\ k \in Int /\ i \in Int
        OBVIOUS
      <4> HIDE DEF Wrong
      <4> QED BY <4>1, <2>1
    <3> QED BY <3>1
  <2>3. CASE k > 0 /\ p[k + 1] # byte
    <3>1. k \in 1..s /\ f[k] \in 0..(k - 1) /\ g[k] = g[f[k]]
      BY <2>3, <1>1, <1>7
    <3>2. g[f[k]] \in 0..f[k] /\ Fallen(p, f[k], byte, g[f[k]])
      BY <3>1, <2>2
    <3>3. Fallen(p, k, byte, g[k]) /\ g[k] \in 0..k
      BY <3>1, <3>2, <2>3, <1>2
    <3> QED BY <3>3
  <2>4. CASE ~(k > 0 /\ p[k + 1] # byte)
    <3>1. g[k] = k /\ Fallen(p, k, byte, k) /\ k \in 0..k
      BY <2>4, <1>3, <1>7
    <3> QED BY <3>1
  <2> QED BY <2>3, <2>4
<1> QED BY <1>6, <1>8

\* One byte more takes the matcher from the longest prefix of the pattern that the
\* text ends in to the longest one that the longer text ends in: push_byte
\* (src/src/scanner.rs) forgets no possible beginning of a match, whatever the
\* pattern and the text, as long as its failure table is right.
THEOREM StepRight ==
  ASSUME NEW p, Len(p) \in Nat \ {0}, NEW f, NEW w, NEW b \in Nat, NEW e \in Nat, b <= e,
         NEW s \in 0..(Len(p) - 1), Longest(p, w, b, e, Len(p) - 1, s), RightUpTo(p, f, s)
  PROVE  Longest(p, w, b, e + 1, Len(p), Step(p, f, s, w[e + 1]))
<1> DEFINE k == FallBack(p, f, s, w[e + 1])
           r == Step(p, f, s, w[e + 1])
<1>1. k \in 0..s /\ Fallen(p, s, w[e + 1], k)
  BY FallBackRight
<1>2. r = IF p[k + 1] = w[e + 1] THEN k + 1 ELSE 0
  BY DEF Step
<1> HIDE DEF k, r
\* What ends at e and is no longer than s is s or a border of it.
<1>3. ASSUME NEW j \in 0..s PROVE Suffix(p, w, b, e, j) <=> j = s \/ Suffix(p, p, 1, s, j)
  <2>1. s \in Nat /\ s <= e - b /\ j \in Nat
    BY DEF Longest, Suffix
  <2>2. ASSUME NEW i \in 1..j PROVE p[s - j + i] = w[e - j + i]
    <3>1. s - j + i \in 1..s /\ e - s + (s - j + i) = e - j + i
      BY <2>1
    <3> QED BY <3>1 DEF Longest, Suffix
  <2>3. CASE j = s
    BY <2>3 DEF Longest
  <2>4. CASE j < s
    <3>1. Suffix(p, p, 1, s, j) <=> \A i \in 1..j : p[i] = p[s - j + i]
      BY <2>1, <2>4 DEF Suffix
    <3>2. Suffix(p, w, b, e, j) <=> \A i \in 1..j : p[i] = w[e - j + i]
      BY <2>1, <2>4 DEF Suffix
    <3>3. (\A i \in 1..j : p[i] = p[s - j + i]) <=> (\A i \in 1..j : p[i] = w[e - j + i])
      BY <2>2
    <3> QED BY <3>1, <3>2, <3>3, <2>4, <2>1
  <2> QED BY <2>1, <2>3, <2>4
<1>4. ASSUME NEW j \in 0..(Len(p) - 1)
      PROVE  Suffix(p, w, b, e + 1, j + 1) <=> Suffix(p, w, b, e, j) /\ p[j + 1] = w[e + 1]
  <2>1. ASSUME Suffix(p, w, b, e + 1, j + 1) PROVE Suffix(p, w, b, e, j) /\ p[j + 1] = w[e + 1]
    <3>1. \A i \in 1..(j + 1) : p[i] = w[e + 1 - (j + 1) + i]
      BY <2>1 DEF Suffix
    <3>2. \A i \in 1..(j + 1) : e + 1 - (j + 1) + i = e - j + i
      OBVIOUS
    <3>3. \A i \in 1..j : p[i] = w[e - j + i]
      BY <3>1, <3>2
    <3>4. p[j + 1] = w[e + 1]
      <4>1. e + 1 - (j + 1) + (j + 1) = e + 1 /\ j + 1 \in 1..(j + 1)
        OBVIOUS
      <4> QED BY <3>1, <4>1
    <3> QED BY <2>1, <3>3, <3>4 DEF Suffix
  <2>2. ASSUME Suffix(p, w, b, e, j), p[j + 1] = w[e + 1] PROVE Suffix(p, w, b, e + 1, j + 1)
    <3>1. ASSUME NEW i \in 1..(j + 1) PROVE p[i] = w[e + 1 - (j + 1) + i]
      <4>1. e + 1 - (j + 1) + i = e - j + i
        OBVIOUS
      <4>2. CASE i = j + 1
        <5>1. e - j + i = e + 1
          BY <4>2
        <5> QED BY <2>2, <4>1, <4>2, <5>1
      <4>3. CASE i \in 1..j
        BY <2>2, <4>1, <4>3 DEF Suffix
      <4> QED BY <4>2, <4>3
    <3> QED BY <2>2, <3>1 DEF Suffix
  <2> QED BY <2>1, <2>2
<1>5. ASSUME NEW j \in 0..(Len(p) - 1), Suffix(p, w, b, e + 1, j + 1)
      PROVE  j \in 0..s /\ Extends(p, s, w[e + 1], j)
  <2>1. Suffix(p, w, b, e, j) /\ p[j + 1] = w[e + 1]
    BY <1>4, <1>5
  <2>2. j \in 0..s
    BY <2>1 DEF Longest
  <2> QED BY <1>3, <2>1, <2>2 DEF Extends
<1>6. ASSUME p[k + 1] = w[e + 1] PROVE Longest(p, w, b, e + 1, Len(p), r)
  <2>1. Suffix(p, w, b, e, k)
    BY <1>1, <1>3 DEF Fallen, Extends
  <2>2. k \in 0..(Len(p) - 1) /\ Suffix(p, w, b, e + 1, k + 1)
    BY <1>1, <1>4, <1>6, <2>1
  <2>3. ASSUME NEW j \in 0..Len(p), Suffix(p, w, b, e + 1, j) PROVE j <= k + 1
    <3>1. CASE j = 0
      BY <3>1, <2>2
    <3>2. CASE j # 0
      <4>1. j - 1 \in 0..(Len(p) - 1) /\ (j - 1) + 1 = j
        BY <3>2
      <4>2. j - 1 \in 0..s /\ Extends(p, s, w[e + 1], j - 1)
        BY <1>5, <2>3, <4>1
      <4>3. j - 1 <= k
        BY <1>1, <4>2 DEF Fallen
      <4> QED BY <4>3, <2>2
    <3> QED BY <3>1, <3>2
  <2> QED BY <1>2, <1>6, <2>2, <2>3 DEF Longest
<1>7. ASSUME p[k + 1] # w[e + 1] PROVE Longest(p, w, b, e + 1, Len(p), r)
  <2>1. k = 0
    BY <1>1, <1>7 DEF Fallen, Extends
  <2>2. ASSUME NEW j \in 0..Len(p), Suffix(p, w, b, e + 1, j), j # 0 PROVE FALSE
    <3>1. j - 1 \in 0..(Len(p) - 1) /\ (j - 1) + 1 = j
      BY <2>2
    <3>2. j - 1 \in 0..s /\ Extends(p, s, w[e + 1], j - 1)
      BY <1>5, <2>2, <3>1
    <3>3. j - 1 <= k
      BY <1>1, <3>2 DEF Fallen
    <3>4. j - 1 = 0 /\ Suffix(p, w, b, e + 1, j - 1 + 1)
      BY <3>1, <3>3, <2>1, <2>2
    <3> QED BY <3>1, <3>4, <1>4, <1>7, <2>1
  <2>3. Suffix(p, w, b, e + 1, 0)
    BY DEF Suffix
  <2> QED BY <1>2, <1>7, <2>2, <2>3 DEF Longest
<1> QED BY <1>6, <1>7 DEF r

\* build_failure_table (src/src/scanner.rs) computes for every prefix of every
\* pattern its longest proper border.
THEOREM FailureTableRight ==
  ASSUME NEW S, NEW p \in Seq(S), p # <<>>
  PROVE  RightUpTo(p, FailureTable(p), Len(p))
<1> DEFINE Table(t) ==
             t = [i \in DOMAIN p |-> IF i = 1 THEN 0 ELSE Step(p, t, t[i - 1], p[i])]
           Right(i, k) == Longest(p, p, 1, i, Len(p), k)
<1>0. Len(p) \in Nat \ {0} /\ DOMAIN p = 1..Len(p)
  OBVIOUS
<1>1. Right(1, 0) /\ 1 \in 1..Len(p)
  BY <1>0 DEF Longest, Suffix
<1>2. ASSUME NEW t, NEW i \in 2..Len(p), \A j \in 1..(i - 1) : Right(j, t[j])
      PROVE  Right(i, Step(p, t, t[i - 1], p[i]))
  <2>1. i - 1 \in 1..Len(p) /\ i - 1 \in 1..(i - 1) /\ i - 1 \in Nat /\ (i - 1) + 1 = i /\ 1 <= i - 1
    OBVIOUS
  <2>2. Longest(p, p, 1, i - 1, Len(p), t[i - 1])
    BY <1>2, <2>1
  <2>3. t[i - 1] \in 0..(Len(p) - 1) /\ t[i - 1] \in 0..(i - 2)
    BY <1>0, <2>2, <2>1 DEF Longest, Suffix
  <2>4. Longest(p, p, 1, i - 1, Len(p) - 1, t[i - 1])
    BY <1>0, <2>2, <2>3 DEF Longest
  <2>5. RightUpTo(p, t, t[i - 1])
    BY <1>2, <2>3 DEF RightUpTo
  <2>6. Longest(p, p, 1, (i - 1) + 1, Len(p), Step(p, t, t[i - 1], p[(i - 1) + 1]))
    BY <1>0, <2>1, <2>3, <2>4, <2>5, StepRight
  <2> QED BY <2>6, <2>1
<1>3. ASSUME NEW i \in 1..Len(p), NEW j, NEW k, Right(i, j), Right(i, k) PROVE j = k
  BY <1>3, <1>0 DEF Longest, Suffix
<1>4. \E t : Table(t)
  <2>1. ASSUME NEW i \in 1..Len(p) PROVE \E k : Right(i, k)
    <3> DEFINE Ends == {k \in 0..(i - 1) : Suffix(p, p, 1, i, k)}
    <3>1. 0 \in Ends /\ Ends \in SUBSET (0..(i - 1)) /\ i - 1 \in Nat
      BY <1>0 DEF Suffix
    <3>2. PICK k \in Ends : \A j \in Ends : j <= k
      <4> HIDE DEF Ends
      <4> QED BY <3>1, GreatestNatural
    <3>3. \A j : Suffix(p, p, 1, i, j) => j \in Ends
      BY DEF Suffix
    <3>4. Suffix(p, p, 1, i, k) /\ k <= Len(p)
      BY <1>0, <3>2
    <3> HIDE DEF Ends
    <3>5. Right(i, k)
      BY <3>2, <3>3, <3>4 DEF Longest
    <3> QED BY <3>5
  <2> DEFINE t == [i \in 1..Len(p) |-> CHOOSE k : Right(i, k)]
  <2>2. \A i \in 1..Len(p) : Right(i, t[i])
    BY <2>1
  <2>3. t = [i \in 1..Len(p) |-> t[i]]
    OBVIOUS
  <2> HIDE DEF t
  <2>4. ASSUME NEW i \in 1..Len(p) PROVE t[i] = IF i = 1 THEN 0 ELSE Step(p, t, t[i - 1], p[i])
    <3>1. CASE i = 1
      BY <3>1, <1>1, <1>3, <2>2
    <3>2. CASE i # 1
      <4>1. i \in 2..Len(p) /\ \A j \in 1..(i - 1) : j \in 1..Len(p)
        BY <3>2, <1>0
      <4>2. Right(i, Step(p, t, t[i - 1], p[i]))
        BY <1>2, <2>2, <4>1
      <4> HIDE DEF Right
      <4> QED BY <1>3, <2>2, <3>2, <4>2
    <3> QED BY <3>1, <3>2
  <2>5. Table(t)
    BY <1>0, <2>3, <2>4
  <2> QED BY <2>5
<1>5. PICK t : Table(t) /\ FailureTable(p) = t
  BY <1>4 DEF FailureTable
<1>6. ASSUME NEW i \in 1..Len(p) PROVE t[i] = IF i = 1 THEN 0 ELSE Step(p, t, t[i - 1], p[i])
  BY <1>0, <1>5
<1> HIDE DEF Table, Right
<1> DEFINE Wrong == {i \in 1..Len(p) : ~Right(i, t[i])}
<1>7. Wrong = {}
  <2> SUFFICES ASSUME Wrong # {} PROVE FALSE
    OBVIOUS
  <2>1. PICK i \in Wrong : \A y \in Wrong : i <= y
    <3>1. Wrong \in SUBSET Nat
      OBVIOUS
    <3> HIDE DEF Wrong
    <3> QED BY <3>1, LeastNatural
  <2>2. ASSUME NEW j \in 1..(i - 1) PROVE Right(j, t[j])
    <3>1. j \in 1..Len(p) /\ j < i /\ j \in Int /\ i \in Int
      BY <1>0
    <3>2. j \notin Wrong
      <4> HIDE DEF Wrong
      <4> QED BY <2>1, <3>1
    <3> QED BY <3>1, <3>2
  <2>3. i # 1
    BY <1>1, <1>6
  <2>4. i \in 2..Len(p)
    BY <1>0, <2>3
  <2>5. Right(i, t[i])
    BY <1>2, <1>6, <2>2, <2>3, <2>4
  <2> QED BY <2>5
<1> QED BY <1>5, <1>7 DEF RightUpTo, Right

-----------------------------------------------------------------------------
\* The text as the matcher reads it.
Folded(t, r) == [i \in DOMAIN t |-> Fold(t[i], r.sensitive)]

\* The line of a text that starts behind its first s bytes has its last byte at e.
IsLine(t, s, e) ==
  /\ s \in 0..Len(t) /\ e \in s..Len(t)
  /\ s = 0 \/ t[s] = Newline
  /\ \A i \in (s + 1)..e : t[i] # Newline
  /\ e = Len(t) \/ t[e + 1] = Newline

\* The keyword occurs in the line of s behind the first i bytes of the text.
Occurs(t, r, s, e, i) ==
  /\ i \in s..(e - Len(r.keyword))
  /\ \A j \in 1..Len(r.keyword) : Fold(t[i + j], r.sensitive) = Pattern(r)[j]

\* It does so first at i.
First(t, r, s, e, i) == Occurs(t, r, s, e, i) /\ \A j \in Int : Occurs(t, r, s, e, j) => i <= j

NewlinesUpTo(t, s) == Cardinality({i \in 1..s : t[i] = Newline})

\* LineCapture, field by field.
Captures ==
  [number : Nat, start : Nat, bytes : Nat, state : Nat, window : Seq(Bytes),
   preview : Seq(Bytes), previewStart : Nat, match : Nat \cup {None}]

\* The window holds the last bytes of the n that the line has.
Windowed(t, r, n, window) ==
  /\ window \in Seq(Bytes) /\ Len(window) <= WindowCapacity(r)
  /\ Len(window) = n \/ (Len(window) = WindowCapacity(r) /\ WindowCapacity(r) <= n)
  /\ \A i \in 1..Len(window) : window[i] = t[Len(t) - Len(window) + i]

\* Before the first occurrence in a line of n bytes: the state of the automaton
\* and the window.
Unmatched(t, r, b, n, state, window) ==
  /\ \A i \in Int : ~Occurs(t, r, b, Len(t), i)
  /\ Longest(Pattern(r), Folded(t, r), b, Len(t), Len(r.keyword) - 1, state)
  /\ Windowed(t, r, n, window)

\* After it: the place of the match and the preview, a piece of the line that
\* starts behind its first `from` bytes.
Matched(t, r, b, n, match, from, preview) ==
  /\ \E i \in Nat :
       /\ First(t, r, b, Len(t), i) /\ match = Start.offset + i
       /\ from <= i - b /\ i - b + Len(r.keyword) <= from + Len(preview)
  /\ Len(preview) <= r.maxLine
  /\ \/ from + Len(preview) = n
     \/ Len(preview) = r.maxLine /\ from + Len(preview) < n
  /\ \A i \in 1..Len(preview) : preview[i] = t[b + from + i]

\* The capture l is about the line of b, the one the text t ends in.
Capturing(t, r, b, l) ==
  /\ l \in Captures
  /\ b \in 0..Len(t) /\ l.start = Start.offset + b /\ l.bytes = Len(t) - b
  /\ IsLine(t, b, Len(t))
  /\ l.number = Start.line + NewlinesUpTo(t, b)
  /\ l.state < Len(r.keyword) /\ Len(l.window) <= WindowCapacity(r)
  /\ l.match = None => Unmatched(t, r, b, l.bytes, l.state, l.window)
  /\ l.match # None => Matched(t, r, b, l.bytes, l.match, l.previewStart, l.preview)

\* What validate() says of a request.
LEMMA PatternLength ==
  ASSUME NEW r \in Requests
  PROVE  /\ r.keyword \in Seq(Bytes) /\ Len(r.keyword) \in Nat \ {0} /\ r.maxLine \in Nat
         /\ Pattern(r) \in Seq(Bytes \cup {"a"}) /\ Len(Pattern(r)) = Len(r.keyword) /\ Pattern(r) # <<>>
         /\ WindowCapacity(r) \in Nat /\ WindowCapacity(r) <= r.maxLine /\ WindowCapacity(r) >= Len(r.keyword)
         /\ {r.maxResults, r.maxContent, r.maxScan} \subseteq Nat \ {0}
<1>1. /\ r.keyword \in Seq(Bytes) /\ r.maxLine \in Nat /\ Len(r.keyword) <= r.maxLine
      /\ {r.maxResults, r.maxContent, r.maxScan} \subseteq Nat \ {0} /\ r.keyword # <<>>
  BY RequestsAssumption
<1>2. Len(r.keyword) \in Nat \ {0}
  BY <1>1
<1>3. Pattern(r) \in Seq(Bytes \cup {"a"}) /\ Len(Pattern(r)) = Len(r.keyword) /\ Pattern(r) # <<>>
  <2>1. Pattern(r) = [i \in 1..Len(r.keyword) |-> Fold(r.keyword[i], r.sensitive)]
    BY <1>1 DEF Pattern
  <2>2. \A i \in 1..Len(r.keyword) : Fold(r.keyword[i], r.sensitive) \in Bytes \cup {"a"}
    BY <1>1 DEF Fold
  <2> QED BY <1>2, <2>1, <2>2
<1>4. /\ WindowCapacity(r) \in Nat /\ WindowCapacity(r) <= r.maxLine
      /\ WindowCapacity(r) >= Len(r.keyword)
  <2> DEFINE d == r.maxLine - Len(r.keyword)
  <2>1. d \in Nat /\ d + Len(r.keyword) = r.maxLine
    BY <1>1, <1>2
  <2>2. WindowCapacity(r) = (d \div 2) + Len(r.keyword)
    BY DEF WindowCapacity
  <2>3. PICK q \in Nat : q = d \div 2 /\ q <= d
    <3> HIDE DEF d
    <3> QED BY <2>1
  <2>4. WindowCapacity(r) = q + Len(r.keyword)
    BY <2>2, <2>3
  <2>5. PICK m \in Nat, k \in Nat : m = r.maxLine /\ k = Len(r.keyword) /\ q + k <= m
    <3>1. q <= d /\ d \in Nat
      BY <2>1, <2>3
    <3> HIDE DEF d
    <3> QED BY <1>1, <1>2, <2>1, <3>1
  <2>6. q + k \in Nat /\ q + k >= k
    OBVIOUS
  <2> QED BY <2>4, <2>5, <2>6
<1> QED BY <1>1, <1>2, <1>3, <1>4

\* A byte more changes nothing in the lines that ended before it.
LEMMA AppendKeepsOccurrences ==
  ASSUME NEW r \in Requests, NEW t \in Seq(Bytes), NEW x \in Bytes, NEW s \in Nat, NEW e \in 0..Len(t), NEW i
  PROVE  Occurs(Append(t, x), r, s, e, i) <=> Occurs(t, r, s, e, i)
<1>1. ASSUME i \in s..(e - Len(r.keyword)), NEW j \in 1..Len(r.keyword) PROVE Append(t, x)[i + j] = t[i + j]
  <2>1. i + j \in 1..Len(t)
    BY <1>1, PatternLength
  <2> QED BY <2>1
<1> QED BY <1>1 DEF Occurs

LEMMA AppendKeepsFirst ==
  ASSUME NEW r \in Requests, NEW t \in Seq(Bytes), NEW x \in Bytes, NEW s \in Nat, NEW e \in 0..Len(t), NEW i
  PROVE  First(Append(t, x), r, s, e, i) <=> First(t, r, s, e, i)
<1>1. \A j : Occurs(Append(t, x), r, s, e, j) <=> Occurs(t, r, s, e, j)
  BY AppendKeepsOccurrences
<1> QED BY <1>1 DEF First

LEMMA AppendKeepsLines ==
  ASSUME NEW t \in Seq(Bytes), NEW x \in Bytes, NEW s \in Nat, NEW e \in Nat, e < Len(t)
  PROVE  IsLine(Append(t, x), s, e) <=> IsLine(t, s, e)
<1>1. \A i \in 1..Len(t) : Append(t, x)[i] = t[i]
  OBVIOUS
<1>2. Len(Append(t, x)) = Len(t) + 1 /\ Len(t) \in Nat
  OBVIOUS
<1> DEFINE u == Append(t, x)
<1> HIDE DEF u
<1>3. (\A i \in (s + 1)..e : u[i] # Newline) <=> (\A i \in (s + 1)..e : t[i] # Newline)
  <2>1. \A i \in (s + 1)..e : i \in 1..Len(t)
    BY <1>2
  <2> QED BY <1>1, <2>1 DEF u
<1>4. e + 1 \in 1..Len(t) /\ u[e + 1] = t[e + 1] /\ e # Len(t) /\ e # Len(u)
  BY <1>1, <1>2 DEF u
<1>5. s <= e => s = 0 \/ u[s] = t[s]
  <2>1. s <= e => s = 0 \/ s \in 1..Len(t)
    BY <1>2
  <2> QED BY <1>1, <2>1 DEF u
<1>6. (s \in 0..Len(u) /\ e \in s..Len(u)) <=> (s \in 0..Len(t) /\ e \in s..Len(t))
  BY <1>2 DEF u
<1>7. IsLine(u, s, e) <=> IsLine(t, s, e)
  BY <1>3, <1>4, <1>5, <1>6 DEF IsLine
<1> QED BY <1>7 DEF u

LEMMA AppendKeepsCount ==
  ASSUME NEW t \in Seq(Bytes), NEW x \in Bytes, NEW s \in 0..Len(t)
  PROVE  NewlinesUpTo(Append(t, x), s) = NewlinesUpTo(t, s)
<1>1. \A i \in 1..s : Append(t, x)[i] = t[i]
  OBVIOUS
<1>2. {i \in 1..s : Append(t, x)[i] = Newline} = {i \in 1..s : t[i] = Newline}
  BY <1>1
<1> QED BY <1>2 DEF NewlinesUpTo

\* What a text ends in depends on its last line only, and when it is the whole
\* pattern, the keyword occurs there.
LEMMA SuffixOfBoth ==
  ASSUME NEW p, Len(p) \in Nat, NEW v, NEW w, NEW b \in Nat, NEW e \in Nat, NEW k,
         \A i \in (b + 1)..e : v[i] = w[i]
  PROVE  Suffix(p, v, b, e, k) <=> Suffix(p, w, b, e, k)
<1>1. ASSUME k \in 0..(e - b), NEW j \in 1..k PROVE v[e - k + j] = w[e - k + j]
  <2>1. e - k + j \in (b + 1)..e
    BY <1>1
  <2> QED BY <2>1
<1> QED BY <1>1 DEF Suffix

LEMMA SuffixOccurs ==
  ASSUME NEW r \in Requests, NEW t \in Seq(Bytes), NEW b \in Nat, NEW e \in 0..Len(t)
  PROVE  Suffix(Pattern(r), Folded(t, r), b, e, Len(r.keyword)) <=> Occurs(t, r, b, e, e - Len(r.keyword))
<1> DEFINE m == Len(r.keyword)
           p == Pattern(r)
<1>1. m \in Nat \ {0} /\ Len(p) = m
  BY PatternLength
<1>2. DOMAIN t = 1..Len(t) /\ Len(t) \in Nat
  OBVIOUS
<1>3. ASSUME m <= e - b, NEW j \in 1..m PROVE Folded(t, r)[e - m + j] = Fold(t[e - m + j], r.sensitive)
  <2>1. e - m + j \in 1..Len(t)
    BY <1>1, <1>2, <1>3
  <2> QED BY <1>2, <2>1 DEF Folded
<1>4. m \in 0..(e - b) <=> e - m \in b..(e - m)
  BY <1>1
<1> HIDE DEF m, p
<1>5. Suffix(p, Folded(t, r), b, e, m) <=> /\ m \in 0..(e - b)
                                           /\ \A j \in 1..m : p[j] = Folded(t, r)[e - m + j]
  BY <1>1 DEF Suffix
<1>6. Occurs(t, r, b, e, e - m) <=> /\ m \in 0..(e - b)
                                    /\ \A j \in 1..m : Fold(t[e - m + j], r.sensitive) = p[j]
  BY <1>4 DEF Occurs, m, p
<1>7. m \in 0..(e - b) => m <= e - b
  BY <1>1
<1>8. Suffix(p, Folded(t, r), b, e, m) <=> Occurs(t, r, b, e, e - m)
  BY <1>3, <1>5, <1>6, <1>7
<1> QED BY <1>8 DEF m, p

\* The state of the matcher, with the pattern and the text of a request.
LEMMA StepOnText ==
  ASSUME NEW r \in Requests, NEW t \in Seq(Bytes), NEW x \in Bytes, NEW b \in 0..Len(t), NEW s,
         Longest(Pattern(r), Folded(t, r), b, Len(t), Len(r.keyword) - 1, s)
  PROVE  Longest(Pattern(r), Folded(Append(t, x), r), b, Len(t) + 1, Len(r.keyword),
                 Step(Pattern(r), FailureTable(Pattern(r)), s, Fold(x, r.sensitive)))
<1> DEFINE p == Pattern(r)
           u == Append(t, x)
           e == Len(t)
<1>1. Len(p) = Len(r.keyword) /\ Len(p) \in Nat \ {0} /\ p \in Seq(Bytes \cup {"a"}) /\ p # <<>>
  BY PatternLength
<1>2. e \in Nat /\ b \in Nat /\ b <= e /\ Len(u) = e + 1 /\ DOMAIN u = 1..(e + 1) /\ DOMAIN t = 1..e
  OBVIOUS
<1>3. \A i \in 1..e : u[i] = t[i]
  OBVIOUS
<1>4. u[e + 1] = x
  OBVIOUS
<1> HIDE DEF p, u, e
<1>5. /\ \A i \in (b + 1)..e : Folded(t, r)[i] = Folded(u, r)[i]
      /\ Folded(u, r)[e + 1] = Fold(x, r.sensitive)
  BY <1>2, <1>3, <1>4 DEF Folded
<1>6. Longest(p, Folded(u, r), b, e, Len(p) - 1, s)
  <2>1. \A k : Suffix(p, Folded(t, r), b, e, k) <=> Suffix(p, Folded(u, r), b, e, k)
    BY <1>1, <1>2, <1>5, SuffixOfBoth
  <2>2. Longest(p, Folded(t, r), b, e, Len(p) - 1, s)
    BY <1>1 DEF p, e
  <2> QED BY <2>1, <2>2 DEF Longest
<1>7. s \in 0..(Len(p) - 1)
  BY <1>1, <1>6 DEF Longest, Suffix
<1>8. RightUpTo(p, FailureTable(p), s)
  BY <1>1, <1>7, FailureTableRight DEF RightUpTo
<1>9. Longest(p, Folded(u, r), b, e + 1, Len(p), Step(p, FailureTable(p), s, Folded(u, r)[e + 1]))
  BY <1>1, <1>2, <1>6, <1>7, <1>8, StepRight
<1> QED BY <1>1, <1>5, <1>9 DEF p, u, e

\* An occurrence in the line with one byte more is an old one, or ends with the byte.
LEMMA NewOccurrence ==
  ASSUME NEW r \in Requests, NEW t \in Seq(Bytes), NEW x \in Bytes, NEW b \in 0..Len(t), NEW i,
         Occurs(Append(t, x), r, b, Len(t) + 1, i)
  PROVE  Occurs(t, r, b, Len(t), i) \/ i = Len(t) + 1 - Len(r.keyword)
<1>1. Len(r.keyword) \in Nat \ {0} /\ Len(t) \in Nat
  BY PatternLength
<1>2. i \in b..(Len(t) + 1 - Len(r.keyword))
  BY DEF Occurs
<1>3. CASE i = Len(t) + 1 - Len(r.keyword)
  BY <1>3
<1>4. CASE i # Len(t) + 1 - Len(r.keyword)
  <2>1. i \in b..(Len(t) - Len(r.keyword))
    BY <1>1, <1>2, <1>4
  <2>2. Occurs(Append(t, x), r, b, Len(t), i)
    BY <2>1 DEF Occurs
  <2>3. Len(t) \in 0..Len(t) /\ b \in Nat
    BY <1>1
  <2> QED BY <2>2, <2>3, AppendKeepsOccurrences
<1> QED BY <1>3, <1>4

\* Sequences with one element more or less.
LEMMA AppendOf ==
  ASSUME NEW S, NEW w \in Seq(S), NEW x \in S
  PROVE  /\ Append(w, x) \in Seq(S) /\ Len(Append(w, x)) = Len(w) + 1
         /\ Append(w, x)[Len(w) + 1] = x /\ \A i \in 1..Len(w) : Append(w, x)[i] = w[i]
OBVIOUS

LEMMA TailOf ==
  ASSUME NEW S, NEW w \in Seq(S), w # <<>>
  PROVE  /\ Tail(w) \in Seq(S) /\ Len(Tail(w)) = Len(w) - 1 /\ Len(w) \in Nat
         /\ \A i \in 1..(Len(w) - 1) : Tail(w)[i] = w[i + 1]
OBVIOUS

\* The window still holds the last bytes of the line when one is added to it.
LEMMA SlideRight ==
  ASSUME NEW r \in Requests, NEW t \in Seq(Bytes), NEW x \in Bytes, NEW n \in 0..Len(t), NEW w,
         Windowed(t, r, n, w)
  PROVE  Windowed(Append(t, x), r, n + 1, Slide(r, w, x))
<1> SUFFICES ASSUME NEW v, v = Slide(r, w, x), NEW u, u = Append(t, x)
             PROVE  Windowed(u, r, n + 1, v)
  OBVIOUS
<1>0. PICK c \in Nat \ {0}, z \in Nat, q \in Nat : c = WindowCapacity(r) /\ z = Len(t) /\ q = Len(w)
  BY PatternLength DEF Windowed
<1>a. /\ w \in Seq(Bytes) /\ q <= c /\ (q = n \/ (q = c /\ c <= n))
      /\ \A i \in 1..q : w[i] = t[z - q + i]
  BY <1>0 DEF Windowed
<1>b. Len(u) = z + 1
  BY <1>0
<1>1. q <= c /\ (q = n \/ (q = c /\ c <= n)) /\ n \in Nat /\ n <= z /\ q <= z
  BY <1>0, <1>a
<1>2. (\A i \in 1..z : u[i] = t[i]) /\ u[z + 1] = x
  BY <1>0
<1>3. \A i \in 1..q : w[i] = t[z - q + i]
  BY <1>a
<1>4. CASE q = c
  <2>1. v = Append(Tail(w), x) /\ w # <<>>
    BY <1>0, <1>4 DEF Slide
  <2>2. Tail(w) \in Seq(Bytes) /\ Len(Tail(w)) = c - 1 /\ \A i \in 1..(c - 1) : Tail(w)[i] = w[i + 1]
    <3>1. /\ Tail(w) \in Seq(Bytes) /\ Len(Tail(w)) = Len(w) - 1
          /\ \A i \in 1..(Len(w) - 1) : Tail(w)[i] = w[i + 1]
      BY <1>a, <2>1, TailOf
    <3> QED BY ONLY <3>1, <1>0, <1>4
  <2>3. v \in Seq(Bytes) /\ Len(v) = c /\ v[c] = x /\ \A i \in 1..(c - 1) : v[i] = w[i + 1]
    <3>1. /\ v \in Seq(Bytes) /\ Len(v) = Len(Tail(w)) + 1 /\ v[Len(Tail(w)) + 1] = x
          /\ \A i \in 1..Len(Tail(w)) : v[i] = Tail(w)[i]
      BY <2>1, <2>2, AppendOf
    <3>2. c - 1 + 1 = c
      BY ONLY <1>0
    <3> QED BY ONLY <3>1, <3>2, <2>2
  <2>4. ASSUME NEW i \in 1..c PROVE v[i] = u[z + 1 - c + i]
    <3>1. CASE i = c
      <4>1. z + 1 - c + i = z + 1
        BY ONLY <3>1
      <4> QED BY ONLY <1>2, <2>3, <3>1, <4>1
    <3>2. CASE i # c
      <4>1. i \in 1..(c - 1) /\ i + 1 \in 1..q
        BY ONLY <1>4, <3>2
      <4>2. z + 1 - c + i \in 1..z /\ z - q + (i + 1) = z + 1 - c + i
        BY ONLY <1>1, <1>4, <4>1
      <4> QED BY ONLY <1>2, <1>3, <2>3, <4>1, <4>2
    <3> QED BY <3>1, <3>2
  <2>5. c <= n + 1
    BY ONLY <1>1, <1>4
  <2> QED BY ONLY <1>0, <1>b, <2>3, <2>4, <2>5 DEF Windowed
<1>5. CASE q # c
  <2>1. v = Append(w, x) /\ q = n /\ n < c
    BY <1>0, <1>1, <1>5 DEF Slide
  <2>2. v \in Seq(Bytes) /\ Len(v) = n + 1 /\ v[n + 1] = x /\ \A i \in 1..n : v[i] = w[i]
    <3>1. /\ v \in Seq(Bytes) /\ Len(v) = Len(w) + 1 /\ v[Len(w) + 1] = x
          /\ \A i \in 1..Len(w) : v[i] = w[i]
      BY <1>a, <2>1, AppendOf
    <3> QED BY ONLY <3>1, <1>0, <2>1
  <2>3. ASSUME NEW i \in 1..(n + 1) PROVE v[i] = u[z + 1 - (n + 1) + i]
    <3>1. CASE i = n + 1
      <4>1. z + 1 - (n + 1) + i = z + 1
        BY ONLY <1>1, <3>1
      <4> QED BY ONLY <1>2, <2>2, <3>1, <4>1
    <3>2. CASE i # n + 1
      <4>1. i \in 1..n /\ z - n + i \in 1..z /\ z + 1 - (n + 1) + i = z - n + i
        BY ONLY <1>1, <3>2
      <4> QED BY ONLY <1>2, <1>3, <2>1, <2>2, <4>1
    <3> QED BY <3>1, <3>2
  <2>4. n + 1 <= c
    BY ONLY <1>1, <2>1
  <2> QED BY ONLY <1>0, <1>b, <2>2, <2>3, <2>4 DEF Windowed
<1> QED BY <1>4, <1>5

\* The capture y after one more byte, field by field: w is the window and k the
\* state that the byte leads to.
Pushed(l, m, x, place, w, k, y) ==
  /\ y.start = l.start /\ y.number = l.number /\ y.bytes = l.bytes + 1
  /\ y = [number |-> y.number, start |-> y.start, bytes |-> y.bytes, state |-> y.state,
          window |-> y.window, preview |-> y.preview, previewStart |-> y.previewStart,
          match |-> y.match]
  /\ l.match # None =>
       /\ y.state = l.state /\ y.window = l.window /\ y.match = l.match
       /\ y.previewStart = l.previewStart
       /\ y.preview = IF Len(l.preview) < request.maxLine THEN Append(l.preview, x) ELSE l.preview
  /\ l.match = None /\ k = m =>
       /\ y.state = FailureTable(Pattern(request))[m] /\ y.window = w /\ y.match = place + 1 - m
       /\ y.previewStart = l.bytes + 1 - Len(w) /\ y.preview = w
  /\ l.match = None /\ k # m =>
       /\ y.state = k /\ y.window = w /\ y.match = None
       /\ y.previewStart = l.previewStart /\ y.preview = l.preview

LEMMA PushFields ==
  ASSUME NEW l \in Captures, NEW x, NEW place, Len(Slide(request, l.window, x)) \in Nat
  PROVE  Pushed(l, Len(Pattern(request)), x, place, Slide(request, l.window, x),
                Step(Pattern(request), FailureTable(Pattern(request)), l.state,
                     Fold(x, request.sensitive)),
                Push(l, x, place))
<1> SUFFICES ASSUME NEW m, m = Len(Pattern(request)),
                    NEW w, w = Slide(request, l.window, x), Len(w) \in Nat,
                    NEW k, k = Step(Pattern(request), FailureTable(Pattern(request)), l.state,
                                    Fold(x, request.sensitive)),
                    NEW y, y = Push(l, x, place)
             PROVE  Pushed(l, m, x, place, w, k, y)
  OBVIOUS
<1>1. l = [number |-> l.number, start |-> l.start, bytes |-> l.bytes, state |-> l.state,
           window |-> l.window, preview |-> l.preview, previewStart |-> l.previewStart,
           match |-> l.match]
  BY DEF Captures
<1>2. PICK read : read = [l EXCEPT !.bytes = @ + 1]
  OBVIOUS
<1>3. read = [number |-> l.number, start |-> l.start, bytes |-> l.bytes + 1, state |-> l.state,
              window |-> l.window, preview |-> l.preview, previewStart |-> l.previewStart,
              match |-> l.match]
  BY <1>1, <1>2
<1>4. y = IF l.match # None
          THEN IF Len(l.preview) < request.maxLine
               THEN [read EXCEPT !.preview = Append(@, x)]
               ELSE read
          ELSE IF k = m
          THEN [read EXCEPT !.window = w, !.state = FailureTable(Pattern(request))[k],
                            !.match = place + 1 - m,
                            !.previewStart = read.bytes - Len(w),
                            !.preview = w]
          ELSE [read EXCEPT !.window = w, !.state = k]
  BY <1>2 DEF Push
<1>5. CASE l.match # None /\ Len(l.preview) < request.maxLine
  <2>1. y = [read EXCEPT !.preview = Append(@, x)]
    BY ONLY <1>4, <1>5
  <2> QED BY ONLY <2>1, <1>3, <1>5 DEF Pushed
<1>6. CASE l.match # None /\ ~(Len(l.preview) < request.maxLine)
  <2>1. y = read
    BY ONLY <1>4, <1>6
  <2> QED BY ONLY <2>1, <1>3, <1>6 DEF Pushed
<1>7. CASE l.match = None /\ k = m
  <2>1. PICK f, first, from : f = FailureTable(Pattern(request))[m] /\ first = place + 1 - m /\ from = read.bytes - Len(w)
    OBVIOUS
  <2>2. read.bytes = l.bytes + 1
    BY ONLY <1>3
  <2>3. y = [read EXCEPT !.window = w, !.state = f, !.match = first, !.previewStart = from, !.preview = w]
    <3>1. y = [read EXCEPT !.window = w, !.state = FailureTable(Pattern(request))[k],
                            !.match = place + 1 - m,
                            !.previewStart = read.bytes - Len(w),
                            !.preview = w]
      BY ONLY <1>4, <1>7
    <3>2. FailureTable(Pattern(request))[k] = f
      BY ONLY <1>7, <2>1
    <3> QED BY ONLY <3>1, <3>2, <2>1
  <2>4. y = [number |-> l.number, start |-> l.start, bytes |-> l.bytes + 1, state |-> f,
             window |-> w, preview |-> w, previewStart |-> from, match |-> first]
    BY ONLY <2>3, <1>3
  <2>5. from = l.bytes + 1 - Len(w)
    <3>1. l.bytes \in Nat
      BY DEF Captures
    <3> QED BY <2>1, <2>2, <3>1
  <2> QED BY ONLY <2>1, <2>4, <2>5, <1>7 DEF Pushed
<1>8. CASE l.match = None /\ k # m
  <2>1. y = [read EXCEPT !.window = w, !.state = k]
    BY ONLY <1>4, <1>8
  <2> QED BY ONLY <2>1, <1>3, <1>8 DEF Pushed
<1> QED BY <1>5, <1>6, <1>7, <1>8 DEF Pushed

\* The first occurrence stays the first, and the preview a piece of the line that
\* shows it.
LEMMA FirstStays ==
  ASSUME NEW r \in Requests, NEW t \in Seq(Bytes), NEW x \in Bytes, NEW b \in 0..Len(t), NEW i \in Nat,
         First(t, r, b, Len(t), i)
  PROVE  First(Append(t, x), r, b, Len(t) + 1, i)
<1> DEFINE n == Len(t)
           m == Len(r.keyword)
<1>1. n \in Nat /\ m \in Nat /\ b \in Nat /\ n \in 0..Len(t)
  BY PatternLength
<1>2. Occurs(t, r, b, n, i) /\ Occurs(Append(t, x), r, b, n, i)
  BY <1>1, AppendKeepsOccurrences DEF First
<1>3. i \in b..(n - m)
  BY <1>2 DEF Occurs
<1>4. Occurs(Append(t, x), r, b, n + 1, i)
  <2>1. i \in b..(n + 1 - m)
    BY <1>1, <1>3
  <2> QED BY <1>2, <2>1 DEF Occurs
<1>5. ASSUME NEW j \in Int, Occurs(Append(t, x), r, b, n + 1, j) PROVE i <= j
  <2>1. Occurs(t, r, b, n, j) \/ j = n + 1 - m
    BY <1>5, NewOccurrence
  <2>2. j = n + 1 - m => i <= j
    BY <1>1, <1>3
  <2>3. Occurs(t, r, b, n, j) => i <= j
    BY DEF First
  <2> QED BY <2>1, <2>2, <2>3
<1> QED BY <1>4, <1>5 DEF First

LEMMA MatchStays ==
  ASSUME NEW r \in Requests, NEW t \in Seq(Bytes), NEW x \in Bytes, NEW b \in 0..Len(t),
         NEW n \in Nat, n = Len(t) - b, NEW place, NEW a \in Nat, NEW v \in Seq(Bytes),
         Matched(t, r, b, n, place, a, v)
  PROVE  /\ Len(v) < r.maxLine => Matched(Append(t, x), r, b, n + 1, place, a, Append(v, x))
         /\ ~(Len(v) < r.maxLine) => Matched(Append(t, x), r, b, n + 1, place, a, v)
<1> SUFFICES ASSUME NEW v2, v2 = (IF Len(v) < r.maxLine THEN Append(v, x) ELSE v)
             PROVE  Matched(Append(t, x), r, b, n + 1, place, a, v2)
  OBVIOUS
<1>1. r.maxLine \in Nat /\ Len(r.keyword) \in Nat
  BY PatternLength
<1>2. PICK i \in Nat : First(t, r, b, Len(t), i) /\ place = Start.offset + i /\ a <= i - b /\ i - b + Len(r.keyword) <= a + Len(v)
  BY DEF Matched
<1>3. First(Append(t, x), r, b, Len(t) + 1, i)
  BY <1>2, FirstStays
<1>4. Len(t) \in Nat /\ Len(v) \in Nat /\ b \in Nat /\ b + n = Len(t)
  OBVIOUS
<1>5. /\ Len(v) <= r.maxLine
      /\ a + Len(v) = n \/ (Len(v) = r.maxLine /\ a + Len(v) < n)
      /\ \A k \in 1..Len(v) : v[k] = t[b + a + k]
  BY DEF Matched
<1>6. \A k \in 1..Len(v) : v[k] = Append(t, x)[b + a + k]
  <2>1. ASSUME NEW k \in 1..Len(v) PROVE b + a + k \in 1..Len(t)
    BY <1>4, <1>5
  <2> QED BY <1>5, <2>1
<1>7. Len(Append(t, x)) = Len(t) + 1
  OBVIOUS
<1>8. CASE Len(v) < r.maxLine
  <2>1. v2 = Append(v, x) /\ a + Len(v) = n
    BY <1>1, <1>4, <1>5, <1>8
  <2>2. v2 \in Seq(Bytes) /\ Len(v2) = Len(v) + 1 /\ v2[Len(v) + 1] = x /\ \A k \in 1..Len(v) : v2[k] = v[k]
    BY <2>1
  <2>3. ASSUME NEW k \in 1..Len(v2) PROVE v2[k] = Append(t, x)[b + a + k]
    <3>1. CASE k = Len(v) + 1
      <4>1. b + a + k = Len(t) + 1
        <5>1. PICK q \in Nat, z \in Nat : q = Len(v) /\ z = Len(t)
          BY <1>4
        <5>2. b \in Nat /\ b + n = z /\ a + q = n /\ k = q + 1
          BY ONLY <1>4, <2>1, <3>1, <5>1
        <5>3. b + a + k = z + 1
          BY ONLY <5>2
        <5> QED BY ONLY <5>1, <5>3
      <4> QED BY <2>2, <3>1, <4>1
    <3>2. CASE k # Len(v) + 1
      <4>1. k \in 1..Len(v)
        BY <1>4, <2>2, <3>2
      <4> QED BY <1>6, <2>2, <4>1
    <3> QED BY <3>1, <3>2
  <2>4. Len(v2) <= r.maxLine /\ a + Len(v2) = n + 1 /\ i - b + Len(r.keyword) <= a + Len(v2)
    <3>1. PICK m \in Nat, top \in Nat, q \in Nat :
            m = Len(r.keyword) /\ top = r.maxLine /\ q = Len(v) /\ Len(v2) = q + 1
      BY <1>1, <1>4, <2>2
    <3>2. q < top /\ a + q = n /\ i - b + m <= a + q
      BY ONLY <1>2, <1>8, <2>1, <3>1
    <3>3. q + 1 <= top /\ a + (q + 1) = n + 1 /\ i - b + m <= a + (q + 1)
      BY ONLY <1>4, <3>2
    <3> QED BY ONLY <3>1, <3>3
  <2> QED BY <1>2, <1>3, <1>7, <2>2, <2>3, <2>4 DEF Matched
<1>9. CASE ~(Len(v) < r.maxLine)
  <2>1. v2 = v /\ Len(v) = r.maxLine /\ a + Len(v) < n + 1
    BY <1>1, <1>4, <1>5, <1>9
  <2> QED BY <1>2, <1>3, <1>5, <1>6, <1>7, <2>1 DEF Matched
<1> QED BY <1>8, <1>9

\* What one more byte makes of it: u is the text with that byte, k the state
\* that the byte leads to and v the window.
Grown(u, r, b, n, k, v) ==
  /\ Windowed(u, r, n, v)
  /\ k # Len(r.keyword) => k \in 0..(Len(r.keyword) - 1) /\ Unmatched(u, r, b, n, k, v)
  /\ k = Len(r.keyword) =>
       /\ FailureTable(Pattern(r))[k] \in 0..(Len(r.keyword) - 1)
       /\ n - Len(v) \in Nat /\ Start.offset + Len(u) - Len(r.keyword) \in Nat
       /\ Matched(u, r, b, n, Start.offset + Len(u) - Len(r.keyword), n - Len(v), v)

LEMMA UnmatchedGrows ==
  ASSUME NEW r \in Requests, NEW t \in Seq(Bytes), NEW x \in Bytes, NEW b \in 0..Len(t),
         NEW n \in Nat, n = Len(t) - b, NEW s, NEW w,
         Unmatched(t, r, b, n, s, w)
  PROVE  Grown(Append(t, x), r, b, n + 1, Step(Pattern(r), FailureTable(Pattern(r)), s, Fold(x, r.sensitive)),
               Slide(r, w, x))
<1> SUFFICES ASSUME NEW k, k = Step(Pattern(r), FailureTable(Pattern(r)), s, Fold(x, r.sensitive)),
                    NEW v, v = Slide(r, w, x)
             PROVE  Grown(Append(t, x), r, b, n + 1, k, v)
  OBVIOUS
<1>0. PICK u \in Seq(Bytes), p \in Seq(Bytes \cup {"a"}), m \in Nat \ {0}, z \in Nat, c \in Nat, top \in Nat, o \in Nat :
        /\ u = Append(t, x) /\ p = Pattern(r) /\ m = Len(r.keyword) /\ z = Len(t)
        /\ c = WindowCapacity(r) /\ top = r.maxLine /\ o = Start.offset
        /\ Len(p) = m /\ p # <<>> /\ m <= c /\ c <= top
  <2>1. Append(t, x) \in Seq(Bytes) /\ Len(t) \in Nat
    OBVIOUS
  <2>2. Start.offset \in Nat
    BY StartAssumption
  <2> QED BY <2>1, <2>2, PatternLength
<1>1. n = z - b /\ b \in Nat /\ b <= z /\ n <= z /\ n \in 0..z
  BY <1>0
<1>2. Len(u) = z + 1
  BY <1>0
<1>3. k \in 0..m /\ Longest(p, Folded(u, r), b, z + 1, m, k)
  <2>1. Longest(p, Folded(u, r), b, z + 1, m, k)
    BY <1>0, StepOnText DEF Unmatched
  <2> QED BY ONLY <1>0, <2>1 DEF Longest, Suffix
<1>4. \A i \in Int : Occurs(u, r, b, z + 1, i) => i = z + 1 - m
  BY <1>0, NewOccurrence DEF Unmatched
<1>w. Windowed(u, r, n + 1, v)
  <2>1. n \in 0..Len(t)
    BY <1>0, <1>1
  <2>2. Windowed(Append(t, x), r, n + 1, Slide(r, w, x))
    BY <2>1, SlideRight DEF Unmatched
  <2> QED BY <1>0, <2>2
<1>5. PICK q \in Nat : q = Len(v)
  BY <1>w DEF Windowed
<1>6. /\ v \in Seq(Bytes) /\ q <= c
      /\ q = n + 1 \/ (q = c /\ c <= n + 1)
      /\ \A i \in 1..q : v[i] = u[z + 1 - q + i]
  <2>1. /\ v \in Seq(Bytes) /\ Len(v) <= WindowCapacity(r)
        /\ Len(v) = n + 1 \/ (Len(v) = WindowCapacity(r) /\ WindowCapacity(r) <= n + 1)
        /\ \A i \in 1..Len(v) : v[i] = u[Len(u) - Len(v) + i]
    BY ONLY <1>w DEF Windowed
  <2>2. WindowCapacity(r) = c /\ Len(v) = q /\ Len(u) = z + 1
    BY ONLY <1>0, <1>2, <1>5
  <2>3. v \in Seq(Bytes) /\ q <= c /\ (q = n + 1 \/ (q = c /\ c <= n + 1))
    BY ONLY <2>1, <2>2
  <2>4. \A i \in 1..q : v[i] = u[z + 1 - q + i]
    BY ONLY <2>1, <2>2
  <2> QED BY ONLY <2>3, <2>4
<1>7. Suffix(p, Folded(u, r), b, z + 1, m) <=> Occurs(u, r, b, z + 1, z + 1 - m)
  <2>1. PICK e \in 0..Len(u) : e = z + 1
    BY ONLY <1>0, <1>2
  <2>2. Suffix(Pattern(r), Folded(u, r), b, e, Len(r.keyword)) <=> Occurs(u, r, b, e, e - Len(r.keyword))
    BY <1>1, SuffixOccurs
  <2>3. Pattern(r) = p /\ Len(r.keyword) = m
    BY ONLY <1>0
  <2> QED BY ONLY <2>1, <2>2, <2>3
<1>8. ASSUME k # m PROVE k \in 0..(m - 1) /\ Unmatched(u, r, b, n + 1, k, v)
  <2>1. k \in 0..(m - 1)
    BY ONLY <1>0, <1>3, <1>8
  <2>2. ~Suffix(p, Folded(u, r), b, z + 1, m)
    BY ONLY <1>0, <1>3, <2>1 DEF Longest
  <2>3. \A i \in Int : ~Occurs(u, r, b, z + 1, i)
    BY ONLY <1>4, <1>7, <2>2
  <2>4. Longest(p, Folded(u, r), b, z + 1, m - 1, k)
    <3>1. \A j \in 0..(m - 1) : j \in 0..m
      BY ONLY <1>0
    <3>2. k <= m - 1
      BY ONLY <1>0, <2>1
    <3> QED BY ONLY <1>3, <3>1, <3>2 DEF Longest
  <2> QED BY ONLY <1>0, <1>2, <1>w, <2>1, <2>3, <2>4 DEF Unmatched
<1>9. ASSUME k = m
      PROVE  /\ FailureTable(p)[k] \in 0..(m - 1)
             /\ n + 1 - q \in Nat /\ o + z + 1 - m \in Nat
             /\ Matched(u, r, b, n + 1, o + z + 1 - m, n + 1 - q, v)
  <2>1. Suffix(p, Folded(u, r), b, z + 1, m)
    BY ONLY <1>3, <1>9 DEF Longest
  <2>2. m <= z + 1 - b
    BY ONLY <1>0, <1>1, <2>1 DEF Suffix
  <2>3. PICK i \in Nat, a \in Nat, place \in Nat :
          i = z + 1 - m /\ i - b = n + 1 - m /\ place = o + i /\ place = o + z + 1 - m /\ a = n + 1 - q
    <3>1. z + 1 - m \in Nat /\ n + 1 - q \in Nat /\ z + 1 - m - b = n + 1 - m
      BY ONLY <1>0, <1>1, <1>5, <1>6, <2>2
    <3>2. PICK i \in Nat : i = z + 1 - m
      BY ONLY <3>1
    <3>3. o + i \in Nat /\ o + i = o + z + 1 - m
      <4>1. o \in Nat /\ z \in Nat /\ m \in Nat
        BY ONLY <1>0
      <4> QED BY ONLY <3>2, <4>1
    <3> QED BY ONLY <3>1, <3>2, <3>3
  <2>4. First(u, r, b, z + 1, i)
    BY ONLY <1>4, <1>7, <2>1, <2>3 DEF First
  <2>5. m <= q
    BY ONLY <1>0, <1>1, <1>6, <2>2
  <2>6. a <= i - b /\ i - b + m <= a + q /\ a + q = n + 1 /\ q <= top
    BY ONLY <1>0, <1>1, <1>6, <2>3, <2>5
  <2>7. ASSUME NEW j \in 1..q PROVE v[j] = u[b + a + j]
    <3>1. b + a + j = z + 1 - q + j
      BY ONLY <1>1, <2>3
    <3> QED BY ONLY <1>6, <3>1
  <2>8. FailureTable(p)[m] \in 0..(m - 1)
    <3>1. m \in 1..Len(p)
      BY ONLY <1>0
    <3>2. RightUpTo(p, FailureTable(p), Len(p))
      BY <1>0, FailureTableRight
    <3>3. Longest(p, p, 1, m, Len(p), FailureTable(p)[m])
      BY ONLY <3>1, <3>2 DEF RightUpTo
    <3> QED BY ONLY <3>3 DEF Longest, Suffix
  <2>9. Matched(u, r, b, n + 1, place, a, v)
    BY ONLY <1>0, <1>2, <1>5, <2>3, <2>4, <2>6, <2>7 DEF Matched
  <2> QED BY ONLY <1>9, <2>3, <2>8, <2>9
<1>10. o + Len(u) - m = o + z + 1 - m
  <2>1. o \in Nat /\ z \in Nat /\ m \in Nat
    BY ONLY <1>0
  <2>2. o + (z + 1) - m = o + z + 1 - m
    BY ONLY <2>1
  <2> QED BY ONLY <1>2, <2>2
<1>11. m = Len(r.keyword) /\ p = Pattern(r) /\ q = Len(v) /\ u = Append(t, x) /\ o = Start.offset
  BY ONLY <1>0, <1>5
<1>12. Grown(u, r, b, n + 1, k, v)
  <2>1. PICK place, from : place = Start.offset + Len(u) - Len(r.keyword) /\ from = n + 1 - Len(v)
    OBVIOUS
  <2>2. place = o + z + 1 - m /\ from = n + 1 - q
    BY ONLY <1>10, <1>11, <2>1
  <2>3. k = m => /\ FailureTable(Pattern(r))[k] \in 0..(m - 1) /\ from \in Nat /\ place \in Nat
                 /\ Matched(u, r, b, n + 1, place, from, v)
    BY ONLY <1>9, <1>11, <2>2
  <2>4. k # m => k \in 0..(m - 1) /\ Unmatched(u, r, b, n + 1, k, v)
    BY ONLY <1>8
  <2>5. m = Len(r.keyword)
    BY ONLY <1>11
  <2> QED BY ONLY <1>w, <2>1, <2>3, <2>4, <2>5 DEF Grown
<1> QED BY ONLY <1>11, <1>12

\* A byte that is no newline makes the line longer.
LEMMA LineGrows ==
  ASSUME NEW t \in Seq(Bytes), NEW x \in Bytes \ {Newline}, NEW b \in 0..Len(t), IsLine(t, b, Len(t))
  PROVE  IsLine(Append(t, x), b, Len(t) + 1)
<1>1. PICK u \in Seq(Bytes), n \in Nat :
        /\ u = Append(t, x) /\ n = Len(t) /\ Len(u) = n + 1 /\ u[n + 1] = x
        /\ \A i \in 1..n : u[i] = t[i]
  <2>1. Append(t, x) \in Seq(Bytes) /\ Len(t) \in Nat
    OBVIOUS
  <2>2. /\ Len(Append(t, x)) = Len(t) + 1 /\ Append(t, x)[Len(t) + 1] = x
        /\ \A i \in 1..Len(t) : Append(t, x)[i] = t[i]
    BY AppendOf
  <2> QED BY ONLY <2>1, <2>2
<1>2. /\ b \in 0..n /\ (b = 0 \/ t[b] = Newline) /\ \A i \in (b + 1)..n : t[i] # Newline
  BY <1>1 DEF IsLine
<1>3. b \in 0..(n + 1) /\ n + 1 \in b..(n + 1)
  BY ONLY <1>1, <1>2
<1>4. b = 0 \/ u[b] = Newline
  <2>1. b = 0 \/ b \in 1..n
    BY ONLY <1>1, <1>2
  <2> QED BY ONLY <1>1, <1>2, <2>1
<1>5. ASSUME NEW i \in (b + 1)..(n + 1) PROVE u[i] # Newline
  <2>1. i = n + 1 \/ (i \in 1..n /\ i \in (b + 1)..n)
    BY ONLY <1>1, <1>2, <1>5
  <2> QED BY <1>1, <1>2, <2>1
<1>6. IsLine(u, b, n + 1)
  BY ONLY <1>1, <1>3, <1>4, <1>5 DEF IsLine
<1> QED BY <1>1, <1>6

\* push_byte keeps the capture right.
LEMMA PushRight ==
  ASSUME request \in Requests, NEW t \in Seq(Bytes), NEW x \in Bytes \ {Newline}, NEW b, NEW l,
         Capturing(t, request, b, l)
  PROVE  Capturing(Append(t, x), request, b, Push(l, x, Start.offset + Len(t)))
<1>1. PICK u \in Seq(Bytes), z \in Nat, m \in Nat \ {0}, o \in Nat :
        /\ u = Append(t, x) /\ z = Len(t) /\ m = Len(request.keyword) /\ o = Start.offset
        /\ Len(Pattern(request)) = m /\ Len(u) = z + 1
  <2>1. Append(t, x) \in Seq(Bytes) /\ Len(t) \in Nat /\ Len(Append(t, x)) = Len(t) + 1
    OBVIOUS
  <2>2. Start.offset \in Nat
    BY StartAssumption
  <2> QED BY <2>1, <2>2, PatternLength
<1>2. /\ l \in Captures /\ b \in 0..Len(t) /\ l.start = o + b /\ l.bytes = z - b
      /\ IsLine(t, b, Len(t)) /\ l.number = Start.line + NewlinesUpTo(t, b)
      /\ l.state < m /\ Len(l.window) <= WindowCapacity(request)
  BY <1>1 DEF Capturing
<1>3. PICK n \in Nat : n = l.bytes
  BY <1>2 DEF Captures
<1>4. PICK w, k, y :
        /\ w = Slide(request, l.window, x)
        /\ k = Step(Pattern(request), FailureTable(Pattern(request)), l.state, Fold(x, request.sensitive))
        /\ y = Push(l, x, o + z)
  OBVIOUS
<1>5. Len(w) \in Nat
  <2>1. l.window \in Seq(Bytes) /\ x \in Bytes
    BY <1>2 DEF Captures
  <2>2. PICK v : v = l.window
    OBVIOUS
  <2>3. Tail(v) \in Seq(Bytes) \/ v = <<>>
    BY <2>1, <2>2
  <2>4. WindowCapacity(request) # 0
    BY PatternLength
  <2>5. Len(v) = WindowCapacity(request) => v # <<>>
    BY <2>4
  <2>6. w \in Seq(Bytes)
    BY <1>4, <2>1, <2>2, <2>3, <2>5, AppendOf DEF Slide
  <2> QED BY <2>6
<1>6. Pushed(l, m, x, o + z, w, k, y)
  BY <1>1, <1>2, <1>4, <1>5, PushFields
<1>7. /\ l.number \in Nat /\ l.start \in Nat /\ l.state \in Nat /\ l.window \in Seq(Bytes)
      /\ l.preview \in Seq(Bytes) /\ l.previewStart \in Nat /\ l.match \in Nat \cup {None}
  BY <1>2 DEF Captures
<1>8. ASSUME y.state \in 0..(m - 1), y.window \in Seq(Bytes), Len(y.window) <= WindowCapacity(request),
             y.preview \in Seq(Bytes), y.previewStart \in Nat, y.match \in Nat \cup {None},
             y.match = None => Unmatched(u, request, b, n + 1, y.state, y.window),
             y.match # None => Matched(u, request, b, n + 1, y.match, y.previewStart, y.preview)
      PROVE  Capturing(u, request, b, y)
  <2>1. y \in Captures
    <3>1. y.number \in Nat /\ y.start \in Nat /\ y.bytes \in Nat /\ y.state \in Nat
      <4>1. y.start = l.start /\ y.number = l.number /\ y.bytes = n + 1
        BY <1>3, <1>6 DEF Pushed
      <4> QED BY ONLY <1>1, <1>7, <1>8, <4>1
    <3>2. y = [number |-> y.number, start |-> y.start, bytes |-> y.bytes, state |-> y.state,
               window |-> y.window, preview |-> y.preview, previewStart |-> y.previewStart,
               match |-> y.match]
      BY ONLY <1>6 DEF Pushed
    <3> QED BY ONLY <1>8, <3>1, <3>2 DEF Captures
  <2>2. b \in 0..Len(u) /\ y.start = o + b /\ y.bytes = Len(u) - b
    <3>1. y.start = l.start /\ y.bytes = n + 1
      BY ONLY <1>3, <1>6 DEF Pushed
    <3>2. b \in 0..z /\ n = z - b
      BY <1>1, <1>2, <1>3
    <3>3. b \in 0..(z + 1) /\ n + 1 = z + 1 - b
      BY ONLY <1>1, <3>2
    <3> QED BY ONLY <1>1, <1>2, <3>1, <3>3
  <2>3. IsLine(u, b, Len(u))
    <3>1. IsLine(Append(t, x), b, Len(t) + 1)
      BY <1>2, LineGrows
    <3> QED BY <1>1, <3>1
  <2>4. y.number = Start.line + NewlinesUpTo(u, b)
    <3>1. NewlinesUpTo(Append(t, x), b) = NewlinesUpTo(t, b)
      BY <1>2, AppendKeepsCount
    <3>2. y.number = l.number
      BY ONLY <1>6 DEF Pushed
    <3> QED BY <1>1, <1>2, <3>1, <3>2
  <2>5. y.state < m
    BY <1>8
  <2>6. y.bytes = n + 1
    BY ONLY <1>3, <1>6 DEF Pushed
  <2> QED BY ONLY <1>1, <1>8, <2>1, <2>2, <2>3, <2>4, <2>5, <2>6 DEF Capturing
<1>9. ASSUME l.match # None PROVE Capturing(u, request, b, y)
  <2>1. Matched(t, request, b, n, l.match, l.previewStart, l.preview)
    BY <1>3, <1>9 DEF Capturing
  <2>2. /\ y.state = l.state /\ y.window = l.window /\ y.match = l.match
        /\ y.previewStart = l.previewStart
        /\ y.preview = IF Len(l.preview) < request.maxLine THEN Append(l.preview, x) ELSE l.preview
    BY ONLY <1>6, <1>9 DEF Pushed
  <2>3. n = Len(t) - b /\ x \in Bytes
    BY <1>1, <1>2, <1>3
  <2>4. /\ Len(l.preview) < request.maxLine =>
             Matched(Append(t, x), request, b, n + 1, l.match, l.previewStart, Append(l.preview, x))
        /\ ~(Len(l.preview) < request.maxLine) =>
             Matched(Append(t, x), request, b, n + 1, l.match, l.previewStart, l.preview)
    BY <1>2, <1>7, <2>1, <2>3, MatchStays
  <2>5. Append(l.preview, x) \in Seq(Bytes)
    BY <1>7, <2>3, AppendOf
  <2>6. y.preview \in Seq(Bytes) /\ Matched(u, request, b, n + 1, y.match, y.previewStart, y.preview)
    BY ONLY <1>1, <1>7, <2>2, <2>4, <2>5
  <2>7. l.state \in 0..(m - 1)
    BY ONLY <1>1, <1>2, <1>7
  <2> QED BY ONLY <1>2, <1>7, <1>8, <1>9, <2>2, <2>6, <2>7
<1>10. ASSUME l.match = None PROVE Capturing(u, request, b, y)
  <2>1. Unmatched(t, request, b, n, l.state, l.window)
    BY <1>3, <1>10 DEF Capturing
  <2>2. n = Len(t) - b /\ x \in Bytes
    BY <1>1, <1>2, <1>3
  <2>3. Grown(u, request, b, n + 1, k, w)
    <3>1. Grown(Append(t, x), request, b, n + 1,
                Step(Pattern(request), FailureTable(Pattern(request)), l.state, Fold(x, request.sensitive)),
                Slide(request, l.window, x))
      BY <1>2, <2>1, <2>2, UnmatchedGrows
    <3> QED BY ONLY <1>1, <1>4, <3>1
  <2>4. w \in Seq(Bytes) /\ Len(w) <= WindowCapacity(request)
    BY ONLY <2>3 DEF Grown, Windowed
  <2>5. CASE k = m
    <3>1. PICK place, from : place = Start.offset + Len(u) - Len(request.keyword) /\ from = n + 1 - Len(w)
      OBVIOUS
    <3>2. m = Len(request.keyword) /\ Start.offset + Len(u) - Len(request.keyword) = o + (z + 1) - m
      BY ONLY <1>1
    <3>3. o + (z + 1) - m = o + z + 1 - m
      <4>1. o \in Nat /\ z \in Nat /\ m \in Nat
        BY ONLY <1>1
      <4> QED BY ONLY <4>1
    <3>4. place = o + z + 1 - m
      BY ONLY <3>1, <3>2, <3>3
    <3>5. k = Len(request.keyword)
      BY ONLY <2>5, <3>2
    <3>6. /\ FailureTable(Pattern(request))[k] \in 0..(Len(request.keyword) - 1)
          /\ from \in Nat /\ place \in Nat
          /\ Matched(u, request, b, n + 1, place, from, w)
      BY ONLY <2>3, <3>1, <3>5 DEF Grown
    <3>7. /\ y.state = FailureTable(Pattern(request))[k] /\ y.window = w /\ y.match = place
          /\ y.previewStart = from /\ y.preview = w
      BY ONLY <1>3, <1>6, <1>10, <2>5, <3>1, <3>4 DEF Pushed
    <3>8. place # None
      BY ONLY <3>6, NoneAssumption
    <3> QED BY ONLY <1>8, <2>4, <3>2, <3>6, <3>7, <3>8
  <2>6. CASE k # m
    <3>1. k \in 0..(m - 1) /\ Unmatched(u, request, b, n + 1, k, w)
      BY ONLY <1>1, <2>3, <2>6 DEF Grown
    <3>2. /\ y.state = k /\ y.window = w /\ y.match = None
          /\ y.previewStart = l.previewStart /\ y.preview = l.preview
      BY ONLY <1>6, <1>10, <2>6 DEF Pushed
    <3> QED BY ONLY <1>7, <1>8, <2>4, <3>1, <3>2
  <2> QED BY <2>5, <2>6
<1> QED BY <1>1, <1>4, <1>9, <1>10
-----------------------------------------------------------------------------
\* A piece of the line behind its first `from` bytes.
Piece(t, s, e, from, c) ==
  /\ c \in Seq(Bytes) /\ from + Len(c) <= e - s
  /\ \A j \in 1..Len(c) : c[j] = t[s + from + j]

\* All of the line, but for a return at its end.
Whole(t, s, e, c) ==
  /\ Piece(t, s, e, 0, c)
  /\ t[e] = Return => Len(c) = e - s - 1
  /\ t[e] # Return => Len(c) = e - s

\* The content shows the first occurrence in the line, which is at place.
Shows(t, r, s, e, place, c) ==
  /\ Len(c) <= r.maxLine
  /\ \E i, from \in Nat :
       /\ First(t, r, s, e, i) /\ place = Start.offset + i
       /\ Piece(t, s, e, from, c)
       /\ from <= i - s /\ i - s + Len(r.keyword) <= from + Len(c)

\* The result m is right about the line from s to e.
Describes(t, r, m, s, e) ==
  /\ m.start = Start.offset + s /\ m.bytes = e - s
  /\ m.number = Start.line + NewlinesUpTo(t, s)
  /\ Shows(t, r, s, e, m.match, m.content)
  /\ m.truncated \/ Whole(t, s, e, m.content)

\* The keyword has no return, so an occurrence does not end in one.
LEMMA NoReturnInMatch ==
  ASSUME NEW r \in Requests, NEW t \in Seq(Bytes), NEW s, NEW e, NEW i, Occurs(t, r, s, e, i)
  PROVE  t[i + Len(r.keyword)] # Return
<1>1. r.keyword \in Seq(Bytes) /\ Len(r.keyword) \in Nat \ {0}
  BY PatternLength
<1>2. Len(r.keyword) \in 1..Len(r.keyword)
  BY <1>1
<1>3. Fold(t[i + Len(r.keyword)], r.sensitive) = Fold(r.keyword[Len(r.keyword)], r.sensitive)
  <2>1. Fold(t[i + Len(r.keyword)], r.sensitive) = Pattern(r)[Len(r.keyword)]
    BY <1>2 DEF Occurs
  <2>2. DOMAIN r.keyword = 1..Len(r.keyword)
    BY <1>1
  <2>3. Pattern(r)[Len(r.keyword)] = Fold(r.keyword[Len(r.keyword)], r.sensitive)
    BY <1>2, <2>2 DEF Pattern
  <2> QED BY <2>1, <2>3
<1>4. r.keyword[Len(r.keyword)] # Return
  <2>1. PICK w : w = r.keyword
    OBVIOUS
  <2>2. Len(w) \in DOMAIN w /\ ToSet(w) \cap {Newline, Return} = {}
    <3>1. w \in Seq(Bytes) /\ Len(w) \in 1..Len(w)
      BY <1>1, <1>2, <2>1
    <3>2. Len(w) \in DOMAIN w
      BY ONLY <3>1
    <3> QED BY <2>1, <3>2, RequestsAssumption
  <2>3. w[Len(w)] \in ToSet(w)
    BY <2>2 DEF ToSet
  <2>4. w[Len(w)] # Return
    BY <2>2, <2>3
  <2> QED BY <2>1, <2>4
<1> QED BY <1>3, <1>4 DEF Fold, Return

LEMMA FrontOf ==
  ASSUME NEW S, NEW w \in Seq(S), w # <<>>
  PROVE  /\ Front(w) \in Seq(S) /\ Len(Front(w)) = Len(w) - 1
         /\ \A i \in 1..(Len(w) - 1) : Front(w)[i] = w[i]
<1>1. PICK n \in Nat : Len(w) = n + 1
  <2>1. Len(w) \in Nat /\ Len(w) # 0
    OBVIOUS
  <2>2. Len(w) - 1 \in Nat /\ Len(w) = (Len(w) - 1) + 1
    BY <2>1
  <2> QED BY <2>2
<1>2. Front(w) = SubSeq(w, 1, n)
  BY <1>1 DEF Front
<1>3. \A i \in 1..n : i \in 1..Len(w) /\ w[i] \in S
  BY <1>1
<1>4. SubSeq(w, 1, n) \in Seq(S) /\ Len(SubSeq(w, 1, n)) = n /\ \A i \in 1..n : SubSeq(w, 1, n)[i] = w[i]
  BY <1>1, <1>3
<1> QED BY <1>1, <1>2, <1>4

\* take_match makes the content of a result out of the preview.
LEMMA ContentRight ==
  ASSUME NEW r \in Requests, NEW t \in Seq(Bytes), NEW b \in 0..Len(t),
         NEW n \in Nat, n = Len(t) - b, NEW place, NEW a \in Nat, NEW v \in Seq(Bytes),
         Matched(t, r, b, n, place, a, v),
         NEW c, c = (IF a + Len(v) = n /\ v # <<>> /\ Last(v) = Return THEN Front(v) ELSE v)
  PROVE  /\ Shows(t, r, b, Len(t), place, c)
         /\ a = 0 /\ a + Len(v) = n => Whole(t, b, Len(t), c)
<1>1. PICK z \in Nat, m \in Nat \ {0}, q \in Nat, top \in Nat :
        z = Len(t) /\ m = Len(r.keyword) /\ q = Len(v) /\ top = r.maxLine
  <2>1. Len(t) \in Nat /\ Len(v) \in Nat
    OBVIOUS
  <2> QED BY <2>1, PatternLength
<1>2. PICK i \in Nat : /\ First(t, r, b, z, i) /\ place = Start.offset + i
                       /\ a <= i - b /\ i - b + m <= a + q
  BY <1>1 DEF Matched
<1>3. /\ q <= top /\ (a + q = n \/ (q = top /\ a + q < n))
      /\ \A j \in 1..q : v[j] = t[b + a + j]
  BY <1>1 DEF Matched
<1>4. b \in Nat /\ b + n = z /\ z - b = n /\ a + q <= n
  BY ONLY <1>1, <1>3, b \in 0..Len(t), n = Len(t) - b
<1>5. q \in 1..q
  BY ONLY <1>1, <1>2
<1>6. v # <<>> /\ Last(v) = v[q] /\ v[q] = t[b + a + q]
  BY <1>1, <1>3, <1>5 DEF Last
<1>7. CASE a + q = n /\ t[z] = Return
  <2>1. b + a + q = z
    BY ONLY <1>1, <1>4, <1>7
  <2>2. c = Front(v)
    BY <1>1, <1>6, <1>7, <2>1
  <2>3. c \in Seq(Bytes) /\ Len(c) = q - 1 /\ \A j \in 1..(q - 1) : c[j] = v[j]
    BY <1>1, <1>6, <2>2, FrontOf
  <2>4. i + m # z
    BY <1>1, <1>2, <1>7, NoReturnInMatch DEF First
  <2>5. i - b + m <= a + (q - 1) /\ q - 1 \in Nat /\ q - 1 <= top /\ a + (q - 1) <= z - b
    <3>1. q >= 1 /\ q \in Nat /\ i \in Nat /\ m \in Nat
      BY ONLY <1>1, <1>2, <1>5
    <3>2. i - b + m # a + q
      BY ONLY <1>4, <1>7, <2>1, <2>4, <3>1
    <3>3. i - b + m <= a + q /\ b \in Nat /\ a \in Nat /\ q <= top /\ top \in Nat /\ a + q <= z - b /\ z \in Nat
      BY ONLY <1>1, <1>2, <1>3, <1>4, a \in Nat
    <3> QED BY ONLY <3>1, <3>2, <3>3
  <2>6. Piece(t, b, z, a, c)
    <3>1. \A j \in 1..(q - 1) : c[j] = t[b + a + j]
      <4>1. \A j \in 1..(q - 1) : j \in 1..q
        BY ONLY <1>1
      <4> QED BY ONLY <1>3, <2>3, <4>1
    <3> QED BY ONLY <2>3, <2>5, <3>1 DEF Piece
  <2>7. Shows(t, r, b, z, place, c)
    BY ONLY <1>1, <1>2, <2>3, <2>5, <2>6 DEF Shows
  <2>8. a = 0 => Whole(t, b, z, c)
    <3>1. a = 0 => q - 1 = z - b - 1
      BY ONLY <1>1, <1>4, <1>7
    <3> QED BY ONLY <1>7, <2>3, <2>6, <3>1 DEF Whole
  <2> QED BY ONLY <1>1, <2>7, <2>8
<1>8. CASE ~(a + q = n /\ t[z] = Return)
  <2>1. a + q = n => b + a + q = z
    BY ONLY <1>1, <1>4
  <2>2. c = v
    BY <1>1, <1>6, <1>8, <2>1
  <2>3. Piece(t, b, z, a, c)
    BY ONLY <1>1, <1>3, <1>4, <2>2, v \in Seq(Bytes) DEF Piece
  <2>4. Shows(t, r, b, z, place, c)
    BY ONLY <1>1, <1>2, <1>3, <2>2, <2>3 DEF Shows
  <2>5. a = 0 /\ a + q = n => Whole(t, b, z, c)
    <3>1. a = 0 /\ a + q = n => q = z - b
      BY ONLY <1>1, <1>4
    <3> QED BY ONLY <1>1, <1>8, <2>2, <2>3, <3>1 DEF Whole
  <2> QED BY ONLY <1>1, <2>4, <2>5
<1> QED BY <1>7, <1>8

\* The result of a line describes it.
LEMMA MatchDescribed ==
  ASSUME request \in Requests, NEW t \in Seq(Bytes), NEW b, NEW l, Capturing(t, request, b, l), l.match # None
  PROVE  /\ Describes(t, request, ScanMatch(l), b, Len(t))
         /\ Content(l) \in Seq(Bytes) /\ Len(Content(l)) <= request.maxLine
<1>1. /\ l \in Captures /\ b \in 0..Len(t) /\ l.start = Start.offset + b /\ l.bytes = Len(t) - b
      /\ l.number = Start.line + NewlinesUpTo(t, b)
      /\ Matched(t, request, b, l.bytes, l.match, l.previewStart, l.preview)
  BY DEF Capturing
<1>2. l.bytes \in Nat /\ l.previewStart \in Nat /\ l.preview \in Seq(Bytes)
  BY <1>1 DEF Captures
<1>a. PICK place, c : place = l.match /\ c = Content(l)
  OBVIOUS
<1>3. PICK n \in Nat, a \in Nat, v \in Seq(Bytes) :
        n = l.bytes /\ a = l.previewStart /\ v = l.preview /\ place = l.match /\ c = Content(l)
  BY <1>2, <1>a
<1>4. c = (IF a + Len(v) = n /\ v # <<>> /\ Last(v) = Return THEN Front(v) ELSE v)
  BY <1>3 DEF Content, CoversLineEnd
<1>5. /\ Shows(t, request, b, Len(t), place, c)
      /\ a = 0 /\ a + Len(v) = n => Whole(t, b, Len(t), c)
  <2>1. b \in 0..Len(t) /\ n = Len(t) - b /\ Matched(t, request, b, n, place, a, v)
    BY <1>1, <1>3
  <2> QED BY <1>4, <2>1, ContentRight
<1>6. c \in Seq(Bytes) /\ Len(c) <= request.maxLine
  BY <1>5 DEF Shows, Piece
<1>7. PICK m : m = ScanMatch(l)
  OBVIOUS
<1>8. /\ m.number = l.number /\ m.start = l.start /\ m.match = place /\ m.bytes = n /\ m.content = c
      /\ m.truncated = (a > 0 \/ ~CoversLineEnd(l))
  BY <1>3, <1>7 DEF ScanMatch
<1>9. ~(a > 0 \/ ~CoversLineEnd(l)) => a = 0 /\ a + Len(v) = n
  BY <1>3 DEF CoversLineEnd
<1>10. m.truncated \/ Whole(t, b, Len(t), m.content)
  BY <1>5, <1>8, <1>9
<1>11. Describes(t, request, m, b, Len(t))
  BY <1>1, <1>3, <1>5, <1>8, <1>10 DEF Describes
<1> QED BY <1>3, <1>6, <1>7, <1>11
-----------------------------------------------------------------------------
\* A line has one end and one start.
LEMMA LineEndUnique ==
  ASSUME NEW t, Len(t) \in Nat, NEW s, NEW e, NEW f, IsLine(t, s, e), IsLine(t, s, f)
  PROVE  e = f
<1>1. ASSUME NEW i, NEW j, IsLine(t, s, i), IsLine(t, s, j), i < j PROVE FALSE
  <2>1. i \in Nat /\ j \in Nat /\ s \in Nat /\ s <= i /\ j <= Len(t)
    BY <1>1 DEF IsLine
  <2>2. i + 1 \in (s + 1)..j /\ i # Len(t)
    BY <1>1, <2>1
  <2>3. t[i + 1] = Newline
    BY <1>1, <2>2 DEF IsLine
  <2> QED BY <1>1, <2>2, <2>3 DEF IsLine
<1>2. e \in Nat /\ f \in Nat
  BY DEF IsLine
<1>3. ~(e < f) /\ ~(f < e)
  BY <1>1
<1> QED BY <1>2, <1>3

LEMMA LineStartUnique ==
  ASSUME NEW t, Len(t) \in Nat, NEW s, NEW b, NEW e, IsLine(t, s, e), IsLine(t, b, e)
  PROVE  s = b
<1>1. ASSUME NEW i, NEW j, IsLine(t, i, e), IsLine(t, j, e), i < j PROVE FALSE
  <2>1. i \in Nat /\ j \in Nat /\ e \in Nat /\ j <= e
    BY <1>1 DEF IsLine
  <2>2. j \in (i + 1)..e /\ j # 0
    BY <1>1, <2>1
  <2> QED BY <1>1, <2>2 DEF IsLine
<1>2. s \in Nat /\ b \in Nat
  BY DEF IsLine
<1>3. ~(s < b) /\ ~(b < s)
  BY <1>1
<1> QED BY <1>2, <1>3

\* What was said of a line that has ended stays true.
LEMMA AppendKeepsPiece ==
  ASSUME NEW t \in Seq(Bytes), NEW x \in Bytes, NEW s \in Nat, NEW e \in 0..Len(t), NEW from \in Nat,
         NEW c, Piece(t, s, e, from, c)
  PROVE  Piece(Append(t, x), s, e, from, c)
<1>1. PICK z \in Nat, q \in Nat : z = Len(t) /\ q = Len(c)
  <2>1. Len(t) \in Nat /\ Len(c) \in Nat
    BY DEF Piece
  <2> QED BY <2>1
<1>2. from + q <= e - s /\ \A j \in 1..q : c[j] = t[s + from + j]
  BY <1>1 DEF Piece
<1>3. e \in 0..z
  BY <1>1
<1>4. \A j \in 1..q : s + from + j \in 1..z
  BY ONLY <1>1, <1>2, <1>3, s \in Nat, from \in Nat
<1>5. \A i \in 1..z : Append(t, x)[i] = t[i]
  BY <1>1, AppendOf
<1>6. \A j \in 1..q : c[j] = Append(t, x)[s + from + j]
  BY ONLY <1>2, <1>4, <1>5
<1> QED BY <1>1, <1>2, <1>6 DEF Piece

LEMMA AppendKeepsDescription ==
  ASSUME NEW r \in Requests, NEW t \in Seq(Bytes), NEW x \in Bytes, NEW s \in Nat, NEW e \in 0..Len(t),
         s <= e, NEW m, Describes(t, r, m, s, e)
  PROVE  Describes(Append(t, x), r, m, s, e)
<1>1. PICK u, c, place : u = Append(t, x) /\ c = m.content /\ place = m.match
  OBVIOUS
<1>2. NewlinesUpTo(u, s) = NewlinesUpTo(t, s)
  <2>1. s \in 0..Len(t)
    OBVIOUS
  <2> QED BY <1>1, <2>1, AppendKeepsCount
<1>3. PICK i, from \in Nat :
        /\ First(t, r, s, e, i) /\ place = Start.offset + i
        /\ Piece(t, s, e, from, c)
        /\ i \in Nat /\ from <= i - s /\ i - s + Len(r.keyword) <= from + Len(c)
  BY <1>1 DEF Describes, Shows
<1>4. First(u, r, s, e, i)
  BY <1>1, <1>3, AppendKeepsFirst
<1>5. Piece(u, s, e, from, c)
  BY <1>1, <1>3, AppendKeepsPiece
<1>6. Shows(u, r, s, e, place, c)
  <2>1. Len(c) <= r.maxLine
    BY <1>1 DEF Describes, Shows
  <2> QED BY ONLY <1>3, <1>4, <1>5, <2>1 DEF Shows
<1>7. u[e] = t[e]
  <2>1. i \in s..(e - Len(r.keyword))
    BY <1>3 DEF First, Occurs
  <2>2. e \in 1..Len(t)
    <3>1. Len(r.keyword) \in Nat \ {0}
      BY PatternLength
    <3>2. PICK k \in Nat \ {0}, z \in Nat : k = Len(r.keyword) /\ z = Len(t)
      BY <3>1
    <3>3. e \in 0..z /\ i \in s..(e - k)
      BY <2>1, <3>2
    <3>4. e \in 1..z
      BY ONLY <3>2, <3>3, s \in Nat
    <3> QED BY ONLY <3>2, <3>4
  <2> QED BY <1>1, <2>2, AppendOf
<1>8. Whole(t, s, e, c) => Whole(u, s, e, c)
  <2>1. Piece(t, s, e, 0, c) => Piece(u, s, e, 0, c)
    BY <1>1, AppendKeepsPiece
  <2> QED BY <1>7, <2>1 DEF Whole
<1>9. Describes(u, r, m, s, e)
  BY <1>1, <1>2, <1>6, <1>8 DEF Describes
<1> QED BY <1>1, <1>9

\* What the results say of the lines that end before z.
SoundTo(t, r, z, rs) ==
  \A j \in 1..Len(rs) : \E s, e \in Nat : IsLine(t, s, e) /\ e < z /\ Describes(t, r, rs[j], s, e)

\* Every line that ends before z and holds the keyword has a result, but for D.
CompleteTo(t, r, z, rs, D) ==
  \A s, e \in Nat, i \in Int :
    IsLine(t, s, e) /\ e < z /\ Occurs(t, r, s, e, i) =>
      s \in D \/ \E j \in 1..Len(rs) : rs[j].start = Start.offset + s

LEMMA SoundOn ==
  ASSUME NEW r \in Requests, NEW t \in Seq(Bytes), NEW x \in Bytes, NEW rs, SoundTo(t, r, Len(t), rs)
  PROVE  SoundTo(Append(t, x), r, Len(t) + 1, rs)
<1>1. PICK u \in Seq(Bytes), z \in Nat : u = Append(t, x) /\ z = Len(t)
  <2>1. Append(t, x) \in Seq(Bytes) /\ Len(t) \in Nat
    OBVIOUS
  <2> QED BY <2>1
<1>2. ASSUME NEW j \in 1..Len(rs)
      PROVE  \E s, e \in Nat : IsLine(u, s, e) /\ e < z + 1 /\ Describes(u, r, rs[j], s, e)
  <2>1. PICK s, e \in Nat : IsLine(t, s, e) /\ e < z /\ Describes(t, r, rs[j], s, e) /\ s \in Nat
    BY <1>1 DEF SoundTo
  <2>2. s <= e /\ e \in 0..Len(t) /\ e < z + 1
    BY <1>1, <2>1 DEF IsLine
  <2>3. IsLine(u, s, e)
    BY <1>1, <2>1, AppendKeepsLines
  <2>4. Describes(u, r, rs[j], s, e)
    BY <1>1, <2>1, <2>2, AppendKeepsDescription
  <2> QED BY <2>1, <2>2, <2>3, <2>4
<1> QED BY <1>1, <1>2 DEF SoundTo

\* With one more byte the line that ended with the text may have been scanned.
LEMMA CompleteOn ==
  ASSUME NEW r \in Requests, NEW t \in Seq(Bytes), NEW x \in Bytes, NEW rs, NEW D, NEW b,
         CompleteTo(t, r, Len(t), rs, D), IsLine(t, b, Len(t))
  PROVE  /\ x # Newline => CompleteTo(Append(t, x), r, Len(t) + 1, rs, D)
         /\ CompleteTo(Append(t, x), r, Len(t) + 1, rs, D \cup {b})
<1>1. PICK u \in Seq(Bytes), z \in Nat : u = Append(t, x) /\ z = Len(t)
  <2>1. Append(t, x) \in Seq(Bytes) /\ Len(t) \in Nat
    OBVIOUS
  <2> QED BY <2>1
<1>2. Len(u) = z + 1 /\ u[z + 1] = x /\ \A i \in 1..z : u[i] = t[i]
  BY <1>1, AppendOf
<1>3. ASSUME NEW s \in Nat, NEW e \in Nat, NEW i \in Int, IsLine(u, s, e), e < z + 1, Occurs(u, r, s, e, i)
      PROVE  /\ x # Newline => s \in D \/ \E j \in 1..Len(rs) : rs[j].start = Start.offset + s
             /\ s \in D \cup {b} \/ \E j \in 1..Len(rs) : rs[j].start = Start.offset + s
  <2>1. e \in 0..Len(t)
    BY <1>1, <1>3
  <2>2. Occurs(t, r, s, e, i)
    BY <1>1, <1>3, <2>1, AppendKeepsOccurrences
  <2>3. CASE e < z
    <3>1. IsLine(t, s, e)
      BY <1>1, <1>3, <2>3, AppendKeepsLines
    <3> QED BY <1>1, <2>2, <2>3, <3>1 DEF CompleteTo
  <2>4. CASE e = z
    <3>1. x = Newline
      BY <1>2, <1>3, <2>4 DEF IsLine
    <3>2. IsLine(t, s, z)
      <4>1. s \in 0..z /\ z \in s..z
        BY <1>3, <2>4 DEF IsLine
      <4>2. s = 0 \/ (s \in 1..z /\ u[s] = Newline)
        BY <1>3, <4>1 DEF IsLine
      <4>3. s = 0 \/ t[s] = Newline
        BY <1>2, <4>2
      <4>4. ASSUME NEW k \in (s + 1)..z PROVE t[k] # Newline
        <5>1. k \in 1..z
          OBVIOUS
        <5>2. u[k] # Newline
          BY <1>3, <2>4 DEF IsLine
        <5> QED BY <1>2, <5>1, <5>2
      <4> QED BY <1>1, <4>1, <4>3, <4>4 DEF IsLine
    <3>3. s = b
      BY <1>1, <3>2, LineStartUnique
    <3> QED BY <3>1, <3>3
  <2> QED BY <1>3, <2>3, <2>4
<1> QED BY <1>1, <1>3 DEF CompleteTo

\* At the end of the input the last line has been scanned as well.
LEMMA AtTheEnd ==
  ASSUME NEW r \in Requests, NEW t \in Seq(Bytes), NEW rs, NEW D, NEW b, IsLine(t, b, Len(t)),
         SoundTo(t, r, Len(t), rs), CompleteTo(t, r, Len(t), rs, D)
  PROVE  SoundTo(t, r, Len(t) + 1, rs) /\ CompleteTo(t, r, Len(t) + 1, rs, D \cup {b})
<1>1. PICK z \in Nat : z = Len(t)
  OBVIOUS
<1>2. SoundTo(t, r, z + 1, rs)
  BY <1>1 DEF SoundTo
<1>3. CompleteTo(t, r, z + 1, rs, D \cup {b})
  <2> SUFFICES ASSUME NEW s \in Nat, NEW e \in Nat, NEW i \in Int, IsLine(t, s, e), e < z + 1, Occurs(t, r, s, e, i)
               PROVE  s \in D \cup {b} \/ \E j \in 1..Len(rs) : rs[j].start = Start.offset + s
    BY DEF CompleteTo
  <2>1. CASE e = z
    BY <1>1, <2>1, LineStartUnique
  <2>2. CASE e < z
    BY <1>1, <2>2 DEF CompleteTo
  <2> QED BY <1>1, <2>1, <2>2
<1> QED BY <1>1, <1>2, <1>3

\* The results are in the order of the lines.
Ascending(rs) == \A i, j \in 1..Len(rs) : i < j => rs[i].start < rs[j].start

\* No result is about the line of b or one that follows.
AllBefore(rs, b) == \A j \in 1..Len(rs) : rs[j].start < Start.offset + b

\* A line without the keyword needs no result; one with it has got one.
LEMMA NothingToAdd ==
  ASSUME NEW r, NEW t, Len(t) \in Nat, NEW z, NEW rs, NEW b, NEW e, IsLine(t, b, e),
         \A i \in Int : ~Occurs(t, r, b, e, i), CompleteTo(t, r, z, rs, {b})
  PROVE  CompleteTo(t, r, z, rs, {})
<1> SUFFICES ASSUME NEW s \in Nat, NEW f \in Nat, NEW i \in Int, IsLine(t, s, f), f < z, Occurs(t, r, s, f, i)
             PROVE  \E j \in 1..Len(rs) : rs[j].start = Start.offset + s
  BY DEF CompleteTo
<1>1. s # b
  BY LineEndUnique
<1> QED BY <1>1 DEF CompleteTo

LEMMA ResultAdded ==
  ASSUME NEW S, NEW rs \in Seq(S), NEW m \in S, NEW r, NEW t, NEW z, NEW b \in Nat, NEW e \in Nat,
         IsLine(t, b, e), e < z, Describes(t, r, m, b, e),
         SoundTo(t, r, z, rs), CompleteTo(t, r, z, rs, {b}), Ascending(rs), AllBefore(rs, b)
  PROVE  /\ SoundTo(t, r, z, Append(rs, m)) /\ CompleteTo(t, r, z, Append(rs, m), {})
         /\ Ascending(Append(rs, m))
         /\ \A c \in Nat : b < c => AllBefore(Append(rs, m), c)
<1>1. PICK q \in Nat, us \in Seq(S) : q = Len(rs) /\ us = Append(rs, m) 
  <2>1. Len(rs) \in Nat /\ Append(rs, m) \in Seq(S)
    OBVIOUS
  <2> QED BY <2>1
<1>2. Len(us) = q + 1 /\ us[q + 1] = m /\ \A j \in 1..q : us[j] = rs[j]
  BY <1>1, AppendOf
<1>3. \A j \in 1..(q + 1) : j = q + 1 \/ j \in 1..q
  OBVIOUS
<1>4. q + 1 \in 1..(q + 1) /\ \A j \in 1..q : j \in 1..(q + 1) /\ j < q + 1
  OBVIOUS
<1>5. m.start = Start.offset + b /\ Start.offset \in Nat
  BY StartAssumption DEF Describes
<1>6. \A j \in 1..q : rs[j].start < m.start
  BY <1>1, <1>5 DEF AllBefore
<1>7. SoundTo(t, r, z, us)
  <2>1. ASSUME NEW j \in 1..(q + 1)
        PROVE  \E s, f \in Nat : IsLine(t, s, f) /\ f < z /\ Describes(t, r, us[j], s, f)
    <3>1. CASE j = q + 1
      BY <1>2, <3>1
    <3>2. CASE j \in 1..q
      BY <1>1, <1>2, <3>2 DEF SoundTo
    <3> QED BY <1>3, <3>1, <3>2
  <2> QED BY <1>2, <2>1 DEF SoundTo
<1>8. CompleteTo(t, r, z, us, {})
  <2> SUFFICES ASSUME NEW s \in Nat, NEW f \in Nat, NEW i \in Int, IsLine(t, s, f), f < z, Occurs(t, r, s, f, i)
               PROVE  \E j \in 1..(q + 1) : us[j].start = Start.offset + s
    BY <1>2 DEF CompleteTo
  <2>1. s = b \/ \E j \in 1..q : rs[j].start = Start.offset + s
    BY <1>1 DEF CompleteTo
  <2> QED BY <1>2, <1>4, <1>5, <2>1
<1>9. Ascending(us)
  <2> SUFFICES ASSUME NEW i \in 1..(q + 1), NEW j \in 1..(q + 1), i < j PROVE us[i].start < us[j].start
    BY <1>2 DEF Ascending
  <2>1. i \in 1..q
    OBVIOUS
  <2>2. CASE j = q + 1
    BY <1>2, <1>6, <2>1, <2>2
  <2>3. CASE j \in 1..q
    BY <1>1, <1>2, <2>1, <2>3 DEF Ascending
  <2> QED BY <1>3, <2>2, <2>3
<1>10. ASSUME NEW c \in Nat, b < c PROVE AllBefore(us, c)
  <2>1. Start.offset + b < Start.offset + c
    BY <1>5, <1>10
  <2>2. ASSUME NEW j \in 1..(q + 1) PROVE us[j].start < Start.offset + c
    <3>1. CASE j = q + 1
      BY <1>2, <1>5, <2>1, <3>1
    <3>2. CASE j \in 1..q
      <4>1. PICK s, f \in Nat : rs[j].start = Start.offset + s
        BY <1>1, <3>2 DEF SoundTo, Describes
      <4>2. Start.offset + s < Start.offset + b
        BY <1>1, <3>2, <4>1 DEF AllBefore
      <4> QED BY <1>2, <1>5, <2>1, <3>2, <4>1, <4>2
    <3> QED BY <1>3, <3>1, <3>2
  <2> QED BY <1>2, <2>2 DEF AllBefore
<1> QED BY <1>1, <1>7, <1>8, <1>9, <1>10

\* Lines and how they are counted.
LEMMA LineEnds ==
  ASSUME NEW t \in Seq(Bytes), NEW b, IsLine(t, b, Len(t))
  PROVE  IsLine(Append(t, Newline), b, Len(t))
<1>1. PICK u \in Seq(Bytes), z \in Nat : u = Append(t, Newline) /\ z = Len(t)
  <2>1. Append(t, Newline) \in Seq(Bytes) /\ Len(t) \in Nat
    BY BytesAssumption
  <2> QED BY <2>1
<1>2. Len(u) = z + 1 /\ u[z + 1] = Newline /\ \A i \in 1..z : u[i] = t[i]
  BY <1>1, BytesAssumption, AppendOf
<1>3. b \in 0..z /\ (b = 0 \/ t[b] = Newline) /\ \A i \in (b + 1)..z : t[i] # Newline
  BY <1>1 DEF IsLine
<1>4. b \in 0..(z + 1) /\ z \in b..(z + 1) /\ (b = 0 \/ b \in 1..z) /\ \A i \in (b + 1)..z : i \in 1..z
  BY <1>3
<1>5. IsLine(u, b, z)
  BY ONLY <1>2, <1>3, <1>4 DEF IsLine
<1> QED BY <1>1, <1>5

LEMMA CountFinite ==
  ASSUME NEW t, NEW s \in Nat
  PROVE  /\ IsFiniteSet({i \in 1..s : t[i] = Newline})
         /\ NewlinesUpTo(t, s) \in Nat /\ NewlinesUpTo(t, s) <= s
<1>1. IsFiniteSet(1..s) /\ Cardinality(1..s) = s
  BY FS_Interval
<1>2. {i \in 1..s : t[i] = Newline} \in SUBSET (1..s)
  OBVIOUS
<1>3. /\ IsFiniteSet({i \in 1..s : t[i] = Newline})
      /\ Cardinality({i \in 1..s : t[i] = Newline}) <= s
  BY <1>1, <1>2, FS_Subset
<1>4. Cardinality({i \in 1..s : t[i] = Newline}) \in Nat
  BY <1>3, FS_CardinalityType
<1> QED BY <1>3, <1>4 DEF NewlinesUpTo

LEMMA CountOn ==
  ASSUME NEW t \in Seq(Bytes), NEW x \in Bytes
  PROVE  NewlinesUpTo(Append(t, x), Len(t) + 1)
           = IF x = Newline THEN NewlinesUpTo(t, Len(t)) + 1 ELSE NewlinesUpTo(t, Len(t))
<1>1. PICK u \in Seq(Bytes), z \in Nat : u = Append(t, x) /\ z = Len(t)
  <2>1. Append(t, x) \in Seq(Bytes) /\ Len(t) \in Nat
    OBVIOUS
  <2> QED BY <2>1
<1>2. u[z + 1] = x /\ \A i \in 1..z : u[i] = t[i]
  BY <1>1, AppendOf
<1>3. PICK F : F = {i \in 1..z : t[i] = Newline}
  OBVIOUS
<1>4. IsFiniteSet(F) /\ z + 1 \notin F
  <2>1. IsFiniteSet({i \in 1..z : t[i] = Newline})
    BY CountFinite
  <2>2. z + 1 \notin 1..z
    OBVIOUS
  <2> QED BY <1>3, <2>1, <2>2
<1>5. \A i \in 1..(z + 1) : i = z + 1 \/ i \in 1..z
  OBVIOUS
<1>6. \A i \in 1..z : i \in 1..(z + 1)
  OBVIOUS
<1>7. z + 1 \in 1..(z + 1)
  OBVIOUS
<1>8. {i \in 1..(z + 1) : u[i] = Newline} = IF x = Newline THEN F \cup {z + 1} ELSE F
  BY <1>2, <1>3, <1>5, <1>6, <1>7
<1>9. Cardinality(F \cup {z + 1}) = Cardinality(F) + 1
  BY <1>4, FS_AddElement
<1> QED BY <1>1, <1>3, <1>8, <1>9 DEF NewlinesUpTo

LEMMA CountLine ==
  ASSUME NEW t, Len(t) \in Nat, NEW b, IsLine(t, b, Len(t))
  PROVE  NewlinesUpTo(t, Len(t)) = NewlinesUpTo(t, b)
<1>1. PICK z \in Nat : z = Len(t)
  OBVIOUS
<1>2. b \in 0..z /\ \A i \in (b + 1)..z : t[i] # Newline
  BY <1>1 DEF IsLine
<1>3. \A i \in 1..z : i \in 1..b \/ i \in (b + 1)..z
  BY <1>2
<1>4. \A i \in 1..b : i \in 1..z
  BY <1>2
<1>5. {i \in 1..z : t[i] = Newline} = {i \in 1..b : t[i] = Newline}
  BY <1>2, <1>3, <1>4
<1> QED BY <1>1, <1>5 DEF NewlinesUpTo

\* The content of a result is at most three times as long as a String.
LEMMA SizeRight ==
  ASSUME NEW c \in Seq(Bytes)
  PROVE  Size(c) \in Nat /\ Size(c) <= 3 * Len(c)
<1>1. PICK n \in Nat : n = Len(c) /\ DOMAIN c = 1..n
  OBVIOUS
<1>2. IsFiniteSet(1..n) /\ Cardinality(1..n) = n
  BY FS_Interval
<1>3. PICK F \in SUBSET (1..n) : F = {i \in DOMAIN c : c[i] = Invalid}
  BY <1>1
<1>4. IsFiniteSet(F) /\ Cardinality(F) <= n
  BY <1>2, FS_Subset
<1>5. PICK k \in Nat : k = Cardinality(F)
  BY <1>4, FS_CardinalityType
<1>6. Size(c) = n + 2 * k
  BY <1>1, <1>3, <1>5 DEF Size
<1> QED BY <1>1, <1>4, <1>5, <1>6

\* The capture of a line that begins.
LEMMA NoLineRight ==
  ASSUME request \in Requests, NEW t \in Seq(Bytes), t = <<>> \/ t[Len(t)] = Newline,
         NEW position, position = [offset |-> Start.offset + Len(t), line |-> Start.line + NewlinesUpTo(t, Len(t))]
  PROVE  Capturing(t, request, Len(t), NoLine(position))
<1>a. PICK y : y = NoLine(position)
  OBVIOUS
<1>1. PICK z \in Nat, m \in Nat \ {0}, o \in Nat :
        z = Len(t) /\ m = Len(request.keyword) /\ o = Start.offset /\ y = NoLine(position)
  <2>1. Len(t) \in Nat /\ Start.offset \in Nat
    BY StartAssumption
  <2> QED BY <1>a, <2>1, PatternLength
<1>2. NewlinesUpTo(t, z) \in Nat /\ Start.line \in Nat
  BY CountFinite, StartAssumption
<1>3. PICK k \in Nat : k = Start.line + NewlinesUpTo(t, z)
  BY <1>2
<1>4. y = [number |-> k, start |-> o + z, bytes |-> 0, state |-> 0, window |-> <<>>, preview |-> <<>>,
           previewStart |-> 0, match |-> None]
  BY <1>1, <1>3 DEF NoLine
<1>5. y \in Captures
  <2>1. <<>> \in Seq(Bytes) /\ o + z \in Nat
    OBVIOUS
  <2> QED BY ONLY <1>3, <1>4, <2>1 DEF Captures
<1>6. IsLine(t, z, z)
  <2>1. z = 0 \/ t[z] = Newline
    BY <1>1
  <2>2. z \in 0..z /\ z \in z..z
    OBVIOUS
  <2> QED BY <1>1, <2>1, <2>2 DEF IsLine
<1>7. Unmatched(t, request, z, 0, 0, <<>>)
  <2>1. \A i \in Int : ~Occurs(t, request, z, z, i)
    BY <1>1 DEF Occurs
  <2>2. Longest(Pattern(request), Folded(t, request), z, z, m - 1, 0)
    <3>1. Len(Pattern(request)) = m
      BY <1>1, PatternLength
    <3> QED BY <1>1, <3>1 DEF Longest, Suffix
  <2>3. Windowed(t, request, 0, <<>>)
    <3>1. WindowCapacity(request) \in Nat
      BY PatternLength
    <3> QED BY <3>1 DEF Windowed
  <2> QED BY <1>1, <2>1, <2>2, <2>3 DEF Unmatched
<1>8. y.state < m /\ Len(y.window) <= WindowCapacity(request)
  <2>1. WindowCapacity(request) \in Nat /\ Len(<<>>) = 0
    BY PatternLength
  <2> QED BY <1>1, <1>4, <2>1
<1>9. z \in 0..z /\ z - z = 0
  OBVIOUS
<1>10. Capturing(t, request, z, y)
  BY <1>1, <1>3, <1>4, <1>5, <1>6, <1>7, <1>8, <1>9 DEF Capturing
<1> QED BY <1>1, <1>10

-----------------------------------------------------------------------------
\* The results that take_match can make.
Matches == {ScanMatch(l) : l \in Captures}

\* The lines that end before this place in the text have been scanned.
Scanned == IF ReachedEnd THEN Len(text) + 1 ELSE Len(text)

\* The line that broke the content budget, when one did.
Dropped(b) ==
  /\ stop = "ReturnedContentByteLimit" /\ AllBefore(results, b)
  /\ \E e \in Nat, i \in Int : IsLine(text, b, e) /\ e < Scanned /\ Occurs(text, request, b, e, i)
  /\ returned + Size(Content(line)) > request.maxContent
  /\ Content(line) \in Seq(Bytes) /\ Len(Content(line)) <= request.maxLine
  /\ Len(results) < request.maxResults

\* While the scan runs there is room for one more result, and the capture is that
\* of the last line.
Running ==
  /\ next = None
  /\ lines = NewlinesUpTo(text, Len(text))
  /\ returned < request.maxContent /\ Len(results) < request.maxResults
  /\ \E b \in Nat : Capturing(text, request, b, line) /\ AllBefore(results, b)

\* The results are sound and complete; one line may be left out, the one that broke
\* the content budget.
Accounted ==
  /\ SoundTo(text, request, Scanned, results) /\ Ascending(results)
  /\ stop # "Io" =>
       \/ CompleteTo(text, request, Scanned, results, {})
       \/ \E b \in Nat : CompleteTo(text, request, Scanned, results, {b}) /\ Dropped(b)
  /\ stop = "Io" => next = None

\* A result costs at most three times max_line_bytes, so that the number of results
\* bounds their content.
WithinLimits ==
  /\ Len(results) <= request.maxResults /\ returned <= request.maxContent
  /\ stop # "Io" => returned <= (3 * request.maxLine) * Len(results)

\* The inductive invariant.
IInv ==
  /\ TypeOK /\ results \in Seq(Matches)
  /\ stop = None => Running
  /\ Accounted
  /\ WithinLimits
  /\ ContinuationOnLineStart

\* What FinishLine does with the line of b, as Describes and CompleteTo see it:
\* t is the text from then on.
LEMMA FinishRight ==
  ASSUME request \in Requests, text \in Seq(Bytes), results \in Seq(Matches), returned \in Nat,
         NEW b \in Nat, Capturing(text, request, b, line), AllBefore(results, b), Ascending(results),
         NEW t, t = text \/ t = Append(text, Newline),
         SoundTo(t, request, Len(text) + 1, results), CompleteTo(t, request, Len(text) + 1, results, {b}),
         FinishLine
  PROVE  /\ results' \in Seq(Matches) /\ Ascending(results') /\ returned' \in Nat
         /\ SoundTo(t, request, Len(text) + 1, results')
         /\ line.match # None /\ Over(line) =>
              /\ results' = results /\ returned' = returned
              /\ \E i \in Int : Occurs(t, request, b, Len(text), i)
         /\ ~(line.match # None /\ Over(line)) =>
              /\ CompleteTo(t, request, Len(text) + 1, results', {})
              /\ \A c \in Nat : b < c => AllBefore(results', c)
         /\ line.match # None => Content(line) \in Seq(Bytes) /\ Len(Content(line)) <= request.maxLine
<1>1. PICK z \in Nat : z = Len(text)
  OBVIOUS
<1>2. IsLine(text, b, z) /\ line \in Captures
  BY <1>1 DEF Capturing
<1>3. IsLine(t, b, z)
  BY <1>1, <1>2, LineEnds
<1>4. ASSUME NEW i \in Int PROVE Occurs(t, request, b, z, i) <=> Occurs(text, request, b, z, i)
  <2>1. z \in 0..Len(text) /\ Newline \in Bytes
    BY <1>1, BytesAssumption
  <2>2. Occurs(Append(text, Newline), request, b, z, i) <=> Occurs(text, request, b, z, i)
    BY <2>1, AppendKeepsOccurrences
  <2> QED BY <2>2
<1>5. CASE line.match = None
  <2>1. \A i \in Int : ~Occurs(t, request, b, z, i)
    BY <1>1, <1>4, <1>5 DEF Capturing, Unmatched
  <2>2. results' = results /\ returned' = returned
    BY <1>5 DEF FinishLine
  <2>3. Len(t) \in Nat
    BY BytesAssumption
  <2>4. CompleteTo(t, request, z + 1, results, {})
    BY <1>1, <1>3, <2>1, <2>3, NothingToAdd
  <2>5. ASSUME NEW c \in Nat, b < c PROVE AllBefore(results, c)
    <3>1. ASSUME NEW j \in 1..Len(results) PROVE results[j].start < Start.offset + c
      <4>1. PICK s, e \in Nat : results[j].start = Start.offset + s
        BY DEF SoundTo, Describes
      <4>2. Start.offset + s < Start.offset + b /\ Start.offset \in Nat
        BY <4>1, StartAssumption DEF AllBefore
      <4> QED BY <2>5, <4>1, <4>2
    <3> QED BY <3>1 DEF AllBefore
  <2> QED BY <1>1, <1>5, <2>2, <2>4, <2>5
<1>6. CASE line.match # None
  <2>1. /\ Describes(text, request, ScanMatch(line), b, z)
        /\ Content(line) \in Seq(Bytes) /\ Len(Content(line)) <= request.maxLine
    BY <1>1, <1>6, MatchDescribed
  <2>2. Describes(t, request, ScanMatch(line), b, z)
    <3>1. z \in 0..Len(text) /\ b <= z /\ Newline \in Bytes
      BY <1>1, <1>2, BytesAssumption DEF IsLine
    <3> QED BY <1>1, <2>1, <3>1, AppendKeepsDescription
  <2>3. PICK m \in Matches : m = ScanMatch(line)
    BY <1>2 DEF Matches
  <2>4. CASE Over(line)
    <3>1. results' = results /\ returned' = returned
      BY <2>4 DEF FinishLine
    <3>2. \E i \in Int : Occurs(t, request, b, z, i)
      <4>1. PICK i \in Nat : First(t, request, b, z, i)
        BY <2>2 DEF Describes, Shows
      <4> QED BY <4>1 DEF First
    <3> QED BY <1>1, <1>6, <2>1, <2>4, <3>1, <3>2
  <2>5. CASE ~Over(line)
    <3>1. results' = Append(results, m) /\ returned' = returned + Size(Content(line))
      BY <1>6, <2>3, <2>5 DEF FinishLine
    <3>2. returned' \in Nat
      BY <2>1, <3>1, SizeRight
    <3>3. /\ SoundTo(t, request, z + 1, Append(results, m)) /\ CompleteTo(t, request, z + 1, Append(results, m), {})
          /\ Ascending(Append(results, m))
          /\ \A c \in Nat : b < c => AllBefore(Append(results, m), c)
      <4>1. z < z + 1 /\ Describes(t, request, m, b, z)
        BY <2>2, <2>3
      <4> QED BY <1>1, <1>3, <4>1, ResultAdded
    <3>4. Append(results, m) \in Seq(Matches)
      BY AppendOf
    <3> QED BY <1>1, <2>1, <2>5, <3>1, <3>2, <3>3, <3>4
  <2> QED BY <2>4, <2>5
<1> QED BY <1>5, <1>6

LEMMA CapturingTypes ==
  ASSUME NEW r \in Requests, NEW t, NEW b, NEW l, Capturing(t, r, b, l)
  PROVE  /\ l.state \in 0..(Len(r.keyword) - 1) /\ Len(l.window) <= WindowCapacity(r)
         /\ l.start = Start.offset + b /\ l.bytes = Len(t) - b /\ b \in 0..Len(t) /\ l.bytes \in Nat
         /\ IsLine(t, b, Len(t))
<1>1. l.state \in Nat /\ l.state < Len(r.keyword) /\ l.bytes \in Nat
  BY DEF Capturing, Captures
<1>2. Len(r.keyword) \in Nat
  BY PatternLength
<1> QED BY <1>1, <1>2 DEF Capturing

LEMMA InitInv == Init => IInv
<1> SUFFICES ASSUME Init PROVE IInv
  OBVIOUS
<1>1. /\ request \in Requests /\ text = <<>> /\ lines = 0 /\ line = NoLine(Start) /\ results = <<>>
      /\ returned = 0 /\ stop = None /\ next = None
  BY DEF Init
<1>2. Len(text) = 0 /\ text \in Seq(Bytes) /\ results \in Seq(Matches) /\ Len(results) = 0
  BY <1>1
<1>3. stop \notin Reasons
  BY <1>1, NoneAssumption
<1>4. ~ReachedEnd /\ Scanned = 0
  BY <1>2, <1>3 DEF ReachedEnd, Reasons, Scanned
<1>5. NewlinesUpTo(text, 0) = 0
  <2>1. NewlinesUpTo(text, 0) \in Nat /\ NewlinesUpTo(text, 0) <= 0
    BY CountFinite
  <2> QED BY <2>1
<1>6. Capturing(text, request, 0, line)
  <2>1. Start = [offset |-> Start.offset + Len(text), line |-> Start.line + NewlinesUpTo(text, Len(text))]
    <3>1. /\ Start = [offset |-> Start.offset, line |-> Start.line]
          /\ Start.offset \in Nat /\ Start.line \in Nat
      BY StartAssumption
    <3>2. Start.offset + 0 = Start.offset /\ Start.line + 0 = Start.line
      BY <3>1
    <3> QED BY <1>2, <1>5, <3>1, <3>2
  <2> QED BY <1>1, <1>2, <2>1, NoLineRight
<1>7. AllBefore(results, 0) /\ Ascending(results) /\ SoundTo(text, request, Scanned, results)
  BY <1>2 DEF AllBefore, Ascending, SoundTo
<1>8. CompleteTo(text, request, Scanned, results, {})
  BY <1>4 DEF CompleteTo
<1>9. /\ request.maxResults \in Nat \ {0} /\ request.maxContent \in Nat \ {0} /\ request.maxLine \in Nat
  BY <1>1, PatternLength
<1>10. Running
  BY <1>1, <1>2, <1>5, <1>6, <1>7, <1>9 DEF Running
<1>11. WithinLimits
  BY <1>1, <1>2, <1>9 DEF WithinLimits
<1>12. TypeOK
  BY <1>1, <1>2, <1>6, CapturingTypes DEF TypeOK
<1>13. ContinuationOnLineStart
  BY <1>1, <1>3 DEF ContinuationOnLineStart, Reasons
<1> QED BY <1>1, <1>2, <1>7, <1>8, <1>10, <1>11, <1>12, <1>13 DEF IInv, Accounted

\* While the scan runs.
LEMMA RunningFacts ==
  ASSUME IInv, stop = None
  PROVE  /\ Running /\ ~ReachedEnd /\ Scanned = Len(text) /\ stop \notin Reasons
         /\ SoundTo(text, request, Len(text), results) /\ Ascending(results)
         /\ CompleteTo(text, request, Len(text), results, {})
<1>1. stop \notin Reasons
  BY NoneAssumption
<1>2. ~ReachedEnd /\ \A b : ~Dropped(b)
  BY <1>1 DEF ReachedEnd, Reasons, Dropped
<1>3. stop # "Io"
  BY <1>1 DEF Reasons
<1> QED BY <1>1, <1>2, <1>3 DEF IInv, Accounted, Scanned

\* One lemma per step.
LEMMA ByteInv ==
  ASSUME IInv, NEW byte \in Bytes \ {Newline}, ReadByte(byte)
  PROVE  IInv'
<1>1. /\ stop = None /\ text' = Append(text, byte) /\ line' = Push(line, byte, Start.offset + Len(text))
      /\ request' = request /\ lines' = lines /\ results' = results /\ returned' = returned
      /\ stop' = stop /\ next' = next
  BY DEF ReadByte, Reading
<1>2. /\ Running /\ ~ReachedEnd /\ Scanned = Len(text) /\ stop \notin Reasons
      /\ SoundTo(text, request, Len(text), results) /\ Ascending(results)
      /\ CompleteTo(text, request, Len(text), results, {})
  BY <1>1, RunningFacts
<1>3. /\ request \in Requests /\ text \in Seq(Bytes) /\ lines \in 0..Len(text) /\ returned \in Nat
      /\ results \in Seq(Matches)
  BY DEF IInv, TypeOK
<1>4. PICK b \in Nat : Capturing(text, request, b, line) /\ AllBefore(results, b)
  BY <1>2 DEF Running
<1>5. IsLine(text, b, Len(text))
  BY <1>4 DEF Capturing
<1>6. text' \in Seq(Bytes) /\ Len(text') = Len(text) + 1 /\ Len(text) \in Nat
  BY <1>1, <1>3, AppendOf
<1>7. ~ReachedEnd' /\ Scanned' = Len(text) + 1
  BY <1>1, <1>2, <1>6 DEF ReachedEnd, Reasons, Scanned
<1>8. Capturing(text', request', b, line')
  BY <1>1, <1>3, <1>4, PushRight
<1>9. AllBefore(results', b) /\ Ascending(results')
  BY <1>1, <1>2, <1>4 DEF AllBefore, Ascending
<1>10. SoundTo(text', request', Scanned', results')
  BY <1>1, <1>2, <1>3, <1>7, SoundOn
<1>11. CompleteTo(text', request', Scanned', results', {})
  <2>1. CompleteTo(Append(text, byte), request, Len(text) + 1, results, {})
    BY <1>2, <1>3, <1>5, CompleteOn
  <2> QED BY <1>1, <1>7, <2>1
<1>12. Running'
  <2>1. lines' = NewlinesUpTo(text', Len(text'))
    BY <1>1, <1>2, <1>3, <1>6, CountOn DEF Running
  <2> QED BY <1>1, <1>2, <1>8, <1>9, <2>1 DEF Running
<1>13. TypeOK'
  <2>1. line'.state \in 0..(Len(request'.keyword) - 1) /\ Len(line'.window) <= WindowCapacity(request')
    BY <1>1, <1>3, <1>8, CapturingTypes
  <2>2. lines' \in 0..Len(text')
    BY <1>1, <1>3, <1>6
  <2>3. stop' \in Reasons \cup {None} /\ next' \in Positions \cup {None}
    BY <1>1, <1>2 DEF Running
  <2> QED BY <1>1, <1>3, <1>6, <2>1, <2>2, <2>3 DEF TypeOK
<1>14. WithinLimits'
  BY <1>1 DEF IInv, WithinLimits
<1>15. ContinuationOnLineStart'
  BY <1>1, <1>2 DEF ContinuationOnLineStart, Reasons, Running
<1> QED BY <1>1, <1>3, <1>9, <1>10, <1>11, <1>12, <1>13, <1>14, <1>15 DEF IInv, Accounted

LEMMA StartsAre ==
  ASSUME text \in Seq(Bytes)
  PROVE  /\ Cardinality(Newlines) = NewlinesUpTo(text, Len(text))
         /\ Newlines \in SUBSET (1..Len(text)) /\ Len(text) \in Nat
         /\ \A s : s \in Starts <=> s = 0 \/ (s \in 1..Len(text) /\ text[s] = Newline)
<1>1. Newlines = {i \in 1..Len(text) : text[i] = Newline}
  BY DEF Newlines
<1> QED BY <1>1 DEF Starts, NewlinesUpTo

LEMMA StopInv ==
  ASSUME IInv, NEW reason \in Interrupts \cup {"ScanByteLimit"}, StopWith(reason)
  PROVE  IInv'
<1>1. /\ stop = None /\ stop' = reason /\ next' = Boundary(Len(text), lines)
      /\ request' = request /\ text' = text /\ lines' = lines /\ line' = line
      /\ results' = results /\ returned' = returned
  BY DEF StopWith
<1>2. /\ Running /\ ~ReachedEnd /\ Scanned = Len(text) /\ stop \notin Reasons
      /\ SoundTo(text, request, Len(text), results) /\ Ascending(results)
      /\ CompleteTo(text, request, Len(text), results, {})
  BY <1>1, RunningFacts
<1>3. text \in Seq(Bytes) /\ Len(text) \in Nat /\ lines \in 0..Len(text) /\ request \in Requests
  BY DEF IInv, TypeOK
<1>4. PICK b \in Nat : Capturing(text, request, b, line) /\ lines = NewlinesUpTo(text, Len(text))
  BY <1>2 DEF Running
<1>5. line.bytes = Len(text) - b /\ b \in 0..Len(text) /\ IsLine(text, b, Len(text))
  BY <1>3, <1>4, CapturingTypes
<1>6. stop' \in Reasons /\ stop' # None /\ stop' # "Io"
  BY <1>1, NoneAssumption DEF Reasons, Interrupts
<1>7. Scanned' = Len(text)
  BY <1>1 DEF Scanned, ReachedEnd, Interrupts
<1>8. Accounted'
  BY <1>1, <1>2, <1>6, <1>7 DEF Accounted, Ascending
<1>9. PositionAfter(Len(text), lines) \in Positions
  <2>1. Start.offset \in Nat /\ Start.line \in Nat
    BY StartAssumption
  <2>2. Start.offset + Len(text) \in Nat /\ Start.line + lines \in Nat
    BY <1>3, <2>1
  <2> QED BY <2>2 DEF PositionAfter, Positions
<1>10. TypeOK'
  BY <1>1, <1>6, <1>9 DEF IInv, TypeOK, Boundary
<1>11. WithinLimits'
  BY <1>1, <1>2 DEF IInv, WithinLimits, Reasons
<1>12. ContinuationOnLineStart'
  <2>1. CASE line.bytes > 0
    <3>1. next' = None
      BY <1>1, <2>1 DEF Boundary
    <3>2. Len(text) \in (b + 1)..Len(text) /\ Len(text) # 0
      BY <1>3, <1>5, <2>1
    <3>3. Len(text) \notin Starts
      BY <1>3, <1>5, <3>2, StartsAre DEF IsLine
    <3>4. (Len(text) \notin Starts)'
      BY <1>1, <3>3 DEF Starts, Newlines
    <3> QED BY <3>1, <3>4 DEF ContinuationOnLineStart
  <2>2. CASE ~(line.bytes > 0)
    <3>1. next' = PositionAfter(Len(text), lines)
      BY <1>1, <2>2 DEF Boundary
    <3>2. next' # None
      BY <1>9, <3>1, NoneAssumption
    <3>3. b = Len(text)
      BY <1>3, <1>5, <2>2
    <3>4. Len(text) \in Starts
      BY <1>3, <1>5, <3>3, StartsAre DEF IsLine
    <3>5. (Len(text) \in Starts)' /\ Cardinality(Newlines)' = lines
      BY <1>1, <1>3, <1>4, <3>4, StartsAre DEF Starts, Newlines
    <3>6. next'.offset = Start.offset + Len(text) /\ next'.line = Start.line + lines
      BY <3>1 DEF PositionAfter
    <3> QED BY <1>1, <3>2, <3>5, <3>6 DEF ContinuationOnLineStart
  <2> QED BY <2>1, <2>2
<1> QED BY <1>1, <1>6, <1>8, <1>10, <1>11, <1>12 DEF IInv

LEMMA FailsInv ==
  ASSUME IInv, ReadFails
  PROVE  IInv'
<1>1. /\ stop = None /\ stop' = "Io" /\ results' = <<>>
      /\ request' = request /\ text' = text /\ lines' = lines /\ line' = line
      /\ returned' = returned /\ next' = next
  BY DEF ReadFails, Reading
<1>2. Running
  BY <1>1, RunningFacts
<1>3. "Io" \in Reasons
  BY DEF Reasons
<1>4. stop' # None
  BY <1>1, <1>3, NoneAssumption
<1>5. TypeOK'
  BY <1>1, <1>3 DEF IInv, TypeOK
<1>6. WithinLimits'
  <2>1. request.maxResults \in Nat \ {0}
    BY PatternLength DEF IInv, TypeOK
  <2>2. Len(results') = 0
    BY <1>1
  <2> QED BY <1>1, <2>1, <2>2 DEF IInv, WithinLimits
<1>7. ContinuationOnLineStart'
  BY <1>1, <1>2 DEF ContinuationOnLineStart, Running, Interrupts
<1>8. results' \in Seq(Matches) /\ Len(results') = 0
  BY <1>1
<1>9. Accounted'
  BY <1>1, <1>2, <1>8 DEF Accounted, SoundTo, Ascending, Running
<1> QED BY <1>1, <1>4, <1>5, <1>6, <1>7, <1>8, <1>9 DEF IInv

LEMMA StutterInv ==
  ASSUME IInv, UNCHANGED vars
  PROVE  IInv'
BY DEF vars, IInv, TypeOK, Running, Accounted, WithinLimits, ContinuationOnLineStart, Scanned, ReachedEnd,
       Dropped, Starts, Newlines, Ascending

LEMMA OneMore == ASSUME NEW k \in Nat, NEW n \in Nat PROVE k * (n + 1) = k * n + k
OBVIOUS

\* The results and their content stay within the limits when a line is finished.
LEMMA FinishLimits ==
  ASSUME request \in Requests, results \in Seq(Matches), returned \in Nat,
         returned < request.maxContent, Len(results) < request.maxResults,
         returned <= (3 * request.maxLine) * Len(results),
         line.match # None => Content(line) \in Seq(Bytes) /\ Len(Content(line)) <= request.maxLine,
         FinishLine
  PROVE  /\ Len(results') <= request.maxResults /\ returned' <= request.maxContent
         /\ returned' <= (3 * request.maxLine) * Len(results')
         /\ FinishReason(line) = None =>
              /\ Len(results') < request.maxResults /\ returned' < request.maxContent
              /\ ~(line.match # None /\ Over(line))
         /\ line.match # None /\ Over(line) => FinishReason(line) = "ReturnedContentByteLimit"
         /\ FinishReason(line) \in {None, "ResultLimit", "ReturnedContentByteLimit"}
<1>1. /\ "ResultLimit" # None /\ "ReturnedContentByteLimit" # None
  BY NoneAssumption DEF Reasons
<1>2. PICK n \in Nat, k \in Nat, maxContent \in Nat, maxResults \in Nat :
        /\ n = Len(results) /\ k = 3 * request.maxLine /\ maxContent = request.maxContent
        /\ maxResults = request.maxResults
  <2>1. /\ request.maxLine \in Nat /\ request.maxContent \in Nat /\ request.maxResults \in Nat
        /\ Len(results) \in Nat
    BY PatternLength
  <2>2. 3 * request.maxLine \in Nat
    BY <2>1
  <2> QED BY <2>1, <2>2
<1>3. returned < maxContent /\ n < maxResults /\ returned <= k * n
  BY <1>2
<1>4. CASE line.match = None
  <2>1. results' = results /\ returned' = returned
    BY <1>4 DEF FinishLine
  <2>2. FinishReason(line) = None
    BY <1>4 DEF FinishReason
  <2>3. /\ Len(results') < maxResults /\ returned' < maxContent /\ Len(results') <= maxResults
        /\ returned' <= maxContent /\ returned' <= k * Len(results')
    BY ONLY <1>2, <1>3, <2>1, returned \in Nat
  <2> QED BY <1>1, <1>2, <1>4, <2>2, <2>3
<1>5. CASE line.match # None /\ Over(line)
  <2>1. results' = results /\ returned' = returned
    BY <1>5 DEF FinishLine
  <2>2. FinishReason(line) = "ReturnedContentByteLimit"
    BY <1>5 DEF FinishReason
  <2>3. /\ Len(results') <= maxResults /\ returned' <= maxContent /\ returned' <= k * Len(results')
    BY ONLY <1>2, <1>3, <2>1, returned \in Nat
  <2> QED BY <1>1, <1>2, <1>5, <2>2, <2>3
<1>6. CASE line.match # None /\ ~Over(line)
  <2>1. results' = Append(results, ScanMatch(line)) /\ returned' = returned + Size(Content(line))
    BY <1>6 DEF FinishLine
  <2>2. PICK size \in Nat : size = Size(Content(line)) /\ size <= k
    <3>1. PICK c \in Seq(Bytes), q \in Nat, top \in Nat : c = Content(line) /\ q = Len(c) /\ q <= top /\ top = request.maxLine
      <4>1. request.maxLine \in Nat
        BY PatternLength
      <4>2. Len(Content(line)) \in Nat
        BY <1>6
      <4> QED BY <1>6, <4>1, <4>2
    <3>2. Size(c) \in Nat /\ Size(c) <= 3 * q
      BY <3>1, SizeRight
    <3>3. PICK d \in Nat : d = Size(c) /\ d <= 3 * q /\ k = 3 * top
      BY <1>2, <3>1, <3>2
    <3>4. d <= k
      BY ONLY <3>1, <3>3
    <3> QED BY ONLY <3>1, <3>3, <3>4
  <2>3. Len(results') = n + 1
    BY <1>2, <2>1
  <2>4. ~(returned + size > maxContent)
    BY <1>2, <1>6, <2>2 DEF Over
  <2>5. k * (n + 1) = k * n + k
    BY OneMore
  <2>6. k * n \in Nat
    BY ONLY <1>2
  <2>7. PICK kn \in Nat : kn = k * n
    BY <2>6
  <2>8. returned + size <= kn + k /\ returned + size <= maxContent /\ n + 1 <= maxResults
    BY ONLY <1>2, <1>3, <2>2, <2>4, <2>7, returned \in Nat
  <2>9. FinishReason(line) = IF n + 1 >= maxResults THEN "ResultLimit"
                             ELSE IF returned + size >= maxContent THEN "ReturnedContentByteLimit" ELSE None
    BY <1>2, <1>6, <2>2 DEF FinishReason
  <2>10. FinishReason(line) = None => n + 1 < maxResults /\ returned + size < maxContent
    BY ONLY <1>1, <1>2, <2>2, <2>9, returned \in Nat
  <2>11. /\ Len(results') <= maxResults /\ returned' <= maxContent /\ returned' <= k * Len(results')
         /\ FinishReason(line) = None => Len(results') < maxResults /\ returned' < maxContent
    BY ONLY <2>1, <2>2, <2>3, <2>5, <2>7, <2>8, <2>10
  <2>12. FinishReason(line) \in {None, "ResultLimit", "ReturnedContentByteLimit"}
    BY ONLY <2>9
  <2> QED BY <1>2, <1>6, <2>11, <2>12
<1> QED BY <1>4, <1>5, <1>6

\* Common to the two ways a line ends: what the results say of the text t from
\* then on, and which line they may lack.
LEMMA LineFinished ==
  ASSUME IInv, stop = None, NEW b \in Nat, Capturing(text, request, b, line), AllBefore(results, b),
         NEW t, t = text \/ t = Append(text, Newline), FinishLine
  PROVE  /\ results' \in Seq(Matches) /\ Ascending(results') /\ returned' \in Nat
         /\ SoundTo(t, request, Len(text) + 1, results')
         /\ \/ CompleteTo(t, request, Len(text) + 1, results', {})
            \/ /\ CompleteTo(t, request, Len(text) + 1, results', {b}) /\ AllBefore(results', b)
               /\ FinishReason(line) = "ReturnedContentByteLimit"
               /\ IsLine(t, b, Len(text)) /\ \E i \in Int : Occurs(t, request, b, Len(text), i)
               /\ returned' + Size(Content(line)) > request.maxContent
               /\ Content(line) \in Seq(Bytes) /\ Len(Content(line)) <= request.maxLine
               /\ Len(results') < request.maxResults
         /\ Len(results') <= request.maxResults /\ returned' <= request.maxContent
         /\ returned' <= (3 * request.maxLine) * Len(results')
         /\ FinishReason(line) = None =>
              /\ Len(results') < request.maxResults /\ returned' < request.maxContent
              /\ CompleteTo(t, request, Len(text) + 1, results', {}) /\ AllBefore(results', Len(text) + 1)
         /\ FinishReason(line) \in {None, "ResultLimit", "ReturnedContentByteLimit"}
<1>1. /\ Running /\ ~ReachedEnd /\ Scanned = Len(text) /\ stop \notin Reasons
      /\ SoundTo(text, request, Len(text), results) /\ Ascending(results)
      /\ CompleteTo(text, request, Len(text), results, {})
  BY RunningFacts
<1>2. /\ request \in Requests /\ text \in Seq(Bytes) /\ Len(text) \in Nat /\ returned \in Nat
      /\ results \in Seq(Matches) /\ b \in 0..Len(text) /\ IsLine(text, b, Len(text))
  BY CapturingTypes DEF IInv, TypeOK
<1>3. SoundTo(t, request, Len(text) + 1, results) /\ CompleteTo(t, request, Len(text) + 1, results, {b})
  <2>1. CASE t = text
    <3>1. /\ SoundTo(text, request, Len(text) + 1, results)
          /\ CompleteTo(text, request, Len(text) + 1, results, {} \cup {b})
      BY <1>1, <1>2, AtTheEnd
    <3>2. {} \cup {b} = {b}
      OBVIOUS
    <3> QED BY <2>1, <3>1, <3>2
  <2>2. CASE t = Append(text, Newline)
    <3>1. SoundTo(Append(text, Newline), request, Len(text) + 1, results)
      BY <1>1, <1>2, BytesAssumption, SoundOn
    <3>2. CompleteTo(Append(text, Newline), request, Len(text) + 1, results, {} \cup {b})
      BY <1>1, <1>2, BytesAssumption, CompleteOn
    <3>3. {} \cup {b} = {b}
      OBVIOUS
    <3> QED BY <2>2, <3>1, <3>2, <3>3
  <2> QED BY <2>1, <2>2
<1>4. IsLine(t, b, Len(text))
  BY <1>2, LineEnds
<1>5. /\ results' \in Seq(Matches) /\ Ascending(results') /\ returned' \in Nat
      /\ SoundTo(t, request, Len(text) + 1, results')
      /\ line.match # None /\ Over(line) =>
           /\ results' = results /\ returned' = returned
           /\ \E i \in Int : Occurs(t, request, b, Len(text), i)
      /\ ~(line.match # None /\ Over(line)) =>
           /\ CompleteTo(t, request, Len(text) + 1, results', {})
           /\ \A c \in Nat : b < c => AllBefore(results', c)
      /\ line.match # None => Content(line) \in Seq(Bytes) /\ Len(Content(line)) <= request.maxLine
  BY <1>1, <1>2, <1>3, FinishRight
<1>6. /\ returned < request.maxContent /\ Len(results) < request.maxResults
      /\ returned <= (3 * request.maxLine) * Len(results)
  BY <1>1 DEF Running, IInv, WithinLimits, Reasons
<1>7. /\ Len(results') <= request.maxResults /\ returned' <= request.maxContent
      /\ returned' <= (3 * request.maxLine) * Len(results')
      /\ FinishReason(line) = None =>
           /\ Len(results') < request.maxResults /\ returned' < request.maxContent
           /\ ~(line.match # None /\ Over(line))
      /\ line.match # None /\ Over(line) => FinishReason(line) = "ReturnedContentByteLimit"
      /\ FinishReason(line) \in {None, "ResultLimit", "ReturnedContentByteLimit"}
  BY ONLY <1>2, <1>5, <1>6, FinishLine, FinishLimits
<1>8. b < Len(text) + 1 /\ Len(text) + 1 \in Nat
  BY <1>2
<1>9. CASE line.match # None /\ Over(line)
  <2>1. returned' + Size(Content(line)) > request.maxContent
    BY <1>5, <1>9 DEF Over
  <2>2. AllBefore(results', b) /\ CompleteTo(t, request, Len(text) + 1, results', {b})
    BY <1>3, <1>5, <1>9
  <2>3. Len(results') < request.maxResults
    BY <1>5, <1>6, <1>9
  <2> QED BY ONLY <1>4, <1>5, <1>7, <1>9, <2>1, <2>2, <2>3
<1>10. CASE ~(line.match # None /\ Over(line))
  BY ONLY <1>5, <1>7, <1>8, <1>10
<1> QED BY <1>9, <1>10

LEMMA NewlineInv ==
  ASSUME IInv, ReadNewline
  PROVE  IInv'
<1>1. /\ stop = None /\ text' = Append(text, Newline) /\ lines' = lines + 1 /\ FinishLine
      /\ stop' = FinishReason(line) /\ request' = request
      /\ stop' = None => line' = NoLine(PositionAfter(Len(text'), lines')) /\ next' = next
      /\ stop' # None => next' = PositionAfter(Len(text'), lines') /\ line' = line
  BY DEF ReadNewline, Reading
<1>2. /\ Running /\ ~ReachedEnd /\ Scanned = Len(text) /\ stop \notin Reasons
  BY <1>1, RunningFacts
<1>3. /\ request \in Requests /\ text \in Seq(Bytes) /\ Len(text) \in Nat /\ lines \in 0..Len(text)
      /\ lines = NewlinesUpTo(text, Len(text)) /\ next = None
  BY <1>2 DEF IInv, TypeOK, Running
<1>4. PICK b \in Nat : Capturing(text, request, b, line) /\ AllBefore(results, b)
  BY <1>2 DEF Running
<1>a. PICK position : position = PositionAfter(Len(text) + 1, lines + 1)
  OBVIOUS
<1>5. PICK t \in Seq(Bytes), z \in Nat, n \in Nat :
        /\ t = text' /\ z = Len(text) /\ n = lines /\ Len(t) = z + 1 /\ t[z + 1] = Newline
        /\ position = PositionAfter(z + 1, n + 1)
  <2>1. text' \in Seq(Bytes) /\ Len(text') = Len(text) + 1 /\ text'[Len(text) + 1] = Newline
    BY <1>1, <1>3, BytesAssumption, AppendOf
  <2> QED BY <1>3, <1>a, <2>1
<1>6. n + 1 = NewlinesUpTo(t, z + 1)
  BY <1>1, <1>3, <1>5, BytesAssumption, CountOn
<1>7. position = [offset |-> Start.offset + (z + 1), line |-> Start.line + (n + 1)] /\ position \in Positions
  <2>1. Start.offset \in Nat /\ Start.line \in Nat
    BY StartAssumption
  <2>2. Start.offset + (z + 1) \in Nat /\ Start.line + (n + 1) \in Nat
    BY <2>1
  <2> QED BY <1>5, <2>2 DEF PositionAfter, Positions
<1>8. position # None
  BY <1>7, NoneAssumption
<1>9. /\ results' \in Seq(Matches) /\ Ascending(results') /\ returned' \in Nat
      /\ SoundTo(t, request, z + 1, results')
      /\ \/ CompleteTo(t, request, z + 1, results', {})
         \/ /\ CompleteTo(t, request, z + 1, results', {b}) /\ AllBefore(results', b)
            /\ FinishReason(line) = "ReturnedContentByteLimit"
            /\ IsLine(t, b, z) /\ \E i \in Int : Occurs(t, request, b, z, i)
            /\ returned' + Size(Content(line)) > request.maxContent
            /\ Content(line) \in Seq(Bytes) /\ Len(Content(line)) <= request.maxLine
            /\ Len(results') < request.maxResults
      /\ Len(results') <= request.maxResults /\ returned' <= request.maxContent
      /\ returned' <= (3 * request.maxLine) * Len(results')
      /\ FinishReason(line) = None =>
           /\ Len(results') < request.maxResults /\ returned' < request.maxContent
           /\ CompleteTo(t, request, z + 1, results', {}) /\ AllBefore(results', z + 1)
      /\ FinishReason(line) \in {None, "ResultLimit", "ReturnedContentByteLimit"}
  BY <1>1, <1>4, <1>5, LineFinished
<1>10. ~ReachedEnd'
  <2>1. stop' # None => next' # None
    BY <1>1, <1>5, <1>8
  <2>2. stop' = None => stop' \notin Reasons
    BY NoneAssumption
  <2> QED BY <2>1, <2>2 DEF ReachedEnd, Reasons
<1>11. Scanned' = z + 1
  BY <1>5, <1>10 DEF Scanned
<1>12. Accounted'
  <2>0. stop' # "Io"
    BY <1>1, <1>9, NoneAssumption DEF Reasons
  <2>1. CASE CompleteTo(t, request, z + 1, results', {})
    BY <1>1, <1>5, <1>9, <1>11, <2>0, <2>1 DEF Accounted, Ascending
  <2>2. CASE ~CompleteTo(t, request, z + 1, results', {})
    <3>1. stop' = "ReturnedContentByteLimit" /\ stop' # None
      BY <1>1, <1>9, <2>2, NoneAssumption DEF Reasons
    <3>2. line' = line
      BY <1>1, <3>1
    <3>3. \E e \in Nat, i \in Int : IsLine(t, b, e) /\ e < z + 1 /\ Occurs(t, request, b, e, i)
      BY <1>9, <2>2
    <3>4. Dropped(b)'
      BY <1>1, <1>5, <1>9, <1>11, <2>2, <3>1, <3>2, <3>3 DEF Dropped, AllBefore
    <3> QED BY <1>1, <1>5, <1>9, <1>11, <2>2, <3>4 DEF Accounted, Ascending
  <2> QED BY <2>1, <2>2
<1>13. ASSUME stop' = None PROVE Capturing(t, request, z + 1, line')
  <2>1. line' = NoLine(position)
    BY <1>1, <1>5, <1>13
  <2>2. position = [offset |-> Start.offset + Len(t), line |-> Start.line + NewlinesUpTo(t, Len(t))]
    BY <1>5, <1>6, <1>7
  <2>3. t[Len(t)] = Newline
    BY <1>5
  <2>4. Capturing(t, request, Len(t), NoLine(position))
    BY <1>3, <2>2, <2>3, NoLineRight
  <2> QED BY <1>5, <2>1, <2>4
<1>14. ASSUME stop' = None PROVE Running'
  <2>1. next' = None /\ lines' = NewlinesUpTo(text', Len(text'))
    BY <1>1, <1>3, <1>5, <1>6, <1>14
  <2>2. returned' < request'.maxContent /\ Len(results') < request'.maxResults
    BY <1>1, <1>9, <1>14
  <2>3. AllBefore(results', z + 1)
    BY <1>1, <1>9, <1>14
  <2> QED BY <1>1, <1>5, <1>13, <1>14, <2>1, <2>2, <2>3 DEF Running, AllBefore
<1>15. TypeOK'
  <2>1. line'.state \in 0..(Len(request.keyword) - 1) /\ Len(line'.window) <= WindowCapacity(request)
    <3>1. CASE stop' = None
      BY <1>3, <1>13, <3>1, CapturingTypes
    <3>2. CASE stop' # None
      BY <1>1, <3>2 DEF IInv, TypeOK
    <3> QED BY <3>1, <3>2
  <2>2. lines' \in 0..Len(text')
    BY <1>1, <1>3, <1>5
  <2>3. stop' \in Reasons \cup {None}
    BY <1>1, <1>9 DEF Reasons
  <2>4. next' \in Positions \cup {None}
    BY <1>1, <1>3, <1>5, <1>7
  <2> QED BY <1>1, <1>3, <1>5, <1>9, <2>1, <2>2, <2>3, <2>4 DEF TypeOK
<1>16. WithinLimits'
  BY <1>1, <1>9 DEF WithinLimits
<1>17. ContinuationOnLineStart'
  <2>1. Len(text') \in Starts' /\ Cardinality(Newlines') = n + 1
    <3>1. /\ Cardinality(Newlines) = NewlinesUpTo(text, Len(text))
          /\ \A s : s \in Starts <=> s = 0 \/ (s \in 1..Len(text) /\ text[s] = Newline)
      BY <1>3, StartsAre
    <3>2. Newlines' = {i \in 1..(z + 1) : t[i] = Newline}
      BY <1>5 DEF Newlines
    <3>3. z + 1 \in 1..(z + 1)
      OBVIOUS
    <3>4. z + 1 \in Newlines'
      BY <1>5, <3>2, <3>3
    <3> QED BY <1>5, <1>6, <3>2, <3>4 DEF Starts, NewlinesUpTo
  <2>2. stop' = None => stop' \notin Interrupts \cup {"ScanByteLimit"}
    BY NoneAssumption DEF Reasons
  <2>3. stop' # None => next' # None
    BY <1>1, <1>5, <1>8
  <2>4. next' # None => next' = position
    BY <1>1, <1>3, <1>5
  <2>5. next' # None => next'.offset = Start.offset + (z + 1) /\ next'.line = Start.line + (n + 1)
    BY <1>7, <2>4
  <2> QED BY <1>5, <2>1, <2>2, <2>3, <2>5 DEF ContinuationOnLineStart
<1> QED BY <1>9, <1>12, <1>14, <1>15, <1>16, <1>17 DEF IInv

LEMMA EndInv ==
  ASSUME IInv, ReadEnd
  PROVE  IInv'
<1>1. /\ stop = None /\ request' = request /\ text' = text /\ line' = line /\ next' = next
      /\ line.bytes = 0 => stop' = "Complete" /\ lines' = lines /\ results' = results /\ returned' = returned
      /\ line.bytes # 0 =>
           /\ lines' = lines + 1 /\ FinishLine
           /\ stop' = IF FinishReason(line) = None THEN "Complete" ELSE FinishReason(line)
  BY DEF ReadEnd, Reading
<1>2. /\ Running /\ ~ReachedEnd /\ Scanned = Len(text) /\ stop \notin Reasons
      /\ SoundTo(text, request, Len(text), results) /\ Ascending(results)
      /\ CompleteTo(text, request, Len(text), results, {})
  BY <1>1, RunningFacts
<1>3. /\ request \in Requests /\ text \in Seq(Bytes) /\ Len(text) \in Nat /\ lines \in 0..Len(text)
      /\ lines = NewlinesUpTo(text, Len(text)) /\ next = None /\ results \in Seq(Matches) /\ returned \in Nat
  BY <1>2 DEF IInv, TypeOK, Running
<1>4. PICK b \in Nat : Capturing(text, request, b, line) /\ AllBefore(results, b)
  BY <1>2 DEF Running
<1>5. line.bytes = Len(text) - b /\ b \in 0..Len(text) /\ IsLine(text, b, Len(text)) /\ line.bytes \in Nat
  BY <1>3, <1>4, CapturingTypes
<1>6. PICK z \in Nat : z = Len(text)
  BY <1>3
\* What is common to both cases.
<1>7. ASSUME stop' \in {"Complete", "ResultLimit", "ReturnedContentByteLimit"},
             lines' \in 0..z, results' \in Seq(Matches), Ascending(results'), returned' \in Nat,
             SoundTo(text, request, z + 1, results'),
             CompleteTo(text, request, z + 1, results', {}) \/ (stop' # "Complete" /\ ReachedEnd' /\ Accounted'),
             Len(results') <= request.maxResults, returned' <= request.maxContent,
             returned' <= (3 * request.maxLine) * Len(results')
      PROVE  IInv'
  <2>1. stop' # None /\ stop' \in Reasons
    BY <1>7, NoneAssumption DEF Reasons
  <2>2. Scanned' = z + 1
    BY <1>1, <1>3, <1>6, <1>7 DEF Scanned, ReachedEnd
  <2>3. Accounted'
    <3>1. next' = None
      BY <1>1, <1>3
    <3>2. CASE CompleteTo(text, request, z + 1, results', {})
      <4>1. SoundTo(text', request', Scanned', results') /\ CompleteTo(text', request', Scanned', results', {})
        BY <1>1, <1>7, <2>2, <3>2
      <4>2. Ascending(results)'
        BY <1>7 DEF Ascending
      <4> QED BY <3>1, <4>1, <4>2 DEF Accounted
    <3> QED BY <1>7, <3>2
  <2>4. TypeOK'
    BY <1>1, <1>3, <1>6, <1>7, <2>1 DEF IInv, TypeOK
  <2>5. WithinLimits'
    BY <1>1, <1>7 DEF WithinLimits
  <2>6. ContinuationOnLineStart'
    BY <1>1, <1>3, <1>7 DEF ContinuationOnLineStart, Interrupts
  <2> QED BY <1>7, <2>1, <2>3, <2>4, <2>5, <2>6 DEF IInv
<1>8. CASE line.bytes = 0
  <2>1. stop' = "Complete" /\ lines' = lines /\ results' = results /\ returned' = returned
    BY <1>1, <1>8
  <2>2. SoundTo(text, request, z + 1, results) /\ CompleteTo(text, request, z + 1, results, {b})
    <3>1. CompleteTo(text, request, z + 1, results, {} \cup {b}) /\ SoundTo(text, request, z + 1, results)
      BY <1>2, <1>3, <1>5, <1>6, AtTheEnd
    <3>2. {} \cup {b} = {b}
      OBVIOUS
    <3> QED BY <3>1, <3>2
  <2>3. b = z
    BY <1>5, <1>6, <1>8
  <2>4. \A i \in Int : ~Occurs(text, request, b, z, i)
    <3>1. Len(request.keyword) \in Nat \ {0}
      BY <1>3, PatternLength
    <3> QED BY <2>3, <3>1 DEF Occurs
  <2>5. CompleteTo(text, request, z + 1, results, {})
    BY <1>3, <1>5, <1>6, <2>2, <2>4, NothingToAdd
  <2>6. /\ Len(results) <= request.maxResults /\ returned <= request.maxContent
        /\ returned <= (3 * request.maxLine) * Len(results)
    BY <1>2 DEF IInv, WithinLimits, Reasons
  <2>7. Ascending(results')
    BY <1>2, <2>1 DEF Ascending
  <2> QED BY <1>3, <1>6, <1>7, <2>1, <2>2, <2>5, <2>6, <2>7
<1>9. CASE line.bytes # 0
  <2>1. /\ lines' = lines + 1 /\ FinishLine
        /\ stop' = IF FinishReason(line) = None THEN "Complete" ELSE FinishReason(line)
    BY <1>1, <1>9
  <2>2. /\ results' \in Seq(Matches) /\ Ascending(results') /\ returned' \in Nat
        /\ SoundTo(text, request, z + 1, results')
        /\ \/ CompleteTo(text, request, z + 1, results', {})
           \/ /\ CompleteTo(text, request, z + 1, results', {b}) /\ AllBefore(results', b)
              /\ FinishReason(line) = "ReturnedContentByteLimit"
              /\ IsLine(text, b, z) /\ \E i \in Int : Occurs(text, request, b, z, i)
              /\ returned' + Size(Content(line)) > request.maxContent
              /\ Content(line) \in Seq(Bytes) /\ Len(Content(line)) <= request.maxLine
              /\ Len(results') < request.maxResults
        /\ Len(results') <= request.maxResults /\ returned' <= request.maxContent
        /\ returned' <= (3 * request.maxLine) * Len(results')
        /\ FinishReason(line) = None =>
             /\ Len(results') < request.maxResults /\ returned' < request.maxContent
             /\ CompleteTo(text, request, z + 1, results', {}) /\ AllBefore(results', z + 1)
        /\ FinishReason(line) \in {None, "ResultLimit", "ReturnedContentByteLimit"}
    BY <1>1, <1>4, <1>6, <2>1, LineFinished
  <2>3. stop' \in {"Complete", "ResultLimit", "ReturnedContentByteLimit"}
    BY <2>1, <2>2
  <2>4. lines' \in 0..z
    <3>1. NewlinesUpTo(text, Len(text)) = NewlinesUpTo(text, b)
      BY <1>3, <1>5, CountLine
    <3>2. NewlinesUpTo(text, b) \in Nat /\ NewlinesUpTo(text, b) <= b
      BY CountFinite
    <3>3. lines \in Nat /\ lines <= b
      BY <1>3, <3>1, <3>2
    <3>4. b < z
      BY <1>5, <1>6, <1>9
    <3> QED BY <2>1, <3>3, <3>4
  <2>5. ReachedEnd' /\ Scanned' = z + 1
    BY <1>1, <1>3, <1>6, <2>3 DEF Scanned, ReachedEnd
  <2>6. CASE CompleteTo(text, request, z + 1, results', {})
    BY <1>7, <2>2, <2>3, <2>4, <2>6
  <2>7. CASE ~CompleteTo(text, request, z + 1, results', {})
    <3>1. stop' = "ReturnedContentByteLimit"
      BY <2>1, <2>2, <2>7, NoneAssumption DEF Reasons
    <3>2. \E e \in Nat, i \in Int : IsLine(text, b, e) /\ e < z + 1 /\ Occurs(text, request, b, e, i)
      BY <2>2, <2>7
    <3>3. Dropped(b)'
      BY <1>1, <2>2, <2>5, <2>7, <3>1, <3>2 DEF Dropped, AllBefore
    <3>4. Accounted'
      BY <1>1, <2>2, <2>5, <2>7, <3>3 DEF Accounted, Ascending
    <3> QED BY <1>7, <2>2, <2>3, <2>4, <2>5, <3>1, <3>4
  <2> QED BY <2>6, <2>7
<1> QED BY <1>8, <1>9

\* The bytes read and the results account for each other in every state: the capture
\* describes the last line, every result one line before it, and no line that holds
\* the keyword is left out but the one that broke the content budget (scan_reader,
\* src/src/scanner.rs).
THEOREM ScannerInvariant == Spec => []IInv
<1>1. Init => IInv
  BY InitInv
<1>2. IInv /\ [Next]_vars => IInv'
  <2> SUFFICES ASSUME IInv, [Next]_vars PROVE IInv'
    OBVIOUS
  <2>1. CASE \E byte \in Bytes \ {Newline} : ReadByte(byte)
    BY <2>1, ByteInv
  <2>2. CASE ReadNewline
    BY <2>2, NewlineInv
  <2>3. CASE ReadEnd
    BY <2>3, EndInv
  <2>4. CASE ReadFails
    BY <2>4, FailsInv
  <2>5. CASE Interrupt \/ BudgetSpent
    <3>1. PICK reason \in Interrupts \cup {"ScanByteLimit"} : StopWith(reason)
      BY <2>5 DEF Interrupt, BudgetSpent
    <3> QED BY <3>1, StopInv
  <2>6. CASE UNCHANGED vars
    BY <2>6, StutterInv
  <2> QED BY <2>1, <2>2, <2>3, <2>4, <2>5, <2>6 DEF Next
<1> QED BY <1>1, <1>2, PTL DEF Spec

-----------------------------------------------------------------------------
LEMMA LeastIs ==
  ASSUME NEW S \in SUBSET Nat, NEW n \in S, \A y \in S : n <= y
  PROVE  Min(S) = n
<1>1. \A k \in S : k \in Nat
  OBVIOUS
<1>2. Min(S) \in S /\ \A y \in S : Min(S) <= y
  BY DEF Min
<1>3. PICK k : k = Min(S)
  OBVIOUS
<1>4. k \in Nat /\ n \in Nat /\ k <= n /\ n <= k
  BY <1>1, <1>2, <1>3
<1> QED BY <1>3, <1>4

\* The line of s as the properties see it.
LEMMA EndIs ==
  ASSUME text \in Seq(Bytes), NEW s \in Starts
  PROVE  s \in Nat /\ EndOf(s) \in Nat /\ EndOf(s) <= Len(text) /\ IsLine(text, s, EndOf(s))
<1>1. PICK z \in Nat : z = Len(text)
  OBVIOUS
<1>2. s \in 0..z /\ (s = 0 \/ text[s] = Newline)
  BY <1>1, StartsAre
<1>3. Newlines = {i \in 1..z : text[i] = Newline}
  BY <1>1 DEF Newlines
<1> DEFINE S == {i - 1 : i \in {j \in Newlines : j > s}} \cup {z}
<1>4. S \in SUBSET Nat /\ z \in S
  BY <1>3
<1>5. ASSUME NEW i \in (s + 1)..z, text[i] = Newline PROVE i - 1 \in S
  <2>1. i \in Newlines /\ i > s
    BY <1>2, <1>3, <1>5
  <2> QED BY <2>1
<1>6. ASSUME NEW y \in S, y # z PROVE y \in s..z /\ text[y + 1] = Newline
  <2>1. PICK i \in Newlines : i > s /\ y = i - 1
    BY <1>6
  <2>2. i \in 1..z /\ text[i] = Newline
    BY <1>3, <2>1
  <2>3. y \in s..z /\ y + 1 = i
    BY <1>2, <2>1, <2>2
  <2> QED BY <2>2, <2>3
<1>7. EndOf(s) = Min(S)
  BY <1>1 DEF EndOf
<1> HIDE DEF S
<1>8. PICK e \in S : \A y \in S : e <= y
  BY <1>4, LeastNatural
<1>9. EndOf(s) = e /\ e \in Nat
  BY <1>4, <1>7, <1>8, LeastIs
<1>10. e \in s..z /\ (e = z \/ text[e + 1] = Newline)
  BY <1>2, <1>6
<1>11. ASSUME NEW i \in (s + 1)..e PROVE text[i] # Newline
  <2>1. i \in (s + 1)..z /\ ~(e <= i - 1)
    BY <1>2, <1>10
  <2> QED BY <1>5, <1>8, <2>1
<1>12. IsLine(text, s, e)
  BY <1>1, <1>2, <1>10, <1>11 DEF IsLine
<1>13. s \in Nat /\ e <= Len(text)
  BY <1>1, <1>2, <1>10
<1> QED BY <1>9, <1>12, <1>13

LEMMA LineIs ==
  ASSUME text \in Seq(Bytes), NEW s, NEW e, IsLine(text, s, e)
  PROVE  s \in Starts /\ EndOf(s) = e
<1>1. s \in Starts
  <2>1. s = 0 \/ (s \in 1..Len(text) /\ text[s] = Newline)
    BY DEF IsLine
  <2> QED BY <2>1, StartsAre
<1>2. IsLine(text, s, EndOf(s)) /\ Len(text) \in Nat
  BY <1>1, EndIs
<1> QED BY <1>1, <1>2, LineEndUnique

LEMMA OccurrencesAre ==
  ASSUME request \in Requests, NEW s
  PROVE  \A i : i \in Occurrences(s) <=> Occurs(text, request, s, EndOf(s), i)
<1>1. /\ Len(Pattern(request)) = Len(request.keyword) /\ Pattern(request) \in Seq(Bytes \cup {"a"})
  BY PatternLength
<1>2. DOMAIN Pattern(request) = 1..Len(request.keyword)
  BY <1>1
<1> QED BY <1>1, <1>2 DEF Occurrences, Occurs

LEMMA FirstIs ==
  ASSUME request \in Requests, text \in Seq(Bytes), NEW s, NEW e, NEW i \in Nat, IsLine(text, s, e),
         First(text, request, s, e, i)
  PROVE  Occurrences(s) # {} /\ Min(Occurrences(s)) = i
<1>1. s \in Starts /\ EndOf(s) = e
  BY LineIs
<1>2. \A j : j \in Occurrences(s) <=> Occurs(text, request, s, e, j)
  BY <1>1, OccurrencesAre
<1>3. i \in Occurrences(s)
  BY <1>2 DEF First
<1>4. Occurrences(s) \in SUBSET Nat
  <2>1. s \in Nat
    BY <1>1, EndIs
  <2> QED BY <1>2, <2>1 DEF Occurs
<1>5. \A j \in Occurrences(s) : i <= j
  BY <1>2, <1>4 DEF First
<1> QED BY <1>3, <1>4, <1>5, LeastIs

LEMMA MatchingLinesAre ==
  ASSUME request \in Requests, text \in Seq(Bytes)
  PROVE  \A s : s \in MatchingLines <=>
            s \in Nat /\ \E e \in Nat, i \in Int : IsLine(text, s, e) /\ e < Scanned /\ Occurs(text, request, s, e, i)
<1>1. ASSUME NEW s \in MatchingLines
      PROVE  s \in Nat /\ \E e \in Nat, i \in Int : IsLine(text, s, e) /\ e < Scanned /\ Occurs(text, request, s, e, i)
  <2>1. s \in Starts /\ Occurrences(s) # {} /\ (EndOf(s) < Len(text) \/ ReachedEnd)
    BY DEF MatchingLines
  <2>2. s \in Nat /\ EndOf(s) \in Nat /\ EndOf(s) <= Len(text) /\ IsLine(text, s, EndOf(s)) /\ Len(text) \in Nat
    BY <2>1, EndIs
  <2>3. PICK i : Occurs(text, request, s, EndOf(s), i)
    BY <2>1, OccurrencesAre
  <2>4. i \in Int
    BY <2>3 DEF Occurs
  <2>5. EndOf(s) < Scanned
    BY <2>1, <2>2 DEF Scanned
  <2> QED BY <2>2, <2>3, <2>4, <2>5
<1>2. ASSUME NEW s \in Nat, NEW e \in Nat, NEW i \in Int, IsLine(text, s, e), e < Scanned, Occurs(text, request, s, e, i)
      PROVE  s \in MatchingLines
  <2>1. s \in Starts /\ EndOf(s) = e /\ Len(text) \in Nat
    BY <1>2, LineIs
  <2>2. Occurrences(s) # {}
    BY <1>2, <2>1, OccurrencesAre
  <2>3. e < Len(text) \/ ReachedEnd
    BY <1>2 DEF Scanned
  <2> QED BY <2>1, <2>2, <2>3 DEF MatchingLines
<1> QED BY <1>1, <1>2

\* Every result is about a line that has been scanned.
LEMMA ResultLine ==
  ASSUME IInv, NEW m \in ToSet(results)
  PROVE  \E s, e \in Nat :
           /\ IsLine(text, s, e) /\ e < Scanned /\ Describes(text, request, m, s, e)
           /\ m.start - Start.offset = s /\ s \in MatchingLines
<1>1. request \in Requests /\ text \in Seq(Bytes) /\ results \in Seq(Matches) /\ Start.offset \in Nat
  BY StartAssumption DEF IInv, TypeOK
<1>2. PICK j \in 1..Len(results) : m = results[j]
  BY <1>1 DEF ToSet
<1>3. PICK s, e \in Nat : IsLine(text, s, e) /\ e < Scanned /\ Describes(text, request, m, s, e)
  BY <1>2 DEF IInv, Accounted, SoundTo
<1>4. m.start = Start.offset + s
  BY <1>3 DEF Describes
<1>5. m.start - Start.offset = s
  BY <1>1, <1>4
<1>6. s \in MatchingLines
  <2>1. PICK i \in Nat : First(text, request, s, e, i)
    BY <1>3 DEF Describes, Shows
  <2> QED BY <1>1, <1>3, <2>1, MatchingLinesAre DEF First
<1> QED BY <1>3, <1>5, <1>6

\* The lines of the results.
LEMMA FoundAre ==
  ASSUME IInv
  PROVE  /\ Found \subseteq MatchingLines
         /\ \A s \in Nat, j \in 1..Len(results) : results[j].start = Start.offset + s => s \in Found
<1>1. results \in Seq(Matches) /\ Start.offset \in Nat
  BY StartAssumption DEF IInv
<1>2. Found \subseteq MatchingLines
  BY ResultLine DEF Found
<1>3. ASSUME NEW s \in Nat, NEW j \in 1..Len(results), results[j].start = Start.offset + s PROVE s \in Found
  <2>1. results[j] \in ToSet(results)
    BY <1>1 DEF ToSet
  <2>2. results[j].start - Start.offset = s
    BY <1>1, <1>3
  <2> QED BY <2>1, <2>2 DEF Found
<1> QED BY <1>2, <1>3

LEMMA AllFound ==
  ASSUME IInv, CompleteTo(text, request, Scanned, results, {})
  PROVE  Found = MatchingLines
<1>1. ASSUME NEW s \in MatchingLines PROVE s \in Found
  <2>1. s \in Nat /\ \E e \in Nat, i \in Int : IsLine(text, s, e) /\ e < Scanned /\ Occurs(text, request, s, e, i)
    BY MatchingLinesAre DEF IInv, TypeOK
  <2>2. \E j \in 1..Len(results) : results[j].start = Start.offset + s
    BY <2>1 DEF CompleteTo
  <2> QED BY <2>1, <2>2, FoundAre
<1> QED BY <1>1, FoundAre

\* The automaton stays below the length of the keyword, the window within its
\* capacity, and no line is counted that was not read (scan_reader).
THEOREM ScannerTypeCorrect == Spec => []TypeOK
BY ScannerInvariant, PTL DEF IInv

\* boundary_position gives a continuation only between two lines, by the right
\* offset and line number; an interrupt or the byte budget that leaves none came
\* in the middle of a line.
THEOREM ContinuationSafety == Spec => []ContinuationOnLineStart
BY ScannerInvariant, PTL DEF IInv

\* scan_reader reports the lines that contain the keyword, each once and in order,
\* for every text, keyword and limit: at most the line that broke the content
\* budget is missing.
THEOREM ScanExact == Spec => []ResultsExact
<1>1. IInv => ResultsExact
  <2> SUFFICES ASSUME IInv, stop # "Io"
               PROVE  InOrder /\ \/ Found = MatchingLines
                                 \/ /\ stop = "ReturnedContentByteLimit"
                                    /\ \E s \in MatchingLines :
                                         Found = MatchingLines \ {s} /\ \A other \in Found : other < s
    BY DEF ResultsExact
  <2>1. InOrder
    <3>1. DOMAIN results = 1..Len(results)
      BY DEF IInv
    <3> QED BY <3>1 DEF IInv, Accounted, Ascending, InOrder
  <2>2. CASE CompleteTo(text, request, Scanned, results, {})
    BY <2>1, <2>2, AllFound
  <2>3. ASSUME NEW b \in Nat, CompleteTo(text, request, Scanned, results, {b}), Dropped(b)
        PROVE  /\ stop = "ReturnedContentByteLimit"
               /\ b \in MatchingLines /\ Found = MatchingLines \ {b} /\ \A other \in Found : other < b
    <3>1. b \in MatchingLines
      BY <2>3, MatchingLinesAre DEF Dropped, IInv, TypeOK
    <3>2. ASSUME NEW other \in Found PROVE other < b
      <4>1. PICK m \in ToSet(results) : other = m.start - Start.offset
        BY DEF Found
      <4>2. PICK j \in 1..Len(results) : m = results[j]
        BY DEF IInv, ToSet
      <4>3. m.start < Start.offset + b
        BY <2>3, <4>2 DEF Dropped, AllBefore
      <4>4. PICK s \in Nat : m.start - Start.offset = s /\ m.start = Start.offset + s
        BY ResultLine DEF Describes
      <4>5. Start.offset \in Nat
        BY StartAssumption
      <4> QED BY <4>1, <4>3, <4>4, <4>5
    <3>3. ASSUME NEW s \in MatchingLines, s # b PROVE s \in Found
      <4>1. s \in Nat /\ \E e \in Nat, i \in Int : IsLine(text, s, e) /\ e < Scanned /\ Occurs(text, request, s, e, i)
        BY MatchingLinesAre DEF IInv, TypeOK
      <4>2. \E j \in 1..Len(results) : results[j].start = Start.offset + s
        BY <2>3, <3>3, <4>1 DEF CompleteTo
      <4> QED BY <4>1, <4>2, FoundAre
    <3>4. b \notin Found
      BY <3>2
    <3> QED BY <2>3, <3>1, <3>2, <3>3, <3>4, FoundAre DEF Dropped
  <2> QED BY <2>1, <2>2, <2>3 DEF IInv, Accounted
<1> QED BY <1>1, ScannerInvariant, PTL

\* A line, as a sequence, and a piece of it.
LEMMA LineBytes ==
  ASSUME NEW t \in Seq(Bytes), NEW s \in Nat, NEW e \in Nat, s <= e, e <= Len(t)
  PROVE  /\ SubSeq(t, s + 1, e) \in Seq(Bytes) /\ Len(SubSeq(t, s + 1, e)) = e - s
         /\ \A i \in 1..(e - s) : SubSeq(t, s + 1, e)[i] = t[s + i]
<1>1. PICK n \in Nat : n = e - s /\ s + n = e
  OBVIOUS
<1>2. \A i \in (s + 1)..e : t[i] \in Bytes
  OBVIOUS
<1>3. SubSeq(t, s + 1, e) \in Seq(Bytes) /\ Len(SubSeq(t, s + 1, e)) = IF s + 1 <= e THEN e - (s + 1) + 1 ELSE 0
  BY <1>2, SubSeqProperties
<1>4. \A i \in 1..(e - (s + 1) + 1) : SubSeq(t, s + 1, e)[i] = t[s + 1 + i - 1]
  BY <1>2, SubSeqProperties
<1>5. (IF s + 1 <= e THEN e - (s + 1) + 1 ELSE 0) = e - s /\ e - (s + 1) + 1 = e - s
  OBVIOUS
<1>6. \A i \in 1..(e - s) : s + 1 + i - 1 = s + i
  OBVIOUS
<1> QED BY <1>3, <1>4, <1>5, <1>6

\* A result names its line by number and offset, the first occurrence in it and the
\* length of the line, counted from the start of the file wherever the reader was
\* placed: what match references rely on.
THEOREM PlacesCorrect == Spec => []PlacesExact
<1>1. IInv => PlacesExact
  <2> SUFFICES ASSUME IInv, NEW m \in ToSet(results), NEW s, s = m.start - Start.offset
               PROVE  /\ m.number = Start.line + Cardinality({i \in Newlines : i <= s})
                      /\ m.match = Start.offset + Min(Occurrences(s))
                      /\ m.bytes = Len(LineOf(s))
    BY DEF PlacesExact
  <2>1. request \in Requests /\ text \in Seq(Bytes)
    BY DEF IInv, TypeOK
  <2>2. PICK e \in Nat : s \in Nat /\ IsLine(text, s, e) /\ Describes(text, request, m, s, e)
    BY ResultLine
  <2>3. PICK z \in Nat : z = Len(text) /\ s <= e /\ e <= z
    BY <2>1, <2>2 DEF IsLine
  <2>4. EndOf(s) = e
    BY <2>1, <2>2, LineIs
  <2>5. m.number = Start.line + Cardinality({i \in Newlines : i <= s})
    <3>1. Newlines = {i \in 1..z : text[i] = Newline}
      BY <2>1, <2>3 DEF Newlines
    <3>2. \A i \in 1..z : i <= s <=> i \in 1..s
      BY <2>2
    <3>3. \A i \in 1..s : i \in 1..z
      BY <2>2, <2>3
    <3>4. {i \in Newlines : i <= s} = {i \in 1..s : text[i] = Newline}
      BY <3>1, <3>2, <3>3
    <3> QED BY <2>2, <3>4 DEF Describes, NewlinesUpTo
  <2>6. m.match = Start.offset + Min(Occurrences(s))
    <3>1. PICK i \in Nat : First(text, request, s, e, i) /\ m.match = Start.offset + i
      BY <2>2 DEF Describes, Shows
    <3> QED BY <2>1, <2>2, <3>1, FirstIs
  <2>7. m.bytes = Len(LineOf(s))
    BY <2>1, <2>2, <2>3, <2>4, LineBytes DEF LineOf, Describes
  <2> QED BY <2>5, <2>6, <2>7
<1> QED BY <1>1, ScannerInvariant, PTL

LEMMA SameSequence ==
  ASSUME NEW S, NEW v \in Seq(S), NEW w \in Seq(S), Len(v) = Len(w), \A i \in 1..Len(v) : v[i] = w[i]
  PROVE  v = w
OBVIOUS

\* The preview of take_match is a piece of the line that shows the first occurrence
\* and fits max_line_bytes; if it is not called truncated it is the whole line but
\* for the return of its end.
THEOREM PreviewsFaithful == Spec => []PreviewFaithful
<1>1. IInv => PreviewFaithful
  <2> SUFFICES ASSUME IInv, NEW m \in ToSet(results), NEW s, s = m.start - Start.offset,
                      NEW first, first = Min(Occurrences(s)) - s
               PROVE  /\ Len(m.content) <= request.maxLine
                      /\ \E from \in 0..first :
                           /\ from + Len(m.content) >= first + Len(request.keyword)
                           /\ m.content = SubSeq(LineOf(s), from + 1, from + Len(m.content))
                      /\ ~m.truncated =>
                           m.content = IF Last(LineOf(s)) = Return THEN Front(LineOf(s)) ELSE LineOf(s)
    BY DEF PreviewFaithful
  <2>1. request \in Requests /\ text \in Seq(Bytes)
    BY DEF IInv, TypeOK
  <2>2. PICK e \in Nat : s \in Nat /\ IsLine(text, s, e) /\ Describes(text, request, m, s, e)
    BY ResultLine
  <2>a. PICK c, place : c = m.content /\ place = m.match
    OBVIOUS
  <2>3. PICK i, from \in Nat :
          /\ c = m.content /\ place = m.match
          /\ First(text, request, s, e, i) /\ Piece(text, s, e, from, c)
          /\ from <= i - s /\ i - s + Len(request.keyword) <= from + Len(c)
          /\ Len(c) <= request.maxLine
    BY <2>2, <2>a DEF Describes, Shows
  <2>4. PICK k \in Nat \ {0}, q \in Nat, z \in Nat : k = Len(request.keyword) /\ q = Len(c) /\ z = Len(text)
    <3>1. Len(c) \in Nat /\ Len(text) \in Nat
      BY <2>1, <2>3 DEF Piece
    <3> QED BY <2>1, <3>1, PatternLength
  <2>5. i \in s..(e - k) /\ first = i - s /\ s <= e /\ e <= z
    <3>1. Min(Occurrences(s)) = i
      BY <2>1, <2>2, <2>3, FirstIs
    <3>2. i \in s..(e - Len(request.keyword))
      BY <2>3 DEF First, Occurs
    <3>3. s <= e /\ e <= Len(text)
      BY <2>1, <2>2 DEF IsLine
    <3> QED BY <2>4, <3>1, <3>2, <3>3
  <2>6. PICK w \in Seq(Bytes) : /\ w = LineOf(s) /\ Len(w) = e - s /\ \A j \in 1..(e - s) : w[j] = text[s + j]
    <3>1. EndOf(s) = e
      BY <2>1, <2>2, LineIs
    <3>2. /\ SubSeq(text, s + 1, e) \in Seq(Bytes) /\ Len(SubSeq(text, s + 1, e)) = e - s
          /\ \A j \in 1..(e - s) : SubSeq(text, s + 1, e)[j] = text[s + j]
      <4>1. s \in Nat /\ e \in Nat /\ s <= e /\ e <= Len(text)
        BY <2>2, <2>4, <2>5
      <4>2. text \in Seq(Bytes)
        BY <2>1
      <4> QED BY ONLY <4>1, <4>2, LineBytes
    <3> QED BY <3>1, <3>2 DEF LineOf
  <2>7. /\ c \in Seq(Bytes) /\ from + q <= e - s /\ \A j \in 1..q : c[j] = text[s + from + j]
    BY <2>3, <2>4 DEF Piece
  <2>8. from \in 0..first /\ from + q >= first + k
    BY <2>3, <2>4, <2>5
  <2>9. c = SubSeq(w, from + 1, from + q)
    <3>1. /\ SubSeq(w, from + 1, from + q) \in Seq(Bytes) /\ Len(SubSeq(w, from + 1, from + q)) = q
          /\ \A j \in 1..q : SubSeq(w, from + 1, from + q)[j] = w[from + j]
      <4>1. PICK to \in Nat : to = from + q /\ to - from = q /\ from <= to
        BY ONLY <2>3, <2>4
      <4>2. to <= Len(w)
        BY <2>6, <2>7, <4>1
      <4>3. /\ SubSeq(w, from + 1, to) \in Seq(Bytes) /\ Len(SubSeq(w, from + 1, to)) = to - from
            /\ \A j \in 1..(to - from) : SubSeq(w, from + 1, to)[j] = w[from + j]
        BY <4>1, <4>2, LineBytes
      <4> QED BY ONLY <4>1, <4>3
    <3>2. ASSUME NEW j \in 1..q PROVE c[j] = w[from + j]
      <4>1. from + j \in 1..(e - s) /\ s + from + j = s + (from + j)
        BY <2>2, <2>7
      <4> QED BY <2>6, <2>7, <4>1
    <3>3. PICK v \in Seq(Bytes) : /\ v = SubSeq(w, from + 1, from + q)
                                  /\ Len(v) = q /\ \A j \in 1..q : v[j] = w[from + j]
      BY ONLY <3>1
    <3>4. Len(c) = Len(v) /\ \A j \in 1..Len(c) : c[j] = v[j]
      BY <2>4, <3>2, <3>3
    <3>5. c = v
      BY ONLY <2>7, <3>3, <3>4, SameSequence
    <3> QED BY <3>3, <3>5
  <2>10. ASSUME ~m.truncated PROVE c = IF Last(w) = Return THEN Front(w) ELSE w
    <3>1. Whole(text, s, e, c)
      BY <2>2, <2>3, <2>10 DEF Describes
    <3>2. /\ \A j \in 1..q : c[j] = text[s + 0 + j]
          /\ text[e] = Return => q = e - s - 1
          /\ text[e] # Return => q = e - s
      BY <2>4, <3>1 DEF Whole, Piece
    <3>3. \A j \in 1..q : j \in 1..(e - s) /\ s + 0 + j = s + j
      BY <2>2, <2>4, <2>7
    <3>4. \A j \in 1..q : c[j] = w[j]
      BY <2>6, <3>2, <3>3
    <3>5. e - s \in 1..(e - s) /\ s + (e - s) = e
      <4>1. s \in Nat /\ e \in Nat /\ k \in Nat \ {0} /\ i \in s..(e - k)
        BY <2>2, <2>4, <2>5
      <4> QED BY ONLY <4>1
    <3>6. w # <<>> /\ Last(w) = text[e]
      BY <2>6, <3>5 DEF Last
    <3>7. CASE text[e] = Return
      <4>1. Front(w) \in Seq(Bytes) /\ Len(Front(w)) = q /\ \A j \in 1..q : Front(w)[j] = w[j]
        BY <2>6, <3>2, <3>6, <3>7, FrontOf
      <4>2. c = Front(w)
        BY <2>4, <2>7, <3>4, <4>1, SameSequence
      <4> QED BY <3>6, <3>7, <4>2
    <3>8. CASE text[e] # Return
      <4>1. c = w
        BY <2>4, <2>6, <2>7, <3>2, <3>4, <3>8, SameSequence
      <4> QED BY <3>6, <3>8, <4>1
    <3> QED BY <3>7, <3>8
  <2> QED BY <2>3, <2>4, <2>6, <2>8, <2>9, <2>10
<1> QED BY <1>1, ScannerInvariant, PTL

\* The result limit of the query engines leaves room for every line.
LEMMA ChunkFits ==
  ASSUME NEW k \in Nat \ {0}, NEW content \in Nat, NEW max \in Nat, NEW n \in Nat,
         k <= content, n < max, max <= Max({1, Min({content \div k, max})})
  PROVE  k * (n + 1) <= content
<1>1. PICK d \in Nat : d = content \div k /\ k * d <= content
  OBVIOUS
<1>2. Min({d, max}) \in Nat /\ Min({d, max}) <= d
  <2>1. Min({d, max}) \in {d, max} /\ \A y \in {d, max} : Min({d, max}) <= y
    <3>1. \E x \in {d, max} : \A y \in {d, max} : x <= y
      OBVIOUS
    <3> QED BY <3>1 DEF Min
  <2> QED BY <2>1
<1>3. PICK l \in Nat : l = Min({d, max}) /\ l <= d
  BY <1>2
<1>4. Max({1, l}) \in {1, l}
  <2>1. \E x \in {1, l} : \A y \in {1, l} : x >= y
    OBVIOUS
  <2> QED BY <2>1 DEF Max
<1>5. max <= 1 \/ max <= d
  BY <1>1, <1>3, <1>4
<1>6. CASE max <= 1
  <2>1. n = 0
    BY <1>6
  <2> QED BY <2>1
<1>7. CASE max <= d
  <2>1. PICK x \in Nat : d = (n + 1) + x
    <3>1. d - (n + 1) \in Nat /\ d = (n + 1) + (d - (n + 1))
      BY <1>1, <1>7
    <3> QED BY <3>1
  <2>2. k * ((n + 1) + x) = k * (n + 1) + k * x
    OBVIOUS
  <2>3. k * x \in Nat /\ k * (n + 1) \in Nat
    OBVIOUS
  <2> QED BY <1>1, <2>1, <2>2, <2>3
<1> QED BY <1>5, <1>6, <1>7

\* With the result limit of the query engines, whatever their budgets, the content
\* budget never stops a scan that can be continued: a page that goes on from the
\* continuation misses no line.
THEOREM ChunksContinuable == Spec => []ChunksLoseNoMatch
<1>1. IInv => ChunksLoseNoMatch
  <2> SUFFICES ASSUME IInv, ChunkRequest, next # None PROVE Found = MatchingLines
    BY DEF ChunksLoseNoMatch
  <2>1. request \in Requests /\ returned \in Nat /\ results \in Seq(Matches)
    BY DEF IInv, TypeOK
  <2>2. stop # "Io"
    BY DEF IInv, Accounted
  <2>3. ASSUME NEW b, Dropped(b) PROVE FALSE
    <3>1. PICK k \in Nat \ {0}, content \in Nat, max \in Nat, n \in Nat :
            k = 3 * request.maxLine /\ content = request.maxContent /\ max = request.maxResults /\ n = Len(results)
      <4>1. request.maxLine \in Nat \ {0} /\ request.maxContent \in Nat /\ request.maxResults \in Nat
        <5>1. /\ request.maxLine \in Nat /\ Len(request.keyword) \in Nat \ {0}
              /\ Len(request.keyword) <= request.maxLine
          BY <2>1, PatternLength, RequestsAssumption
        <5>2. PICK top \in Nat, q \in Nat \ {0} : top = request.maxLine /\ q = Len(request.keyword) /\ q <= top
          BY <5>1
        <5>3. top # 0
          BY ONLY <5>2
        <5> QED BY <2>1, <5>2, <5>3, PatternLength
      <4>2. 3 * request.maxLine \in Nat \ {0} /\ Len(results) \in Nat
        BY <2>1, <4>1
      <4> QED BY <4>1, <4>2
    <3>2. PICK size \in Nat : size = Size(Content(line)) /\ size <= k
      <4>1. Content(line) \in Seq(Bytes) /\ Len(Content(line)) <= request.maxLine
        BY <2>3 DEF Dropped
      <4>2. PICK q \in Nat, top \in Nat : q = Len(Content(line)) /\ top = request.maxLine /\ q <= top
        BY <2>1, <4>1, PatternLength
      <4>3. Size(Content(line)) \in Nat /\ Size(Content(line)) <= 3 * q
        BY <4>1, <4>2, SizeRight
      <4>4. 3 * q <= 3 * top /\ k = 3 * top
        BY <3>1, <4>2
      <4> QED BY <4>2, <4>3, <4>4
    <3>3. returned + size > content /\ n < max
      BY <2>3, <3>1, <3>2 DEF Dropped
    <3>4. returned <= k * n
      BY <2>2, <3>1 DEF IInv, WithinLimits
    <3>5. k <= content /\ max <= Max({1, Min({content \div k, max})})
      BY <3>1 DEF ChunkRequest, ChunkResultLimit
    <3>6. k * (n + 1) <= content
      BY <3>3, <3>5, ChunkFits
    <3>7. k * (n + 1) = k * n + k
      BY OneMore
    <3>8. PICK kn \in Nat : kn = k * n
      OBVIOUS
    <3>9. returned + size > content /\ returned <= kn /\ kn + k <= content /\ size <= k
      BY <3>2, <3>3, <3>4, <3>6, <3>7, <3>8
    <3>10. PICK r \in Nat : r = returned
      BY <2>1
    <3>11. r + size > content /\ r <= kn
      BY ONLY <3>9, <3>10
    <3>12. kn + k <= content /\ size <= k
      BY ONLY <3>9
    <3> QED BY ONLY <3>11, <3>12, k \in Nat, size \in Nat, kn \in Nat, content \in Nat, r \in Nat
  <2>4. CompleteTo(text, request, Scanned, results, {})
    BY <2>2, <2>3 DEF IInv, Accounted
  <2> QED BY <2>4, AllFound
<1> QED BY <1>1, ScannerInvariant, PTL
-----------------------------------------------------------------------------
\* The sums of the numbers a over all sets of indices, and over all of them.
Tally(n, a, g, total) ==
  /\ a \in [1..n -> Nat] /\ g \in [SUBSET (1..n) -> Nat]
  /\ g[{}] = 0 /\ g[1..n] = total
  /\ \A s \in SUBSET (1..n) : \A x \in s : g[s] = a[x] + g[s \ {x}]

Summed(n, a, total) == \E g : Tally(n, a, g, total)

LEMMA SumOfNone == ASSUME NEW a, DOMAIN a = 1..0, a = [i \in 1..0 |-> a[i]] PROVE Summed(0, a, 0)
<1>1. 1..0 = {} /\ SUBSET (1..0) = {{}}
  OBVIOUS
<1>2. a \in [1..0 -> Nat]
  BY <1>1
<1>3. PICK g : g = [s \in SUBSET (1..0) |-> 0]
  OBVIOUS
<1>4. Tally(0, a, g, 0)
  BY <1>1, <1>2, <1>3 DEF Tally
<1> QED BY <1>4 DEF Summed

\* One number more.
LEMMA SumOn ==
  ASSUME NEW n \in Nat, NEW a, NEW total, Summed(n, a, total), NEW size \in Nat,
         NEW b \in [1..(n + 1) -> Nat], b[n + 1] = size, \A i \in 1..n : b[i] = a[i]
  PROVE  Summed(n + 1, b, total + size)
<1>1. PICK g : Tally(n, a, g, total)
  BY DEF Summed
<1>2. PICK m \in Nat : m = n + 1 /\ m \notin 1..n /\ 1..m = 1..n \cup {m} /\ (1..m) \ {m} = 1..n /\ m \in 1..m
  OBVIOUS
<1>3. \A s \in SUBSET (1..m) : s \ {m} \in SUBSET (1..n) /\ g[s \ {m}] \in Nat
  BY <1>1, <1>2 DEF Tally
<1>4. PICK h : h = [s \in SUBSET (1..m) |-> IF m \in s THEN g[s \ {m}] + size ELSE g[s \ {m}]]
  OBVIOUS
<1>5. h \in [SUBSET (1..m) -> Nat]
  BY <1>3, <1>4
<1>6. h[{}] = 0
  <2>1. {} \in SUBSET (1..m) /\ {} \ {m} = {}
    OBVIOUS
  <2> QED BY <1>1, <1>4, <2>1 DEF Tally
<1>7. h[1..m] = total + size
  BY <1>1, <1>2, <1>4 DEF Tally
<1>8. ASSUME NEW s \in SUBSET (1..m), NEW x \in s PROVE h[s] = b[x] + h[s \ {x}]
  <2>1. s \ {x} \in SUBSET (1..m) /\ x \in 1..m /\ b[x] \in Nat
    BY <1>2
  <2>2. CASE x = m
    <3>1. m \notin s \ {x} /\ (s \ {x}) \ {m} = s \ {m}
      BY <2>2
    <3>2. h[s \ {x}] = g[s \ {m}] /\ h[s] = g[s \ {m}] + size
      BY <1>4, <2>1, <2>2, <3>1
    <3>3. PICK u \in Nat : u = g[s \ {m}] /\ h[s] = u + size /\ h[s \ {x}] = u /\ b[x] = size
      BY <1>2, <1>3, <2>2, <3>2
    <3>4. u + size = size + u
      BY ONLY u \in Nat, size \in Nat
    <3> QED BY <3>3, <3>4
  <2>3. CASE x # m
    <3>1. x \in 1..n /\ x \in s \ {m} /\ (s \ {x}) \ {m} = (s \ {m}) \ {x} /\ (m \in s \ {x} <=> m \in s)
      BY <1>2, <2>1, <2>3
    <3>2. g[s \ {m}] = a[x] + g[(s \ {m}) \ {x}]
      BY <1>1, <1>3, <3>1 DEF Tally
    <3>3. b[x] = a[x] /\ g[(s \ {x}) \ {m}] \in Nat /\ g[s \ {m}] \in Nat
      BY <1>3, <2>1, <3>1
    <3>4. PICK u \in Nat, v \in Nat, w \in Nat : u = g[s \ {m}] /\ v = g[(s \ {x}) \ {m}] /\ w = b[x]
      BY <2>1, <3>3
    <3>5. u = w + v
      BY <3>1, <3>2, <3>3, <3>4
    <3>6. CASE m \in s
      <4>1. h[s] = u + size /\ h[s \ {x}] = v + size
        BY <1>4, <2>1, <3>1, <3>4, <3>6
      <4>2. u + size = w + (v + size)
        BY ONLY <3>5, u \in Nat, v \in Nat, w \in Nat, size \in Nat
      <4> QED BY <3>4, <4>1, <4>2
    <3>7. CASE m \notin s
      <4>1. h[s] = u /\ h[s \ {x}] = v
        BY <1>4, <2>1, <3>1, <3>4, <3>7
      <4> QED BY <3>4, <3>5, <4>1
    <3> QED BY <3>6, <3>7
  <2> QED BY <2>2, <2>3
<1>9. Tally(m, b, h, total + size)
  BY <1>2, <1>5, <1>6, <1>7, <1>8 DEF Tally
<1> QED BY <1>2, <1>9 DEF Summed

\* FoldFunction's way to add up: it takes one index after another out.
Adds(n, a, f) ==
  \A s \in SUBSET (1..n) :
    f[s] = IF s = {} THEN 0 ELSE a[CHOOSE x \in s : TRUE] + f[s \ {CHOOSE x \in s : TRUE}]

\* Any function that adds up a set of indices by taking one out gives its sum.
LEMMA SumUnique ==
  ASSUME NEW n \in Nat, NEW a, NEW g, NEW total, Tally(n, a, g, total),
         NEW f, Adds(n, a, f)
  PROVE  f[1..n] = total
<1> DEFINE Wrong == {k \in Nat : \E s \in SUBSET (1..n) : Cardinality(s) = k /\ f[s] # g[s]}
<1>1. \A s \in SUBSET (1..n) : IsFiniteSet(s)
  <2>1. IsFiniteSet(1..n)
    BY FS_Interval
  <2> QED BY <2>1, FS_Subset
<1>2. ASSUME Wrong # {} PROVE FALSE
  <2>1. PICK k \in Wrong : \A y \in Wrong : k <= y
    <3>1. Wrong \in SUBSET Nat
      OBVIOUS
    <3> HIDE DEF Wrong
    <3> QED BY <1>2, <3>1, LeastNatural
  <2>2. PICK s \in SUBSET (1..n) : Cardinality(s) = k /\ f[s] # g[s]
    OBVIOUS
  <2>3. s # {}
    <3>1. f[{}] = 0 /\ g[{}] = 0
      BY DEF Tally, Adds
    <3> QED BY <2>2, <3>1
  <2>4. PICK x : x = CHOOSE y \in s : TRUE
    OBVIOUS
  <2>5. x \in s
    BY <2>3, <2>4
  <2>6. PICK o : o = s \ {x} /\ o \in SUBSET (1..n) /\ f[s] = a[x] + f[o] /\ g[s] = a[x] + g[o]
    <3>1. s \ {x} \in SUBSET (1..n)
      OBVIOUS
    <3>2. f[s] = a[x] + f[s \ {x}]
      BY <2>3, <2>4 DEF Adds
    <3>3. g[s] = a[x] + g[s \ {x}]
      BY <2>5 DEF Tally
    <3> QED BY <3>1, <3>2, <3>3
  <2>7. Cardinality(o) = k - 1 /\ k - 1 \in Nat
    <3>1. IsFiniteSet(s) /\ IsFiniteSet(o) /\ Cardinality(o) \in Nat
      BY <1>1, <2>6, FS_CardinalityType
    <3>2. Cardinality(o) = Cardinality(s) - 1
      BY <2>5, <2>6, <3>1, FS_RemoveElement
    <3>3. k \in Nat
      OBVIOUS
    <3> QED BY <2>2, <3>1, <3>2, <3>3
  <2>8. k - 1 \notin Wrong
    <3>1. k \in Nat
      OBVIOUS
    <3> HIDE DEF Wrong
    <3> QED BY <2>1, <3>1
  <2>9. f[o] = g[o]
    BY <2>6, <2>7, <2>8
  <2> QED BY <2>2, <2>6, <2>9
<1>3. f[1..n] = g[1..n]
  <2>1. 1..n \in SUBSET (1..n) /\ Cardinality(1..n) \in Nat
    BY <1>1, FS_CardinalityType
  <2> QED BY <1>2, <2>1
<1> QED BY <1>3 DEF Tally

\* The sizes of the contents of results, and their sum as LimitsRespected says it.
Sizes(rs) == [i \in 1..Len(rs) |-> Size(rs[i].content)]

LEMMA FoldIs ==
  ASSUME NEW S, NEW rs \in Seq(S), NEW total, Summed(Len(rs), Sizes(rs), total)
  PROVE  FoldSeq(LAMBDA m, sum : Size(m.content) + sum, 0, rs) = total
<1>1. PICK n \in Nat : n = Len(rs) /\ DOMAIN rs = 1..n
  OBVIOUS
<1>2. PICK a : a = Sizes(rs) /\ \A i \in 1..n : a[i] = Size(rs[i].content)
  BY <1>1 DEF Sizes
<1>3. PICK g : Tally(n, a, g, total)
  BY <1>1, <1>2 DEF Summed
<1> DEFINE E(f) == f = [s \in SUBSET (1..n) |->
                     IF s = {} THEN 0
                     ELSE Size(rs[CHOOSE x \in s : TRUE].content) + f[s \ {CHOOSE x \in s : TRUE}]]
<1>4. FoldSeq(LAMBDA m, sum : Size(m.content) + sum, 0, rs) = (CHOOSE f : E(f))[1..n]
  BY <1>1 DEF FoldSeq, FoldFunction, FoldFunctionOnSet, MapThenFoldSet
<1>5. E(g)
  <2>1. ASSUME NEW s \in SUBSET (1..n), s # {}
        PROVE  g[s] = Size(rs[CHOOSE x \in s : TRUE].content) + g[s \ {CHOOSE x \in s : TRUE}]
    <3>1. PICK x : x = CHOOSE y \in s : TRUE
      OBVIOUS
    <3>2. x \in s /\ x \in 1..n
      BY <2>1, <3>1
    <3>3. g[s] = a[x] + g[s \ {x}]
      BY <1>3, <3>2 DEF Tally
    <3> QED BY <1>2, <3>1, <3>2, <3>3
  <2>2. g[{}] = 0 /\ g = [s \in SUBSET (1..n) |-> g[s]]
    BY <1>3 DEF Tally
  <2> QED BY <2>1, <2>2
<1>6. PICK f : f = (CHOOSE h : E(h)) /\ E(f)
  <2> HIDE DEF E
  <2> QED BY <1>5
<1>7. Adds(n, a, f)
  <2> SUFFICES ASSUME NEW s \in SUBSET (1..n)
               PROVE  f[s] = IF s = {} THEN 0
                             ELSE a[CHOOSE x \in s : TRUE] + f[s \ {CHOOSE x \in s : TRUE}]
    BY DEF Adds
  <2>1. f[s] = IF s = {} THEN 0
               ELSE Size(rs[CHOOSE x \in s : TRUE].content) + f[s \ {CHOOSE x \in s : TRUE}]
    BY <1>6
  <2>2. s # {} => (CHOOSE x \in s : TRUE) \in 1..n
    OBVIOUS
  <2> QED BY <1>2, <2>1, <2>2
<1>8. f[1..n] = total
  BY <1>3, <1>7, SumUnique
<1> QED BY <1>4, <1>6, <1>8
\* What the results have cost is what has been counted.
Tallied == stop # "Io" => Summed(Len(results), Sizes(results), returned)

LEMMA TallyOn ==
  ASSUME NEW rs \in Seq(Matches), NEW m \in Matches, NEW total, Summed(Len(rs), Sizes(rs), total),
         NEW size \in Nat, size = Size(m.content)
  PROVE  Summed(Len(Append(rs, m)), Sizes(Append(rs, m)), total + size)
<1>a. PICK a, us : a = Sizes(rs) /\ us = Append(rs, m)
  OBVIOUS
<1>1. PICK n \in Nat : n = Len(rs) /\ a = Sizes(rs) /\ us = Append(rs, m)
  <2>1. Len(rs) \in Nat
    OBVIOUS
  <2> QED BY <1>a, <2>1
<1>2. Len(us) = n + 1 /\ us[n + 1] = m /\ \A i \in 1..n : us[i] = rs[i]
  BY <1>1, AppendOf
<1>3. a \in [1..n -> Nat] /\ a = [i \in 1..n |-> Size(rs[i].content)]
  BY <1>1 DEF Summed, Tally, Sizes
<1>4. PICK b : b = Sizes(us) /\ b = [i \in 1..(n + 1) |-> Size(us[i].content)]
  BY <1>2 DEF Sizes
<1>5. n + 1 \in 1..(n + 1) /\ \A i \in 1..n : i \in 1..(n + 1)
  OBVIOUS
<1>6. b[n + 1] = size /\ \A i \in 1..n : b[i] = a[i]
  BY <1>2, <1>3, <1>4, <1>5
<1>7. b \in [1..(n + 1) -> Nat]
  <2>1. \A i \in 1..(n + 1) : i = n + 1 \/ i \in 1..n
    OBVIOUS
  <2>2. \A i \in 1..(n + 1) : b[i] \in Nat
    BY <1>3, <1>6, <2>1
  <2>3. b = [i \in 1..(n + 1) |-> b[i]]
    BY <1>4
  <2> QED BY <2>2, <2>3
<1>8. Summed(n, a, total)
  BY <1>1
<1>9. Summed(n + 1, b, total + size)
  BY ONLY <1>6, <1>7, <1>8, n \in Nat, size \in Nat, SumOn
<1> QED BY <1>1, <1>2, <1>4, <1>9

LEMMA TallyLine ==
  ASSUME IInv, Tallied, stop = None, FinishLine
  PROVE  Summed(Len(results'), Sizes(results'), returned')
<1>1. Running /\ stop # "Io"
  BY RunningFacts DEF Reasons
<1>2. PICK b \in Nat : Capturing(text, request, b, line)
  BY <1>1 DEF Running
<1>3. Summed(Len(results), Sizes(results), returned) /\ results \in Seq(Matches)
  BY <1>1 DEF Tallied, IInv
<1>4. CASE line.match = None \/ Over(line)
  BY <1>3, <1>4 DEF FinishLine
<1>5. CASE ~(line.match = None \/ Over(line))
  <2>1. PICK m, size : /\ m = ScanMatch(line) /\ size = Size(Content(line))
                       /\ results' = Append(results, m) /\ returned' = returned + size
    BY <1>5 DEF FinishLine
  <2>2. request \in Requests /\ text \in Seq(Bytes)
    BY DEF IInv, TypeOK
  <2>3. Content(line) \in Seq(Bytes)
    BY <1>2, <1>5, <2>2, MatchDescribed
  <2>4. size \in Nat
    BY <2>1, <2>3, SizeRight
  <2>5. m \in Matches
    BY <1>2, <2>1 DEF Matches, Capturing
  <2>6. m.content = Content(line)
    BY <2>1 DEF ScanMatch
  <2> QED BY <1>3, <2>1, <2>4, <2>5, <2>6, TallyOn
<1> QED BY <1>4, <1>5

\* The number of results and the size of their content stay within max_results and
\* max_returned_content_bytes, and returned_content_bytes is the size of what is
\* returned (scan_reader, finish_line).
THEOREM LimitsKept == Spec => []LimitsRespected
<1>1. Init => Tallied
  <2> SUFFICES ASSUME Init PROVE Tallied
    OBVIOUS
  <2>1. results = <<>> /\ returned = 0 /\ Len(results) = 0
    BY DEF Init
  <2>2. Sizes(results) = [i \in 1..0 |-> Size(results[i].content)]
    BY <2>1 DEF Sizes
  <2>3. PICK a : a = Sizes(results) /\ DOMAIN a = 1..0 /\ a = [i \in 1..0 |-> a[i]]
    BY <2>2
  <2>4. Summed(0, a, 0)
    BY <2>3, SumOfNone
  <2> QED BY <2>1, <2>3, <2>4 DEF Tallied
<1>2. IInv /\ Tallied /\ [Next]_vars => Tallied'
  <2> SUFFICES ASSUME IInv, Tallied, [Next]_vars PROVE Tallied'
    OBVIOUS
  <2>1. CASE UNCHANGED <<results, returned, stop>>
    BY <2>1 DEF Tallied
  <2>2. ASSUME NEW byte, ReadByte(byte) PROVE Tallied'
    BY <2>1, <2>2 DEF ReadByte
  <2>3. CASE ReadNewline
    BY <2>3, TallyLine DEF ReadNewline, Reading, Tallied
  <2>4. CASE ReadEnd
    <3>1. stop = None
      BY <2>4 DEF ReadEnd, Reading
    <3>2. CASE line.bytes = 0
      <4>1. results' = results /\ returned' = returned
        BY <2>4, <3>2 DEF ReadEnd
      <4>2. stop # "Io"
        BY <3>1, RunningFacts DEF Reasons
      <4> QED BY <4>1, <4>2 DEF Tallied
    <3>3. CASE line.bytes # 0
      <4>1. FinishLine
        BY <2>4, <3>3 DEF ReadEnd
      <4> QED BY <3>1, <4>1, TallyLine DEF Tallied
    <3> QED BY <3>2, <3>3
  <2>5. CASE ReadFails
    BY <2>5 DEF ReadFails, Tallied
  <2>6. ASSUME NEW reason, StopWith(reason) PROVE Tallied'
    <3>1. stop = None /\ results' = results /\ returned' = returned
      BY <2>6 DEF StopWith
    <3>2. stop # "Io"
      BY <3>1, RunningFacts DEF Reasons
    <3> QED BY <3>1, <3>2 DEF Tallied
  <2>7. CASE UNCHANGED vars
    BY <2>1, <2>7 DEF vars
  <2> QED BY <2>2, <2>3, <2>4, <2>5, <2>6, <2>7 DEF Next, Interrupt, BudgetSpent
<1>3. IInv /\ Tallied => LimitsRespected
  <2> SUFFICES ASSUME IInv, Tallied PROVE LimitsRespected
    OBVIOUS
  <2>1. Len(results) <= request.maxResults /\ returned <= request.maxContent
    BY DEF IInv, WithinLimits
  <2>2. ASSUME stop # "Io"
        PROVE  FoldSeq(LAMBDA m, sum : Size(m.content) + sum, 0, results) = returned
    <3>1. Summed(Len(results), Sizes(results), returned) /\ results \in Seq(Matches)
      BY <2>2 DEF Tallied, IInv
    <3> QED BY <3>1, FoldIs
  <2> QED BY <2>1, <2>2 DEF LimitsRespected
<1> QED BY <1>1, <1>2, <1>3, ScannerInvariant, PTL DEF Spec

=============================================================================
