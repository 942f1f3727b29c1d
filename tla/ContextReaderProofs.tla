------------------------ MODULE ContextReaderProofs ------------------------
(***************************************************************************)
(* What a read of context promises for every file, keyword, number of      *)
(* lines and limit, and whatever programs write into the file in between:  *)
(* the limits are kept, a log that only grows is not called changed, a     *)
(* changed one is not answered from, the keyword is in the answer, and the *)
(* lines shown are those of the file with none missing unless it is said.  *)
(*                                                                         *)
(* The lemmas go from the bytes to the lines: what bytes are shown as,     *)
(* where the keyword is in it, which lines fit into an answer, which lines *)
(* a window holds.  The invariant is ContextInv, with FileInv about the    *)
(* file that is not rewritten.                                             *)
(***************************************************************************)
EXTENDS ContextReader, FiniteSetTheorems, WellFoundedInduction, TLAPS

-----------------------------------------------------------------------------
(***************************************************************************)
(* Numbers and sequences.                                                  *)
(***************************************************************************)

LEMMA LeastNatural ==
  ASSUME NEW S \in SUBSET Nat, S # {}
  PROVE  Min(S) \in S /\ \A y \in S : Min(S) <= y
<1> DEFINE Below(n) == {i \in S : i < n}
           F == {Below(n) : n \in S}
<1>0. \A n \in S : n \in Nat
  OBVIOUS
<1>1. F \subseteq FiniteSubsetsOf(S) /\ F # {}
  <2>1. ASSUME NEW n \in S PROVE Below(n) \in SUBSET S /\ IsFiniteSet(Below(n))
    <3>1. n \in Nat /\ \A i \in Below(n) : i \in Nat /\ i < n
      BY <1>0
    <3>2. \A i, k \in Nat : i < k => i <= k
      OBVIOUS
    <3>3. Below(n) \in SUBSET Nat /\ \A i \in Below(n) : i <= n
      BY <3>1, <3>2
    <3>4. Below(n) \in SUBSET S
      OBVIOUS
    <3> HIDE DEF Below
    <3> QED BY <3>1, <3>3, <3>4, FS_BoundedSetOfNaturals
  <2> QED BY <2>1 DEF FiniteSubsetsOf
<1>2. PICK x \in F : \A y \in F : ~(<<y, x>> \in StrictSubsetOrdering(S))
  BY <1>1, FS_StrictSubsetOrderingWellFounded, WFMin
<1>3. PICK n \in S : x = Below(n)
  BY <1>2
<1>4. ASSUME NEW m \in S, m < n PROVE FALSE
  <2>1. Below(m) \subseteq Below(n) /\ m \in Below(n) /\ m \notin Below(m)
    <3>1. m \in Nat /\ n \in Nat
      BY <1>0
    <3>2. \A i \in Nat : (i < m => i < n) /\ ~(m < m)
      BY <1>4, <3>1
    <3> QED BY <1>0, <1>4, <3>1, <3>2
  <2>2. <<Below(m), Below(n)>> \in StrictSubsetOrdering(S)
    BY <2>1 DEF StrictSubsetOrdering
  <2> QED BY <1>2, <1>3, <2>2
<1>5. n \in S /\ \A y \in S : n <= y
  BY <1>4
<1> QED BY <1>5 DEF Min

\* The greatest of some numbers up to n is one of them.
LEMMA GreatestNatural ==
  ASSUME NEW n \in Nat, NEW S \in SUBSET (0..n), S # {}
  PROVE  Max(S) \in S /\ \A y \in S : y <= Max(S)
<1> DEFINE D == {n - i : i \in S}
<1>1. D \in SUBSET Nat /\ D # {}
  <2>1. ASSUME NEW i \in S PROVE n - i \in Nat
    <3>1. i \in 0..n
      OBVIOUS
    <3> QED BY <3>1
  <2> QED BY <2>1
<1>2. PICK d \in D : \A y \in D : d <= y
  <2> HIDE DEF D
  <2> QED BY <1>1, LeastNatural
<1>3. PICK x \in S : d = n - x
  BY <1>2
<1>4. \A y \in S : x >= y
  <2>1. ASSUME NEW y \in S PROVE x >= y
    <3>1. n - y \in D /\ n - x <= n - y
      BY <1>2, <1>3
    <3>2. x \in Nat /\ y \in Nat
      OBVIOUS
    <3> QED BY <3>1, <3>2
  <2> QED BY <2>1
<1>5. Max(S) \in S /\ \A y \in S : Max(S) >= y
  BY <1>4 DEF Max
<1>6. \A y \in S : y \in Nat
  OBVIOUS
<1> QED BY <1>5, <1>6

LEMMA LeastIs ==
  ASSUME NEW S \in SUBSET Nat, NEW m \in S, \A y \in S : m <= y
  PROVE  Min(S) = m
<1>0. S # {}
  OBVIOUS
<1>1. Min(S) \in S /\ \A y \in S : Min(S) <= y
  BY <1>0, LeastNatural
<1>2. Min(S) \in Nat /\ m \in Nat
  BY <1>1
<1>3. m <= Min(S) /\ Min(S) <= m
  BY <1>1
<1> QED BY <1>2, <1>3

LEMMA GreatestIs ==
  ASSUME NEW n \in Nat, NEW S \in SUBSET (0..n), NEW m \in S, \A y \in S : y <= m
  PROVE  Max(S) = m
<1>0. S # {}
  OBVIOUS
<1>1. Max(S) \in S /\ \A y \in S : y <= Max(S)
  BY <1>0, GreatestNatural
<1>2. Max(S) \in 0..n /\ m \in 0..n
  BY <1>1
<1>3. m <= Max(S) /\ Max(S) <= m
  BY <1>1
<1> QED BY <1>2, <1>3

LEMMA SmallerOf ==
  ASSUME NEW a \in Nat, NEW b \in Nat
  PROVE  Min({a, b}) = IF a <= b THEN a ELSE b
<1>0. {a, b} \in SUBSET Nat /\ {a, b} # {}
  OBVIOUS
<1>1. Min({a, b}) \in {a, b} /\ \A y \in {a, b} : Min({a, b}) <= y
  BY <1>0, LeastNatural
<1> QED BY <1>1

LEMMA GreaterOf ==
  ASSUME NEW b \in Int
  PROVE  Max({0, b}) = IF b <= 0 THEN 0 ELSE b
<1>1. CASE b <= 0
  <2>1. 0 \in {0, b} /\ \A y \in {0, b} : 0 >= y
    BY <1>1
  <2>2. \A x \in {0, b} : (\A y \in {0, b} : x >= y) => x = 0
    BY <1>1
  <2> QED BY <1>1, <2>1, <2>2 DEF Max
<1>2. CASE ~(b <= 0)
  <2>1. b \in {0, b} /\ \A y \in {0, b} : b >= y
    BY <1>2
  <2>2. \A x \in {0, b} : (\A y \in {0, b} : x >= y) => x = b
    BY <1>2
  <2> QED BY <1>2, <2>1, <2>2 DEF Max
<1> QED BY <1>1, <1>2

LEMMA SameSequence ==
  ASSUME NEW T, NEW p \in Seq(T), NEW q \in Seq(T), Len(p) = Len(q),
         \A i \in 1..Len(q) : p[i] = q[i]
  PROVE  p = q
OBVIOUS

\* Two sequences as one.
Joined(a, b) == a \o b

LEMMA JoinedIs ==
  ASSUME NEW T, NEW a \in Seq(T), NEW b \in Seq(T)
  PROVE  /\ Joined(a, b) \in Seq(T) /\ Len(Joined(a, b)) = Len(a) + Len(b)
         /\ \A i \in 1..(Len(a) + Len(b)) :
              Joined(a, b)[i] = IF i <= Len(a) THEN a[i] ELSE b[i - Len(a)]
BY DEF Joined

-----------------------------------------------------------------------------
(***************************************************************************)
(* What bytes are shown as: String::from_utf8_lossy and bounded_text.      *)
(***************************************************************************)

\* f has the joined beginnings of the sequence s of sequences, up to k of them.
Flat(f, k, s) ==
  \A i \in 1..k : f[i] = IF i = 1 THEN s[1] ELSE Joined(f[i - 1], s[i])

LEMMA FlatHas ==
  ASSUME NEW s, NEW l \in Nat
  PROVE  \E g : DOMAIN g = 1..l /\ g = [i \in 1..l |-> g[i]] /\ Flat(g, l, s)
<1> DEFINE Has(k) == \E g : DOMAIN g = 1..k /\ g = [i \in 1..k |-> g[i]] /\ Flat(g, k, s)
           Lacking == {k \in 0..l : ~Has(k)}
<1>1. ASSUME Lacking # {} PROVE FALSE
  <2>1. PICK k \in Lacking : \A y \in Lacking : k <= y
    <3>1. Lacking \in SUBSET Nat
      OBVIOUS
    <3> HIDE DEF Lacking
    <3> QED BY <1>1, <3>1, LeastNatural
  <2>2. k \in 0..l /\ ~Has(k)
    OBVIOUS
  <2>3. k # 0
    <3>1. Has(0)
      <4>1. PICK g : g = [i \in 1..0 |-> 0]
        OBVIOUS
      <4>2. DOMAIN g = 1..0 /\ g = [i \in 1..0 |-> g[i]] /\ Flat(g, 0, s)
        BY <4>1 DEF Flat
      <4> QED BY <4>2
    <3> QED BY <2>2, <3>1
  <2>4. k - 1 \in 0..l /\ k - 1 < k /\ k \in 1..l
    BY <2>2, <2>3
  <2>5. Has(k - 1)
    <3>1. k - 1 \notin Lacking
      <4> HIDE DEF Lacking
      <4> QED BY <2>1, <2>2, <2>4
    <3> QED BY <2>4, <3>1
  <2>6. PICK g : DOMAIN g = 1..(k - 1) /\ Flat(g, k - 1, s)
    BY <2>5
  <2>7. PICK e : e = IF k = 1 THEN s[1] ELSE Joined(g[k - 1], s[k])
    OBVIOUS
  <2>8. PICK h : h = [i \in 1..k |-> IF i = k THEN e ELSE g[i]]
    OBVIOUS
  <2>9. ASSUME NEW i \in 1..k
        PROVE  h[i] = IF i = 1 THEN s[1] ELSE Joined(h[i - 1], s[i])
    <3>1. CASE i = k
      <4>1. h[i] = e /\ (i # 1 => i - 1 \in 1..k /\ i - 1 # k /\ h[i - 1] = g[k - 1])
        BY <2>4, <2>8, <3>1
      <4> QED BY <2>7, <3>1, <4>1
    <3>2. CASE i # k
      <4>1. i \in 1..(k - 1) /\ (i # 1 => i - 1 \in 1..k /\ i - 1 # k)
        BY <2>2, <3>2
      <4>2. h[i] = g[i] /\ (i # 1 => h[i - 1] = g[i - 1])
        BY <2>8, <3>2, <4>1
      <4> QED BY <2>6, <4>1, <4>2 DEF Flat
    <3> QED BY <3>1, <3>2
  <2>10. Has(k)
    <3>1. DOMAIN h = 1..k /\ h = [i \in 1..k |-> h[i]]
      BY <2>8
    <3>2. Flat(h, k, s)
      BY <2>9 DEF Flat
    <3> QED BY <3>1, <3>2
  <2> QED BY <2>2, <2>10
<1> QED BY <1>1

LEMMA FlattenIs ==
  ASSUME NEW s, NEW l \in Nat, l = Len(s), l > 0
  PROVE  \E f : Flat(f, l, s) /\ FlattenSeq(s) = f[l]
<1>1. l \in Nat
  OBVIOUS
<1> DEFINE Eq(f) == f = [i \in 1..l |-> IF i = 1 THEN s[i] ELSE Joined(f[i - 1], s[i])]
<1>2. FlattenSeq(s) = (CHOOSE f : Eq(f))[l]
  BY <1>1 DEF FlattenSeq, Joined
<1>3. \E f : Eq(f)
  <2>1. PICK g : DOMAIN g = 1..l /\ g = [i \in 1..l |-> g[i]] /\ Flat(g, l, s)
    BY <1>1, FlatHas
  <2>2. \A i \in 1..l : g[i] = IF i = 1 THEN s[i] ELSE Joined(g[i - 1], s[i])
    BY <2>1 DEF Flat
  <2>3. PICK h : h = [i \in 1..l |-> IF i = 1 THEN s[i] ELSE Joined(g[i - 1], s[i])]
    OBVIOUS
  <2>4. DOMAIN h = 1..l /\ h = [i \in 1..l |-> h[i]] /\ \A i \in 1..l : h[i] = g[i]
    BY <2>2, <2>3
  <2>5. g = h
    BY ONLY <2>1, <2>4
  <2>6. Eq(g)
    BY <2>3, <2>5
  <2> QED BY <2>6
<1>4. PICK f : f = (CHOOSE h : Eq(h)) /\ Eq(f)
  <2> HIDE DEF Eq
  <2> QED BY <1>3
<1>5. Flat(f, l, s)
  BY <1>4 DEF Flat
<1> QED BY <1>2, <1>4, <1>5

LEMMA FlatUnique ==
  ASSUME NEW k \in Nat, NEW f, NEW g, NEW s, NEW t, Flat(f, k, s), Flat(g, k, t),
         \A i \in 1..k : s[i] = t[i]
  PROVE  \A i \in 1..k : f[i] = g[i]
<1> DEFINE Bad == {i \in 1..k : f[i] # g[i]}
<1>1. ASSUME Bad # {} PROVE FALSE
  <2>1. PICK i \in Bad : \A y \in Bad : i <= y
    <3>1. Bad \in SUBSET Nat
      OBVIOUS
    <3> HIDE DEF Bad
    <3> QED BY <1>1, <3>1, LeastNatural
  <2>2. i \in 1..k /\ f[i] # g[i]
    OBVIOUS
  <2>3. CASE i = 1
    <3>1. f[1] = s[1] /\ g[1] = t[1] /\ s[1] = t[1]
      BY <2>2, <2>3 DEF Flat
    <3> QED BY <2>2, <2>3, <3>1
  <2>4. CASE i # 1
    <3>1. i - 1 \in 1..k /\ ~(i <= i - 1)
      BY <2>2, <2>4
    <3>2. i - 1 \notin Bad
      <4> HIDE DEF Bad
      <4> QED BY <2>1, <3>1
    <3>3. f[i - 1] = g[i - 1] /\ s[i] = t[i]
      BY <2>2, <3>1, <3>2
    <3>4. f[i] = Joined(f[i - 1], s[i]) /\ g[i] = Joined(g[i - 1], t[i])
      BY <2>2, <2>4 DEF Flat
    <3> QED BY <2>2, <3>3, <3>4
  <2> QED BY <2>3, <2>4
<1> QED BY <1>1

\* One more sequence.
LEMMA FlattenMore ==
  ASSUME NEW s, NEW t, NEW l \in Nat, l = Len(s), Len(t) = l + 1,
         \A i \in 1..l : t[i] = s[i]
  PROVE  FlattenSeq(t) = IF l = 0 THEN t[1] ELSE Joined(FlattenSeq(s), t[l + 1])
<1>1. l \in Nat
  OBVIOUS
<1>2. PICK g : Flat(g, l + 1, t) /\ FlattenSeq(t) = g[l + 1]
  BY <1>1, FlattenIs
<1>3. CASE l = 0
  BY <1>2, <1>3 DEF Flat
<1>4. CASE l # 0
  <2>1. PICK f : Flat(f, l, s) /\ FlattenSeq(s) = f[l]
    BY <1>1, <1>4, FlattenIs
  <2>2. Flat(g, l, t)
    <3>1. \A i \in 1..l : i \in 1..(l + 1)
      BY <1>1
    <3> QED BY <1>2, <3>1 DEF Flat
  <2>3. f[l] = g[l]
    <3>1. l \in 1..l
      BY <1>1, <1>4
    <3>2. \A i \in 1..l : s[i] = t[i]
      OBVIOUS
    <3> QED BY <1>1, <2>1, <2>2, <3>1, <3>2, FlatUnique
  <2>4. g[l + 1] = Joined(g[l], t[l + 1])
    <3>1. l + 1 \in 1..(l + 1) /\ l + 1 # 1 /\ (l + 1) - 1 = l
      BY <1>1, <1>4
    <3> QED BY <1>2, <3>1 DEF Flat
  <2> QED BY <1>2, <1>4, <2>1, <2>3, <2>4
<1> QED BY <1>3, <1>4

-----------------------------------------------------------------------------

Chars == Bytes \cup ToSet(Replacement)

\* What a byte is shown as.
Shown(b) == IF b = Invalid THEN Replacement ELSE <<b>>

LEMMA CharsAre == Chars = Bytes \cup {"fffd", "cont"} /\ Replacement \in Seq(Chars) /\ Len(Replacement) = 3
<1>1. ToSet(Replacement) = {"fffd", "cont"}
  BY DEF ToSet, Replacement
<1> QED BY <1>1 DEF Chars, Replacement

LEMMA ShownIs ==
  ASSUME NEW b \in Bytes
  PROVE  Shown(b) \in Seq(Chars) /\ Len(Shown(b)) > 0 /\ Shown(b)[1] # Continuation
<1>1. CASE b = Invalid
  <2>1. Shown(b) = Replacement
    BY <1>1 DEF Shown
  <2>2. Replacement[1] # Continuation
    BY DEF Replacement, Continuation
  <2> QED BY <2>1, <2>2, CharsAre
<1>2. CASE b # Invalid
  <2>1. Shown(b) = <<b>> /\ b \in Chars
    BY <1>2 DEF Shown, Chars
  <2>2. Continuation \in ToSet(Replacement)
    BY DEF ToSet, Replacement, Continuation
  <2>3. b # Continuation
    BY <2>2, TextsAssumption
  <2> QED BY <2>1, <2>3
<1> QED BY <1>1, <1>2

LEMMA JoinAssociative ==
  ASSUME NEW a \in Seq(Chars), NEW b \in Seq(Chars), NEW c \in Seq(Chars),
         NEW u, u = Joined(a, b), NEW v, v = Joined(b, c)
  PROVE  Joined(u, c) = Joined(a, v)
<1>1. u = Joined(a, b)
  OBVIOUS
<1>2. v = Joined(b, c)
  OBVIOUS
<1>3. /\ u \in Seq(Chars) /\ Len(u) = Len(a) + Len(b)
      /\ \A i \in 1..(Len(a) + Len(b)) : u[i] = IF i <= Len(a) THEN a[i] ELSE b[i - Len(a)]
  BY ONLY <1>1, JoinedIs, a \in Seq(Chars), b \in Seq(Chars)
<1>4. /\ v \in Seq(Chars) /\ Len(v) = Len(b) + Len(c)
      /\ \A i \in 1..(Len(b) + Len(c)) : v[i] = IF i <= Len(b) THEN b[i] ELSE c[i - Len(b)]
  BY ONLY <1>2, JoinedIs, b \in Seq(Chars), c \in Seq(Chars)
<1>5. PICK x : x = Joined(u, c)
  OBVIOUS
<1>6. PICK y : y = Joined(a, v)
  OBVIOUS
<1>7. /\ x \in Seq(Chars) /\ Len(x) = Len(u) + Len(c)
      /\ \A i \in 1..(Len(u) + Len(c)) : x[i] = IF i <= Len(u) THEN u[i] ELSE c[i - Len(u)]
  <2>1. u \in Seq(Chars)
    BY <1>3
  <2> QED BY ONLY <1>5, <2>1, JoinedIs, c \in Seq(Chars)
<1>8. /\ y \in Seq(Chars) /\ Len(y) = Len(a) + Len(v)
      /\ \A i \in 1..(Len(a) + Len(v)) : y[i] = IF i <= Len(a) THEN a[i] ELSE v[i - Len(a)]
  <2>1. v \in Seq(Chars)
    BY <1>4
  <2> QED BY ONLY <1>6, <2>1, JoinedIs, a \in Seq(Chars)
<1>9. PICK la \in Nat, lb \in Nat, lc \in Nat : la = Len(a) /\ lb = Len(b) /\ lc = Len(c)
  OBVIOUS
<1>10. Len(x) = Len(y) /\ Len(y) = la + lb + lc
  BY <1>3, <1>4, <1>7, <1>8, <1>9
<1>11. ASSUME NEW i \in 1..Len(y) PROVE x[i] = y[i]
  <2>0. i \in Nat /\ i >= 1 /\ i <= la + lb + lc
    BY <1>9, <1>10
  <2>1. CASE i <= la
    <3>1. i \in 1..(la + lb) /\ i \in 1..(la + lb + lc) /\ i <= la + lb
      BY <1>9, <2>0, <2>1
    <3> QED BY <1>3, <1>4, <1>7, <1>8, <1>9, <2>1, <3>1
  <2>2. CASE la < i /\ i <= la + lb
    <3>1. /\ i \in 1..(la + lb) /\ i \in 1..(la + lb + lc) /\ ~(i <= la)
          /\ i - la \in 1..(lb + lc) /\ i - la <= lb
      BY <1>9, <2>0, <2>2
    <3>2. x[i] = u[i] /\ u[i] = b[i - la]
      BY <1>3, <1>7, <1>9, <2>2, <3>1
    <3>3. y[i] = v[i - la] /\ v[i - la] = b[i - la]
      BY <1>4, <1>8, <1>9, <2>2, <3>1
    <3> QED BY <3>2, <3>3
  <2>3. CASE la + lb < i
    <3>1. /\ i \in 1..(la + lb + lc) /\ ~(i <= la + lb) /\ ~(i <= la)
          /\ i - la \in 1..(lb + lc) /\ ~(i - la <= lb) /\ (i - la) - lb = i - (la + lb)
      BY <1>9, <2>0, <2>3
    <3>2. x[i] = c[i - (la + lb)]
      BY <1>3, <1>7, <1>9, <3>1
    <3>3. y[i] = v[i - la] /\ v[i - la] = c[(i - la) - lb]
      BY <1>4, <1>8, <1>9, <3>1
    <3> QED BY <3>1, <3>2, <3>3
  <2> QED BY <1>9, <2>0, <2>1, <2>2, <2>3
<1>12. x = y
  BY ONLY <1>7, <1>8, <1>10, <1>11, SameSequence
<1> QED BY <1>1, <1>2, <1>5, <1>6, <1>12

LEMMA NothingJoined == ASSUME NEW T, NEW a \in Seq(T) PROVE Joined(<<>>, a) = a /\ Joined(a, <<>>) = a
BY DEF Joined

LEMMA ConvertNone == Convert(<<>>) = <<>>
<1>1. PICK s : s = [i \in DOMAIN <<>> |-> IF <<>>[i] = Invalid THEN Replacement ELSE <<<<>>[i]>>]
  OBVIOUS
<1>2. s = <<>> /\ Len(s) = 0
  BY <1>1
<1>3. FlattenSeq(s) = s
  BY <1>2 DEF FlattenSeq
<1> QED BY <1>1, <1>2, <1>3 DEF Convert

LEMMA ConvertMore ==
  ASSUME NEW p \in Seq(Bytes), NEW q \in Seq(Bytes), NEW l, l = Len(p),
         Len(q) = l + 1, \A i \in 1..l : q[i] = p[i], Convert(p) \in Seq(Chars)
  PROVE  Convert(q) = Joined(Convert(p), Shown(q[l + 1]))
<1>0. l \in Nat /\ DOMAIN p = 1..l /\ DOMAIN q = 1..(l + 1)
  OBVIOUS
<1>1. PICK s : s = [i \in 1..l |-> Shown(p[i])]
  OBVIOUS
<1>2. PICK t : t = [i \in 1..(l + 1) |-> Shown(q[i])]
  OBVIOUS
<1>3. PICK T : T = Seq(Chars)
  OBVIOUS
<1>4. (\A i \in 1..l : Shown(p[i]) \in T) /\ (\A i \in 1..(l + 1) : Shown(q[i]) \in T)
  <2>1. (\A i \in 1..l : p[i] \in Bytes) /\ (\A i \in 1..(l + 1) : q[i] \in Bytes)
    BY <1>0
  <2> QED BY <1>3, <2>1, ShownIs
<1>5. s \in Seq(T) /\ Len(s) = l
  BY <1>0, <1>1, <1>4
<1>6. t \in Seq(T) /\ Len(t) = l + 1
  BY <1>0, <1>2, <1>4
<1>7. \A i \in 1..l : t[i] = s[i]
  BY <1>0, <1>1, <1>2
<1>8. Convert(p) = FlattenSeq(s) /\ Convert(q) = FlattenSeq(t)
  BY <1>0, <1>1, <1>2 DEF Convert, Shown
<1>9. t[l + 1] = Shown(q[l + 1]) /\ t[l + 1] \in T
  BY <1>0, <1>2, <1>4
<1>10. FlattenSeq(t) = IF l = 0 THEN t[1] ELSE Joined(FlattenSeq(s), t[l + 1])
  <2>1. l \in Nat /\ l = Len(s) /\ Len(t) = l + 1 /\ \A i \in 1..l : t[i] = s[i]
    BY <1>0, <1>5, <1>6, <1>7
  <2> QED BY ONLY <2>1, FlattenMore
<1>11. CASE l = 0
  <2>1. p = <<>>
    BY ONLY <1>11, p \in Seq(Bytes), l = Len(p)
  <2>2. Convert(p) = <<>>
    BY <2>1, ConvertNone
  <2>3. Joined(<<>>, t[1]) = t[1]
    BY <1>3, <1>9, <1>11, NothingJoined
  <2> QED BY <1>8, <1>9, <1>10, <1>11, <2>2, <2>3
<1>12. CASE l # 0
  BY <1>8, <1>9, <1>10, <1>12
<1> QED BY <1>11, <1>12

LEMMA PieceOf ==
  ASSUME NEW T, NEW p \in Seq(T), NEW a \in Nat, NEW b \in Nat, a <= b, b <= Len(p)
  PROVE  /\ SubSeq(p, a + 1, b) \in Seq(T) /\ Len(SubSeq(p, a + 1, b)) = b - a
         /\ \A i \in 1..(b - a) : SubSeq(p, a + 1, b)[i] = p[a + i]
OBVIOUS

LEMMA ConvertBeginnings ==
  ASSUME NEW p \in Seq(Bytes), NEW b \in 0..Len(p)
  PROVE  Convert(SubSeq(p, 1, b)) \in Seq(Chars)
<1> DEFINE Bad == {i \in 0..Len(p) : Convert(SubSeq(p, 1, i)) \notin Seq(Chars)}
<1>0. Len(p) \in Nat
  OBVIOUS
<1>1. ASSUME Bad # {} PROVE FALSE
  <2>1. PICK k \in Bad : \A y \in Bad : k <= y
    <3>1. Bad \in SUBSET Nat
      BY <1>0
    <3> HIDE DEF Bad
    <3> QED BY <1>1, <3>1, LeastNatural
  <2>2. k \in 0..Len(p) /\ Convert(SubSeq(p, 1, k)) \notin Seq(Chars)
    OBVIOUS
  <2>3. CASE k = 0
    <3>1. SubSeq(p, 1, k) = <<>>
      BY <2>3
    <3>2. Convert(SubSeq(p, 1, k)) = <<>>
      BY <3>1, ConvertNone
    <3>3. <<>> \in Seq(Chars)
      OBVIOUS
    <3> QED BY <2>2, <3>2, <3>3
  <2>4. CASE k # 0
    <3>1. k - 1 \in 0..Len(p) /\ ~(k <= k - 1) /\ k \in 1..Len(p)
      BY <1>0, <2>2, <2>4
    <3>2. k - 1 \notin Bad
      <4> HIDE DEF Bad
      <4> QED BY <2>1, <3>1
    <3>3. PICK x : x = SubSeq(p, 1, k - 1)
      OBVIOUS
    <3>4. PICK y : y = SubSeq(p, 1, k)
      OBVIOUS
    <3>5. /\ x \in Seq(Bytes) /\ y \in Seq(Bytes) /\ Len(x) = k - 1 /\ Len(y) = (k - 1) + 1
          /\ \A i \in 1..(k - 1) : y[i] = x[i]
      BY <1>0, <3>1, <3>3, <3>4
    <3>6. Convert(x) \in Seq(Chars)
      BY <3>1, <3>2, <3>3
    <3>7. Convert(y) = Joined(Convert(x), Shown(y[(k - 1) + 1]))
      BY ONLY <3>5, <3>6, ConvertMore
    <3>8. y[(k - 1) + 1] \in Bytes
      BY <3>1, <3>5
    <3>9. Shown(y[(k - 1) + 1]) \in Seq(Chars)
      BY <3>8, ShownIs
    <3>10. Convert(y) \in Seq(Chars)
      BY ONLY <3>6, <3>7, <3>9, JoinedIs
    <3> QED BY <2>2, <3>4, <3>10
  <2> QED BY <2>3, <2>4
<1> QED BY <1>1

LEMMA ConvertType ==
  ASSUME NEW p \in Seq(Bytes) PROVE Convert(p) \in Seq(Chars)
<1>1. SubSeq(p, 1, Len(p)) = p /\ Len(p) \in 0..Len(p)
  OBVIOUS
<1> QED BY <1>1, ConvertBeginnings

\* One more byte.
LEMMA ConvertOn ==
  ASSUME NEW p \in Seq(Bytes), NEW q \in Seq(Bytes), NEW l, l = Len(p),
         Len(q) = l + 1, \A i \in 1..l : q[i] = p[i]
  PROVE  Convert(q) = Joined(Convert(p), Shown(q[l + 1]))
<1>1. Convert(p) \in Seq(Chars)
  BY ConvertType
<1> QED BY <1>1, ConvertMore

\* A text is converted piece by piece.
LEMMA ConvertJoined ==
  ASSUME NEW p \in Seq(Bytes), NEW a \in Nat, NEW b \in a..Len(p)
  PROVE  Convert(SubSeq(p, 1, b)) = Joined(Convert(SubSeq(p, 1, a)), Convert(SubSeq(p, a + 1, b)))
<1> DEFINE Right(i) == Convert(SubSeq(p, 1, i)) =
                         Joined(Convert(SubSeq(p, 1, a)), Convert(SubSeq(p, a + 1, i)))
           Bad == {i \in a..Len(p) : ~Right(i)}
<1>0. Len(p) \in Nat
  OBVIOUS
<1>1. ASSUME Bad # {} PROVE FALSE
  <2>1. PICK k \in Bad : \A y \in Bad : k <= y
    <3>1. Bad \in SUBSET Nat
      BY <1>0
    <3> HIDE DEF Bad
    <3> QED BY <1>1, <3>1, LeastNatural
  <2>2. k \in a..Len(p) /\ ~Right(k)
    OBVIOUS
  <2>3. PICK w : w = Convert(SubSeq(p, 1, a)) /\ w \in Seq(Chars)
    <3>1. a \in 0..Len(p)
      BY <1>0, <2>2
    <3> QED BY <3>1, ConvertBeginnings
  <2>4. CASE k = a
    <3>1. SubSeq(p, a + 1, k) = <<>>
      BY <1>0, <2>2, <2>4
    <3>2. Joined(w, <<>>) = w
      BY <2>3, NothingJoined
    <3> QED BY <2>2, <2>3, <2>4, <3>1, <3>2, ConvertNone
  <2>5. CASE k # a
    <3>1. k - 1 \in a..Len(p) /\ ~(k <= k - 1) /\ k \in 1..Len(p) /\ k - 1 \in Nat /\ a <= k - 1
      BY <1>0, <2>2, <2>5
    <3>2. Right(k - 1)
      <4>1. k - 1 \notin Bad
        <5> HIDE DEF Bad
        <5> QED BY <2>1, <3>1
      <4> QED BY <3>1, <4>1
    <3>3. PICK x : x = SubSeq(p, 1, k - 1)
      OBVIOUS
    <3>4. PICK y : y = SubSeq(p, 1, k)
      OBVIOUS
    <3>5. PICK u : u = SubSeq(p, a + 1, k - 1)
      OBVIOUS
    <3>6. PICK v : v = SubSeq(p, a + 1, k)
      OBVIOUS
    <3>7. /\ x \in Seq(Bytes) /\ y \in Seq(Bytes) /\ Len(x) = k - 1 /\ Len(y) = (k - 1) + 1
          /\ \A i \in 1..(k - 1) : y[i] = x[i]
          /\ y[(k - 1) + 1] = p[k]
      BY <1>0, <3>1, <3>3, <3>4
    <3>8. /\ u \in Seq(Bytes) /\ Len(u) = k - 1 - a /\ \A i \in 1..(k - 1 - a) : u[i] = p[a + i]
      BY <1>0, <3>1, <3>5, PieceOf
    <3>9. /\ v \in Seq(Bytes) /\ Len(v) = k - a /\ \A i \in 1..(k - a) : v[i] = p[a + i]
      BY <1>0, <2>2, <3>1, <3>6, PieceOf
    <3>10. PICK m \in Nat : m = Len(u) /\ Len(v) = m + 1 /\ (\A i \in 1..m : v[i] = u[i]) /\ v[m + 1] = p[k]
      <4>1. k - 1 - a \in Nat /\ k - a = (k - 1 - a) + 1 /\ a + (k - a) = k
        BY <1>0, <2>2, <3>1
      <4>2. (\A i \in 1..(k - 1 - a) : i \in 1..(k - a)) /\ k - a \in 1..(k - a)
        BY <4>1
      <4> QED BY <3>8, <3>9, <4>1, <4>2
    <3>11. PICK e : e = Shown(p[k]) /\ e \in Seq(Chars)
      <4>1. p[k] \in Bytes
        BY <3>1
      <4> QED BY <4>1, ShownIs
    <3>12. Convert(y) = Joined(Convert(x), e)
      <4>1. Convert(y) = Joined(Convert(x), Shown(y[(k - 1) + 1]))
        BY ONLY <3>7, ConvertOn
      <4> QED BY <3>7, <3>11, <4>1
    <3>13. Convert(v) = Joined(Convert(u), e) /\ Convert(u) \in Seq(Chars)
      <4>1. u \in Seq(Bytes) /\ v \in Seq(Bytes)
        BY <3>8, <3>9
      <4>2. Convert(v) = Joined(Convert(u), Shown(v[m + 1]))
        BY ONLY <3>10, <4>1, ConvertOn
      <4> QED BY <3>10, <3>11, <4>1, <4>2, ConvertType
    <3>14. Convert(x) = Joined(w, Convert(u))
      BY <2>3, <3>2, <3>3, <3>5
    <3>15. PICK cu \in Seq(Chars) : cu = Convert(u)
      BY <3>13
    <3>16. PICK cx : cx = Convert(x) /\ cx = Joined(w, cu)
      BY <3>14, <3>15
    <3>17. PICK cv : cv = Convert(v) /\ cv = Joined(cu, e)
      BY <3>13, <3>15
    <3>18. Joined(cx, e) = Joined(w, cv)
      <4>1. w \in Seq(Chars) /\ e \in Seq(Chars) /\ cx = Joined(w, cu) /\ cv = Joined(cu, e)
        BY <2>3, <3>11, <3>16, <3>17
      <4> QED BY ONLY <4>1, <3>15, JoinAssociative
    <3>19. Convert(y) = Joined(w, Convert(v))
      BY <3>12, <3>16, <3>17, <3>18
    <3> QED BY <2>2, <2>3, <3>4, <3>6, <3>19
  <2> QED BY <2>4, <2>5
<1> QED BY <1>1

\* Without invalid bytes a text is shown as it is.
LEMMA ConvertPlain ==
  ASSUME NEW p \in Seq(Bytes), \A i \in 1..Len(p) : p[i] # Invalid
  PROVE  Convert(p) = p
<1> DEFINE Bad == {i \in 0..Len(p) : Convert(SubSeq(p, 1, i)) # SubSeq(p, 1, i)}
<1>0. Len(p) \in Nat
  OBVIOUS
<1>1. ASSUME Bad # {} PROVE FALSE
  <2>1. PICK k \in Bad : \A y \in Bad : k <= y
    <3>1. Bad \in SUBSET Nat
      BY <1>0
    <3> HIDE DEF Bad
    <3> QED BY <1>1, <3>1, LeastNatural
  <2>2. k \in 0..Len(p) /\ Convert(SubSeq(p, 1, k)) # SubSeq(p, 1, k)
    OBVIOUS
  <2>3. CASE k = 0
    <3>1. SubSeq(p, 1, k) = <<>>
      BY <2>3
    <3> QED BY <2>2, <3>1, ConvertNone
  <2>4. CASE k # 0
    <3>1. k - 1 \in 0..Len(p) /\ ~(k <= k - 1) /\ k \in 1..Len(p)
      BY <1>0, <2>2, <2>4
    <3>2. k - 1 \notin Bad
      <4> HIDE DEF Bad
      <4> QED BY <2>1, <3>1
    <3>3. PICK x : x = SubSeq(p, 1, k - 1)
      OBVIOUS
    <3>4. PICK y : y = SubSeq(p, 1, k)
      OBVIOUS
    <3>5. /\ x \in Seq(Bytes) /\ y \in Seq(Bytes) /\ Len(x) = k - 1 /\ Len(y) = (k - 1) + 1
          /\ (\A i \in 1..(k - 1) : y[i] = x[i])
          /\ y[(k - 1) + 1] = p[k]
      BY <1>0, <3>1, <3>3, <3>4
    <3>6. Convert(x) = x
      BY <3>1, <3>2, <3>3
    <3>7. Convert(y) = Joined(Convert(x), Shown(p[k]))
      <4>1. Convert(y) = Joined(Convert(x), Shown(y[(k - 1) + 1]))
        BY ONLY <3>5, ConvertOn
      <4> QED BY <3>5, <4>1
    <3>8. p[k] # Invalid
      BY <3>1
    <3>9. Shown(p[k]) = <<p[k]>> /\ p[k] \in Bytes
      BY <3>1, <3>8 DEF Shown
    <3>10. y = Joined(x, <<p[k]>>)
      BY <3>5, <3>9 DEF Joined
    <3> QED BY <2>2, <3>4, <3>6, <3>7, <3>9, <3>10
  <2> QED BY <2>3, <2>4
<1>2. SubSeq(p, 1, Len(p)) = p /\ Len(p) \in 0..Len(p)
  OBVIOUS
<1> QED BY <1>1, <1>2

LEMMA FoldIs ==
  ASSUME NEW b, NEW s
  PROVE  Fold(b, s) = b \/ (b = "M" /\ Fold(b, s) = "m")
BY Zenon DEF Fold

\* A byte that counts as the byte k of a keyword.
Same(c, k) == Fold(c, request.sensitive) = Fold(k, request.sensitive)

Special == {Newline, Return, Invalid, "fffd", "cont"}

LEMMA SameIs ==
  ASSUME NEW c, NEW k, k \notin Special, Same(c, k)
  PROVE  c \notin Special
<1>1. PICK fc : fc = Fold(c, request.sensitive) /\ (fc = c \/ (c = "M" /\ fc = "m"))
  BY FoldIs
<1>2. PICK fk : fk = Fold(k, request.sensitive) /\ (fk = k \/ (k = "M" /\ fk = "m"))
  BY FoldIs
<1>3. fc = fk
  BY <1>1, <1>2 DEF Same
<1>4. "m" \notin Special /\ "M" \notin Special
  BY DEF Special, Newline, Return, Invalid
<1> QED BY <1>1, <1>2, <1>3, <1>4

Keyword == request.keyword

LEMMA RequestIs ==
  ASSUME request \in Requests
  PROVE  /\ Keyword \in Seq(Bytes) /\ Len(Keyword) \in Nat \ {0}
         /\ \A j \in 1..Len(Keyword) : Keyword[j] \in Bytes /\ Keyword[j] \notin Special
         /\ DOMAIN Keyword = 1..Len(Keyword)
         /\ request.before \in Nat /\ request.after \in Nat
         /\ request.maxLine \in Nat /\ request.maxContent \in Nat
         /\ request.maxBefore \in Nat \ {0} /\ request.maxForward \in Nat \ {0}
         /\ Len(Keyword) <= request.maxLine /\ request.maxLine <= request.maxContent
<1>1. PICK K : K = Seq(Bytes \ {Newline, Return, Invalid}) \ {<<>>}
  OBVIOUS
<1>2. /\ request \in [keyword : K, sensitive : BOOLEAN,
                      before : Nat, after : Nat, maxLine : Nat, maxContent : Nat,
                      maxBefore : Nat \ {0}, maxForward : Nat \ {0}]
      /\ Len(request.keyword) <= request.maxLine /\ request.maxLine <= request.maxContent
  BY <1>1, RequestsAssumption
<1>3. /\ request.keyword \in K
      /\ request.before \in Nat /\ request.after \in Nat
      /\ request.maxLine \in Nat /\ request.maxContent \in Nat
      /\ request.maxBefore \in Nat \ {0} /\ request.maxForward \in Nat \ {0}
  BY <1>2
<1>4. PICK B : B = Bytes \ {Newline, Return, Invalid}
  OBVIOUS
<1>5. Keyword \in Seq(B) /\ Keyword # <<>>
  BY <1>1, <1>3, <1>4 DEF Keyword
<1>6. /\ Len(Keyword) \in Nat \ {0} /\ DOMAIN Keyword = 1..Len(Keyword)
      /\ \A j \in 1..Len(Keyword) : Keyword[j] \in B
  BY <1>5
<1>7. \A b \in B : b \in Bytes /\ b \notin Special
  <2>1. ToSet(Replacement) = {"fffd", "cont"}
    BY DEF ToSet, Replacement
  <2>2. "fffd" \notin Bytes /\ "cont" \notin Bytes
    BY <2>1, TextsAssumption
  <2> QED BY <1>4, <2>2 DEF Special
<1>8. Keyword \in Seq(Bytes)
  BY <1>5, <1>7
<1> QED BY <1>2, <1>3, <1>6, <1>7, <1>8 DEF Keyword

\* The keyword is in the text t behind the place h.
KeywordAt(t, h) == \A j \in 1..Len(Keyword) : Same(t[h + j], Keyword[j])

LEMMA OccurrencesAre ==
  ASSUME request \in Requests, NEW T, NEW t \in Seq(T)
  PROVE  /\ Occurrences(t, request) \in SUBSET Nat
         /\ \A h : h \in Occurrences(t, request) <=>
              h \in Nat /\ h + Len(Keyword) <= Len(t) /\ KeywordAt(t, h)
<1>1. PICK n \in Nat : n = Len(Keyword) /\ DOMAIN Keyword = 1..n
  BY RequestIs
<1>2. Occurrences(t, request) = {i \in 0..(Len(t) - n) : KeywordAt(t, i)}
  BY <1>1 DEF Occurrences, KeywordAt, Keyword, Same
<1>3. PICK l \in Nat : l = Len(t)
  OBVIOUS
<1>4. \A h : h \in 0..(l - n) <=> h \in Nat /\ h + n <= l
  OBVIOUS
<1> QED BY <1>1, <1>2, <1>3, <1>4

-----------------------------------------------------------------------------

\* In a text the bytes of a replacement are behind its first one.
WellFormed(t) ==
  \A i \in 1..Len(t) : t[i] = Continuation => i > 1 /\ t[i - 1] \in {"fffd", "cont"}

LEMMA ShownWellFormed ==
  ASSUME NEW b \in Bytes PROVE WellFormed(Shown(b))
<1>1. CASE b = Invalid
  <2>1. Shown(b) = <<"fffd", "cont", "cont">>
    BY <1>1 DEF Shown, Replacement
  <2>2. PICK u : u = <<"fffd", "cont", "cont">>
    OBVIOUS
  <2>3. Len(u) = 3 /\ u[1] = "fffd" /\ u[2] = "cont" /\ u[3] = "cont"
    BY <2>2
  <2>4. \A i \in 1..3 : i = 1 \/ i = 2 \/ i = 3
    OBVIOUS
  <2>5. \A i \in 1..3 : u[i] = "cont" => i > 1 /\ u[i - 1] \in {"fffd", "cont"}
    BY <2>3, <2>4
  <2> QED BY <2>1, <2>2, <2>3, <2>5 DEF WellFormed, Continuation
<1>2. CASE b # Invalid
  <2>1. Shown(b) = <<b>> /\ Len(Shown(b)) = 1 /\ Shown(b)[1] # Continuation
    BY <1>2, ShownIs DEF Shown
  <2> QED BY <2>1 DEF WellFormed
<1> QED BY <1>1, <1>2

LEMMA JoinedWellFormed ==
  ASSUME NEW a \in Seq(Chars), NEW b \in Seq(Chars), WellFormed(a), WellFormed(b)
  PROVE  WellFormed(Joined(a, b))
<1>0. PICK u : u = Joined(a, b)
  OBVIOUS
<1>1. /\ u \in Seq(Chars) /\ Len(u) = Len(a) + Len(b)
      /\ \A i \in 1..(Len(a) + Len(b)) : u[i] = IF i <= Len(a) THEN a[i] ELSE b[i - Len(a)]
  <2>1. a \in Seq(Chars) /\ b \in Seq(Chars)
    OBVIOUS
  <2> QED BY ONLY <1>0, <2>1, JoinedIs
<1>2. PICK l \in Nat, m \in Nat : l = Len(a) /\ m = Len(b)
  OBVIOUS
<1>3. ASSUME NEW i \in 1..(l + m), u[i] = Continuation
      PROVE  i > 1 /\ u[i - 1] \in {"fffd", "cont"}
  <2>1. CASE i <= l
    <3>1. i \in 1..l /\ u[i] = a[i]
      BY <1>1, <1>2, <2>1
    <3>2. i > 1 /\ a[i - 1] \in {"fffd", "cont"}
      BY <1>2, <1>3, <3>1 DEF WellFormed
    <3>3. i - 1 \in 1..(l + m) /\ i - 1 <= l
      BY <2>1, <3>2
    <3>4. u[i - 1] = a[i - 1]
      BY <1>1, <1>2, <3>3
    <3> QED BY <3>2, <3>4
  <2>2. CASE ~(i <= l)
    <3>1. i - l \in 1..m /\ u[i] = b[i - l]
      BY <1>1, <1>2, <2>2
    <3>2. i - l > 1 /\ b[(i - l) - 1] \in {"fffd", "cont"}
      BY <1>2, <1>3, <3>1 DEF WellFormed
    <3>3. i - 1 \in 1..(l + m) /\ ~(i - 1 <= l) /\ (i - 1) - l = (i - l) - 1
      BY <2>2, <3>2
    <3>4. u[i - 1] = b[(i - l) - 1]
      BY <1>1, <1>2, <3>3
    <3> QED BY <3>2, <3>3, <3>4
  <2> QED BY <2>1, <2>2
<1> QED BY <1>0, <1>1, <1>2, <1>3 DEF WellFormed

LEMMA ConvertWellFormed ==
  ASSUME NEW p \in Seq(Bytes) PROVE WellFormed(Convert(p))
<1> DEFINE Bad == {i \in 0..Len(p) : ~WellFormed(Convert(SubSeq(p, 1, i)))}
<1>0. Len(p) \in Nat
  OBVIOUS
<1>1. ASSUME Bad # {} PROVE FALSE
  <2>1. PICK k \in Bad : \A y \in Bad : k <= y
    <3>1. Bad \in SUBSET Nat
      BY <1>0
    <3> HIDE DEF Bad
    <3> QED BY <1>1, <3>1, LeastNatural
  <2>2. k \in 0..Len(p) /\ ~WellFormed(Convert(SubSeq(p, 1, k)))
    OBVIOUS
  <2>3. CASE k = 0
    <3>1. SubSeq(p, 1, k) = <<>>
      BY <2>3
    <3>2. WellFormed(<<>>)
      BY DEF WellFormed
    <3> QED BY <2>2, <3>1, <3>2, ConvertNone
  <2>4. CASE k # 0
    <3>1. k - 1 \in 0..Len(p) /\ ~(k <= k - 1) /\ k \in 1..Len(p)
      BY <1>0, <2>2, <2>4
    <3>2. k - 1 \notin Bad
      <4> HIDE DEF Bad
      <4> QED BY <2>1, <3>1
    <3>3. PICK x : x = SubSeq(p, 1, k - 1)
      OBVIOUS
    <3>4. PICK y : y = SubSeq(p, 1, k)
      OBVIOUS
    <3>5. /\ x \in Seq(Bytes) /\ y \in Seq(Bytes) /\ Len(x) = k - 1 /\ Len(y) = (k - 1) + 1
          /\ (\A i \in 1..(k - 1) : y[i] = x[i])
          /\ y[(k - 1) + 1] = p[k]
      BY <1>0, <3>1, <3>3, <3>4
    <3>6. WellFormed(Convert(x)) /\ Convert(x) \in Seq(Chars)
      BY <3>1, <3>2, <3>3, <3>5, ConvertType
    <3>7. Convert(y) = Joined(Convert(x), Shown(p[k]))
      <4>1. Convert(y) = Joined(Convert(x), Shown(y[(k - 1) + 1]))
        BY ONLY <3>5, ConvertOn
      <4> QED BY <3>5, <4>1
    <3>8. Shown(p[k]) \in Seq(Chars) /\ WellFormed(Shown(p[k]))
      <4>1. p[k] \in Bytes
        BY <3>1
      <4> QED BY <4>1, ShownIs, ShownWellFormed
    <3>9. WellFormed(Convert(y))
      BY <3>6, <3>7, <3>8, JoinedWellFormed
    <3> QED BY <2>2, <3>4, <3>9
  <2> QED BY <2>3, <2>4
<1>2. SubSeq(p, 1, Len(p)) = p /\ Len(p) \in 0..Len(p)
  OBVIOUS
<1> QED BY <1>1, <1>2

-----------------------------------------------------------------------------

LEMMA LeadIs ==
  ASSUME request \in Requests
  PROVE  Lead \in Nat /\ Lead + Len(Keyword) <= request.maxLine
<1>1. PICK m \in Nat : m = request.maxLine - Len(Keyword)
  BY RequestIs
<1>2. m \div 2 \in Nat /\ m \div 2 <= m
  OBVIOUS
<1>3. Lead = m \div 2
  BY <1>1 DEF Lead, Keyword
<1> QED BY <1>1, <1>2, <1>3, RequestIs

\* What of a text is shown: one piece of it, not longer than a line may be, and
\* with the keyword of a match in it.
LEMMA BoundedTextIs ==
  ASSUME request \in Requests, NEW t \in Seq(Chars), WellFormed(t), NEW isMatch
  PROVE  \E from, end \in 0..Len(t) :
           /\ from <= end /\ end - from <= request.maxLine
           /\ BoundedText(t, isMatch) = SubSeq(t, from + 1, end)
           /\ Len(t) <= request.maxLine => from = 0 /\ end = Len(t)
           /\ isMatch /\ Occurrences(t, request) # {} =>
                \E h \in Nat : from <= h /\ h + Len(Keyword) <= end /\ KeywordAt(t, h)
<1>0. PICK l \in Nat, w \in Nat, n \in Nat \ {0} :
        l = Len(t) /\ w = request.maxLine /\ n = Len(Keyword) /\ n <= w
  <2>1. request.maxLine \in Nat /\ Len(Keyword) \in Nat \ {0} /\ Len(Keyword) <= request.maxLine
    BY RequestIs
  <2>2. Len(t) \in Nat
    OBVIOUS
  <2> QED BY ONLY <2>1, <2>2
<1> DEFINE hits == Occurrences(t, request)
<1>1. hits \in SUBSET Nat /\ \A h \in hits : h \in Nat /\ h + n <= l /\ KeywordAt(t, h)
  BY <1>0, OccurrencesAre
<1>2. CASE l <= w
  <2>1. BoundedText(t, isMatch) = t
    BY <1>0, <1>2 DEF BoundedText
  <2>2. t = SubSeq(t, 0 + 1, l) /\ 0 \in 0..l /\ l \in 0..l
    BY <1>0
  <2>3. hits # {} => \E h \in Nat : 0 <= h /\ h + n <= l /\ KeywordAt(t, h)
    BY <1>1
  <2>4. 0 <= l /\ l - 0 <= w
    BY <1>2
  <2> QED BY <1>0, <2>1, <2>2, <2>3, <2>4
<1>3. CASE ~(l <= w)
  <2> DEFINE cut == CutFrom(t, isMatch)
             A == {i \in cut..l : IsBoundary(t, i)}
             from == Min(A)
             cap == Min({from + w, l})
             B == {i \in from..cap : IsBoundary(t, i)}
             end == Max(B)
             found == isMatch /\ hits # {}
  <2>1. cut \in 0..l /\ (found => \E h \in hits : h = Min(hits) /\ cut <= h /\ h + n <= cut + w)
    <3>1. CASE found
      <4>1. PICK h \in hits : h = Min(hits)
        BY <1>1, <3>1, LeastNatural
      <4>2. PICK d \in Nat : d = Lead /\ d + n <= w
        BY <1>0, LeadIs
      <4>3. cut = Max({0, h - d})
        BY <3>1, <4>1, <4>2 DEF CutFrom
      <4>4. h \in Nat /\ h + n <= l /\ h - d \in Int
        BY <1>1, <4>1, <4>2
      <4>5. cut = IF h - d <= 0 THEN 0 ELSE h - d
        BY <4>3, <4>4, GreaterOf
      <4>6. cut \in 0..l /\ cut <= h /\ h + n <= cut + w
        <5> HIDE DEF cut, hits
        <5> QED BY <1>0, <4>2, <4>4, <4>5
      <4> HIDE DEF cut, hits
      <4> QED BY <4>1, <4>6
    <3>2. CASE ~found
      BY <3>2 DEF CutFrom
    <3> QED BY <3>1, <3>2
  <2>2. IsBoundary(t, l)
    BY <1>0 DEF IsBoundary
  <2>3. ASSUME NEW h \in hits PROVE IsBoundary(t, h) /\ IsBoundary(t, h + n)
    <3>1. h \in Nat /\ h + n <= l /\ KeywordAt(t, h)
      BY <1>1
    <3>2. \A j \in 1..n : t[h + j] \notin Special
      <4>1. \A j \in 1..n : Keyword[j] \notin Special
        BY <1>0, RequestIs
      <4> QED BY <1>0, <3>1, <4>1, SameIs DEF KeywordAt
    <3>3. t[h + 1] # Continuation
      <4>1. 1 \in 1..n
        BY <1>0
      <4> QED BY <3>2, <4>1 DEF Special, Continuation
    <3>4. ASSUME h + n # l PROVE t[h + n + 1] # Continuation
      <4>1. n \in 1..n /\ h + n + 1 \in 1..l /\ (h + n + 1) - 1 = h + n
        BY <1>0, <3>1, <3>4
      <4>2. t[h + n] \notin {"fffd", "cont"}
        BY <3>2, <4>1 DEF Special
      <4> QED BY <1>0, <4>1, <4>2 DEF WellFormed
    <3> QED BY <1>0, <3>3, <3>4 DEF IsBoundary
  <2> HIDE DEF cut, hits, found
  <2>4. from \in A /\ (\A y \in A : from <= y) /\ from \in 0..l /\ cut <= from
    <3>1. A \in SUBSET Nat /\ A # {}
      <4>1. l \in cut..l /\ \A i \in cut..l : i \in Nat
        BY <2>1
      <4> QED BY <2>2, <4>1
    <3>2. Min(A) \in A /\ \A y \in A : Min(A) <= y
      <4> HIDE DEF A
      <4> QED BY <3>1, LeastNatural
    <3>3. \A i \in A : i \in 0..l /\ cut <= i
      BY <2>1
    <3> HIDE DEF A
    <3> QED BY <3>2, <3>3
  <2>5. cap \in 0..l /\ from <= cap /\ cap <= from + w /\ (cap = from + w \/ cap = l)
    <3>1. cap = IF from + w <= l THEN from + w ELSE l
      <4>1. from + w \in Nat
        BY <2>4
      <4> HIDE DEF from
      <4> QED BY <4>1, SmallerOf
    <3> HIDE DEF cap, from, A
    <3> QED BY <2>4, <3>1
  <2>6. end \in B /\ \A y \in B : y <= end
    <3>1. B \in SUBSET (0..l) /\ from \in B
      <4>1. IsBoundary(t, from)
        BY <2>4
      <4>2. from \in from..cap /\ \A i \in from..cap : i \in 0..l
        <5> HIDE DEF from, cap, A
        <5> QED BY <2>4, <2>5
      <4> HIDE DEF from, cap, A
      <4> QED BY <4>1, <4>2
    <3> HIDE DEF B
    <3> QED BY <3>1, GreatestNatural
  <2>7. BoundedText(t, isMatch) = SubSeq(t, from + 1, end)
    BY <1>0, <1>3 DEF BoundedText, cut
  <2>8. end \in from..cap
    <3> HIDE DEF end, from, cap
    <3> QED BY <2>6
  <2>9. from \in 0..l /\ end \in 0..l /\ from <= end /\ end - from <= w
    <3> HIDE DEF end, from, cap, A
    <3> QED BY <2>4, <2>5, <2>8
  <2>10. ASSUME found
         PROVE  \E h \in Nat : from <= h /\ h + n <= end /\ KeywordAt(t, h)
    <3>1. PICK h \in hits : cut <= h /\ h + n <= cut + w
      BY <2>1, <2>10
    <3>2. h \in Nat /\ h + n <= l /\ KeywordAt(t, h)
      BY <1>1
    <3>3. from <= h
      <4>1. h \in cut..l
        BY <2>1, <3>1, <3>2
      <4>2. h \in A
        BY <2>3, <4>1
      <4> HIDE DEF A
      <4> QED BY <2>4, <4>2
    <3>4. h + n \in B
      <4>1. h + n \in from..cap
        <5> HIDE DEF from, cap, A
        <5> QED BY <1>0, <2>1, <2>4, <2>5, <3>1, <3>2, <3>3
      <4> HIDE DEF from, cap
      <4> QED BY <2>3, <4>1
    <3>5. h + n <= end
      <4> HIDE DEF B
      <4> QED BY <2>6, <3>4
    <3> HIDE DEF from, end
    <3> QED BY <3>2, <3>3, <3>5
  <2> HIDE DEF from, end
  <2>11. isMatch /\ Occurrences(t, request) # {} => found
    BY DEF found, hits
  <2> QED BY <1>0, <1>3, <2>7, <2>9, <2>10, <2>11
<1> QED BY <1>2, <1>3

\* The keyword stays where it is in a text that is converted.
LEMMA KeywordConverted ==
  ASSUME request \in Requests, NEW p \in Seq(Bytes), NEW h \in Nat,
         h + Len(Keyword) <= Len(p), KeywordAt(p, h)
  PROVE  Occurrences(Convert(p), request) # {}
<1>0. Len(Keyword) \in Nat \ {0} /\ Len(p) \in Nat
  BY RequestIs
<1>1. PICK n \in Nat \ {0}, l \in Nat : n = Len(Keyword) /\ l = Len(p) /\ h + n <= l
  BY <1>0
<1>2. PICK a : a = SubSeq(p, 1, h)
  OBVIOUS
<1>3. PICK b : b = SubSeq(p, h + 1, h + n)
  OBVIOUS
<1>4. PICK c : c = SubSeq(p, 1, h + n)
  OBVIOUS
<1>5. PICK d : d = SubSeq(p, (h + n) + 1, l)
  OBVIOUS
<1>6. a \in Seq(Bytes) /\ b \in Seq(Bytes) /\ d \in Seq(Bytes) /\ Len(b) = n
      /\ \A j \in 1..n : b[j] = p[h + j]
  BY <1>1, <1>2, <1>3, <1>5
<1>7. Convert(c) = Joined(Convert(a), Convert(b))
  <2>1. h + n \in h..Len(p)
    BY <1>1
  <2> QED BY <1>2, <1>3, <1>4, <2>1, ConvertJoined
<1>8. Convert(p) = Joined(Convert(c), Convert(d))
  <2>1. h + n \in Nat /\ l \in (h + n)..Len(p) /\ SubSeq(p, 1, l) = p
    BY <1>1
  <2>2. Convert(SubSeq(p, 1, l)) = Joined(Convert(SubSeq(p, 1, h + n)), Convert(SubSeq(p, (h + n) + 1, l)))
    BY <2>1, ConvertJoined
  <2> QED BY <1>4, <1>5, <2>1, <2>2
<1>9. Convert(b) = b
  <2>1. ASSUME NEW j \in 1..n PROVE b[j] # Invalid
    <3>1. Keyword[j] \notin Special /\ Same(p[h + j], Keyword[j])
      BY <1>1, RequestIs DEF KeywordAt
    <3>2. p[h + j] \notin Special
      BY <3>1, SameIs
    <3> QED BY <1>6, <3>2 DEF Special
  <2>2. \A j \in 1..Len(b) : b[j] # Invalid
    BY <1>6, <2>1
  <2> QED BY <1>6, <2>2, ConvertPlain
<1>10. Convert(a) \in Seq(Chars) /\ b \in Seq(Chars) /\ Convert(d) \in Seq(Chars)
  BY <1>6, <1>9, ConvertType
<1>11. PICK x : x = Joined(Convert(a), b)
  OBVIOUS
<1>12. PICK y : y = Joined(x, Convert(d))
  OBVIOUS
<1>13. PICK u, v : u = Convert(a) /\ v = Convert(d)
  OBVIOUS
<1>14. u \in Seq(Chars) /\ v \in Seq(Chars)
  BY <1>10, <1>13
<1>15. x \in Seq(Chars) /\ Len(x) = Len(u) + Len(b)
       /\ \A i \in 1..(Len(u) + Len(b)) : x[i] = IF i <= Len(u) THEN u[i] ELSE b[i - Len(u)]
  <2>1. u \in Seq(Chars) /\ b \in Seq(Chars) /\ x = Joined(u, b)
    BY <1>10, <1>11, <1>13
  <2> QED BY ONLY <2>1, JoinedIs
<1>16. y \in Seq(Chars) /\ Len(y) = Len(x) + Len(v)
       /\ \A i \in 1..(Len(x) + Len(v)) : y[i] = IF i <= Len(x) THEN x[i] ELSE v[i - Len(x)]
  <2>1. x \in Seq(Chars) /\ v \in Seq(Chars) /\ y = Joined(x, v)
    BY <1>12, <1>13, <1>14, <1>15
  <2> QED BY ONLY <2>1, JoinedIs
<1>17. PICK k \in Nat : k = Len(u)
  BY <1>14
<1>18. PICK m \in Nat : m = Len(v)
  BY <1>14
<1>19. Len(x) = k + n /\ Len(y) = k + n + m
  BY <1>6, <1>15, <1>16, <1>17, <1>18
<1>20. ASSUME NEW j \in 1..n PROVE y[k + j] = p[h + j]
  <2>1. k + j \in 1..(k + n + m) /\ k + j <= k + n /\ k + j \in 1..(k + n)
        /\ ~(k + j <= k) /\ (k + j) - k = j
    OBVIOUS
  <2>2. y[k + j] = x[k + j]
    BY <1>16, <1>18, <1>19, <2>1
  <2>3. x[k + j] = b[j]
    BY <1>6, <1>15, <1>17, <2>1
  <2> QED BY <1>6, <2>2, <2>3
<1>21. KeywordAt(y, k)
  BY <1>1, <1>20 DEF KeywordAt
<1>22. Convert(p) = y
  BY <1>7, <1>8, <1>9, <1>11, <1>12
<1>23. k \in Occurrences(y, request)
  <2>1. k + Len(Keyword) <= Len(y)
    BY <1>1, <1>19
  <2>2. y \in Seq(Chars)
    BY <1>16
  <2> QED BY <1>21, <2>1, <2>2, OccurrencesAre
<1> QED BY <1>22, <1>23

-----------------------------------------------------------------------------

ContextLines == [number : Int, content : Seq(Chars), truncated : BOOLEAN, bytes : Nat,
                 isMatch : BOOLEAN, ended : BOOLEAN]

\* v is the piece of t behind the place a.
PieceAt(v, t, a) == a + Len(v) <= Len(t) /\ \A i \in 1..Len(v) : v[i] = t[a + i]

\* The content of l is a piece of what the bytes are converted to, all of it if l
\* is not called truncated.
ContentOf(l, piece, whole) ==
  /\ ~l.truncated => whole /\ l.content = Convert(piece)
  /\ \E i \in Nat : PieceAt(l.content, Convert(piece), i)

HasFields(l, number, line, isMatch, ended) ==
  /\ l \in ContextLines /\ Len(l.content) <= request.maxLine
  /\ l.number = number /\ l.bytes = Len(line) /\ l.isMatch = isMatch /\ l.ended = ended

\* A keyword in the bytes is in what l shows of them.
KeepsKeyword(l, piece) ==
  \A h \in Nat : h + Len(Keyword) <= Len(piece) /\ KeywordAt(piece, h)
    => Occurrences(l.content, request) # {}

LEMMA ContextLineIs ==
  ASSUME request \in Requests, NEW number \in Int, NEW line \in Seq(Bytes),
         NEW piece \in Seq(Bytes), NEW whole \in BOOLEAN, NEW isMatch \in BOOLEAN,
         NEW ended \in BOOLEAN, NEW l, l = ContextLine(number, line, piece, whole, isMatch, ended)
  PROVE  /\ HasFields(l, number, line, isMatch, ended)
         /\ ContentOf(l, piece, whole)
         /\ isMatch => KeepsKeyword(l, piece)
<1>1. PICK t \in Seq(Chars) : t = Convert(piece) /\ WellFormed(t)
  BY ConvertType, ConvertWellFormed
<1>2. PICK from \in 0..Len(t), end \in 0..Len(t) :
           /\ from <= end /\ end - from <= request.maxLine
           /\ BoundedText(t, isMatch) = SubSeq(t, from + 1, end)
           /\ isMatch /\ Occurrences(t, request) # {} =>
                \E h \in Nat : from <= h /\ h + Len(Keyword) <= end /\ KeywordAt(t, h)
  BY <1>1, BoundedTextIs
<1>3. PICK c : c = SubSeq(t, from + 1, end)
  OBVIOUS
<1>4. c \in Seq(Chars) /\ Len(c) = end - from
      /\ \A i \in 1..(end - from) : c[i] = t[from + i]
  BY <1>2, <1>3
<1>5. PICK cut : cut \in BOOLEAN /\ cut = (~whole \/ c # t)
  OBVIOUS
<1>6. l = [number |-> number, content |-> c, truncated |-> cut,
           bytes |-> Len(line), isMatch |-> isMatch, ended |-> ended]
  BY <1>1, <1>2, <1>3, <1>5 DEF ContextLine
<1>7. /\ l.number = number /\ l.bytes = Len(line) /\ l.isMatch = isMatch /\ l.ended = ended
      /\ l.content = c /\ l.truncated = cut
  BY <1>6
<1>8. l \in ContextLines
  <2>1. Len(line) \in Nat
    OBVIOUS
  <2>2. c \in Seq(Chars) /\ cut \in BOOLEAN
    BY <1>4, <1>5
  <2>3. PICK S : S = Seq(Chars)
    OBVIOUS
  <2>4. PICK b : b \in Nat /\ b = Len(line)
    BY <2>1
  <2>5. l = [number |-> number, content |-> c, truncated |-> cut,
             bytes |-> b, isMatch |-> isMatch, ended |-> ended]
    BY <1>6, <2>4
  <2>6. c \in S
    BY <2>2, <2>3
  <2>7. l \in [number : Int, content : S, truncated : BOOLEAN, bytes : Nat,
               isMatch : BOOLEAN, ended : BOOLEAN]
    BY ONLY number \in Int, isMatch \in BOOLEAN, ended \in BOOLEAN, <2>2, <2>4, <2>5, <2>6
  <2> QED BY <2>3, <2>7 DEF ContextLines
<1>9. Len(l.content) <= request.maxLine
  BY <1>2, <1>4, <1>7
<1>10. ~l.truncated => whole /\ l.content = Convert(piece)
  BY <1>1, <1>5, <1>7
<1>11. ASSUME isMatch, NEW g \in Nat, g + Len(Keyword) <= Len(piece), KeywordAt(piece, g)
       PROVE  Occurrences(l.content, request) # {}
  <2>1. Occurrences(t, request) # {}
    BY <1>1, <1>11, KeywordConverted
  <2>2. PICK h \in Nat : from <= h /\ h + Len(Keyword) <= end /\ KeywordAt(t, h)
    BY <1>2, <1>11, <2>1
  <2>3. PICK n \in Nat : n = Len(Keyword)
    BY RequestIs
  <2>4. h - from \in Nat /\ (h - from) + n <= Len(c)
    BY <1>4, <2>2, <2>3
  <2>5. ASSUME NEW j \in 1..n PROVE c[(h - from) + j] = t[h + j]
    <3>1. (h - from) + j \in 1..(end - from) /\ from + ((h - from) + j) = h + j
      BY <2>2, <2>3
    <3> QED BY <1>4, <3>1
  <2>6. KeywordAt(c, h - from)
    BY <2>2, <2>3, <2>5 DEF KeywordAt
  <2>7. h - from \in Occurrences(c, request)
    BY <1>4, <2>3, <2>4, <2>6, OccurrencesAre
  <2> QED BY <1>7, <2>7
<1>12. HasFields(l, number, line, isMatch, ended)
  BY <1>7, <1>8, <1>9 DEF HasFields
<1>13. ContentOf(l, piece, whole)
  <2>1. PieceAt(c, t, from)
    BY <1>2, <1>4 DEF PieceAt
  <2>2. \E i \in Nat : PieceAt(l.content, Convert(piece), i)
    BY <1>1, <1>7, <2>1
  <2> QED BY <1>10, <2>2 DEF ContentOf
<1>14. isMatch => KeepsKeyword(l, piece)
  BY <1>11 DEF KeepsKeyword
<1> QED BY <1>12, <1>13, <1>14

-----------------------------------------------------------------------------
(***************************************************************************)
(* The lines: context_line_from_bytes and into_context_line.               *)
(***************************************************************************)

LEMMA WithoutReturnIs ==
  ASSUME NEW p \in Seq(Bytes)
  PROVE  \E b \in 0..Len(p) :
           /\ WithoutReturn(p) = SubSeq(p, 1, b)
           /\ b = Len(p) \/ (b = Len(p) - 1 /\ p[Len(p)] = Return)
<1>1. PICK n \in Nat : n = Len(p)
  OBVIOUS
<1>2. CASE p # <<>> /\ Last(p) = Return
  <2>1. n > 0 /\ n - 1 \in 0..n /\ p[n] = Return
    BY <1>1, <1>2 DEF Last
  <2>2. WithoutReturn(p) = SubSeq(p, 1, n - 1)
    BY <1>1, <1>2 DEF WithoutReturn, Front
  <2> QED BY <1>1, <2>1, <2>2
<1>3. CASE ~(p # <<>> /\ Last(p) = Return)
  <2>1. WithoutReturn(p) = p
    BY <1>3 DEF WithoutReturn
  <2>2. p = SubSeq(p, 1, n) /\ n \in 0..n
    BY <1>1
  <2> QED BY <1>1, <2>1, <2>2
<1> QED BY <1>2, <1>3

\* A piece of a text is shown as a piece of what the text is shown as.
LEMMA ConvertPiece ==
  ASSUME NEW p \in Seq(Bytes), NEW q \in Seq(Bytes), NEW a \in Nat, PieceAt(q, p, a)
  PROVE  \E i \in Nat : PieceAt(Convert(q), Convert(p), i)
<1>1. PICK n \in Nat, m \in Nat : n = Len(p) /\ m = Len(q)
  <2>1. Len(p) \in Nat /\ Len(q) \in Nat
    OBVIOUS
  <2> QED BY ONLY <2>1
<1>0. PICK b \in a..n : b = a + m /\ q = SubSeq(p, a + 1, b)
  <2>1. a + m <= n /\ \A i \in 1..m : q[i] = p[a + i]
    BY <1>1 DEF PieceAt
  <2>2. PICK b : b = a + m
    OBVIOUS
  <2>3. b \in a..n /\ b - a = m
    BY <2>1, <2>2
  <2>4. PICK v : v = SubSeq(p, a + 1, b)
    OBVIOUS
  <2>5. v \in Seq(Bytes) /\ Len(v) = m /\ \A i \in 1..m : v[i] = p[a + i]
    BY <1>1, <2>2, <2>3, <2>4
  <2>6. q \in Seq(Bytes) /\ v \in Seq(Bytes) /\ Len(q) = Len(v) /\ \A i \in 1..Len(v) : q[i] = v[i]
    BY <1>1, <2>1, <2>5
  <2>7. q = v
    BY ONLY <2>6, SameSequence
  <2> QED BY <2>2, <2>3, <2>4, <2>7
<1>2. PICK x : x = Convert(SubSeq(p, 1, a))
  OBVIOUS
<1>3. PICK y : y = Convert(q)
  OBVIOUS
<1>4. PICK z : z = Convert(SubSeq(p, b + 1, n))
  OBVIOUS
<1>5. PICK c : c = Convert(SubSeq(p, 1, b))
  OBVIOUS
<1>6. x \in Seq(Chars) /\ y \in Seq(Chars) /\ z \in Seq(Chars)
  <2>1. SubSeq(p, 1, a) \in Seq(Bytes) /\ SubSeq(p, b + 1, n) \in Seq(Bytes)
    BY <1>0, <1>1
  <2> QED BY <1>2, <1>3, <1>4, <2>1, ConvertType
<1>7. c = Joined(x, y)
  <2>1. b \in a..Len(p)
    BY <1>0, <1>1
  <2> QED BY <1>0, <1>2, <1>3, <1>5, <2>1, ConvertJoined
<1>8. Convert(p) = Joined(c, z)
  <2>1. n \in b..Len(p) /\ b \in Nat /\ SubSeq(p, 1, n) = p
    BY <1>0, <1>1
  <2>2. Convert(SubSeq(p, 1, n)) = Joined(Convert(SubSeq(p, 1, b)), Convert(SubSeq(p, b + 1, n)))
    BY <2>1, ConvertJoined
  <2> QED BY <1>4, <1>5, <2>1, <2>2
<1>9. c \in Seq(Chars) /\ Len(c) = Len(x) + Len(y)
      /\ \A i \in 1..(Len(x) + Len(y)) : c[i] = IF i <= Len(x) THEN x[i] ELSE y[i - Len(x)]
  BY ONLY <1>6, <1>7, JoinedIs
<1>10. PICK t : t = Joined(c, z)
  OBVIOUS
<1>11. t \in Seq(Chars) /\ Len(t) = Len(c) + Len(z)
      /\ \A i \in 1..(Len(c) + Len(z)) : t[i] = IF i <= Len(c) THEN c[i] ELSE z[i - Len(c)]
  <2>1. c \in Seq(Chars) /\ z \in Seq(Chars) /\ t = Joined(c, z)
    BY <1>6, <1>9, <1>10
  <2> QED BY ONLY <2>1, JoinedIs
<1>12. PICK lx \in Nat, ly \in Nat, lz \in Nat : lx = Len(x) /\ ly = Len(y) /\ lz = Len(z)
  <2>1. Len(x) \in Nat /\ Len(y) \in Nat /\ Len(z) \in Nat
    BY <1>6
  <2> QED BY ONLY <2>1
<1>13. Len(c) = lx + ly /\ Len(t) = lx + ly + lz
  BY <1>9, <1>11, <1>12
<1>14. ASSUME NEW j \in 1..ly PROVE y[j] = t[lx + j]
  <2>1. lx + j \in 1..(lx + ly + lz) /\ lx + j <= lx + ly /\ lx + j \in 1..(lx + ly)
        /\ ~(lx + j <= lx) /\ (lx + j) - lx = j
    OBVIOUS
  <2>2. t[lx + j] = c[lx + j]
    BY <1>11, <1>12, <1>13, <2>1
  <2>3. c[lx + j] = y[j]
    BY <1>9, <1>12, <2>1
  <2> QED BY <2>2, <2>3
<1>15. PieceAt(y, t, lx)
  <2>1. lx + ly <= lx + ly + lz
    OBVIOUS
  <2>2. Len(y) = ly /\ Len(t) = lx + ly + lz
    BY <1>12, <1>13
  <2> QED BY ONLY <1>14, <2>1, <2>2 DEF PieceAt
<1>16. Convert(p) = t /\ Convert(q) = y
  BY <1>3, <1>8, <1>10
<1> QED BY <1>15, <1>16

LEMMA PieceOfPiece ==
  ASSUME NEW T, NEW u \in Seq(T), NEW v \in Seq(T), NEW w \in Seq(T), NEW a \in Nat, NEW b \in Nat,
         PieceAt(u, v, a), PieceAt(v, w, b)
  PROVE  PieceAt(u, w, b + a)
<1>1. PICK lu \in Nat, lv \in Nat, lw \in Nat : lu = Len(u) /\ lv = Len(v) /\ lw = Len(w)
  <2>1. Len(u) \in Nat /\ Len(v) \in Nat /\ Len(w) \in Nat
    OBVIOUS
  <2> QED BY ONLY <2>1
<1>2. a + lu <= lv /\ b + lv <= lw /\ (\A i \in 1..lu : u[i] = v[a + i])
      /\ \A i \in 1..lv : v[i] = w[b + i]
  BY <1>1 DEF PieceAt
<1>3. ASSUME NEW i \in 1..lu PROVE u[i] = w[(b + a) + i]
  <2>1. a + i \in 1..lv /\ b + (a + i) = (b + a) + i
    BY <1>2
  <2> QED BY <1>2, <2>1
<1>4. (b + a) + lu <= lw
  BY <1>2
<1> QED BY <1>1, <1>3, <1>4 DEF PieceAt

\* l shows the line, or a piece of it if it is called truncated.
Shows(l, line) ==
  /\ \E i \in Nat : PieceAt(l.content, Convert(line), i)
  /\ ~l.truncated => l.content = Convert(WithoutReturn(line))

LEMMA PieceShown ==
  ASSUME NEW line \in Seq(Bytes), NEW piece \in Seq(Bytes),
         NEW a \in Nat, PieceAt(piece, line, a),
         NEW whole \in BOOLEAN, whole => piece = WithoutReturn(line),
         NEW l, l.content \in Seq(Chars), ContentOf(l, piece, whole)
  PROVE  Shows(l, line)
<1>1. PICK i \in Nat : PieceAt(l.content, Convert(piece), i)
  BY DEF ContentOf
<1>2. PICK j \in Nat : PieceAt(Convert(piece), Convert(line), j)
  BY ConvertPiece
<1>3. l.content \in Seq(Chars) /\ Convert(piece) \in Seq(Chars) /\ Convert(line) \in Seq(Chars)
  BY ConvertType
<1>4. PieceAt(l.content, Convert(line), j + i) /\ j + i \in Nat
  BY <1>1, <1>2, <1>3, PieceOfPiece
<1>5. ~l.truncated => l.content = Convert(WithoutReturn(line))
  BY DEF ContentOf
<1> QED BY <1>4, <1>5 DEF Shows

-----------------------------------------------------------------------------

\* What both kinds of lines are.
LineIs(l, number, line, isMatch, ended) ==
  HasFields(l, number, line, isMatch, ended) /\ Shows(l, line)

LEMMA BeginningOf ==
  ASSUME NEW T, NEW p \in Seq(T), NEW b \in 0..Len(p)
  PROVE  /\ SubSeq(p, 1, b) \in Seq(T) /\ Len(SubSeq(p, 1, b)) = b
         /\ PieceAt(SubSeq(p, 1, b), p, 0)
<1>1. PICK v : v = SubSeq(p, 1, b)
  OBVIOUS
<1>2. v \in Seq(T) /\ Len(v) = b /\ (\A i \in 1..b : v[i] = p[0 + i]) /\ 0 + b <= Len(p)
  BY <1>1
<1>3. PieceAt(v, p, 0)
  BY <1>2 DEF PieceAt
<1> QED BY <1>1, <1>2, <1>3

LEMMA BeforeLineIs ==
  ASSUME request \in Requests, NEW number \in Int, NEW line \in Seq(Bytes)
  PROVE  LineIs(BeforeLine(number, line), number, line, FALSE, TRUE)
<1>1. PICK n \in Nat : n = Len(line)
  OBVIOUS
<1>2. PICK d \in 0..n : WithoutReturn(line) = SubSeq(line, 1, d)
  BY <1>1, WithoutReturnIs
<1>3. PICK w \in Nat : w = request.maxLine
  BY RequestIs
<1>4. PICK x \in Seq(Bytes) : x = SubSeq(line, 1, d) /\ Len(x) = d /\ PieceAt(x, line, 0)
  BY <1>1, <1>2, BeginningOf
<1>5. PICK b : b = Min({d, w})
  OBVIOUS
<1>6. b \in 0..d
  <2>1. b = IF d <= w THEN d ELSE w
    BY <1>5, SmallerOf
  <2> QED BY <2>1
<1>7. PICK y \in Seq(Bytes) : y = SubSeq(x, 1, b) /\ Len(y) = b /\ PieceAt(y, x, 0)
  BY <1>4, <1>6, BeginningOf
<1>8. PieceAt(y, line, 0)
  <2>1. PieceAt(y, line, 0 + 0)
    BY <1>4, <1>7, PieceOfPiece
  <2> QED BY <2>1
<1>9. PICK whole \in BOOLEAN : whole = (b = d) /\ (whole => b = d)
  <2>1. CASE b = d
    BY <2>1, Zenon
  <2>2. CASE b # d
    BY <2>2, Zenon
  <2> QED BY <2>1, <2>2
<1>10. PICK l : l = BeforeLine(number, line)
  OBVIOUS
<1>11. l = ContextLine(number, line, y, whole, FALSE, TRUE)
  BY <1>2, <1>3, <1>4, <1>5, <1>7, <1>9, <1>10 DEF BeforeLine
<1>12. HasFields(l, number, line, FALSE, TRUE) /\ ContentOf(l, y, whole)
  BY <1>11, ContextLineIs
<1>13. whole => y = WithoutReturn(line)
  <2>1. SubSeq(x, 1, Len(x)) = x
    OBVIOUS
  <2> QED BY <1>2, <1>4, <1>7, <1>9, <2>1
<1>14. l.content \in Seq(Chars)
  BY <1>12 DEF HasFields, ContextLines
<1>15. Shows(l, line)
  BY <1>8, <1>12, <1>13, <1>14, PieceShown
<1> QED BY <1>10, <1>12, <1>15 DEF LineIs

\* A keyword in a piece of a text that reaches around it.
LEMMA KeywordInPiece ==
  ASSUME request \in Requests, NEW line \in Seq(Bytes), NEW piece \in Seq(Bytes), NEW f \in Nat,
         PieceAt(piece, line, f), NEW r \in Nat, KeywordAt(line, r),
         f <= r, r + Len(Keyword) <= f + Len(piece)
  PROVE  r - f \in Nat /\ (r - f) + Len(Keyword) <= Len(piece) /\ KeywordAt(piece, r - f)
<1>1. PICK n \in Nat, m \in Nat : n = Len(Keyword) /\ m = Len(piece)
  <2>1. Len(Keyword) \in Nat /\ Len(piece) \in Nat
    BY RequestIs
  <2> QED BY ONLY <2>1
<1>2. r - f \in Nat /\ (r - f) + n <= m
  BY <1>1
<1>3. ASSUME NEW j \in 1..n PROVE Same(piece[(r - f) + j], Keyword[j])
  <2>1. (r - f) + j \in 1..m /\ f + ((r - f) + j) = r + j
    BY <1>2
  <2>2. piece[(r - f) + j] = line[r + j]
    BY <1>1, <2>1 DEF PieceAt
  <2> QED BY <1>1, <2>2 DEF KeywordAt
<1> QED BY <1>1, <1>2, <1>3 DEF KeywordAt

LEMMA PieceIs ==
  ASSUME NEW T, NEW p \in Seq(T), NEW a \in Nat, NEW b \in Nat, a <= b, b <= Len(p)
  PROVE  /\ SubSeq(p, a + 1, b) \in Seq(T) /\ Len(SubSeq(p, a + 1, b)) = b - a
         /\ PieceAt(SubSeq(p, a + 1, b), p, a)
<1>1. PICK v : v = SubSeq(p, a + 1, b)
  OBVIOUS
<1>2. v \in Seq(T) /\ Len(v) = b - a /\ (\A i \in 1..(b - a) : v[i] = p[a + i]) /\ a + (b - a) <= Len(p)
  BY <1>1
<1>3. PieceAt(v, p, a)
  BY <1>2 DEF PieceAt
<1> QED BY <1>1, <1>2, <1>3

LEMMA ForwardLineIs ==
  ASSUME request \in Requests, NEW number \in Int, NEW line \in Seq(Bytes),
         NEW isMatch \in BOOLEAN, NEW ended \in BOOLEAN,
         NEW r \in Nat, r = Relative, isMatch => r + Len(Keyword) <= Len(line),
         NEW l, l = ForwardLine(number, line, isMatch, ended)
  PROVE  /\ LineIs(l, number, line, isMatch, ended)
         /\ isMatch /\ KeywordAt(line, r) => Occurrences(l.content, request) # {}
<1>1. PICK m \in Nat, n \in Nat, w \in Nat, d \in Nat :
        m = Len(line) /\ n = Len(Keyword) /\ w = request.maxLine /\ d = Lead /\ d + n <= w
  <2>1. Len(line) \in Nat /\ Len(Keyword) \in Nat /\ request.maxLine \in Nat /\ Lead \in Nat
        /\ Lead + Len(Keyword) <= request.maxLine
    BY RequestIs, LeadIs
  <2> QED BY ONLY <2>1
<1>2. PICK f : f = IF isMatch THEN Max({0, ref.match - ref.start - Lead}) ELSE 0
  OBVIOUS
<1>3. f \in 0..m /\ (isMatch => f <= r /\ r + n <= f + w)
  <2>1. CASE isMatch
    <3>1. f = Max({0, r - d})
      BY <1>1, <1>2, <2>1 DEF Relative
    <3>2. f = IF r - d <= 0 THEN 0 ELSE r - d
      BY <3>1, GreaterOf
    <3>3. r + n <= m
      BY <1>1, <2>1
    <3> QED BY <1>1, <3>2, <3>3
  <2>2. CASE ~isMatch
    BY <1>2, <2>2
  <2> QED BY <2>1, <2>2
<1>4. PICK e : e = Min({f + w, m})
  OBVIOUS
<1>5. e \in f..m /\ (e = f + w \/ e = m)
  <2>1. e = IF f + w <= m THEN f + w ELSE m
    BY <1>3, <1>4, SmallerOf
  <2> QED BY <1>3, <2>1
<1>6. f \in Nat /\ e \in Nat /\ f <= e /\ e <= Len(line)
  BY <1>1, <1>3, <1>5
<1>7. PICK p \in Seq(Bytes) : p = SubSeq(line, f + 1, e) /\ Len(p) = e - f /\ PieceAt(p, line, f)
  <2>1. SubSeq(line, f + 1, e) \in Seq(Bytes) /\ Len(SubSeq(line, f + 1, e)) = e - f
        /\ PieceAt(SubSeq(line, f + 1, e), line, f)
    BY <1>6, PieceIs
  <2> QED BY ONLY <2>1
<1>8. f + Len(p) = e
  BY <1>6, <1>7
<1>9. PICK piece \in Seq(Bytes) :
        /\ piece = IF e = m THEN WithoutReturn(p) ELSE p
        /\ PieceAt(piece, p, 0)
        /\ Len(piece) = e - f \/ (Len(piece) = e - f - 1 /\ p[e - f] = Return /\ e - f > 0)
  <2>1. CASE e = m
    <3>1. PICK b \in 0..Len(p) : /\ WithoutReturn(p) = SubSeq(p, 1, b)
                                 /\ b = Len(p) \/ (b = Len(p) - 1 /\ p[Len(p)] = Return)
      BY WithoutReturnIs
    <3>2. SubSeq(p, 1, b) \in Seq(Bytes) /\ Len(SubSeq(p, 1, b)) = b /\ PieceAt(SubSeq(p, 1, b), p, 0)
      BY BeginningOf
    <3>3. PICK v \in Seq(Bytes) : v = WithoutReturn(p) /\ Len(v) = b /\ PieceAt(v, p, 0)
      BY <3>1, <3>2
    <3>4. b = e - f \/ (b = e - f - 1 /\ p[e - f] = Return /\ e - f > 0)
      <4>1. Len(p) = e - f /\ b \in 0..(e - f)
        BY <1>7, <3>1
      <4> QED BY <1>6, <3>1, <4>1
    <3> QED BY ONLY <2>1, <3>3, <3>4
  <2>2. CASE e # m
    <3>1. PieceAt(p, p, 0)
      BY DEF PieceAt
    <3> QED BY <1>7, <2>2, <3>1
  <2> QED BY <2>1, <2>2
<1>10. PICK whole \in BOOLEAN : whole = (f = 0 /\ e = m) /\ (whole => f = 0 /\ e = m)
  <2>1. CASE f = 0 /\ e = m
    BY <2>1, Zenon
  <2>2. CASE ~(f = 0 /\ e = m)
    BY <2>2, Zenon
  <2> QED BY <2>1, <2>2
<1>11. l = ContextLine(number, line, piece, whole, isMatch, ended)
  BY <1>1, <1>2, <1>4, <1>7, <1>8, <1>9, <1>10 DEF ForwardLine
<1>12. /\ HasFields(l, number, line, isMatch, ended)
       /\ ContentOf(l, piece, whole)
       /\ isMatch => KeepsKeyword(l, piece)
  BY <1>11, ContextLineIs
<1>13. l.content \in Seq(Chars)
  BY <1>12 DEF HasFields, ContextLines
<1>14. PieceAt(piece, line, f)
  <2>1. PieceAt(piece, line, f + 0)
    BY <1>6, <1>7, <1>9, PieceOfPiece
  <2> QED BY <1>6, <2>1
<1>15. whole => piece = WithoutReturn(line)
  <2>1. ASSUME whole PROVE p = line
    <3>1. f = 0 /\ e = m
      BY <1>10, <2>1
    <3>2. SubSeq(line, 1, m) = line
      BY <1>1
    <3> QED BY <1>7, <3>1, <3>2
  <2> QED BY <1>9, <1>10, <2>1
<1>16. Shows(l, line)
  BY <1>6, <1>12, <1>13, <1>14, <1>15, PieceShown
<1>17. ASSUME isMatch, KeywordAt(line, r) PROVE Occurrences(l.content, request) # {}
  <2>1. f <= r /\ r + n <= e
    BY <1>1, <1>3, <1>5, <1>17
  <2>2. r + n <= f + Len(piece)
    <3>1. CASE Len(piece) = e - f
      BY <1>6, <2>1, <3>1
    <3>2. CASE Len(piece) = e - f - 1 /\ p[e - f] = Return /\ e - f > 0
      <4>1. r + n # e
        <5> SUFFICES ASSUME r + n = e PROVE FALSE
          OBVIOUS
        <5>1. n \in 1..n /\ e - f \in 1..Len(p) /\ f + (e - f) = r + n
          BY <1>1, <1>6, <1>7, <3>2, RequestIs
        <5>2. Return = line[r + n]
          BY <1>7, <3>2, <5>1 DEF PieceAt
        <5>3. Same(line[r + n], Keyword[n]) /\ Keyword[n] \notin Special
          BY <1>1, <1>17, <5>1, RequestIs DEF KeywordAt
        <5>4. Return \notin Special
          BY <5>2, <5>3, SameIs
        <5> QED BY <5>4 DEF Special
      <4> QED BY <1>6, <2>1, <3>2, <4>1
    <3> QED BY <1>9, <3>1, <3>2
  <2>3. r - f \in Nat /\ (r - f) + Len(Keyword) <= Len(piece) /\ KeywordAt(piece, r - f)
    <3>1. f \in Nat /\ f <= r /\ r + Len(Keyword) <= f + Len(piece)
      BY <1>1, <1>6, <2>1, <2>2
    <3> QED BY <1>14, <1>17, <3>1, KeywordInPiece
  <2> QED BY <1>12, <1>17, <2>3 DEF KeepsKeyword
<1> QED BY <1>12, <1>16, <1>17 DEF LineIs

-----------------------------------------------------------------------------
(***************************************************************************)
(* Which lines fit: context_lines.                                         *)
(***************************************************************************)

SizeIn(q, i) == Len(q[i].content)

LEMMA SizeOfLine ==
  ASSUME NEW q \in Seq(ContextLines), NEW i \in 1..Len(q)
  PROVE  SizeIn(q, i) \in Nat
<1>1. PICK l \in ContextLines : l = q[i]
  OBVIOUS
<1>2. l.content \in Seq(Chars)
  BY <1>1 DEF ContextLines
<1> QED BY <1>1, <1>2 DEF SizeIn

\* f adds up the content of the first k lines.
Sums(f, k, q) ==
  f[0] = 0 /\ \A i \in 1..k : f[i] = f[i - 1] + SizeIn(q, i) /\ f[i - 1] \in Nat /\ f[i] \in Nat

LEMMA SizesAre ==
  ASSUME NEW q \in Seq(ContextLines)
  PROVE  Sums(SizesOf(q), Len(q), q)
<1>1. PICK l \in Nat : l = Len(q)
  OBVIOUS
<1>0. ASSUME NEW i \in 1..l PROVE SizeIn(q, i) \in Nat
  BY <1>1, SizeOfLine
<1> DEFINE Eq(f) == f = [n \in 0..l |-> IF n = 0 THEN 0 ELSE f[n - 1] + SizeIn(q, n)]
<1>2. SizesOf(q) = CHOOSE f : Eq(f)
  BY <1>1 DEF SizesOf, SizeIn
<1> DEFINE Has(k) == \E g : DOMAIN g = 0..k /\ g = [i \in 0..k |-> g[i]] /\ Sums(g, k, q)
           Lacking == {k \in 0..l : ~Has(k)}
<1>3. ASSUME Lacking # {} PROVE FALSE
  <2>1. PICK k \in Lacking : \A y \in Lacking : k <= y
    <3>1. Lacking \in SUBSET Nat
      OBVIOUS
    <3> HIDE DEF Lacking
    <3> QED BY <1>3, <3>1, LeastNatural
  <2>2. k \in 0..l /\ ~Has(k)
    OBVIOUS
  <2>3. k # 0
    <3>1. Has(0)
      <4>1. PICK g : g = [i \in 0..0 |-> 0]
        OBVIOUS
      <4>2. DOMAIN g = 0..0 /\ g = [i \in 0..0 |-> g[i]] /\ Sums(g, 0, q)
        BY <4>1 DEF Sums
      <4> QED BY <4>2
    <3> QED BY <2>2, <3>1
  <2>4. k - 1 \in 0..l /\ k - 1 < k /\ k \in 1..l
    BY <2>2, <2>3
  <2>5. Has(k - 1)
    <3>1. k - 1 \notin Lacking
      <4> HIDE DEF Lacking
      <4> QED BY <2>1, <2>2, <2>4
    <3> QED BY <2>4, <3>1
  <2>6. PICK g : DOMAIN g = 0..(k - 1) /\ Sums(g, k - 1, q)
    BY <2>5
  <2>7. PICK h : h = [i \in 0..k |-> IF i = k THEN g[k - 1] + SizeIn(q, k) ELSE g[i]]
    OBVIOUS
  <2>8. h[0] = 0 /\ g[k - 1] \in Nat
    <3>1. g[0] = 0 /\ (k - 1 = 0 \/ k - 1 \in 1..(k - 1))
      BY <2>4, <2>6 DEF Sums
    <3>2. g[k - 1] \in Nat
      BY <2>6, <3>1 DEF Sums
    <3> QED BY <2>2, <2>3, <2>7, <3>1, <3>2
  <2>9. ASSUME NEW i \in 1..k
        PROVE  h[i] = h[i - 1] + SizeIn(q, i) /\ h[i - 1] \in Nat /\ h[i] \in Nat
    <3>1. i - 1 \in 0..k /\ i - 1 # k /\ i \in 0..k /\ h[i - 1] = g[i - 1]
      BY <2>2, <2>7
    <3>2. CASE i = k
      BY <1>0, <2>4, <2>7, <2>8, <3>1, <3>2
    <3>3. CASE i # k
      <4>1. i \in 1..(k - 1)
        BY <2>2, <3>3
      <4>2. h[i] = g[i]
        BY <2>7, <3>1, <3>3
      <4> QED BY <2>6, <3>1, <4>1, <4>2 DEF Sums
    <3> QED BY <3>2, <3>3
  <2>10. Has(k)
    <3>1. DOMAIN h = 0..k /\ h = [i \in 0..k |-> h[i]] /\ Sums(h, k, q)
      BY <2>7, <2>8, <2>9 DEF Sums
    <3> QED BY <3>1
  <2> QED BY <2>2, <2>10
<1>4. Has(l)
  BY <1>3
<1>5. \E f : Eq(f)
  <2>1. PICK g : DOMAIN g = 0..l /\ g = [i \in 0..l |-> g[i]] /\ Sums(g, l, q)
    BY <1>4
  <2>2. ASSUME NEW n \in 0..l PROVE g[n] = IF n = 0 THEN 0 ELSE g[n - 1] + SizeIn(q, n)
    <3>1. n = 0 \/ n \in 1..l
      OBVIOUS
    <3> QED BY <2>1, <3>1 DEF Sums
  <2> QED BY <2>1, <2>2
<1>6. PICK f : f = (CHOOSE h : Eq(h)) /\ Eq(f)
  BY <1>5
<1> DEFINE Bad == {n \in 0..l : f[n] \notin Nat}
<1>7. ASSUME Bad # {} PROVE FALSE
  <2>1. PICK k \in Bad : \A y \in Bad : k <= y
    <3>1. Bad \in SUBSET Nat
      OBVIOUS
    <3> HIDE DEF Bad
    <3> QED BY <1>7, <3>1, LeastNatural
  <2>2. k \in 0..l /\ f[k] \notin Nat
    OBVIOUS
  <2>3. f[k] = IF k = 0 THEN 0 ELSE f[k - 1] + SizeIn(q, k)
    BY <1>6, <2>2
  <2>4. k # 0
    BY <2>2, <2>3
  <2>5. k - 1 \in 0..l /\ ~(k <= k - 1) /\ k \in 1..l
    BY <2>2, <2>4
  <2>6. k - 1 \notin Bad
    <3> HIDE DEF Bad
    <3> QED BY <2>1, <2>5
  <2>7. f[k - 1] \in Nat
    BY <2>5, <2>6
  <2> QED BY <1>0, <2>2, <2>3, <2>4, <2>5, <2>7
<1>8. \A n \in 0..l : f[n] \in Nat
  BY <1>7
<1>9. f[0] = 0
  <2>1. 0 \in 0..l
    OBVIOUS
  <2> QED BY <1>6, <2>1
<1>10. ASSUME NEW i \in 1..l
       PROVE  f[i] = f[i - 1] + SizeIn(q, i) /\ f[i - 1] \in Nat /\ f[i] \in Nat
  <2>1. i \in 0..l /\ i - 1 \in 0..l /\ i # 0
    OBVIOUS
  <2> QED BY <1>6, <1>8, <2>1
<1> QED BY <1>1, <1>2, <1>6, <1>9, <1>10 DEF Sums

LEMMA SumsAreNat ==
  ASSUME NEW f, NEW q, NEW k \in Nat, Sums(f, k, q), NEW i \in 0..k
  PROVE  f[i] \in Nat
<1>1. i = 0 \/ i \in 1..k
  OBVIOUS
<1> QED BY <1>1 DEF Sums

\* The first m lines of p are the ones behind the place a in q.
Within(p, m, q, a) == \A j \in 1..m : p[j] = q[a + j] /\ SizeIn(p, j) \in Nat

AddsUp(f, a, g, m) == \A j \in 0..m : f[a + j] = f[a] + g[j]

\* The lines of a piece add up as they do in the whole.
LEMMA SumsOfPiece ==
  ASSUME NEW f, NEW g, NEW q, NEW p, NEW k \in Nat, NEW m \in Nat, NEW a \in Nat,
         Sums(f, k, q), Sums(g, m, p), a + m <= k, Within(p, m, q, a)
  PROVE  AddsUp(f, a, g, m)
<1> DEFINE Bad == {j \in 0..m : f[a + j] # f[a] + g[j]}
<1>1. ASSUME Bad # {} PROVE FALSE
  <2>1. PICK j \in Bad : \A y \in Bad : j <= y
    <3>1. Bad \in SUBSET Nat
      OBVIOUS
    <3> HIDE DEF Bad
    <3> QED BY <1>1, <3>1, LeastNatural
  <2>2. j \in 0..m /\ f[a + j] # f[a] + g[j]
    OBVIOUS
  <2>3. a \in 0..k /\ f[a] \in Nat
    <3>1. a \in 0..k
      OBVIOUS
    <3> QED BY <3>1, SumsAreNat
  <2>4. j # 0
    <3>1. g[0] = 0
      BY DEF Sums
    <3> QED BY <2>2, <2>3, <3>1
  <2>5. j - 1 \in 0..m /\ ~(j <= j - 1) /\ j \in 1..m /\ a + j \in 1..k /\ (a + j) - 1 = a + (j - 1)
    BY <2>2, <2>4
  <2>6. j - 1 \notin Bad
    <3> HIDE DEF Bad
    <3> QED BY <2>1, <2>5
  <2>7. f[a + (j - 1)] = f[a] + g[j - 1]
    BY <2>5, <2>6
  <2>8. f[a + j] = f[(a + j) - 1] + SizeIn(q, a + j) /\ g[j] = g[j - 1] + SizeIn(p, j)
        /\ f[a + j] \in Nat /\ f[(a + j) - 1] \in Nat /\ g[j] \in Nat /\ g[j - 1] \in Nat
    BY <2>5 DEF Sums
  <2>9. SizeIn(p, j) = SizeIn(q, a + j)
    BY <2>5 DEF SizeIn, Within
  <2>10. PICK z \in Nat : z = SizeIn(q, a + j)
    BY <2>5, <2>9 DEF Within
  <2>11. f[a + j] = (f[a] + g[j - 1]) + z /\ g[j] = g[j - 1] + z
    BY <2>5, <2>7, <2>8, <2>9, <2>10
  <2> QED BY <2>2, <2>3, <2>8, <2>11
<1> QED BY <1>1 DEF AddsUp

LEMMA FittingIs ==
  ASSUME request \in Requests, NEW q \in Seq(ContextLines), NEW used \in Nat,
         used <= request.maxContent
  PROVE  /\ Fitting(q, used) \in 0..Len(q)
         /\ used + SizesOf(q)[Fitting(q, used)] <= request.maxContent
<1>1. PICK l \in Nat, c \in Nat : l = Len(q) /\ c = request.maxContent
  <2>1. Len(q) \in Nat /\ request.maxContent \in Nat
    BY RequestIs
  <2> QED BY ONLY <2>1
<1>2. PICK s : s = SizesOf(q)
  OBVIOUS
<1>3. PICK S : S = {k \in 0..l : used + s[k] <= c}
  OBVIOUS
<1>4. 0 \in S
  <2>1. s[0] = 0
    BY <1>2, SizesAre DEF Sums
  <2>2. used + 0 <= c /\ 0 \in 0..l
    BY <1>1
  <2> QED BY <1>3, <2>1, <2>2
<1>5. S \in SUBSET (0..l) /\ S # {}
  BY <1>3, <1>4
<1>6. Max(S) \in S
  BY <1>5, GreatestNatural
<1>7. Fitting(q, used) = Max(S)
  BY <1>1, <1>2, <1>3 DEF Fitting
<1> QED BY <1>1, <1>2, <1>3, <1>6, <1>7

\* The last `kept` lines of b, and `more` lines behind the first one of `all`.
Cut(L, b, all, kept, more) ==
  /\ Len(L) = kept + 1 + more
  /\ \A i \in 1..kept : L[i] = b[(Len(b) - kept) + i]
  /\ \A i \in 1..(more + 1) : L[kept + i] = all[i]

\* Lines put together that way, which is how Finish does it.
LEMMA CutIs ==
  ASSUME NEW b \in Seq(ContextLines), NEW all \in Seq(ContextLines), all # <<>>,
         NEW kept \in 0..Len(b), NEW more \in 0..(Len(all) - 1)
  PROVE  LET head == Joined(SubSeq(b, Len(b) - kept + 1, Len(b)), <<Head(all)>>)
             L == Joined(head, SubSeq(Tail(all), 1, more))
         IN  /\ head \in Seq(ContextLines) /\ Cut(head, b, all, kept, 0)
             /\ L \in Seq(ContextLines) /\ Cut(L, b, all, kept, more)
<1>1. PICK n \in Nat, m \in Nat \ {0} : n = Len(b) /\ m = Len(all)
  <2>1. Len(b) \in Nat /\ Len(all) \in Nat \ {0}
    OBVIOUS
  <2> QED BY ONLY <2>1
<1>2. PICK x : x = SubSeq(b, (n - kept) + 1, n)
  OBVIOUS
<1>3. x \in Seq(ContextLines) /\ Len(x) = kept /\ \A i \in 1..kept : x[i] = b[(n - kept) + i]
  <2>0. kept \in 0..n
    BY <1>1
  <2>1. PICK d \in Nat : d = n - kept
    BY ONLY <2>0, n \in Nat
  <2>2. b \in Seq(ContextLines) /\ d \in Nat /\ n \in Nat /\ d <= n /\ n <= Len(b) /\ n - d = kept
    BY <1>1, <2>1
  <2>3. SubSeq(b, d + 1, n) \in Seq(ContextLines) /\ Len(SubSeq(b, d + 1, n)) = n - d
        /\ \A i \in 1..(n - d) : SubSeq(b, d + 1, n)[i] = b[d + i]
    BY ONLY <2>2, PieceOf
  <2> QED BY <1>2, <2>1, <2>2, <2>3
<1>4. PICK y : y = <<Head(all)>>
  OBVIOUS
<1>5. y \in Seq(ContextLines) /\ Len(y) = 1 /\ y[1] = all[1]
  BY <1>4
<1>6. PICK t : t = Tail(all)
  OBVIOUS
<1>7. t \in Seq(ContextLines) /\ Len(t) = m - 1 /\ \A i \in 1..(m - 1) : t[i] = all[i + 1]
  BY <1>1, <1>6
<1>8. PICK z : z = SubSeq(t, 1, more)
  OBVIOUS
<1>9. z \in Seq(ContextLines) /\ Len(z) = more /\ \A i \in 1..more : z[i] = all[i + 1]
  BY <1>1, <1>7, <1>8
<1>10. PICK h : h = Joined(x, y)
  OBVIOUS
<1>11. h \in Seq(ContextLines) /\ Len(h) = kept + 1
       /\ \A i \in 1..(kept + 1) : h[i] = IF i <= kept THEN x[i] ELSE y[i - kept]
  <2>1. x \in Seq(ContextLines) /\ y \in Seq(ContextLines) /\ h = Joined(x, y)
    BY <1>3, <1>5, <1>10
  <2>2. h \in Seq(ContextLines) /\ Len(h) = Len(x) + Len(y)
        /\ \A i \in 1..(Len(x) + Len(y)) : h[i] = IF i <= Len(x) THEN x[i] ELSE y[i - Len(x)]
    BY ONLY <2>1, JoinedIs
  <2> QED BY <1>3, <1>5, <2>2
<1>12. PICK L : L = Joined(h, z)
  OBVIOUS
<1>13. L \in Seq(ContextLines) /\ Len(L) = (kept + 1) + more
       /\ \A i \in 1..((kept + 1) + more) : L[i] = IF i <= kept + 1 THEN h[i] ELSE z[i - (kept + 1)]
  <2>1. h \in Seq(ContextLines) /\ z \in Seq(ContextLines) /\ L = Joined(h, z)
    BY <1>9, <1>11, <1>12
  <2>2. L \in Seq(ContextLines) /\ Len(L) = Len(h) + Len(z)
        /\ \A i \in 1..(Len(h) + Len(z)) : L[i] = IF i <= Len(h) THEN h[i] ELSE z[i - Len(h)]
    BY ONLY <2>1, JoinedIs
  <2> QED BY <1>9, <1>11, <2>2
<1>14. ASSUME NEW i \in 1..kept PROVE h[i] = b[(n - kept) + i] /\ L[i] = h[i]
  <2>1. i \in 1..(kept + 1) /\ i <= kept /\ i \in 1..((kept + 1) + more) /\ i <= kept + 1
    OBVIOUS
  <2> QED BY <1>3, <1>11, <1>13, <2>1
<1>15. h[kept + 1] = all[1] /\ L[kept + 1] = h[kept + 1]
  <2>1. kept + 1 \in 1..(kept + 1) /\ ~(kept + 1 <= kept) /\ (kept + 1) - kept = 1
        /\ kept + 1 \in 1..((kept + 1) + more) /\ kept + 1 <= kept + 1
    OBVIOUS
  <2> QED BY <1>5, <1>11, <1>13, <2>1
<1>16. ASSUME NEW i \in 1..(more + 1) PROVE L[kept + i] = all[i]
  <2>1. CASE i = 1
    BY <1>15, <2>1
  <2>2. CASE i # 1
    <3>1. i - 1 \in 1..more /\ kept + i \in 1..((kept + 1) + more) /\ ~(kept + i <= kept + 1)
          /\ (kept + i) - (kept + 1) = i - 1 /\ (i - 1) + 1 = i
      BY <2>2
    <3> QED BY <1>9, <1>13, <3>1
  <2> QED BY <2>1, <2>2
<1>17. Cut(h, b, all, kept, 0)
  <2>1. ASSUME NEW i \in 1..(0 + 1) PROVE h[kept + i] = all[i]
    <3>1. i = 1
      OBVIOUS
    <3> QED BY <1>15, <3>1
  <2>2. kept + 1 = kept + 1 + 0
    OBVIOUS
  <2> QED BY <1>1, <1>11, <1>14, <2>1, <2>2 DEF Cut
<1>18. Cut(L, b, all, kept, more)
  <2>1. (kept + 1) + more = kept + 1 + more
    OBVIOUS
  <2> QED BY <1>1, <1>13, <1>14, <1>16, <2>1 DEF Cut
<1>19. /\ h = Joined(SubSeq(b, Len(b) - kept + 1, Len(b)), <<Head(all)>>)
       /\ L = Joined(h, SubSeq(Tail(all), 1, more))
  BY <1>1, <1>2, <1>4, <1>6, <1>8, <1>10, <1>12
<1> QED BY <1>11, <1>13, <1>17, <1>18, <1>19

LEMMA ReversedSums ==
  ASSUME NEW b \in Seq(ContextLines), NEW r, r = Reverse(b), NEW n, n = Len(b), NEW k \in 0..n
  PROVE  /\ r \in Seq(ContextLines) /\ Len(r) = n
         /\ SizesOf(b)[n - k] + SizesOf(r)[k] = SizesOf(b)[n]
<1>1. n \in Nat
  OBVIOUS
<1>2. r \in Seq(ContextLines) /\ Len(r) = n /\ \A i \in 1..n : r[i] = b[(n - i) + 1]
  <2>1. r = [i \in 1..n |-> b[(n - i) + 1]]
    BY DEF Reverse
  <2>2. \A i \in 1..n : (n - i) + 1 \in 1..n
    BY <1>1
  <2>3. \A i \in 1..n : b[(n - i) + 1] \in ContextLines
    BY <2>2
  <2> QED BY <1>1, <2>1, <2>3
<1>3. PICK f, g : f = SizesOf(b) /\ g = SizesOf(r)
  OBVIOUS
<1>4. Sums(f, n, b) /\ Sums(g, n, r)
  BY <1>2, <1>3, SizesAre
<1>5. \A i \in 0..n : f[i] \in Nat /\ g[i] \in Nat
  BY <1>1, <1>4, SumsAreNat
<1> DEFINE Bad == {j \in 0..n : f[n - j] + g[j] # f[n]}
<1>6. ASSUME Bad # {} PROVE FALSE
  <2>1. PICK j \in Bad : \A y \in Bad : j <= y
    <3>1. Bad \in SUBSET Nat
      BY <1>1
    <3> HIDE DEF Bad
    <3> QED BY <1>6, <3>1, LeastNatural
  <2>2. j \in 0..n /\ f[n - j] + g[j] # f[n]
    OBVIOUS
  <2>3. j # 0
    <3>1. g[0] = 0 /\ n - 0 = n /\ f[n] \in Nat
      <4>1. n \in 0..n /\ n - 0 = n
        BY <1>1
      <4> QED BY <1>4, <1>5, <4>1 DEF Sums
    <3> QED BY <2>2, <3>1
  <2>4. j - 1 \in 0..n /\ ~(j <= j - 1) /\ j \in 1..n /\ (n - j) + 1 \in 1..n
        /\ ((n - j) + 1) - 1 = n - j /\ n - (j - 1) = (n - j) + 1 /\ n - j \in 0..n /\ (n - j) + 1 \in 0..n
    BY <1>1, <2>2, <2>3
  <2>5. j - 1 \notin Bad
    <3> HIDE DEF Bad
    <3> QED BY <2>1, <2>4
  <2>6. f[(n - j) + 1] + g[j - 1] = f[n]
    BY <2>4, <2>5
  <2>7. f[(n - j) + 1] = f[n - j] + SizeIn(b, (n - j) + 1) /\ g[j] = g[j - 1] + SizeIn(r, j)
    BY <1>4, <2>4 DEF Sums
  <2>8. SizeIn(r, j) = SizeIn(b, (n - j) + 1)
    BY <1>2, <2>4 DEF SizeIn
  <2>9. PICK z \in Nat : z = SizeIn(r, j)
    BY <1>2, <2>4, SizeOfLine
  <2>10. PICK u \in Nat, v \in Nat : u = f[n - j] /\ v = g[j - 1]
    BY <1>5, <2>4
  <2>11. (u + z) + v = f[n] /\ u + (v + z) # f[n]
    BY <2>2, <2>6, <2>7, <2>8, <2>9, <2>10
  <2> QED BY <2>11
<1>7. f[n - k] + g[k] = f[n]
  BY <1>6
<1> QED BY <1>2, <1>3, <1>7

LEMMA SizeOfHead ==
  ASSUME NEW b \in Seq(ContextLines), NEW all \in Seq(ContextLines), all # <<>>,
         NEW kept \in 0..Len(b), NEW h \in Seq(ContextLines), Cut(h, b, all, kept, 0)
  PROVE  SizeOf(h) = SizesOf(Reverse(b))[kept] + Len(all[1].content)
<1>1. PICK n \in Nat : n = Len(b)
  OBVIOUS
<1>2. kept \in 0..n /\ n - kept \in 0..n /\ (n - kept) + kept = n
  BY <1>1
<1>3. Len(h) = kept + 1 /\ (\A i \in 1..kept : h[i] = b[(n - kept) + i]) /\ h[kept + 1] = all[1]
  <2>1. 1 \in 1..(0 + 1) /\ kept + 1 + 0 = kept + 1
    BY <1>2
  <2> QED BY <1>1, <2>1 DEF Cut
<1>4. PICK r : r = Reverse(b)
  OBVIOUS
<1>5. PICK f, g, s : f = SizesOf(b) /\ g = SizesOf(h) /\ s = SizesOf(r)
  OBVIOUS
<1>6. f[n - kept] + s[kept] = f[n]
  <2>1. b \in Seq(ContextLines) /\ r = Reverse(b) /\ n = Len(b) /\ kept \in 0..n
    BY <1>1, <1>2, <1>4
  <2>2. SizesOf(b)[n - kept] + SizesOf(r)[kept] = SizesOf(b)[n]
    BY ONLY <2>1, ReversedSums
  <2> QED BY <1>5, <2>2
<1>7. Sums(f, n, b) /\ Sums(g, kept + 1, h)
  BY <1>1, <1>3, <1>5, SizesAre
<1>8. Sums(g, kept, h)
  <2>1. \A i \in 1..kept : i \in 1..(kept + 1)
    BY <1>2
  <2> QED BY <1>7, <2>1 DEF Sums
<1>9. Within(h, kept, b, n - kept)
  <2>1. \A i \in 1..kept : i \in 1..(kept + 1)
    BY <1>2
  <2> QED BY <1>3, <2>1, SizeOfLine DEF Within
<1>10. f[(n - kept) + kept] = f[n - kept] + g[kept]
  <2>1. n \in Nat /\ kept \in Nat /\ n - kept \in Nat /\ (n - kept) + kept <= n /\ kept \in 0..kept
    BY <1>2
  <2>2. AddsUp(f, n - kept, g, kept)
    BY ONLY <1>7, <1>8, <1>9, <2>1, SumsOfPiece
  <2> QED BY <2>1, <2>2 DEF AddsUp
<1>11. g[kept + 1] = g[kept] + SizeIn(h, kept + 1)
  <2>1. kept + 1 \in 1..(kept + 1) /\ (kept + 1) - 1 = kept
    BY <1>2
  <2> QED BY <1>7, <2>1 DEF Sums
<1>12. f[n] \in Nat /\ f[n - kept] \in Nat /\ g[kept] \in Nat
  <2>1. n \in 0..n /\ kept \in 0..kept /\ kept \in Nat
    BY <1>2
  <2> QED BY <1>2, <1>7, <1>8, <2>1, SumsAreNat
<1>13. s[kept] \in Nat
  <2>1. r \in Seq(ContextLines) /\ Len(r) = n
    BY <1>1, <1>2, <1>4, ReversedSums
  <2>2. Sums(s, n, r)
    BY <1>5, <2>1, SizesAre
  <2> QED BY <1>2, <2>2, SumsAreNat
<1>14. g[kept] = s[kept]
  BY <1>2, <1>6, <1>10, <1>12, <1>13
<1>15. SizeIn(h, kept + 1) = Len(all[1].content)
  BY <1>3 DEF SizeIn
<1> QED BY <1>3, <1>4, <1>5, <1>11, <1>14, <1>15 DEF SizeOf

LEMMA SizeOfCut ==
  ASSUME NEW b \in Seq(ContextLines), NEW all \in Seq(ContextLines), all # <<>>,
         NEW kept \in 0..Len(b), NEW more \in 0..(Len(all) - 1),
         NEW h \in Seq(ContextLines), Cut(h, b, all, kept, 0),
         NEW L \in Seq(ContextLines), Cut(L, b, all, kept, more)
  PROVE  SizeOf(L) = SizeOf(h) + SizesOf(Tail(all))[more]
<1>1. PICK n \in Nat, m \in Nat \ {0} : n = Len(b) /\ m = Len(all)
  <2>1. Len(b) \in Nat /\ Len(all) \in Nat \ {0}
    OBVIOUS
  <2> QED BY ONLY <2>1
<1>2. PICK k \in Nat : k = kept + 1
  BY <1>1
<1>3. Len(h) = k /\ Len(L) = k + more /\ kept \in 0..n /\ more \in 0..(m - 1)
  <2>1. kept + 1 + 0 = kept + 1
    BY <1>1
  <2> QED BY <1>1, <1>2, <2>1 DEF Cut
<1>4. \A i \in 1..k : h[i] = L[0 + i]
  <2>1. ASSUME NEW i \in 1..k PROVE h[i] = L[i]
    <3>1. CASE i \in 1..kept
      BY <3>1 DEF Cut
    <3>2. CASE i = kept + 1
      <4>1. 1 \in 1..(0 + 1) /\ 1 \in 1..(more + 1)
        BY <1>3
      <4> QED BY <3>2, <4>1 DEF Cut
    <3>3. i \in 1..kept \/ i = kept + 1
      BY <1>2, <1>3
    <3> QED BY <3>1, <3>2, <3>3
  <2> QED BY <2>1
<1>5. PICK t \in Seq(ContextLines) : t = Tail(all) /\ Len(t) = m - 1 /\ \A i \in 1..(m - 1) : t[i] = all[i + 1]
  <2>1. Tail(all) \in Seq(ContextLines) /\ Len(Tail(all)) = m - 1
        /\ \A i \in 1..(m - 1) : Tail(all)[i] = all[i + 1]
    BY <1>1
  <2> QED BY ONLY <2>1
<1>6. \A i \in 1..more : t[i] = L[k + i]
  <2>1. ASSUME NEW i \in 1..more PROVE t[i] = L[k + i]
    <3>1. i + 1 \in 1..(more + 1) /\ kept + (i + 1) = k + i /\ i \in 1..(m - 1)
      BY <1>2, <1>3
    <3>2. L[kept + (i + 1)] = all[i + 1]
      BY <3>1 DEF Cut
    <3> QED BY <1>5, <3>1, <3>2
  <2> QED BY <2>1
<1>7. PICK f, g, s : f = SizesOf(L) /\ g = SizesOf(h) /\ s = SizesOf(t)
  OBVIOUS
<1>8. Sums(f, k + more, L) /\ Sums(g, k, h) /\ Sums(s, m - 1, t)
  BY <1>3, <1>5, <1>7, SizesAre
<1>9. Sums(s, more, t)
  <2>1. \A i \in 1..more : i \in 1..(m - 1)
    BY <1>3
  <2> QED BY <1>8, <2>1 DEF Sums
<1>10. f[0 + k] = f[0] + g[k]
  <2>1. k + more \in Nat /\ k \in Nat /\ 0 \in Nat /\ 0 + k <= k + more /\ k \in 0..k
    BY <1>3
  <2>2. Within(h, k, L, 0)
    BY <1>3, <1>4, SizeOfLine DEF Within
  <2>3. AddsUp(f, 0, g, k)
    BY ONLY <1>8, <2>1, <2>2, SumsOfPiece
  <2> QED BY <2>1, <2>3 DEF AddsUp
<1>11. f[k + more] = f[k] + s[more]
  <2>1. k + more \in Nat /\ more \in Nat /\ k \in Nat /\ k + more <= k + more /\ more \in 0..more
    BY <1>3
  <2>2. Within(t, more, L, k)
    <3>1. \A i \in 1..more : i \in 1..Len(t)
      BY <1>3, <1>5
    <3> QED BY <1>6, <3>1, SizeOfLine DEF Within
  <2>3. AddsUp(f, k, s, more)
    BY ONLY <1>8, <1>9, <2>1, <2>2, SumsOfPiece
  <2> QED BY <2>1, <2>3 DEF AddsUp
<1>12. f[k] = g[k]
  <2>1. f[0] = 0 /\ 0 + k = k
    BY <1>8 DEF Sums
  <2>2. g[k] \in Nat
    <3>1. k \in 0..k
      OBVIOUS
    <3> QED BY <1>8, <3>1, SumsAreNat
  <2> QED BY <1>10, <2>1, <2>2
<1> QED BY <1>3, <1>5, <1>7, <1>11, <1>12 DEF SizeOf

LEMMA ResultFields ==
  ASSUME NEW x, NEW a, NEW b, NEW c, NEW r,
         r = [lines |-> x, beforeTruncated |-> a, afterTruncated |-> b, truncated |-> c]
  PROVE  r.lines = x /\ r.beforeTruncated = a /\ r.afterTruncated = b
OBVIOUS

\* What an answer holds of the lines before the match and of the others.
Delivered(r, b, all, kept, more) ==
  /\ r.lines \in Seq(ContextLines) /\ Cut(r.lines, b, all, kept, more)
  /\ SizeOf(r.lines) <= request.maxContent

NotAllBefore(cut, b, kept) == cut \/ kept < Len(b)
NotAllAfter(spent, all, more) == spent \/ more < Len(all) - 1

LEMMA FinishIs ==
  ASSUME request \in Requests, NEW b \in Seq(ContextLines), b = before.lines,
         NEW all \in Seq(ContextLines), all # <<>>,
         Len(all[1].content) <= request.maxLine, NEW spent, Finish(all, spent)
  PROVE  \E kept \in 0..Len(b), more \in 0..(Len(all) - 1) :
           /\ Delivered(result', b, all, kept, more)
           /\ result'.beforeTruncated = NotAllBefore(before.truncated, b, kept)
           /\ result'.afterTruncated = NotAllAfter(spent, all, more)
<1>1. PICK n \in Nat, m \in Nat \ {0}, c \in Nat : n = Len(b) /\ m = Len(all) /\ c = request.maxContent
  <2>1. Len(b) \in Nat /\ Len(all) \in Nat \ {0} /\ request.maxContent \in Nat
    BY RequestIs
  <2> QED BY ONLY <2>1
<1>2. PICK r : r = Reverse(b)
  OBVIOUS
<1>3. r \in Seq(ContextLines) /\ Len(r) = n
  <2>1. b \in Seq(ContextLines) /\ n = Len(b) /\ 0 \in 0..n
    BY <1>1
  <2> QED BY ONLY <2>1, <1>2, ReversedSums
<1>4. PICK y : y = <<Head(all)>>
  OBVIOUS
<1>5. y \in Seq(ContextLines) /\ Len(y) = 1 /\ y[1] = all[1]
  BY <1>4
<1>6. PICK t : t = Tail(all)
  OBVIOUS
<1>7. t \in Seq(ContextLines) /\ Len(t) = m - 1
  BY <1>1, <1>6
<1>8. PICK used : used = SizeOf(y)
  OBVIOUS
<1>9. used = Len(all[1].content) /\ used \in Nat /\ used <= c
  <2>1. Sums(SizesOf(y), 1, y)
    BY <1>5, SizesAre
  <2>2. SizesOf(y)[1] = SizesOf(y)[0] + SizeIn(y, 1) /\ SizesOf(y)[0] = 0
    <3>1. 1 \in 1..1 /\ 1 - 1 = 0
      OBVIOUS
    <3> QED BY <2>1, <3>1 DEF Sums
  <2>3. SizeIn(y, 1) \in Nat
    <3>1. 1 \in 1..Len(y)
      BY <1>5
    <3> QED BY <1>5, <3>1, SizeOfLine
  <2>4. used = SizeIn(y, 1)
    BY <1>5, <1>8, <2>2, <2>3 DEF SizeOf
  <2>5. SizeIn(y, 1) = Len(all[1].content)
    BY <1>5 DEF SizeIn
  <2>6. request.maxLine \in Nat /\ request.maxLine <= c
    BY <1>1, RequestIs
  <2> QED BY <2>3, <2>4, <2>5, <2>6
<1>10. PICK kept : kept = Fitting(r, used)
  OBVIOUS
<1>11. kept \in 0..n /\ used + SizesOf(r)[kept] <= c
  BY <1>1, <1>3, <1>9, <1>10, FittingIs
<1>12. PICK head : head = Joined(SubSeq(b, n - kept + 1, n), y)
  OBVIOUS
<1>13. head \in Seq(ContextLines) /\ Cut(head, b, all, kept, 0)
  <2>1. b \in Seq(ContextLines) /\ all \in Seq(ContextLines) /\ all # <<>> /\ kept \in 0..Len(b)
        /\ 0 \in 0..(Len(all) - 1)
    BY <1>1, <1>11
  <2>2. LET h == Joined(SubSeq(b, Len(b) - kept + 1, Len(b)), <<Head(all)>>)
        IN  h \in Seq(ContextLines) /\ Cut(h, b, all, kept, 0)
    BY ONLY <2>1, CutIs
  <2> QED BY <1>1, <1>4, <1>12, <2>2
<1>14. SizeOf(head) = SizesOf(r)[kept] + used
  <2>1. kept \in 0..Len(b)
    BY <1>1, <1>11
  <2> QED BY <1>2, <1>9, <1>13, <2>1, SizeOfHead
<1>15. SizeOf(head) \in Nat /\ SizeOf(head) <= c
  <2>1. Sums(SizesOf(r), n, r)
    BY <1>3, SizesAre
  <2>2. SizesOf(r)[kept] \in Nat
    BY <1>11, <2>1, SumsAreNat
  <2> QED BY <1>1, <1>9, <1>11, <1>14, <2>2
<1>16. PICK more : more = Fitting(t, SizeOf(head))
  OBVIOUS
<1>17. more \in 0..(m - 1) /\ SizeOf(head) + SizesOf(t)[more] <= c
  BY <1>1, <1>7, <1>15, <1>16, FittingIs
<1>18. PICK L : L = Joined(head, SubSeq(t, 1, more))
  OBVIOUS
<1>19. L \in Seq(ContextLines) /\ Cut(L, b, all, kept, more)
  <2>1. b \in Seq(ContextLines) /\ all \in Seq(ContextLines) /\ all # <<>> /\ kept \in 0..Len(b)
        /\ more \in 0..(Len(all) - 1)
    BY <1>1, <1>11, <1>17
  <2>2. LET h == Joined(SubSeq(b, Len(b) - kept + 1, Len(b)), <<Head(all)>>)
            l == Joined(h, SubSeq(Tail(all), 1, more))
        IN  l \in Seq(ContextLines) /\ Cut(l, b, all, kept, more)
    BY ONLY <2>1, CutIs
  <2> QED BY <1>1, <1>4, <1>6, <1>12, <1>18, <2>2
<1>20. SizeOf(L) <= c
  <2>1. b \in Seq(ContextLines) /\ all \in Seq(ContextLines) /\ all # <<>> /\ kept \in 0..Len(b)
        /\ more \in 0..(Len(all) - 1)
    BY <1>1, <1>11, <1>17
  <2>2. SizeOf(L) = SizeOf(head) + SizesOf(Tail(all))[more]
    BY ONLY <2>1, <1>13, <1>19, SizeOfCut
  <2> QED BY <1>6, <1>17, <2>2
<1>21. PICK any : result' = [lines |-> L,
                   beforeTruncated |-> NotAllBefore(before.truncated, b, kept),
                   afterTruncated |-> NotAllAfter(spent, all, more),
                   truncated |-> any]
  BY <1>1, <1>2, <1>4, <1>6, <1>8, <1>10, <1>12, <1>16, <1>18, Zenon
     DEF Finish, Joined, NotAllBefore, NotAllAfter
<1>22. /\ result'.lines = L
       /\ result'.beforeTruncated = NotAllBefore(before.truncated, b, kept)
       /\ result'.afterTruncated = NotAllAfter(spent, all, more)
  BY ONLY <1>21, ResultFields, Zenon
<1>23. Delivered(result', b, all, kept, more)
  BY <1>1, <1>19, <1>20, <1>22 DEF Delivered
<1> QED BY <1>1, <1>11, <1>17, <1>22, <1>23, Zenon

-----------------------------------------------------------------------------
(***************************************************************************)
(* Which lines a window holds: read_before_lines.                          *)
(***************************************************************************)

\* A few of the greatest elements of a set are no more than that.
LEMMA GreatestFew ==
  ASSUME NEW S \in SUBSET Nat, IsFiniteSet(S), NEW n \in Nat, NEW K,
         K = {i \in S : Cardinality({j \in S : j >= i}) <= n}
  PROVE  K \subseteq S /\ IsFiniteSet(K) /\ Cardinality(K) \in Nat /\ Cardinality(K) <= n
<1>1. K \subseteq S
  OBVIOUS
<1>2. IsFiniteSet(K) /\ Cardinality(K) \in Nat
  BY <1>1, FS_Subset, FS_CardinalityType
<1>3. CASE K = {}
  <2>1. Cardinality(K) = 0
    BY <1>3, FS_EmptySet
  <2> QED BY <1>1, <1>2, <2>1
<1>4. CASE K # {}
  <2>1. PICK m \in K : \A y \in K : m <= y
    <3>1. K \in SUBSET Nat
      BY <1>1
    <3> QED BY <1>4, <3>1, LeastNatural
  <2>2. PICK U : U = {j \in S : j >= m}
    OBVIOUS
  <2>3. m \in S /\ Cardinality(U) <= n
    BY <2>1, <2>2
  <2>4. K \subseteq U
    <3>1. ASSUME NEW y \in K PROVE y \in S /\ y >= m
      <4>1. m \in Nat /\ y \in Nat /\ m <= y
        BY <1>1, <2>1
      <4> QED BY <1>1, <4>1
    <3> QED BY <2>2, <3>1
  <2>5. IsFiniteSet(U)
    <3>1. U \subseteq S
      BY <2>2
    <3> QED BY <3>1, FS_Subset
  <2>6. Cardinality(K) <= Cardinality(U) /\ Cardinality(U) \in Nat
    BY <2>4, <2>5, FS_Subset, FS_CardinalityType
  <2> QED BY <1>1, <1>2, <2>3, <2>6
<1> QED BY <1>3, <1>4

CountTo(S, e) == Cardinality({j \in S : j <= e})

\* Every number up to that of its elements counts those up to one of them.
LEMMA EveryCount ==
  ASSUME NEW S \in SUBSET Nat, IsFiniteSet(S), NEW k \in 1..Cardinality(S)
  PROVE  \E e \in S : CountTo(S, e) = k
<1>0. PICK c \in Nat : c = Cardinality(S)
  BY FS_CardinalityType
<1> DEFINE T == 1..c
           f == [e \in S |-> CountTo(S, e)]
<1>1. ASSUME NEW e \in S
      PROVE  /\ {j \in S : j <= e} \subseteq S /\ IsFiniteSet({j \in S : j <= e})
             /\ CountTo(S, e) \in T
  <2>1. PICK U : U = {j \in S : j <= e}
    OBVIOUS
  <2>2. U \subseteq S /\ e \in U
    BY <2>1
  <2>3. IsFiniteSet(U) /\ Cardinality(U) <= c /\ Cardinality(U) \in Nat
    BY <1>0, <2>2, FS_Subset, FS_CardinalityType
  <2>4. Cardinality(U) # 0
    BY <2>2, <2>3, FS_EmptySet
  <2> QED BY <2>1, <2>2, <2>3, <2>4 DEF CountTo
<1>2. ASSUME NEW d \in S, NEW e \in S, d < e PROVE CountTo(S, d) # CountTo(S, e)
  <2>1. PICK D : D = {j \in S : j <= d}
    OBVIOUS
  <2>2. PICK E : E = {j \in S : j <= e}
    OBVIOUS
  <2>3. IsFiniteSet(E)
    BY <1>1, <2>2
  <2>4. D \in SUBSET E
    <3>1. ASSUME NEW j \in S, j <= d PROVE j <= e
      <4>1. j \in Nat /\ d \in Nat /\ e \in Nat
        OBVIOUS
      <4> QED BY <1>2, <3>1, <4>1
    <3> QED BY <2>1, <2>2, <3>1
  <2>5. e \in E /\ e \notin D
    <3>1. d \in Nat /\ e \in Nat
      OBVIOUS
    <3> QED BY <1>2, <2>1, <2>2, <3>1
  <2>6. D # E
    BY <2>5
  <2> QED BY <2>1, <2>2, <2>3, <2>4, <2>6, FS_Subset DEF CountTo
<1>3. \A d, e \in S : CountTo(S, d) = CountTo(S, e) => d = e
  <2>1. \A d, e \in S : d = e \/ d < e \/ e < d
    OBVIOUS
  <2> QED BY <1>2, <2>1
<1>4. IsFiniteSet(T) /\ Cardinality(T) = c
  BY FS_Interval
<1>5. k \in T
  BY <1>0
<1>6. f \in Injection(S, T)
  <2> HIDE DEF T
  <2> QED BY <1>1, <1>3 DEF Injection, IsInjective
<1>7. f \in Surjection(S, T)
  <2> HIDE DEF f, T
  <2> QED BY <1>0, <1>4, <1>6, FS_Injection
<1> HIDE DEF T
<1> QED BY <1>5, <1>7 DEF Surjection

-----------------------------------------------------------------------------

RefTypes ==
  /\ ref.start \in Nat /\ ref.match \in Nat /\ ref.size \in Nat /\ ref.number \in Nat \ {0}
  /\ ref.start <= ref.match /\ ref.match + Len(Keyword) <= ref.size

LEMMA WindowStartIs ==
  ASSUME request \in Requests, RefTypes
  PROVE  /\ WindowStart \in 0..ref.start /\ ref.start - WindowStart <= request.maxBefore
         /\ ref.start > 0 => WindowStart < ref.start
         /\ ReadFrom \in 0..WindowStart
         /\ ReadFrom = IF WindowStart = 0 THEN 0 ELSE WindowStart - 1
<1>1. PICK s \in Nat, m \in Nat \ {0} : s = ref.start /\ m = request.maxBefore
  <2>1. ref.start \in Nat /\ request.maxBefore \in Nat \ {0}
    BY RequestIs DEF RefTypes
  <2> QED BY ONLY <2>1
<1>2. Min({s, m}) = IF s <= m THEN s ELSE m
  BY SmallerOf
<1>3. WindowStart = s - IF s <= m THEN s ELSE m
  BY <1>1, <1>2 DEF WindowStart
<1>4. PICK v \in 0..s : v = WindowStart /\ s - v <= m /\ (s > 0 => v < s)
  BY <1>3
<1>5. Max({0, v - 1}) = IF v - 1 <= 0 THEN 0 ELSE v - 1
  BY GreaterOf
<1>6. ReadFrom = IF v = 0 THEN 0 ELSE v - 1
  BY <1>4, <1>5 DEF ReadFrom
<1> QED BY <1>1, <1>4, <1>6

\* All bytes of the window.
Whole(w) == w \in Seq(Bytes) /\ Len(w) = ref.start - ReadFrom /\ ref.start > 0

LEMMA BlockIs ==
  ASSUME request \in Requests, RefTypes, NEW w, Whole(w)
  PROVE  /\ Block(w) \in Seq(Bytes) /\ Len(Block(w)) = ref.start - WindowStart
         /\ Len(Block(w)) > 0
         /\ \A i \in 1..Len(Block(w)) : Block(w)[i] = w[(WindowStart - ReadFrom) + i]
<1>1. PICK s \in Nat \ {0} : s = ref.start
  BY DEF RefTypes, Whole
<1>2. PICK v \in 0..(s - 1) : v = WindowStart
  BY <1>1, WindowStartIs
<1>3. ReadFrom = IF v = 0 THEN 0 ELSE v - 1
  BY <1>2, WindowStartIs
<1>4. PICK b : b = Block(w)
  OBVIOUS
<1>5. CASE v = 0
  <2>1. b = w /\ Len(w) = s - 0
    BY <1>1, <1>2, <1>3, <1>4, <1>5 DEF Block, Whole
  <2>2. w \in Seq(Bytes)
    BY DEF Whole
  <2>3. (v - 0) = 0 /\ \A i \in 1..s : (v - 0) + i = i
    BY <1>5
  <2> QED BY <1>1, <1>2, <1>3, <1>4, <1>5, <2>1, <2>2, <2>3
<1>6. CASE v # 0
  <2>1. b = Tail(w) /\ Len(w) = s - (v - 1) /\ w \in Seq(Bytes)
    BY <1>1, <1>2, <1>3, <1>4, <1>6 DEF Block, Whole
  <2>2. PICK l \in Nat : l = s - (v - 1) /\ l > 1
    BY <1>2, <1>6
  <2>3. b \in Seq(Bytes) /\ Len(b) = l - 1 /\ \A i \in 1..(l - 1) : b[i] = w[i + 1]
    BY <2>1, <2>2
  <2>4. l - 1 = s - v /\ v - (v - 1) = 1 /\ s - v > 0 /\ \A i \in 1..(s - v) : 1 + i = i + 1
    BY <1>2, <2>2
  <2> QED BY <1>1, <1>2, <1>3, <1>4, <1>6, <2>3, <2>4
<1> QED BY <1>5, <1>6

LEMMA EndsAre ==
  ASSUME request \in Requests, RefTypes, NEW w, Whole(w), NEW l \in Nat, l = Len(Block(w))
  PROVE  /\ Ends(w) \in SUBSET (1..l) /\ Kept(w) \subseteq Ends(w)
         /\ IsFiniteSet(Ends(w)) /\ IsFiniteSet(Kept(w)) /\ Cardinality(Kept(w)) \in Nat
         /\ Cardinality(Kept(w)) <= request.before
         /\ Ends(w) # {} => FirstFull(w) \in 0..l
         /\ \A i \in Ends(w) : FirstFull(w) < i /\ Block(w)[i] = Newline
<1>1. Block(w) \in Seq(Bytes) /\ DOMAIN Block(w) = 1..l
  BY BlockIs
<1>2. PICK N : N = Newlines(Block(w)) /\ N = {i \in 1..l : Block(w)[i] = Newline}
  BY <1>1 DEF Newlines
<1>3. PICK E : E = Ends(w) /\ E = {i \in N : i > FirstFull(w)}
  BY <1>2 DEF Ends
<1>4. E \subseteq 1..l /\ IsFiniteSet(E)
  <2>1. IsFiniteSet(1..l)
    BY FS_Interval
  <2> QED BY <1>2, <1>3, <2>1, FS_Subset
<1>5. PICK K : K = Kept(w) /\ K = {i \in E : Cardinality({j \in E : j >= i}) <= request.before}
  BY <1>3 DEF Kept
<1>6. K \subseteq E /\ IsFiniteSet(K) /\ Cardinality(K) \in Nat /\ Cardinality(K) <= request.before
  <2>1. E \in SUBSET Nat /\ request.before \in Nat
    BY <1>4, RequestIs
  <2>2. PICK n \in Nat : n = request.before
    BY <2>1
  <2>3. K = {i \in E : Cardinality({j \in E : j >= i}) <= n}
    BY <1>5, <2>2
  <2>4. K \subseteq E /\ IsFiniteSet(K) /\ Cardinality(K) \in Nat /\ Cardinality(K) <= n
    BY ONLY <1>4, <2>1, <2>2, <2>3, GreatestFew
  <2> QED BY <2>2, <2>4
<1>7. E # {} => FirstFull(w) \in 0..l
  <2> SUFFICES ASSUME E # {} PROVE FirstFull(w) \in 0..l
    OBVIOUS
  <2>1. CASE Aligned(w)
    <3>1. FirstFull(w) = 0
      BY <2>1 DEF FirstFull
    <3> QED BY <3>1
  <2>2. CASE ~Aligned(w)
    <3>1. FirstFull(w) = Min(N)
      BY <1>2, <2>2 DEF FirstFull
    <3>2. N \in SUBSET Nat /\ N # {}
      BY <1>2, <1>3
    <3>3. Min(N) \in N
      BY <3>2, LeastNatural
    <3>4. Min(N) \in 1..l
      BY <1>2, <3>3
    <3> QED BY <3>1, <3>4
  <2> QED BY <2>1, <2>2
<1>8. \A i \in E : FirstFull(w) < i /\ Block(w)[i] = Newline
  <2> SUFFICES ASSUME NEW i \in E PROVE FirstFull(w) < i /\ Block(w)[i] = Newline
    OBVIOUS
  <2>1. FirstFull(w) \in 0..l
    BY <1>7
  <2>2. i > FirstFull(w) /\ i \in 1..l
    BY <1>3, <1>4
  <2>3. Block(w)[i] = Newline
    BY <1>2, <1>3
  <2> QED BY <2>1, <2>2, <2>3
<1> QED BY <1>3, <1>4, <1>5, <1>6, <1>7, <1>8

\* e ends the line that starts behind p, and is the k-th end that is kept.
LineAt(w, k, p, e) ==
  /\ e \in Kept(w) /\ CountTo(Kept(w), e) = k
  /\ p \in 0..(e - 1) /\ (p = FirstFull(w) \/ p \in Ends(w))
  /\ \A j \in Ends(w) : j < e => j <= p
  /\ KeptLine(w, k) = SubSeq(Block(w), p + 1, e - 1)

LEMMA KeptLineIs ==
  ASSUME request \in Requests, RefTypes, NEW w, Whole(w), NEW k \in 1..Cardinality(Kept(w))
  PROVE  /\ KeptLine(w, k) \in Seq(Bytes)
         /\ \E p, e : LineAt(w, k, p, e)
<1>1. PICK l \in Nat : l = Len(Block(w))
  <2>1. Len(Block(w)) \in Nat
    BY BlockIs
  <2> QED BY ONLY <2>1
<1>2. PICK E \in SUBSET (1..l) : E = Ends(w)
  BY <1>1, EndsAre
<1>3. PICK K : K = Kept(w) /\ K \subseteq E /\ IsFiniteSet(K)
  BY <1>1, <1>2, EndsAre
<1>4. \E e \in K : CountTo(K, e) = k
  <2>1. K \in SUBSET Nat
    BY <1>2, <1>3
  <2> QED BY <1>3, <2>1, EveryCount
<1>5. PICK e : e = CHOOSE x \in K : Cardinality({j \in K : j <= x}) = k
  OBVIOUS
<1>6. e \in K /\ CountTo(K, e) = k
  <2>1. \E x \in K : Cardinality({j \in K : j <= x}) = k
    BY <1>4 DEF CountTo
  <2>2. e \in K /\ Cardinality({j \in K : j <= e}) = k
    BY <1>5, <2>1
  <2> QED BY <2>2 DEF CountTo
<1>7. PICK z : z = FirstFull(w)
  OBVIOUS
<1>8. z \in 0..l /\ \A i \in E : z < i
  BY <1>1, <1>2, <1>3, <1>6, <1>7, EndsAre
<1>9. PICK S : S = {z} \cup {j \in E : j < e}
  OBVIOUS
<1>10. e \in 1..l /\ z < e
  BY <1>3, <1>6, <1>8
<1>11. S \in SUBSET (0..l) /\ S # {} /\ \A i \in S : i < e
  <2>1. \A i \in S : i = z \/ (i \in 1..l /\ i < e)
    BY <1>2, <1>9
  <2>2. \A i \in S : i \in 0..l /\ i < e
    BY <1>8, <1>10, <2>1
  <2> QED BY <1>9, <2>2
<1>12. PICK p : p = Max(S)
  OBVIOUS
<1>13. p \in S /\ \A y \in S : y <= p
  BY <1>11, <1>12, GreatestNatural
<1>14. p \in 0..(e - 1) /\ p < e
  BY <1>10, <1>11, <1>13
<1>15. KeptLine(w, k) = SubSeq(Block(w), p + 1, e - 1)
  BY <1>2, <1>3, <1>5, <1>7, <1>9, <1>12 DEF KeptLine
<1>16. (p = z \/ p \in E) /\ \A j \in E : j < e => j <= p
  BY <1>9, <1>13
<1>17. LineAt(w, k, p, e)
  BY <1>2, <1>3, <1>6, <1>7, <1>14, <1>15, <1>16 DEF LineAt
<1>18. KeptLine(w, k) \in Seq(Bytes)
  <2>1. p \in Nat /\ e - 1 \in Nat /\ p <= e - 1 /\ e - 1 <= Len(Block(w)) /\ Block(w) \in Seq(Bytes)
    BY <1>1, <1>10, <1>14, BlockIs
  <2> QED BY <1>15, <2>1, PieceOf
<1> QED BY <1>17, <1>18

\* What a lines-before record holds after the window w has been cut.
BeforeOf(b, w) ==
  LET actual == Cardinality(Kept(w)) IN
    /\ b.lines \in Seq(ContextLines) /\ Len(b.lines) = actual
    /\ b.truncated = BeforeTruncated(actual)
    /\ \A k \in 1..actual :
         LineIs(b.lines[k], ref.number - actual + k - 1, KeptLine(w, k), FALSE, TRUE)

LEMMA BeforeFields ==
  ASSUME NEW x, NEW t, NEW b, b = [lines |-> x, truncated |-> t]
  PROVE  b.lines = x /\ b.truncated = t
OBVIOUS

LEMMA CutWindowIs ==
  ASSUME request \in Requests, RefTypes, NEW w, Whole(w), CutWindow(w)
  PROVE  \/ /\ Last(Block(w)) # Newline \/ ref.number < Cardinality(Kept(w))
            /\ error' = "FileChanged" /\ phase' = "Done"
            /\ UNCHANGED <<before, pos, raw, taken, result>>
         \/ /\ Last(Block(w)) = Newline /\ Cardinality(Kept(w)) <= ref.number
            /\ BeforeOf(before', w) /\ phase' = "Forward"
            /\ UNCHANGED <<pos, raw, taken, error, result>>
<1>1. PICK n \in Nat : n = ref.number
  BY DEF RefTypes
<1>2. PICK c \in Nat : c = Cardinality(Kept(w))
  <2>1. Len(Block(w)) \in Nat
    BY BlockIs
  <2>2. Cardinality(Kept(w)) \in Nat
    BY <2>1, EndsAre
  <2> QED BY ONLY <2>2
<1>3. CASE Last(Block(w)) # Newline \/ n < c
  BY <1>1, <1>2, <1>3 DEF CutWindow, Refuse
<1>4. CASE ~(Last(Block(w)) # Newline \/ n < c)
  <2>1. PICK x : x = [k \in 1..c |-> BeforeLine(n - c + k - 1, KeptLine(w, k))]
    OBVIOUS
  <2>2. /\ before' = [lines |-> x, truncated |-> BeforeTruncated(c)]
        /\ phase' = "Forward" /\ UNCHANGED <<pos, raw, taken, error, result>>
    BY <1>1, <1>2, <1>4, <2>1, Zenon DEF CutWindow
  <2>3. ASSUME NEW k \in 1..c
        PROVE  x[k] \in ContextLines /\ LineIs(x[k], n - c + k - 1, KeptLine(w, k), FALSE, TRUE)
    <3>1. KeptLine(w, k) \in Seq(Bytes)
      BY <1>2, KeptLineIs
    <3>2. n - c + k - 1 \in Int
      OBVIOUS
    <3>3. LineIs(BeforeLine(n - c + k - 1, KeptLine(w, k)), n - c + k - 1, KeptLine(w, k), FALSE, TRUE)
      BY <3>1, <3>2, BeforeLineIs
    <3>4. x[k] = BeforeLine(n - c + k - 1, KeptLine(w, k))
      BY <2>1
    <3> QED BY <3>3, <3>4 DEF LineIs, HasFields
  <2>4. x \in Seq(ContextLines) /\ Len(x) = c
    <3>1. PICK C : C = ContextLines
      OBVIOUS
    <3>2. DOMAIN x = 1..c /\ x = [k \in 1..c |-> x[k]]
      BY <2>1
    <3>3. \A k \in 1..c : x[k] \in C
      BY <2>3, <3>1
    <3>4. x \in Seq(C) /\ Len(x) = c
      BY ONLY <3>2, <3>3, c \in Nat
    <3> QED BY <3>1, <3>4
  <2>5. before'.lines = x /\ before'.truncated = BeforeTruncated(c)
    BY ONLY <2>2, BeforeFields, Zenon
  <2>6. BeforeOf(before', w)
    BY <1>1, <1>2, <2>3, <2>4, <2>5, Zenon DEF BeforeOf
  <2>7. Last(Block(w)) = Newline /\ c <= n
    BY <1>4
  <2> QED BY <1>1, <1>2, <2>2, <2>6, <2>7
<1> QED BY <1>3, <1>4

-----------------------------------------------------------------------------
(***************************************************************************)
(* The invariant.                                                          *)
(***************************************************************************)

\* KeywordAt, of a request.
KeyAt(r, t, h) ==
  \A j \in 1..Len(r.keyword) : Fold(t[h + j], r.sensitive) = Fold(r.keyword[j], r.sensitive)

NoNewline(t, a, b) == \A i \in (a + 1)..b : t[i] # Newline

Unchanged == rewrites = opened.rewrites

Types ==
  /\ request \in Requests
  /\ bytes \in Seq(Bytes)
  /\ rotated \in BOOLEAN /\ appends \in 0..MaxAppends /\ rewrites \in 0..MaxRewrites
  /\ phase \in {"Called", "Before", "Forward", "Done"}
  /\ error \in Errors \cup {None} /\ (phase # "Done" => error = None)
  /\ window \in Seq(Bytes) /\ raw \in Seq(Bytes)
  /\ opened.bytes \in Seq(Bytes) /\ opened.rewrites \in 0..rewrites

\* What the search found is still in a file that was not rewritten.
KeptFile(t, f, r) ==
  /\ f.size <= Len(t)
  /\ f.start > 0 => t[f.start] = Newline
  /\ KeyAt(r, t, f.match)
  /\ NoNewline(t, f.start, f.match + Len(r.keyword))
  /\ f.number = NumberOf(t, f.start)

FileKept == rewrites = 0 => KeptFile(bytes, ref, request)

Opened == phase \in {"Before", "Forward"} \/ (phase = "Done" /\ error = None)

OpenedOK ==
  Opened =>
    /\ ref.size <= Len(opened.bytes)
    /\ Unchanged => PieceAt(opened.bytes, bytes, 0)

WindowOK ==
  /\ ReadFrom + Len(window) <= ref.start
  /\ phase = "Called" => window = <<>>
  /\ phase = "Before" =>
       /\ ref.start > 0 /\ request.before > 0
       /\ ReadFrom + Len(window) < ref.start
       /\ Unchanged => PieceAt(window, bytes, ReadFrom)

NewlineBefore ==
  Opened /\ phase # "Before" /\ Unchanged /\ request.before > 0 /\ ref.start > 0 =>
    bytes[ref.start] = Newline

NotYet ==
  phase \in {"Called", "Before"} =>
    pos = ref.start /\ raw = <<>> /\ taken = <<>> /\ before = NoLines

\* The keyword's bytes that have been read of the match line.
KeywordSoFar(r, t, h) ==
  \A j \in 1..Len(r.keyword) :
    h + j <= Len(t) => Fold(t[h + j], r.sensitive) = Fold(r.keyword[j], r.sensitive)

ForwardOK ==
  /\ pos \in Nat /\ ref.start <= pos /\ pos - ref.start <= request.maxForward
  /\ phase = "Forward" =>
       /\ Len(raw) <= pos - ref.start
       /\ taken = <<>> => Len(raw) = pos - ref.start
       /\ Len(taken) <= request.after
       /\ NoNewline(raw, 0, Len(raw))
       /\ Unchanged => PieceAt(raw, bytes, pos - Len(raw))
       /\ taken = <<>> => KeywordSoFar(request, raw, ref.match - ref.start)
       /\ taken # <<>> /\ Unchanged => KeyAt(request, bytes, ref.match)

Short(lines, r) == \A i \in 1..Len(lines) : Len(lines[i].content) <= r.maxLine

LinesOK ==
  /\ before.lines \in Seq(ContextLines) /\ Short(before.lines, request)
  /\ Len(before.lines) <= request.before
  /\ taken \in Seq(ContextLines) /\ Short(taken, request)
  /\ Len(taken) <= request.after + 1
  /\ taken # <<>> => taken[1].isMatch /\ Occurrences(taken[1].content, request) # {}

KeywordShown(lines, r) ==
  /\ \E l \in ToSet(lines) : l.isMatch /\ Occurrences(l.content, r) # {}
  /\ \A l \in ToSet(lines) : Len(l.content) <= r.maxLine
  /\ SizeOf(lines) <= r.maxContent

AnswerOK ==
  phase = "Done" /\ error = None =>
    /\ KeywordShown(result.lines, request)
    /\ Unchanged => KeyAt(request, bytes, ref.match)

ContextInv ==
  /\ Types /\ RefTypes /\ FileKept /\ OpenedOK /\ WindowOK /\ NewlineBefore /\ NotYet
  /\ ForwardOK /\ LinesOK /\ AnswerOK /\ NoFalseAlarm

-----------------------------------------------------------------------------
(***************************************************************************)
(* What the search gives out.                                              *)
(***************************************************************************)

LEMMA NewlinesAre ==
  ASSUME NEW t \in Seq(Bytes)
  PROVE  /\ Newlines(t) = {i \in 1..Len(t) : t[i] = Newline}
         /\ Newlines(t) \in SUBSET (1..Len(t)) /\ IsFiniteSet(Newlines(t))
<1>1. Newlines(t) = {i \in 1..Len(t) : t[i] = Newline}
  BY DEF Newlines
<1>2. IsFiniteSet(1..Len(t))
  <2>1. Len(t) \in Nat
    OBVIOUS
  <2> QED BY <2>1, FS_Interval
<1>3. Newlines(t) \in SUBSET (1..Len(t))
  BY <1>1
<1> QED BY <1>1, <1>2, <1>3, FS_Subset

\* The line that starts at s ends before the next newline.
LEMMA LineOfIs ==
  ASSUME NEW t \in Seq(Bytes), NEW s \in 0..Len(t)
  PROVE  /\ EndOf(t, s) \in s..Len(t) /\ NoNewline(t, s, EndOf(t, s))
         /\ EndOf(t, s) = Len(t) \/ t[EndOf(t, s) + 1] = Newline
         /\ LineOf(t, s) \in Seq(Bytes) /\ Len(LineOf(t, s)) = EndOf(t, s) - s
         /\ PieceAt(LineOf(t, s), t, s)
<1>1. PICK l \in Nat : l = Len(t)
  OBVIOUS
<1>2. PICK N : N = {j \in Newlines(t) : j > s}
  OBVIOUS
<1>3. \A j : j \in N <=> j \in 1..l /\ t[j] = Newline /\ j > s
  BY <1>1, <1>2, NewlinesAre
<1>4. PICK S : S = {i - 1 : i \in N} \cup {l}
  OBVIOUS
<1>5. s \in 0..l
  BY <1>1
<1>6. \A i \in S : i \in s..l /\ (i = l \/ i + 1 \in N)
  <2>1. ASSUME NEW i \in N PROVE i - 1 \in s..l /\ (i - 1) + 1 = i
    BY <1>3, <1>5
  <2>2. l \in s..l
    BY <1>5
  <2> QED BY <1>4, <2>1, <2>2
<1>7. S \in SUBSET Nat /\ S # {}
  <2>1. \A i \in s..l : i \in Nat
    BY <1>5
  <2>2. \A i \in S : i \in Nat
    BY <1>6, <2>1
  <2> QED BY <1>4, <2>2
<1>8. PICK e : e = EndOf(t, s) /\ e = Min(S)
  BY <1>1, <1>2, <1>4 DEF EndOf
<1>9. e \in S /\ \A y \in S : e <= y
  BY <1>7, <1>8, LeastNatural
<1>10. e \in s..l /\ (e = l \/ t[e + 1] = Newline)
  BY <1>3, <1>6, <1>9
<1>11. NoNewline(t, s, e)
  <2> SUFFICES ASSUME NEW i \in (s + 1)..e, t[i] = Newline PROVE FALSE
    BY DEF NoNewline
  <2>1. i \in 1..l /\ i > s
    BY <1>5, <1>10
  <2>2. i - 1 \in S
    BY <1>3, <1>4, <2>1
  <2> QED BY <1>9, <1>10, <2>1, <2>2
<1>12. /\ LineOf(t, s) \in Seq(Bytes) /\ Len(LineOf(t, s)) = e - s
       /\ PieceAt(LineOf(t, s), t, s)
  <2>1. t \in Seq(Bytes) /\ s \in Nat /\ e \in Nat /\ s <= e /\ e <= Len(t)
    BY <1>1, <1>5, <1>10
  <2>2. /\ SubSeq(t, s + 1, e) \in Seq(Bytes) /\ Len(SubSeq(t, s + 1, e)) = e - s
        /\ PieceAt(SubSeq(t, s + 1, e), t, s)
    BY ONLY <2>1, PieceIs
  <2> QED BY <1>8, <2>2 DEF LineOf
<1> QED BY <1>1, <1>8, <1>10, <1>11, <1>12

LEMMA NumberOfIs ==
  ASSUME NEW t \in Seq(Bytes), NEW s \in Nat
  PROVE  NumberOf(t, s) \in Nat \ {0}
<1>1. PICK N : N = {i \in Newlines(t) : i <= s}
  OBVIOUS
<1>2. N \subseteq Newlines(t) /\ IsFiniteSet(Newlines(t))
  BY <1>1, NewlinesAre
<1>3. Cardinality(N) \in Nat
  BY <1>2, FS_Subset, FS_CardinalityType
<1> QED BY <1>1, <1>3 DEF NumberOf

\* Texts that agree up to s number its line alike.
LEMMA SameNumber ==
  ASSUME NEW t \in Seq(Bytes), NEW u \in Seq(Bytes), NEW s \in 0..Len(t), s <= Len(u),
         \A i \in 1..s : t[i] = u[i]
  PROVE  NumberOf(t, s) = NumberOf(u, s)
<1>1. {i \in Newlines(t) : i <= s} = {i \in Newlines(u) : i <= s}
  <2>1. ASSUME NEW i \in Newlines(t), i <= s PROVE i \in Newlines(u)
    <3>1. i \in 1..s /\ i \in 1..Len(u) /\ t[i] = Newline
      BY <2>1, NewlinesAre
    <3> QED BY <3>1, NewlinesAre
  <2>2. ASSUME NEW i \in Newlines(u), i <= s PROVE i \in Newlines(t)
    <3>1. i \in 1..s /\ i \in 1..Len(t) /\ u[i] = Newline
      BY <2>2, NewlinesAre
    <3> QED BY <3>1, NewlinesAre
  <2> QED BY <2>1, <2>2
<1> QED BY <1>1 DEF NumberOf

LEMMA KeyAtIs ==
  ASSUME NEW t, NEW h PROVE KeyAt(request, t, h) <=> KeywordAt(t, h)
BY DEF KeyAt, KeywordAt, Same, Keyword

\* What a search of the file gives out.
LEMMA ReferenceIs ==
  ASSUME request \in Requests, bytes \in Seq(Bytes), ref \in References(bytes, request)
  PROVE  RefTypes /\ KeptFile(bytes, ref, request)
<1>1. PICK s \in Starts(bytes) :
        /\ ref.start = s /\ ref.match = s + Min(Occurrences(LineOf(bytes, s), request))
        /\ ref.number = NumberOf(bytes, s) /\ ref.size = Len(bytes)
        /\ Occurrences(LineOf(bytes, s), request) # {}
  BY DEF References
<1>2. PICK l \in Nat, n \in Nat \ {0} : l = Len(bytes) /\ n = Len(Keyword)
  <2>1. Len(bytes) \in Nat /\ Len(Keyword) \in Nat \ {0}
    BY RequestIs
  <2> QED BY ONLY <2>1
<1>3. s \in 0..l /\ s < l /\ (s > 0 => bytes[s] = Newline)
  <2>1. s = 0 \/ (s \in 1..l /\ bytes[s] = Newline)
    BY <1>2, NewlinesAre DEF Starts
  <2>2. s < l
    BY <1>2 DEF Starts
  <2> QED BY <2>1, <2>2
<1>4. PICK e : e = EndOf(bytes, s)
  OBVIOUS
<1>5. PICK v : v = LineOf(bytes, s)
  OBVIOUS
<1>6. e \in s..l /\ NoNewline(bytes, s, e) /\ v \in Seq(Bytes) /\ Len(v) = e - s /\ PieceAt(v, bytes, s)
  BY <1>2, <1>3, <1>4, <1>5, LineOfIs
<1>7. PICK h : h = Min(Occurrences(v, request))
  OBVIOUS
<1>8. h \in Nat /\ h + n <= e - s /\ KeywordAt(v, h)
  <2>1. Occurrences(v, request) \in SUBSET Nat /\ Occurrences(v, request) # {}
    BY <1>1, <1>5, <1>6, OccurrencesAre
  <2>2. h \in Occurrences(v, request)
    BY <1>7, <2>1, LeastNatural
  <2> QED BY <1>2, <1>6, <2>2, OccurrencesAre
<1>9. ref.match = s + h /\ s + h + n <= e /\ e <= l /\ ref.start = s
  BY <1>1, <1>3, <1>5, <1>6, <1>7, <1>8
<1>10. KeywordAt(bytes, s + h)
  <2>1. ASSUME NEW j \in 1..n PROVE bytes[(s + h) + j] = v[h + j]
    <3>1. h + j \in 1..Len(v) /\ s + (h + j) = (s + h) + j
      BY <1>3, <1>6, <1>8
    <3> QED BY <1>6, <3>1 DEF PieceAt
  <2> QED BY <1>2, <1>8, <2>1 DEF KeywordAt
<1>11. NoNewline(bytes, s, s + h + n)
  <2>1. \A i \in (s + 1)..(s + h + n) : i \in (s + 1)..e
    BY <1>3, <1>6, <1>8, <1>9
  <2> QED BY <1>6, <2>1 DEF NoNewline
<1>12. RefTypes
  <2>1. ref.number \in Nat \ {0}
    BY <1>1, <1>3, NumberOfIs
  <2> QED BY <1>1, <1>2, <1>3, <1>6, <1>8, <1>9, <2>1 DEF RefTypes
<1>13. KeptFile(bytes, ref, request)
  <2>1. n = Len(request.keyword)
    BY <1>2 DEF Keyword
  <2>2. KeyAt(request, bytes, s + h)
    BY <1>10, KeyAtIs
  <2> QED BY <1>1, <1>3, <1>9, <1>11, <2>1, <2>2 DEF KeptFile
<1> QED BY <1>12, <1>13

LEMMA InitContextInv == Init => ContextInv
<1> SUFFICES ASSUME Init PROVE ContextInv
  OBVIOUS
<1>1. bytes \in Seq(Bytes) /\ request \in Requests
  BY TextsAssumption DEF Init
<1>2. RefTypes /\ KeptFile(bytes, ref, request)
  BY <1>1, ReferenceIs DEF Init
<1>3. Types
  <2>1. opened.bytes = <<>> /\ opened.rewrites = 0
    BY DEF Init
  <2>2. <<>> \in Seq(Bytes) /\ 0 \in 0..0 /\ 0 \in 0..MaxAppends /\ 0 \in 0..MaxRewrites
    BY BoundAssumption
  <2>3. rotated = FALSE /\ appends = 0 /\ rewrites = 0 /\ phase = "Called" /\ error = None
        /\ window = <<>> /\ raw = <<>>
    BY DEF Init
  <2> QED BY <1>1, <2>1, <2>2, <2>3 DEF Types
<1>4. FileKept
  BY <1>2 DEF FileKept
<1>5. phase = "Called" /\ error = None /\ taken = <<>> /\ raw = <<>> /\ window = <<>>
      /\ before = NoLines /\ pos = ref.start
  BY DEF Init
<1>6. OpenedOK /\ NewlineBefore /\ NotYet /\ AnswerOK
  BY <1>5 DEF OpenedOK, NewlineBefore, NotYet, AnswerOK, Opened
<1>7. WindowOK
  <2>1. ReadFrom \in 0..WindowStart /\ WindowStart \in 0..ref.start /\ Len(window) = 0 /\ ref.start \in Nat
    BY <1>1, <1>2, <1>5, WindowStartIs DEF RefTypes
  <2>2. ReadFrom + Len(window) <= ref.start
    BY <2>1
  <2> QED BY <1>5, <2>2 DEF WindowOK
<1>8. ForwardOK
  <2>1. ref.start \in Nat /\ request.maxForward \in Nat
    BY <1>1, <1>2, RequestIs DEF RefTypes
  <2>2. ref.start <= ref.start /\ ref.start - ref.start <= request.maxForward
    BY <2>1
  <2> QED BY <1>5, <2>1, <2>2 DEF ForwardOK
<1>9. LinesOK
  <2>1. request.before \in Nat /\ request.after \in Nat
    BY <1>1, RequestIs
  <2>2. before.lines = <<>>
    BY <1>5 DEF NoLines
  <2>3. <<>> \in Seq(ContextLines) /\ Len(<<>>) = 0 /\ Short(<<>>, request)
    BY DEF Short
  <2>4. 0 <= request.before /\ 0 <= request.after + 1
    BY <2>1
  <2> QED BY <1>5, <2>2, <2>3, <2>4 DEF LinesOK
<1>10. NoFalseAlarm
  BY <1>5, NoneAssumption DEF NoFalseAlarm, Errors
<1> QED BY <1>2, <1>3, <1>4, <1>6, <1>7, <1>8, <1>9, <1>10 DEF ContextInv

-----------------------------------------------------------------------------
(***************************************************************************)
(* Programs that write the file.                                           *)
(***************************************************************************)

LEMMA SameWindowStart ==
  ASSUME UNCHANGED <<ref, request>>
  PROVE  WindowStart' = WindowStart /\ ReadFrom' = ReadFrom
BY DEF WindowStart, ReadFrom

LEMMA SameRefTypes ==
  ASSUME UNCHANGED <<ref, request>>, RefTypes
  PROVE  RefTypes'
BY DEF RefTypes, Keyword

\* What does not depend on the file stays as it is.
LEMMA OthersKeep ==
  ASSUME ContextInv, Others
  PROVE  RefTypes' /\ NotYet' /\ LinesOK' /\ AnswerOK' /\ NoFalseAlarm'
<1>1. UNCHANGED <<request, ref, phase, opened, window, before, pos, raw, taken, error, result>>
      /\ phase # "Done"
  BY DEF Others, reading
<1>2. RefTypes'
  BY <1>1, SameRefTypes DEF ContextInv
<1>3. NotYet'
  BY <1>1 DEF ContextInv, NotYet, NoLines
<1>4. LinesOK'
  BY <1>1 DEF ContextInv, LinesOK
<1>5. AnswerOK'
  BY <1>1 DEF AnswerOK
<1>6. NoFalseAlarm'
  <2>1. error = None
    BY <1>1 DEF ContextInv, Types
  <2> QED BY <1>1, <2>1, NoneAssumption DEF NoFalseAlarm, Errors
<1> QED BY <1>2, <1>3, <1>4, <1>5, <1>6

\* A file that was rewritten is unlike the opened one.
LEMMA DisturbedInv ==
  ASSUME ContextInv, Others, bytes' \in Seq(Bytes), rewrites' = rewrites + 1,
         rewrites < MaxRewrites, UNCHANGED <<rotated, appends>>
  PROVE  ContextInv'
<1>1. UNCHANGED <<request, ref, phase, opened, window, before, pos, raw, taken, error, result>>
  BY DEF Others, reading
<1>2. rewrites \in Nat /\ opened.rewrites \in 0..rewrites /\ MaxRewrites \in Nat
  BY BoundAssumption DEF ContextInv, Types
<1>3. ~Unchanged' /\ rewrites' # 0 /\ rewrites' \in 0..MaxRewrites /\ opened.rewrites \in 0..rewrites'
  BY <1>1, <1>2 DEF Unchanged
<1>4. Types'
  BY <1>1, <1>3 DEF ContextInv, Types
<1>5. FileKept' /\ OpenedOK' /\ NewlineBefore'
  BY <1>1, <1>3 DEF ContextInv, FileKept, OpenedOK, NewlineBefore, Opened
<1>6. WindowOK'
  BY <1>1, <1>3, SameWindowStart DEF ContextInv, WindowOK
<1>7. ForwardOK'
  BY <1>1, <1>3 DEF ContextInv, ForwardOK
<1> QED BY <1>4, <1>5, <1>6, <1>7, OthersKeep DEF ContextInv

LEMMA RewriteInv == ContextInv /\ Rewrite => ContextInv'
<1> SUFFICES ASSUME ContextInv, Rewrite PROVE ContextInv'
  OBVIOUS
<1>1. PICK i \in DOMAIN bytes, b \in Written : bytes' = [bytes EXCEPT ![i] = b]
  BY DEF Rewrite
<1>2. bytes \in Seq(Bytes) /\ b \in Bytes
  BY TextsAssumption DEF ContextInv, Types
<1>3. bytes' \in Seq(Bytes)
  BY <1>1, <1>2
<1> QED BY <1>3, DisturbedInv DEF Rewrite

LEMMA TruncateInv == ContextInv /\ Truncate => ContextInv'
<1> SUFFICES ASSUME ContextInv, Truncate PROVE ContextInv'
  OBVIOUS
<1>1. PICK n \in 0..(Len(bytes) - 1) : bytes' = SubSeq(bytes, 1, n)
  BY DEF Truncate
<1>2. bytes \in Seq(Bytes)
  BY DEF ContextInv, Types
<1>3. bytes' \in Seq(Bytes)
  BY <1>1, <1>2
<1> QED BY <1>3, DisturbedInv DEF Truncate

LEMMA RotateInv == ContextInv /\ Rotate => ContextInv'
<1> SUFFICES ASSUME ContextInv, Rotate PROVE ContextInv'
  OBVIOUS
<1>1. /\ UNCHANGED <<request, ref, phase, opened, window, before, pos, raw, taken, error, result>>
      /\ UNCHANGED <<bytes, appends, rewrites>> /\ rotated' = TRUE /\ Others
  BY DEF Rotate, Others, reading
<1>2. Types'
  BY <1>1 DEF ContextInv, Types
<1>3. FileKept' /\ OpenedOK' /\ NewlineBefore'
  BY <1>1 DEF ContextInv, FileKept, OpenedOK, NewlineBefore, Opened, Unchanged
<1>4. WindowOK'
  BY <1>1, SameWindowStart DEF ContextInv, WindowOK, Unchanged
<1>5. ForwardOK'
  BY <1>1 DEF ContextInv, ForwardOK, Unchanged
<1> QED BY <1>1, <1>2, <1>3, <1>4, <1>5, OthersKeep DEF ContextInv

\* A longer text has the same pieces.
LEMMA PieceOfLonger ==
  ASSUME NEW t \in Seq(Bytes), NEW u \in Seq(Bytes), NEW v \in Seq(Bytes), NEW a \in Nat,
         PieceAt(v, t, a), Len(t) <= Len(u), \A i \in 1..Len(t) : u[i] = t[i]
  PROVE  PieceAt(v, u, a)
<1>1. PICK l \in Nat, m \in Nat, n \in Nat : l = Len(t) /\ m = Len(u) /\ n = Len(v)
  <2>1. Len(t) \in Nat /\ Len(u) \in Nat /\ Len(v) \in Nat
    OBVIOUS
  <2> QED BY ONLY <2>1
<1>2. a + n <= l /\ l <= m /\ \A i \in 1..n : v[i] = t[a + i]
  BY <1>1 DEF PieceAt
<1>3. ASSUME NEW i \in 1..n PROVE v[i] = u[a + i]
  <2>1. a + i \in 1..l
    BY <1>2
  <2> QED BY <1>1, <1>2, <2>1
<1>4. a + n <= m
  BY <1>2
<1> QED BY <1>1, <1>3, <1>4 DEF PieceAt

LEMMA KeyOfLonger ==
  ASSUME NEW r \in Requests, r = request, NEW t \in Seq(Bytes), NEW u \in Seq(Bytes), NEW h \in Nat,
         h + Len(r.keyword) <= Len(t), KeyAt(r, t, h), \A i \in 1..Len(t) : u[i] = t[i]
  PROVE  KeyAt(r, u, h)
<1>1. PICK n \in Nat : n = Len(r.keyword)
  BY RequestIs DEF Keyword
<1>2. ASSUME NEW j \in 1..n PROVE u[h + j] = t[h + j]
  <2>1. h + j \in 1..Len(t)
    BY <1>1
  <2> QED BY <2>1
<1> QED BY <1>1, <1>2 DEF KeyAt

LEMMA AppendByteInv == ContextInv /\ AppendByte => ContextInv'
<1> SUFFICES ASSUME ContextInv, AppendByte PROVE ContextInv'
  OBVIOUS
<1>1. /\ UNCHANGED <<request, ref, phase, opened, window, before, pos, raw, taken, error, result>>
      /\ UNCHANGED <<rotated, rewrites>> /\ Others /\ appends' = appends + 1 /\ appends < MaxAppends
  BY DEF AppendByte, Others, reading
<1>2. PICK b \in Written : bytes' = Append(bytes, b)
  BY DEF AppendByte
<1>3. bytes \in Seq(Bytes) /\ b \in Bytes
  BY TextsAssumption DEF ContextInv, Types
<1>4. PICK t, u : t = bytes /\ u = bytes'
  OBVIOUS
<1>5. t \in Seq(Bytes) /\ u \in Seq(Bytes) /\ Len(u) = Len(t) + 1 /\ Len(t) <= Len(u)
      /\ \A i \in 1..Len(t) : u[i] = t[i]
  BY <1>2, <1>3, <1>4
<1>6. Types'
  <2>1. appends' \in 0..MaxAppends
    BY <1>1, BoundAssumption DEF ContextInv, Types
  <2> QED BY <1>1, <1>4, <1>5, <2>1 DEF ContextInv, Types
<1>7. request \in Requests /\ RefTypes /\ ref.match \in Nat /\ ref.start \in Nat /\ ref.size \in Nat
  BY DEF ContextInv, Types, RefTypes
<1>8. PICK n \in Nat : n = Len(request.keyword) /\ ref.match + n <= ref.size /\ ref.start <= ref.match
  BY <1>7, RequestIs DEF RefTypes, Keyword
<1>9. ASSUME KeyAt(request, t, ref.match), ref.size <= Len(t) PROVE KeyAt(request, u, ref.match)
  <2>1. ref.match + Len(request.keyword) <= Len(t)
    BY <1>5, <1>7, <1>8, <1>9
  <2> QED BY <1>5, <1>7, <1>9, <2>1, KeyOfLonger
<1>10. FileKept'
  <2> SUFFICES ASSUME rewrites = 0 PROVE KeptFile(u, ref, request)
    BY <1>1, <1>4 DEF FileKept
  <2>1. KeptFile(t, ref, request)
    BY <1>4 DEF ContextInv, FileKept
  <2>2. ref.size <= Len(t) /\ ref.size <= Len(u) /\ KeyAt(request, u, ref.match)
    BY <1>5, <1>7, <1>9, <2>1 DEF KeptFile
  <2>3. ref.start \in 0..Len(t) /\ ref.start <= Len(u) /\ \A i \in 1..ref.start : t[i] = u[i]
    BY <1>5, <1>7, <1>8, <2>2
  <2>4. NumberOf(t, ref.start) = NumberOf(u, ref.start)
    BY <1>5, <2>3, SameNumber
  <2>5. ref.start > 0 => u[ref.start] = Newline
    <3>1. ref.start > 0 => ref.start \in 1..ref.start
      BY <1>7
    <3> QED BY <2>1, <2>3, <3>1 DEF KeptFile
  <2>6. NoNewline(u, ref.start, ref.match + Len(request.keyword))
    <3>1. \A i \in (ref.start + 1)..(ref.match + n) : i \in 1..Len(t)
      BY <1>5, <1>7, <1>8, <2>2
    <3> QED BY <1>5, <1>8, <2>1, <3>1 DEF KeptFile, NoNewline
  <2> QED BY <2>1, <2>2, <2>4, <2>5, <2>6 DEF KeptFile
<1>11. OpenedOK'
  <2> SUFFICES ASSUME Opened, Unchanged PROVE ref.size <= Len(opened.bytes) /\ PieceAt(opened.bytes, u, 0)
    BY <1>1, <1>4 DEF ContextInv, OpenedOK, Opened, Unchanged
  <2>1. ref.size <= Len(opened.bytes) /\ PieceAt(opened.bytes, t, 0) /\ opened.bytes \in Seq(Bytes)
    BY <1>4 DEF ContextInv, Types, OpenedOK
  <2> QED BY <1>5, <2>1, PieceOfLonger
<1>12. ASSUME Opened, Unchanged PROVE ref.size <= Len(t)
  <2>1. ref.size <= Len(opened.bytes) /\ PieceAt(opened.bytes, t, 0) /\ opened.bytes \in Seq(Bytes)
    BY <1>4, <1>12 DEF ContextInv, Types, OpenedOK
  <2> QED BY <1>5, <1>7, <2>1 DEF PieceAt
<1>13. WindowOK'
  <2> SUFFICES ASSUME phase = "Before", Unchanged PROVE PieceAt(window, u, ReadFrom)
    BY <1>1, <1>4, SameWindowStart DEF ContextInv, WindowOK, Unchanged
  <2>1. PieceAt(window, t, ReadFrom) /\ window \in Seq(Bytes)
    BY <1>4 DEF ContextInv, Types, WindowOK
  <2>2. ReadFrom \in Nat
    BY <1>7, WindowStartIs
  <2> QED BY <1>5, <2>1, <2>2, PieceOfLonger
<1>14. NewlineBefore'
  <2> SUFFICES ASSUME Opened, phase # "Before", Unchanged, request.before > 0, ref.start > 0
               PROVE  u[ref.start] = Newline
    BY <1>1, <1>4 DEF NewlineBefore, Opened, Unchanged
  <2>1. t[ref.start] = Newline
    BY <1>4 DEF ContextInv, NewlineBefore
  <2>2. ref.start \in 1..Len(t)
    BY <1>5, <1>7, <1>8, <1>12
  <2> QED BY <1>5, <2>1, <2>2
<1>15. ForwardOK'
  <2>1. ASSUME phase = "Forward", Unchanged
        PROVE  PieceAt(raw, u, pos - Len(raw)) /\ (taken # <<>> => KeyAt(request, u, ref.match))
    <3>1. PieceAt(raw, t, pos - Len(raw)) /\ raw \in Seq(Bytes) /\ (taken # <<>> => KeyAt(request, t, ref.match))
      BY <1>4, <2>1 DEF ContextInv, Types, ForwardOK
    <3>2. pos - Len(raw) \in Nat
      <4>1. pos \in Nat /\ ref.start <= pos /\ Len(raw) <= pos - ref.start /\ Len(raw) \in Nat
        BY <2>1, <3>1 DEF ContextInv, ForwardOK
      <4> QED BY <1>7, <4>1
    <3>3. PieceAt(raw, u, pos - Len(raw))
      BY <1>5, <3>1, <3>2, PieceOfLonger
    <3>4. Opened
      BY <2>1 DEF Opened
    <3> QED BY <1>9, <1>12, <2>1, <3>1, <3>3, <3>4
  <2> QED BY <1>1, <1>4, <2>1 DEF ContextInv, ForwardOK, Unchanged
<1> QED BY <1>1, <1>6, <1>10, <1>11, <1>13, <1>14, <1>15, OthersKeep DEF ContextInv

-----------------------------------------------------------------------------
(***************************************************************************)
(* The reader.                                                             *)
(***************************************************************************)

\* A read that ends with an error.
LEMMA RefusedInv ==
  ASSUME ContextInv, UNCHANGED <<bytes, rotated, appends, rewrites, request, ref>>,
         UNCHANGED <<before, pos, raw, taken, result>>, phase' = "Done", error' \in Errors,
         error' = "FileChanged" => rewrites > 0 \/ rotated,
         window' \in Seq(Bytes), ReadFrom + Len(window') <= ref.start,
         opened'.bytes \in Seq(Bytes), opened'.rewrites \in 0..rewrites
  PROVE  ContextInv'
<1>1. error' # None
  BY NoneAssumption
<1>2. Types'
  BY DEF ContextInv, Types
<1>3. RefTypes'
  BY SameRefTypes DEF ContextInv
<1>4. FileKept'
  BY DEF ContextInv, FileKept
<1>5. OpenedOK' /\ NewlineBefore' /\ NotYet' /\ AnswerOK'
  BY <1>1 DEF OpenedOK, NewlineBefore, NotYet, AnswerOK, Opened
<1>6. WindowOK'
  BY SameWindowStart DEF WindowOK
<1>7. ForwardOK'
  BY DEF ContextInv, ForwardOK
<1>8. LinesOK'
  BY DEF ContextInv, LinesOK
<1>9. NoFalseAlarm'
  BY DEF NoFalseAlarm
<1> QED BY <1>2, <1>3, <1>4, <1>5, <1>6, <1>7, <1>8, <1>9 DEF ContextInv

LEMMA InterruptInv == ContextInv /\ Interrupt => ContextInv'
<1> SUFFICES ASSUME ContextInv, Interrupt PROVE ContextInv'
  OBVIOUS
<1>1. /\ UNCHANGED <<bytes, rotated, appends, rewrites, request, ref, opened, window>>
      /\ UNCHANGED <<before, pos, raw, taken, result>> /\ phase' = "Done" /\ error' = "Interrupted"
  BY DEF Interrupt, Refuse, file
<1>2. error' \in Errors /\ error' # "FileChanged"
  BY <1>1 DEF Errors
<1>3. window' \in Seq(Bytes) /\ ReadFrom + Len(window') <= ref.start
      /\ opened'.bytes \in Seq(Bytes) /\ opened'.rewrites \in 0..rewrites
  BY <1>1 DEF ContextInv, Types, WindowOK
<1> QED BY <1>1, <1>2, <1>3, RefusedInv

LEMMA PieceOfItself ==
  ASSUME NEW t \in Seq(Bytes) PROVE PieceAt(t, t, 0) /\ (\A a \in 0..Len(t) : PieceAt(<<>>, t, a))
<1>1. PICK l \in Nat : l = Len(t)
  OBVIOUS
<1>2. 0 + l <= l /\ \A i \in 1..l : t[i] = t[0 + i]
  OBVIOUS
<1>3. ASSUME NEW a \in 0..l PROVE PieceAt(<<>>, t, a)
  <2>1. a + 0 <= l /\ Len(<<>>) = 0
    OBVIOUS
  <2> QED BY <1>1, <2>1 DEF PieceAt
<1> QED BY <1>1, <1>2, <1>3 DEF PieceAt

LEMMA OpenInv == ContextInv /\ Open => ContextInv'
<1> SUFFICES ASSUME ContextInv, Open PROVE ContextInv'
  OBVIOUS
<1>1. /\ UNCHANGED <<bytes, rotated, appends, rewrites, request, ref, window>>
      /\ phase = "Called" /\ opened' = [bytes |-> bytes, rewrites |-> rewrites]
  BY DEF Open, file
<1>2. opened'.bytes = bytes /\ opened'.rewrites = rewrites
  BY <1>1
<1>3. bytes \in Seq(Bytes) /\ rewrites \in Nat /\ request \in Requests /\ RefTypes /\ error = None
  BY <1>1, BoundAssumption DEF ContextInv, Types
<1>4. window' \in Seq(Bytes) /\ ReadFrom + Len(window') <= ref.start
      /\ opened'.bytes \in Seq(Bytes) /\ opened'.rewrites \in 0..rewrites
  BY <1>1, <1>2, <1>3 DEF ContextInv, Types, WindowOK
<1>5. CASE rotated \/ Shrunk
  <2>1. /\ UNCHANGED <<before, pos, raw, taken, result>> /\ phase' = "Done"
        /\ error' \in {"FileChanged", "SourceRegistry"}
    BY <1>5 DEF Open, Refuse
  <2>2. error' \in Errors
    BY <2>1 DEF Errors
  <2>3. rewrites > 0 \/ rotated
    <3> SUFFICES ASSUME rewrites = 0, Shrunk PROVE FALSE
      BY <1>3, <1>5
    <3>1. ref.size <= Len(bytes) /\ Len(bytes) < ref.size /\ ref.size \in Nat /\ Len(bytes) \in Nat
      BY <1>3 DEF ContextInv, FileKept, KeptFile, Shrunk, RefTypes
    <3> QED BY <3>1
  <2> QED BY <1>1, <1>4, <2>1, <2>2, <2>3, RefusedInv
<1>6. CASE ~rotated /\ ~Shrunk
  <2>1. /\ phase' = IF request.before = 0 \/ ref.start = 0 THEN "Forward" ELSE "Before"
        /\ UNCHANGED <<before, pos, raw, taken, error, result>>
    BY <1>6 DEF Open
  <2>2. ref.size <= Len(bytes) /\ ref.start \in 0..Len(bytes)
    <3>1. ref.size \in Nat /\ Len(bytes) \in Nat /\ ref.start \in Nat /\ ref.match \in Nat
          /\ Len(Keyword) \in Nat /\ ref.start <= ref.match /\ ref.match + Len(Keyword) <= ref.size
      BY <1>3, RequestIs DEF RefTypes
    <3>2. ref.size <= Len(bytes)
      BY <1>6, <3>1 DEF Shrunk
    <3> QED BY <3>1, <3>2
  <2>3. pos = ref.start /\ raw = <<>> /\ taken = <<>> /\ before = NoLines
    BY <1>1 DEF ContextInv, NotYet
  <2>4. request.before \in Nat /\ request.after \in Nat /\ ref.start \in Nat /\ request.maxForward \in Nat
    BY <1>3, RequestIs DEF RefTypes
  <2>5. Types'
    BY <1>1, <1>4, <2>1 DEF ContextInv, Types
  <2>6. RefTypes'
    BY <1>1, <1>3, SameRefTypes
  <2>7. FileKept'
    BY <1>1 DEF ContextInv, FileKept
  <2>8. OpenedOK'
    BY <1>1, <1>2, <1>3, <2>2, PieceOfItself DEF OpenedOK
  <2>9. WindowOK'
    <3>1. phase' = "Before" => ref.start > 0 /\ request.before > 0
      BY <2>1, <2>4
    <3>2. ReadFrom \in Nat /\ ReadFrom \in 0..WindowStart /\ WindowStart \in 0..ref.start
          /\ (ref.start > 0 => WindowStart < ref.start)
      BY <1>3, WindowStartIs
    <3>3. window = <<>> /\ Len(window) = 0
      BY <1>1 DEF ContextInv, WindowOK
    <3>4. PieceAt(window, bytes, ReadFrom)
      <4>1. ReadFrom \in 0..Len(bytes)
        BY <2>2, <3>2
      <4> QED BY <1>3, <3>3, <4>1, PieceOfItself
    <3>5. ReadFrom + Len(window) <= ref.start /\ (ref.start > 0 => ReadFrom + Len(window) < ref.start)
      BY <2>4, <3>2, <3>3
    <3>6. phase' # "Called"
      BY <2>1
    <3> QED BY <1>1, <3>1, <3>4, <3>5, <3>6, SameWindowStart DEF WindowOK
  <2>10. NewlineBefore'
    BY <1>1, <2>1, <2>4 DEF NewlineBefore
  <2>11. NotYet'
    BY <1>1, <2>1, <2>3 DEF NotYet, NoLines
  <2>12. ForwardOK'
    <3>1. Len(raw) = 0 /\ pos - Len(raw) \in 0..Len(bytes) /\ pos - ref.start = 0 /\ Len(taken) = 0
      BY <2>2, <2>3, <2>4
    <3>2. PieceAt(raw, bytes, pos - Len(raw))
      BY <1>3, <2>3, <3>1, PieceOfItself
    <3>3. NoNewline(raw, 0, Len(raw))
      BY <3>1 DEF NoNewline
    <3>4. KeywordSoFar(request, raw, ref.match - ref.start)
      <4>1. ref.match - ref.start \in Nat
        BY <1>3 DEF RefTypes
      <4> QED BY <3>1, <4>1 DEF KeywordSoFar
    <3>5. pos \in Nat /\ ref.start <= pos /\ pos - ref.start <= request.maxForward
          /\ Len(raw) <= pos - ref.start /\ Len(raw) = pos - ref.start /\ Len(taken) <= request.after
      BY <2>3, <2>4, <3>1
    <3> QED BY <1>1, <2>1, <2>3, <3>2, <3>3, <3>4, <3>5 DEF ForwardOK
  <2>13. LinesOK'
    BY <1>1, <2>1 DEF ContextInv, LinesOK
  <2>14. AnswerOK' /\ NoFalseAlarm'
    BY <1>1, <1>3, <2>1, NoneAssumption DEF AnswerOK, NoFalseAlarm, Errors
  <2> QED BY <2>5, <2>6, <2>7, <2>8, <2>9, <2>10, <2>11, <2>12, <2>13, <2>14 DEF ContextInv
<1> QED BY <1>5, <1>6

LEMMA ShiftCount ==
  ASSUME NEW S \in SUBSET Nat, NEW T, IsFiniteSet(T), NEW d \in Nat, \A i \in S : d + i \in T
  PROVE  Cardinality(S) <= Cardinality(T)
<1> DEFINE f == [i \in S |-> d + i]
<1>1. f \in [S -> T]
  OBVIOUS
<1>2. \A i, j \in S : f[i] = f[j] => i = j
  OBVIOUS
<1>3. f \in Injection(S, T)
  <2> HIDE DEF f
  <2> QED BY <1>1, <1>2 DEF Injection, IsInjective
<1> HIDE DEF f
<1> QED BY <1>3, FS_Injection

\* A piece of a text and the byte behind it.
LEMMA AppendedPiece ==
  ASSUME NEW t \in Seq(Bytes), NEW v \in Seq(Bytes), NEW a \in Nat, a + Len(v) + 1 <= Len(t),
         NEW b, b = t[a + Len(v) + 1]
  PROVE  /\ b \in Bytes /\ Append(v, b) \in Seq(Bytes) /\ Len(Append(v, b)) = Len(v) + 1
         /\ Append(v, b)[Len(v) + 1] = b /\ \A i \in 1..Len(v) : Append(v, b)[i] = v[i]
         /\ PieceAt(v, t, a) => PieceAt(Append(v, b), t, a)
<1>1. PICK l \in Nat, n \in Nat : l = Len(t) /\ n = Len(v)
  <2>1. Len(t) \in Nat /\ Len(v) \in Nat
    OBVIOUS
  <2> QED BY ONLY <2>1
<1>2. b \in Bytes
  <2>1. a + n + 1 \in 1..l
    BY <1>1
  <2> QED BY <1>1, <2>1
<1>3. PICK u : u = Append(v, b)
  OBVIOUS
<1>4. u \in Seq(Bytes) /\ Len(u) = n + 1 /\ u[n + 1] = b /\ \A i \in 1..n : u[i] = v[i]
  BY <1>1, <1>2, <1>3
<1>5. ASSUME PieceAt(v, t, a) PROVE PieceAt(u, t, a)
  <2>1. \A i \in 1..n : v[i] = t[a + i]
    BY <1>1, <1>5 DEF PieceAt
  <2>2. ASSUME NEW i \in 1..(n + 1) PROVE u[i] = t[a + i]
    <3>1. CASE i = n + 1
      <4>1. a + i = a + n + 1
        BY <3>1
      <4> QED BY <1>1, <1>4, <3>1, <4>1
    <3>2. CASE i # n + 1
      <4>1. i \in 1..n
        BY <3>2
      <4> QED BY <1>4, <2>1, <4>1
    <3> QED BY <3>1, <3>2
  <2>3. a + (n + 1) <= l
    BY <1>1
  <2> QED BY <1>1, <1>4, <2>2, <2>3 DEF PieceAt
<1> QED BY <1>1, <1>2, <1>3, <1>4, <1>5

\* In a file that was not rewritten the window ends with a newline and holds no
\* more lines than are before the match.
LEMMA WindowOfFile ==
  ASSUME request \in Requests, RefTypes, NEW t \in Seq(Bytes), ref.start <= Len(t),
         NEW w, Whole(w), PieceAt(w, t, ReadFrom)
  PROVE  /\ \A i \in 1..Len(Block(w)) : Block(w)[i] = t[WindowStart + i]
         /\ Last(Block(w)) = t[ref.start]
         /\ \A i \in Kept(w) : /\ i \in Nat /\ WindowStart + i \in 1..ref.start
                               /\ t[WindowStart + i] = Newline
         /\ ref.number = NumberOf(t, ref.start) => Cardinality(Kept(w)) <= ref.number
<1>1. PICK s \in Nat \ {0} : s = ref.start
  BY DEF RefTypes, Whole
<1>2. PICK v \in 0..(s - 1) : v = WindowStart
  BY <1>1, WindowStartIs
<1>3. PICK r \in 0..v : r = ReadFrom
  BY <1>2, WindowStartIs
<1>4. PICK b : b = Block(w)
  OBVIOUS
<1>5. PICK n \in Nat \ {0} : n = s - v /\ Len(b) = n /\ \A i \in 1..n : b[i] = w[(v - r) + i]
  <2>1. s - v \in Nat \ {0}
    OBVIOUS
  <2>2. Len(b) = s - v /\ \A i \in 1..Len(b) : b[i] = w[(v - r) + i]
    BY <1>1, <1>2, <1>3, <1>4, BlockIs
  <2> QED BY ONLY <2>1, <2>2
<1>6. \A i \in 1..(s - r) : w[i] = t[r + i]
  BY <1>1, <1>3 DEF PieceAt, Whole
<1>7. ASSUME NEW i \in 1..n PROVE b[i] = t[v + i]
  <2>1. (v - r) + i \in 1..(s - r) /\ r + ((v - r) + i) = v + i
    BY <1>5
  <2> QED BY <1>5, <1>6, <2>1
<1>8. Last(b) = t[s]
  <2>1. Last(b) = b[n] /\ n \in 1..n /\ v + n = s
    BY <1>5 DEF Last
  <2> QED BY <1>7, <2>1
<1>9. ASSUME NEW i \in Kept(w)
      PROVE  i \in Nat /\ v + i \in 1..s /\ t[v + i] = Newline
  <2>1. i \in 1..n /\ b[i] = Newline
    BY <1>4, <1>5, EndsAre
  <2>2. v + i \in 1..s
    BY <1>5, <2>1
  <2> QED BY <1>7, <2>1, <2>2
<1>10. ASSUME ref.number = NumberOf(t, s) PROVE Cardinality(Kept(w)) <= ref.number
  <2>1. PICK K \in SUBSET Nat : K = Kept(w)
    BY <1>9
  <2>2. PICK T : T = {i \in Newlines(t) : i <= s}
    OBVIOUS
  <2>3. IsFiniteSet(T) /\ Cardinality(T) \in Nat
    <3>1. T \subseteq Newlines(t)
      BY <2>2
    <3> QED BY <3>1, NewlinesAre, FS_Subset, FS_CardinalityType
  <2>4. \A i \in K : v + i \in T
    <3>1. ASSUME NEW i \in K PROVE v + i \in T
      <4>1. v + i \in 1..s /\ t[v + i] = Newline
        BY <1>9, <2>1
      <4>2. v + i \in 1..Len(t) /\ v + i <= s
        BY <1>1, <4>1
      <4>3. v + i \in Newlines(t)
        BY <4>1, <4>2, NewlinesAre
      <4> QED BY <2>2, <4>2, <4>3
    <3> QED BY <3>1
  <2>5. Cardinality(K) <= Cardinality(T)
    <3>1. v \in Nat
      OBVIOUS
    <3> QED BY <2>1, <2>3, <2>4, <3>1, ShiftCount
  <2>6. ref.number = 1 + Cardinality(T)
    BY <1>10, <2>2 DEF NumberOf
  <2>7. Cardinality(Kept(w)) \in Nat
    <3>1. n = Len(Block(w))
      BY <1>4, <1>5
    <3> QED BY <3>1, EndsAre
  <2> QED BY <2>1, <2>3, <2>5, <2>6, <2>7
<1>11. \A i \in 1..Len(b) : b[i] = t[v + i]
  BY <1>5, <1>7
<1> QED BY <1>1, <1>2, <1>4, <1>8, <1>9, <1>10, <1>11

\* Where the match line starts, in a file that is as it was opened.
LEMMA MatchInFile ==
  ASSUME ContextInv
  PROVE  /\ ref.start \in Nat /\ ref.match \in Nat /\ Relative \in Nat
         /\ ref.match + Len(Keyword) <= ref.size /\ ref.size \in Nat
         /\ Len(bytes) \in Nat /\ Len(Keyword) \in Nat \ {0} /\ ref.start < ref.size
         /\ rewrites = 0 => Unchanged /\ ref.size <= Len(bytes)
         /\ Opened /\ Unchanged => ref.size <= Len(bytes)
<1>1. request \in Requests /\ RefTypes /\ bytes \in Seq(Bytes) /\ opened.bytes \in Seq(Bytes)
      /\ opened.rewrites \in 0..rewrites
  BY DEF ContextInv, Types
<1>2. ref.start \in Nat /\ ref.match \in Nat /\ ref.match + Len(Keyword) <= ref.size /\ ref.size \in Nat
      /\ Len(Keyword) \in Nat \ {0} /\ ref.start <= ref.match
  BY <1>1, RequestIs DEF RefTypes
<1>3. Relative \in Nat /\ Len(bytes) \in Nat /\ ref.start < ref.size
  BY <1>1, <1>2 DEF Relative
<1>4. ASSUME rewrites = 0 PROVE Unchanged /\ ref.size <= Len(bytes)
  BY <1>1, <1>4 DEF ContextInv, FileKept, KeptFile, Unchanged
<1>5. ASSUME Opened, Unchanged PROVE ref.size <= Len(bytes)
  <2>1. ref.size <= Len(opened.bytes) /\ PieceAt(opened.bytes, bytes, 0)
    BY <1>5 DEF ContextInv, OpenedOK
  <2> QED BY <1>1, <1>2, <1>3, <2>1 DEF PieceAt
<1> QED BY <1>2, <1>3, <1>4, <1>5

LEMMA ReadBeforeInv == ContextInv /\ ReadBefore => ContextInv'
<1> SUFFICES ASSUME ContextInv, ReadBefore PROVE ContextInv'
  OBVIOUS
<1>1. UNCHANGED <<bytes, rotated, appends, rewrites, request, ref, opened>> /\ phase = "Before"
  BY DEF ReadBefore, file
<1>2. /\ request \in Requests /\ RefTypes /\ bytes \in Seq(Bytes) /\ window \in Seq(Bytes)
      /\ opened.bytes \in Seq(Bytes) /\ opened.rewrites \in 0..rewrites /\ rewrites \in 0..MaxRewrites
      /\ error = None
  BY <1>1 DEF ContextInv, Types
<1>3. PICK s \in Nat \ {0} : s = ref.start /\ request.before > 0
  <2>1. ref.start \in Nat /\ ref.start > 0 /\ request.before > 0
    BY <1>1, <1>2 DEF ContextInv, WindowOK, RefTypes
  <2> QED BY <2>1
<1>4. PICK r \in Nat, n \in Nat : r = ReadFrom /\ n = Len(window) /\ r + n < s
  <2>1. ReadFrom \in Nat
    BY <1>2, <1>3, WindowStartIs
  <2>2. Len(window) \in Nat
    BY <1>2
  <2>3. ReadFrom + Len(window) < ref.start
    BY <1>1 DEF ContextInv, WindowOK
  <2> QED BY <1>3, <2>1, <2>2, <2>3
<1>5. PICK at \in Nat : at = r + n + 1 /\ at <= s /\ at > 0
  BY <1>4
<1>6. pos = s /\ raw = <<>> /\ taken = <<>> /\ before = NoLines
  BY <1>1, <1>3 DEF ContextInv, NotYet
<1>7. CASE at > Len(bytes)
  <2>1. UNCHANGED window /\ UNCHANGED <<before, pos, raw, taken, result>> /\ phase' = "Done"
        /\ error' = "FileChanged"
    BY <1>4, <1>5, <1>7 DEF ReadBefore, Refuse
  <2>2. rewrites > 0 \/ rotated
    <3>1. rewrites # 0
      <4> SUFFICES ASSUME rewrites = 0 PROVE FALSE
        OBVIOUS
      <4>1. ref.size <= Len(bytes) /\ s < ref.size /\ ref.size \in Nat /\ Len(bytes) \in Nat
        BY <1>3, MatchInFile
      <4> QED BY <1>5, <1>7, <4>1
    <3>2. rewrites \in Nat
      BY <1>2, BoundAssumption
    <3> QED BY <3>1, <3>2
  <2>3. error' \in Errors
    BY <2>1 DEF Errors
  <2>4. window' \in Seq(Bytes) /\ ReadFrom + Len(window') <= ref.start
        /\ opened'.bytes \in Seq(Bytes) /\ opened'.rewrites \in 0..rewrites
    BY <1>1, <1>2, <1>3, <1>4, <2>1
  <2> QED BY <1>1, <2>1, <2>2, <2>3, <2>4, RefusedInv
<1>8. CASE at <= Len(bytes)
  <2>1. PICK w : w = Append(window, bytes[at])
    OBVIOUS
  <2>2. /\ window' = w
        /\ IF at = ref.start THEN CutWindow(window')
           ELSE UNCHANGED <<phase, before, pos, raw, taken, error, result>>
    <3>1. ~(at > Len(bytes))
      <4>1. Len(bytes) \in Nat
        BY <1>2
      <4> QED BY <1>5, <1>8, <4>1
    <3> QED BY <1>4, <1>5, <2>1, <3>1 DEF ReadBefore
  <2>3. w \in Seq(Bytes) /\ Len(w) = n + 1 /\ (Unchanged => PieceAt(w, bytes, r))
    <3>1. r + Len(window) + 1 <= Len(bytes) /\ bytes[at] = bytes[r + Len(window) + 1]
      BY <1>4, <1>5, <1>8
    <3>2. Unchanged => PieceAt(window, bytes, r)
      BY <1>1, <1>4 DEF ContextInv, WindowOK
    <3>3. PICK b : b = bytes[r + Len(window) + 1] /\ w = Append(window, b)
      BY <2>1, <3>1
    <3> QED BY <1>2, <1>4, <3>1, <3>2, <3>3, AppendedPiece
  <2>4. window' \in Seq(Bytes) /\ ReadFrom + Len(window') <= ref.start
        /\ opened'.bytes \in Seq(Bytes) /\ opened'.rewrites \in 0..rewrites
    <3>1. ReadFrom + Len(w) <= ref.start
      BY <1>3, <1>4, <1>5, <2>3
    <3> QED BY <1>1, <1>2, <2>2, <2>3, <3>1
  <2>5. RefTypes'
    BY <1>1, <1>2, SameRefTypes
  <2>6. FileKept'
    BY <1>1 DEF ContextInv, FileKept
  <2>7. CASE at # s
    <3>1. UNCHANGED <<phase, before, pos, raw, taken, error, result>>
      BY <1>3, <2>2, <2>7
    <3>2. Types'
      BY <1>1, <2>4, <3>1 DEF ContextInv, Types
    <3>3. OpenedOK' /\ NewlineBefore' /\ NotYet'
      BY <1>1, <3>1 DEF ContextInv, OpenedOK, NewlineBefore, NotYet, Opened, Unchanged, NoLines
    <3>4. WindowOK'
      <4>1. r + Len(w) < s /\ r + Len(w) <= s
        BY <1>4, <1>5, <2>3, <2>7
      <4> QED BY <1>1, <1>3, <1>4, <2>2, <2>3, <3>1, <4>1, SameWindowStart DEF WindowOK, Unchanged
    <3>5. ForwardOK'
      BY <1>1, <3>1 DEF ContextInv, ForwardOK
    <3>6. LinesOK' /\ AnswerOK' /\ NoFalseAlarm'
      BY <1>1, <3>1 DEF ContextInv, LinesOK, AnswerOK, NoFalseAlarm
    <3> QED BY <2>5, <2>6, <3>2, <3>3, <3>4, <3>5, <3>6 DEF ContextInv
  <2>8. CASE at = s
    <3>1. Whole(w)
      <4>1. Len(w) = s - r
        BY <1>4, <1>5, <2>3, <2>8
      <4> QED BY <1>3, <1>4, <2>3, <4>1 DEF Whole
    <3>2. CutWindow(w)
      BY <1>3, <2>2, <2>8
    <3>3. ASSUME Unchanged, Len(bytes) \in Nat
          PROVE  Last(Block(w)) = bytes[s] /\ (ref.number = NumberOf(bytes, s) => Cardinality(Kept(w)) <= ref.number)
      <4>1. ref.start <= Len(bytes)
        BY <1>3, <1>5, <1>8, <2>8
      <4> QED BY <1>2, <1>3, <1>4, <2>3, <3>1, <3>3, <4>1, WindowOfFile
    <3>4. CASE /\ Last(Block(w)) # Newline \/ ref.number < Cardinality(Kept(w))
               /\ error' = "FileChanged" /\ phase' = "Done"
               /\ UNCHANGED <<before, pos, raw, taken, result>>
      <4>1. rewrites > 0 \/ rotated
        <5>1. rewrites # 0
          <6> SUFFICES ASSUME rewrites = 0 PROVE FALSE
            OBVIOUS
          <6>1. Unchanged /\ Len(bytes) \in Nat
            BY MatchInFile
          <6>2. bytes[s] = Newline /\ ref.number = NumberOf(bytes, s)
            BY <1>3 DEF ContextInv, FileKept, KeptFile
          <6>3. Last(Block(w)) = Newline /\ Cardinality(Kept(w)) <= ref.number
            BY <3>3, <6>1, <6>2
          <6>4. ref.number \in Nat
            BY <1>2 DEF RefTypes
          <6>5. Cardinality(Kept(w)) \in Nat
            <7>1. PICK l \in Nat : l = Len(Block(w))
              <8>1. Len(Block(w)) \in Nat
                BY <1>2, <3>1, BlockIs
              <8> QED BY ONLY <8>1
            <7> QED BY <1>2, <3>1, <7>1, EndsAre
          <6> QED BY <3>4, <6>3, <6>4, <6>5
        <5>2. rewrites \in Nat
          BY <1>2, BoundAssumption
        <5> QED BY <5>1, <5>2
      <4>2. error' \in Errors
        BY <3>4 DEF Errors
      <4> QED BY <1>1, <2>4, <3>4, <4>1, <4>2, RefusedInv
    <3>5. CASE /\ Last(Block(w)) = Newline /\ Cardinality(Kept(w)) <= ref.number
               /\ BeforeOf(before', w) /\ phase' = "Forward"
               /\ UNCHANGED <<pos, raw, taken, error, result>>
      <4>1. Types'
        BY <1>1, <1>2, <2>4, <3>5 DEF ContextInv, Types
      <4>2. OpenedOK'
        BY <1>1, <3>5 DEF ContextInv, OpenedOK, Opened, Unchanged
      <4>3. WindowOK'
        BY <2>4, <1>1, <3>5, SameWindowStart DEF WindowOK
      <4>4. NewlineBefore'
        <5>1. Unchanged => bytes[s] = Newline
          BY <1>2, <3>3, <3>5
        <5> QED BY <1>1, <1>3, <5>1 DEF NewlineBefore, Unchanged
      <4>5. NotYet'
        BY <3>5 DEF NotYet
      <4>6. ForwardOK'
        <5>1. s \in 0..Len(bytes)
          BY <1>2, <1>5, <1>8, <2>8
        <5>2. request.after \in Nat /\ request.maxForward \in Nat
          BY <1>2, RequestIs
        <5>3. Len(raw) = 0 /\ pos - Len(raw) = s /\ pos - ref.start = 0 /\ Len(taken) = 0
          BY <1>3, <1>6
        <5>4. PieceAt(raw, bytes, pos - Len(raw))
          BY <1>2, <1>6, <5>1, <5>3, PieceOfItself
        <5>5. NoNewline(raw, 0, Len(raw))
          BY <5>3 DEF NoNewline
        <5>6. KeywordSoFar(request, raw, ref.match - ref.start)
          <6>1. ref.match - ref.start \in Nat
            BY MatchInFile DEF Relative
          <6> QED BY <5>3, <6>1 DEF KeywordSoFar
        <5>7. pos \in Nat /\ ref.start <= pos /\ pos - ref.start <= request.maxForward
              /\ Len(raw) <= pos - ref.start /\ Len(raw) = pos - ref.start /\ Len(taken) <= request.after
          <6>1. pos = s /\ pos \in Nat /\ s <= s /\ 0 <= request.maxForward /\ 0 <= request.after /\ 0 <= 0
            BY <1>6, <5>2
          <6> QED BY ONLY <1>3, <5>3, <6>1
        <5> QED BY <1>1, <1>6, <3>5, <5>4, <5>5, <5>6, <5>7 DEF ForwardOK
      <4>7. LinesOK'
        <5>1. PICK l \in Nat : l = Len(Block(w))
          <6>1. Len(Block(w)) \in Nat
            BY <1>2, <3>1, BlockIs
          <6> QED BY ONLY <6>1
        <5>2. PICK c \in Nat : c = Cardinality(Kept(w)) /\ c <= request.before
          <6>1. Cardinality(Kept(w)) \in Nat /\ Cardinality(Kept(w)) <= request.before
            BY <1>2, <3>1, <5>1, EndsAre
          <6> QED BY ONLY <6>1
        <5>3. PICK b : b = before'.lines
          OBVIOUS
        <5>4. /\ b \in Seq(ContextLines) /\ Len(b) = c
              /\ \A k \in 1..c : LineIs(b[k], ref.number - c + k - 1, KeptLine(w, k), FALSE, TRUE)
          BY <3>5, <5>2, <5>3 DEF BeforeOf
        <5>5. Short(b, request)
          BY <5>4 DEF Short, LineIs, HasFields
        <5>6. Len(b) <= request.before
          BY <5>2, <5>4
        <5> QED BY <1>1, <1>6, <3>5, <5>3, <5>4, <5>5, <5>6 DEF ContextInv, LinesOK
      <4>8. AnswerOK' /\ NoFalseAlarm'
        BY <1>2, <3>5, NoneAssumption DEF AnswerOK, NoFalseAlarm, Errors
      <4> QED BY <2>5, <2>6, <4>1, <4>2, <4>3, <4>4, <4>5, <4>6, <4>7, <4>8 DEF ContextInv
    <3> QED BY <1>2, <3>1, <3>2, <3>4, <3>5, CutWindowIs
  <2> QED BY <1>3, <2>7, <2>8
<1> QED
  <2>1. Len(bytes) \in Nat
    BY <1>2
  <2> QED BY <1>5, <1>7, <1>8, <2>1

\* The lines of an answer show the keyword and are short, as those they are taken from.
LEMMA CutShown ==
  ASSUME NEW b \in Seq(ContextLines), NEW all \in Seq(ContextLines), all # <<>>,
         NEW kept \in 0..Len(b), NEW more \in 0..(Len(all) - 1), NEW x, Delivered(x, b, all, kept, more),
         request \in Requests, Short(b, request), Short(all, request),
         all[1].isMatch, Occurrences(all[1].content, request) # {}
  PROVE  KeywordShown(x.lines, request)
<1>1. PICK n \in Nat, m \in Nat \ {0} : n = Len(b) /\ m = Len(all)
  <2>1. Len(b) \in Nat /\ Len(all) \in Nat \ {0}
    OBVIOUS
  <2> QED BY ONLY <2>1
<1>2. kept \in 0..n /\ more \in 0..(m - 1)
  BY <1>1
<1>3. PICK L \in Seq(ContextLines) : L = x.lines
  BY DEF Delivered
<1>4. /\ Len(L) = kept + 1 + more
      /\ \A i \in 1..kept : L[i] = b[(n - kept) + i]
      /\ \A i \in 1..(more + 1) : L[kept + i] = all[i]
      /\ SizeOf(L) <= request.maxContent
  BY <1>1, <1>3 DEF Delivered, Cut
<1>5. DOMAIN L = 1..(kept + 1 + more) /\ ToSet(L) = {L[i] : i \in 1..(kept + 1 + more)}
  BY <1>3, <1>4 DEF ToSet
<1>6. L[kept + 1] = all[1] /\ kept + 1 \in 1..(kept + 1 + more)
  <2>1. 1 \in 1..(more + 1)
    BY <1>2
  <2> QED BY <1>2, <1>4, <2>1
<1>7. ASSUME NEW i \in 1..(kept + 1 + more) PROVE Len(L[i].content) <= request.maxLine
  <2>1. CASE i <= kept
    <3>1. (n - kept) + i \in 1..n /\ i \in 1..kept
      BY <1>2, <2>1
    <3>2. L[i] = b[(n - kept) + i]
      BY <1>4, <3>1
    <3> QED BY <1>1, <3>1, <3>2 DEF Short
  <2>2. CASE ~(i <= kept)
    <3>1. i - kept \in 1..(more + 1) /\ kept + (i - kept) = i /\ i - kept \in 1..m
      BY <1>2, <2>2
    <3>2. L[kept + (i - kept)] = all[i - kept]
      BY <1>4, <3>1
    <3>3. L[i] = all[i - kept]
      BY <3>1, <3>2
    <3> QED BY <1>1, <3>1, <3>3 DEF Short
  <2> QED BY <2>1, <2>2
<1>8. \E l \in ToSet(L) : l.isMatch /\ Occurrences(l.content, request) # {}
  BY <1>5, <1>6
<1>9. \A l \in ToSet(L) : Len(l.content) <= request.maxLine
  BY <1>5, <1>7
<1> QED BY <1>3, <1>4, <1>8, <1>9 DEF KeywordShown

\* A read that ends with an answer.
LEMMA FinishedInv ==
  ASSUME ContextInv, phase = "Forward",
         UNCHANGED <<bytes, rotated, appends, rewrites, request, ref, opened, window>>,
         NEW all \in Seq(ContextLines), all # <<>>, taken' = all, Short(all, request),
         Len(all) <= request.after + 1, all[1].isMatch, Occurrences(all[1].content, request) # {},
         raw' \in Seq(Bytes), pos' \in Nat, ref.start <= pos', pos' - ref.start <= request.maxForward,
         Unchanged => KeyAt(request, bytes, ref.match), NEW spent, Finish(all, spent)
  PROVE  ContextInv'
<1>1. /\ request \in Requests /\ RefTypes /\ error = None
      /\ before.lines \in Seq(ContextLines) /\ Short(before.lines, request)
      /\ Len(before.lines) <= request.before
  BY DEF ContextInv, Types, LinesOK
<1>2. UNCHANGED <<before, error>> /\ phase' = "Done"
  BY DEF Finish
<1>3. PICK b \in Seq(ContextLines) : b = before.lines /\ Short(b, request)
  BY <1>1
<1>4. KeywordShown(result'.lines, request)
  <2>1. Len(all[1].content) <= request.maxLine
    <3>1. 1 \in 1..Len(all)
      OBVIOUS
    <3> QED BY <3>1 DEF Short
  <2>2. PICK kept \in 0..Len(b), more \in 0..(Len(all) - 1) : Delivered(result', b, all, kept, more)
    BY <1>1, <1>3, <2>1, FinishIs
  <2>3. /\ b \in Seq(ContextLines) /\ all \in Seq(ContextLines) /\ all # <<>> /\ kept \in 0..Len(b)
        /\ more \in 0..(Len(all) - 1) /\ Delivered(result', b, all, kept, more)
        /\ request \in Requests /\ Short(b, request) /\ Short(all, request)
        /\ all[1].isMatch /\ Occurrences(all[1].content, request) # {}
    BY <1>1, <1>3, <2>2
  <2> QED BY ONLY <2>3, CutShown
<1>5. Types'
  BY <1>1, <1>2 DEF ContextInv, Types
<1>6. RefTypes'
  BY <1>1, SameRefTypes
<1>7. FileKept'
  BY DEF ContextInv, FileKept
<1>8. OpenedOK'
  BY <1>2 DEF ContextInv, OpenedOK, Opened, Unchanged
<1>9. WindowOK'
  BY <1>2, SameWindowStart DEF ContextInv, WindowOK
<1>10. NewlineBefore'
  BY <1>2 DEF ContextInv, NewlineBefore, Opened, Unchanged
<1>11. NotYet'
  BY <1>2 DEF NotYet
<1>12. ForwardOK'
  BY <1>2 DEF ForwardOK
<1>13. LinesOK'
  BY <1>1, <1>2 DEF LinesOK
<1>14. AnswerOK'
  BY <1>4 DEF AnswerOK, Unchanged
<1>15. NoFalseAlarm'
  BY <1>1, <1>2, NoneAssumption DEF NoFalseAlarm, Errors
<1> QED BY <1>5, <1>6, <1>7, <1>8, <1>9, <1>10, <1>11, <1>12, <1>13, <1>14, <1>15 DEF ContextInv

-----------------------------------------------------------------------------

LEMMA ReadByteInv == ContextInv /\ ReadByte => ContextInv'
<1> SUFFICES ASSUME ContextInv, ReadByte PROVE ContextInv'
  OBVIOUS
<1>1. /\ UNCHANGED <<bytes, rotated, appends, rewrites, request, ref, opened, window>>
      /\ phase = "Forward" /\ Budget > 0 /\ pos < Len(bytes) /\ bytes[pos + 1] # Newline
  BY DEF ReadByte, Forward, file
<1>2. /\ request \in Requests /\ RefTypes /\ bytes \in Seq(Bytes) /\ raw \in Seq(Bytes)
      /\ error = None /\ rewrites \in 0..MaxRewrites
  BY <1>1 DEF ContextInv, Types
<1>3. PICK s \in Nat, p \in Nat, n \in Nat, r \in Nat, k \in Nat \ {0} :
        /\ s = ref.start /\ p = pos /\ n = Len(raw) /\ r = Relative /\ k = Len(request.keyword)
        /\ s <= p /\ n <= p - s /\ (taken = <<>> => n = p - s) /\ ref.match = s + r
  <2>1. ref.start \in Nat /\ pos \in Nat /\ Len(raw) \in Nat /\ Relative \in Nat
        /\ Len(request.keyword) \in Nat \ {0}
    BY <1>1, <1>2, MatchInFile DEF ContextInv, ForwardOK, Keyword
  <2>2. ref.start <= pos /\ Len(raw) <= pos - ref.start /\ (taken = <<>> => Len(raw) = pos - ref.start)
    BY <1>1 DEF ContextInv, ForwardOK
  <2>3. ref.match = ref.start + Relative
    BY MatchInFile DEF Relative
  <2> QED BY ONLY <2>1, <2>2, <2>3
<1>4. PICK b : b = bytes[p + 1]
  OBVIOUS
<1>5. b \in Bytes /\ b # Newline /\ p + 1 <= Len(bytes)
  <2>1. p + 1 \in 1..Len(bytes) /\ p + 1 <= Len(bytes)
    <3>1. Len(bytes) \in Nat /\ p < Len(bytes)
      BY <1>1, <1>2, <1>3
    <3> QED BY <3>1
  <2> QED BY <1>1, <1>2, <1>3, <1>4, <2>1
<1>6. CASE Mismatch(b)
  <2>1. /\ UNCHANGED <<before, pos, raw, taken, result>> /\ phase' = "Done" /\ error' = "FileChanged"
    BY <1>3, <1>4, <1>6 DEF ReadByte, Refuse
  <2>2. rewrites # 0
    <3> SUFFICES ASSUME rewrites = 0 PROVE FALSE
      OBVIOUS
    <3>1. PICK j : j = n - r + 1
      OBVIOUS
    <3>2. taken = <<>> /\ j \in 1..k /\ Fold(b, request.sensitive) # Fold(request.keyword[j], request.sensitive)
      <4>1. DOMAIN request.keyword = 1..k
        BY <1>2, <1>3, RequestIs DEF Keyword
      <4> QED BY <1>3, <1>6, <3>1, <4>1 DEF Mismatch, InMatchLine
    <3>3. ref.match + j = p + 1
      <4>1. n = p - s /\ ref.match = s + r
        BY <1>3, <3>2
      <4> QED BY ONLY <3>1, <4>1, s \in Nat, p \in Nat, n \in Nat, r \in Nat
    <3>4. KeyAt(request, bytes, ref.match)
      BY DEF ContextInv, FileKept, KeptFile
    <3>5. Fold(bytes[ref.match + j], request.sensitive) = Fold(request.keyword[j], request.sensitive)
      BY <1>3, <3>2, <3>4 DEF KeyAt
    <3> QED BY <1>4, <3>2, <3>3, <3>5
  <2>3. rewrites > 0 \/ rotated
    BY <1>2, <2>2, BoundAssumption
  <2>4. error' \in Errors
    BY <2>1 DEF Errors
  <2>5. window' \in Seq(Bytes) /\ ReadFrom + Len(window') <= ref.start
        /\ opened'.bytes \in Seq(Bytes) /\ opened'.rewrites \in 0..rewrites
    BY <1>1 DEF ContextInv, Types, WindowOK
  <2> QED BY <1>1, <2>1, <2>3, <2>4, <2>5, RefusedInv
<1>7. CASE ~Mismatch(b)
  <2>1. PICK u : u = Append(raw, b)
    OBVIOUS
  <2>2. raw' = u /\ pos' = p + 1 /\ UNCHANGED <<phase, before, taken, error, result>>
    BY <1>3, <1>4, <1>7, <2>1 DEF ReadByte
  <2>3. u \in Seq(Bytes) /\ Len(u) = n + 1 /\ u[n + 1] = b /\ \A i \in 1..n : u[i] = raw[i]
    BY <1>2, <1>3, <1>5, <2>1
  <2>4. Types'
    BY <1>1, <1>2, <2>2, <2>3 DEF ContextInv, Types
  <2>5. RefTypes'
    BY <1>1, <1>2, SameRefTypes
  <2>6. FileKept'
    BY <1>1 DEF ContextInv, FileKept
  <2>7. OpenedOK' /\ NewlineBefore' /\ NotYet'
    BY <1>1, <2>2 DEF ContextInv, OpenedOK, NewlineBefore, NotYet, Opened, Unchanged
  <2>8. WindowOK'
    BY <1>1, <2>2, SameWindowStart DEF ContextInv, WindowOK, Unchanged
  <2>9. LinesOK' /\ AnswerOK' /\ NoFalseAlarm'
    BY <1>1, <2>2 DEF ContextInv, LinesOK, AnswerOK, NoFalseAlarm
  <2>10. NoNewline(u, 0, n + 1)
    <3>1. ASSUME NEW i \in (0 + 1)..(n + 1) PROVE u[i] # Newline
      <4>1. CASE i = n + 1
        BY <1>5, <2>3, <4>1
      <4>2. CASE i # n + 1
        <5>1. i \in 1..n /\ i \in (0 + 1)..n
          BY <4>2
        <5>2. NoNewline(raw, 0, n)
          BY <1>1, <1>3 DEF ContextInv, ForwardOK
        <5> QED BY <2>3, <5>1, <5>2 DEF NoNewline
      <4> QED BY <4>1, <4>2
    <3> QED BY <3>1 DEF NoNewline
  <2>11. ASSUME Unchanged PROVE PieceAt(u, bytes, (p + 1) - (n + 1))
    <3>1. PieceAt(raw, bytes, p - n)
      BY <1>1, <1>3, <2>11 DEF ContextInv, ForwardOK
    <3>2. PICK a \in Nat : a = p - n /\ a + n + 1 = p + 1 /\ a = (p + 1) - (n + 1)
      <4>1. s <= p /\ n <= p - s
        BY <1>3
      <4>2. p - n \in Nat /\ (p - n) + n + 1 = p + 1 /\ p - n = (p + 1) - (n + 1)
        BY ONLY <4>1, s \in Nat, p \in Nat, n \in Nat
      <4> QED BY ONLY <4>2
    <3>3. a + Len(raw) + 1 <= Len(bytes) /\ b = bytes[a + Len(raw) + 1] /\ PieceAt(raw, bytes, a)
      BY <1>3, <1>4, <1>5, <3>1, <3>2
    <3>4. PieceAt(u, bytes, a)
      BY <1>2, <2>1, <3>3, AppendedPiece
    <3> QED BY <3>2, <3>4
  <2>12. ASSUME taken = <<>> PROVE KeywordSoFar(request, u, r)
    <3> SUFFICES ASSUME NEW j \in 1..k, r + j <= n + 1
                 PROVE  Fold(u[r + j], request.sensitive) = Fold(request.keyword[j], request.sensitive)
      BY <1>3, <2>3 DEF KeywordSoFar
    <3>1. CASE r + j = n + 1
      <4>1. j = n - r + 1 /\ u[r + j] = b
        BY <2>3, <3>1
      <4>2. DOMAIN request.keyword = 1..k
        BY <1>2, <1>3, RequestIs DEF Keyword
      <4>3. ~(Fold(b, request.sensitive) # Fold(request.keyword[n - r + 1], request.sensitive))
        BY <1>3, <1>7, <2>12, <4>1, <4>2 DEF Mismatch, InMatchLine
      <4> QED BY <4>1, <4>3
    <3>2. CASE r + j # n + 1
      <4>1. r + j \in 1..n /\ r + j <= Len(raw)
        BY <1>3, <3>2
      <4>2. KeywordSoFar(request, raw, r)
        BY <1>1, <1>3, <2>12 DEF ContextInv, ForwardOK, Relative
      <4> QED BY <1>3, <2>3, <4>1, <4>2 DEF KeywordSoFar
    <3> QED BY <3>1, <3>2
  <2>13. ForwardOK'
    <3>1. (p + 1) - s <= request.maxForward
      <4>1. request.maxForward \in Nat /\ request.maxForward - (p - s) > 0
        BY <1>1, <1>2, <1>3, RequestIs DEF Budget
      <4> QED BY <4>1
    <3>2. p + 1 \in Nat /\ s <= p + 1 /\ n + 1 <= (p + 1) - s /\ (taken = <<>> => n + 1 = (p + 1) - s)
      BY <1>3
    <3>3. Len(taken) <= request.after /\ (taken # <<>> /\ Unchanged => KeyAt(request, bytes, ref.match))
      BY <1>1 DEF ContextInv, ForwardOK
    <3>4. r = ref.match - ref.start
      BY <1>3 DEF Relative
    <3> QED BY <1>1, <1>3, <2>2, <2>3, <2>10, <2>11, <2>12, <3>1, <3>2, <3>3, <3>4 DEF ForwardOK, Unchanged
  <2> QED BY <2>4, <2>5, <2>6, <2>7, <2>8, <2>9, <2>13 DEF ContextInv
<1> QED BY <1>6, <1>7

\* One more of the lines that were read forward.
LEMMA TakenIs ==
  ASSUME ContextInv, phase = "Forward", NEW ended \in BOOLEAN, ~(InMatchLine /\ ~KeywordSeen)
  PROVE  \E l \in ContextLines :
           /\ LineIs(l, ref.number + Len(taken), raw, InMatchLine, ended)
           /\ l = ForwardLine(ref.number + Len(taken), raw, InMatchLine, ended)
           /\ taken = <<>> => l.isMatch /\ Occurrences(l.content, request) # {}
           /\ Unchanged => KeyAt(request, bytes, ref.match)
<1>1. /\ request \in Requests /\ RefTypes /\ bytes \in Seq(Bytes) /\ raw \in Seq(Bytes)
      /\ taken \in Seq(ContextLines)
  BY DEF ContextInv, Types, LinesOK
<1>2. PICK r \in Nat, n \in Nat, k \in Nat :
        r = Relative /\ n = Len(raw) /\ k = Len(Keyword) /\ k = Len(request.keyword)
        /\ (taken = <<>> => r + k <= n)
  <2>1. Relative \in Nat /\ Len(raw) \in Nat /\ Len(Keyword) \in Nat /\ Len(Keyword) = Len(request.keyword)
    BY <1>1, MatchInFile DEF Keyword
  <2>2. taken = <<>> => Relative + Len(Keyword) <= Len(raw)
    BY <2>1 DEF InMatchLine, KeywordSeen
  <2> QED BY ONLY <2>1, <2>2
<1>3. PICK number \in Int : number = ref.number + Len(taken)
  <2>1. ref.number \in Nat /\ Len(taken) \in Nat
    BY <1>1 DEF RefTypes
  <2> QED BY ONLY <2>1
<1>4. PICK m \in BOOLEAN : m = InMatchLine /\ (m <=> taken = <<>>)
  <2>1. CASE taken = <<>>
    BY <2>1, Zenon DEF InMatchLine
  <2>2. CASE taken # <<>>
    BY <2>2, Zenon DEF InMatchLine
  <2> QED BY <2>1, <2>2
<1>5. PICK l : l = ForwardLine(number, raw, m, ended)
  OBVIOUS
<1>6. m => r + Len(Keyword) <= Len(raw)
  BY <1>2, <1>4
<1>7. /\ LineIs(l, number, raw, m, ended)
      /\ m /\ KeywordAt(raw, r) => Occurrences(l.content, request) # {}
  BY ONLY <1>1, <1>2, <1>5, <1>6, ForwardLineIs
<1>8. ASSUME taken = <<>> PROVE KeywordAt(raw, r)
  <2>1. KeywordSoFar(request, raw, r)
    BY <1>2, <1>8 DEF ContextInv, ForwardOK, Relative
  <2>2. ASSUME NEW j \in 1..k
        PROVE  Fold(raw[r + j], request.sensitive) = Fold(request.keyword[j], request.sensitive)
    <3>1. r + j <= Len(raw)
      BY <1>2, <1>8
    <3> QED BY <1>2, <2>1, <3>1 DEF KeywordSoFar
  <2>3. KeyAt(request, raw, r)
    BY <1>2, <2>2 DEF KeyAt
  <2> QED BY <2>3, KeyAtIs
<1>9. taken = <<>> => l.isMatch /\ Occurrences(l.content, request) # {}
  BY <1>4, <1>7, <1>8 DEF LineIs, HasFields
<1>10. ASSUME Unchanged PROVE KeyAt(request, bytes, ref.match)
  <2>1. CASE taken # <<>>
    BY <1>10, <2>1 DEF ContextInv, ForwardOK
  <2>2. CASE taken = <<>>
    <3>1. PieceAt(raw, bytes, pos - Len(raw)) /\ Len(raw) = pos - ref.start /\ pos \in Nat
      BY <1>10, <2>2 DEF ContextInv, ForwardOK
    <3>2. PICK s \in Nat : s = ref.start /\ ref.match = s + r
      <4>1. ref.start \in Nat /\ ref.match \in Nat /\ Relative = ref.match - ref.start
        BY MatchInFile DEF Relative
      <4> QED BY <1>2, <4>1
    <3>3. pos - Len(raw) = s
      BY <1>2, <3>1, <3>2
    <3>4. ASSUME NEW j \in 1..k PROVE bytes[(s + r) + j] = raw[r + j]
      <4>1. r + j \in 1..n /\ s + (r + j) = (s + r) + j
        BY <1>2, <2>2
      <4> QED BY <1>2, <3>1, <3>3, <4>1 DEF PieceAt
    <3>5. KeywordAt(bytes, s + r)
      BY <1>2, <1>8, <2>2, <3>4 DEF KeywordAt
    <3> QED BY <3>2, <3>5, KeyAtIs
  <2> QED BY <2>1, <2>2
<1>11. l \in ContextLines
  BY <1>7 DEF LineIs, HasFields
<1> QED BY <1>3, <1>4, <1>5, <1>7, <1>9, <1>10, <1>11

LEMMA CompleteInv ==
  ASSUME ContextInv, Forward, NEW ended \in BOOLEAN, Complete(ended),
         ended => Budget > 0 /\ pos < Len(bytes) /\ bytes[pos + 1] = Newline,
         ~ended => pos >= Len(bytes)
  PROVE  ContextInv'
<1>1. /\ UNCHANGED <<bytes, rotated, appends, rewrites, request, ref, opened, window>>
      /\ phase = "Forward"
  BY DEF Forward, file
<1>2. /\ request \in Requests /\ RefTypes /\ bytes \in Seq(Bytes) /\ raw \in Seq(Bytes)
      /\ error = None /\ rewrites \in 0..MaxRewrites
      /\ taken \in Seq(ContextLines) /\ Short(taken, request)
      /\ (taken # <<>> => taken[1].isMatch /\ Occurrences(taken[1].content, request) # {})
  BY <1>1 DEF ContextInv, Types, LinesOK
<1>3. PICK s \in Nat, p \in Nat, z \in Nat : s = ref.start /\ p = pos /\ z = Len(bytes) /\ s <= p
  <2>1. ref.start \in Nat /\ pos \in Nat /\ Len(bytes) \in Nat /\ ref.start <= pos
    BY <1>1, MatchInFile DEF ContextInv, ForwardOK
  <2> QED BY ONLY <2>1
<1>4. request.after \in Nat /\ request.maxForward \in Nat
  BY <1>2, RequestIs
<1>5. CASE InMatchLine /\ ~KeywordSeen
  <2>1. /\ UNCHANGED <<before, pos, raw, taken, result>> /\ phase' = "Done" /\ error' = "FileChanged"
    BY <1>5 DEF Complete, Refuse
  <2>2. rewrites # 0
    <3> SUFFICES ASSUME rewrites = 0 PROVE FALSE
      OBVIOUS
    <3>1. PICK k \in Nat, h \in Nat, x \in Nat :
            k = Len(request.keyword) /\ h = ref.match /\ x = ref.size /\ h + k <= x /\ x <= z
      <4>1. Len(request.keyword) \in Nat /\ ref.match \in Nat /\ ref.size \in Nat
            /\ ref.match + Len(request.keyword) <= ref.size /\ ref.size <= Len(bytes)
        BY MatchInFile DEF Keyword
      <4> QED BY ONLY <1>3, <4>1
    <3>2. p < h + k
      <4>1. Len(raw) = p - s
        BY <1>1, <1>3, <1>5 DEF ContextInv, ForwardOK, InMatchLine
      <4>2. ~(Len(raw) >= (h - s) + k)
        BY <1>3, <1>5, <3>1 DEF KeywordSeen, Relative
      <4> QED BY ONLY <4>1, <4>2, p \in Nat, s \in Nat, h \in Nat, k \in Nat
    <3>3. CASE ended
      <4>1. p + 1 \in (s + 1)..(h + k)
        BY <1>3, <3>1, <3>2
      <4>2. NoNewline(bytes, s, h + k)
        BY <1>3, <3>1 DEF ContextInv, FileKept, KeptFile
      <4> QED BY <1>3, <3>3, <4>1, <4>2 DEF NoNewline
    <3>4. CASE ~ended
      <4>1. p >= z
        BY <1>3, <3>4
      <4> QED BY ONLY <3>1, <3>2, <4>1, p \in Nat, z \in Nat
    <3> QED BY <3>3, <3>4
  <2>3. rewrites > 0 \/ rotated
    BY <1>2, <2>2, BoundAssumption
  <2>4. error' \in Errors
    BY <2>1 DEF Errors
  <2>5. window' \in Seq(Bytes) /\ ReadFrom + Len(window') <= ref.start
        /\ opened'.bytes \in Seq(Bytes) /\ opened'.rewrites \in 0..rewrites
    BY <1>1 DEF ContextInv, Types, WindowOK
  <2> QED BY <1>1, <2>1, <2>3, <2>4, <2>5, RefusedInv
<1>6. CASE ~(InMatchLine /\ ~KeywordSeen)
  <2>1. PICK l \in ContextLines :
          /\ LineIs(l, ref.number + Len(taken), raw, InMatchLine, ended)
          /\ l = ForwardLine(ref.number + Len(taken), raw, InMatchLine, ended)
          /\ taken = <<>> => l.isMatch /\ Occurrences(l.content, request) # {}
          /\ Unchanged => KeyAt(request, bytes, ref.match)
    BY <1>1, <1>6, TakenIs
  <2>2. PICK all : all = Append(taken, l)
    OBVIOUS
  <2>3. /\ taken' = all /\ raw' = <<>> /\ pos' = IF ended THEN p + 1 ELSE p
        /\ IF Len(all) = request.after + 1 THEN Finish(all, FALSE)
           ELSE UNCHANGED <<phase, before, error, result>>
    BY <1>3, <1>6, <2>1, <2>2 DEF Complete
  <2>4. PICK C : C = ContextLines
    OBVIOUS
  <2>5. /\ all \in Seq(C) /\ all # <<>> /\ Len(all) = Len(taken) + 1 /\ all[Len(taken) + 1] = l
        /\ \A i \in 1..Len(taken) : all[i] = taken[i]
    <3>1. taken \in Seq(C) /\ l \in C
      BY <1>2, <2>1, <2>4
    <3> QED BY ONLY <2>2, <3>1
  <2>6. Len(taken) \in Nat /\ Len(taken) <= request.after /\ Len(all) <= request.after + 1
    <3>1. Len(taken) \in Nat /\ Len(taken) <= request.after
      BY <1>1, <1>2 DEF ContextInv, ForwardOK
    <3> QED BY <1>4, <2>5, <3>1
  <2>7. Short(all, request)
    <3>1. ASSUME NEW i \in 1..(Len(taken) + 1) PROVE Len(all[i].content) <= request.maxLine
      <4>1. CASE i = Len(taken) + 1
        BY <2>1, <2>5, <4>1 DEF LineIs, HasFields
      <4>2. CASE i # Len(taken) + 1
        <5>1. i \in 1..Len(taken)
          BY <2>6, <4>2
        <5> QED BY <1>2, <2>5, <5>1 DEF Short
      <4> QED BY <4>1, <4>2
    <3> QED BY <2>5, <3>1 DEF Short
  <2>8. all[1].isMatch /\ Occurrences(all[1].content, request) # {}
    <3>1. CASE taken = <<>>
      <4>1. all[1] = l
        BY <2>5, <3>1
      <4> QED BY <2>1, <3>1, <4>1
    <3>2. CASE taken # <<>>
      <4>1. 1 \in 1..Len(taken)
        BY <1>2, <2>6, <3>2
      <4> QED BY <1>2, <2>5, <3>2, <4>1
    <3> QED BY <3>1, <3>2
  <2>9. PICK q \in Nat : q = pos' /\ s <= q /\ q - s <= request.maxForward
                         /\ (Unchanged => q \in 0..z)
    <3>1. p - s <= request.maxForward
      BY <1>1, <1>3 DEF ContextInv, ForwardOK
    <3>2. ended => request.maxForward - (p - s) > 0 /\ p < z
      BY <1>3 DEF Budget
    <3>3. ASSUME Unchanged PROVE p <= z
      <4>1. PieceAt(raw, bytes, p - Len(raw)) /\ Len(raw) \in Nat
        BY <1>1, <1>2, <1>3, <3>3 DEF ContextInv, ForwardOK
      <4>2. (p - Len(raw)) + Len(raw) <= z
        BY <1>3, <4>1 DEF PieceAt
      <4> QED BY ONLY <4>1, <4>2, p \in Nat, z \in Nat
    <3>4. CASE ended
      <4>1. p + 1 \in Nat /\ s <= p + 1 /\ (p + 1) - s <= request.maxForward /\ p + 1 \in 0..z
        BY <1>3, <1>4, <3>2, <3>4
      <4> QED BY <2>3, <3>4, <4>1
    <3>5. CASE ~ended
      <4>1. pos' = p
        BY <2>3, <3>5
      <4>2. Unchanged => p \in 0..z
        BY <3>3
      <4> QED BY <1>3, <3>1, <4>1, <4>2
    <3> QED BY <3>4, <3>5
  <2>10. raw' \in Seq(Bytes) /\ Len(raw') = 0
    BY <2>3
  <2>11. CASE Len(all) = request.after + 1
    <3>1. Finish(all, FALSE)
      BY <2>3, <2>11
    <3>2. pos' \in Nat /\ ref.start <= pos' /\ pos' - ref.start <= request.maxForward
      BY <1>3, <2>9
    <3>3. all \in Seq(ContextLines) /\ taken' = all /\ (Unchanged => KeyAt(request, bytes, ref.match))
      BY <2>1, <2>3, <2>4, <2>5
    <3> QED BY <1>1, <2>5, <2>6, <2>7, <2>8, <2>10, <3>1, <3>2, <3>3, FinishedInv
  <2>12. CASE Len(all) # request.after + 1
    <3>1. UNCHANGED <<phase, before, error, result>>
      BY <2>3, <2>12
    <3>2. Types'
      BY <1>1, <1>2, <2>10, <3>1 DEF ContextInv, Types
    <3>3. RefTypes'
      BY <1>1, <1>2, SameRefTypes
    <3>4. FileKept'
      BY <1>1 DEF ContextInv, FileKept
    <3>5. OpenedOK' /\ NewlineBefore' /\ NotYet'
      BY <1>1, <3>1 DEF ContextInv, OpenedOK, NewlineBefore, NotYet, Opened, Unchanged
    <3>6. WindowOK'
      BY <1>1, <3>1, SameWindowStart DEF ContextInv, WindowOK, Unchanged
    <3>7. LinesOK'
      <4>1. all \in Seq(ContextLines)
        BY <2>4, <2>5
      <4> QED BY <1>1, <2>3, <2>6, <2>7, <2>8, <3>1, <4>1 DEF ContextInv, LinesOK
    <3>8. AnswerOK' /\ NoFalseAlarm'
      BY <1>1, <3>1 DEF ContextInv, AnswerOK, NoFalseAlarm
    <3>9. ForwardOK'
      <4>1. Len(all) <= request.after
        BY <1>4, <2>5, <2>6, <2>12
      <4>2. NoNewline(raw', 0, Len(raw'))
        BY <2>10 DEF NoNewline
      <4>3. Unchanged => PieceAt(raw', bytes, q - Len(raw'))
        <5>1. q - Len(raw') = q
          BY <2>10
        <5> QED BY <1>2, <1>3, <2>3, <2>9, <5>1, PieceOfItself
      <4>4. taken' # <<>> /\ Len(raw') <= q - s
        BY <2>3, <2>5, <2>9, <2>10
      <4> QED BY <1>1, <1>3, <2>1, <2>3, <2>9, <3>1, <4>1, <4>2, <4>3, <4>4 DEF ForwardOK, Unchanged
    <3> QED BY <3>2, <3>3, <3>4, <3>5, <3>6, <3>7, <3>8, <3>9 DEF ContextInv
  <2> QED BY <2>11, <2>12
<1> QED BY <1>5, <1>6

\* Finish with the lines that there are.
LEMMA EarlyFinishInv ==
  ASSUME ContextInv, Forward, taken # <<>>, UNCHANGED <<pos, raw, taken>>,
         NEW spent, Finish(taken, spent)
  PROVE  ContextInv'
<1>1. /\ UNCHANGED <<bytes, rotated, appends, rewrites, request, ref, opened, window>>
      /\ phase = "Forward"
  BY DEF Forward, file
<1>2. PICK all \in Seq(ContextLines) : all = taken
  BY DEF ContextInv, LinesOK
<1>3. /\ all # <<>> /\ taken' = all /\ Short(all, request) /\ Len(all) <= request.after + 1
      /\ all[1].isMatch /\ Occurrences(all[1].content, request) # {} /\ Finish(all, spent)
  BY <1>2 DEF ContextInv, LinesOK
<1>4. /\ raw' \in Seq(Bytes) /\ pos' \in Nat /\ ref.start <= pos'
      /\ pos' - ref.start <= request.maxForward
      /\ (Unchanged => KeyAt(request, bytes, ref.match))
  BY <1>1 DEF ContextInv, Types, ForwardOK
<1> QED BY <1>1, <1>3, <1>4, FinishedInv

LEMMA ReadNewlineInv == ContextInv /\ ReadNewline => ContextInv'
<1> SUFFICES ASSUME ContextInv, ReadNewline PROVE ContextInv'
  OBVIOUS
<1>1. Forward /\ Budget > 0 /\ pos < Len(bytes) /\ bytes[pos + 1] = Newline /\ Complete(TRUE)
  BY DEF ReadNewline
<1> QED BY <1>1, CompleteInv

LEMMA ReadEndInv == ContextInv /\ ReadEnd => ContextInv'
<1> SUFFICES ASSUME ContextInv, ReadEnd PROVE ContextInv'
  OBVIOUS
<1>1. Forward /\ pos >= Len(bytes)
  BY DEF ReadEnd
<1>2. /\ UNCHANGED <<bytes, rotated, appends, rewrites, request, ref, opened, window>>
      /\ phase = "Forward"
  BY <1>1 DEF Forward, file
<1>3. CASE raw # <<>>
  <2>1. Complete(FALSE)
    BY <1>3 DEF ReadEnd
  <2> QED BY <1>1, <2>1, CompleteInv
<1>4. CASE raw = <<>> /\ InMatchLine
  <2>1. /\ UNCHANGED <<before, pos, raw, taken, result>> /\ phase' = "Done" /\ error' = "FileChanged"
    BY <1>4 DEF ReadEnd, Refuse
  <2>2. rewrites # 0
    <3> SUFFICES ASSUME rewrites = 0 PROVE FALSE
      OBVIOUS
    <3>1. Len(raw) = pos - ref.start /\ pos \in Nat
      BY <1>2, <1>4 DEF ContextInv, ForwardOK, InMatchLine
    <3>2. ref.start \in Nat /\ Len(bytes) \in Nat /\ ref.size \in Nat /\ ref.start < ref.size
          /\ ref.size <= Len(bytes)
      BY MatchInFile
    <3>3. Len(raw) = 0
      BY <1>4
    <3> QED BY <1>1, <3>1, <3>2, <3>3
  <2>3. rewrites > 0 \/ rotated
    BY <2>2, BoundAssumption DEF ContextInv, Types
  <2>4. error' \in Errors
    BY <2>1 DEF Errors
  <2>5. window' \in Seq(Bytes) /\ ReadFrom + Len(window') <= ref.start
        /\ opened'.bytes \in Seq(Bytes) /\ opened'.rewrites \in 0..rewrites
    BY <1>2 DEF ContextInv, Types, WindowOK
  <2> QED BY <1>2, <2>1, <2>3, <2>4, <2>5, RefusedInv
<1>5. CASE raw = <<>> /\ ~InMatchLine
  <2>1. Finish(taken, FALSE) /\ UNCHANGED <<pos, raw, taken>> /\ taken # <<>>
    BY <1>5 DEF ReadEnd, InMatchLine
  <2> QED BY <1>1, <2>1, EarlyFinishInv
<1> QED BY <1>3, <1>4, <1>5

LEMMA BudgetSpentInv == ContextInv /\ BudgetSpent => ContextInv'
<1> SUFFICES ASSUME ContextInv, BudgetSpent PROVE ContextInv'
  OBVIOUS
<1>1. Forward
  BY DEF BudgetSpent
<1>2. UNCHANGED <<bytes, rotated, appends, rewrites, request, ref, opened, window>>
  BY <1>1 DEF Forward, file
<1>3. CASE InMatchLine
  <2>1. /\ UNCHANGED <<before, pos, raw, taken, result>> /\ phase' = "Done"
        /\ error' = IF KeywordSeen THEN "MatchLineScanLimit" ELSE "MatchOutsideScanBudget"
    BY <1>3 DEF BudgetSpent, Refuse
  <2>2. error' \in Errors /\ error' # "FileChanged"
    BY <2>1 DEF Errors
  <2>3. window' \in Seq(Bytes) /\ ReadFrom + Len(window') <= ref.start
        /\ opened'.bytes \in Seq(Bytes) /\ opened'.rewrites \in 0..rewrites
    BY <1>2 DEF ContextInv, Types, WindowOK
  <2> QED BY <1>2, <2>1, <2>2, <2>3, RefusedInv
<1>4. CASE ~InMatchLine
  <2>1. Finish(taken, TRUE) /\ UNCHANGED <<pos, raw, taken>> /\ taken # <<>>
    BY <1>4 DEF BudgetSpent, InMatchLine
  <2> QED BY <1>1, <2>1, EarlyFinishInv
<1> QED BY <1>3, <1>4

LEMMA StutterContextInv == ContextInv /\ UNCHANGED vars => ContextInv'
<1> SUFFICES ASSUME ContextInv, UNCHANGED vars PROVE ContextInv'
  OBVIOUS
<1>1. UNCHANGED <<bytes, rotated, appends, rewrites, request, ref, phase, opened, window, before,
                  pos, raw, taken, error, result>>
  BY DEF vars, file, reading
<1>2. Types' /\ FileKept' /\ OpenedOK' /\ NewlineBefore' /\ NotYet'
  BY <1>1 DEF ContextInv, Types, FileKept, OpenedOK, NewlineBefore, NotYet, Opened, Unchanged, NoLines
<1>3. RefTypes' /\ WindowOK'
  BY <1>1, SameRefTypes, SameWindowStart DEF ContextInv, WindowOK, Unchanged
<1>4. ForwardOK'
  BY <1>1 DEF ContextInv, ForwardOK, Unchanged
<1>5. LinesOK' /\ AnswerOK' /\ NoFalseAlarm'
  BY <1>1 DEF ContextInv, LinesOK, AnswerOK, NoFalseAlarm, Unchanged
<1> QED BY <1>2, <1>3, <1>4, <1>5 DEF ContextInv

LEMMA StepContextInv == ContextInv /\ [Next]_vars => ContextInv'
BY OpenInv, ReadBeforeInv, ReadByteInv, ReadNewlineInv, ReadEndInv, BudgetSpentInv, InterruptInv,
   AppendByteInv, RewriteInv, TruncateInv, RotateInv, StutterContextInv
   DEF Next

\* The invariant holds for every file, keyword, limit and bound.
LEMMA SpecContextInv == Spec => []ContextInv
BY InitContextInv, StepContextInv, PTL DEF Spec

-----------------------------------------------------------------------------

\* Whatever is written into the file, and however often, a read keeps to the
\* bytes before the match and after it that the limits allow, and to the number
\* of lines that was asked for (read_before_lines, read_line).
THEOREM ContextTypes == Spec => []TypeOK
<1>1. ContextInv => TypeOK
  <2> SUFFICES ASSUME ContextInv PROVE TypeOK
    OBVIOUS
  <2>1. Types /\ RefTypes /\ request \in Requests
    BY DEF ContextInv, Types
  <2>2. Len(window) <= request.maxBefore + 1
    <3>1. PICK s \in Nat, v \in Nat, r \in Nat, m \in Nat, n \in Nat :
            s = ref.start /\ v = WindowStart /\ r = ReadFrom /\ m = request.maxBefore /\ n = Len(window)
            /\ s - v <= m /\ v <= r + 1
      <4>1. ref.start \in Nat
        BY <2>1 DEF RefTypes
      <4>2. WindowStart \in Nat /\ ReadFrom \in Nat /\ ref.start - WindowStart <= request.maxBefore
            /\ WindowStart <= ReadFrom + 1
        BY <2>1, <4>1, WindowStartIs
      <4>3. request.maxBefore \in Nat /\ Len(window) \in Nat
        BY <2>1, RequestIs DEF Types
      <4> QED BY ONLY <4>1, <4>2, <4>3
    <3>2. r + n <= s
      BY <3>1 DEF ContextInv, WindowOK
    <3> QED BY <3>1, <3>2
  <2>3. Len(before.lines) <= request.before /\ Len(taken) <= request.after + 1
    BY DEF ContextInv, LinesOK
  <2>4. pos - ref.start \in 0..request.maxForward
    <3>1. pos \in Nat /\ ref.start \in Nat /\ ref.start <= pos /\ pos - ref.start <= request.maxForward
          /\ request.maxForward \in Nat
      BY <2>1, RequestIs DEF ContextInv, ForwardOK, RefTypes
    <3> QED BY <3>1
  <2> QED BY <2>1, <2>2, <2>3, <2>4 DEF Types, TypeOK
<1> QED BY <1>1, SpecContextInv, PTL

\* A log that is only appended to and stays at its path is never answered with
\* FILE_CHANGED: none of the checks of read_referenced_context, read_before_lines
\* and read_line mistakes bytes that were appended for another file.
THEOREM NeverCalledChanged == Spec => []NoFalseAlarm
<1>1. ContextInv => NoFalseAlarm
  BY DEF ContextInv
<1> QED BY <1>1, SpecContextInv, PTL

\* Every answer, of any file that was changed in any way, holds the line of the
\* match with the keyword still in it after it was cut and its invalid bytes were
\* replaced, no line longer than a line may be and not more content than all may
\* have (bounded_text, context_lines).
THEOREM KeywordInAnswer == Spec => []KeywordVisible
<1>1. ContextInv => KeywordVisible
  <2> SUFFICES ASSUME ContextInv, phase = "Done", error = None
               PROVE  KeywordShown(result.lines, request)
    BY DEF KeywordVisible, Answered, KeywordShown
  <2> QED BY DEF ContextInv, AnswerOK
<1> QED BY <1>1, SpecContextInv, PTL

\* An answer from a file that was not rewritten since it was opened is from one
\* that is not shorter than the searched one, has the keyword at the place of the
\* match and, if lines before it are asked for, a newline before its line.
THEOREM StaleFileRefused == Spec => []StaleRefused
<1>1. ContextInv => StaleRefused
  <2> SUFFICES ASSUME ContextInv, phase = "Done", error = None, rewrites = opened.rewrites
               PROVE  /\ Len(opened.bytes) >= ref.size
                      /\ ref.match - ref.start \in
                           Occurrences(SubSeq(opened.bytes, ref.start + 1, Len(opened.bytes)), request)
                      /\ request.before > 0 /\ ref.start > 0 => opened.bytes[ref.start] = Newline
    BY DEF StaleRefused, Answered
  <2>1. /\ request \in Requests /\ RefTypes /\ bytes \in Seq(Bytes) /\ opened.bytes \in Seq(Bytes)
        /\ Opened /\ Unchanged
    BY DEF ContextInv, Types, Opened, Unchanged
  <2>2. PICK t \in Seq(Bytes) : t = opened.bytes
    BY <2>1
  <2>3. PICK z \in Nat, s \in Nat, h \in Nat, k \in Nat \ {0} :
          z = Len(t) /\ s = ref.start /\ h = ref.match /\ k = Len(Keyword) /\ s <= h /\ h + k <= z
          /\ ref.size <= z
    <3>1. ref.start \in Nat /\ ref.match \in Nat /\ Len(Keyword) \in Nat \ {0} /\ ref.start <= ref.match
          /\ ref.match + Len(Keyword) <= ref.size /\ ref.size \in Nat /\ Len(t) \in Nat
      BY <2>1, <2>2, RequestIs DEF RefTypes
    <3>2. ref.size <= Len(t)
      BY <2>1, <2>2 DEF ContextInv, OpenedOK
    <3>3. ref.match + Len(Keyword) <= Len(t)
      BY <3>1, <3>2
    <3> QED BY ONLY <3>1, <3>2, <3>3
  <2>4. \A i \in 1..z : t[i] = bytes[i]
    <3>1. PieceAt(t, bytes, 0)
      BY <2>1, <2>2 DEF ContextInv, OpenedOK
    <3>2. \A i \in 1..z : 0 + i = i
      OBVIOUS
    <3> QED BY <2>3, <3>1, <3>2 DEF PieceAt
  <2>5. PICK u : u = SubSeq(t, s + 1, z)
    OBVIOUS
  <2>6. u \in Seq(Bytes) /\ Len(u) = z - s /\ PieceAt(u, t, s)
    <3>1. s <= z /\ z <= Len(t)
      BY <2>3
    <3> QED BY <2>5, <3>1, PieceIs
  <2>7. KeywordAt(u, h - s)
    <3>1. KeywordAt(bytes, h)
      <4>1. KeyAt(request, bytes, h)
        BY <2>1, <2>3 DEF ContextInv, AnswerOK
      <4> QED BY <4>1, KeyAtIs
    <3>2. ASSUME NEW j \in 1..k PROVE u[(h - s) + j] = bytes[h + j]
      <4>1. (h - s) + j \in 1..(z - s) /\ s + ((h - s) + j) = h + j /\ h + j \in 1..z
        BY <2>3
      <4>2. u[(h - s) + j] = t[s + ((h - s) + j)]
        BY <2>6, <4>1 DEF PieceAt
      <4> QED BY <2>4, <4>1, <4>2
    <3> QED BY <2>3, <3>1, <3>2 DEF KeywordAt
  <2>8. h - s \in Occurrences(u, request)
    <3>1. h - s \in Nat /\ (h - s) + Len(Keyword) <= Len(u)
      BY <2>3, <2>6
    <3> QED BY <2>1, <2>6, <2>7, <3>1, OccurrencesAre
  <2>9. request.before > 0 /\ ref.start > 0 => t[s] = Newline
    <3> SUFFICES ASSUME request.before > 0, ref.start > 0 PROVE t[s] = Newline
      OBVIOUS
    <3>1. bytes[s] = Newline
      BY <2>1, <2>3 DEF ContextInv, NewlineBefore
    <3>2. s \in 1..z
      BY <2>3
    <3> QED BY <2>4, <3>1, <3>2
  <2>10. Len(opened.bytes) >= ref.size
    <3>1. ref.size \in Nat
      BY <2>1 DEF RefTypes
    <3> QED BY <2>2, <2>3, <3>1
  <2> QED BY <2>2, <2>3, <2>5, <2>8, <2>9, <2>10
<1> QED BY <1>1, SpecContextInv, PTL

-----------------------------------------------------------------------------
(***************************************************************************)
(* The lines of the answer are those of the file.                          *)
(***************************************************************************)

\* The bytes of t from behind s up to e are one line, or its beginning if the end
\* of the file ended it, and l is that line.
RightAt(l, t, s, e) ==
  /\ s < Len(t) /\ e \in s..Len(t)
  /\ s > 0 => t[s] = Newline
  /\ NoNewline(t, s, e)
  /\ l.ended => e < Len(t) /\ t[e + 1] = Newline
  /\ l.number = NumberOf(t, s) /\ l.bytes = e - s
  /\ Shows(l, SubSeq(t, s + 1, e))

RightLine(l, t) == \E s, e \in Nat : RightAt(l, t, s, e)

\* A line that is right is so too in the file that has grown.
LEMMA RightInLonger ==
  ASSUME NEW t \in Seq(Bytes), NEW u \in Seq(Bytes), Len(t) <= Len(u),
         \A i \in 1..Len(t) : u[i] = t[i], NEW l, RightLine(l, t)
  PROVE  RightLine(l, u)
<1>1. PICK s \in Nat, e \in Nat : RightAt(l, t, s, e)
  BY DEF RightLine
<1>2. PICK n \in Nat, m \in Nat : n = Len(t) /\ m = Len(u) /\ n <= m
  <2>1. Len(t) \in Nat /\ Len(u) \in Nat
    OBVIOUS
  <2> QED BY ONLY <2>1, Len(t) <= Len(u)
<1>3. s < n /\ e \in s..n /\ s < m /\ e \in s..m /\ (l.ended => e < n /\ e < m /\ t[e + 1] = Newline)
  BY <1>1, <1>2 DEF RightAt
<1>4. \A i \in 1..n : u[i] = t[i]
  BY <1>2
<1>5. s > 0 => u[s] = Newline
  <2>1. s > 0 => s \in 1..n
    BY <1>3
  <2> QED BY <1>1, <1>4, <2>1 DEF RightAt
<1>6. NoNewline(u, s, e)
  <2>1. \A i \in (s + 1)..e : i \in 1..n
    BY <1>3
  <2> QED BY <1>1, <1>4, <2>1 DEF RightAt, NoNewline
<1>7. l.ended => u[e + 1] = Newline
  <2>1. l.ended => e + 1 \in 1..n
    BY <1>3
  <2> QED BY <1>3, <1>4, <2>1
<1>8. NumberOf(t, s) = NumberOf(u, s)
  <2>1. s \in 0..Len(t) /\ s <= Len(u)
    BY <1>2, <1>3
  <2>2. \A i \in 1..s : t[i] = u[i]
    <3>1. \A i \in 1..s : i \in 1..n
      BY <1>3
    <3> QED BY <1>4, <3>1
  <2> QED BY <2>1, <2>2, SameNumber
<1>9. SubSeq(t, s + 1, e) = SubSeq(u, s + 1, e)
  <2>1. PICK v, w : v = SubSeq(t, s + 1, e) /\ w = SubSeq(u, s + 1, e)
    OBVIOUS
  <2>2. s <= e /\ e <= Len(t) /\ e <= Len(u)
    BY <1>2, <1>3
  <2>3. v \in Seq(Bytes) /\ Len(v) = e - s /\ PieceAt(v, t, s)
    BY <2>1, <2>2, PieceIs
  <2>4. w \in Seq(Bytes) /\ Len(w) = e - s /\ PieceAt(w, u, s)
    BY <2>1, <2>2, PieceIs
  <2>5. ASSUME NEW i \in 1..(e - s) PROVE v[i] = w[i]
    <3>1. s + i \in 1..n
      BY <1>3
    <3>2. v[i] = t[s + i] /\ w[i] = u[s + i]
      BY <2>3, <2>4 DEF PieceAt
    <3> QED BY <1>4, <3>1, <3>2
  <2>6. v \in Seq(Bytes) /\ w \in Seq(Bytes) /\ Len(v) = Len(w) /\ \A i \in 1..Len(w) : v[i] = w[i]
    BY <2>3, <2>4, <2>5
  <2>7. v = w
    BY ONLY <2>6, SameSequence
  <2> QED BY <2>1, <2>7
<1>10. RightAt(l, u, s, e)
  BY <1>1, <1>2, <1>3, <1>5, <1>6, <1>7, <1>8, <1>9 DEF RightAt
<1> QED BY <1>10 DEF RightLine

\* A line that is right is shown as it is in the file.
LEMMA RightIsShown ==
  ASSUME bytes \in Seq(Bytes), NEW l \in ContextLines, RightLine(l, bytes)
  PROVE  ShownAsInFile(l)
<1>1. PICK s \in Nat, e \in Nat : RightAt(l, bytes, s, e)
  BY DEF RightLine
<1>2. PICK n \in Nat : n = Len(bytes)
  <2>1. Len(bytes) \in Nat
    OBVIOUS
  <2> QED BY ONLY <2>1
<1>3. s < n /\ e \in s..n /\ (l.ended => e < n /\ bytes[e + 1] = Newline) /\ NoNewline(bytes, s, e)
      /\ l.number = NumberOf(bytes, s) /\ l.bytes = e - s
  BY <1>1, <1>2 DEF RightAt
<1>4. s \in Starts(bytes)
  <2>1. s = 0 \/ s \in Newlines(bytes)
    <3>1. s # 0 => s \in 1..Len(bytes)
      BY <1>2, <1>3
    <3> QED BY <1>1, <3>1, NewlinesAre DEF RightAt
  <2> QED BY <1>2, <1>3, <2>1 DEF Starts
<1>5. PICK z : z = EndOf(bytes, s)
  OBVIOUS
<1>6. z \in s..n /\ NoNewline(bytes, s, z) /\ (z = n \/ bytes[z + 1] = Newline)
  <2>1. s \in 0..Len(bytes)
    BY <1>2, <1>3
  <2> QED BY <1>2, <1>5, <2>1, LineOfIs
<1>7. e <= z
  <2> SUFFICES ASSUME z < e PROVE FALSE
    BY <1>3, <1>6
  <2>1. z + 1 \in (s + 1)..e /\ z # n
    BY <1>3, <1>6
  <2> QED BY <1>3, <1>6, <2>1 DEF NoNewline
<1>8. l.ended => z = e
  <2> SUFFICES ASSUME l.ended, e < z PROVE FALSE
    BY <1>3, <1>6, <1>7
  <2>1. e + 1 \in (s + 1)..z
    BY <1>3, <1>6
  <2> QED BY <1>3, <1>6, <2>1 DEF NoNewline
<1>9. PICK p : p = SubSeq(bytes, s + 1, e)
  OBVIOUS
<1>10. p \in Seq(Bytes) /\ Len(p) = e - s /\ PieceAt(p, bytes, s)
  <2>1. s <= e /\ e <= Len(bytes)
    BY <1>2, <1>3
  <2> QED BY <1>9, <2>1, PieceIs
<1>11. p = IF l.ended THEN LineOf(bytes, s) ELSE SubSeq(LineOf(bytes, s), 1, l.bytes)
  <2>1. PICK v : v = LineOf(bytes, s)
    OBVIOUS
  <2>2. v \in Seq(Bytes) /\ Len(v) = z - s /\ PieceAt(v, bytes, s)
    <3>1. s \in 0..Len(bytes)
      BY <1>2, <1>3
    <3> QED BY <1>5, <2>1, <3>1, LineOfIs
  <2>3. CASE l.ended
    <3>1. z = e
      BY <1>8, <2>3
    <3>2. v = SubSeq(bytes, s + 1, z)
      BY <1>5, <2>1 DEF LineOf
    <3> QED BY <1>9, <2>1, <2>3, <3>1, <3>2
  <2>4. CASE ~l.ended
    <3>1. PICK x : x = SubSeq(v, 1, e - s)
      OBVIOUS
    <3>2. e - s \in 0..(z - s) /\ e - s \in Nat
      BY <1>3, <1>6, <1>7
    <3>3. x \in Seq(Bytes) /\ Len(x) = e - s /\ PieceAt(x, v, 0)
      <4>1. e - s \in 0..Len(v)
        BY <2>2, <3>2
      <4> QED BY <2>2, <3>1, <4>1, BeginningOf
    <3>4. ASSUME NEW i \in 1..(e - s) PROVE p[i] = x[i]
      <4>1. i \in 1..(z - s) /\ 0 + i = i
        <5>1. z \in Nat /\ e <= z /\ i \in 1..(e - s)
          BY <1>6, <1>7
        <5> QED BY ONLY <5>1, s \in Nat, e \in Nat
      <4>2. x[i] = v[i] /\ v[i] = bytes[s + i] /\ p[i] = bytes[s + i]
        BY <1>10, <2>2, <3>3, <4>1 DEF PieceAt
      <4> QED BY <4>2
    <3>5. p \in Seq(Bytes) /\ x \in Seq(Bytes) /\ Len(p) = Len(x) /\ \A i \in 1..Len(x) : p[i] = x[i]
      BY <1>10, <3>3, <3>4
    <3>6. p = x
      BY ONLY <3>5, SameSequence
    <3> QED BY <1>3, <2>1, <2>4, <3>1, <3>6
  <2> QED BY <2>3, <2>4
<1>12. PICK c : c = Convert(p)
  OBVIOUS
<1>13. c \in Seq(Chars) /\ l.content \in Seq(Chars)
  BY <1>10, <1>12, ConvertType DEF ContextLines
<1>14. PICK i \in Nat : PieceAt(l.content, c, i)
  BY <1>1, <1>9, <1>12 DEF RightAt, Shows
<1>15. i \in 0..(Len(c) - Len(l.content)) /\ l.content = SubSeq(c, i + 1, i + Len(l.content))
  <2>1. PICK k \in Nat, m \in Nat : k = Len(l.content) /\ m = Len(c) /\ i + k <= m
    <3>1. Len(l.content) \in Nat /\ Len(c) \in Nat /\ i + Len(l.content) <= Len(c)
      BY <1>13, <1>14 DEF PieceAt
    <3> QED BY ONLY <3>1
  <2>2. PICK x : x = SubSeq(c, i + 1, i + k)
    OBVIOUS
  <2>3. x \in Seq(Chars) /\ Len(x) = k /\ PieceAt(x, c, i)
    <3>1. i + k \in Nat /\ i <= i + k /\ i + k <= Len(c) /\ (i + k) - i = k
      BY <2>1
    <3>2. x \in Seq(Chars) /\ Len(x) = (i + k) - i /\ PieceAt(x, c, i)
      BY <1>13, <2>2, <3>1, PieceIs
    <3> QED BY <3>1, <3>2
  <2>4. \A j \in 1..k : x[j] = l.content[j]
    BY <1>14, <2>1, <2>3 DEF PieceAt
  <2>5. /\ l.content \in Seq(Chars) /\ x \in Seq(Chars) /\ Len(l.content) = Len(x)
        /\ \A j \in 1..Len(x) : l.content[j] = x[j]
    BY <1>13, <2>1, <2>3, <2>4
  <2>6. l.content = x
    BY ONLY <2>5, SameSequence
  <2>7. i \in 0..(m - k)
    BY <2>1
  <2> QED BY <2>1, <2>2, <2>6, <2>7
<1>16. ~l.truncated => l.content = Convert(WithoutReturn(p))
  BY <1>1, <1>9 DEF RightAt, Shows
<1>17. l.bytes = Len(p) /\ NumberOf(bytes, s) = l.number
  BY <1>3, <1>10
<1> QED BY <1>4, <1>11, <1>12, <1>15, <1>16, <1>17 DEF ShownAsInFile

LEMMA ShiftSame ==
  ASSUME NEW S \in SUBSET Nat, IsFiniteSet(S), NEW d \in Nat, NEW T,
         \A x : x \in T <=> \E i \in S : x = d + i
  PROVE  IsFiniteSet(T) /\ Cardinality(T) = Cardinality(S)
<1> DEFINE f == [i \in S |-> d + i]
<1>1. f \in [S -> T]
  OBVIOUS
<1>2. \A i, j \in S : f[i] = f[j] => i = j
  OBVIOUS
<1>3. \A x \in T : \E i \in S : f[i] = x
  OBVIOUS
<1>4. f \in Bijection(S, T)
  <2> HIDE DEF f
  <2> QED BY <1>1, <1>2, <1>3 DEF Bijection, Injection, Surjection, IsInjective
<1>5. ExistsBijection(S, T)
  <2> HIDE DEF f
  <2> QED BY <1>4 DEF ExistsBijection
<1> HIDE DEF f
<1> QED BY <1>5, FS_Bijection

\* The newlines behind a and up to b.
Between(t, a, b) == {i \in Newlines(t) : a < i /\ i <= b}

LEMMA NumberSplit ==
  ASSUME NEW t \in Seq(Bytes), NEW a \in Nat, NEW b \in Nat, a <= b
  PROVE  /\ IsFiniteSet(Between(t, a, b)) /\ Cardinality(Between(t, a, b)) \in Nat
         /\ NumberOf(t, b) = NumberOf(t, a) + Cardinality(Between(t, a, b))
<1>1. PICK A : A = {i \in Newlines(t) : i <= a}
  OBVIOUS
<1>2. PICK B : B = {i \in Newlines(t) : i <= b}
  OBVIOUS
<1>3. PICK M : M = Between(t, a, b)
  OBVIOUS
<1>4. \A i \in Newlines(t) : i \in Nat
  BY NewlinesAre
<1>5. IsFiniteSet(A) /\ IsFiniteSet(M)
  <2>1. A \subseteq Newlines(t) /\ M \subseteq Newlines(t)
    BY <1>1, <1>3 DEF Between
  <2> QED BY <2>1, NewlinesAre, FS_Subset
<1>6. B = A \cup M
  BY <1>1, <1>2, <1>3, <1>4 DEF Between
<1>7. A \cap M = {}
  BY <1>1, <1>3, <1>4 DEF Between
<1>8. Cardinality(B) = Cardinality(A) + Cardinality(M) - Cardinality(A \cap M)
  BY <1>5, <1>6, FS_Union
<1>9. Cardinality(A \cap M) = 0
  BY <1>7, FS_EmptySet
<1>10. Cardinality(A) \in Nat /\ Cardinality(M) \in Nat
  BY <1>5, FS_CardinalityType
<1> QED BY <1>1, <1>2, <1>3, <1>5, <1>8, <1>9, <1>10 DEF NumberOf

LEMMA SameLineNumber ==
  ASSUME NEW t \in Seq(Bytes), NEW a \in Nat, NEW b \in Nat, a <= b, NoNewline(t, a, b)
  PROVE  NumberOf(t, b) = NumberOf(t, a)
<1>1. Between(t, a, b) = {}
  <2> SUFFICES ASSUME NEW i \in Newlines(t), a < i, i <= b PROVE FALSE
    BY DEF Between
  <2>1. i \in Nat /\ t[i] = Newline
    BY NewlinesAre
  <2>2. i \in (a + 1)..b
    BY <2>1
  <2> QED BY <2>1, <2>2 DEF NoNewline
<1>2. Cardinality(Between(t, a, b)) = 0
  BY <1>1, FS_EmptySet
<1>3. NumberOf(t, a) \in Nat /\ NumberOf(t, b) = NumberOf(t, a) + Cardinality(Between(t, a, b))
  BY NumberSplit, NumberOfIs
<1> QED BY <1>2, <1>3

LEMMA NextNumber ==
  ASSUME NEW t \in Seq(Bytes), NEW a \in Nat, NEW b \in Nat, a <= b, NoNewline(t, a, b),
         b < Len(t), t[b + 1] = Newline
  PROVE  NumberOf(t, b + 1) = NumberOf(t, a) + 1
<1>1. b + 1 \in 1..Len(t)
  <2>1. Len(t) \in Nat
    OBVIOUS
  <2> QED BY <2>1
<1>2. Between(t, b, b + 1) = {b + 1}
  <2>1. b + 1 \in Newlines(t)
    BY <1>1, NewlinesAre
  <2>2. \A i \in Newlines(t) : i \in Nat
    BY NewlinesAre
  <2> QED BY <2>1, <2>2 DEF Between
<1>3. Cardinality(Between(t, b, b + 1)) = 1
  BY <1>2, FS_Singleton
<1>4. NumberOf(t, b + 1) = NumberOf(t, b) + Cardinality(Between(t, b, b + 1))
  BY NumberSplit
<1>5. NumberOf(t, b) = NumberOf(t, a)
  BY SameLineNumber
<1> QED BY <1>3, <1>4, <1>5

\* The number of lines of a text.
LEMMA StartsAre ==
  ASSUME NEW t \in Seq(Bytes), Len(t) > 0
  PROVE  /\ Cardinality(Starts(t)) \in Nat
         /\ t[Len(t)] = Newline => Cardinality(Starts(t)) = NumberOf(t, Len(t)) - 1
         /\ t[Len(t)] # Newline => Cardinality(Starts(t)) = NumberOf(t, Len(t))
         /\ \A s \in Starts(t) : s \in Nat /\ s < Len(t) /\ NumberOf(t, s) <= Cardinality(Starts(t))
<1>1. PICK n \in Nat \ {0} : n = Len(t)
  <2>1. Len(t) \in Nat \ {0}
    OBVIOUS
  <2> QED BY ONLY <2>1
<1>2. PICK N : N = {i \in Newlines(t) : i <= n - 1}
  OBVIOUS
<1>3. Newlines(t) \in SUBSET (1..n) /\ IsFiniteSet(Newlines(t))
      /\ (n \in Newlines(t) <=> t[n] = Newline)
  <2>1. n \in 1..Len(t)
    BY <1>1
  <2> QED BY <1>1, <2>1, NewlinesAre
<1>4. Starts(t) = N \cup {0} /\ 0 \notin N
  <2>1. \A i \in Newlines(t) : i \in Nat /\ i # 0 /\ (i < n <=> i <= n - 1)
    BY <1>3
  <2>2. 0 < n
    OBVIOUS
  <2> QED BY <1>1, <1>2, <2>1, <2>2 DEF Starts
<1>5. IsFiniteSet(N) /\ Cardinality(N) \in Nat
  <2>1. N \subseteq Newlines(t)
    BY <1>2
  <2> QED BY <1>3, <2>1, FS_Subset, FS_CardinalityType
<1>6. Cardinality(Starts(t)) = Cardinality(N) + 1
  BY <1>4, <1>5, FS_AddElement
<1>7. NumberOf(t, n - 1) = Cardinality(N) + 1
  BY <1>2, <1>5 DEF NumberOf
<1>8. n - 1 \in Nat /\ n - 1 <= n /\ (n - 1) + 1 = n
  OBVIOUS
<1>9. t[n] = Newline => NumberOf(t, n) = NumberOf(t, n - 1) + 1
  <2> SUFFICES ASSUME t[n] = Newline PROVE NumberOf(t, n) = NumberOf(t, n - 1) + 1
    OBVIOUS
  <2>1. PICK m \in Nat : m = n - 1 /\ m + 1 = n /\ m < n
    BY <1>8
  <2>2. NoNewline(t, m, m)
    BY DEF NoNewline
  <2>3. t[m + 1] = Newline /\ m < Len(t) /\ m <= m
    BY <1>1, <2>1
  <2>4. NumberOf(t, m + 1) = NumberOf(t, m) + 1
    BY <2>2, <2>3, NextNumber
  <2> QED BY <2>1, <2>4
<1>10. t[n] # Newline => NumberOf(t, n) = NumberOf(t, n - 1)
  <2> SUFFICES ASSUME t[n] # Newline PROVE NumberOf(t, n) = NumberOf(t, n - 1)
    OBVIOUS
  <2>1. NoNewline(t, n - 1, n)
    <3>1. \A i \in ((n - 1) + 1)..n : i = n
      BY <1>8
    <3> QED BY <3>1 DEF NoNewline
  <2> QED BY <1>8, <2>1, SameLineNumber
<1>11. ASSUME NEW s \in Starts(t)
       PROVE  s \in Nat /\ s < n /\ NumberOf(t, s) <= Cardinality(Starts(t))
  <2>1. s \in 0..(n - 1)
    <3>1. \A i \in N : i \in 0..(n - 1)
      BY <1>2, <1>3
    <3> QED BY <1>4, <3>1
  <2>2. s \in Nat /\ s <= n - 1 /\ s < n
    BY <2>1
  <2>3. /\ NumberOf(t, n - 1) = NumberOf(t, s) + Cardinality(Between(t, s, n - 1))
        /\ Cardinality(Between(t, s, n - 1)) \in Nat /\ NumberOf(t, s) \in Nat
    BY <1>8, <2>2, NumberSplit, NumberOfIs
  <2> QED BY <1>5, <1>6, <1>7, <2>2, <2>3
<1>12. NumberOf(t, n) \in Nat /\ NumberOf(t, n - 1) \in Nat
  BY <1>8, NumberOfIs
<1> QED BY <1>1, <1>5, <1>6, <1>7, <1>9, <1>10, <1>11, <1>12

\* How many lines of the window end at e or behind it.
LEMMA EndsFrom ==
  ASSUME request \in Requests, RefTypes, NEW w, Whole(w), NEW e \in Kept(w),
         NEW c \in Nat, c = Cardinality(Kept(w))
  PROVE  /\ CountTo(Kept(w), e) \in Nat /\ IsFiniteSet({i \in Ends(w) : i >= e})
         /\ Cardinality({i \in Ends(w) : i >= e}) = c - CountTo(Kept(w), e) + 1
<1>1. PICK l \in Nat : l = Len(Block(w))
  <2>1. Len(Block(w)) \in Nat
    BY BlockIs
  <2> QED BY ONLY <2>1
<1>2. PICK E \in SUBSET (1..l) : E = Ends(w) /\ IsFiniteSet(E)
  BY <1>1, EndsAre
<1>3. PICK K : K = Kept(w) /\ K \subseteq E /\ IsFiniteSet(K)
  BY <1>1, <1>2, EndsAre
<1>4. e \in K /\ e \in E /\ \A i \in E : i \in Nat
  BY <1>2, <1>3
<1>5. PICK U : U = {i \in E : i >= e}
  OBVIOUS
<1>6. PICK A : A = {i \in K : i <= e}
  OBVIOUS
<1>7. IsFiniteSet(U) /\ IsFiniteSet(A)
  <2>1. U \subseteq E /\ A \subseteq K
    BY <1>5, <1>6
  <2> QED BY <1>2, <1>3, <2>1, FS_Subset
<1>8. Cardinality(U) <= request.before
  BY <1>2, <1>3, <1>4, <1>5 DEF Kept
<1>9. U \subseteq K
  <2>1. ASSUME NEW i \in U PROVE i \in K
    <3>1. PICK V : V = {j \in E : j >= i}
      OBVIOUS
    <3>2. V \subseteq U
      <4>1. i \in Nat /\ e \in Nat /\ i >= e
        BY <1>4, <1>5
      <4>2. \A j \in Nat : j >= i => j >= e
        BY <4>1
      <4> QED BY <1>4, <1>5, <3>1, <4>2
    <3>3. IsFiniteSet(V) /\ Cardinality(V) <= Cardinality(U) /\ Cardinality(V) \in Nat
          /\ Cardinality(U) \in Nat
      BY <1>7, <3>2, FS_Subset, FS_CardinalityType
    <3>4. request.before \in Nat
      BY RequestIs
    <3>5. Cardinality(V) <= request.before
      BY <1>8, <3>3, <3>4
    <3> QED BY <1>2, <1>3, <1>5, <3>1, <3>5 DEF Kept
  <2> QED BY <2>1
<1>10. A \cup U = K
  <2>1. \A i \in K : i \in Nat /\ (i <= e \/ i >= e)
    BY <1>3, <1>4
  <2> QED BY <1>3, <1>5, <1>6, <1>9, <2>1
<1>11. A \cap U = {e}
  <2>1. \A i \in K : i \in Nat /\ (i <= e /\ i >= e => i = e) /\ e <= e /\ e >= e
    BY <1>3, <1>4
  <2> QED BY <1>3, <1>4, <1>5, <1>6, <1>9, <2>1
<1>12. Cardinality(K) = Cardinality(A) + Cardinality(U) - Cardinality(A \cap U)
  BY <1>7, <1>10, FS_Union
<1>13. Cardinality(A \cap U) = 1
  BY <1>11, FS_Singleton
<1>14. Cardinality(A) \in Nat /\ Cardinality(U) \in Nat
  BY <1>7, FS_CardinalityType
<1>15. CountTo(K, e) = Cardinality(A)
  BY <1>6 DEF CountTo
<1>16. Cardinality(U) = c - CountTo(K, e) + 1
  BY <1>3, <1>12, <1>13, <1>14, <1>15
<1> QED BY <1>2, <1>3, <1>5, <1>7, <1>14, <1>15, <1>16

\* Where the lines of a window are in the file.
LEMMA KeptLineInFile ==
  ASSUME request \in Requests, RefTypes, NEW t \in Seq(Bytes), ref.start <= Len(t),
         NEW w, Whole(w), PieceAt(w, t, ReadFrom), ref.number = NumberOf(t, ref.start),
         NEW c \in Nat, c = Cardinality(Kept(w)), NEW k \in 1..c,
         NEW l, LineIs(l, ref.number - c + k - 1, KeptLine(w, k), FALSE, TRUE)
  PROVE  RightLine(l, t)
<1>1. PICK s \in Nat \ {0}, n \in Nat : s = ref.start /\ n = Len(t) /\ s <= n
  <2>1. ref.start \in Nat \ {0} /\ Len(t) \in Nat /\ ref.start <= Len(t)
    BY DEF RefTypes, Whole
  <2> QED BY ONLY <2>1
<1>2. PICK v \in 0..(s - 1) : v = WindowStart /\ ReadFrom = IF v = 0 THEN 0 ELSE v - 1
  BY <1>1, WindowStartIs
<1>3. PICK b \in Seq(Bytes), m \in Nat : b = Block(w) /\ m = Len(b) /\ m = s - v
  <2>1. Block(w) \in Seq(Bytes) /\ Len(Block(w)) = s - v /\ Len(Block(w)) \in Nat
    BY <1>1, <1>2, BlockIs
  <2> QED BY ONLY <2>1
<1>4. \A i \in 1..m : b[i] = t[v + i]
  <2>1. \A i \in 1..Len(Block(w)) : Block(w)[i] = t[WindowStart + i]
    BY WindowOfFile
  <2> QED BY ONLY <1>2, <1>3, <2>1
<1>5. PICK p, e : LineAt(w, k, p, e)
  BY KeptLineIs
<1>6. PICK z : z = FirstFull(w)
  OBVIOUS
<1>7. PICK E \in SUBSET (1..m) : E = Ends(w)
  BY <1>3, EndsAre
<1>8. e \in E /\ e \in 1..m /\ z \in 0..m /\ b[e] = Newline
  <2>1. e \in E
    BY <1>3, <1>5, <1>7, EndsAre DEF LineAt
  <2> QED BY <1>3, <1>6, <1>7, <2>1, EndsAre
<1>9. p \in 0..(e - 1) /\ (p = z \/ p \in E) /\ (\A j \in E : j < e => j <= p)
      /\ KeptLine(w, k) = SubSeq(b, p + 1, e - 1)
  BY <1>3, <1>5, <1>6, <1>7 DEF LineAt
<1>10. z <= p
  <2>1. p \in E => z < p
    BY <1>3, <1>6, <1>7, EndsAre
  <2> QED BY <1>8, <1>9, <2>1
<1>11. ASSUME NEW i \in 1..m, b[i] = Newline, z < i PROVE i \in E
  <2>1. i \in Newlines(b)
    BY <1>3, <1>11, NewlinesAre
  <2> QED BY <1>3, <1>6, <1>7, <1>11, <2>1 DEF Ends
<1>12. PICK a \in Nat, d \in Nat : a = v + p /\ d = v + (e - 1) /\ a <= d /\ d < s /\ d + 1 = v + e
  <2>1. v \in Nat /\ p \in Nat /\ e \in Nat /\ p <= e - 1 /\ e <= s - v /\ e > 0
    BY <1>3, <1>8, <1>9
  <2>2. v + p \in Nat /\ v + (e - 1) \in Nat /\ v + p <= v + (e - 1) /\ v + (e - 1) < s
        /\ (v + (e - 1)) + 1 = v + e
    BY ONLY <2>1, s \in Nat
  <2> QED BY ONLY <2>2
<1>13. a > 0 => t[a] = Newline
  <2> SUFFICES ASSUME a > 0 PROVE t[a] = Newline
    OBVIOUS
  <2>1. CASE p \in E
    <3>1. p \in 1..m /\ b[p] = Newline
      BY <1>3, <1>7, <2>1, EndsAre
    <3> QED BY <1>4, <1>12, <3>1
  <2>2. CASE p = z
    <3>1. CASE Aligned(w)
      <4>1. z = 0
        BY <1>6, <3>1 DEF FirstFull
      <4>2. a = v /\ v # 0 /\ ReadFrom = v - 1
        BY <1>2, <1>12, <2>2, <4>1
      <4>3. w[1] = Newline
        BY <1>2, <3>1, <4>2 DEF Aligned
      <4>4. 1 \in 1..Len(w) /\ (v - 1) + 1 = v
        BY <1>1, <1>2, <4>2 DEF Whole
      <4>5. w[1] = t[(v - 1) + 1]
        BY <4>2, <4>4 DEF PieceAt
      <4> QED BY <4>2, <4>3, <4>4, <4>5
    <3>2. CASE ~Aligned(w)
      <4>1. Newlines(b) \in SUBSET Nat /\ Newlines(b) # {}
        <5>1. e \in Newlines(b)
          BY <1>3, <1>8, NewlinesAre
        <5>2. \A i \in Newlines(b) : i \in Nat
          BY NewlinesAre
        <5> QED BY <5>1, <5>2
      <4>2. z \in Newlines(b)
        BY <1>3, <1>6, <3>2, <4>1, LeastNatural DEF FirstFull
      <4>3. z \in 1..m /\ b[z] = Newline
        BY <1>3, <4>2, NewlinesAre
      <4> QED BY <1>4, <1>12, <2>2, <4>3
    <3> QED BY <3>1, <3>2
  <2> QED BY <1>9, <2>1, <2>2
<1>14. t[d + 1] = Newline
  BY <1>4, <1>8, <1>12
<1>15. ASSUME NEW x \in (a + 1)..d, t[x] = Newline PROVE FALSE
  <2>1. PICK i \in Nat : i = x - v /\ x = v + i /\ p < i /\ i <= e - 1 /\ i \in 1..m /\ i < e
    <3>1. x \in Int /\ v + p + 1 <= x /\ x <= v + (e - 1) /\ v \in Nat /\ p \in Nat /\ e \in 1..m
      BY <1>8, <1>9, <1>12
    <3>2. x - v \in Nat /\ x = v + (x - v) /\ p < x - v /\ x - v <= e - 1 /\ x - v \in 1..m /\ x - v < e
      BY ONLY <3>1, m \in Nat
    <3> QED BY ONLY <3>2
  <2>2. b[i] = Newline
    BY <1>4, <1>15, <2>1
  <2>3. z < i
    BY <1>8, <1>9, <1>10, <2>1
  <2>4. i \in E
    BY <1>11, <2>1, <2>2, <2>3
  <2>5. i <= p
    BY <1>9, <2>1, <2>4
  <2> QED BY <1>9, <2>1, <2>5
<1>16. NoNewline(t, a, d)
  BY <1>15 DEF NoNewline
<1>17. KeptLine(w, k) = SubSeq(t, a + 1, d)
  <2>1. PICK x, y : x = SubSeq(b, p + 1, e - 1) /\ y = SubSeq(t, a + 1, d)
    OBVIOUS
  <2>2. p \in Nat /\ e - 1 \in Nat /\ p <= e - 1 /\ e - 1 <= Len(b) /\ d <= Len(t)
    <3>1. p \in 0..(e - 1) /\ e \in 1..m /\ m = Len(b) /\ d < s /\ s <= n /\ n = Len(t)
      BY <1>1, <1>3, <1>8, <1>9, <1>12
    <3>2. m \in Nat /\ d \in Nat /\ s \in Nat /\ n \in Nat
      OBVIOUS
    <3> QED BY ONLY <3>1, <3>2
  <2>3. x \in Seq(Bytes) /\ Len(x) = (e - 1) - p /\ PieceAt(x, b, p)
    BY <2>1, <2>2, PieceIs
  <2>4. y \in Seq(Bytes) /\ Len(y) = d - a /\ PieceAt(y, t, a)
    <3>1. t \in Seq(Bytes) /\ a \in Nat /\ d \in Nat /\ a <= d /\ d <= Len(t)
      BY <1>12, <2>2
    <3> QED BY ONLY <2>1, <3>1, PieceIs
  <2>5. PICK q \in Nat : q = (e - 1) - p /\ q = d - a
    <3>1. (e - 1) - p \in Nat /\ (e - 1) - p = d - a
      BY <1>2, <1>12, <2>2
    <3> QED BY ONLY <3>1
  <2>6. ASSUME NEW i \in 1..q PROVE x[i] = y[i]
    <3>1. p + i \in 1..m /\ v + (p + i) = a + i
      BY <1>2, <1>3, <1>8, <1>9, <1>12, <2>5
    <3>2. x[i] = b[p + i] /\ y[i] = t[a + i]
      BY <2>3, <2>4, <2>5 DEF PieceAt
    <3>3. b[p + i] = t[v + (p + i)]
      BY <1>4, <3>1
    <3> QED BY <3>1, <3>2, <3>3
  <2>7. x \in Seq(Bytes) /\ y \in Seq(Bytes) /\ Len(x) = Len(y) /\ \A i \in 1..Len(y) : x[i] = y[i]
    BY <2>3, <2>4, <2>5, <2>6
  <2>8. x = y
    BY ONLY <2>7, SameSequence
  <2> QED BY <1>9, <2>1, <2>8
<1>18. NumberOf(t, a) = ref.number - c + k - 1
  <2>1. PICK U : U = {i \in E : i >= e}
    OBVIOUS
  <2>2. e \in Kept(w) /\ CountTo(Kept(w), e) = k
    BY <1>5 DEF LineAt
  <2>3. IsFiniteSet(U) /\ Cardinality(U) = c - k + 1
    BY <1>7, <2>1, <2>2, EndsFrom
  <2>4. U \in SUBSET Nat
    <3>1. \A i \in 1..m : i \in Nat
      OBVIOUS
    <3> QED BY <1>7, <2>1, <3>1
  <2>5. PICK T : T = Between(t, a, s)
    OBVIOUS
  <2>6. ASSUME NEW i \in U PROVE v + i \in T
    <3>1. i \in 1..m /\ i >= e /\ b[i] = Newline
      <4>1. i \in E /\ i >= e
        BY <2>1
      <4> QED BY <1>3, <1>7, <4>1, EndsAre
    <3>2. v + i \in 1..n /\ a < v + i /\ v + i <= s
      <4>1. v \in Nat /\ p \in Nat /\ e \in Nat /\ p < e /\ m = s - v
        BY <1>3, <1>8, <1>9
      <4>2. v + i \in Nat /\ v + i > 0 /\ v + p < v + i /\ v + i <= s
        BY ONLY <3>1, <4>1, s \in Nat
      <4> QED BY <1>1, <1>12, <4>2
    <3>3. t[v + i] = Newline
      BY <1>4, <3>1
    <3>4. v + i \in Newlines(t)
      BY <1>1, <3>2, <3>3, NewlinesAre
    <3> QED BY <2>5, <3>2, <3>4 DEF Between
  <2>7. ASSUME NEW x \in T PROVE \E i \in U : x = v + i
    <3>1. x \in 1..n /\ t[x] = Newline /\ a < x /\ x <= s
      BY <1>1, <2>5, NewlinesAre DEF Between
    <3>2. PICK i \in Nat : i = x - v /\ x = v + i /\ p < i /\ i \in 1..m
      <4>1. v + p < x /\ x <= s /\ v \in Nat /\ p \in Nat /\ m = s - v /\ x \in Nat
        BY <1>3, <1>9, <1>12, <3>1
      <4>2. x - v \in Nat /\ x = v + (x - v) /\ p < x - v /\ x - v \in 1..m
        BY ONLY <4>1, s \in Nat
      <4> QED BY ONLY <4>2
    <3>3. z < i /\ b[i] = Newline
      BY <1>4, <1>8, <1>9, <1>10, <3>1, <3>2
    <3>4. i \in E
      BY <1>11, <3>2, <3>3
    <3>5. i >= e
      <4> SUFFICES ASSUME i < e PROVE FALSE
        BY <1>8
      <4>1. i <= p /\ p \in Nat
        BY <1>9, <3>4
      <4> QED BY <3>2, <4>1
    <3> QED BY <2>1, <3>2, <3>4, <3>5
  <2>8. Cardinality(T) = Cardinality(U)
    <3>1. v \in Nat
      OBVIOUS
    <3>2. \A x : x \in T <=> \E i \in U : x = v + i
      BY <2>6, <2>7
    <3> QED BY ONLY <2>3, <2>4, <3>1, <3>2, ShiftSame
  <2>9. ref.number = NumberOf(t, a) + Cardinality(T) /\ NumberOf(t, a) \in Nat
    <3>1. a <= s
      BY <1>12
    <3> QED BY <1>1, <2>5, <3>1, NumberSplit, NumberOfIs
  <2>10. ref.number \in Nat
    BY DEF RefTypes
  <2> QED BY <2>3, <2>8, <2>9, <2>10
<1>19. l.number = NumberOf(t, a) /\ l.bytes = d - a /\ Shows(l, SubSeq(t, a + 1, d))
  <2>1. Len(SubSeq(t, a + 1, d)) = d - a
    <3>1. t \in Seq(Bytes) /\ a \in Nat /\ d \in Nat /\ a <= d /\ d <= Len(t)
      BY <1>1, <1>12
    <3> QED BY ONLY <3>1, PieceIs
  <2> QED BY <1>17, <1>18, <2>1 DEF LineIs, HasFields
<1>20. RightAt(l, t, a, d)
  <2>1. a < Len(t) /\ d \in a..Len(t) /\ d < Len(t)
    BY <1>1, <1>12
  <2> QED BY <1>13, <1>14, <1>16, <1>19, <2>1 DEF RightAt
<1> QED BY <1>20 DEF RightLine

\* What the answer says of the lines before the match is right, whether the window
\* reached the start of the file, held enough lines, or neither.
LEMMA BeforeToldIs ==
  ASSUME request \in Requests, RefTypes, NEW t \in Seq(Bytes), ref.start <= Len(t),
         NEW w, Whole(w), PieceAt(w, t, ReadFrom), ref.number = NumberOf(t, ref.start),
         t[ref.start] = Newline, NEW c \in Nat, c = Cardinality(Kept(w))
  PROVE  /\ c < ref.number
         /\ BeforeTruncated(c) <=> c < request.before /\ c + 1 < ref.number
<1>1. PICK s \in Nat \ {0}, n \in Nat : s = ref.start /\ n = Len(t) /\ s <= n
  <2>1. ref.start \in Nat \ {0} /\ Len(t) \in Nat /\ ref.start <= Len(t)
    BY DEF RefTypes, Whole
  <2> QED BY ONLY <2>1
<1>2. PICK v \in 0..(s - 1) : v = WindowStart /\ ReadFrom = IF v = 0 THEN 0 ELSE v - 1
  BY <1>1, WindowStartIs
<1>3. PICK b \in Seq(Bytes), m \in Nat : b = Block(w) /\ m = Len(b) /\ m = s - v
  <2>1. Block(w) \in Seq(Bytes) /\ Len(Block(w)) = s - v /\ Len(Block(w)) \in Nat
    BY <1>1, <1>2, BlockIs
  <2> QED BY ONLY <2>1
<1>4. \A i \in 1..m : b[i] = t[v + i]
  <2>1. \A i \in 1..Len(Block(w)) : Block(w)[i] = t[WindowStart + i]
    BY WindowOfFile
  <2> QED BY ONLY <1>2, <1>3, <2>1
<1>5. PICK E \in SUBSET (1..m) : E = Ends(w) /\ IsFiniteSet(E)
  BY <1>3, EndsAre
<1>6. PICK K : K = Kept(w) /\ K \subseteq E /\ IsFiniteSet(K) /\ c = Cardinality(K)
  BY <1>3, <1>5, EndsAre
<1>7. PICK Z : Z = {i \in Newlines(t) : i <= s}
  OBVIOUS
<1>8. IsFiniteSet(Z) /\ ref.number = 1 + Cardinality(Z) /\ Cardinality(Z) \in Nat
  <2>1. Z \subseteq Newlines(t)
    BY <1>7
  <2>2. IsFiniteSet(Z) /\ Cardinality(Z) \in Nat
    BY <2>1, NewlinesAre, FS_Subset, FS_CardinalityType
  <2> QED BY <1>1, <1>7, <2>2 DEF NumberOf
<1>9. PICK z : z = FirstFull(w)
  OBVIOUS
<1>10. ASSUME NEW i \in E PROVE i \in 1..m /\ z < i /\ b[i] = Newline /\ v + i \in Z
  <2>1. i \in 1..m /\ z < i /\ b[i] = Newline
    BY <1>3, <1>5, <1>9, EndsAre
  <2>2. v + i \in 1..n /\ v + i <= s
    <3>1. v \in Nat /\ m = s - v
      BY <1>3
    <3>2. v + i \in Nat /\ v + i > 0 /\ v + i <= s
      BY ONLY <2>1, <3>1, s \in Nat, m \in Nat
    <3> QED BY <1>1, <3>2
  <2>3. t[v + i] = Newline
    BY <1>4, <2>1
  <2>4. v + i \in Newlines(t)
    BY <1>1, <2>2, <2>3, NewlinesAre
  <2> QED BY <1>7, <2>1, <2>2, <2>4
<1>11. E \in SUBSET Nat /\ K \in SUBSET Nat /\ v \in Nat
  <2>1. \A i \in 1..m : i \in Nat
    OBVIOUS
  <2> QED BY <1>5, <1>6, <2>1
<1>12. CASE v = 0
  <2>1. c <= Cardinality(Z)
    BY <1>6, <1>8, <1>10, <1>11, ShiftCount
  <2>2. ~BeforeTruncated(c)
    BY <1>2, <1>12 DEF BeforeTruncated
  <2>3. ASSUME c < request.before PROVE Cardinality(Z) <= c
    <3>1. z = 0
      BY <1>2, <1>9, <1>12 DEF FirstFull, Aligned
    <3>2. Z \subseteq E
      <4>1. ASSUME NEW i \in Z PROVE i \in E
        <5>1. i \in 1..n /\ t[i] = Newline /\ i <= s
          BY <1>1, <1>7, NewlinesAre
        <5>2. i \in 1..m /\ v + i = i
          BY <1>3, <1>12, <5>1
        <5>3. b[i] = Newline
          BY <1>4, <5>1, <5>2
        <5>4. i \in Newlines(b) /\ i > z
          <6>1. i \in Newlines(b)
            BY <1>3, <5>2, <5>3, NewlinesAre
          <6> QED BY <3>1, <5>2, <6>1
        <5> QED BY <1>3, <1>5, <1>9, <5>4 DEF Ends
      <4> QED BY <4>1
    <3>3. E \subseteq K
      <4> SUFFICES ASSUME E \ K # {} PROVE FALSE
        OBVIOUS
      <4>1. PICK D \in SUBSET (0..m) : D = E \ K /\ D # {}
        <5>1. E \ K \in SUBSET (0..m)
          BY <1>5
        <5> QED BY <5>1
      <4>2. PICK i \in D : \A j \in D : j <= i
        BY <4>1, GreatestNatural
      <4>3. PICK V : V = {j \in E : j >= i}
        OBVIOUS
      <4>4. V \subseteq K \cup {i}
        <5>1. ASSUME NEW j \in V, j \notin K, j # i PROVE FALSE
          <6>1. j \in E /\ j \in D /\ j >= i
            BY <4>1, <4>3, <5>1
          <6>2. j <= i /\ j \in Nat /\ i \in Nat
            BY <1>11, <4>1, <4>2, <6>1
          <6> QED BY <5>1, <6>1, <6>2
        <5> QED BY <5>1
      <4>5. IsFiniteSet(K \cup {i}) /\ Cardinality(K \cup {i}) <= c + 1 /\ Cardinality(K \cup {i}) \in Nat
        <5>1. IsFiniteSet(K \cup {i}) /\ Cardinality(K \cup {i}) = IF i \in K THEN c ELSE c + 1
          BY <1>6, FS_AddElement
        <5> QED BY <5>1
      <4>6. Cardinality(V) <= Cardinality(K \cup {i}) /\ Cardinality(V) \in Nat
        BY <4>4, <4>5, FS_Subset, FS_CardinalityType
      <4>7. Cardinality(V) <= request.before
        BY <2>3, <4>5, <4>6, RequestIs
      <4>8. i \in K
        BY <1>5, <1>6, <4>1, <4>3, <4>7 DEF Kept
      <4> QED BY <4>1, <4>8
    <3>4. Z \subseteq K
      BY <3>2, <3>3
    <3> QED BY <1>6, <3>4, FS_Subset
  <2>4. request.before \in Nat
    BY RequestIs
  <2> QED BY <1>8, <2>1, <2>2, <2>3, <2>4
<1>13. CASE v > 0
  <2>1. PICK x : x = v + z
    OBVIOUS
  <2>2. \A i \in K : v + i \in Z /\ v + i # x
    <3>1. ASSUME NEW i \in K PROVE v + i \in Z /\ v + i # x
      <4>1. v + i \in Z /\ z < i /\ i \in Nat
        BY <1>6, <1>10, <1>11
      <4>2. z \in Nat
        <5>1. Ends(w) # {}
          BY <1>5, <1>6
        <5>2. z \in 0..m
          BY <1>3, <1>9, <5>1, EndsAre
        <5> QED BY <5>2
      <4> QED BY <1>11, <2>1, <4>1, <4>2
    <3> QED BY <3>1
  <2>3. x \in Z
    <3>1. CASE Aligned(w)
      <4>1. x = v
        <5>1. z = 0
          BY <1>9, <3>1 DEF FirstFull
        <5> QED BY <1>11, <2>1, <5>1
      <4>2. ReadFrom = v - 1 /\ w[1] = Newline
        BY <1>2, <1>13, <3>1 DEF Aligned
      <4>3. 1 \in 1..Len(w) /\ (v - 1) + 1 = v
        BY <1>1, <1>2, <4>2 DEF Whole
      <4>4. w[1] = t[(v - 1) + 1]
        BY <4>2, <4>3 DEF PieceAt
      <4>5. t[v] = Newline /\ v \in 1..n /\ v <= s
        BY <1>1, <1>13, <4>2, <4>3, <4>4
      <4>6. v \in Newlines(t)
        BY <1>1, <4>5, NewlinesAre
      <4> QED BY <1>7, <4>1, <4>5, <4>6
    <3>2. CASE ~Aligned(w) /\ Newlines(b) # {}
      <4>1. Newlines(b) \in SUBSET Nat
        <5>1. \A i \in Newlines(b) : i \in Nat
          BY NewlinesAre
        <5> QED BY <5>1
      <4>2. z \in Newlines(b)
        BY <1>3, <1>9, <3>2, <4>1, LeastNatural DEF FirstFull
      <4>3. z \in 1..m /\ b[z] = Newline
        BY <1>3, <4>2, NewlinesAre
      <4>4. x \in 1..n /\ x <= s
        <5>1. v \in Nat /\ m = s - v
          BY <1>3
        <5>2. v + z \in Nat /\ v + z > 0 /\ v + z <= s
          BY ONLY <4>3, <5>1, s \in Nat, m \in Nat
        <5> QED BY <1>1, <2>1, <5>2
      <4>5. x \in Newlines(t)
        BY <1>1, <1>4, <2>1, <4>3, <4>4, NewlinesAre
      <4> QED BY <1>7, <4>4, <4>5
    <3>3. Newlines(b) # {}
      <4>1. m \in 1..m /\ v + m = s
        BY <1>2, <1>3
      <4>2. b[m] = Newline
        BY <1>1, <1>4, <4>1
      <4>3. m \in Newlines(b)
        BY <1>3, <4>1, <4>2, NewlinesAre
      <4> QED BY <4>3
    <3> QED BY <3>1, <3>2, <3>3
  <2>4. c + 1 <= Cardinality(Z)
    <3>1. IsFiniteSet(Z \ {x}) /\ Cardinality(Z \ {x}) = Cardinality(Z) - 1
      BY <1>8, <2>3, FS_RemoveElement
    <3>2. \A i \in K : v + i \in Z \ {x}
      BY <2>2
    <3>3. K \in SUBSET Nat /\ v \in Nat
      BY <1>11
    <3>4. Cardinality(K) <= Cardinality(Z \ {x})
      BY ONLY <3>1, <3>2, <3>3, ShiftCount
    <3> QED BY <1>6, <1>8, <3>1, <3>4
  <2>5. BeforeTruncated(c) <=> c < request.before
    BY <1>2, <1>13 DEF BeforeTruncated
  <2> QED BY <1>8, <2>4, <2>5
<1> QED BY <1>12, <1>13

\* The lines before the match are those of the file, in its order.
BeforeRight(b, t, f) ==
  \A i \in 1..Len(b) : RightLine(b[i], t) /\ b[i].number = f.number - Len(b) + i - 1

\* There are no more than asked for, and fewer only if it is said, or if they are all.
BeforeTold(b, f, r) ==
  /\ Len(b.lines) <= r.before /\ Len(b.lines) < f.number
  /\ b.truncated <=> Len(b.lines) < r.before /\ Len(b.lines) + 1 < f.number

AllEnded(lines) == \A j \in 1..Len(lines) : lines[j].ended

EndedBelow(lines, i) == \A j \in 1..(i - 1) : lines[j].ended

\* The match line and those after it are lines of the file, up to the first one
\* that the end of the file ended.
TakenRight(lines, t, f) ==
  \A i \in 1..Len(lines) :
    lines[i].number = f.number + i - 1 /\ (EndedBelow(lines, i) => RightLine(lines[i], t))

\* The line of that number starts behind a.
LineStart(t, a, number) == (a > 0 => t[a] = Newline) /\ NumberOf(t, a) = number

\* The last of the lines is the last of the text, and no newline ends it.
LastOfText(lines, t, f) ==
  /\ t[Len(t)] # Newline /\ EndedBelow(lines, Len(lines))
  /\ NumberOf(t, Len(t)) = f.number + Len(lines) - 1

\* The last of the lines is the last one asked for, or the last one of the text.
ReachesEnd(lines, t, f, r) ==
  f.number + Len(lines) - 1 = Min({f.number + r.after, Cardinality(Starts(t))})

LinesRight(x, t) == \A i \in 1..Len(x.lines) : EndedBelow(x.lines, i) => RightLine(x.lines[i], t)

NoneHidden(x, t, f, r) ==
  /\ x.beforeTruncated <=> Head(x.lines).number > Max({1, f.number - r.before})
  /\ ~x.afterTruncated =>
       Last(x.lines).number = Min({f.number + r.after, Cardinality(Starts(t))})

LEMMA CutRight ==
  ASSUME NEW t, NEW f, NEW b \in Seq(ContextLines), NEW all \in Seq(ContextLines), all # <<>>,
         NEW kept \in 0..Len(b), NEW more \in 0..(Len(all) - 1), NEW x,
         Delivered(x, b, all, kept, more), BeforeRight(b, t, f), TakenRight(all, t, f)
  PROVE  LinesRight(x, t)
<1>1. PICK L \in Seq(ContextLines) : L = x.lines /\ Cut(L, b, all, kept, more)
  BY DEF Delivered
<1>2. PICK l \in Nat, m \in Nat, n \in Nat \ {0} : l = Len(L) /\ m = Len(b) /\ n = Len(all)
  <2>1. Len(L) \in Nat /\ Len(b) \in Nat /\ Len(all) \in Nat /\ Len(all) # 0
    BY <1>1
  <2> QED BY ONLY <2>1
<1>3. kept \in 0..m /\ more \in 0..(n - 1) /\ l = kept + 1 + more
  BY <1>1, <1>2 DEF Cut
<1>4. ASSUME NEW i \in 1..l, EndedBelow(L, i) PROVE RightLine(L[i], t)
  <2>1. CASE i <= kept
    <3>1. i \in 1..kept /\ (m - kept) + i \in 1..m
      BY <1>3, <2>1
    <3>2. L[i] = b[(m - kept) + i]
      BY <1>1, <1>2, <3>1 DEF Cut
    <3> QED BY <1>2, <3>1, <3>2 DEF BeforeRight
  <2>2. CASE i > kept
    <3>1. PICK k \in Nat : k = i - kept /\ k \in 1..(more + 1) /\ kept + k = i /\ k \in 1..n
      <4>1. i - kept \in Nat /\ i - kept \in 1..(more + 1) /\ kept + (i - kept) = i /\ i - kept \in 1..n
        BY <1>3, <2>2
      <4> QED BY ONLY <4>1
    <3>2. \A j \in 1..(more + 1) : L[kept + j] = all[j]
      BY <1>1 DEF Cut
    <3>3. ASSUME NEW j \in 1..(k - 1) PROVE all[j].ended
      <4>1. j \in 1..(more + 1) /\ kept + j \in 1..(i - 1)
        BY <1>3, <3>1
      <4>2. L[kept + j].ended
        BY <1>4, <4>1 DEF EndedBelow
      <4> QED BY <3>2, <4>1, <4>2
    <3>4. EndedBelow(all, k)
      BY <3>3 DEF EndedBelow
    <3>5. RightLine(all[k], t)
      BY <1>2, <3>1, <3>4 DEF TakenRight
    <3> QED BY <3>1, <3>2, <3>5
  <2> QED BY <1>3, <2>1, <2>2
<1> QED BY <1>1, <1>2, <1>4 DEF LinesRight

LEMMA CutHidesNone ==
  ASSUME NEW t, NEW f, f.number \in Nat \ {0}, NEW r, r.before \in Nat,
         NEW b \in Seq(ContextLines), NEW all \in Seq(ContextLines), all # <<>>,
         NEW kept \in 0..Len(b), NEW more \in 0..(Len(all) - 1), NEW x,
         Delivered(x, b, all, kept, more), BeforeRight(b, t, f), TakenRight(all, t, f),
         NEW c, c.lines = b, BeforeTold(c, f, r), NEW spent,
         x.beforeTruncated = NotAllBefore(c.truncated, b, kept),
         x.afterTruncated = NotAllAfter(spent, all, more),
         ~spent => ReachesEnd(all, t, f, r)
  PROVE  NoneHidden(x, t, f, r)
<1>1. PICK L \in Seq(ContextLines) : L = x.lines /\ Cut(L, b, all, kept, more)
  BY DEF Delivered
<1>2. PICK l \in Nat, m \in Nat, n \in Nat \ {0}, d \in Nat \ {0}, q \in Nat :
        l = Len(L) /\ m = Len(b) /\ n = Len(all) /\ d = f.number /\ q = r.before
  <2>1. Len(L) \in Nat /\ Len(b) \in Nat /\ Len(all) \in Nat /\ Len(all) # 0
    BY <1>1
  <2> QED BY ONLY <2>1, f.number \in Nat \ {0}, r.before \in Nat
<1>3. kept \in 0..m /\ more \in 0..(n - 1) /\ l = kept + 1 + more
  BY <1>1, <1>2 DEF Cut
<1>4. Head(L).number = d - kept
  <2>1. Head(L) = L[1]
    BY <1>1, <1>2, <1>3
  <2>2. CASE kept = 0
    <3>1. L[1] = all[1]
      <4>1. 1 \in 1..(more + 1) /\ 0 + 1 = 1
        BY <1>3
      <4> QED BY <1>1, <2>2, <4>1 DEF Cut
    <3>2. all[1].number = d + 1 - 1
      <4>1. 1 \in 1..Len(all)
        BY <1>2
      <4> QED BY <1>2, <4>1 DEF TakenRight
    <3> QED BY <2>1, <2>2, <3>1, <3>2
  <2>3. CASE kept > 0
    <3>1. 1 \in 1..kept /\ (m - kept) + 1 \in 1..m
      BY <1>3, <2>3
    <3>2. L[1] = b[(m - kept) + 1]
      BY <1>1, <1>2, <3>1 DEF Cut
    <3>3. b[(m - kept) + 1].number = d - m + ((m - kept) + 1) - 1
      BY <1>2, <3>1 DEF BeforeRight
    <3>4. d - m + ((m - kept) + 1) - 1 = d - kept
      BY <1>3
    <3> QED BY <2>1, <3>2, <3>3, <3>4
  <2> QED BY <1>3, <2>2, <2>3
<1>5. x.beforeTruncated <=> Head(L).number > Max({1, d - q})
  <2>1. m <= q /\ m < d /\ (c.truncated <=> m < q /\ m + 1 < d)
    BY <1>2 DEF BeforeTold
  <2>2. x.beforeTruncated <=> c.truncated \/ kept < m
    BY <1>2 DEF NotAllBefore
  <2>3. Max({1, d - q}) = IF d - q <= 1 THEN 1 ELSE d - q
    <3>1. CASE d - q <= 1
      <4>1. Max({1, d - q}) = 1
        <5>1. \A y \in {1, d - q} : y <= 1
          BY <3>1
        <5>2. \A z \in {1, d - q} : (\A y \in {1, d - q} : y <= z) => z = 1
          BY <3>1
        <5> QED BY <5>1, <5>2 DEF Max
      <4> QED BY <3>1, <4>1
    <3>2. CASE d - q > 1
      <4>1. Max({1, d - q}) = d - q
        <5>1. \A y \in {1, d - q} : y <= d - q
          BY <3>2
        <5>2. \A z \in {1, d - q} : (\A y \in {1, d - q} : y <= z) => z = d - q
          BY <3>2
        <5> QED BY <5>1, <5>2 DEF Max
      <4> QED BY <3>2, <4>1
    <3> QED BY <3>1, <3>2
  <2>4. (m < q /\ m + 1 < d) \/ kept < m <=> d - kept > IF d - q <= 1 THEN 1 ELSE d - q
    BY ONLY <1>3, <2>1, m \in Nat, q \in Nat, d \in Nat \ {0}, kept \in Nat
  <2> QED BY <1>4, <2>1, <2>2, <2>3, <2>4
<1>6. ASSUME ~x.afterTruncated PROVE Last(L).number = Min({f.number + r.after, Cardinality(Starts(t))})
  <2>1. ~spent /\ ~(more < n - 1)
    BY <1>2, <1>6 DEF NotAllAfter
  <2>2. more + 1 = n /\ l = kept + n
    BY <1>3, <2>1
  <2>3. Last(L) = L[kept + n]
    BY <1>1, <1>2, <2>2 DEF Last
  <2>4. L[kept + n] = all[n]
    <3>1. n \in 1..(more + 1)
      BY <2>2
    <3> QED BY <1>1, <3>1 DEF Cut
  <2>5. all[n].number = f.number + n - 1
    <3>1. n \in 1..Len(all)
      BY <1>2
    <3> QED BY <1>2, <3>1 DEF TakenRight
  <2>6. ReachesEnd(all, t, f, r)
    BY <2>1
  <2> QED BY <1>2, <2>3, <2>4, <2>5, <2>6 DEF ReachesEnd
<1> QED BY <1>1, <1>2, <1>5, <1>6 DEF NoneHidden

\* While the lines are read forward, those that were read are right.
ForwardRight ==
  phase = "Forward" =>
    /\ BeforeRight(before.lines, bytes, ref) /\ BeforeTold(before, ref, request)
    /\ TakenRight(taken, bytes, ref)
    /\ AllEnded(taken) => LineStart(bytes, pos - Len(raw), ref.number + Len(taken))
    /\ appends = 0 /\ ~AllEnded(taken) =>
         raw = <<>> /\ pos = Len(bytes) /\ LastOfText(taken, bytes, ref)

AnswerRight ==
  phase = "Done" /\ error = None =>
    /\ result.lines \in Seq(ContextLines) /\ LinesRight(result, bytes)
    /\ appends = 0 => NoneHidden(result, bytes, ref, request)

FileInv == rewrites = 0 => ForwardRight /\ AnswerRight

\* What is read of a line, in a file that is only appended to.
LEMMA RawIs ==
  ASSUME ContextInv, phase = "Forward", rewrites = 0
  PROVE  /\ pos \in Nat /\ Len(bytes) \in Nat /\ Len(raw) \in Nat /\ pos <= Len(bytes)
         /\ pos - Len(raw) \in Nat /\ NoNewline(bytes, pos - Len(raw), pos)
         /\ raw = SubSeq(bytes, (pos - Len(raw)) + 1, pos)
         /\ 0 < Len(bytes)
<1>1. bytes \in Seq(Bytes) /\ raw \in Seq(Bytes)
  BY DEF ContextInv, Types
<1>2. Unchanged /\ ref.size <= Len(bytes) /\ ref.start < ref.size /\ ref.start \in Nat /\ ref.size \in Nat
  BY MatchInFile
<1>3. PICK p \in Nat, n \in Nat, k \in Nat, s \in Nat :
        p = pos /\ n = Len(bytes) /\ k = Len(raw) /\ s = p - k /\ s + k = p /\ 0 < n
  <2>1. pos \in Nat /\ Len(bytes) \in Nat /\ Len(raw) \in Nat /\ Len(raw) <= pos - ref.start
        /\ ref.start \in Nat /\ 0 < Len(bytes)
    BY <1>1, <1>2 DEF ContextInv, ForwardOK
  <2>2. pos - Len(raw) \in Nat /\ (pos - Len(raw)) + Len(raw) = pos
    BY ONLY <2>1
  <2> QED BY ONLY <2>1, <2>2
<1>4. PieceAt(raw, bytes, s) /\ NoNewline(raw, 0, k)
  BY <1>2, <1>3 DEF ContextInv, ForwardOK
<1>5. p <= n /\ \A i \in 1..k : raw[i] = bytes[s + i]
  BY <1>3, <1>4 DEF PieceAt
<1>6. NoNewline(bytes, s, p)
  <2>1. ASSUME NEW x \in (s + 1)..p, bytes[x] = Newline PROVE FALSE
    <3>1. PICK i \in Nat : i = x - s /\ s + i = x /\ i \in 1..k /\ i \in (0 + 1)..k
      <4>1. x - s \in Nat /\ s + (x - s) = x /\ x - s \in 1..k /\ x - s \in (0 + 1)..k
        BY <1>3
      <4> QED BY ONLY <4>1
    <3> QED BY <1>4, <1>5, <2>1, <3>1 DEF NoNewline
  <2> QED BY <2>1 DEF NoNewline
<1>7. raw = SubSeq(bytes, s + 1, p)
  <2>1. PICK v : v = SubSeq(bytes, s + 1, p)
    OBVIOUS
  <2>2. v \in Seq(Bytes) /\ Len(v) = p - s /\ PieceAt(v, bytes, s)
    <3>1. s <= p /\ p <= Len(bytes)
      BY <1>3, <1>5
    <3> QED BY <1>1, <2>1, <3>1, PieceIs
  <2>3. Len(v) = k
    BY <1>3, <2>2
  <2>4. \A i \in 1..k : v[i] = bytes[s + i]
    BY <2>2, <2>3 DEF PieceAt
  <2>5. raw \in Seq(Bytes) /\ v \in Seq(Bytes) /\ Len(raw) = Len(v) /\ \A i \in 1..Len(v) : raw[i] = v[i]
    BY <1>1, <1>3, <1>5, <2>2, <2>3, <2>4
  <2>6. raw = v
    BY ONLY <2>5, SameSequence
  <2> QED BY <2>1, <2>6
<1> QED BY <1>3, <1>5, <1>6, <1>7

\* The line that is complete is one of the file.
LEMMA TakenInFile ==
  ASSUME ContextInv, phase = "Forward", rewrites = 0,
         LineStart(bytes, pos - Len(raw), ref.number + Len(taken)),
         NEW ended \in BOOLEAN, ended => pos < Len(bytes) /\ bytes[pos + 1] = Newline,
         ~ended => raw # <<>>,
         NEW l, LineIs(l, ref.number + Len(taken), raw, InMatchLine, ended)
  PROVE  RightLine(l, bytes)
<1>1. PICK p \in Nat, n \in Nat, k \in Nat, s \in Nat :
        p = pos /\ n = Len(bytes) /\ k = Len(raw) /\ s = pos - Len(raw) /\ p <= n /\ s + k = p
        /\ NoNewline(bytes, s, p) /\ raw = SubSeq(bytes, s + 1, p)
  <2>1. (pos - Len(raw)) + Len(raw) = pos
    BY RawIs
  <2> QED BY <2>1, RawIs
<1>2. ~ended => k > 0
  <2>1. raw \in Seq(Bytes)
    BY DEF ContextInv, Types
  <2> QED BY <1>1, <2>1
<1>3. s < n /\ p \in s..n /\ (ended => p < n)
  BY <1>1, <1>2
<1>4. s > 0 => bytes[s] = Newline
  BY <1>1 DEF LineStart
<1>5. l.number = NumberOf(bytes, s) /\ l.bytes = p - s /\ l.ended = ended /\ Shows(l, raw)
  <2>1. l.number = ref.number + Len(taken) /\ l.bytes = Len(raw) /\ l.ended = ended /\ Shows(l, raw)
    BY DEF LineIs, HasFields
  <2>2. NumberOf(bytes, s) = ref.number + Len(taken)
    BY <1>1 DEF LineStart
  <2> QED BY <1>1, <2>1, <2>2
<1>6. RightAt(l, bytes, s, p)
  BY <1>1, <1>3, <1>4, <1>5 DEF RightAt
<1> QED BY <1>6 DEF RightLine

LEMMA TakenMore ==
  ASSUME NEW t, NEW f, NEW T, NEW S \in Seq(T), NEW l, NEW A, Len(A) = Len(S) + 1,
         A[Len(S) + 1] = l, \A i \in 1..Len(S) : A[i] = S[i], TakenRight(S, t, f),
         l.number = f.number + Len(S), f.number \in Nat, AllEnded(S) => RightLine(l, t)
  PROVE  /\ TakenRight(A, t, f) /\ (AllEnded(A) <=> AllEnded(S) /\ l.ended)
         /\ EndedBelow(A, Len(A)) <=> AllEnded(S)
<1>1. PICK n \in Nat, d \in Nat : n = Len(S) /\ d = f.number /\ Len(A) = n + 1
  <2>1. Len(S) \in Nat
    OBVIOUS
  <2> QED BY ONLY <2>1, f.number \in Nat, Len(A) = Len(S) + 1
<1>2. A[n + 1] = l /\ \A i \in 1..n : A[i] = S[i]
  BY <1>1
<1>3. \A i \in 1..(n + 1) : i \in 1..n \/ i = n + 1
  OBVIOUS
<1>4. AllEnded(A) <=> AllEnded(S) /\ l.ended
  <2>1. ASSUME AllEnded(A) PROVE AllEnded(S) /\ l.ended
    <3>1. \A i \in 1..n : i \in 1..(n + 1)
      OBVIOUS
    <3>2. n + 1 \in 1..(n + 1)
      OBVIOUS
    <3> QED BY <1>1, <1>2, <2>1, <3>1, <3>2 DEF AllEnded
  <2>2. ASSUME AllEnded(S), l.ended PROVE AllEnded(A)
    <3>1. \A i \in 1..n : S[i].ended
      BY <1>1, <2>2 DEF AllEnded
    <3> QED BY <1>1, <1>2, <1>3, <2>2, <3>1 DEF AllEnded
  <2> QED BY <2>1, <2>2
<1>5. EndedBelow(A, n + 1) <=> AllEnded(S)
  <2>1. (n + 1) - 1 = n
    OBVIOUS
  <2> QED BY <1>1, <1>2, <2>1 DEF EndedBelow, AllEnded
<1>6. ASSUME NEW i \in 1..(n + 1)
      PROVE  A[i].number = f.number + i - 1 /\ (EndedBelow(A, i) => RightLine(A[i], t))
  <2>1. CASE i = n + 1
    <3>1. A[i].number = f.number + i - 1
      BY <1>1, <1>2, <2>1
    <3>2. EndedBelow(A, i) => RightLine(A[i], t)
      BY <1>2, <1>5, <2>1
    <3> QED BY <3>1, <3>2
  <2>2. CASE i \in 1..n
    <3>1. A[i] = S[i] /\ S[i].number = f.number + i - 1 /\ (EndedBelow(S, i) => RightLine(S[i], t))
      BY <1>1, <1>2, <2>2 DEF TakenRight
    <3>2. EndedBelow(A, i) => EndedBelow(S, i)
      <4>1. \A j \in 1..(i - 1) : j \in 1..n
        BY <2>2
      <4> QED BY <1>2, <4>1 DEF EndedBelow
    <3> QED BY <3>1, <3>2
  <2> QED BY <1>3, <2>1, <2>2
<1>7. TakenRight(A, t, f)
  BY <1>1, <1>6 DEF TakenRight
<1> QED BY <1>1, <1>4, <1>5, <1>7

\* The answer, of lines that are right.
LEMMA FinishedFile ==
  ASSUME ContextInv, phase = "Forward", rewrites = 0,
         UNCHANGED <<bytes, rotated, appends, rewrites, request, ref>>,
         BeforeRight(before.lines, bytes, ref), BeforeTold(before, ref, request),
         NEW all \in Seq(ContextLines), all # <<>>, TakenRight(all, bytes, ref),
         Short(all, request), NEW spent, Finish(all, spent),
         appends = 0 /\ ~spent => ReachesEnd(all, bytes, ref, request)
  PROVE  FileInv'
<1>1. request \in Requests /\ RefTypes
  BY DEF ContextInv, Types
<1>2. PICK b \in Seq(ContextLines) : b = before.lines
  BY DEF ContextInv, LinesOK
<1>3. Len(all[1].content) <= request.maxLine
  <2>1. 1 \in 1..Len(all)
    OBVIOUS
  <2> QED BY <2>1 DEF Short
<1>4. PICK kept \in 0..Len(b), more \in 0..(Len(all) - 1) :
        /\ Delivered(result', b, all, kept, more)
        /\ result'.beforeTruncated = NotAllBefore(before.truncated, b, kept)
        /\ result'.afterTruncated = NotAllAfter(spent, all, more)
  BY <1>1, <1>2, <1>3, FinishIs
<1>5. PICK x : x = result'
  OBVIOUS
<1>6. LinesRight(x, bytes)
  BY <1>2, <1>4, <1>5, CutRight
<1>7. ASSUME appends = 0 PROVE NoneHidden(x, bytes, ref, request)
  <2>1. PICK c : c = before
    OBVIOUS
  <2>2. c.lines = b /\ BeforeTold(c, ref, request) /\ BeforeRight(b, bytes, ref)
    BY <1>2, <2>1
  <2>3. /\ Delivered(x, b, all, kept, more)
        /\ x.beforeTruncated = NotAllBefore(c.truncated, b, kept)
        /\ x.afterTruncated = NotAllAfter(spent, all, more)
    BY <1>4, <1>5, <2>1
  <2>4. ref.number \in Nat \ {0} /\ request.before \in Nat
    BY <1>1, RequestIs DEF RefTypes
  <2>5. ~spent => ReachesEnd(all, bytes, ref, request)
    BY <1>7
  <2>6. kept \in 0..Len(b) /\ more \in 0..(Len(all) - 1) /\ TakenRight(all, bytes, ref) /\ all # <<>>
    OBVIOUS
  <2> QED BY ONLY <2>2, <2>3, <2>4, <2>5, <2>6, b \in Seq(ContextLines), all \in Seq(ContextLines),
                  CutHidesNone
<1>8. phase' = "Done"
  BY DEF Finish
<1>9. result'.lines \in Seq(ContextLines)
  BY <1>4 DEF Delivered
<1>10. ForwardRight' /\ AnswerRight'
  BY <1>5, <1>6, <1>7, <1>8, <1>9 DEF ForwardRight, AnswerRight
<1> QED BY <1>10 DEF FileInv

\* A line that starts in the text is not behind the last one.
LEMMA NumberWithin ==
  ASSUME NEW t \in Seq(Bytes), NEW s \in Nat, s < Len(t), s > 0 => t[s] = Newline
  PROVE  NumberOf(t, s) <= Cardinality(Starts(t)) /\ Cardinality(Starts(t)) \in Nat
<1>1. Len(t) \in Nat /\ Len(t) > 0
  OBVIOUS
<1>2. s \in Starts(t)
  <2>1. s # 0 => s \in Newlines(t)
    <3>1. s # 0 => s \in 1..Len(t)
      BY <1>1
    <3> QED BY <3>1, NewlinesAre
  <2> QED BY <2>1 DEF Starts
<1> QED BY <1>1, <1>2, StartsAre

\* A step that answers nothing leaves nothing to show.
LEMMA RefusedFile ==
  ASSUME phase' = "Done", error' # None PROVE FileInv'
BY DEF FileInv, ForwardRight, AnswerRight

LEMMA NoErrorIsNone == \A e \in Errors : e # None
BY NoneAssumption

LEMMA CompleteFile ==
  ASSUME ContextInv, FileInv, Forward, NEW ended \in BOOLEAN, Complete(ended),
         ended => pos < Len(bytes) /\ bytes[pos + 1] = Newline,
         ~ended => pos >= Len(bytes) /\ raw # <<>>
  PROVE  FileInv'
<1>1. /\ UNCHANGED <<bytes, rotated, appends, rewrites, request, ref, opened, window>>
      /\ phase = "Forward"
  BY DEF Forward, file
<1>2. /\ request \in Requests /\ RefTypes /\ bytes \in Seq(Bytes) /\ raw \in Seq(Bytes)
      /\ taken \in Seq(ContextLines) /\ Short(taken, request) /\ Len(taken) <= request.after
      /\ request.after \in Nat
  BY <1>1, RequestIs DEF ContextInv, Types, LinesOK, ForwardOK
<1>3. CASE InMatchLine /\ ~KeywordSeen
  <2>1. phase' = "Done" /\ error' = "FileChanged"
    BY <1>3 DEF Complete, Refuse
  <2>2. error' # None
    BY <2>1, NoErrorIsNone DEF Errors
  <2> QED BY <2>1, <2>2, RefusedFile
<1>4. CASE rewrites # 0
  BY <1>1, <1>4 DEF FileInv
<1>5. CASE ~(InMatchLine /\ ~KeywordSeen) /\ rewrites = 0
  <2>1. PICK l \in ContextLines :
          /\ LineIs(l, ref.number + Len(taken), raw, InMatchLine, ended)
          /\ l = ForwardLine(ref.number + Len(taken), raw, InMatchLine, ended)
    BY <1>1, <1>5, TakenIs
  <2>2. PICK all : all = Append(taken, l)
    OBVIOUS
  <2>3. /\ taken' = all /\ raw' = <<>> /\ pos' = IF ended THEN pos + 1 ELSE pos
        /\ IF Len(all) = request.after + 1 THEN Finish(all, FALSE)
           ELSE UNCHANGED <<phase, before, error, result>>
    BY <1>5, <2>1, <2>2 DEF Complete
  <2>4. PICK C : C = ContextLines
    OBVIOUS
  <2>5. /\ all \in Seq(C) /\ all # <<>> /\ Len(all) = Len(taken) + 1 /\ all[Len(taken) + 1] = l
        /\ \A i \in 1..Len(taken) : all[i] = taken[i]
    <3>1. taken \in Seq(C) /\ l \in C
      BY <1>2, <2>1, <2>4
    <3> QED BY ONLY <2>2, <3>1
  <2>6. PICK p \in Nat, n \in Nat, k \in Nat, s \in Nat :
          p = pos /\ n = Len(bytes) /\ k = Len(raw) /\ s = pos - Len(raw) /\ p <= n /\ s + k = p
          /\ NoNewline(bytes, s, p) /\ 0 < n
    <3>1. (pos - Len(raw)) + Len(raw) = pos
      BY <1>1, <1>5, RawIs
    <3> QED BY <1>1, <1>5, <3>1, RawIs
  <2>7. PICK d \in Nat, a \in Nat, m \in Nat :
          d = ref.number /\ a = request.after /\ m = Len(taken) /\ m <= a
    <3>1. ref.number \in Nat /\ request.after \in Nat /\ Len(taken) \in Nat /\ Len(taken) <= request.after
      BY <1>2 DEF RefTypes
    <3> QED BY ONLY <3>1
  <2>8. /\ BeforeRight(before.lines, bytes, ref) /\ BeforeTold(before, ref, request)
        /\ TakenRight(taken, bytes, ref)
        /\ AllEnded(taken) => LineStart(bytes, s, d + m)
        /\ appends = 0 /\ ~AllEnded(taken) => raw = <<>> /\ p = n
    BY <1>1, <1>5, <2>6, <2>7 DEF FileInv, ForwardRight
  <2>9. appends = 0 => AllEnded(taken)
    <3> SUFFICES ASSUME appends = 0, ~AllEnded(taken) PROVE FALSE
      OBVIOUS
    <3>1. raw = <<>> /\ p = n
      BY <2>8
    <3>2. ended
      BY <3>1
    <3> QED BY <2>6, <3>1, <3>2
  <2>10. AllEnded(taken) => RightLine(l, bytes)
    <3> SUFFICES ASSUME AllEnded(taken) PROVE RightLine(l, bytes)
      OBVIOUS
    <3>1. LineStart(bytes, pos - Len(raw), ref.number + Len(taken))
      BY <2>6, <2>7, <2>8
    <3> QED BY <1>1, <1>5, <2>1, <3>1, TakenInFile
  <2>11. l.number = d + m /\ l.ended = ended
    BY <2>1, <2>7 DEF LineIs, HasFields
  <2>12. /\ TakenRight(all, bytes, ref) /\ (AllEnded(all) <=> AllEnded(taken) /\ l.ended)
         /\ EndedBelow(all, Len(all)) <=> AllEnded(taken)
    <3>1. ref.number \in Nat /\ l.number = ref.number + Len(taken)
      BY <2>7, <2>11
    <3>2. taken \in Seq(C)
      BY <1>2, <2>4
    <3> QED BY ONLY <2>5, <2>8, <2>10, <3>1, <3>2, TakenMore
  <2>13. Short(all, request)
    <3>1. ASSUME NEW i \in 1..(m + 1) PROVE Len(all[i].content) <= request.maxLine
      <4>1. CASE i = m + 1
        BY <2>1, <2>5, <2>7, <4>1 DEF LineIs, HasFields
      <4>2. CASE i # m + 1
        <5>1. i \in 1..m
          BY <4>2
        <5> QED BY <1>2, <2>5, <2>7, <5>1 DEF Short
      <4> QED BY <4>1, <4>2
    <3> QED BY <2>5, <2>7, <3>1 DEF Short
  <2>14. AllEnded(taken) => NumberOf(bytes, s) = d + m /\ d + m <= Cardinality(Starts(bytes))
                            /\ Cardinality(Starts(bytes)) \in Nat
    <3> SUFFICES ASSUME AllEnded(taken)
                 PROVE  NumberOf(bytes, s) = d + m /\ d + m <= Cardinality(Starts(bytes))
                        /\ Cardinality(Starts(bytes)) \in Nat
      OBVIOUS
    <3>1. s > 0 => bytes[s] = Newline
      BY <2>8 DEF LineStart
    <3>2. s < n
      <4>1. ended => p < n
        BY <2>6
      <4>2. ~ended => k > 0
        BY <1>2, <2>6
      <4> QED BY <2>6, <4>1, <4>2
    <3>3. NumberOf(bytes, s) = d + m
      BY <2>8 DEF LineStart
    <3> QED BY <1>2, <2>6, <3>1, <3>2, <3>3, NumberWithin
  <2>15. CASE Len(all) = request.after + 1
    <3>1. Finish(all, FALSE) /\ m = a
      <4>1. Finish(all, FALSE)
        BY <2>3, <2>15
      <4>2. Len(all) = m + 1 /\ Len(all) = a + 1
        BY <2>5, <2>7, <2>15
      <4>3. m = a
        BY ONLY <4>2, m \in Nat, a \in Nat
      <4> QED BY <4>1, <4>3
    <3>2. ASSUME appends = 0 PROVE ReachesEnd(all, bytes, ref, request)
      <4>1. PICK c \in Nat : c = Cardinality(Starts(bytes)) /\ d + m <= c
        BY <2>9, <2>14, <3>2
      <4>2. Min({d + a, c}) = d + a
        <5>1. d + a \in Nat /\ d + a <= c
          BY <3>1, <4>1
        <5> QED BY <5>1, SmallerOf
      <4>3. d + Len(all) - 1 = d + a
        BY <2>7, <2>15
      <4> QED BY <2>7, <4>1, <4>2, <4>3 DEF ReachesEnd
    <3>3. all \in Seq(ContextLines)
      BY <2>4, <2>5
    <3> QED BY <1>1, <1>5, <2>5, <2>8, <2>12, <2>13, <3>1, <3>2, <3>3, FinishedFile
  <2>16. CASE Len(all) # request.after + 1
    <3>1. UNCHANGED <<phase, before, error, result>>
      BY <2>3, <2>16
    <3>2. BeforeRight(before.lines, bytes, ref)' /\ BeforeTold(before, ref, request)'
      BY <1>1, <2>8, <3>1
    <3>3. TakenRight(taken, bytes, ref)'
      BY <1>1, <2>3, <2>12
    <3>4. PICK q \in Nat : q = pos' /\ q = pos' - Len(raw') /\ q = IF ended THEN p + 1 ELSE p
      <4>1. Len(raw') = 0
        BY <2>3
      <4>2. pos' = IF ended THEN p + 1 ELSE p
        BY <2>3, <2>6
      <4>3. pos' \in Nat /\ pos' - 0 = pos'
        BY <4>2
      <4> QED BY <4>1, <4>2, <4>3
    <3>5. ASSUME AllEnded(all) PROVE LineStart(bytes, q, d + Len(all))
      <4>1. AllEnded(taken) /\ ended /\ q = p + 1
        BY <2>11, <2>12, <3>4, <3>5
      <4>2. s <= p /\ p < Len(bytes) /\ bytes[p + 1] = Newline
        BY <2>6, <4>1
      <4>3. NumberOf(bytes, p + 1) = NumberOf(bytes, s) + 1
        BY <1>2, <2>6, <4>2, NextNumber
      <4>4. NumberOf(bytes, q) = d + Len(all)
        <5>1. d + Len(all) = (d + m) + 1
          BY <2>5, <2>7
        <5> QED BY <2>14, <4>1, <4>3, <5>1
      <4> QED BY <4>1, <4>2, <4>4 DEF LineStart
    <3>6. (AllEnded(taken) => LineStart(bytes, pos - Len(raw), ref.number + Len(taken)))'
      BY <1>1, <2>3, <2>7, <3>4, <3>5
    <3>7. ASSUME appends = 0, ~AllEnded(all) PROVE q = n /\ LastOfText(all, bytes, ref)
      <4>1. AllEnded(taken) /\ ~ended
        BY <2>9, <2>11, <2>12, <3>7
      <4>2. q = n /\ p = n /\ s < p
        <5>1. k > 0 /\ p >= n
          BY <1>2, <2>6, <4>1
        <5> QED BY <2>6, <3>4, <4>1, <5>1
      <4>3. bytes[n] # Newline
        <5>1. n \in (s + 1)..p
          BY <4>2
        <5> QED BY <2>6, <5>1 DEF NoNewline
      <4>4. NumberOf(bytes, n) = d + m
        <5>1. s <= p
          BY <2>6
        <5> QED BY <1>2, <2>6, <2>14, <4>1, <4>2, <5>1, SameLineNumber
      <4>5. d + m = d + Len(all) - 1
        BY <2>5, <2>7
      <4> QED BY <2>6, <2>7, <2>12, <4>1, <4>2, <4>3, <4>4, <4>5 DEF LastOfText
    <3>8. (appends = 0 /\ ~AllEnded(taken) =>
             raw = <<>> /\ pos = Len(bytes) /\ LastOfText(taken, bytes, ref))'
      BY <1>1, <2>3, <2>6, <3>4, <3>7
    <3>9. ForwardRight'
      BY <3>2, <3>3, <3>6, <3>8 DEF ForwardRight
    <3>10. AnswerRight'
      BY <1>1, <3>1 DEF AnswerRight
    <3> QED BY <3>9, <3>10 DEF FileInv
  <2> QED BY <2>15, <2>16
<1> QED BY <1>3, <1>4, <1>5

\* The match line is read from where it starts.
LEMMA EnterForwardFile ==
  ASSUME ContextInv, phase \in {"Called", "Before"},
         UNCHANGED <<bytes, appends, rewrites, request, ref, pos, raw, taken>>, phase' = "Forward",
         rewrites = 0 => BeforeRight(before'.lines, bytes, ref) /\ BeforeTold(before', ref, request)
  PROVE  FileInv'
<1>1. CASE rewrites # 0
  BY <1>1 DEF FileInv
<1>2. CASE rewrites = 0
  <2>1. pos = ref.start /\ raw = <<>> /\ taken = <<>>
    BY DEF ContextInv, NotYet
  <2>2. ref.start \in Nat /\ ref.number \in Nat
    BY DEF ContextInv, RefTypes
  <2>3. Len(taken) = 0 /\ Len(raw) = 0 /\ pos - Len(raw) = ref.start /\ ref.number + Len(taken) = ref.number
    BY <2>1, <2>2
  <2>4. TakenRight(taken, bytes, ref)
    BY <2>3 DEF TakenRight
  <2>5. AllEnded(taken)
    BY <2>3 DEF AllEnded
  <2>6. LineStart(bytes, ref.start, ref.number)
    BY <1>2 DEF ContextInv, FileKept, KeptFile, LineStart
  <2>7. LineStart(bytes, pos - Len(raw), ref.number + Len(taken))
    BY <2>3, <2>6
  <2>8. ForwardRight'
    BY <1>2, <2>4, <2>5, <2>7 DEF ForwardRight
  <2>9. AnswerRight'
    BY DEF AnswerRight
  <2> QED BY <2>8, <2>9 DEF FileInv
<1> QED BY <1>1, <1>2

LEMMA FirstNumber == ASSUME NEW t \in Seq(Bytes) PROVE NumberOf(t, 0) = 1
<1>1. PICK Z : Z = {i \in Newlines(t) : i <= 0}
  OBVIOUS
<1>2. Z = {}
  BY <1>1, NewlinesAre
<1>3. Cardinality(Z) = 0
  BY <1>2, FS_EmptySet
<1> QED BY <1>1, <1>3 DEF NumberOf

LEMMA OpenFile == ContextInv /\ Open => FileInv'
<1> SUFFICES ASSUME ContextInv, Open PROVE FileInv'
  OBVIOUS
<1>1. UNCHANGED <<bytes, rotated, appends, rewrites, request, ref, window>> /\ phase = "Called"
  BY DEF Open, file
<1>2. CASE rotated \/ Shrunk
  <2>1. phase' = "Done" /\ error' \in {"FileChanged", "SourceRegistry"}
    BY <1>2 DEF Open, Refuse
  <2>2. error' # None
    BY <2>1, NoErrorIsNone DEF Errors
  <2> QED BY <2>1, <2>2, RefusedFile
<1>3. CASE ~rotated /\ ~Shrunk
  <2>1. /\ phase' = IF request.before = 0 \/ ref.start = 0 THEN "Forward" ELSE "Before"
        /\ UNCHANGED <<before, pos, raw, taken, error, result>>
    BY <1>3 DEF Open
  <2>2. CASE request.before = 0 \/ ref.start = 0
    <3>1. phase' = "Forward"
      BY <2>1, <2>2
    <3>2. before = NoLines
      BY <1>1 DEF ContextInv, NotYet
    <3>3. before.lines = <<>> /\ before.truncated = FALSE /\ Len(before.lines) = 0
      BY <3>2 DEF NoLines
    <3>4. BeforeRight(before.lines, bytes, ref)
      BY <3>3 DEF BeforeRight
    <3>5. ASSUME rewrites = 0 PROVE BeforeTold(before, ref, request)
      <4>1. ref.number \in Nat \ {0} /\ request.before \in Nat /\ bytes \in Seq(Bytes)
        BY RequestIs DEF ContextInv, Types, RefTypes
      <4>2. ref.start = 0 => ref.number = 1
        <5>1. ref.number = NumberOf(bytes, ref.start)
          BY <3>5 DEF ContextInv, FileKept, KeptFile
        <5> QED BY <4>1, <5>1, FirstNumber
      <4>3. 0 <= request.before /\ 0 < ref.number /\ ~(0 < request.before /\ 0 + 1 < ref.number)
        BY <2>2, <4>1, <4>2
      <4> QED BY <3>3, <4>3 DEF BeforeTold
    <3> QED BY <1>1, <2>1, <3>1, <3>4, <3>5, EnterForwardFile
  <2>3. CASE ~(request.before = 0 \/ ref.start = 0)
    <3>1. phase' = "Before"
      BY <2>1, <2>3
    <3> QED BY <3>1 DEF FileInv, ForwardRight, AnswerRight
  <2> QED BY <2>2, <2>3
<1> QED BY <1>2, <1>3

\* The lines that CutWindow takes from the window are those of the file.
LEMMA BeforeInFile ==
  ASSUME request \in Requests, RefTypes, NEW t \in Seq(Bytes), ref.start <= Len(t),
         NEW w, Whole(w), PieceAt(w, t, ReadFrom), ref.number = NumberOf(t, ref.start),
         t[ref.start] = Newline, NEW x, BeforeOf(x, w)
  PROVE  BeforeRight(x.lines, t, ref) /\ BeforeTold(x, ref, request)
<1>1. PICK l \in Nat : l = Len(Block(w))
  <2>1. Len(Block(w)) \in Nat
    BY BlockIs
  <2> QED BY ONLY <2>1
<1>2. PICK c \in Nat : c = Cardinality(Kept(w)) /\ c <= request.before
  <2>1. Cardinality(Kept(w)) \in Nat /\ Cardinality(Kept(w)) <= request.before
    BY <1>1, EndsAre
  <2> QED BY ONLY <2>1
<1>3. PICK b : b = x.lines
  OBVIOUS
<1>4. /\ Len(b) = c /\ x.truncated = BeforeTruncated(c)
      /\ \A k \in 1..c : LineIs(b[k], ref.number - c + k - 1, KeptLine(w, k), FALSE, TRUE)
  BY <1>2, <1>3 DEF BeforeOf
<1>5. ASSUME NEW k \in 1..c PROVE RightLine(b[k], t) /\ b[k].number = ref.number - c + k - 1
  <2>1. PICK y : y = b[k]
    OBVIOUS
  <2>2. LineIs(y, ref.number - c + k - 1, KeptLine(w, k), FALSE, TRUE)
    BY <1>4, <2>1
  <2>3. RightLine(y, t)
    BY <1>2, <2>2, KeptLineInFile
  <2>4. y.number = ref.number - c + k - 1
    BY <2>2 DEF LineIs, HasFields
  <2> QED BY <2>1, <2>3, <2>4
<1>6. BeforeRight(b, t, ref)
  BY <1>4, <1>5 DEF BeforeRight
<1>7. c < ref.number /\ (BeforeTruncated(c) <=> c < request.before /\ c + 1 < ref.number)
  BY <1>2, BeforeToldIs
<1>8. BeforeTold(x, ref, request)
  BY <1>2, <1>3, <1>4, <1>7 DEF BeforeTold
<1> QED BY <1>3, <1>6, <1>8

LEMMA ReadBeforeFile == ContextInv /\ ReadBefore => FileInv'
<1> SUFFICES ASSUME ContextInv, ReadBefore PROVE FileInv'
  OBVIOUS
<1>1. UNCHANGED <<bytes, rotated, appends, rewrites, request, ref, opened>> /\ phase = "Before"
  BY DEF ReadBefore, file
<1>2. /\ request \in Requests /\ RefTypes /\ bytes \in Seq(Bytes) /\ window \in Seq(Bytes)
  BY DEF ContextInv, Types
<1>3. PICK s \in Nat, r \in Nat, n \in Nat, z \in Nat :
        s = ref.start /\ r = ReadFrom /\ n = Len(window) /\ z = Len(bytes)
  <2>1. ref.start \in Nat /\ ReadFrom \in Nat /\ Len(window) \in Nat /\ Len(bytes) \in Nat
    BY <1>2, WindowStartIs DEF RefTypes
  <2> QED BY ONLY <2>1
<1>4. PICK at \in Nat : at = r + n + 1 /\ at > 0
  OBVIOUS
<1>5. CASE at > z
  <2>1. phase' = "Done" /\ error' = "FileChanged"
    BY <1>3, <1>4, <1>5 DEF ReadBefore, Refuse
  <2>2. error' # None
    BY <2>1, NoErrorIsNone DEF Errors
  <2> QED BY <2>1, <2>2, RefusedFile
<1>6. CASE at <= z
  <2>1. PICK w : w = Append(window, bytes[at])
    OBVIOUS
  <2>2. /\ window' = w
        /\ IF at = ref.start THEN CutWindow(window')
           ELSE UNCHANGED <<phase, before, pos, raw, taken, error, result>>
    <3>1. ~(at > Len(bytes))
      BY <1>3, <1>6
    <3> QED BY <1>3, <1>4, <2>1, <3>1 DEF ReadBefore
  <2>3. CASE at # s
    <3>1. phase' = "Before"
      BY <1>1, <1>3, <2>2, <2>3
    <3> QED BY <3>1 DEF FileInv, ForwardRight, AnswerRight
  <2>4. CASE at = s
    <3>1. w \in Seq(Bytes) /\ Len(w) = n + 1 /\ (Unchanged => PieceAt(w, bytes, r))
      <4>1. r + Len(window) + 1 <= Len(bytes) /\ bytes[at] = bytes[r + Len(window) + 1]
        BY <1>3, <1>4, <1>6
      <4>2. Unchanged => PieceAt(window, bytes, r)
        BY <1>1, <1>3 DEF ContextInv, WindowOK
      <4>3. PICK b : b = bytes[r + Len(window) + 1] /\ w = Append(window, b)
        BY <2>1, <4>1
      <4>4. bytes \in Seq(Bytes) /\ window \in Seq(Bytes) /\ r \in Nat /\ n = Len(window)
        BY <1>2, <1>3
      <4>5. r + Len(window) + 1 <= Len(bytes) /\ b = bytes[r + Len(window) + 1]
        BY ONLY <4>1, <4>3, <4>4
      <4>6. /\ Append(window, b) \in Seq(Bytes) /\ Len(Append(window, b)) = Len(window) + 1
            /\ PieceAt(window, bytes, r) => PieceAt(Append(window, b), bytes, r)
        BY ONLY <4>4, <4>5, AppendedPiece
      <4> QED BY ONLY <4>2, <4>3, <4>4, <4>6
    <3>2. Whole(w)
      <4>1. Len(w) = s - r /\ s > 0
        BY <1>4, <2>4, <3>1
      <4> QED BY <1>3, <3>1, <4>1 DEF Whole
    <3>3. CutWindow(w)
      BY <1>3, <2>2, <2>4
    <3>4. CASE error' = "FileChanged" /\ phase' = "Done"
      <4>1. error' # None
        BY <3>4, NoErrorIsNone DEF Errors
      <4> QED BY <3>4, <4>1, RefusedFile
    <3>5. CASE BeforeOf(before', w) /\ phase' = "Forward" /\ UNCHANGED <<pos, raw, taken, error, result>>
      <4>1. ASSUME rewrites = 0
            PROVE  BeforeRight(before'.lines, bytes, ref) /\ BeforeTold(before', ref, request)
        <5>1. Unchanged /\ PieceAt(w, bytes, ReadFrom)
          BY <1>3, <3>1, <4>1, MatchInFile
        <5>2. ref.number = NumberOf(bytes, ref.start) /\ bytes[ref.start] = Newline
          <6>1. ref.start > 0
            BY <3>2 DEF Whole
          <6> QED BY <4>1, <6>1 DEF ContextInv, FileKept, KeptFile
        <5>3. ref.start <= Len(bytes)
          BY <1>3, <1>6, <2>4
        <5>4. PICK x : x = before'
          OBVIOUS
        <5>5. BeforeOf(x, w)
          BY <3>5, <5>4
        <5>6. BeforeRight(x.lines, bytes, ref) /\ BeforeTold(x, ref, request)
          BY <1>2, <3>2, <5>1, <5>2, <5>3, <5>5, BeforeInFile
        <5> QED BY <5>4, <5>6
      <4> QED BY <1>1, <3>5, <4>1, EnterForwardFile
    <3> QED BY <1>2, <3>2, <3>3, <3>4, <3>5, CutWindowIs
  <2> QED BY <2>3, <2>4
<1> QED BY <1>5, <1>6

LEMMA ReadByteFile == ContextInv /\ FileInv /\ ReadByte => FileInv'
<1> SUFFICES ASSUME ContextInv, FileInv, ReadByte PROVE FileInv'
  OBVIOUS
<1>1. /\ UNCHANGED <<bytes, rotated, appends, rewrites, request, ref, opened, window>>
      /\ phase = "Forward" /\ pos < Len(bytes)
  BY DEF ReadByte, Forward, file
<1>2. PICK b : b = bytes[pos + 1]
  OBVIOUS
<1>3. CASE Mismatch(b)
  <2>1. phase' = "Done" /\ error' = "FileChanged"
    BY <1>2, <1>3 DEF ReadByte, Refuse
  <2>2. error' # None
    BY <2>1, NoErrorIsNone DEF Errors
  <2> QED BY <2>1, <2>2, RefusedFile
<1>4. CASE rewrites # 0
  BY <1>1, <1>4 DEF FileInv
<1>5. CASE ~Mismatch(b) /\ rewrites = 0
  <2>1. raw' = Append(raw, b) /\ pos' = pos + 1 /\ UNCHANGED <<phase, before, taken, error, result>>
    BY <1>2, <1>5 DEF ReadByte
  <2>2. pos' - Len(raw') = pos - Len(raw)
    <3>1. raw \in Seq(Bytes) /\ b \in Bytes
      <4>1. bytes \in Seq(Bytes) /\ pos \in Nat /\ pos + 1 \in 1..Len(bytes) /\ raw \in Seq(Bytes)
        <5>1. bytes \in Seq(Bytes) /\ raw \in Seq(Bytes)
          BY DEF ContextInv, Types
        <5>2. pos \in Nat /\ Len(bytes) \in Nat
          BY <1>1, <1>5, RawIs
        <5> QED BY <1>1, <5>1, <5>2
      <4> QED BY <1>2, <4>1
    <3>2. Len(Append(raw, b)) = Len(raw) + 1 /\ Len(raw) \in Nat
      BY <3>1
    <3>3. pos \in Nat
      BY <1>1, <1>5, RawIs
    <3>4. (pos + 1) - (Len(raw) + 1) = pos - Len(raw)
      BY ONLY <3>2, <3>3
    <3> QED BY <2>1, <3>2, <3>4
  <2>3. appends = 0 => AllEnded(taken)
    <3> SUFFICES ASSUME appends = 0, ~AllEnded(taken) PROVE FALSE
      OBVIOUS
    <3>1. pos = Len(bytes)
      BY <1>1, <1>5 DEF FileInv, ForwardRight
    <3>2. Len(bytes) \in Nat
      BY <1>1, <1>5, RawIs
    <3> QED BY <1>1, <3>1, <3>2
  <2>4. /\ BeforeRight(before.lines, bytes, ref) /\ BeforeTold(before, ref, request)
        /\ TakenRight(taken, bytes, ref)
        /\ AllEnded(taken) => LineStart(bytes, pos - Len(raw), ref.number + Len(taken))
    BY <1>1, <1>5 DEF FileInv, ForwardRight
  <2>5. (AllEnded(taken) => LineStart(bytes, pos - Len(raw), ref.number + Len(taken)))'
    BY <1>1, <2>1, <2>2, <2>4
  <2>6. (appends = 0 => AllEnded(taken))'
    BY <1>1, <2>1, <2>3
  <2>7. (BeforeRight(before.lines, bytes, ref) /\ BeforeTold(before, ref, request)
         /\ TakenRight(taken, bytes, ref))'
    BY <1>1, <2>1, <2>4
  <2>8. ForwardRight'
    BY <2>5, <2>6, <2>7 DEF ForwardRight
  <2>9. AnswerRight'
    BY <1>1, <2>1 DEF AnswerRight
  <2> QED BY <2>8, <2>9 DEF FileInv
<1> QED BY <1>3, <1>4, <1>5

LEMMA AppendByteFile == ContextInv /\ FileInv /\ AppendByte => FileInv'
<1> SUFFICES ASSUME ContextInv, FileInv, AppendByte PROVE FileInv'
  OBVIOUS
<1>1. /\ UNCHANGED <<request, ref, phase, before, pos, raw, taken, error, result, rewrites>>
      /\ appends' = appends + 1 /\ appends \in Nat /\ phase # "Done"
  BY BoundAssumption DEF AppendByte, Others, reading, ContextInv, Types
<1>2. PICK b \in Written : bytes' = Append(bytes, b)
  BY DEF AppendByte
<1>3. bytes \in Seq(Bytes) /\ b \in Bytes
  BY TextsAssumption DEF ContextInv, Types
<1>4. PICK t, u : t = bytes /\ u = bytes'
  OBVIOUS
<1>5. t \in Seq(Bytes) /\ u \in Seq(Bytes) /\ Len(u) = Len(t) + 1 /\ Len(t) <= Len(u)
      /\ \A i \in 1..Len(t) : u[i] = t[i]
  BY <1>2, <1>3, <1>4
<1>6. CASE rewrites # 0 \/ phase # "Forward"
  BY <1>1, <1>6 DEF FileInv, ForwardRight, AnswerRight
<1>7. CASE rewrites = 0 /\ phase = "Forward"
  <2>1. /\ BeforeRight(before.lines, t, ref) /\ BeforeTold(before, ref, request)
        /\ TakenRight(taken, t, ref)
        /\ AllEnded(taken) => LineStart(t, pos - Len(raw), ref.number + Len(taken))
    BY <1>4, <1>7 DEF FileInv, ForwardRight
  <2>2. \A l : RightLine(l, t) => RightLine(l, u)
    BY <1>5, RightInLonger
  <2>3. BeforeRight(before.lines, u, ref)
    BY <2>1, <2>2 DEF BeforeRight
  <2>4. TakenRight(taken, u, ref)
    BY <2>1, <2>2 DEF TakenRight
  <2>5. ASSUME AllEnded(taken) PROVE LineStart(u, pos - Len(raw), ref.number + Len(taken))
    <3>1. PICK a \in Nat : a = pos - Len(raw) /\ a \in 0..Len(t) /\ a <= Len(u)
      <4>1. pos - Len(raw) \in Nat /\ pos \in Nat /\ Len(raw) \in Nat /\ pos <= Len(t) /\ Len(t) \in Nat
        BY <1>4, <1>7, RawIs
      <4>2. pos - Len(raw) \in 0..Len(t) /\ pos - Len(raw) <= Len(t) + 1
        BY ONLY <4>1
      <4> QED BY ONLY <1>5, <4>1, <4>2
    <3>2. \A i \in 1..a : i \in 1..Len(t)
      BY <3>1
    <3>3. NumberOf(t, a) = NumberOf(u, a)
      <4>1. \A i \in 1..a : t[i] = u[i]
        BY <1>5, <3>2
      <4> QED BY <1>5, <3>1, <4>1, SameNumber
    <3>4. LineStart(t, a, ref.number + Len(taken))
      BY <2>1, <2>5, <3>1
    <3>5. a > 0 => t[a] = u[a]
      <4>1. a > 0 => a \in 1..Len(t)
        BY <3>1
      <4> QED BY <1>5, <4>1
    <3> QED BY <3>1, <3>3, <3>4, <3>5 DEF LineStart
  <2>6. appends' # 0
    BY <1>1
  <2>7. ForwardRight'
    BY <1>1, <1>4, <2>1, <2>3, <2>4, <2>5, <2>6 DEF ForwardRight
  <2>8. AnswerRight'
    BY <1>1 DEF AnswerRight
  <2> QED BY <2>7, <2>8 DEF FileInv
<1> QED BY <1>6, <1>7

LEMMA ReadNewlineFile == ContextInv /\ FileInv /\ ReadNewline => FileInv'
<1> SUFFICES ASSUME ContextInv, FileInv, ReadNewline PROVE FileInv'
  OBVIOUS
<1>1. Forward /\ pos < Len(bytes) /\ bytes[pos + 1] = Newline /\ Complete(TRUE)
  BY DEF ReadNewline
<1> QED BY <1>1, CompleteFile

\* The end of the file behind the last line that was read: no line is left.
LEMMA EndReached ==
  ASSUME ContextInv, FileInv, phase = "Forward", rewrites = 0, appends = 0,
         raw = <<>>, taken # <<>>, pos >= Len(bytes)
  PROVE  ReachesEnd(taken, bytes, ref, request)
<1>1. bytes \in Seq(Bytes) /\ request \in Requests /\ RefTypes /\ taken \in Seq(ContextLines)
      /\ Len(taken) <= request.after
  BY DEF ContextInv, Types, LinesOK, ForwardOK
<1>2. PICK d \in Nat, a \in Nat, m \in Nat, n \in Nat :
        d = ref.number /\ a = request.after /\ m = Len(taken) /\ n = Len(bytes) /\ m <= a /\ 0 < n
        /\ pos = n /\ pos - Len(raw) = n
  <2>1. ref.number \in Nat /\ request.after \in Nat /\ Len(taken) \in Nat /\ Len(bytes) \in Nat
        /\ Len(taken) <= request.after /\ 0 < Len(bytes)
    BY <1>1, RequestIs, RawIs DEF RefTypes
  <2>2. pos = Len(bytes)
    BY <2>1, RawIs
  <2>3. pos - Len(raw) = Len(bytes)
    <3>1. Len(raw) = 0
      OBVIOUS
    <3> QED BY <2>1, <2>2, <3>1
  <2> QED BY ONLY <2>1, <2>2, <2>3
<1>3. PICK c \in Nat : c = Cardinality(Starts(bytes))
  <2>1. Cardinality(Starts(bytes)) \in Nat
    BY <1>1, <1>2, StartsAre
  <2> QED BY ONLY <2>1
<1>4. c = d + m - 1
  <2>1. CASE AllEnded(taken)
    <3>1. LineStart(bytes, n, d + m)
      BY <1>2, <2>1 DEF FileInv, ForwardRight
    <3>2. bytes[n] = Newline /\ NumberOf(bytes, n) = d + m
      BY <1>2, <3>1 DEF LineStart
    <3>3. c = (d + m) - 1
      BY <1>1, <1>2, <1>3, <3>2, StartsAre
    <3> QED BY <3>3
  <2>2. CASE ~AllEnded(taken)
    <3>1. LastOfText(taken, bytes, ref)
      BY <2>2 DEF FileInv, ForwardRight
    <3>2. bytes[n] # Newline /\ NumberOf(bytes, n) = d + m - 1
      BY <1>2, <3>1 DEF LastOfText
    <3>3. c = NumberOf(bytes, n)
      BY <1>1, <1>2, <1>3, <3>2, StartsAre
    <3> QED BY <3>2, <3>3
  <2> QED BY <2>1, <2>2
<1>5. Min({d + a, c}) = c
  <2>1. d + a \in Nat /\ ~(d + a <= c)
    BY <1>2, <1>4
  <2> QED BY <2>1, SmallerOf
<1> QED BY <1>2, <1>3, <1>4, <1>5 DEF ReachesEnd

\* Finish with the lines that there are.
LEMMA EarlyFinishFile ==
  ASSUME ContextInv, FileInv, Forward, taken # <<>>, NEW spent, Finish(taken, spent),
         spent \/ (raw = <<>> /\ pos >= Len(bytes))
  PROVE  FileInv'
<1>1. UNCHANGED <<bytes, rotated, appends, rewrites, request, ref>> /\ phase = "Forward"
  BY DEF Forward, file
<1>2. CASE rewrites # 0
  BY <1>1, <1>2 DEF FileInv
<1>3. CASE rewrites = 0
  <2>1. PICK all \in Seq(ContextLines) : all = taken
    BY DEF ContextInv, LinesOK
  <2>2. all # <<>> /\ Short(all, request) /\ Finish(all, spent)
    BY <2>1 DEF ContextInv, LinesOK
  <2>3. /\ BeforeRight(before.lines, bytes, ref) /\ BeforeTold(before, ref, request)
        /\ TakenRight(all, bytes, ref)
    BY <1>1, <1>3, <2>1 DEF FileInv, ForwardRight
  <2>4. ASSUME appends = 0, ~spent PROVE ReachesEnd(all, bytes, ref, request)
    <3>1. raw = <<>> /\ pos >= Len(bytes)
      BY <2>4
    <3> QED BY <1>1, <1>3, <2>1, <2>4, <3>1, EndReached
  <2> QED BY <1>1, <1>3, <2>2, <2>3, <2>4, FinishedFile
<1> QED BY <1>2, <1>3

LEMMA ReadEndFile == ContextInv /\ FileInv /\ ReadEnd => FileInv'
<1> SUFFICES ASSUME ContextInv, FileInv, ReadEnd PROVE FileInv'
  OBVIOUS
<1>1. Forward /\ pos >= Len(bytes)
  BY DEF ReadEnd
<1>2. CASE raw # <<>>
  <2>1. Complete(FALSE)
    BY <1>2 DEF ReadEnd
  <2> QED BY <1>1, <1>2, <2>1, CompleteFile
<1>3. CASE raw = <<>> /\ InMatchLine
  <2>1. phase' = "Done" /\ error' = "FileChanged"
    BY <1>3 DEF ReadEnd, Refuse
  <2>2. error' # None
    BY <2>1, NoErrorIsNone DEF Errors
  <2> QED BY <2>1, <2>2, RefusedFile
<1>4. CASE raw = <<>> /\ ~InMatchLine
  <2>1. Finish(taken, FALSE) /\ taken # <<>>
    BY <1>4 DEF ReadEnd, InMatchLine
  <2> QED BY <1>1, <1>4, <2>1, EarlyFinishFile
<1> QED BY <1>2, <1>3, <1>4

LEMMA BudgetSpentFile == ContextInv /\ FileInv /\ BudgetSpent => FileInv'
<1> SUFFICES ASSUME ContextInv, FileInv, BudgetSpent PROVE FileInv'
  OBVIOUS
<1>1. Forward
  BY DEF BudgetSpent
<1>2. CASE InMatchLine
  <2>1. phase' = "Done"
        /\ error' = IF KeywordSeen THEN "MatchLineScanLimit" ELSE "MatchOutsideScanBudget"
    BY <1>2 DEF BudgetSpent, Refuse
  <2>2. error' # None
    BY <2>1, NoErrorIsNone DEF Errors
  <2> QED BY <2>1, <2>2, RefusedFile
<1>3. CASE ~InMatchLine
  <2>1. Finish(taken, TRUE) /\ taken # <<>>
    BY <1>3 DEF BudgetSpent, InMatchLine
  <2> QED BY <1>1, <2>1, EarlyFinishFile
<1> QED BY <1>2, <1>3

\* Interruptions, and what is done to the file in place or at its path.
LEMMA DisturbedFile ==
  ContextInv /\ FileInv /\ (Interrupt \/ Rewrite \/ Truncate \/ Rotate \/ UNCHANGED vars) => FileInv'
<1>1. ASSUME Interrupt PROVE FileInv'
  <2>1. phase' = "Done" /\ error' = "Interrupted"
    BY <1>1 DEF Interrupt, Refuse
  <2>2. error' # None
    BY <2>1, NoErrorIsNone DEF Errors
  <2> QED BY <2>1, <2>2, RefusedFile
<1>2. ASSUME ContextInv, Rewrite \/ Truncate PROVE FileInv'
  <2>1. rewrites' = rewrites + 1 /\ rewrites \in Nat
    BY <1>2, BoundAssumption DEF Rewrite, Truncate, ContextInv, Types
  <2>2. rewrites' # 0
    BY <2>1
  <2> QED BY <2>2 DEF FileInv
<1>3. ASSUME FileInv, Rotate \/ UNCHANGED vars PROVE FileInv'
  <2>1. UNCHANGED <<bytes, appends, rewrites, request, ref, phase, before, pos, raw, taken, error, result>>
    BY <1>3 DEF Rotate, Others, vars, file, reading
  <2>2. (rewrites = 0 => ForwardRight)' <=> (rewrites = 0 => ForwardRight)
    BY <2>1 DEF ForwardRight
  <2>3. (rewrites = 0 => AnswerRight)' <=> (rewrites = 0 => AnswerRight)
    BY <2>1 DEF AnswerRight
  <2> QED BY <1>3, <2>2, <2>3 DEF FileInv
<1> QED BY <1>1, <1>2, <1>3

LEMMA InitFileInv == Init => FileInv
BY DEF Init, FileInv, ForwardRight, AnswerRight

LEMMA StepFileInv == ContextInv /\ FileInv /\ [Next]_vars => FileInv'
BY OpenFile, ReadBeforeFile, ReadByteFile, ReadNewlineFile, ReadEndFile, BudgetSpentFile,
   AppendByteFile, DisturbedFile DEF Next

LEMMA SpecFileInv == Spec => [](ContextInv /\ FileInv)
<1>1. Init => ContextInv /\ FileInv
  BY InitContextInv, InitFileInv
<1>2. ContextInv /\ FileInv /\ [Next]_vars => (ContextInv /\ FileInv)'
  BY StepContextInv, StepFileInv
<1> QED BY <1>1, <1>2, PTL DEF Spec

\* Every line of an answer, from a log that is only appended to, has the number
\* and the text that it has in the file, whatever the window, its alignment, the
\* limits and the bytes appended in between (read_before_lines, read_line,
\* read_context), up to the first line that the end of the file ended.
THEOREM LinesAsInFile == Spec => []ContextAsInFile
<1>1. ContextInv /\ FileInv => ContextAsInFile
  <2> SUFFICES ASSUME ContextInv, FileInv, phase = "Done", error = None, rewrites = 0,
                      NEW i \in DOMAIN result.lines,
                      \A j \in 1..(i - 1) : result.lines[j].ended
               PROVE  ShownAsInFile(result.lines[i])
    BY DEF ContextAsInFile, Answered
  <2>1. bytes \in Seq(Bytes)
    BY DEF ContextInv, Types
  <2>2. result.lines \in Seq(ContextLines) /\ LinesRight(result, bytes)
    BY DEF FileInv, AnswerRight
  <2>3. PICK L \in Seq(ContextLines) : L = result.lines
    BY <2>2
  <2>4. i \in 1..Len(L) /\ EndedBelow(L, i)
    BY <2>3 DEF EndedBelow
  <2>5. RightLine(L[i], bytes)
    BY <2>2, <2>3, <2>4 DEF LinesRight
  <2>6. L[i] \in ContextLines
    BY <2>4
  <2> QED BY <2>1, <2>3, <2>5, <2>6, RightIsShown
<1> QED BY <1>1, SpecFileInv, PTL

\* An answer from a file that nobody touched says that lines are missing before
\* the match exactly when some are, also when the window reached the start of the
\* file or when fewer lines fit beside the match line than were read; and without
\* afterTruncated it ends with the last line asked for or the last of the file.
THEOREM MissingLinesTold == Spec => []NothingHidden
<1>1. FileInv => NothingHidden
  BY DEF FileInv, AnswerRight, NoneHidden, NothingHidden, Answered
<1> QED BY <1>1, SpecFileInv, PTL
=============================================================================
