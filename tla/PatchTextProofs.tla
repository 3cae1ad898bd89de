---------------------------- MODULE PatchTextProofs ----------------------------
(***************************************************************************)
(* For all texts, all files and all responses: what the engine writes to a *)
(* branch is what the response asked for.  The first half is about diffs   *)
(* alone: a diff of two texts, applied to the first, gives the second, and *)
(* whatever it is applied to, it brings in no line but its added ones.     *)
(***************************************************************************)
EXTENDS PatchText, SequenceTheorems, FiniteSetTheorems, WellFoundedInduction, TLAPS

LEMMA LessIsWellFounded ==
  \E R : IsWellFoundedOn(R, Nat) /\ \A x, y \in Nat : <<y, x>> \in R <=> y < x
<1> DEFINE R == OpToRel(<, Nat)
<1>1. IsWellFoundedOn(R, Nat) BY NatLessThanWellFounded, Zenon
<1>2. \A x \in Nat, y \in Nat : <<y, x>> \in R <=> y < x BY DEF OpToRel
<1> HIDE DEF R
<1> QED BY <1>1, <1>2

LEMMA LeastNumber ==
  ASSUME NEW T, T \subseteq Nat, T # {}
  PROVE  \E x \in T : \A y \in T : x <= y
<1>1. PICK R : IsWellFoundedOn(R, Nat) /\ \A x, y \in Nat : <<y, x>> \in R <=> y < x
  BY LessIsWellFounded
<1>2. PICK x \in T : \A y \in T : ~ (<<y, x>> \in R) BY <1>1, WFMin
<1>3. \A y \in T : ~ (y < x) BY <1>1, <1>2
<1>4. \A y \in T : x <= y BY <1>3
<1> QED BY <1>4

(* Induction up to n, for what is given as a set                              *)
LEMMA Induction ==
  ASSUME NEW n \in Nat, NEW T, 0 \in T, \A k \in 1..n : k - 1 \in T => k \in T
  PROVE  \A k \in 0..n : k \in T
<1> DEFINE Bad == {k \in 0..n : k \notin T}
<1>1. ASSUME Bad # {} PROVE FALSE
  <2>0. Bad \subseteq Nat OBVIOUS
  <2>1. PICK x \in Bad : \A y \in Bad : x <= y BY <1>1, <2>0, LeastNumber
  <2>2. x # 0 BY <2>1
  <2>3. x \in 1..n /\ x - 1 \in 0..n BY <2>1, <2>2
  <2>4. x - 1 \notin Bad BY <2>1, <2>3
  <2>5. x - 1 \in T BY <2>3, <2>4
  <2> QED BY <2>1, <2>3, <2>5
<1> QED BY <1>1

(* What a fold over n elements is: every step has its result in S.            *)
Iterates(g, n, S, b, step) ==
  g \in [0..n -> S] /\ g[0] = b /\ \A k \in 1..n : g[k] = step[<<k, g[k - 1]>>]

LEMMA Iteration ==
  ASSUME NEW n \in Nat, NEW S, NEW b \in S, NEW step \in [(1..n) \X S -> S]
  PROVE  \E g : Iterates(g, n, S, b, step)
<1> DEFINE Good(g, m) == g \in [0..m -> S] /\ g[0] = b /\ \A k \in 1..m : g[k] = step[<<k, g[k - 1]>>]
           T == {m \in 0..n : \E g : Good(g, m)}
<1>1. 0 \in T
  <2>1. Good([k \in 0..0 |-> b], 0) OBVIOUS
  <2> HIDE DEF Good
  <2> QED BY <2>1
<1>2. ASSUME NEW m \in 1..n, m - 1 \in T PROVE m \in T
  <2>1. PICK g : Good(g, m - 1) BY <1>2
  <2> DEFINE h == [k \in 0..m |-> IF k = m THEN step[<<m, g[m - 1]>>] ELSE g[k]]
  <2>2. m - 1 \in 0..m - 1 /\ g[m - 1] \in S BY <2>1
  <2>3. step[<<m, g[m - 1]>>] \in S BY <2>2
  <2>4. \A k \in 0..m : h[k] \in S BY <2>1, <2>3
  <2>5. h \in [0..m -> S] BY <2>4
  <2>6. h[0] = b BY <2>1
  <2>7. ASSUME NEW k \in 1..m PROVE h[k] = step[<<k, h[k - 1]>>]
    <3>1. k - 1 \in 0..m /\ k - 1 # m /\ h[k - 1] = g[k - 1] OBVIOUS
    <3>2. CASE k = m BY <3>1, <3>2
    <3>3. CASE k # m
      <4>1. k \in 1..m - 1 BY <3>3
      <4> QED BY <3>1, <3>3, <4>1, <2>1
    <3> QED BY <3>2, <3>3
  <2>8. Good(h, m) BY <2>5, <2>6, <2>7
  <2> HIDE DEF Good, h
  <2> QED BY <2>8
<1> HIDE DEF T
<1>3. n \in T BY <1>1, <1>2, Induction
<1>4. PICK g : Good(g, n) BY <1>3 DEF T
<1>5. Iterates(g, n, S, b, step) BY <1>4 DEF Iterates
<1> QED BY <1>5

-----------------------------------------------------------------------------
(* Numbers in order *)

Increasing(h, n) == \A i, j \in 1..n : i < j => h[i] < h[j]
Lists(h, n, S) == h \in [1..n -> S] /\ Increasing(h, n) /\ \A x \in S : \E k \in 1..n : h[k] = x

LEMMA Counted ==
  ASSUME NEW n \in Nat, NEW S, NEW h \in [1..n -> S],
         \A i, j \in 1..n : h[i] = h[j] => i = j, \A x \in S : \E k \in 1..n : h[k] = x
  PROVE  IsFiniteSet(S) /\ Cardinality(S) = n
<1>1. h \in Bijection(1..n, S) BY DEF Bijection, Injection, Surjection, IsInjective
<1>2. ExistsBijection(1..n, S) BY <1>1 DEF ExistsBijection
<1> QED BY <1>2, FS_CountingElements, FS_NatBijection

(* A list of the numbers in S is the list.                                    *)
LEMMA InOrderIs ==
  ASSUME NEW n \in Nat, NEW S, S \subseteq Int, NEW h, Lists(h, n, S)
  PROVE  InOrder(S) = h
<1>0. /\ h \in [1..n -> S] /\ \A x \in S : \E k \in 1..n : h[k] = x
      /\ \A i, j \in 1..n : i < j => h[i] < h[j]
      /\ \A i \in 1..n : h[i] \in Int
  BY DEF Lists, Increasing
<1>1. \A i, j \in 1..n : h[i] < h[j] => i < j
  <2> SUFFICES ASSUME NEW i \in 1..n, NEW j \in 1..n, h[i] < h[j], ~ (i < j) PROVE FALSE OBVIOUS
  <2>1. CASE i = j BY <2>1, <1>0
  <2>2. CASE i # j
    <3>1. h[j] < h[i] BY <2>2, <1>0
    <3> QED BY <3>1, <1>0
  <2> QED BY <2>1, <2>2
<1>2. \A i, j \in 1..n : h[i] = h[j] => i = j
  <2> SUFFICES ASSUME NEW i \in 1..n, NEW j \in 1..n, h[i] = h[j], i # j PROVE FALSE OBVIOUS
  <2>1. h[i] < h[j] \/ h[j] < h[i] BY <1>0
  <2> QED BY <2>1, <1>0
<1>3. Cardinality(S) = n BY <1>0, <1>2, Counted
<1> DEFINE rank(i) == Cardinality({j \in S : j < i})
<1>4. ASSUME NEW k \in 1..n PROVE rank(h[k]) = k - 1
  <2> DEFINE below == {j \in S : j < h[k]}
             g == [i \in 1..k - 1 |-> h[i]]
  <2>1. \A i \in 1..k - 1 : h[i] \in below BY <1>0
  <2>2. g \in [1..k - 1 -> below] BY <2>1
  <2>3. \A x \in below : \E i \in 1..k - 1 : g[i] = x
    <3> SUFFICES ASSUME NEW x \in below PROVE \E i \in 1..k - 1 : g[i] = x OBVIOUS
    <3>1. PICK i \in 1..n : h[i] = x BY <1>0
    <3>2. i < k BY <3>1, <1>1
    <3> QED BY <3>1, <3>2
  <2>4. \A i, j \in 1..k - 1 : g[i] = g[j] => i = j BY <1>2
  <2>5. k - 1 \in Nat OBVIOUS
  <2> HIDE DEF below, g
  <2>6. Cardinality(below) = k - 1 BY <2>2, <2>3, <2>4, <2>5, Counted
  <2> QED BY <2>6 DEF below
<1>5. ASSUME NEW k \in 1..n PROVE (CHOOSE i \in S : rank(i) = k - 1) = h[k]
  <2> HIDE DEF rank
  <2>1. h[k] \in S /\ rank(h[k]) = k - 1 BY <1>0, <1>4
  <2>2. \A i \in S : rank(i) = k - 1 => i = h[k]
    <3> SUFFICES ASSUME NEW i \in S, rank(i) = k - 1 PROVE i = h[k] OBVIOUS
    <3>1. PICK l \in 1..n : h[l] = i BY <1>0
    <3>2. l - 1 = k - 1 BY <3>1, <1>4
    <3> QED BY <3>1, <3>2
  <2> QED BY <2>1, <2>2
<1>6. InOrder(S) = [k \in 1..n |-> CHOOSE i \in S : rank(i) = k - 1] BY <1>3 DEF InOrder
<1> HIDE DEF rank
<1>7. h = [k \in 1..n |-> h[k]] BY <1>0
<1> QED BY <1>5, <1>6, <1>7

LEMMA ListExists ==
  ASSUME NEW n \in Nat, NEW S, S \subseteq 1..n
  PROVE  \E l \in Nat : \E h : Lists(h, l, S)
<1> DEFINE T == {m \in 0..n : \E l \in Nat : \E h : Lists(h, l, S \cap (1..m))}
<1>1. 0 \in T
  <2>1. S \cap (1..0) = {} OBVIOUS
  <2>2. Lists([k \in 1..0 |-> 0], 0, {}) BY DEF Lists, Increasing
  <2> QED BY <2>1, <2>2
<1>2. ASSUME NEW m \in 1..n, m - 1 \in T PROVE m \in T
  <2>1. PICK l \in Nat : \E h : Lists(h, l, S \cap (1..m - 1)) BY <1>2
  <2>2. PICK h : Lists(h, l, S \cap (1..m - 1)) BY <2>1
  <2>3. CASE m \notin S
    <3>1. S \cap (1..m) = S \cap (1..m - 1) BY <2>3
    <3> QED BY <2>2, <3>1
  <2>4. CASE m \in S
    <3> DEFINE g == [k \in 1..l + 1 |-> IF k = l + 1 THEN m ELSE h[k]]
    <3>1. /\ h \in [1..l -> S \cap (1..m - 1)] /\ \A i, j \in 1..l : i < j => h[i] < h[j]
          /\ \A x \in S \cap (1..m - 1) : \E k \in 1..l : h[k] = x
      BY <2>2 DEF Lists, Increasing
    <3>2. \A k \in 1..l : h[k] \in 1..m - 1 /\ h[k] \in S BY <3>1
    <3>3. \A k \in 1..l : k \in 1..l + 1 /\ g[k] = h[k] OBVIOUS
    <3>4. l + 1 \in 1..l + 1 /\ g[l + 1] = m OBVIOUS
    <3>5. \A k \in 1..l + 1 : k = l + 1 \/ k \in 1..l OBVIOUS
    <3>6. g \in [1..l + 1 -> S \cap (1..m)]
      <4>1. \A k \in 1..l + 1 : g[k] \in S \cap (1..m) BY <2>4, <3>2, <3>3, <3>4, <3>5
      <4> QED BY <4>1
    <3> HIDE DEF g
    <3>7. ASSUME NEW i \in 1..l + 1, NEW j \in 1..l + 1, i < j PROVE g[i] < g[j]
      <4>1. i \in 1..l BY <3>7
      <4>2. CASE j \in 1..l BY <3>1, <3>3, <3>7, <4>1, <4>2
      <4>3. CASE j = l + 1 BY <3>2, <3>3, <3>4, <4>1, <4>3
      <4> QED BY <4>2, <4>3, <3>5
    <3>8. ASSUME NEW x \in S \cap (1..m) PROVE \E k \in 1..l + 1 : g[k] = x
      <4>1. CASE x = m BY <3>4, <4>1
      <4>2. CASE x # m
        <5>1. x \in S \cap (1..m - 1) BY <4>2
        <5> QED BY <3>1, <3>3, <5>1
      <4> QED BY <4>1, <4>2
    <3>9. Lists(g, l + 1, S \cap (1..m)) BY <3>6, <3>7, <3>8 DEF Lists, Increasing
    <3> QED BY <3>9
  <2> QED BY <2>3, <2>4
<1> HIDE DEF T
<1>3. n \in T BY <1>1, <1>2, Induction
<1>4. S \cap (1..n) = S OBVIOUS
<1> QED BY <1>3, <1>4 DEF T

LEMMA InOrderFacts ==
  ASSUME NEW n \in Nat, NEW S, S \subseteq 1..n
  PROVE  \E l \in Nat : Lists(InOrder(S), l, S)
<1>1. PICK l \in Nat : \E h : Lists(h, l, S) BY ListExists
<1>2. PICK h : Lists(h, l, S) BY <1>1
<1>3. S \subseteq Int OBVIOUS
<1>4. InOrder(S) = h BY <1>2, <1>3, InOrderIs
<1> QED BY <1>2, <1>4

-----------------------------------------------------------------------------
(* Pieces put together *)

(* flat is the pieces of s one after the other: o[k] is where piece k ends.   *)
Laid(o, s, flat) ==
  /\ o \in [0..Len(s) -> Nat] /\ o[0] = 0 /\ Len(flat) = o[Len(s)]
  /\ \A k \in 1..Len(s) : o[k] = o[k - 1] + Len(s[k])
  /\ \A k \in 1..Len(s) : \A i \in 1..Len(s[k]) :
       o[k - 1] + i \in 1..Len(flat) /\ flat[o[k - 1] + i] = s[k][i]
  /\ \A x \in 1..Len(flat) : \E k \in 1..Len(s) : \E i \in 1..Len(s[k]) : x = o[k - 1] + i

Joined(f, s, n, Q) ==
  /\ f \in [0..n -> Q] /\ f[0] = <<>>
  /\ \A k \in 1..n : f[k] = f[k - 1] \o s[k]

Closed(Q) == <<>> \in Q /\ \A x, y \in Q : x \o y \in Q /\ <<>> \o x = x
SeqOfThem(s, n, Q) == n = Len(s) /\ (n = 0 => s = <<>>) /\ \A k \in 1..n : s[k] \in Q

LEMMA FlattenJoined ==
  ASSUME NEW Q, Closed(Q), NEW n \in Nat, NEW s, SeqOfThem(s, n, Q)
  PROVE  \E f : Joined(f, s, n, Q) /\ FlattenSeq(s) = f[n]
<1>0. n = Len(s) BY DEF SeqOfThem
<1> DEFINE step == [x \in (1..n) \X Q |-> x[2] \o s[x[1]]]
<1>1. \A k \in 1..n : s[k] \in Q BY DEF SeqOfThem
<1>2. step \in [(1..n) \X Q -> Q]
  <2>1. ASSUME NEW x \in (1..n) \X Q PROVE x[2] \o s[x[1]] \in Q
    <3>1. x[1] \in 1..n /\ x[2] \in Q BY <2>1
    <3> QED BY <3>1, <1>1 DEF Closed
  <2> QED BY <2>1
<1>3. <<>> \in Q BY DEF Closed
<1> DEFINE empty == <<>>
<1> HIDE DEF step, empty
<1>e. empty \in Q BY <1>3 DEF empty
<1>h. PICK g : Iterates(g, n, Q, empty, step) BY <1>2, <1>e, Iteration
<1>4. g \in [0..n -> Q] /\ g[0] = empty /\ \A k \in 1..n : g[k] = step[<<k, g[k - 1]>>]
  BY <1>h DEF Iterates
<1>f. g[0] = <<>> BY <1>4 DEF empty
<1>5. ASSUME NEW k \in 1..n PROVE g[k] = g[k - 1] \o s[k]
  <2>1. k - 1 \in 0..n /\ g[k - 1] \in Q BY <1>4
  <2>2. <<k, g[k - 1]>> \in (1..n) \X Q BY <2>1
  <2> QED BY <1>4, <2>1, <2>2 DEF step
<1>6. Joined(g, s, n, Q) BY <1>4, <1>f, <1>5 DEF Joined
<1>g. ASSUME NEW k \in 1..n, k = 1 PROVE g[k] = s[k]
  <2>1. g[k] = g[k - 1] \o s[k] BY <1>5
  <2>2. k - 1 = 0 BY <1>g
  <2>3. s[k] \in Q BY <1>1
  <2> QED BY <2>1, <2>2, <2>3, <1>f DEF Closed
<1>7. CASE n = 0
  <2>1. s = <<>> BY <1>7 DEF SeqOfThem
  <2> QED BY <1>0, <1>f, <1>6, <1>7, <2>1 DEF FlattenSeq
<1>8. CASE n # 0
  <2> DEFINE flatten[i \in 1..n] == IF i = 1 THEN s[i] ELSE flatten[i - 1] \o s[i]
             f0 == [i \in 1..n |-> g[i]]
             Flattens(f) == f = [i \in 1..n |-> IF i = 1 THEN s[i] ELSE f[i - 1] \o s[i]]
  <2>1. FlattenSeq(s) = flatten[n] BY <1>0, <1>8 DEF FlattenSeq
  <2>2. flatten = CHOOSE f : Flattens(f) OBVIOUS
  <2>3. Flattens(f0)
    <3>1. ASSUME NEW i \in 1..n PROVE g[i] = IF i = 1 THEN s[i] ELSE f0[i - 1] \o s[i]
      <4>1. CASE i = 1 BY <4>1, <1>g
      <4>2. CASE i # 1
        <5>1. i - 1 \in 1..n /\ f0[i - 1] = g[i - 1] BY <4>2, <1>1
        <5> QED BY <4>2, <5>1, <1>5
      <4> QED BY <4>1, <4>2
    <3> QED BY <3>1
  <2> HIDE DEF flatten, Flattens, f0
  <2>4. Flattens(flatten) BY <2>2, <2>3
  <2>5. \A i \in 1..n : flatten[i] = IF i = 1 THEN s[i] ELSE flatten[i - 1] \o s[i]
    BY <2>4 DEF Flattens
  <2> DEFINE T == {k \in 0..n : k = 0 \/ flatten[k] = g[k]}
  <2>6. 0 \in T BY <1>1
  <2>7. ASSUME NEW k \in 1..n, k - 1 \in T PROVE k \in T
    <3>1. CASE k = 1
      <4>1. flatten[k] = s[k] BY <3>1, <2>5
      <4> QED BY <3>1, <4>1, <1>g
    <3>2. CASE k # 1
      <4>1. flatten[k - 1] = g[k - 1] BY <2>7, <3>2
      <4>2. flatten[k] = g[k - 1] \o s[k] BY <3>2, <4>1, <2>5
      <4>3. g[k] = g[k - 1] \o s[k] BY <1>5
      <4>4. flatten[k] = g[k] BY <4>2, <4>3
      <4> QED BY <4>4
    <3> QED BY <3>1, <3>2
  <2> HIDE DEF T
  <2>a. n \in 0..n OBVIOUS
  <2>8. n \in T BY <2>a, <2>6, <2>7, Induction
  <2>9. FlattenSeq(s) = g[n] BY <2>1, <2>8, <1>8 DEF T
  <2> QED BY <1>0, <1>6, <2>9
<1> QED BY <1>7, <1>8

LEMMA FlattenLaid ==
  ASSUME NEW S, NEW s \in Seq(Seq(S))
  PROVE  FlattenSeq(s) \in Seq(S) /\ \E o : Laid(o, s, FlattenSeq(s))
<1>0. PICK n \in Nat : n = Len(s) BY LenProperties
<1>a. SeqOfThem(s, n, Seq(S)) BY <1>0, ElementOfSeq, EmptySeq DEF SeqOfThem
<1>b. Closed(Seq(S)) BY EmptySeq, ConcatProperties, ConcatEmptySeq DEF Closed
<1>1. PICK f : Joined(f, s, n, Seq(S)) /\ FlattenSeq(s) = f[n] BY <1>a, <1>b, FlattenJoined
<1> DEFINE o == [k \in 0..n |-> Len(f[k])]
<1>2. n \in Nat /\ \A k \in 1..n : s[k] \in Seq(S) /\ Len(s[k]) \in Nat BY <1>0, ElementOfSeq, LenProperties
<1>3. /\ f \in [0..n -> Seq(S)] /\ f[0] = <<>>
      /\ \A k \in 1..n : f[k] = f[k - 1] \o s[k]
  BY <1>0, <1>1 DEF Joined
<1>4. \A k \in 0..n : f[k] \in Seq(S) /\ o[k] = Len(f[k]) /\ o[k] \in Nat BY <1>3, LenProperties
<1>5. o \in [0..n -> Nat] /\ o[0] = 0 BY <1>2, <1>3, <1>4, EmptySeq
<1> HIDE DEF o
<1>6. ASSUME NEW k \in 1..n
      PROVE  /\ o[k] = o[k - 1] + Len(s[k]) /\ k - 1 \in 0..n
             /\ \A x \in 1..o[k] : f[k][x] = IF x <= o[k - 1] THEN f[k - 1][x] ELSE s[k][x - o[k - 1]]
  <2>1. k - 1 \in 0..n /\ f[k - 1] \in Seq(S) /\ k \in 0..n BY <1>2, <1>4
  <2>2. /\ Len(f[k - 1] \o s[k]) = Len(f[k - 1]) + Len(s[k])
        /\ \A i \in 1..Len(f[k - 1]) + Len(s[k]) : (f[k - 1] \o s[k])[i] =
             IF i <= Len(f[k - 1]) THEN f[k - 1][i] ELSE s[k][i - Len(f[k - 1])]
    BY <2>1, <1>2, ConcatProperties
  <2>3. Len(f[k - 1]) = o[k - 1] /\ Len(f[k]) = o[k] BY <2>1, <1>4
  <2> QED BY <2>1, <2>2, <2>3, <1>3
<1> DEFINE Parts(m) ==
             /\ \A k \in 1..m : \A i \in 1..Len(s[k]) :
                  o[k - 1] + i \in 1..o[m] /\ f[m][o[k - 1] + i] = s[k][i]
             /\ \A x \in 1..o[m] : \E k \in 1..m : \E i \in 1..Len(s[k]) : x = o[k - 1] + i
           T == {m \in 0..n : Parts(m)}
<1>7. 0 \in T BY <1>2, <1>5
<1>8. ASSUME NEW m \in 1..n, m - 1 \in T PROVE m \in T
  <2>0. Parts(m - 1) /\ m - 1 \in 0..n BY <1>8
  <2>a. o[m - 1] \in Nat /\ o[m] = o[m - 1] + Len(s[m]) /\ Len(s[m]) \in Nat BY <1>4, <1>6, <1>2
  <2>b. PICK y, z : y = o[m - 1] /\ z = Len(s[m]) OBVIOUS
  <2>c. y \in Nat /\ z \in Nat /\ o[m] = y + z BY <2>a, <2>b
  <2>1. ASSUME NEW k \in 1..m, NEW i \in 1..Len(s[k])
        PROVE  o[k - 1] + i \in 1..o[m] /\ f[m][o[k - 1] + i] = s[k][i]
    <3>0. k \in 1..n /\ k - 1 \in 0..n /\ o[k - 1] \in Nat /\ Len(s[k]) \in Nat BY <1>2, <1>4
    <3>1. CASE k = m
      <4>1. o[k - 1] + i \in 1..o[m] /\ ~ (o[k - 1] + i <= o[m - 1]) BY <2>a, <3>0, <3>1
      <4>2. (o[k - 1] + i) - o[m - 1] = i BY <3>0, <3>1
      <4> QED BY <3>1, <4>1, <4>2, <1>6
    <3>2. CASE k # m
      <4>1. k \in 1..m - 1 BY <3>2
      <4>2. o[k - 1] + i \in 1..o[m - 1] /\ f[m - 1][o[k - 1] + i] = s[k][i] BY <2>0, <4>1
      <4>3. PICK x : x = o[k - 1] + i OBVIOUS
      <4>4. x \in 1..y BY <4>2, <4>3, <2>b
      <4>5. x \in 1..y + z /\ x <= y
        <5>1. y \in Nat /\ z \in Nat BY <2>c
        <5> QED BY <5>1, <4>4
      <4>7. f[m][x] = f[m - 1][x] BY <4>5, <2>b, <2>c, <1>6
      <4> QED BY <4>2, <4>3, <4>5, <4>7, <2>c
    <3> QED BY <3>1, <3>2
  <2>2. ASSUME NEW x \in 1..o[m] PROVE \E k \in 1..m : \E i \in 1..Len(s[k]) : x = o[k - 1] + i
    <3>1. CASE x \in 1..o[m - 1]
      <4>1. PICK k \in 1..m - 1 : \E i \in 1..Len(s[k]) : x = o[k - 1] + i BY <2>0, <3>1
      <4> QED BY <4>1
    <3>2. CASE x \notin 1..o[m - 1]
      <4>1. x \in 1..y + z /\ x \notin 1..y BY <2>b, <2>c, <3>2
      <4>2. x - y \in 1..z /\ x = y + (x - y) BY <2>c, <4>1
      <4> QED BY <4>2, <2>b
    <3> QED BY <3>1, <3>2
  <2> HIDE DEF Parts
  <2>3. Parts(m) BY <2>1, <2>2 DEF Parts
  <2> QED BY <2>3
<1> HIDE DEF T
<1>d. n \in 0..n OBVIOUS
<1>9. n \in T BY <1>d, <1>7, <1>8, Induction, Zenon
<1>10. Parts(n) /\ FlattenSeq(s) \in Seq(S) /\ Len(FlattenSeq(s)) = o[n] BY <1>0, <1>1, <1>2, <1>4, <1>9 DEF T
<1>11. \A k \in 1..n : o[k] = o[k - 1] + Len(s[k]) BY <1>6
<1> DEFINE flat == FlattenSeq(s)
<1>12. /\ \A k \in 1..n : \A i \in 1..Len(s[k]) :
            o[k - 1] + i \in 1..Len(flat) /\ flat[o[k - 1] + i] = s[k][i]
       /\ \A x \in 1..Len(flat) : \E k \in 1..n : \E i \in 1..Len(s[k]) : x = o[k - 1] + i
  <2>1. Parts(n) BY <1>10
  <2> HIDE DEF Parts
  <2>2. f[n] = flat /\ o[n] = Len(flat) BY <1>1, <1>10
  <2> HIDE DEF flat
  <2> QED BY <2>1, <2>2 DEF Parts
<1>13. Laid(o, s, flat) BY <1>0, <1>5, <1>10, <1>11, <1>12 DEF Laid
<1> QED BY <1>10, <1>13
-----------------------------------------------------------------------------
(* The edit script *)

LEMMA Prepended ==
  ASSUME NEW S, NEW e \in S, NEW rest \in Seq(S)
  PROVE  /\ <<e>> \o rest \in Seq(S) /\ Len(<<e>> \o rest) = Len(rest) + 1
         /\ (<<e>> \o rest)[1] = e /\ \A p \in 1..Len(rest) : (<<e>> \o rest)[p + 1] = rest[p]
<1>1. <<e>> \in Seq(S) /\ Len(<<e>>) = 1 /\ <<e>>[1] = e OBVIOUS
<1>2. Len(rest) \in Nat BY LenProperties
<1>3. /\ <<e>> \o rest \in Seq(S) /\ Len(<<e>> \o rest) = 1 + Len(rest)
      /\ \A i \in 1..1 + Len(rest) : (<<e>> \o rest)[i] = IF i <= 1 THEN <<e>>[i] ELSE rest[i - 1]
  BY <1>1, ConcatProperties
<1>4. 1 \in 1..1 + Len(rest) /\ 1 <= 1 BY <1>2
<1>5. ASSUME NEW p \in 1..Len(rest) PROVE (<<e>> \o rest)[p + 1] = rest[p]
  <2>1. p + 1 \in 1..1 + Len(rest) /\ ~ (p + 1 <= 1) /\ (p + 1) - 1 = p BY <1>2
  <2> QED BY <2>1, <1>3
<1> QED BY <1>1, <1>2, <1>3, <1>4, <1>5

(* One step of the recursion of EditScript, for n old and m new tokens        *)
Grid(n, m) == (1..(n + 1)) \X (1..(m + 1))
EditBody(f, s, t, n, m, x) ==
  LET i == x[1]
      j == x[2]
      del == Edit("-", s[i], f[<<i + 1, j>>])
      add == Edit("+", t[j], f[<<i, j + 1>>])
  IN IF i > n /\ j > m THEN <<>>
     ELSE IF i > n THEN add
     ELSE IF j > m THEN del
     ELSE IF s[i] = t[j] THEN Edit(" ", s[i], f[<<i + 1, j + 1>>])
     ELSE IF Len(del) <= Len(add) THEN del ELSE add
Edits(f, s, t, n, m) == f = [x \in Grid(n, m) |-> EditBody(f, s, t, n, m, x)]
Beyond(x) == {<<x[1] + 1, x[2]>>, <<x[1], x[2] + 1>>, <<x[1] + 1, x[2] + 1>>}

LEMMA EditLocal ==
  ASSUME NEW n \in Nat, NEW m \in Nat, NEW x \in Grid(n, m), NEW s, NEW t, NEW f, NEW g,
         \A y \in Grid(n, m) \cap Beyond(x) : f[y] = g[y]
  PROVE  EditBody(f, s, t, n, m, x) = EditBody(g, s, t, n, m, x)
<1> DEFINE i == x[1]
           j == x[2]
<1>1. i \in 1..n + 1 /\ j \in 1..m + 1 BY DEF Grid
<1>2. i <= n => <<i + 1, j>> \in Grid(n, m) \cap Beyond(x) BY <1>1 DEF Grid, Beyond
<1>3. j <= m => <<i, j + 1>> \in Grid(n, m) \cap Beyond(x) BY <1>1 DEF Grid, Beyond
<1>4. i <= n /\ j <= m => <<i + 1, j + 1>> \in Grid(n, m) \cap Beyond(x) BY <1>1 DEF Grid, Beyond
<1>5. /\ i <= n => f[<<i + 1, j>>] = g[<<i + 1, j>>]
      /\ j <= m => f[<<i, j + 1>>] = g[<<i, j + 1>>]
      /\ i <= n /\ j <= m => f[<<i + 1, j + 1>>] = g[<<i + 1, j + 1>>]
  BY <1>2, <1>3, <1>4
<1>6. (i > n <=> ~ (i <= n)) /\ (j > m <=> ~ (j <= m)) BY <1>1
<1> HIDE DEF i, j
<1>7. CASE i <= n /\ j <= m BY <1>5, <1>6, <1>7 DEF EditBody, i, j
<1>8. CASE i <= n /\ ~ (j <= m) BY <1>5, <1>6, <1>8 DEF EditBody, i, j
<1>9. CASE ~ (i <= n) /\ j <= m BY <1>5, <1>6, <1>9 DEF EditBody, i, j
<1>10. CASE ~ (i <= n) /\ ~ (j <= m) BY <1>6, <1>10 DEF EditBody, i, j
<1> QED BY <1>7, <1>8, <1>9, <1>10

(* The pairs that are fewer than k steps from the end                         *)
Near(n, m, k) == {x \in Grid(n, m) : (n + 1 - x[1]) + (m + 1 - x[2]) < k}

LEMMA NearFacts ==
  ASSUME NEW n \in Nat, NEW m \in Nat
  PROVE  /\ Near(n, m, 0) = {} /\ Near(n, m, n + m + 1) = Grid(n, m)
         /\ \A k \in 1..n + m + 1 : Near(n, m, k - 1) \subseteq Near(n, m, k)
         /\ \A k \in 1..n + m + 1 : \A x \in Near(n, m, k) :
              Grid(n, m) \cap Beyond(x) \subseteq Near(n, m, k - 1)
<1>0. \A x \in Grid(n, m) : x[1] \in 1..n + 1 /\ x[2] \in 1..m + 1 BY DEF Grid
<1>1. Near(n, m, 0) = {} BY <1>0 DEF Near
<1>2. Near(n, m, n + m + 1) = Grid(n, m) BY <1>0 DEF Near
<1>3. ASSUME NEW k \in 1..n + m + 1 PROVE Near(n, m, k - 1) \subseteq Near(n, m, k) BY <1>0 DEF Near
<1>4. ASSUME NEW k \in 1..n + m + 1, NEW x \in Near(n, m, k), NEW y \in Grid(n, m) \cap Beyond(x)
      PROVE  y \in Near(n, m, k - 1)
  <2>1. x[1] \in 1..n + 1 /\ x[2] \in 1..m + 1 /\ (n + 1 - x[1]) + (m + 1 - x[2]) < k BY <1>0 DEF Near
  <2>2. y[1] \in 1..n + 1 /\ y[2] \in 1..m + 1 BY <1>0
  <2>3. y = <<x[1] + 1, x[2]>> \/ y = <<x[1], x[2] + 1>> \/ y = <<x[1] + 1, x[2] + 1>> BY DEF Beyond
  <2>4. y[1] + y[2] > x[1] + x[2] BY <2>1, <2>3
  <2>5. (n + 1 - y[1]) + (m + 1 - y[2]) < k - 1 BY <2>1, <2>2, <2>4
  <2> QED BY <2>5 DEF Near
<1> QED BY <1>1, <1>2, <1>3, <1>4

LEMMA EditsExist ==
  ASSUME NEW n \in Nat, NEW m \in Nat, NEW s, NEW t
  PROVE  \E f : Edits(f, s, t, n, m)
<1> DEFINE Solves(f, k) == \A x \in Near(n, m, k) : f[x] = EditBody(f, s, t, n, m, x)
           T == {k \in 0..n + m + 1 : \E f : Solves(f, k)}
<1>1. 0 \in T BY NearFacts
<1>2. ASSUME NEW k \in 1..n + m + 1, k - 1 \in T PROVE k \in T
  <2>1. PICK f : Solves(f, k - 1) BY <1>2
  <2> DEFINE g == [x \in Near(n, m, k) |-> IF x \in Near(n, m, k - 1) THEN f[x] ELSE EditBody(f, s, t, n, m, x)]
  <2>2. \A x \in Near(n, m, k - 1) : x \in Near(n, m, k) /\ g[x] = f[x] BY NearFacts
  <2>3. ASSUME NEW x \in Near(n, m, k) PROVE g[x] = EditBody(g, s, t, n, m, x)
    <3>1. g[x] = EditBody(f, s, t, n, m, x) BY <2>1
    <3>2. \A y \in Grid(n, m) \cap Beyond(x) : f[y] = g[y] BY <2>2, NearFacts
    <3>3. x \in Grid(n, m) BY DEF Near
    <3> HIDE DEF g
    <3>4. EditBody(f, s, t, n, m, x) = EditBody(g, s, t, n, m, x) BY <3>2, <3>3, EditLocal
    <3> QED BY <3>1, <3>4
  <2> HIDE DEF g
  <2>4. Solves(g, k) BY <2>3
  <2> HIDE DEF Solves
  <2> QED BY <2>4
<1> HIDE DEF T
<1>3. n + m + 1 \in Nat /\ n + m + 1 \in 0..n + m + 1 OBVIOUS
<1>4. n + m + 1 \in T BY <1>1, <1>2, <1>3, Induction
<1>5. PICK f : Solves(f, n + m + 1) BY <1>4 DEF T
<1>6. \A x \in Grid(n, m) : f[x] = EditBody(f, s, t, n, m, x) BY <1>5, NearFacts
<1> DEFINE h == [x \in Grid(n, m) |-> f[x]]
<1>7. ASSUME NEW x \in Grid(n, m) PROVE h[x] = EditBody(h, s, t, n, m, x)
  <2>1. \A y \in Grid(n, m) \cap Beyond(x) : f[y] = h[y] OBVIOUS
  <2>2. h[x] = f[x] OBVIOUS
  <2> HIDE DEF h
  <2>3. EditBody(f, s, t, n, m, x) = EditBody(h, s, t, n, m, x) BY <2>1, EditLocal
  <2> QED BY <2>2, <2>3, <1>6
<1>8. h = [x \in Grid(n, m) |-> h[x]] OBVIOUS
<1> HIDE DEF h
<1>9. Edits(h, s, t, n, m) BY <1>7, <1>8 DEF Edits
<1> QED BY <1>9
(* What an edit does at old token x[1] and new token x[2], and where it leads *)
Op(Tok) == [mark : {" ", "+", "-"}, tok : Tok]
Moves(op, x, y, s, t, n, m) ==
  \/ /\ op.mark = " " /\ x[1] <= n /\ x[2] <= m /\ y = <<x[1] + 1, x[2] + 1>>
     /\ op.tok = s[x[1]] /\ op.tok = t[x[2]]
  \/ op.mark = "-" /\ x[1] <= n /\ y = <<x[1] + 1, x[2]>> /\ op.tok = s[x[1]]
  \/ op.mark = "+" /\ x[2] <= m /\ y = <<x[1], x[2] + 1>> /\ op.tok = t[x[2]]
Track(c, ops, s, t, n, m, x) ==
  /\ c \in [1..Len(ops) + 1 -> Grid(n, m)] /\ c[1] = x /\ c[Len(ops) + 1] = <<n + 1, m + 1>>
  /\ \A p \in 1..Len(ops) : Moves(ops[p], c[p], c[p + 1], s, t, n, m)
Walks(ops, s, t, n, m, Tok, x) == ops \in Seq(Op(Tok)) /\ \E c : Track(c, ops, s, t, n, m, x)

LEMMA WalkBack ==
  ASSUME NEW n \in Nat, NEW m \in Nat, NEW Tok, NEW s, NEW t, NEW op \in Op(Tok), NEW rest,
         NEW x \in Grid(n, m), NEW y \in Grid(n, m),
         Walks(rest, s, t, n, m, Tok, y), Moves(op, x, y, s, t, n, m)
  PROVE  Walks(<<op>> \o rest, s, t, n, m, Tok, x)
<1>1. PICK c : Track(c, rest, s, t, n, m, y) BY DEF Walks
<1>2. rest \in Seq(Op(Tok)) BY DEF Walks
<1>3. PICK ops : ops = <<op>> \o rest OBVIOUS
<1>4. PICK l \in Nat : l = Len(rest) BY <1>2, LenProperties
<1>5. /\ ops \in Seq(Op(Tok)) /\ Len(ops) = l + 1
      /\ ops[1] = op /\ \A p \in 1..l : ops[p + 1] = rest[p]
  BY <1>2, <1>3, <1>4, Prepended
<1>6. /\ c \in [1..l + 1 -> Grid(n, m)] /\ c[1] = y /\ c[l + 1] = <<n + 1, m + 1>>
      /\ \A p \in 1..l : Moves(rest[p], c[p], c[p + 1], s, t, n, m)
  BY <1>1, <1>4 DEF Track
<1> DEFINE e == [p \in 1..(l + 1) + 1 |-> IF p = 1 THEN x ELSE c[p - 1]]
<1>7. \A p \in 1..l + 1 : p + 1 \in 1..(l + 1) + 1 /\ e[p + 1] = c[p] OBVIOUS
<1>8. e[1] = x OBVIOUS
<1>9. e \in [1..(l + 1) + 1 -> Grid(n, m)]
  <2>1. \A p \in 1..(l + 1) + 1 : p = 1 \/ p - 1 \in 1..l + 1 OBVIOUS
  <2>2. \A p \in 1..(l + 1) + 1 : e[p] \in Grid(n, m) BY <2>1, <1>6
  <2> QED BY <2>2
<1> HIDE DEF e
<1>10. l + 1 \in 1..l + 1 OBVIOUS
<1>11. e[(l + 1) + 1] = <<n + 1, m + 1>> BY <1>6, <1>7, <1>10
<1>12. ASSUME NEW p \in 1..l + 1 PROVE Moves(ops[p], e[p], e[p + 1], s, t, n, m)
  <2>1. CASE p = 1
    <3>1. e[p + 1] = c[p] /\ c[p] = y BY <1>6, <1>7, <2>1
    <3> QED BY <1>5, <1>8, <2>1, <3>1
  <2>2. CASE p # 1
    <3>1. p - 1 \in 1..l /\ p - 1 \in 1..l + 1 /\ (p - 1) + 1 = p BY <2>2
    <3>2. ops[p] = rest[p - 1] BY <1>5, <3>1
    <3>3. e[p] = c[p - 1] BY <1>7, <3>1
    <3>4. e[p + 1] = c[p] BY <1>7
    <3>5. Moves(rest[p - 1], c[p - 1], c[p], s, t, n, m) BY <1>6, <3>1
    <3> QED BY <3>2, <3>3, <3>4, <3>5
  <2> QED BY <2>1, <2>2
<1>13. Track(e, ops, s, t, n, m, x) BY <1>5, <1>8, <1>9, <1>11, <1>12 DEF Track
<1>14. Walks(ops, s, t, n, m, Tok, x) BY <1>5, <1>13 DEF Walks
<1> QED BY <1>3, <1>14

LEMMA WalkEnds ==
  ASSUME NEW n \in Nat, NEW m \in Nat, NEW Tok, NEW s, NEW t
  PROVE  Walks(<<>>, s, t, n, m, Tok, <<n + 1, m + 1>>)
<1> DEFINE c == [p \in 1..1 |-> <<n + 1, m + 1>>]
<1>1. <<>> \in Seq(Op(Tok)) /\ Len(<<>>) = 0 BY EmptySeq
<1>2. <<n + 1, m + 1>> \in Grid(n, m) BY DEF Grid
<1>3. c \in [1..0 + 1 -> Grid(n, m)] BY <1>2
<1>4. c[1] = <<n + 1, m + 1>> /\ c[0 + 1] = <<n + 1, m + 1>> OBVIOUS
<1> HIDE DEF c
<1>5. Track(c, <<>>, s, t, n, m, <<n + 1, m + 1>>) BY <1>1, <1>3, <1>4 DEF Track
<1> QED BY <1>1, <1>5 DEF Walks

LEMMA BodyWalks ==
  ASSUME NEW n \in Nat, NEW m \in Nat, NEW Tok, NEW s \in [1..n -> Tok], NEW t \in [1..m -> Tok],
         NEW x \in Grid(n, m), NEW f,
         \A y \in Grid(n, m) \cap Beyond(x) : Walks(f[y], s, t, n, m, Tok, y)
  PROVE  Walks(EditBody(f, s, t, n, m, x), s, t, n, m, Tok, x)
<1>1. PICK i \in 1..n + 1, j \in 1..m + 1 : x = <<i, j>> BY DEF Grid
<1>2. x[1] = i /\ x[2] = j BY <1>1
<1> DEFINE right == <<i + 1, j>>
           down == <<i, j + 1>>
           both == <<i + 1, j + 1>>
           del == Edit("-", s[i], f[right])
           add == Edit("+", t[j], f[down])
           keep == Edit(" ", s[i], f[both])
<1>3. ASSUME i <= n PROVE Walks(del, s, t, n, m, Tok, x)
  <2>1. right \in Grid(n, m) /\ right \in Beyond(x) /\ i \in 1..n BY <1>2, <1>3 DEF Grid, Beyond
  <2> DEFINE op == [mark |-> "-", tok |-> s[i]]
  <2>2. op \in Op(Tok) BY <2>1 DEF Op
  <2>3. Moves(op, x, right, s, t, n, m) BY <1>2, <1>3 DEF Moves
  <2>4. Walks(f[right], s, t, n, m, Tok, right) BY <2>1
  <2> HIDE DEF op, right
  <2>5. Walks(<<op>> \o f[right], s, t, n, m, Tok, x) BY <2>1, <2>2, <2>3, <2>4, WalkBack
  <2> QED BY <2>5 DEF op, Edit
<1>4. ASSUME j <= m PROVE Walks(add, s, t, n, m, Tok, x)
  <2>1. down \in Grid(n, m) /\ down \in Beyond(x) /\ j \in 1..m BY <1>2, <1>4 DEF Grid, Beyond
  <2> DEFINE op == [mark |-> "+", tok |-> t[j]]
  <2>2. op \in Op(Tok) BY <2>1 DEF Op
  <2>3. Moves(op, x, down, s, t, n, m) BY <1>2, <1>4 DEF Moves
  <2>4. Walks(f[down], s, t, n, m, Tok, down) BY <2>1
  <2> HIDE DEF op, down
  <2>5. Walks(<<op>> \o f[down], s, t, n, m, Tok, x) BY <2>1, <2>2, <2>3, <2>4, WalkBack
  <2> QED BY <2>5 DEF op, Edit
<1>5. ASSUME i <= n, j <= m, s[i] = t[j] PROVE Walks(keep, s, t, n, m, Tok, x)
  <2>1. both \in Grid(n, m) /\ both \in Beyond(x) /\ i \in 1..n BY <1>2, <1>5 DEF Grid, Beyond
  <2> DEFINE op == [mark |-> " ", tok |-> s[i]]
  <2>2. op \in Op(Tok) BY <2>1 DEF Op
  <2>3. Moves(op, x, both, s, t, n, m) BY <1>2, <1>5 DEF Moves
  <2>4. Walks(f[both], s, t, n, m, Tok, both) BY <2>1
  <2> HIDE DEF op, both
  <2>5. Walks(<<op>> \o f[both], s, t, n, m, Tok, x) BY <2>1, <2>2, <2>3, <2>4, WalkBack
  <2> QED BY <2>5 DEF op, Edit
<1>6. EditBody(f, s, t, n, m, x) =
        IF i > n /\ j > m THEN <<>> ELSE IF i > n THEN add ELSE IF j > m THEN del
        ELSE IF s[i] = t[j] THEN keep ELSE IF Len(del) <= Len(add) THEN del ELSE add
  BY <1>2 DEF EditBody
<1>7. (i > n <=> ~ (i <= n)) /\ (j > m <=> ~ (j <= m)) OBVIOUS
<1>8. ~ (i <= n) /\ ~ (j <= m) => x = <<n + 1, m + 1>> BY <1>1
<1> HIDE DEF right, down, both, del, add, keep
<1> QED BY <1>3, <1>4, <1>5, <1>6, <1>7, <1>8, WalkEnds

LEMMA EditsWalk ==
  ASSUME NEW n \in Nat, NEW m \in Nat, NEW Tok, NEW s \in [1..n -> Tok], NEW t \in [1..m -> Tok],
         NEW f, Edits(f, s, t, n, m)
  PROVE  \A x \in Grid(n, m) : Walks(f[x], s, t, n, m, Tok, x)
<1> DEFINE T == {k \in 0..n + m + 1 : \A x \in Near(n, m, k) : Walks(f[x], s, t, n, m, Tok, x)}
<1>0. 0 \in 0..n + m + 1 /\ Near(n, m, 0) = {} BY NearFacts
<1>1. 0 \in T BY <1>0
<1>2. ASSUME NEW k \in 1..n + m + 1, k - 1 \in T PROVE k \in T
  <2>1. ASSUME NEW x \in Near(n, m, k) PROVE Walks(f[x], s, t, n, m, Tok, x)
    <3>1. x \in Grid(n, m) BY DEF Near
    <3>2. \A y \in Grid(n, m) \cap Beyond(x) : Walks(f[y], s, t, n, m, Tok, y) BY <1>2, NearFacts
    <3>3. Walks(EditBody(f, s, t, n, m, x), s, t, n, m, Tok, x) BY <3>1, <3>2, BodyWalks
    <3>4. f[x] = EditBody(f, s, t, n, m, x) BY <3>1 DEF Edits
    <3> QED BY <3>3, <3>4
  <2> QED BY <2>1
<1> HIDE DEF T
<1>3. n + m + 1 \in Nat /\ n + m + 1 \in 0..n + m + 1 OBVIOUS
<1>4. n + m + 1 \in T BY <1>1, <1>2, <1>3, Induction
<1> QED BY <1>4, NearFacts DEF T

(* The script of two texts leads from the first tokens past the last ones.    *)
LEMMA ScriptWalks ==
  ASSUME NEW old, NEW new, NEW n \in Nat, NEW m \in Nat, NEW Tok,
         Tokens(old) \in [1..n -> Tok], Len(Tokens(old)) = n,
         Tokens(new) \in [1..m -> Tok], Len(Tokens(new)) = m
  PROVE  Walks(EditScript(old, new), Tokens(old), Tokens(new), n, m, Tok, <<1, 1>>)
<1> DEFINE f == CHOOSE f : Edits(f, Tokens(old), Tokens(new), n, m)
<1>1. EditScript(old, new) = f[<<1, 1>>] BY DEF EditScript, Edits, EditBody, Grid
<1>2. Edits(f, Tokens(old), Tokens(new), n, m) BY EditsExist
<1> HIDE DEF f
<1>3. <<1, 1>> \in Grid(n, m) BY DEF Grid
<1>4. Walks(f[<<1, 1>>], Tokens(old), Tokens(new), n, m, Tok, <<1, 1>>) BY <1>2, <1>3, EditsWalk
<1> QED BY <1>1, <1>4
-----------------------------------------------------------------------------
(* The hunks *)

(* The number of tokens of a text                                             *)
Units(c) == IF EndsWithNewline(c) THEN Len(c) - 1 ELSE Len(c)
Token == [line : Lines, nl : BOOLEAN]

LEMMA TokenFacts ==
  ASSUME NEW c, IsText(c)
  PROVE  /\ Units(c) \in Nat /\ Units(c) \in {Len(c) - 1, Len(c)} /\ Len(c) \in Nat \ {0}
         /\ Tokens(c) \in [1..Units(c) -> Token] /\ Len(Tokens(c)) = Units(c)
         /\ \A i \in 1..Units(c) : Tokens(c)[i].line = c[i] /\ i \in 1..Len(c)
<1>1. c \in Seq(Lines) /\ c # <<>> BY DEF IsText
<1>2. Len(c) \in Nat \ {0} /\ \A i \in 1..Len(c) : c[i] \in Lines BY <1>1, EmptySeq, ElementOfSeq
<1>3. PICK n \in Nat \ {0} : n = Len(c) BY <1>2
<1>4. CASE EndsWithNewline(c)
  <2>1. n - 1 \in Nat OBVIOUS
  <2>2. Tokens(c) = [i \in 1..(n - 1) |-> [line |-> c[i], nl |-> TRUE]] BY <1>3, <1>4 DEF Tokens
  <2>3. \A i \in 1..(n - 1) : c[i] \in Lines /\ i \in 1..n BY <1>2, <1>3
  <2>4. Tokens(c) \in [1..(n - 1) -> Token] BY <2>2, <2>3 DEF Token
  <2>5. Len(Tokens(c)) = n - 1 BY <2>1, <2>2
  <2>6. \A i \in 1..(n - 1) : Tokens(c)[i].line = c[i] BY <2>2
  <2>7. Units(c) = n - 1 BY <1>3, <1>4 DEF Units
  <2> QED BY <1>3, <2>1, <2>3, <2>4, <2>5, <2>6, <2>7
<1>5. CASE ~ EndsWithNewline(c)
  <2>2. Tokens(c) = [i \in 1..n |-> [line |-> c[i], nl |-> i < n]] BY <1>3, <1>5 DEF Tokens
  <2>3. \A i \in 1..n : c[i] \in Lines BY <1>2, <1>3
  <2>4. Tokens(c) \in [1..n -> Token] BY <2>2, <2>3 DEF Token
  <2>5. Len(Tokens(c)) = n BY <2>2
  <2>6. \A i \in 1..n : Tokens(c)[i].line = c[i] BY <2>2
  <2>7. Units(c) = n BY <1>3, <1>5 DEF Units
  <2> QED BY <1>3, <2>3, <2>4, <2>5, <2>6, <2>7
<1> QED BY <1>4, <1>5

(* A hunk header's numbers are those of the tokens the script is at.          *)
CountBut(ops, k, mark) == Cardinality({q \in 1..k : ops[q].mark # mark})

LEMMA CountOneMore ==
  ASSUME NEW ops, NEW mark, NEW k \in Nat \ {0}
  PROVE  /\ CountBut(ops, k - 1, mark) \in Nat
         /\ CountBut(ops, k, mark) = CountBut(ops, k - 1, mark) + (IF ops[k].mark = mark THEN 0 ELSE 1)
         /\ CountBut(ops, 0, mark) = 0
<1> DEFINE S(l) == {q \in 1..l : ops[q].mark # mark}
<1>1. IsFiniteSet(1..k - 1) BY FS_Interval
<1>2. S(k - 1) \in SUBSET (1..k - 1) OBVIOUS
<1>3. IsFiniteSet(S(k - 1)) BY <1>1, <1>2, FS_Subset
<1>4. S(k) = IF ops[k].mark = mark THEN S(k - 1) ELSE S(k - 1) \cup {k} OBVIOUS
<1>5. k \notin S(k - 1) OBVIOUS
<1>6. S(0) = {} OBVIOUS
<1>7. CountBut(ops, k, mark) = Cardinality(S(k)) /\ CountBut(ops, k - 1, mark) = Cardinality(S(k - 1))
      /\ CountBut(ops, 0, mark) = Cardinality(S(0))
  BY DEF CountBut
<1> HIDE DEF S
<1>8. Cardinality(S(k - 1)) \in Nat /\ Cardinality(S(k - 1) \cup {k}) = Cardinality(S(k - 1)) + 1
  BY <1>3, <1>5, FS_AddElement, FS_CardinalityType
<1>9. Cardinality(S(0)) = 0 BY <1>6, FS_EmptySet
<1> QED BY <1>4, <1>7, <1>8, <1>9

LEMMA Numbers ==
  ASSUME NEW n \in Nat, NEW m \in Nat, NEW s, NEW t, NEW ops, NEW c, NEW l \in Nat, l = Len(ops),
         Track(c, ops, s, t, n, m, <<1, 1>>)
  PROVE  \A p \in 1..l : 1 + CountBut(ops, p - 1, "+") = c[p][1] /\ 1 + CountBut(ops, p - 1, "-") = c[p][2]
<1>1. /\ c \in [1..l + 1 -> Grid(n, m)] /\ c[1] = <<1, 1>>
      /\ \A p \in 1..l : Moves(ops[p], c[p], c[p + 1], s, t, n, m)
  BY DEF Track
<1> DEFINE Fits(k) == 1 + CountBut(ops, k, "+") = c[k + 1][1] /\ 1 + CountBut(ops, k, "-") = c[k + 1][2]
           T == {k \in 0..l : Fits(k)}
<1>2. 0 \in T
  <2>0. 1 \in Nat \ {0} OBVIOUS
  <2>1. CountBut(ops, 0, "+") = 0 /\ CountBut(ops, 0, "-") = 0 BY <2>0, CountOneMore
  <2>2. 0 + 1 = 1 /\ c[0 + 1] = <<1, 1>> BY <1>1
  <2> QED BY <2>1, <2>2
<1>3. ASSUME NEW k \in 1..l, k - 1 \in T PROVE k \in T
  <2>1. Fits(k - 1) /\ (k - 1) + 1 = k BY <1>3
  <2>2. k \in 1..l + 1 /\ k + 1 \in 1..l + 1 /\ k \in Nat \ {0} OBVIOUS
  <2>3. c[k] \in Grid(n, m) BY <1>1, <2>2
  <2>4. c[k][1] \in Nat /\ c[k][2] \in Nat BY <2>3 DEF Grid
  <2>5. Moves(ops[k], c[k], c[k + 1], s, t, n, m) BY <1>1
  <2>6. /\ c[k + 1][1] = c[k][1] + (IF ops[k].mark = "+" THEN 0 ELSE 1)
        /\ c[k + 1][2] = c[k][2] + (IF ops[k].mark = "-" THEN 0 ELSE 1)
    <3>1. PICK i \in Nat, j \in Nat : c[k][1] = i /\ c[k][2] = j BY <2>4
    <3>2. CASE ops[k].mark = " "
      <4>1. c[k + 1] = <<i + 1, j + 1>> BY <2>5, <3>1, <3>2 DEF Moves
      <4>2. c[k + 1][1] = i + 1 /\ c[k + 1][2] = j + 1 BY <4>1
      <4>3. ops[k].mark # "+" /\ ops[k].mark # "-" BY <3>2
      <4> QED BY <3>1, <4>2, <4>3
    <3>3. CASE ops[k].mark = "-"
      <4>1. c[k + 1] = <<i + 1, j>> BY <2>5, <3>1, <3>3 DEF Moves
      <4> QED BY <3>1, <3>3, <4>1
    <3>4. CASE ops[k].mark = "+"
      <4>1. c[k + 1] = <<i, j + 1>> BY <2>5, <3>1, <3>4 DEF Moves
      <4> QED BY <3>1, <3>4, <4>1
    <3> QED BY <2>5, <3>2, <3>3, <3>4 DEF Moves
  <2>7. /\ CountBut(ops, k, "+") = CountBut(ops, k - 1, "+") + (IF ops[k].mark = "+" THEN 0 ELSE 1)
        /\ CountBut(ops, k, "-") = CountBut(ops, k - 1, "-") + (IF ops[k].mark = "-" THEN 0 ELSE 1)
        /\ CountBut(ops, k - 1, "+") \in Nat /\ CountBut(ops, k - 1, "-") \in Nat
    BY <2>2, CountOneMore
  <2>8. 1 + CountBut(ops, k - 1, "+") = c[k][1] /\ 1 + CountBut(ops, k - 1, "-") = c[k][2] BY <2>1
  <2>9. Fits(k) BY <2>6, <2>7, <2>8
  <2> QED BY <2>9
<1> HIDE DEF Fits
<1>4. \A k \in 0..l : Fits(k) 
  <2> HIDE DEF T
  <2>1. \A k \in 0..l : k \in T BY <1>2, <1>3, Induction
  <2> QED BY <2>1 DEF T
<1>5. ASSUME NEW p \in 1..l PROVE Fits(p - 1) /\ (p - 1) + 1 = p BY <1>4
<1> QED BY <1>5 DEF Fits
(* What a step of the script becomes                                          *)
Marks == {" ", "+", "-", "@@", "\\", "git", "new", "deleted"}
AnyLine == [mark : Marks, line : Lines \cup Paths, at : Nat, to : Nat]
HunkMarks == {" ", "+", "-", "@@", "\\"}
HunkLine == [mark : HunkMarks, line : Lines, at : Nat, to : Nat]
NoNewline == DiffLine("\\", Blank)
Shown(ops) ==
  {p \in DOMAIN ops : \E q \in (p - Context)..(p + Context) : q \in DOMAIN ops /\ ops[q].mark # " "}
Head1(ops, p) ==
  IF p - 1 \in Shown(ops) THEN <<>>
  ELSE <<HunkHeader(1 + CountBut(ops, p - 1, "+"), 1 + CountBut(ops, p - 1, "-"))>>
Line1(ops, p) == <<DiffLine(ops[p].mark, ops[p].tok.line)>>
Last1(ops, p) == IF ops[p].tok.nl THEN <<>> ELSE <<NoNewline>>
Piece(ops, p) == IF p \notin Shown(ops) THEN <<>> ELSE Head1(ops, p) \o Line1(ops, p) \o Last1(ops, p)

LEMMA HunksArePieces ==
  ASSUME NEW old, NEW new, NEW ops, ops = EditScript(old, new)
  PROVE  Hunks(old, new) = FlattenSeq([p \in DOMAIN ops |-> Piece(ops, p)])
BY DEF Hunks, Piece, Head1, Line1, Last1, Shown, CountBut, NoNewline

LEMMA LineTypes ==
  /\ NoNewline \in HunkLine
  /\ \A mark \in HunkMarks, line \in Lines : DiffLine(mark, line) \in HunkLine
  /\ \A a, b \in Nat : HunkHeader(a, b) \in HunkLine
  /\ \A mark \in Marks, line \in Lines \cup Paths : DiffLine(mark, line) \in AnyLine
  /\ HunkLine \subseteq AnyLine
<1>1. Blank \in Lines BY DiffAssumption
<1>2. \A mark \in Marks, line \in Lines \cup Paths : DiffLine(mark, line) \in AnyLine
  BY DEF AnyLine, DiffLine
<1>3. \A mark \in HunkMarks, line \in Lines : DiffLine(mark, line) \in HunkLine
  BY DEF HunkLine, DiffLine
<1>4. "\\" \in HunkMarks /\ "@@" \in HunkMarks BY DEF HunkMarks
<1>5. \A a, b \in Nat : HunkHeader(a, b) \in HunkLine BY <1>1, <1>4 DEF HunkLine, HunkHeader
<1>6. HunkMarks \subseteq Marks BY DEF HunkMarks, Marks
<1>7. HunkLine \subseteq AnyLine BY <1>6 DEF HunkLine, AnyLine
<1> QED BY <1>1, <1>2, <1>3, <1>4, <1>5, <1>7 DEF NoNewline

LEMMA ThreePieces ==
  ASSUME NEW S, NEW a \in Seq(S), NEW b \in Seq(S), NEW e \in S
  PROVE  /\ a \o <<e>> \o b \in Seq(S) /\ Len(a \o <<e>> \o b) = Len(a) + 1 + Len(b)
         /\ \A i \in 1..Len(a) : (a \o <<e>> \o b)[i] = a[i]
         /\ (a \o <<e>> \o b)[Len(a) + 1] = e
         /\ \A i \in 1..Len(b) : (a \o <<e>> \o b)[Len(a) + 1 + i] = b[i]
<1>1. <<e>> \in Seq(S) /\ Len(<<e>>) = 1 /\ <<e>>[1] = e OBVIOUS
<1>2. PICK x \in Nat, y \in Nat : x = Len(a) /\ y = Len(b) BY LenProperties
<1>3. PICK u : u = a \o <<e>> OBVIOUS
<1>4. /\ u \in Seq(S) /\ Len(u) = x + 1
      /\ \A i \in 1..x + 1 : u[i] = IF i <= x THEN a[i] ELSE <<e>>[i - x]
  BY <1>1, <1>2, <1>3, ConcatProperties
<1>5. PICK v : v = u \o b OBVIOUS
<1>6. /\ v \in Seq(S) /\ Len(v) = x + 1 + y
      /\ \A i \in 1..x + 1 + y : v[i] = IF i <= x + 1 THEN u[i] ELSE b[i - (x + 1)]
  BY <1>2, <1>4, <1>5, ConcatProperties
<1>7. \A i \in 1..x : v[i] = a[i]
  <2>1. \A i \in 1..x : i \in 1..x + 1 + y /\ i <= x + 1 /\ i \in 1..x + 1 /\ i <= x OBVIOUS
  <2> QED BY <2>1, <1>4, <1>6
<1>8. v[x + 1] = e
  <2>1. x + 1 \in 1..x + 1 + y /\ x + 1 <= x + 1 /\ x + 1 \in 1..x + 1 /\ ~ (x + 1 <= x) /\ (x + 1) - x = 1
    OBVIOUS
  <2> QED BY <2>1, <1>1, <1>4, <1>6
<1>9. \A i \in 1..y : v[x + 1 + i] = b[i]
  <2>1. \A i \in 1..y : x + 1 + i \in 1..x + 1 + y /\ ~ (x + 1 + i <= x + 1) /\ (x + 1 + i) - (x + 1) = i
    OBVIOUS
  <2> QED BY <2>1, <1>6
<1> QED BY <1>2, <1>3, <1>5, <1>6, <1>7, <1>8, <1>9

PieceOf(q, ops, p, x) ==
  /\ q \in Seq(HunkLine)
  /\ p \notin Shown(ops) => Len(q) = 0
  /\ p \in Shown(ops) =>
       \E h \in {0, 1}, e \in {0, 1} :
         /\ Len(q) = h + 1 + e
         /\ h = 1 <=> p - 1 \notin Shown(ops)
         /\ e = 1 <=> ~ ops[p].tok.nl
         /\ h = 1 => q[1] = HunkHeader(x[1], x[2])
         /\ q[h + 1] = DiffLine(ops[p].mark, ops[p].tok.line)
         /\ e = 1 => q[h + 1 + 1] = NoNewline

LEMMA PieceFacts ==
  ASSUME NEW ops, NEW p, ops[p] \in Op(Token), NEW xy, NEW a \in Nat, NEW b \in Nat, xy = <<a, b>>,
         a = 1 + CountBut(ops, p - 1, "+"), b = 1 + CountBut(ops, p - 1, "-")
  PROVE  PieceOf(Piece(ops, p), ops, p, xy)
<1>1. ops[p].mark \in {" ", "+", "-"} /\ ops[p].tok.line \in Lines /\ ops[p].tok.nl \in BOOLEAN
  BY DEF Op, Token
<1>2. ops[p].mark \in HunkMarks BY <1>1 DEF HunkMarks
<1>3. PICK line \in HunkLine : line = DiffLine(ops[p].mark, ops[p].tok.line) BY <1>1, <1>2, LineTypes
<1>4. PICK header \in HunkLine : header = HunkHeader(a, b) BY LineTypes
<1>5. PICK x : x = Head1(ops, p) OBVIOUS
<1>6. PICK z : z = Last1(ops, p) OBVIOUS
<1>7. /\ x \in Seq(HunkLine)
      /\ p - 1 \in Shown(ops) => Len(x) = 0
      /\ p - 1 \notin Shown(ops) => Len(x) = 1 /\ x[1] = header
  <2>1. CASE p - 1 \in Shown(ops)
    <3>1. x = <<>> BY <2>1, <1>5 DEF Head1
    <3> QED BY <2>1, <3>1, EmptySeq
  <2>2. CASE p - 1 \notin Shown(ops)
    <3>1. x = <<header>> BY <2>2, <1>4, <1>5 DEF Head1
    <3> QED BY <2>2, <3>1
  <2> QED BY <2>1, <2>2
<1>8. /\ z \in Seq(HunkLine)
      /\ ops[p].tok.nl => Len(z) = 0
      /\ ~ ops[p].tok.nl => Len(z) = 1 /\ z[1] = NoNewline
  <2>1. CASE ops[p].tok.nl
    <3>1. z = <<>> BY <2>1, <1>6 DEF Last1
    <3> QED BY <2>1, <3>1, EmptySeq
  <2>2. CASE ~ ops[p].tok.nl
    <3>1. z = <<NoNewline>> BY <2>2, <1>6 DEF Last1
    <3>2. NoNewline \in HunkLine BY LineTypes
    <3> QED BY <2>2, <3>1, <3>2
  <2> QED BY <2>1, <2>2
<1>9. CASE p \notin Shown(ops)
  <2>1. Piece(ops, p) = <<>> BY <1>9 DEF Piece
  <2> QED BY <1>9, <2>1, EmptySeq DEF PieceOf
<1>10. CASE p \in Shown(ops)
  <2>1. PICK v : v = x \o <<line>> \o z OBVIOUS
  <2>2. Piece(ops, p) = v BY <1>3, <1>5, <1>6, <1>10, <2>1 DEF Piece, Line1
  <2>3. /\ v \in Seq(HunkLine) /\ Len(v) = Len(x) + 1 + Len(z)
        /\ \A i \in 1..Len(x) : v[i] = x[i]
        /\ v[Len(x) + 1] = line
        /\ \A i \in 1..Len(z) : v[Len(x) + 1 + i] = z[i]
    BY <1>7, <1>8, <2>1, ThreePieces
  <2> DEFINE h == IF p - 1 \in Shown(ops) THEN 0 ELSE 1
             e == IF ops[p].tok.nl THEN 0 ELSE 1
  <2>4. Len(x) = h /\ Len(z) = e /\ h \in {0, 1} /\ e \in {0, 1} BY <1>7, <1>8
  <2>5. h = 1 => v[1] = header
    <3>1. h = 1 => 1 \in 1..Len(x) BY <2>4
    <3>2. h = 1 => x[1] = header BY <1>7
    <3> QED BY <3>1, <3>2, <2>3
  <2>6. e = 1 => v[h + 1 + 1] = NoNewline
    <3>1. e = 1 => 1 \in 1..Len(z) BY <2>4
    <3>2. e = 1 => z[1] = NoNewline BY <1>8
    <3> QED BY <3>1, <3>2, <2>3, <2>4
  <2>7. (h = 1 <=> p - 1 \notin Shown(ops)) /\ (e = 1 <=> ~ ops[p].tok.nl) OBVIOUS
  <2>8. Len(v) = h + 1 + e /\ v[h + 1] = line BY <2>3, <2>4
  <2> HIDE DEF h, e
  <2>9. xy[1] = a /\ xy[2] = b OBVIOUS
  <2>10. PieceOf(v, ops, p, xy)
    BY <1>3, <1>4, <1>10, <2>3, <2>4, <2>5, <2>6, <2>7, <2>8, <2>9 DEF PieceOf
  <2> QED BY <2>2, <2>10
<1> QED BY <1>9, <1>10
DrawnStep(d, before, after, open, op, x) ==
  \E h \in {0, 1}, e \in {0, 1} :
    /\ after = before + h + 1 + e /\ after <= Len(d)
    /\ h = 1 <=> ~ open
    /\ e = 1 <=> ~ op.tok.nl
    /\ h = 1 => d[before + 1] = HunkHeader(x[1], x[2])
    /\ d[before + h + 1] = DiffLine(op.mark, op.tok.line)
    /\ e = 1 => d[before + h + 1 + 1] = NoNewline
(* The lines of d after line z + 1 show the steps of ops: those of step p end *)
(* at line o[p].                                                              *)
Drawn(d, z, o, ops, c, l) ==
  /\ o \in [0..l -> Nat] /\ o[0] = z + 1
  /\ \A p \in 1..l : p \notin Shown(ops) => o[p] = o[p - 1]
  /\ \A p \in 1..l : p \in Shown(ops) => DrawnStep(d, o[p - 1], o[p], p - 1 \in Shown(ops), ops[p], c[p])

LEMMA HiddenStays ==
  ASSUME NEW ops, NEW p \in DOMAIN ops, p \in Int, p \notin Shown(ops)
  PROVE  ops[p].mark = " "
<1>1. p \in (p - Context)..(p + Context) BY DiffAssumption
<1> QED BY <1>1 DEF Shown

(* c follows the script ops of old and new, of length l.                      *)
Script(ops, c, l, old, new) ==
  /\ IsText(old) /\ IsText(new) /\ ops = EditScript(old, new)
  /\ ops \in Seq(Op(Token)) /\ l = Len(ops)
  /\ Track(c, ops, Tokens(old), Tokens(new), Units(old), Units(new), <<1, 1>>)

LEMMA ModifyDrawn ==
  ASSUME NEW old, NEW new, NEW path \in Paths, NEW d, d = ModifyDiff(path, old, new).patch,
         NEW ops, NEW c, NEW l \in Nat, Script(ops, c, l, old, new)
  PROVE  /\ d \in Seq(AnyLine) /\ Len(d) \in Nat \ {0} /\ d[1] = DiffLine("git", path)
         /\ \A x \in 2..Len(d) : d[x] \in HunkLine
         /\ \E o : Drawn(d, 0, o, ops, c, l) /\ o[l] = Len(d)
<1>1. DOMAIN ops = 1..l /\ \A p \in 1..l : ops[p] \in Op(Token) BY LenProperties, ElementOfSeq DEF Script
<1>2. ASSUME NEW p \in 1..l
      PROVE /\ c[p][1] = 1 + CountBut(ops, p - 1, "+") /\ c[p][2] = 1 + CountBut(ops, p - 1, "-")
            /\ c[p][1] \in Nat /\ c[p][2] \in Nat /\ c[p] = <<c[p][1], c[p][2]>>
  <2>0. Units(old) \in Nat /\ Units(new) \in Nat BY TokenFacts DEF Script
  <2>1. c[p][1] = 1 + CountBut(ops, p - 1, "+") /\ c[p][2] = 1 + CountBut(ops, p - 1, "-")
    BY <2>0, Numbers DEF Script
  <2>2. p \in Nat \ {0} OBVIOUS
  <2>3. CountBut(ops, p - 1, "+") \in Nat /\ CountBut(ops, p - 1, "-") \in Nat BY <2>2, CountOneMore
  <2>4. c[p] \in Grid(Units(old), Units(new)) BY DEF Script, Track
  <2> QED BY <2>1, <2>3, <2>4 DEF Grid
<1>3. ASSUME NEW p \in 1..l PROVE PieceOf(Piece(ops, p), ops, p, c[p])
  <2>1. PICK a \in Nat, b \in Nat :
          a = 1 + CountBut(ops, p - 1, "+") /\ b = 1 + CountBut(ops, p - 1, "-") /\ c[p] = <<a, b>>
    BY <1>2
  <2> QED BY <1>1, <2>1, PieceFacts
<1>4. PICK s : s = [p \in 1..l |-> Piece(ops, p)] OBVIOUS
<1>a. \A p \in 1..l : Piece(ops, p) \in Seq(HunkLine) BY <1>3 DEF PieceOf
<1>b. s \in Seq(Seq(HunkLine)) /\ Len(s) = l
  <2>1. s \in [1..l -> Seq(HunkLine)] BY <1>4, <1>a
  <2> QED BY <2>1, SeqDef
<1>c. \A p \in 1..l : s[p] = Piece(ops, p) BY <1>4
<1>6. PICK f : f = FlattenSeq(s) OBVIOUS
<1>5. Hunks(old, new) = f BY <1>1, <1>4, <1>6, HunksArePieces DEF Script
<1>7. f \in Seq(HunkLine) /\ \E o : Laid(o, s, f) BY <1>b, <1>6, FlattenLaid
<1>8. PICK o : Laid(o, s, f) BY <1>7
<1>9. d = <<DiffLine("git", path)>> \o f BY <1>5 DEF ModifyDiff
<1>10. "git" \in Marks /\ path \in Lines \cup Paths BY DEF Marks
<1>11. DiffLine("git", path) \in AnyLine /\ f \in Seq(AnyLine)
  BY <1>7, <1>10, LineTypes, SeqMonotonic
<1>12. PICK w \in Nat : w = Len(f) BY <1>7, LenProperties
<1>13. /\ d \in Seq(AnyLine) /\ Len(d) = w + 1 /\ d[1] = DiffLine("git", path)
       /\ \A i \in 1..w : d[i + 1] = f[i]
  BY <1>9, <1>11, <1>12, Prepended
<1>14. \A x \in 2..Len(d) : d[x] \in HunkLine
  <2> SUFFICES ASSUME NEW x \in 2..Len(d) PROVE d[x] \in HunkLine OBVIOUS
  <2>1. x - 1 \in 1..w /\ (x - 1) + 1 = x BY <1>13
  <2>2. f[x - 1] \in HunkLine BY <2>1, <1>7, <1>12, ElementOfSeq
  <2> QED BY <2>1, <2>2, <1>13
<1> DEFINE up == [k \in 0..l |-> o[k] + 1]
<1>15. /\ o \in [0..l -> Nat] /\ o[0] = 0 /\ w = o[l]
       /\ \A k \in 1..l : o[k] = o[k - 1] + Len(s[k])
       /\ \A k \in 1..l : \A i \in 1..Len(s[k]) : o[k - 1] + i \in 1..w /\ f[o[k - 1] + i] = s[k][i]
  BY <1>b, <1>8, <1>12 DEF Laid
<1>16. \A k \in 0..l : o[k] \in Nat /\ up[k] = o[k] + 1 BY <1>15
<1>17. up \in [0..l -> Nat] /\ up[0] = 0 + 1 /\ up[l] = Len(d) BY <1>13, <1>15, <1>16
<1> HIDE DEF up
<1>18. ASSUME NEW p \in 1..l, p \notin Shown(ops) PROVE up[p] = up[p - 1]
  <2>1. p \in 0..l /\ p - 1 \in 0..l OBVIOUS
  <2>2. Len(s[p]) = 0 BY <1>3, <1>c, <1>18 DEF PieceOf
  <2>3. o[p] = o[p - 1] + 0 BY <2>2, <1>15
  <2>4. o[p] = o[p - 1] BY <2>1, <2>3, <1>16
  <2> QED BY <2>1, <2>4, <1>16
<1>19. ASSUME NEW p \in 1..l, p \in Shown(ops)
       PROVE  DrawnStep(d, up[p - 1], up[p], p - 1 \in Shown(ops), ops[p], c[p])
  <2>1. p \in 0..l /\ p - 1 \in 0..l OBVIOUS
  <2>2. PICK b \in Nat : b = o[p - 1] /\ up[p - 1] = b + 1 BY <2>1, <1>16
  <2>3. PICK q : q = s[p] OBVIOUS
  <2>4. PICK h \in {0, 1}, e \in {0, 1} :
          /\ Len(q) = h + 1 + e
          /\ h = 1 <=> p - 1 \notin Shown(ops)
          /\ e = 1 <=> ~ ops[p].tok.nl
          /\ h = 1 => q[1] = HunkHeader(c[p][1], c[p][2])
          /\ q[h + 1] = DiffLine(ops[p].mark, ops[p].tok.line)
          /\ e = 1 => q[h + 1 + 1] = NoNewline
    BY <1>3, <1>c, <1>19, <2>3 DEF PieceOf
  <2>5. \A i \in 1..Len(q) : b + i \in 1..w /\ f[b + i] = q[i] BY <1>15, <2>2, <2>3
  <2>6. \A i \in 1..Len(q) : d[(b + i) + 1] = q[i] BY <2>5, <1>13
  <2>7. \A i \in 1..Len(q) : d[(b + 1) + i] = q[i] /\ (b + 1) + i <= w + 1
    <3> SUFFICES ASSUME NEW i \in 1..Len(q) PROVE d[(b + 1) + i] = q[i] /\ (b + 1) + i <= w + 1 OBVIOUS
    <3>0. i \in Nat BY <2>4
    <3>1. (b + i) + 1 = (b + 1) + i BY <3>0
    <3> QED BY <3>0, <3>1, <2>5, <2>6
  <2>8. up[p] = (b + 1) + h + 1 + e
    <3>1. o[p] = b + Len(q) BY <1>15, <2>2, <2>3
    <3>2. o[p] = b + (h + 1 + e) BY <3>1, <2>4
    <3>3. up[p] = o[p] + 1 BY <2>1, <1>16
    <3> QED BY <3>2, <3>3
  <2>9. up[p] <= Len(d)
    <3>1. h + 1 + e \in 1..Len(q) BY <2>4
    <3> QED BY <3>1, <2>7, <2>8, <1>13
  <2>10. h = 1 => d[(b + 1) + 1] = HunkHeader(c[p][1], c[p][2])
    <3>1. 1 \in 1..Len(q) BY <2>4
    <3> QED BY <3>1, <2>4, <2>7
  <2>11. d[(b + 1) + h + 1] = DiffLine(ops[p].mark, ops[p].tok.line)
    <3>1. h + 1 \in 1..Len(q) /\ (b + 1) + (h + 1) = (b + 1) + h + 1 BY <2>4
    <3> QED BY <3>1, <2>4, <2>7
  <2>12. e = 1 => d[(b + 1) + h + 1 + 1] = NoNewline
    <3>1. e = 1 => h + 1 + 1 \in 1..Len(q) /\ (b + 1) + (h + 1 + 1) = (b + 1) + h + 1 + 1 BY <2>4
    <3> QED BY <3>1, <2>4, <2>7
  <2> QED BY <2>2, <2>4, <2>8, <2>9, <2>10, <2>11, <2>12 DEF DrawnStep
<1>20. Drawn(d, 0, up, ops, c, l) BY <1>17, <1>18, <1>19 DEF Drawn
<1>21. \E u : Drawn(d, 0, u, ops, c, l) /\ u[l] = Len(d) BY <1>17, <1>20
<1>22. Len(d) \in Nat \ {0} BY <1>13
<1> QED BY <1>13, <1>14, <1>21, <1>22
-----------------------------------------------------------------------------
(* Folds over the lines of a diff *)

(* What takes the steps of a fold is that fold.                               *)
LEMMA SameFold ==
  ASSUME NEW n \in Nat, NEW S, NEW b, NEW step, NEW g, Iterates(g, n, S, b, step), NEW f, f[0] = b,
         \A k \in 1..n : f[k - 1] \in S => f[k] = step[<<k, f[k - 1]>>]
  PROVE  \A k \in 0..n : f[k] = g[k] /\ f[k] \in S
<1>1. /\ g \in [0..n -> S] /\ g[0] = b
      /\ \A k \in 1..n : g[k] = step[<<k, g[k - 1]>>]
  BY DEF Iterates
<1> DEFINE T == {k \in 0..n : f[k] = g[k]}
<1>2. 0 \in T BY <1>1
<1>3. ASSUME NEW k \in 1..n, k - 1 \in T PROVE k \in T
  <2>1. f[k - 1] = g[k - 1] /\ k - 1 \in 0..n BY <1>3
  <2>2. f[k - 1] \in S BY <1>1, <2>1
  <2>3. f[k] = step[<<k, f[k - 1]>>] BY <2>2
  <2>4. g[k] = step[<<k, f[k - 1]>>] BY <1>1, <2>1
  <2>5. f[k] = g[k] BY <2>3, <2>4
  <2> QED BY <2>5
<1> HIDE DEF T
<1>4. \A k \in 0..n : k \in T BY <1>2, <1>3, Induction
<1>5. \A k \in 0..n : f[k] = g[k] BY <1>4 DEF T
<1> QED BY <1>1, <1>5

Words == Lines \cup Paths

CopyOf(q, c, i, n) ==
  q \in Seq(Words) /\ Len(q) = n /\ \A k \in 1..n : q[k] = TextLine(c, i + k - 1)

LEMMA CopiedAs ==
  ASSUME NEW c \in Seq(Lines), NEW i \in Int, NEW j \in Int,
         NEW n \in Nat, n = IF j < i THEN 0 ELSE j - i + 1
  PROVE  CopyOf(Copied(c, i, j), c, i, n)
<1>1. \A k \in Int : TextLine(c, k) \in Words
  <2>1. \A k \in DOMAIN c : c[k] \in Lines BY ElementOfSeq, LenProperties
  <2>2. Blank \in Lines BY DiffAssumption
  <2> QED BY <2>1, <2>2 DEF TextLine, Words
<1>3. PICK s : s = [k \in 1..n |-> TextLine(c, i + k - 1)] OBVIOUS
<1>4. Copied(c, i, j) = s BY <1>3 DEF Copied
<1>5. \A k \in 1..n : s[k] = TextLine(c, i + k - 1) /\ s[k] \in Words BY <1>1, <1>3
<1>6. s \in [1..n -> Words] BY <1>3, <1>5
<1>7. s \in Seq(Words) BY <1>6, SeqDef
<1>8. Len(s) = n BY <1>3
<1> QED BY <1>4, <1>5, <1>7, <1>8 DEF CopyOf

LEMMA CopiedTyped ==
  ASSUME NEW S, Blank \in S, NEW c \in Seq(S), NEW i \in Int, NEW j \in Int
  PROVE  Copied(c, i, j) \in Seq(S)
<1>1. \A k \in Int : TextLine(c, k) \in S
  <2>1. \A k \in DOMAIN c : c[k] \in S BY ElementOfSeq, LenProperties
  <2> QED BY <2>1 DEF TextLine
<1>2. PICK n \in Nat : n = IF j < i THEN 0 ELSE j - i + 1
  <2>1. (IF j < i THEN 0 ELSE j - i + 1) \in Nat OBVIOUS
  <2> QED BY <2>1
<1>3. PICK q : q = [k \in 1..n |-> TextLine(c, i + k - 1)] OBVIOUS
<1>4. q \in [1..n -> S] BY <1>1, <1>3
<1>5. q \in Seq(S) BY <1>4, SeqDef
<1>6. Copied(c, i, j) = q BY <1>2, <1>3 DEF Copied
<1> QED BY <1>5, <1>6

(* A writer whose lines are in S, and a line of a diff that gives it no other. *)
WriterOf(S) == [inHunk : BOOLEAN, at : Int, out : Seq(S)]
Writer == WriterOf(Words)
Gives(l, S) == l.at \in Int /\ (l.mark = " " \/ IsAddition(l) => l.line \in S)
NotBegun == [inHunk |-> FALSE, at |-> 1, out |-> <<>>]

LEMMA WriterTyped ==
  ASSUME NEW S, Blank \in S, NEW c \in Seq(S), NEW w \in WriterOf(S), NEW l, Gives(l, S)
  PROVE  WriteLine(c, w, l) \in WriterOf(S)
<1>1. w.inHunk \in BOOLEAN /\ w.at \in Int /\ w.out \in Seq(S) BY DEF WriterOf
<1>2. l.at \in Int /\ (l.mark = " " \/ IsAddition(l) => l.line \in S) BY DEF Gives
<1>3. CASE l.mark = "@@"
  <2>a. PICK x \in Int : x = l.at BY <1>2
  <2>0. l.at - 1 \in Int BY <2>a
  <2>1. Copied(c, w.at, l.at - 1) \in Seq(S) BY <1>1, <2>0, CopiedTyped
  <2>2. w.out \o Copied(c, w.at, l.at - 1) \in Seq(S) BY <1>1, <2>1, ConcatProperties
  <2>3. WriteLine(c, w, l) = [inHunk |-> TRUE, at |-> IF l.at > w.at THEN l.at ELSE w.at,
                              out |-> w.out \o Copied(c, w.at, l.at - 1)]
    BY <1>3 DEF WriteLine
  <2>4. (IF l.at > w.at THEN l.at ELSE w.at) \in Int BY <1>1, <1>2, Zenon
  <2>5. PICK a \in Int : a = IF l.at > w.at THEN l.at ELSE w.at BY <2>4
  <2>6. PICK o \in Seq(S) : o = w.out \o Copied(c, w.at, l.at - 1) BY <2>2
  <2>7. WriteLine(c, w, l) = [inHunk |-> TRUE, at |-> a, out |-> o] BY <2>3, <2>5, <2>6
  <2> QED BY <2>7 DEF WriterOf
<1>4. CASE l.mark # "@@" /\ w.inHunk
  <2>1. l.mark = " " \/ IsAddition(l) => Append(w.out, l.line) \in Seq(S) BY <1>1, <1>2, AppendProperties
  <2>2. WriteLine(c, w, l) =
          [w EXCEPT !.at = IF l.mark = " " \/ IsDeletion(l) THEN w.at + 1 ELSE w.at,
                    !.out = IF l.mark = " " \/ IsAddition(l) THEN Append(w.out, l.line) ELSE w.out]
    BY <1>4 DEF WriteLine
  <2>a. (IF l.mark = " " \/ IsDeletion(l) THEN w.at + 1 ELSE w.at) \in Int
    <3>1. w.at + 1 \in Int /\ w.at \in Int BY <1>1
    <3> QED BY <3>1, Zenon
  <2>3. PICK a \in Int : a = IF l.mark = " " \/ IsDeletion(l) THEN w.at + 1 ELSE w.at BY <2>a
  <2>4. PICK o \in Seq(S) : o = IF l.mark = " " \/ IsAddition(l) THEN Append(w.out, l.line) ELSE w.out
    BY <1>1, <2>1
  <2>5. WriteLine(c, w, l) = [w EXCEPT !.at = a, !.out = o] BY <2>2, <2>3, <2>4
  <2> QED BY <2>5 DEF WriterOf
<1>5. CASE l.mark # "@@" /\ ~ w.inHunk BY <1>5 DEF WriteLine
<1> QED BY <1>1, <1>3, <1>4, <1>5

Writes(W, c, d, n, S) ==
  W \in [0..n -> WriterOf(S)] /\ W[0] = NotBegun /\ \A k \in 1..n : W[k] = WriteLine(c, W[k - 1], d[k])
Written(c, w) ==
  LET text == w.out \o Copied(c, w.at, Len(c)) IN IF text = <<>> THEN EmptyText ELSE text

LEMMA AppliedStepwise ==
  ASSUME NEW S, Blank \in S, NEW c \in Seq(S), NEW d, NEW n \in Nat, n = Len(d),
         \A k \in 1..n : Gives(d[k], S)
  PROVE  \E W : Writes(W, c, d, n, S) /\ Applied(c, d) = Written(c, W[n])
<1> DEFINE step == [x \in (1..n) \X WriterOf(S) |-> WriteLine(c, x[2], d[x[1]])]
           Solves(f) == f = [k \in 0..n |-> IF k = 0 THEN NotBegun ELSE WriteLine(c, f[k - 1], d[k])]
           W == CHOOSE f : Solves(f)
<1>1. \A k \in 1..n : Gives(d[k], S) OBVIOUS
<1>2. step \in [(1..n) \X WriterOf(S) -> WriterOf(S)]
  <2>1. ASSUME NEW x \in (1..n) \X WriterOf(S) PROVE WriteLine(c, x[2], d[x[1]]) \in WriterOf(S)
    <3>1. x[2] \in WriterOf(S) /\ Gives(d[x[1]], S) BY <1>1
    <3> QED BY <3>1, WriterTyped
  <2> QED BY <2>1
<1>3. NotBegun \in WriterOf(S) BY EmptySeq DEF NotBegun, WriterOf
<1>4. \A k \in 1..n, w \in WriterOf(S) : step[<<k, w>>] = WriteLine(c, w, d[k]) OBVIOUS
<1> HIDE DEF step
<1>5. PICK g : Iterates(g, n, WriterOf(S), NotBegun, step) BY <1>2, <1>3, Iteration
<1>6. /\ g \in [0..n -> WriterOf(S)] /\ g[0] = NotBegun
      /\ \A k \in 1..n : g[k] = step[<<k, g[k - 1]>>]
  BY <1>5 DEF Iterates
<1>7. ASSUME NEW k \in 1..n PROVE k - 1 \in 0..n /\ g[k] = WriteLine(c, g[k - 1], d[k])
  <2>1. k - 1 \in 0..n OBVIOUS
  <2>2. g[k - 1] \in WriterOf(S) BY <1>6, <2>1
  <2> QED BY <1>4, <1>6, <2>1, <2>2
<1>8. \A k \in 0..n : g[k] = IF k = 0 THEN NotBegun ELSE WriteLine(c, g[k - 1], d[k])
  <2>1. \A k \in 0..n : k = 0 \/ k \in 1..n OBVIOUS
  <2>2. ~ (0 \in 1..n) OBVIOUS
  <2> QED BY <2>1, <2>2, <1>6, <1>7
<1>9. Solves(g) BY <1>6, <1>8
<1>10. Applied(c, d) = Written(c, W[n]) BY DEF Applied, Written, NotBegun
<1>11. Solves(W) BY <1>9
<1> HIDE DEF W
<1>12. /\ W = [k \in 0..n |-> W[k]]
       /\ W[0] = NotBegun /\ \A k \in 1..n : W[k] = WriteLine(c, W[k - 1], d[k])
  <2>1. W = [k \in 0..n |-> IF k = 0 THEN NotBegun ELSE WriteLine(c, W[k - 1], d[k])] BY <1>11
  <2>2. \A k \in 0..n : W[k] = IF k = 0 THEN NotBegun ELSE WriteLine(c, W[k - 1], d[k]) BY <2>1
  <2>3. 0 \in 0..n /\ \A k \in 1..n : k \in 0..n /\ k # 0 OBVIOUS
  <2>4. W = [k \in 0..n |-> W[k]] BY <2>1
  <2> QED BY <2>2, <2>3, <2>4
<1>13. \A k \in 1..n : W[k - 1] \in WriterOf(S) => W[k] = step[<<k, W[k - 1]>>] BY <1>4, <1>12
<1>14. \A k \in 0..n : W[k] \in WriterOf(S)
  <2>1. W[0] = NotBegun BY <1>12
  <2>2. \A k \in 0..n : W[k] = g[k] /\ W[k] \in WriterOf(S) BY <1>5, <1>13, <2>1, SameFold
  <2> QED BY <2>2
<1>15. W \in [0..n -> WriterOf(S)] BY <1>12, <1>14
<1>16. Writes(W, c, d, n, S) BY <1>12, <1>15 DEF Writes
<1> QED BY <1>10, <1>16
(* What a diff is applied to and the lines it gives are all there is after it. *)
LEMMA AppliedTyped ==
  ASSUME NEW S, Blank \in S, NEW c \in Seq(S), NEW d, NEW n \in Nat, n = Len(d),
         \A k \in 1..n : Gives(d[k], S)
  PROVE  Applied(c, d) \in Seq(S)
<1>1. PICK W : Writes(W, c, d, n, S) /\ Applied(c, d) = Written(c, W[n]) BY AppliedStepwise
<1>2. PICK w : w = W[n] OBVIOUS
<1>3. w \in WriterOf(S)
  <2>1. n \in 0..n OBVIOUS
  <2> QED BY <2>1, <1>1, <1>2 DEF Writes
<1>4. w.at \in Int /\ w.out \in Seq(S) BY <1>3 DEF WriterOf
<1>5. Len(c) \in Int BY LenProperties
<1>6. Copied(c, w.at, Len(c)) \in Seq(S) BY <1>4, <1>5, CopiedTyped
<1>7. w.out \o Copied(c, w.at, Len(c)) \in Seq(S) BY <1>4, <1>6, ConcatProperties
<1>8. EmptyText \in Seq(S) BY DEF EmptyText
<1>9. Written(c, w) \in Seq(S) BY <1>7, <1>8 DEF Written
<1> QED BY <1>1, <1>2, <1>9
-----------------------------------------------------------------------------
(* A diff applied to its old text *)

StepsTo(op, i, j, y, old, new) ==
  \/ /\ op.mark = " " /\ i <= Units(old) /\ j <= Units(new) /\ y = <<i + 1, j + 1>>
     /\ op.tok.line = old[i] /\ op.tok.line = new[j] /\ op.tok = Tokens(old)[i] /\ op.tok = Tokens(new)[j]
  \/ /\ op.mark = "-" /\ i <= Units(old) /\ y = <<i + 1, j>> /\ op.tok.line = old[i]
  \/ /\ op.mark = "+" /\ j <= Units(new) /\ y = <<i, j + 1>> /\ op.tok.line = new[j]

LEMMA ScriptSteps ==
  ASSUME NEW old, NEW new, NEW ops, NEW c, NEW l \in Nat, Script(ops, c, l, old, new), NEW p \in 1..l
  PROVE  \E i \in 1..Units(old) + 1, j \in 1..Units(new) + 1 :
           c[p] = <<i, j>> /\ StepsTo(ops[p], i, j, c[p + 1], old, new)
<1>1. PICK n \in Nat, m \in Nat : n = Units(old) /\ m = Units(new) BY TokenFacts DEF Script
<1>2. /\ \A i \in 1..n : Tokens(old)[i].line = old[i]
      /\ \A j \in 1..m : Tokens(new)[j].line = new[j]
  BY <1>1, TokenFacts DEF Script
<1>3. /\ c \in [1..l + 1 -> Grid(n, m)]
      /\ Moves(ops[p], c[p], c[p + 1], Tokens(old), Tokens(new), n, m)
  BY <1>1 DEF Script, Track
<1>4. p \in 1..l + 1 OBVIOUS
<1>5. c[p] \in (1..n + 1) \X (1..m + 1) BY <1>3, <1>4 DEF Grid
<1>6. PICK i \in 1..n + 1, j \in 1..m + 1 : c[p] = <<i, j>> BY <1>5
<1>7. c[p][1] = i /\ c[p][2] = j BY <1>6
<1>8. CASE ops[p].mark = " "
  <2>1. /\ i <= n /\ j <= m /\ c[p + 1] = <<i + 1, j + 1>>
        /\ ops[p].tok = Tokens(old)[i] /\ ops[p].tok = Tokens(new)[j]
    BY <1>3, <1>7, <1>8 DEF Moves
  <2>2. i \in 1..n /\ j \in 1..m BY <2>1
  <2>3. StepsTo(ops[p], i, j, c[p + 1], old, new) BY <1>1, <1>2, <1>8, <2>1, <2>2 DEF StepsTo
  <2> QED BY <1>1, <1>6, <2>3
<1>9. CASE ops[p].mark = "-"
  <2>1. i <= n /\ c[p + 1] = <<i + 1, j>> /\ ops[p].tok = Tokens(old)[i] BY <1>3, <1>7, <1>9 DEF Moves
  <2>2. i \in 1..n BY <2>1
  <2>3. StepsTo(ops[p], i, j, c[p + 1], old, new) BY <1>1, <1>2, <1>9, <2>1, <2>2 DEF StepsTo
  <2> QED BY <1>1, <1>6, <2>3
<1>10. CASE ops[p].mark = "+"
  <2>1. j <= m /\ c[p + 1] = <<i, j + 1>> /\ ops[p].tok = Tokens(new)[j] BY <1>3, <1>7, <1>10 DEF Moves
  <2>2. j \in 1..m BY <2>1
  <2>3. StepsTo(ops[p], i, j, c[p + 1], old, new) BY <1>1, <1>2, <1>10, <2>1, <2>2 DEF StepsTo
  <2> QED BY <1>1, <1>6, <2>3
<1> QED BY <1>3, <1>8, <1>9, <1>10 DEF Moves

(* What is written is the new text up to its line j - 1, or will be once the  *)
(* old lines up to i - 1 are copied.                                          *)
Exact(w, i, j, new) ==
  /\ w.inHunk /\ w.at = i /\ Len(w.out) = j - 1
  /\ \A k \in 1..j - 1 : w.out[k] = new[k]
Behind(w, i, j, old, new) ==
  \E a \in 1..i, e \in 0..j - 1 :
    /\ w.at = a /\ Len(w.out) = e /\ e + (i - a) = j - 1
    /\ \A k \in 1..e : w.out[k] = new[k]
    /\ \A k \in 1..i - a : old[a + k - 1] = new[e + k]

LEMMA ExactIsBehind ==
  ASSUME NEW w, NEW i \in Nat \ {0}, NEW j \in Nat \ {0}, NEW old, NEW new, Exact(w, i, j, new)
  PROVE  Behind(w, i, j, old, new)
<1>1. i \in 1..i /\ j - 1 \in 0..j - 1 /\ (j - 1) + (i - i) = j - 1 /\ 1..(i - i) = {} OBVIOUS
<1> QED BY <1>1 DEF Exact, Behind

LEMMA UnshownStep ==
  ASSUME NEW w, NEW i \in Nat \ {0}, NEW j \in Nat \ {0}, NEW old, NEW new, Behind(w, i, j, old, new),
         old[i] = new[j]
  PROVE  Behind(w, i + 1, j + 1, old, new)
<1>1. PICK a \in 1..i, e \in 0..j - 1 :
        /\ w.at = a /\ Len(w.out) = e /\ e + (i - a) = j - 1
        /\ \A k \in 1..e : w.out[k] = new[k]
        /\ \A k \in 1..i - a : old[a + k - 1] = new[e + k]
  BY DEF Behind
<1>2. a \in 1..i + 1 /\ e \in 0..(j + 1) - 1 /\ e + ((i + 1) - a) = (j + 1) - 1 BY <1>1
<1>3. ASSUME NEW k \in 1..(i + 1) - a PROVE old[a + k - 1] = new[e + k]
  <2>1. CASE k \in 1..i - a BY <1>1, <2>1
  <2>2. CASE k \notin 1..i - a
    <3>1. a + k - 1 = i /\ e + k = j BY <1>1, <2>2
    <3> QED BY <3>1
  <2> QED BY <2>1, <2>2
<1> QED BY <1>1, <1>2, <1>3 DEF Behind

LEMMA HeaderStep ==
  ASSUME NEW old, NEW new, IsText(old), NEW w \in Writer, NEW i \in 1..Len(old) + 1, NEW j \in Nat \ {0},
         Behind(w, i, j, old, new)
  PROVE  Exact(WriteLine(old, w, HunkHeader(i, j)), i, j, new)
<1>1. PICK a \in 1..i, e \in 0..j - 1 :
        /\ w.at = a /\ Len(w.out) = e /\ e + (i - a) = j - 1
        /\ \A k \in 1..e : w.out[k] = new[k]
        /\ \A k \in 1..i - a : old[a + k - 1] = new[e + k]
  BY DEF Behind
<1>2. old \in Seq(Lines) /\ Len(old) \in Nat /\ DOMAIN old = 1..Len(old) BY LenProperties DEF IsText
<1>3. PICK q : q = Copied(old, a, i - 1) OBVIOUS
<1>4. (IF i - 1 < a THEN 0 ELSE (i - 1) - a + 1) = i - a OBVIOUS
<1>5. a \in Int /\ i - 1 \in Int BY <1>2
<1>6. /\ q \in Seq(Words) /\ Len(q) = i - a
      /\ \A k \in 1..i - a : q[k] = TextLine(old, a + k - 1)
  <2>1. PICK b \in Nat : b = IF i - 1 < a THEN 0 ELSE (i - 1) - a + 1 BY <1>4
  <2>2. b = i - a BY <2>1, <1>4
  <2>3. CopyOf(q, old, a, b) BY <1>2, <1>3, <1>5, <2>1, CopiedAs
  <2> QED BY <2>2, <2>3 DEF CopyOf
<1>7. \A k \in 1..i - a : q[k] = new[e + k]
  <2>1. \A k \in 1..i - a : a + k - 1 \in DOMAIN old BY <1>2
  <2> QED BY <2>1, <1>1, <1>6 DEF TextLine
<1>8. PICK u : u = w.out \o q OBVIOUS
<1>9. w.out \in Seq(Words) BY DEF Writer, WriterOf
<1>10. /\ Len(u) = e + (i - a)
       /\ \A k \in 1..e + (i - a) : u[k] = IF k <= e THEN w.out[k] ELSE q[k - e]
  <2>1. PICK v \in Seq(Words) : v = w.out BY <1>9
  <2>2. PICK b \in Nat : b = i - a OBVIOUS
  <2>3. Len(v) = e /\ Len(q) = b /\ u = v \o q BY <1>1, <1>6, <1>8, <2>1, <2>2
  <2>4. q \in Seq(Words) BY <1>6
  <2>5. /\ Len(v \o q) = Len(v) + Len(q)
        /\ \A k \in 1..Len(v) + Len(q) : (v \o q)[k] = IF k <= Len(v) THEN v[k] ELSE q[k - Len(v)]
    BY <2>1, <2>4, ConcatProperties
  <2> QED BY <2>1, <2>2, <2>3, <2>5
<1>11. \A k \in 1..j - 1 : u[k] = new[k]
  <2> SUFFICES ASSUME NEW k \in 1..j - 1 PROVE u[k] = new[k] OBVIOUS
  <2>0. k \in 1..e + (i - a) BY <1>1
  <2>1. CASE k <= e
    <3>1. u[k] = w.out[k] BY <1>10, <2>0, <2>1
    <3>2. k \in 1..e BY <2>1
    <3>3. w.out[k] = new[k] BY <1>1, <3>2
    <3> QED BY <3>1, <3>3
  <2>2. CASE ~ (k <= e)
    <3>1. k - e \in 1..i - a /\ e + (k - e) = k BY <1>1, <2>2
    <3>2. u[k] = q[k - e] BY <1>10, <2>0, <2>2
    <3>3. q[k - e] = new[e + (k - e)] BY <1>7, <3>1
    <3> QED BY <3>1, <3>2, <3>3
  <2> QED BY <2>1, <2>2
<1>12. WriteLine(old, w, HunkHeader(i, j)) = [inHunk |-> TRUE, at |-> i, out |-> u]
  <2>1. (IF i > a THEN i ELSE a) = i OBVIOUS
  <2>2. HunkHeader(i, j).mark = "@@" /\ HunkHeader(i, j).at = i BY DEF HunkHeader
  <2> QED BY <2>1, <2>2, <1>1, <1>3, <1>8 DEF WriteLine
<1> QED BY <1>1, <1>10, <1>11, <1>12 DEF Exact

LEMMA LineStep ==
  ASSUME NEW old, NEW new, IsText(old), IsText(new), Plain(old), Plain(new),
         NEW op, NEW i \in 1..Units(old) + 1, NEW j \in 1..Units(new) + 1, NEW y,
         StepsTo(op, i, j, y, old, new), NEW w \in Writer, Exact(w, i, j, new)
  PROVE  Exact(WriteLine(old, w, DiffLine(op.mark, op.tok.line)), y[1], y[2], new)
<1>0. PICK l : l = DiffLine(op.mark, op.tok.line) OBVIOUS
<1>1. l.mark = op.mark /\ l.line = op.tok.line BY <1>0 DEF DiffLine
<1>2. /\ Units(old) \in Nat /\ Units(old) <= Len(old) /\ Units(new) \in Nat /\ Units(new) <= Len(new)
      /\ Len(old) \in Nat /\ Len(new) \in Nat
  BY TokenFacts
<1>3. /\ DOMAIN old = 1..Len(old) /\ DOMAIN new = 1..Len(new)
      /\ \A k \in 1..Len(old) : old[k] \in Words
      /\ \A k \in 1..Len(new) : new[k] \in Words
  BY LenProperties, ElementOfSeq DEF IsText, Words
<1>4. /\ w.inHunk /\ w.at = i /\ Len(w.out) = j - 1 /\ w.out \in Seq(Words)
      /\ \A k \in 1..j - 1 : w.out[k] = new[k]
  BY DEF Exact, Writer, WriterOf
<1>5. WriteLine(old, w, l) =
        IF l.mark = "@@" THEN WriteLine(old, w, l)
        ELSE [w EXCEPT !.at = IF l.mark = " " \/ IsDeletion(l) THEN w.at + 1 ELSE w.at,
                       !.out = IF l.mark = " " \/ IsAddition(l) THEN Append(w.out, l.line) ELSE w.out]
  BY <1>4 DEF WriteLine
<1>6. w = [inHunk |-> w.inHunk, at |-> w.at, out |-> w.out] BY DEF Writer, WriterOf
<1>7. ASSUME j <= Units(new), l.line = new[j]
      PROVE  /\ Len(Append(w.out, l.line)) = (j + 1) - 1
             /\ \A k \in 1..(j + 1) - 1 : Append(w.out, l.line)[k] = new[k]
  <2>1. j \in 1..Len(new) /\ l.line \in Words BY <1>2, <1>3, <1>7
  <2>2. /\ Len(Append(w.out, l.line)) = (j - 1) + 1 /\ Append(w.out, l.line)[(j - 1) + 1] = l.line
        /\ \A k \in 1..j - 1 : Append(w.out, l.line)[k] = w.out[k]
    BY <1>4, <2>1, AppendProperties
  <2>3. (j - 1) + 1 = j /\ (j + 1) - 1 = j /\ \A k \in 1..j : k = j \/ k \in 1..j - 1 BY <2>1, <1>2
  <2> QED BY <2>2, <2>3, <1>4, <1>7
<1>8. CASE op.mark = " "
  <2>1. j <= Units(new) /\ l.line = new[j] /\ y = <<i + 1, j + 1>> BY <1>1, <1>8 DEF StepsTo
  <2>2. WriteLine(old, w, l) = [inHunk |-> TRUE, at |-> i + 1, out |-> Append(w.out, l.line)]
    BY <1>1, <1>4, <1>5, <1>6, <1>8
  <2>3. y[1] = i + 1 /\ y[2] = j + 1 BY <2>1
  <2> QED BY <1>0, <1>7, <2>1, <2>2, <2>3 DEF Exact
<1>9. CASE op.mark = "-"
  <2>1. i <= Units(old) /\ l.line = old[i] /\ y = <<i + 1, j>> BY <1>1, <1>9 DEF StepsTo
  <2>2. i \in DOMAIN old BY <1>2, <1>3, <2>1
  <2>3. l.line \notin MinusLines BY <2>1, <2>2 DEF Plain
  <2>4. IsDeletion(l) /\ ~ IsAddition(l) BY <1>1, <1>9, <2>3 DEF IsDeletion, IsAddition
  <2>5. WriteLine(old, w, l) = [inHunk |-> TRUE, at |-> i + 1, out |-> w.out]
    BY <1>1, <1>4, <1>5, <1>6, <1>9, <2>4
  <2>6. y[1] = i + 1 /\ y[2] = j BY <2>1
  <2> QED BY <1>0, <1>4, <2>5, <2>6 DEF Exact
<1>10. CASE op.mark = "+"
  <2>1. j <= Units(new) /\ l.line = new[j] /\ y = <<i, j + 1>> BY <1>1, <1>10 DEF StepsTo
  <2>2. j \in DOMAIN new BY <1>2, <1>3, <2>1
  <2>3. l.line \notin PlusLines BY <2>1, <2>2 DEF Plain
  <2>4. ~ IsDeletion(l) /\ IsAddition(l) BY <1>1, <1>10, <2>3 DEF IsDeletion, IsAddition
  <2>5. WriteLine(old, w, l) = [inHunk |-> TRUE, at |-> i, out |-> Append(w.out, l.line)]
    BY <1>1, <1>4, <1>5, <1>6, <1>10, <2>4
  <2>6. y[1] = i /\ y[2] = j + 1 BY <2>1
  <2> QED BY <1>0, <1>7, <2>1, <2>5, <2>6 DEF Exact
<1> QED BY <1>8, <1>9, <1>10 DEF StepsTo

LEMMA NoNewlineStep ==
  ASSUME NEW old, NEW w \in Writer, w.inHunk
  PROVE  WriteLine(old, w, NoNewline) = w
<1>1. NoNewline.mark = "\\" BY DEF NoNewline, DiffLine
<1>2. ~ IsDeletion(NoNewline) /\ ~ IsAddition(NoNewline) BY <1>1 DEF IsDeletion, IsAddition
<1>3. WriteLine(old, w, NoNewline) = [w EXCEPT !.at = w.at, !.out = w.out] BY <1>1, <1>2 DEF WriteLine
<1> QED BY <1>3 DEF Writer, WriterOf

LEMMA DrawnApplied ==
  ASSUME NEW old, NEW new, IsText(old), IsText(new), Plain(old), Plain(new), NEW d, NEW n \in Nat, n = Len(d),
         NEW W, Writes(W, old, d, n, Words), NEW before \in Nat, NEW after, NEW open \in BOOLEAN, NEW op,
         NEW i \in 1..Units(old) + 1, NEW j \in 1..Units(new) + 1, NEW y,
         StepsTo(op, i, j, y, old, new), DrawnStep(d, before, after, open, op, <<i, j>>),
         Behind(W[before], i, j, old, new), open => Exact(W[before], i, j, new)
  PROVE  Exact(W[after], y[1], y[2], new)
<1>1. PICK h \in {0, 1}, e \in {0, 1} :
        /\ after = before + h + 1 + e /\ after <= n
        /\ h = 1 <=> ~ open
        /\ h = 1 => d[before + 1] = HunkHeader(i, j)
        /\ d[before + h + 1] = DiffLine(op.mark, op.tok.line)
        /\ e = 1 => d[before + h + 1 + 1] = NoNewline
  <2>1. <<i, j>>[1] = i /\ <<i, j>>[2] = j OBVIOUS
  <2> QED BY <2>1 DEF DrawnStep
<1>2. /\ \A k \in 0..n : W[k] \in Writer
      /\ \A k \in 1..n : W[k] = WriteLine(old, W[k - 1], d[k])
  BY DEF Writes, Writer
<1>3. Units(old) \in Nat /\ Units(old) <= Len(old) /\ Units(new) \in Nat BY TokenFacts
<1>4. i \in 1..Len(old) + 1 /\ j \in Nat \ {0} BY <1>3
<1>5. before + h \in 0..n /\ before \in 0..n /\ before + h + 1 \in 1..n BY <1>1
<1>6. Exact(W[before + h], i, j, new)
  <2>1. CASE h = 0
    <3>1. before + h = before BY <2>1
    <3> QED BY <1>1, <2>1, <3>1
  <2>2. CASE h = 1
    <3>1. before + h \in 1..n /\ (before + h) - 1 = before /\ before + h = before + 1 BY <2>2, <1>5
    <3>2. W[before + h] = WriteLine(old, W[before], HunkHeader(i, j)) BY <3>1, <2>2, <1>1, <1>2
    <3> QED BY <3>2, <1>2, <1>4, <1>5, HeaderStep
  <2> QED BY <2>1, <2>2
<1>7. (before + h + 1) - 1 = before + h BY <1>5
<1>8. W[before + h + 1] = WriteLine(old, W[before + h], DiffLine(op.mark, op.tok.line))
  BY <1>1, <1>2, <1>5, <1>7
<1>9. Exact(W[before + h + 1], y[1], y[2], new)
  BY <1>2, <1>5, <1>6, <1>8, LineStep
<1>10. CASE e = 0
  <2>1. after = before + h + 1 BY <1>1, <1>10
  <2> QED BY <1>9, <2>1
<1>11. CASE e = 1
  <2>1. after = before + h + 1 + 1 /\ after \in 1..n /\ after - 1 = before + h + 1 BY <1>1, <1>11
  <2>2. W[after] = WriteLine(old, W[before + h + 1], NoNewline) BY <1>1, <1>2, <1>11, <2>1
  <2>3. W[before + h + 1] \in Writer /\ W[before + h + 1].inHunk BY <1>2, <1>5, <1>9 DEF Exact
  <2>4. W[after] = W[before + h + 1] BY <2>2, <2>3, NoNewlineStep
  <2> QED BY <1>9, <2>4
<1> QED BY <1>10, <1>11

LEMMA BehindWritten ==
  ASSUME NEW old, NEW new, IsText(old), IsText(new), EndsWithNewline(old) = EndsWithNewline(new),
         NEW w \in Writer, Behind(w, Units(old) + 1, Units(new) + 1, old, new)
  PROVE  Written(old, w) = new
<1>0. /\ Units(old) \in Nat /\ Units(new) \in Nat /\ Len(old) \in Nat /\ Len(new) \in Nat \ {0}
      /\ Units(old) \in {Len(old) - 1, Len(old)} /\ Units(new) \in {Len(new) - 1, Len(new)}
  BY TokenFacts
<1>1. PICK u \in Nat, v \in Nat, n \in Nat, m \in Nat \ {0} :
        u = Units(old) /\ v = Units(new) /\ n = Len(old) /\ m = Len(new)
  BY <1>0
<1>2. PICK a \in 1..u + 1, e \in 0..v :
        /\ w.at = a /\ Len(w.out) = e /\ e + ((u + 1) - a) = v
        /\ \A k \in 1..e : w.out[k] = new[k]
        /\ \A k \in 1..(u + 1) - a : old[a + k - 1] = new[e + k]
  <2>1. (v + 1) - 1 = v OBVIOUS
  <2> QED BY <2>1, <1>1 DEF Behind
<1>3. /\ old \in Seq(Lines) /\ DOMAIN old = 1..n /\ new \in Seq(Lines) /\ DOMAIN new = 1..m
      /\ \A k \in 1..m : new[k] \in Words
  BY <1>1, LenProperties, ElementOfSeq DEF IsText, Words
<1>4. n - a + 1 \in Nat /\ (IF n < a THEN 0 ELSE n - a + 1) = n - a + 1
  BY <1>0, <1>1
<1>5. PICK q : q = Copied(old, w.at, Len(old)) OBVIOUS
<1>6. PICK b \in Nat : b = n - a + 1 BY <1>4
<1>7. /\ q \in Seq(Words) /\ Len(q) = b
      /\ \A k \in 1..b : q[k] = TextLine(old, a + k - 1)
  <2>1. a \in Int /\ n \in Int /\ q = Copied(old, a, n) BY <1>1, <1>2, <1>5
  <2>2. b = IF n < a THEN 0 ELSE n - a + 1 BY <1>4, <1>6
  <2>3. old \in Seq(Lines) BY DEF IsText
  <2>4. CopyOf(Copied(old, a, n), old, a, b) BY <2>1, <2>2, <2>3, CopiedAs
  <2> QED BY <2>1, <2>4 DEF CopyOf
<1>8. e + b = m
  <2>0. e + ((u + 1) - a) = v BY <1>2
  <2>1. CASE EndsWithNewline(old)
    <3>1. u = n - 1 /\ v = m - 1 BY <2>1, <1>1 DEF Units
    <3> QED BY <3>1, <2>0, <1>6
  <2>2. CASE ~ EndsWithNewline(old)
    <3>1. u = n /\ v = m BY <2>2, <1>1 DEF Units
    <3> QED BY <3>1, <2>0, <1>6
  <2> QED BY <2>1, <2>2
<1>9. \A k \in 1..b : q[k] = new[e + k]
  <2> SUFFICES ASSUME NEW k \in 1..b PROVE q[k] = new[e + k] OBVIOUS
  <2>1. a + k - 1 \in DOMAIN old BY <1>3, <1>6
  <2>2. q[k] = old[a + k - 1] BY <1>7, <2>1 DEF TextLine
  <2>3. CASE k \in 1..(u + 1) - a BY <2>2, <2>3, <1>2
  <2>4. CASE k \notin 1..(u + 1) - a
    <3>1. u # n BY <2>4, <1>6
    <3>2. EndsWithNewline(old) BY <3>1, <1>1 DEF Units
    <3>3. u = n - 1 BY <3>2, <1>1 DEF Units
    <3>4. k = b BY <3>3, <2>4, <1>6
    <3>5. a + k - 1 = n /\ e + k = m BY <3>4, <1>6, <1>8
    <3>6. old[n] = Blank /\ new[m] = Blank BY <3>2, <1>1 DEF EndsWithNewline
    <3> QED BY <2>2, <3>5, <3>6
  <2> QED BY <2>3, <2>4
<1>10. PICK x \in Seq(Words) : x = w.out BY DEF Writer, WriterOf
<1>11. PICK t : t = x \o q OBVIOUS
<1>12. /\ Len(x \o q) = Len(x) + Len(q) /\ x \o q \in Seq(Words)
       /\ \A k \in 1..Len(x) + Len(q) : (x \o q)[k] = IF k <= Len(x) THEN x[k] ELSE q[k - Len(x)]
  <2>1. q \in Seq(Words) BY <1>7
  <2> QED BY <2>1, ConcatProperties
<1>13. Len(x) = e BY <1>2, <1>10
<1>14. /\ t \in Seq(Words) /\ Len(t) = m
       /\ \A k \in 1..m : t[k] = IF k <= e THEN x[k] ELSE q[k - e]
  BY <1>7, <1>8, <1>11, <1>12, <1>13
<1>15. ASSUME NEW k \in 1..m PROVE t[k] = new[k]
  <2>1. CASE k <= e BY <1>2, <1>10, <1>14, <2>1
  <2>2. CASE ~ (k <= e)
    <3>1. k - e \in 1..b /\ e + (k - e) = k BY <2>2, <1>8
    <3>2. q[k - e] = new[k] BY <1>9, <3>1
    <3> QED BY <3>2, <1>14, <2>2
  <2> QED BY <2>1, <2>2
<1>16. t = new
  <2>1. new \in Seq(Words)
    <3>1. Lines \subseteq Words BY DEF Words
    <3> QED BY <3>1, <1>3, SeqMonotonic
  <2>2. Len(t) = Len(new) BY <1>1, <1>14
  <2>3. \A k \in 1..Len(t) : t[k] = new[k] BY <1>14, <1>15
  <2> QED BY <1>14, <2>1, <2>2, <2>3, SeqEqual
<1>17. t # <<>> BY <1>16 DEF IsText
<1> QED BY <1>5, <1>10, <1>11, <1>16, <1>17 DEF Written

LEMMA ModifyApplied ==
  ASSUME NEW old, NEW new, NEW path \in Paths, IsText(old), IsText(new), Plain(old), Plain(new),
         EndsWithNewline(old) = EndsWithNewline(new),
         NEW ops, NEW c, NEW l \in Nat, Script(ops, c, l, old, new)
  PROVE  Applied(old, ModifyDiff(path, old, new).patch) = new
<1>1. PICK d : d = ModifyDiff(path, old, new).patch OBVIOUS
<1>2. /\ d \in Seq(AnyLine) /\ Len(d) \in Nat \ {0} /\ d[1] = DiffLine("git", path)
      /\ \E o : Drawn(d, 0, o, ops, c, l) /\ o[l] = Len(d)
  BY <1>1, ModifyDrawn
<1>3. PICK n \in Nat \ {0} : n = Len(d) BY <1>2
<1>4. PICK o : Drawn(d, 0, o, ops, c, l) /\ o[l] = n BY <1>2, <1>3
<1>5. old \in Seq(Words) /\ Blank \in Words /\ \A k \in 1..n : Gives(d[k], Words)
  <2>1. Lines \subseteq Words /\ Blank \in Words BY DiffAssumption DEF Words
  <2>2. old \in Seq(Words) BY <2>1, SeqMonotonic DEF IsText
  <2>3. \A k \in 1..n : d[k] \in AnyLine BY <1>2, <1>3, ElementOfSeq
  <2>4. \A e \in AnyLine : e.at \in Int /\ e.line \in Words BY DEF AnyLine, Words
  <2>5. \A k \in 1..n : Gives(d[k], Words) BY <2>3, <2>4 DEF Gives
  <2> QED BY <2>1, <2>2, <2>5
<1>6. PICK W : Writes(W, old, d, n, Words) /\ Applied(old, d) = Written(old, W[n])
  BY <1>3, <1>5, AppliedStepwise
<1>7. /\ \A k \in 0..n : W[k] \in Writer
      /\ W[0] = NotBegun /\ \A k \in 1..n : W[k] = WriteLine(old, W[k - 1], d[k])
  BY <1>6 DEF Writes, Writer
<1>8. /\ o \in [0..l -> Nat] /\ o[0] = 1
      /\ \A p \in 1..l : p \notin Shown(ops) => o[p] = o[p - 1]
      /\ \A p \in 1..l : p \in Shown(ops) => DrawnStep(d, o[p - 1], o[p], p - 1 \in Shown(ops), ops[p], c[p])
  BY <1>4 DEF Drawn
<1>9. W[1] = NotBegun
  <2>1. 1 \in 1..n /\ 1 - 1 = 0 OBVIOUS
  <2>2. W[1] = WriteLine(old, NotBegun, DiffLine("git", path)) BY <2>1, <1>2, <1>7
  <2> QED BY <2>2 DEF WriteLine, NotBegun, DiffLine
<1>10. DOMAIN ops = 1..l /\ \A p \in 1..l : ops[p] \in Op(Token) BY LenProperties, ElementOfSeq DEF Script
<1>11. c[1] = <<1, 1>> /\ c[l + 1] = <<Units(old) + 1, Units(new) + 1>> BY DEF Script, Track
<1> DEFINE Fits(p) == /\ Behind(W[o[p]], c[p + 1][1], c[p + 1][2], old, new)
                      /\ p \in Shown(ops) => Exact(W[o[p]], c[p + 1][1], c[p + 1][2], new)
           T == {p \in 0..l : Fits(p)}
<1>12. 0 \in T
  <2>1. 0 \notin Shown(ops) BY <1>10 DEF Shown
  <2>2. Behind(NotBegun, 1, 1, old, new)
    <3>1. 1 \in 1..1 /\ 0 \in 0..1 - 1 /\ 0 + (1 - 1) = 1 - 1 /\ 1..0 = {} /\ 1..(1 - 1) = {} OBVIOUS
    <3>2. NotBegun.at = 1 /\ Len(NotBegun.out) = 0 BY EmptySeq DEF NotBegun
    <3> QED BY <3>1, <3>2 DEF Behind
  <2>3. c[0 + 1][1] = 1 /\ c[0 + 1][2] = 1 BY <1>11
  <2>4. Fits(0) BY <2>1, <2>2, <2>3, <1>8, <1>9
  <2> QED BY <2>4
<1>13. ASSUME NEW p \in 1..l, p - 1 \in T PROVE p \in T
  <2>1. Fits(p - 1) /\ (p - 1) + 1 = p BY <1>13
  <2>2. PICK i \in 1..Units(old) + 1, j \in 1..Units(new) + 1 :
          c[p] = <<i, j>> /\ StepsTo(ops[p], i, j, c[p + 1], old, new)
    BY ScriptSteps
  <2>3. c[p][1] = i /\ c[p][2] = j BY <2>2
  <2>4. /\ Behind(W[o[p - 1]], i, j, old, new)
        /\ p - 1 \in Shown(ops) => Exact(W[o[p - 1]], i, j, new)
    BY <2>1, <2>3
  <2>5. i \in Nat \ {0} /\ j \in Nat \ {0} BY TokenFacts
  <2>6. CASE p \notin Shown(ops)
    <3>0. p \in DOMAIN ops /\ p \in Int BY <1>10
    <3>1. ops[p].mark = " " BY <3>0, <2>6, HiddenStays
    <3>2. old[i] = new[j] /\ c[p + 1] = <<i + 1, j + 1>> BY <3>1, <2>2 DEF StepsTo
    <3>3. Behind(W[o[p - 1]], i + 1, j + 1, old, new) BY <3>2, <2>4, <2>5, UnshownStep
    <3>4. o[p] = o[p - 1] /\ c[p + 1][1] = i + 1 /\ c[p + 1][2] = j + 1 BY <3>2, <2>6, <1>8
    <3>5. Fits(p) BY <3>3, <3>4, <2>6
    <3> QED BY <3>5
  <2>7. CASE p \in Shown(ops)
    <3>1. DrawnStep(d, o[p - 1], o[p], p - 1 \in Shown(ops), ops[p], <<i, j>>) BY <2>2, <2>7, <1>8
    <3>2. p - 1 \in 0..l /\ o[p - 1] \in Nat BY <1>8
    <3>3. PICK open \in BOOLEAN : open <=> p - 1 \in Shown(ops)
      <4>1. TRUE \in BOOLEAN /\ FALSE \in BOOLEAN OBVIOUS
      <4> QED BY <4>1, Zenon
    <3>4. PICK before \in Nat : before = o[p - 1] BY <3>2
    <3>5. Exact(W[o[p]], c[p + 1][1], c[p + 1][2], new)
      <4>1. DrawnStep(d, before, o[p], open, ops[p], <<i, j>>) BY <3>1, <3>3, <3>4 DEF DrawnStep
      <4>2. Behind(W[before], i, j, old, new) /\ (open => Exact(W[before], i, j, new)) BY <2>4, <3>3, <3>4
      <4> QED BY <4>1, <4>2, <2>2, <1>3, <1>6, DrawnApplied
    <3>6. /\ c[p + 1][1] \in Nat \ {0} /\ c[p + 1][2] \in Nat \ {0}
      <4>1. c[p + 1] \in {<<i + 1, j + 1>>, <<i + 1, j>>, <<i, j + 1>>} BY <2>2 DEF StepsTo
      <4> QED BY <4>1, <2>5
    <3>7. Fits(p) BY <3>5, <3>6, ExactIsBehind
    <3> QED BY <3>7
  <2> QED BY <2>6, <2>7
<1> HIDE DEF T
<1>14. l \in 0..l OBVIOUS
<1>15. l \in T BY <1>12, <1>13, <1>14, Induction
<1>16. Behind(W[n], Units(old) + 1, Units(new) + 1, old, new) BY <1>4, <1>11, <1>15 DEF T
<1>17. n \in 0..n OBVIOUS
<1>18. W[n] \in Writer BY <1>7, <1>17
<1> QED BY <1>1, <1>6, <1>16, <1>18, BehindWritten
LEMMA ScriptExists ==
  ASSUME NEW old, NEW new, IsText(old), IsText(new)
  PROVE  \E l \in Nat : \E ops, c : Script(ops, c, l, old, new)
<1>1. PICK n \in Nat, m \in Nat : n = Units(old) /\ m = Units(new) BY TokenFacts
<1>2. /\ Tokens(old) \in [1..n -> Token] /\ Len(Tokens(old)) = n
      /\ Tokens(new) \in [1..m -> Token] /\ Len(Tokens(new)) = m
  BY <1>1, TokenFacts
<1>3. PICK ops : ops = EditScript(old, new) OBVIOUS
<1>4. Walks(ops, Tokens(old), Tokens(new), n, m, Token, <<1, 1>>) BY <1>2, <1>3, ScriptWalks
<1>5. ops \in Seq(Op(Token)) BY <1>4 DEF Walks
<1>6. PICK c : Track(c, ops, Tokens(old), Tokens(new), n, m, <<1, 1>>) BY <1>4 DEF Walks
<1>7. PICK l \in Nat : l = Len(ops) BY <1>5, LenProperties
<1>8. Script(ops, c, l, old, new) BY <1>1, <1>3, <1>5, <1>6, <1>7 DEF Script
<1> QED BY <1>8

(* applyDiffToContent over the diff of two texts (generateUnifiedDiff) gives  *)
(* the new one, for all texts without header-like lines that agree about the  *)
(* newline at the end.                                                        *)
THEOREM AppliedGivesNew ==
  ASSUME NEW old, NEW new, NEW path \in Paths, IsText(old), IsText(new), Plain(old), Plain(new),
         EndsWithNewline(old) = EndsWithNewline(new)
  PROVE  Applied(old, ModifyDiff(path, old, new).patch) = new
<1>1. PICK l \in Nat : \E ops, c : Script(ops, c, l, old, new) BY ScriptExists
<1>2. PICK ops, c : Script(ops, c, l, old, new) BY <1>1
<1> QED BY <1>2, ModifyApplied
-----------------------------------------------------------------------------
(* The whole diff of a patch set, and its parts                               *)

Part(s, path) ==
  /\ s \in Seq(AnyLine) /\ Len(s) \in Nat \ {0} /\ s[1] = DiffLine("git", path)
  /\ \A x \in 2..Len(s) : s[x].mark # "git"
PartsOf(s, n, paths) == s \in Seq(Seq(AnyLine)) /\ n = Len(s) /\ \A k \in 1..n : Part(s[k], paths[k])
Marked(s, mark) == \E x \in DOMAIN s : s[x].mark = mark

(* D is the parts one after the other; part k is what comes after line o[k-1]. *)
Places(D, o, s, n) ==
  /\ D \in Seq(AnyLine) /\ o \in [0..n -> Nat] /\ o[0] = 0 /\ Len(D) = o[n]
  /\ \A k \in 1..n : o[k] = o[k - 1] + Len(s[k])
  /\ \A k \in 1..n : \A x \in 1..Len(s[k]) : o[k - 1] + x \in 1..Len(D) /\ D[o[k - 1] + x] = s[k][x]
  /\ \A y \in 1..Len(D) : \E k \in 1..n : \E x \in 1..Len(s[k]) : y = o[k - 1] + x
  /\ \A i, k \in 0..n : i < k => o[i] < o[k]

LEMMA Placed ==
  ASSUME NEW n \in Nat, NEW s, NEW paths, PartsOf(s, n, paths)
  PROVE  \E o : Places(FlattenSeq(s), o, s, n)
<1>1. s \in Seq(Seq(AnyLine)) /\ n = Len(s) BY DEF PartsOf
<1>2. PICK D : D = FlattenSeq(s) OBVIOUS
<1>3. D \in Seq(AnyLine) /\ \E o : Laid(o, s, D) BY <1>1, <1>2, FlattenLaid
<1>4. PICK o : Laid(o, s, D) BY <1>3
<1>5. /\ o \in [0..n -> Nat] /\ o[0] = 0 /\ Len(D) = o[n]
      /\ \A k \in 1..n : o[k] = o[k - 1] + Len(s[k])
      /\ \A k \in 1..n : \A x \in 1..Len(s[k]) : o[k - 1] + x \in 1..Len(D) /\ D[o[k - 1] + x] = s[k][x]
      /\ \A y \in 1..Len(D) : \E k \in 1..n : \E x \in 1..Len(s[k]) : y = o[k - 1] + x
  BY <1>1, <1>4 DEF Laid
<1>6. \A k \in 1..n : Len(s[k]) \in Nat \ {0} BY DEF PartsOf, Part
<1> DEFINE T == {k \in 0..n : \A i \in 0..n : i < k => o[i] < o[k]}
<1>7. 0 \in T OBVIOUS
<1>8. ASSUME NEW k \in 1..n, k - 1 \in T PROVE k \in T
  <2>1. \A i \in 0..n : i < k - 1 => o[i] < o[k - 1] BY <1>8
  <2>2. ASSUME NEW i \in 0..n, i < k PROVE o[i] < o[k]
    <3>0. k - 1 \in 0..n OBVIOUS
    <3>1. PICK a \in Nat, b \in Nat, e \in Nat \ {0} : a = o[i] /\ b = o[k - 1] /\ e = Len(s[k])
      BY <3>0, <1>5, <1>6
    <3>2. o[k] = b + e BY <3>1, <1>5
    <3>3. a < b \/ a = b
      <4>1. CASE i = k - 1 BY <4>1, <3>1
      <4>2. CASE i # k - 1
        <5>1. i < k - 1 BY <4>2, <2>2
        <5> QED BY <5>1, <2>1, <3>1
      <4> QED BY <4>1, <4>2
    <3>4. a < b + e BY <3>3
    <3> QED BY <3>1, <3>2, <3>4
  <2> QED BY <2>2
<1> HIDE DEF T
<1>9. \A k \in 0..n : k \in T BY <1>7, <1>8, Induction
<1>10. \A i, k \in 0..n : i < k => o[i] < o[k] BY <1>9 DEF T
<1>11. Places(D, o, s, n) BY <1>3, <1>5, <1>10 DEF Places
<1> QED BY <1>2, <1>11

Heads(D) == InOrder({i \in DOMAIN D : D[i].mark = "git"})
EndOf(D, h, k) == IF k = Len(h) THEN Len(D) ELSE h[k + 1] - 1
PartAt(D, h, k) == SubSeq(D, h[k], EndOf(D, h, k))
ChangeAt(path, s) == [path |-> path, lines |-> s, isNew |-> Marked(s, "new"), isDeleted |-> Marked(s, "deleted")]

(* extractFileChangesFromDiff takes a patch's text apart into the diffs that   *)
(* ingest joined, whatever lines their texts have, and reads the new and the  *)
(* deleted file off each.                                                     *)
THEOREM FileChangesAre ==
  ASSUME NEW n \in Nat, NEW s, NEW paths, PartsOf(s, n, paths)
  PROVE  FileChanges(FlattenSeq(s)) = [k \in 1..n |-> ChangeAt(paths[k], s[k])]
<1>1. PICK D : D = FlattenSeq(s) OBVIOUS
<1>2. PICK o : Places(D, o, s, n) BY <1>1, Placed
<1>3. /\ D \in Seq(AnyLine) /\ o \in [0..n -> Nat] /\ o[0] = 0 /\ Len(D) = o[n]
      /\ \A k \in 1..n : o[k] = o[k - 1] + Len(s[k])
      /\ \A k \in 1..n : \A x \in 1..Len(s[k]) : o[k - 1] + x \in 1..Len(D) /\ D[o[k - 1] + x] = s[k][x]
      /\ \A y \in 1..Len(D) : \E k \in 1..n : \E x \in 1..Len(s[k]) : y = o[k - 1] + x
      /\ \A i, k \in 0..n : i < k => o[i] < o[k]
  BY <1>2 DEF Places
<1>4. ASSUME NEW k \in 1..n
      PROVE  /\ s[k] \in Seq(AnyLine) /\ Len(s[k]) \in Nat \ {0} /\ s[k][1] = DiffLine("git", paths[k])
             /\ \A x \in 2..Len(s[k]) : s[k][x].mark # "git"
             /\ k - 1 \in 0..n /\ k \in 0..n /\ o[k - 1] \in Nat /\ o[k] \in Nat
  <2>1. Part(s[k], paths[k]) BY DEF PartsOf
  <2>2. k - 1 \in 0..n /\ k \in 0..n OBVIOUS
  <2>3. o[k - 1] \in Nat /\ o[k] \in Nat BY <2>2, <1>3
  <2> QED BY <2>1, <2>2, <2>3 DEF Part
<1> DEFINE h == [k \in 1..n |-> o[k - 1] + 1]
           S == {i \in DOMAIN D : D[i].mark = "git"}
<1>5. DOMAIN D = 1..Len(D) BY <1>3, LenProperties
<1>6. ASSUME NEW k \in 1..n PROVE h[k] \in S /\ D[h[k]].line = paths[k]
  <2>1. 1 \in 1..Len(s[k]) BY <1>4
  <2>2. h[k] \in 1..Len(D) /\ D[h[k]] = s[k][1] BY <2>1, <1>3
  <2>3. D[h[k]] = DiffLine("git", paths[k]) BY <2>2, <1>4
  <2>4. D[h[k]].mark = "git" /\ D[h[k]].line = paths[k] BY <2>3 DEF DiffLine
  <2>5. h[k] \in DOMAIN D BY <2>2, <1>5
  <2> HIDE DEF h
  <2> QED BY <2>4, <2>5
<1>7. ASSUME NEW i \in 1..n, NEW k \in 1..n, i < k PROVE h[i] < h[k]
  <2>1. o[i - 1] < o[k - 1] BY <1>3, <1>4, <1>7
  <2> QED BY <2>1, <1>4
<1>8. ASSUME NEW y \in S PROVE \E k \in 1..n : h[k] = y
  <2>0. y \in 1..Len(D) /\ D[y].mark = "git" BY <1>5
  <2>1. PICK k \in 1..n : \E x \in 1..Len(s[k]) : y = o[k - 1] + x BY <1>3, <2>0
  <2>2. PICK x \in 1..Len(s[k]) : y = o[k - 1] + x BY <2>1
  <2>3. s[k][x].mark = "git" BY <1>3, <2>0, <2>2
  <2>4. x = 1 BY <1>4, <2>3
  <2> QED BY <2>2, <2>4
<1>9. Lists(h, n, S)
  <2>1. h \in [1..n -> S] BY <1>6
  <2> QED BY <2>1, <1>7, <1>8 DEF Lists, Increasing
<1>10. S \subseteq Int BY <1>5
<1>11. Heads(D) = h
  <2> HIDE DEF S, h
  <2>1. InOrder(S) = h BY <1>9, <1>10, InOrderIs
  <2> QED BY <2>1 DEF Heads, S
<1>12. DOMAIN h = 1..n /\ Len(h) = n BY <1>9
<1>13. FileChanges(D) = [k \in 1..n |-> ChangeAt(D[h[k]].line, PartAt(D, h, k))]
  <2>1. FileChanges(D) = [k \in DOMAIN Heads(D) |-> ChangeAt(D[Heads(D)[k]].line, PartAt(D, Heads(D), k))]
    BY DEF FileChanges, Heads, ChangeAt, PartAt, EndOf, Marked
  <2> HIDE DEF h, S
  <2> QED BY <2>1, <1>11, <1>12
<1>14. ASSUME NEW k \in 1..n PROVE PartAt(D, h, k) = s[k]
  <2>1. EndOf(D, h, k) = o[k]
    <3>1. CASE k = n BY <3>1, <1>3, <1>12 DEF EndOf
    <3>2. CASE k # n
      <4>1. k + 1 \in 1..n /\ (k + 1) - 1 = k BY <3>2
      <4>2. h[k + 1] = o[k] + 1 BY <4>1
      <4>3. EndOf(D, h, k) = h[k + 1] - 1
        <5> HIDE DEF h, S
        <5> QED BY <3>2, <1>12 DEF EndOf
      <4> QED BY <4>2, <4>3, <1>4
    <3> QED BY <3>1, <3>2
  <2>2. PICK a \in Nat, e \in Nat \ {0}, q \in Seq(AnyLine) : a = o[k - 1] /\ q = s[k] /\ e = Len(q) BY <1>4
  <2>3. o[k] = a + e /\ h[k] = a + 1 BY <1>3, <2>2
  <2>4. PartAt(D, h, k) = SubSeq(D, a + 1, a + e)
    <3> HIDE DEF h, S
    <3> QED BY <2>1, <2>3 DEF PartAt
  <2>5. \A x \in 1..e : a + x \in 1..Len(D) /\ D[a + x] = q[x] BY <1>3, <2>2
  <2>6. \A i \in (a + 1)..(a + e) : D[i] \in AnyLine
    <3> SUFFICES ASSUME NEW i \in (a + 1)..(a + e) PROVE D[i] \in AnyLine OBVIOUS
    <3>1. i - a \in 1..e /\ a + (i - a) = i OBVIOUS
    <3>2. i \in 1..Len(D) BY <3>1, <2>5
    <3> QED BY <3>2, <1>3, ElementOfSeq
  <2>7. PICK p : p = SubSeq(D, a + 1, a + e) OBVIOUS
  <2>8. /\ p \in Seq(AnyLine)
        /\ Len(p) = IF a + 1 <= a + e THEN (a + e) - (a + 1) + 1 ELSE 0
        /\ \A i \in 1..(a + e) - (a + 1) + 1 : p[i] = D[(a + 1) + i - 1]
    BY <2>6, <2>7, SubSeqProperties
  <2>9. (a + e) - (a + 1) + 1 = e /\ a + 1 <= a + e OBVIOUS
  <2>10. Len(p) = e BY <2>8, <2>9
  <2>11. \A i \in 1..e : p[i] = q[i]
    <3> SUFFICES ASSUME NEW i \in 1..e PROVE p[i] = q[i] OBVIOUS
    <3>1. (a + 1) + i - 1 = a + i OBVIOUS
    <3>2. p[i] = D[a + i] BY <3>1, <2>8, <2>9
    <3> QED BY <3>2, <2>5
  <2>12. p = q BY <2>2, <2>8, <2>10, <2>11, SeqEqual
  <2> QED BY <2>2, <2>4, <2>7, <2>12
<1> HIDE DEF h, S
<1>15. FileChanges(D) = [k \in 1..n |-> ChangeAt(paths[k], s[k])] BY <1>6, <1>13, <1>14
<1> QED BY <1>1, <1>15

LEMMA DiffLineIs ==
  ASSUME NEW mark, NEW line
  PROVE  DiffLine(mark, line).mark = mark /\ DiffLine(mark, line).line = line
BY DEF DiffLine

(* The diff of a file that is made or removed whole                           *)
Whole(d, path, kind, head, mark, text) ==
  /\ Part(d, path) /\ Len(d) = Len(text) + 3
  /\ d[2] = DiffLine(kind, Blank) /\ d[3] = head
  /\ \A k \in 1..Len(text) : d[k + 3] = DiffLine(mark, text[k])

LEMMA WholeDiff ==
  ASSUME NEW path \in Paths, NEW text, IsText(text), NEW kind \in {"new", "deleted"},
         NEW head \in HunkLine, head.mark = "@@", NEW mark \in {"+", "-"},
         NEW d, d = <<DiffLine("git", path), DiffLine(kind, Blank), head>> \o AllLines(mark, text)
  PROVE  Whole(d, path, kind, head, mark, text)
<1>1. PICK n \in Nat \ {0} : n = Len(text) BY TokenFacts
<1>2. DOMAIN text = 1..n /\ \A k \in 1..n : text[k] \in Lines BY <1>1, LenProperties, ElementOfSeq DEF IsText
<1>3. PICK q : q = AllLines(mark, text) OBVIOUS
<1>4. mark \in Marks /\ kind \in Marks /\ "git" \in Marks BY DEF Marks
<1>5. ASSUME NEW k \in 1..n PROVE DiffLine(mark, text[k]) \in AnyLine
  <2>1. text[k] \in Lines \cup Paths BY <1>2
  <2> QED BY <2>1, <1>4, LineTypes
<1>6. q = [k \in 1..n |-> DiffLine(mark, text[k])] BY <1>2, <1>3 DEF AllLines
<1>7. q \in [1..n -> AnyLine] /\ \A k \in 1..n : q[k] = DiffLine(mark, text[k]) BY <1>5, <1>6
<1>8. q \in Seq(AnyLine) /\ Len(q) = n
  <2>1. q \in Seq(AnyLine) BY <1>7, SeqDef
  <2> QED BY <2>1, <1>6
<1>9. PICK a \in AnyLine : a = DiffLine("git", path) BY <1>4, LineTypes
<1>10. PICK b \in AnyLine : b = DiffLine(kind, Blank)
  <2>1. Blank \in Lines \cup Paths BY DiffAssumption
  <2> QED BY <2>1, <1>4, LineTypes
<1>11. PICK h \in AnyLine : h = head BY LineTypes
<1>12. PICK u : u = <<a, b, h>> OBVIOUS
<1>13. u \in Seq(AnyLine) /\ Len(u) = 3 /\ u[1] = a /\ u[2] = b /\ u[3] = h BY <1>12
<1>14. d = u \o q BY <1>3, <1>9, <1>10, <1>11, <1>12
<1>15. /\ u \o q \in Seq(AnyLine) /\ Len(u \o q) = Len(u) + Len(q)
       /\ \A i \in 1..Len(u) + Len(q) : (u \o q)[i] = IF i <= Len(u) THEN u[i] ELSE q[i - Len(u)]
  <2>1. u \in Seq(AnyLine) /\ q \in Seq(AnyLine) BY <1>8, <1>13
  <2> QED BY <2>1, ConcatProperties
<1>16. /\ d \in Seq(AnyLine) /\ Len(d) = 3 + n
       /\ \A i \in 1..3 + n : d[i] = IF i <= 3 THEN u[i] ELSE q[i - 3]
  BY <1>8, <1>13, <1>14, <1>15
<1>17. d[1] = a /\ d[2] = b /\ d[3] = h BY <1>13, <1>16
<1>18. ASSUME NEW k \in 1..n PROVE d[k + 3] = DiffLine(mark, text[k])
  <2>1. k + 3 \in 1..3 + n /\ ~ (k + 3 <= 3) /\ (k + 3) - 3 = k OBVIOUS
  <2> QED BY <2>1, <1>7, <1>16
<1>19. ASSUME NEW x \in 2..3 + n PROVE d[x].mark # "git"
  <2>1. CASE x = 2 BY <2>1, <1>10, <1>17 DEF DiffLine
  <2>2. CASE x = 3 BY <2>2, <1>11, <1>17
  <2>3. CASE x # 2 /\ x # 3
    <3>1. x - 3 \in 1..n /\ (x - 3) + 3 = x BY <2>3
    <3>2. d[x] = DiffLine(mark, text[x - 3]) BY <3>1, <1>18
    <3>3. DiffLine(mark, text[x - 3]).mark = mark BY DiffLineIs
    <3>4. d[x].mark = mark BY <3>2, <3>3, Zenon
    <3> QED BY <3>4
  <2> QED BY <2>1, <2>2, <2>3
<1>20. Part(d, path) BY <1>9, <1>16, <1>17, <1>19 DEF Part
<1>21. Len(d) = Len(text) + 3 BY <1>1, <1>16
<1> QED BY <1>1, <1>10, <1>11, <1>17, <1>18, <1>20, <1>21 DEF Whole

LEMMA CreateIsWhole ==
  ASSUME NEW path \in Paths, NEW text, IsText(text)
  PROVE  Whole(CreateDiff(path, text).patch, path, "new", HunkHeader(0, 1), "+", text)
<1>1. HunkHeader(0, 1) \in HunkLine BY LineTypes
<1>2. HunkHeader(0, 1).mark = "@@" BY DEF HunkHeader
<1>3. CreateDiff(path, text).patch =
        <<DiffLine("git", path), DiffLine("new", Blank), HunkHeader(0, 1)>> \o AllLines("+", text)
  BY DEF CreateDiff
<1> QED BY <1>1, <1>2, <1>3, WholeDiff

LEMMA DeleteIsWhole ==
  ASSUME NEW path \in Paths, NEW text, IsText(text)
  PROVE  Whole(DeleteDiff(path, text).patch, path, "deleted", HunkHeader(1, 0), "-", text)
<1>1. HunkHeader(1, 0) \in HunkLine BY LineTypes
<1>2. HunkHeader(1, 0).mark = "@@" BY DEF HunkHeader
<1>3. DeleteDiff(path, text).patch =
        <<DiffLine("git", path), DiffLine("deleted", Blank), HunkHeader(1, 0)>> \o AllLines("-", text)
  BY DEF DeleteDiff
<1> QED BY <1>1, <1>2, <1>3, WholeDiff

LEMMA WholeMarks ==
  ASSUME NEW d, NEW path, NEW kind \in {"new", "deleted"}, NEW head, head.mark = "@@", NEW mark \in {"+", "-"},
         NEW text, IsText(text), Whole(d, path, kind, head, mark, text)
  PROVE  /\ Marked(d, "new") <=> kind = "new"
         /\ Marked(d, "deleted") <=> kind = "deleted"
<1>1. PICK n \in Nat \ {0} : n = Len(text) BY TokenFacts
<1>2. /\ DOMAIN d = 1..n + 3 /\ d[1] = DiffLine("git", path) /\ d[2] = DiffLine(kind, Blank) /\ d[3] = head
      /\ \A k \in 1..n : d[k + 3] = DiffLine(mark, text[k])
  BY <1>1, LenProperties DEF Whole, Part
<1>3. 2 \in DOMAIN d /\ d[2].mark = kind BY <1>2 DEF DiffLine
<1>4. ASSUME NEW x \in DOMAIN d, x # 2 PROVE d[x].mark \notin {"new", "deleted"}
  <2>1. CASE x = 1 BY <2>1, <1>2 DEF DiffLine
  <2>2. CASE x = 3 BY <2>2, <1>2
  <2>3. CASE x # 1 /\ x # 3
    <3>1. x - 3 \in 1..n /\ (x - 3) + 3 = x BY <2>3, <1>2, <1>4
    <3>2. d[x] = DiffLine(mark, text[x - 3]) BY <3>1, <1>2
    <3> QED BY <3>2 DEF DiffLine
  <2> QED BY <2>1, <2>2, <2>3
<1> QED BY <1>3, <1>4 DEF Marked

(* extractNewFileContent finds the text a new file's diff was made of.        *)
LEMMA NewFileTextIsText ==
  ASSUME NEW path \in Paths, NEW text, IsText(text), Plain(text)
  PROVE  NewFileText(CreateDiff(path, text).patch) = text
<1>1. PICK n \in Nat \ {0} : n = Len(text) BY TokenFacts
<1>2. PICK d : d = CreateDiff(path, text).patch OBVIOUS
<1>3. Whole(d, path, "new", HunkHeader(0, 1), "+", text) BY <1>2, CreateIsWhole
<1>4. /\ DOMAIN d = 1..n + 3 /\ d[1] = DiffLine("git", path) /\ d[2] = DiffLine("new", Blank)
      /\ d[3] = HunkHeader(0, 1) /\ \A k \in 1..n : d[k + 3] = DiffLine("+", text[k])
  BY <1>1, <1>3, LenProperties DEF Whole, Part
<1>5. text \in Seq(Lines) /\ DOMAIN text = 1..n BY <1>1, LenProperties DEF IsText
<1> DEFINE h == [k \in 1..n |-> k + 3]
           S == Additions(d)
<1>6. ASSUME NEW k \in 1..n PROVE h[k] \in S
  <2>1. text[k] \notin PlusLines BY <1>5 DEF Plain
  <2>a. d[k + 3] = DiffLine("+", text[k]) BY <1>4
  <2>b. d[k + 3].mark = "+" /\ d[k + 3].line = text[k] BY <2>a, DiffLineIs
  <2>2. IsAddition(d[k + 3]) BY <2>1, <2>b DEF IsAddition
  <2>3. k + 3 \in DOMAIN d BY <1>4
  <2> QED BY <2>2, <2>3 DEF Additions
<1>7. ASSUME NEW y \in S PROVE \E k \in 1..n : h[k] = y
  <2>1. y \in 1..n + 3 /\ d[y].mark = "+" BY <1>4 DEF Additions, IsAddition
  <2>2. y # 1 /\ y # 2 /\ y # 3 BY <2>1, <1>4 DEF DiffLine, HunkHeader
  <2>3. y - 3 \in 1..n /\ h[y - 3] = y BY <2>1, <2>2
  <2> QED BY <2>3
<1>8. Lists(h, n, S)
  <2>1. h \in [1..n -> S] BY <1>6
  <2>2. \A i, j \in 1..n : i < j => h[i] < h[j] OBVIOUS
  <2> HIDE DEF h, S
  <2> QED BY <2>1, <2>2, <1>7 DEF Lists, Increasing
<1>9. S \subseteq Int BY <1>4 DEF Additions
<1>10. \A k \in 1..n : d[h[k]].line = text[k]
  <2>1. \A k \in 1..n : d[h[k]] = DiffLine("+", text[k]) BY <1>4
  <2> HIDE DEF h
  <2> QED BY <2>1, DiffLineIs
<1>a. DOMAIN h = 1..n /\ h # <<>>
  <2>1. DOMAIN h = 1..n OBVIOUS
  <2>2. 1 \in 1..n /\ DOMAIN <<>> = {} OBVIOUS
  <2> HIDE DEF h
  <2>3. h # <<>> BY <2>1, <2>2
  <2> QED BY <2>1, <2>3
<1> HIDE DEF h, S
<1>11. InOrder(S) = h BY <1>8, <1>9, InOrderIs
<1>12. NewFileText(d) = [k \in 1..n |-> d[h[k]].line] BY <1>11, <1>a DEF NewFileText, S
<1>13. text = [k \in 1..n |-> text[k]] BY <1>5
<1>14. NewFileText(d) = text BY <1>10, <1>12, <1>13
<1> QED BY <1>2, <1>14

LEMMA ModifyIsPart ==
  ASSUME NEW path \in Paths, NEW old, NEW new, IsText(old), IsText(new)
  PROVE  /\ Part(ModifyDiff(path, old, new).patch, path)
         /\ ~ Marked(ModifyDiff(path, old, new).patch, "new")
         /\ ~ Marked(ModifyDiff(path, old, new).patch, "deleted")
<1>1. PICK d : d = ModifyDiff(path, old, new).patch OBVIOUS
<1>2. PICK l \in Nat : \E ops, c : Script(ops, c, l, old, new) BY ScriptExists
<1>3. PICK ops, c : Script(ops, c, l, old, new) BY <1>2
<1>4. /\ d \in Seq(AnyLine) /\ Len(d) \in Nat \ {0} /\ d[1] = DiffLine("git", path)
      /\ \A x \in 2..Len(d) : d[x] \in HunkLine
  BY <1>1, <1>3, ModifyDrawn
<1>5. \A x \in 2..Len(d) : d[x].mark \in HunkMarks BY <1>4 DEF HunkLine
<1>6. "git" \notin HunkMarks /\ "new" \notin HunkMarks /\ "deleted" \notin HunkMarks BY DEF HunkMarks
<1>7. Part(d, path) BY <1>4, <1>5, <1>6 DEF Part
<1>8. d[1].mark = "git" BY <1>4, DiffLineIs
<1>9. \A x \in DOMAIN d : d[x].mark \in HunkMarks \/ d[x].mark = "git"
  <2>1. \A x \in DOMAIN d : x \in 2..Len(d) \/ x = 1 BY <1>4, LenProperties
  <2> QED BY <2>1, <1>5, <1>8
<1>10. ~ Marked(d, "new") /\ ~ Marked(d, "deleted") BY <1>6, <1>9 DEF Marked
<1> QED BY <1>1, <1>7, <1>10

-----------------------------------------------------------------------------
(* Find and replace *)

CountBody(f, c, find, n, i) ==
  IF i > n THEN 0 ELSE IF MatchesAt(c, find, i) THEN 1 + f[i + Len(find)] ELSE f[i + 1]

LEMMA OccursSomewhere ==
  ASSUME NEW c, NEW find, IsText(c), IsText(find), Occurrences(c, find) # 0
  PROVE  \E i \in DOMAIN c : MatchesAt(c, find, i)
<1>1. PICK n \in Nat \ {0}, m \in Nat \ {0} : n = Len(c) /\ m = Len(find) BY TokenFacts
<1>2. DOMAIN c = 1..n BY <1>1, LenProperties DEF IsText
<1> SUFFICES ASSUME \A i \in 1..n : ~ MatchesAt(c, find, i) PROVE Occurrences(c, find) = 0
  BY <1>2
<1> DEFINE Counts(f) == f = [i \in 1..(n + m) |-> CountBody(f, c, find, n, i)]
           zero == [i \in 1..(n + m) |-> 0]
           count == CHOOSE f : Counts(f)
<1>3. ASSUME NEW i \in 1..(n + m) PROVE CountBody(zero, c, find, n, i) = 0
  <2>1. CASE i > n BY <2>1 DEF CountBody
  <2>2. CASE ~ (i > n)
    <3>1. i \in 1..n /\ i + 1 \in 1..(n + m) BY <2>2
    <3>2. zero[i + 1] = 0 BY <3>1
    <3>3. ~ MatchesAt(c, find, i) BY <3>1
    <3> HIDE DEF zero
    <3> QED BY <2>2, <3>2, <3>3 DEF CountBody
  <2> QED BY <2>1, <2>2
<1>4. Counts(zero) BY <1>3
<1>5. Counts(count)
  <2> HIDE DEF Counts, zero
  <2> QED BY <1>4
<1>6. Occurrences(c, find) = count[1] BY <1>1 DEF Occurrences, CountBody
<1> HIDE DEF count, zero
<1>7. \A i \in 1..(n + m) : count[i] = CountBody(count, c, find, n, i) BY <1>5
<1> HIDE DEF Counts
<1> DEFINE T == {k \in 0..(n + m) : k = 0 \/ count[(n + m) + 1 - k] = 0}
<1>8. 0 \in T OBVIOUS
<1>9. ASSUME NEW k \in 1..(n + m), k - 1 \in T PROVE k \in T
  <2>1. PICK i \in 1..(n + m) : i = (n + m) + 1 - k OBVIOUS
  <2>2. count[i] = 0
    <3>1. CASE i > n BY <3>1, <1>7 DEF CountBody
    <3>2. CASE ~ (i > n)
      <4>1. i \in 1..n /\ k - 1 # 0 /\ (n + m) + 1 - (k - 1) = i + 1 BY <2>1, <3>2
      <4>2. count[i + 1] = 0 BY <4>1, <1>9
      <4>3. ~ MatchesAt(c, find, i) BY <4>1
      <4> QED BY <3>2, <4>2, <4>3, <1>7 DEF CountBody
    <3> QED BY <3>1, <3>2
  <2> QED BY <2>1, <2>2
<1> HIDE DEF T
<1>10. n + m \in Nat /\ n + m \in 0..(n + m) OBVIOUS
<1>11. n + m \in T BY <1>8, <1>9, <1>10, Induction
<1>12. count[(n + m) + 1 - (n + m)] = 0 BY <1>11 DEF T
<1>13. (n + m) + 1 - (n + m) = 1 OBVIOUS
<1> QED BY <1>6, <1>12, <1>13

LEMMA ReplacedIsText ==
  ASSUME NEW c, NEW find, NEW repl, IsText(c), IsText(find), IsText(repl), Occurrences(c, find) # 0
  PROVE  IsText(Replaced(c, find, repl))
<1>1. PICK n \in Nat \ {0}, m \in Nat \ {0}, w \in Nat \ {0} : n = Len(c) /\ m = Len(find) /\ w = Len(repl)
  BY TokenFacts
<1>2. DOMAIN c = 1..n /\ c \in Seq(Lines) /\ repl \in Seq(Lines) BY <1>1, LenProperties DEF IsText
<1> DEFINE M == {i \in DOMAIN c : MatchesAt(c, find, i)}
           First(k) == MatchesAt(c, find, k) /\ \A x \in 1..(k - 1) : ~ MatchesAt(c, find, x)
<1>3. M # {} /\ M \subseteq Nat BY <1>2, OccursSomewhere
<1>4. PICK k \in M : \A y \in M : k <= y BY <1>3, LeastNumber
<1>5. First(k)
  <2>1. ASSUME NEW x \in 1..(k - 1) PROVE ~ MatchesAt(c, find, x)
    <3>1. x \in DOMAIN c /\ ~ (k <= x) BY <1>2
    <3> QED BY <3>1, <1>4
  <2> QED BY <2>1
<1> DEFINE i == CHOOSE k_1 \in DOMAIN c : First(k_1)
<1>6. i \in DOMAIN c /\ First(i) BY <1>5
<1>7. Replaced(c, find, repl) = SubSeq(c, 1, i - 1) \o repl \o SubSeq(c, i + Len(find), Len(c)) BY DEF Replaced
<1> HIDE DEF i
<1>8. i \in 1..n /\ i + m - 1 <= n BY <1>1, <1>2, <1>6 DEF MatchesAt
<1>9. PICK a : a = SubSeq(c, 1, i - 1) OBVIOUS
<1>10. PICK b : b = SubSeq(c, i + m, n) OBVIOUS
<1>11. a \in Seq(Lines)
  <2>1. 1 \in Int /\ i - 1 \in Int BY <1>8
  <2>2. \A x \in 1..i - 1 : c[x] \in Lines BY <1>1, <1>2, <1>8, ElementOfSeq
  <2> QED BY <2>1, <2>2, <1>9, SubSeqProperties
<1>12. b \in Seq(Lines)
  <2>1. i + m \in Int /\ n \in Int BY <1>8
  <2>2. \A x \in (i + m)..n : c[x] \in Lines BY <1>1, <1>2, <1>8, ElementOfSeq
  <2> QED BY <2>1, <2>2, <1>10, SubSeqProperties
<1>13. PICK u : u = a \o repl OBVIOUS
<1>14. u \in Seq(Lines) /\ Len(u) = Len(a) + w
  <2>1. a \o repl \in Seq(Lines) /\ Len(a \o repl) = Len(a) + Len(repl) BY <1>2, <1>11, ConcatProperties
  <2> QED BY <2>1, <1>1, <1>13
<1>15. PICK v : v = u \o b OBVIOUS
<1>16. v \in Seq(Lines) /\ Len(v) = Len(u) + Len(b)
  <2>1. u \o b \in Seq(Lines) /\ Len(u \o b) = Len(u) + Len(b) BY <1>12, <1>14, ConcatProperties
  <2> QED BY <2>1, <1>15
<1>17. Len(a) \in Nat /\ Len(b) \in Nat BY <1>11, <1>12, LenProperties
<1>18. Len(v) # 0 BY <1>14, <1>16, <1>17
<1>19. v # <<>> BY <1>18, EmptySeq
<1>20. Replaced(c, find, repl) = v BY <1>1, <1>7, <1>9, <1>10, <1>13, <1>15
<1> QED BY <1>16, <1>19, <1>20 DEF IsText
-----------------------------------------------------------------------------
(* The changes of a response and their diffs                                  *)

WantedBy(c) ==
  CASE c.action = "delete" -> Absent
    [] c.action = "replace" -> Replaced(case.base[c.path], c.find, c.text)
    [] c.action \in {"create", "modify"} -> c.text

Deletes(c, d) ==
  IsText(case.base[c.path]) /\ WantedBy(c) = Absent /\ d = DeleteDiff(c.path, case.base[c.path]).patch
Creates(c, d) == IsText(WantedBy(c)) /\ d = CreateDiff(c.path, WantedBy(c)).patch
Modifies(c, d) ==
  /\ IsText(case.base[c.path]) /\ IsText(WantedBy(c))
  /\ d = ModifyDiff(c.path, case.base[c.path], WantedBy(c)).patch

LEMMA CaseFacts ==
  ASSUME case \in Cases
  PROVE  /\ \A i \in DOMAIN case.changes : AcceptedChange(case.changes[i])
         /\ \E n \in Nat : DOMAIN case.changes = 1..n
         /\ \A p \in Paths : case.base[p] \in Seq(Lines)
<1>1. case.base \in Tree /\ Accepted(case.changes) BY PatchTextAssumption
<1>2. PICK n \in 1..5 : DOMAIN case.changes = 1..n /\ \A i \in 1..n : AcceptedChange(case.changes[i])
  BY <1>1 DEF Accepted
<1>3. n \in Nat OBVIOUS
<1> QED BY <1>1, <1>2, <1>3 DEF Tree

LEMMA HasTextFacts ==
  ASSUME case \in Cases, NEW p \in Paths, HasText(p)
  PROVE  Fetched(p) = case.base[p] /\ IsText(case.base[p])
<1>1. case.base[p] \in Seq(Lines) BY CaseFacts
<1>2. Fetched(p) # Absent BY DEF HasText
<1>3. Fetched(p) = case.base[p] BY <1>2 DEF Fetched
<1> QED BY <1>1, <1>2, <1>3 DEF IsText, Absent

LEMMA ChangeMeans ==
  ASSUME case \in Cases, NEW c, AcceptedChange(c), ChangeDiff(c) # None
  PROVE  /\ c.path \in Paths
         /\ \/ Deletes(c, ChangeDiff(c)[1].patch)
            \/ Creates(c, ChangeDiff(c)[1].patch)
            \/ Modifies(c, ChangeDiff(c)[1].patch)
<1>1. /\ c.path \in Paths /\ c.action \in {"create", "modify", "delete", "replace"}
      /\ c.action \in {"create", "modify"} => IsText(c.text)
      /\ c.action = "replace" => IsText(c.find) /\ IsText(c.text)
  BY DEF AcceptedChange
<1> DEFINE old == Fetched(c.path)
           base == case.base[c.path]
<1>2. HasText(c.path) => old = base /\ IsText(base) BY <1>1, HasTextFacts
<1>3. CASE c.action = "delete"
  <2>1. HasText(c.path) /\ ChangeDiff(c) = <<DeleteDiff(c.path, old)>> BY <1>3 DEF ChangeDiff
  <2>2. PICK x : x = DeleteDiff(c.path, old) OBVIOUS
  <2>3. ChangeDiff(c)[1] = x BY <2>1, <2>2
  <2>4. ChangeDiff(c)[1].patch = DeleteDiff(c.path, base).patch BY <2>1, <2>2, <2>3, <1>2
  <2>5. WantedBy(c) = Absent BY <1>3 DEF WantedBy
  <2> QED BY <2>1, <2>4, <2>5, <1>1, <1>2 DEF Deletes
<1>4. CASE c.action \in {"create", "modify"} /\ (c.action = "create" \/ ~ HasText(c.path))
  <2>1. ChangeDiff(c) = <<CreateDiff(c.path, c.text)>> BY <1>4 DEF ChangeDiff
  <2>2. PICK x : x = CreateDiff(c.path, c.text) OBVIOUS
  <2>3. ChangeDiff(c)[1] = x BY <2>1, <2>2
  <2>5. WantedBy(c) = c.text BY <1>4 DEF WantedBy
  <2> QED BY <2>2, <2>3, <2>5, <1>1, <1>4 DEF Creates
<1>5. CASE c.action = "modify" /\ HasText(c.path)
  <2>1. ChangeDiff(c) = <<ModifyDiff(c.path, old, c.text)>> BY <1>5 DEF ChangeDiff
  <2>2. PICK x : x = ModifyDiff(c.path, old, c.text) OBVIOUS
  <2>3. ChangeDiff(c)[1] = x BY <2>1, <2>2
  <2>5. WantedBy(c) = c.text BY <1>5 DEF WantedBy
  <2> QED BY <2>2, <2>3, <2>5, <1>1, <1>2, <1>5 DEF Modifies
<1>6. CASE c.action = "replace"
  <2>1. HasText(c.path) /\ Occurrences(old, c.find) = 1 BY <1>6 DEF ChangeDiff
  <2>2. ChangeDiff(c) = <<ModifyDiff(c.path, old, Replaced(old, c.find, c.text))>>
    BY <2>1, <1>6 DEF ChangeDiff
  <2>3. PICK x : x = ModifyDiff(c.path, old, Replaced(old, c.find, c.text)) OBVIOUS
  <2>4. ChangeDiff(c)[1] = x BY <2>2, <2>3
  <2>5. WantedBy(c) = Replaced(base, c.find, c.text) BY <1>6 DEF WantedBy
  <2>6. old = base /\ IsText(base) BY <1>2, <2>1
  <2>7. Occurrences(base, c.find) # 0 BY <2>1, <2>6
  <2>8. IsText(c.find) /\ IsText(c.text) BY <1>1, <1>6
  <2> HIDE DEF old, base
  <2>9. IsText(Replaced(base, c.find, c.text)) BY <2>6, <2>7, <2>8, ReplacedIsText
  <2> USE DEF base
  <2> QED BY <2>3, <2>4, <2>5, <2>6, <2>9, <1>1 DEF Modifies
<1> QED BY <1>1, <1>3, <1>4, <1>5, <1>6

LEMMA OnceWanted ==
  ASSUME case \in Cases, Once, NEW i \in DOMAIN case.changes
  PROVE  /\ ChangesOf(case.changes[i].path) = {i}
         /\ Wanted(case.changes[i].path) = WantedBy(case.changes[i])
<1>1. PICK n \in Nat : DOMAIN case.changes = 1..n BY CaseFacts
<1>2. PICK c : c = case.changes[i] OBVIOUS
<1>3. AcceptedChange(c) BY <1>2, CaseFacts
<1>4. PICK p \in Paths : p = c.path BY <1>3 DEF AcceptedChange
<1>5. i \in ChangesOf(p) BY <1>2, <1>4 DEF ChangesOf
<1>6. ASSUME NEW j \in ChangesOf(p), j # i PROVE FALSE
  <2>1. IsFiniteSet(ChangesOf(p))
    <3>1. ChangesOf(p) \subseteq 1..n BY <1>1 DEF ChangesOf
    <3>2. IsFiniteSet(1..n) BY FS_Interval
    <3> QED BY <3>1, <3>2, FS_Subset
  <2>2. Cardinality(ChangesOf(p)) <= 1 BY <1>4 DEF Once
  <2>3. PICK S : S = ChangesOf(p) OBVIOUS
  <2>4. Cardinality({i}) = 1 /\ IsFiniteSet({i}) BY FS_Singleton
  <2>5. Cardinality({i} \cup {j}) = Cardinality({i}) + 1
    <3>1. j \notin {i} BY <1>6
    <3> QED BY <3>1, <2>4, FS_AddElement
  <2>6. {i} \cup {j} \subseteq S BY <1>5, <2>3
  <2>7. Cardinality({i} \cup {j}) <= Cardinality(S) /\ Cardinality(S) \in Nat
    BY <2>1, <2>3, <2>6, FS_Subset, FS_CardinalityType
  <2> QED BY <2>2, <2>3, <2>4, <2>5, <2>7
<1>7. ChangesOf(p) = {i} BY <1>5, <1>6
<1>8. (CHOOSE k \in ChangesOf(p) : TRUE) = i BY <1>7
<1>9. ChangesOf(p) # {} BY <1>7
<1>10. c.action \in {"create", "modify", "delete", "replace"} BY <1>3 DEF AcceptedChange
<1>11. Wanted(p) = WantedBy(c) BY <1>2, <1>4, <1>8, <1>9, <1>10 DEF Wanted, WantedBy
<1> QED BY <1>2, <1>4, <1>7, <1>11

Made == [i \in DOMAIN case.changes |-> ChangeDiff(case.changes[i])]
Done == InOrder({i \in DOMAIN Made : Made[i] # None})
Chosen(k) == case.changes[Done[k]]
PathOf(k) == Chosen(k).path
DiffOf(k) == Made[Done[k]][1].patch
ThePatch ==
  [diff |-> FlattenSeq([k \in DOMAIN Done |-> DiffOf(k)]),
   files |-> [k \in DOMAIN Done |-> [path |-> PathOf(k),
                                     additions |-> Made[Done[k]][1].additions,
                                     deletions |-> Made[Done[k]][1].deletions]]]
Means(k) ==
  \/ Deletes(Chosen(k), DiffOf(k)) \/ Creates(Chosen(k), DiffOf(k)) \/ Modifies(Chosen(k), DiffOf(k))

LEMMA DoneFacts ==
  ASSUME case \in Cases
  PROVE  \E n \in Nat :
           /\ DOMAIN Done = 1..n
           /\ \A i, k \in 1..n : Done[i] = Done[k] => i = k
           /\ \A k \in 1..n : Done[k] \in DOMAIN case.changes /\ PathOf(k) \in Paths /\ Means(k)
<1>1. PICK m \in Nat : DOMAIN case.changes = 1..m BY CaseFacts
<1>2. PICK S : S = {i \in DOMAIN Made : Made[i] # None} OBVIOUS
<1>3. DOMAIN Made = 1..m /\ \A i \in 1..m : Made[i] = ChangeDiff(case.changes[i]) BY <1>1 DEF Made
<1>4. S \subseteq 1..m BY <1>2, <1>3
<1>5. PICK n \in Nat : Lists(Done, n, S) BY <1>2, <1>4, InOrderFacts DEF Done
<1>6. Done \in [1..n -> S] /\ \A i, k \in 1..n : i < k => Done[i] < Done[k] BY <1>5 DEF Lists, Increasing
<1>7. ASSUME NEW i \in 1..n, NEW k \in 1..n, Done[i] = Done[k] PROVE i = k
  <2>1. Done[i] \in 1..m /\ Done[k] \in 1..m BY <1>4, <1>6
  <2>2. ~ (i < k) /\ ~ (k < i) BY <1>6, <1>7, <2>1
  <2> QED BY <2>2
<1>8. ASSUME NEW k \in 1..n
      PROVE  Done[k] \in DOMAIN case.changes /\ PathOf(k) \in Paths /\ Means(k)
  <2>1. Done[k] \in S BY <1>6
  <2>2. Done[k] \in DOMAIN case.changes BY <2>1, <1>1, <1>4
  <2>3. PICK c : c = case.changes[Done[k]] OBVIOUS
  <2>4. AcceptedChange(c) BY <2>2, <2>3, CaseFacts
  <2>5. Made[Done[k]] = ChangeDiff(c) /\ ChangeDiff(c) # None BY <2>1, <2>2, <2>3, <1>1, <1>2, <1>3
  <2>6. PICK d : d = ChangeDiff(c)[1].patch OBVIOUS
  <2>7. c.path \in Paths /\ (Deletes(c, d) \/ Creates(c, d) \/ Modifies(c, d))
    BY <2>4, <2>5, <2>6, ChangeMeans
  <2>8. Chosen(k) = c /\ DiffOf(k) = d BY <2>3, <2>5, <2>6 DEF Chosen, DiffOf
  <2> QED BY <2>2, <2>7, <2>8 DEF PathOf, Means
<1>9. DOMAIN Done = 1..n BY <1>6
<1> QED BY <1>7, <1>8, <1>9

LEMMA MeantPart ==
  ASSUME case \in Cases, NEW k, PathOf(k) \in Paths, Means(k)
  PROVE  /\ Part(DiffOf(k), PathOf(k))
         /\ Marked(DiffOf(k), "new") <=> Creates(Chosen(k), DiffOf(k))
         /\ Marked(DiffOf(k), "deleted") <=> Deletes(Chosen(k), DiffOf(k))
<1>1. PICK c : c = Chosen(k) OBVIOUS
<1>2. PICK p \in Paths : p = c.path BY <1>1 DEF PathOf
<1>3. PICK d : d = DiffOf(k) OBVIOUS
<1>4. ASSUME Deletes(c, d) PROVE Part(d, p) /\ ~ Marked(d, "new") /\ Marked(d, "deleted")
  <2>1. PICK old : old = case.base[p] OBVIOUS
  <2>2. IsText(old) /\ d = DeleteDiff(p, old).patch BY <1>2, <1>4, <2>1 DEF Deletes
  <2>3. Whole(d, p, "deleted", HunkHeader(1, 0), "-", old) BY <2>2, DeleteIsWhole
  <2>4. HunkHeader(1, 0).mark = "@@" BY DEF HunkHeader
  <2>5. "deleted" \in {"new", "deleted"} /\ "-" \in {"+", "-"} OBVIOUS
  <2>6. (Marked(d, "new") <=> "deleted" = "new") /\ (Marked(d, "deleted") <=> "deleted" = "deleted")
    BY <2>2, <2>3, <2>4, <2>5, WholeMarks
  <2> QED BY <2>3, <2>6 DEF Whole
<1>5. ASSUME Creates(c, d) PROVE Part(d, p) /\ Marked(d, "new") /\ ~ Marked(d, "deleted")
  <2>1. PICK new : new = WantedBy(c) OBVIOUS
  <2>2. IsText(new) /\ d = CreateDiff(p, new).patch BY <1>2, <1>5, <2>1 DEF Creates
  <2>3. Whole(d, p, "new", HunkHeader(0, 1), "+", new) BY <2>2, CreateIsWhole
  <2>4. HunkHeader(0, 1).mark = "@@" BY DEF HunkHeader
  <2>5. "new" \in {"new", "deleted"} /\ "+" \in {"+", "-"} OBVIOUS
  <2>6. (Marked(d, "new") <=> "new" = "new") /\ (Marked(d, "deleted") <=> "new" = "deleted")
    BY <2>2, <2>3, <2>4, <2>5, WholeMarks
  <2> QED BY <2>3, <2>6 DEF Whole
<1>6. ASSUME Modifies(c, d) PROVE Part(d, p) /\ ~ Marked(d, "new") /\ ~ Marked(d, "deleted")
  <2>1. PICK old, new : old = case.base[p] /\ new = WantedBy(c) OBVIOUS
  <2>2. IsText(old) /\ IsText(new) /\ d = ModifyDiff(p, old, new).patch BY <1>2, <1>6, <2>1 DEF Modifies
  <2> QED BY <2>2, ModifyIsPart
<1>7. Deletes(c, d) \/ Creates(c, d) \/ Modifies(c, d) BY <1>1, <1>3 DEF Means
<1>8. PathOf(k) = p BY <1>1, <1>2 DEF PathOf
<1> QED BY <1>1, <1>3, <1>4, <1>5, <1>6, <1>7, <1>8

FileChange(k) == ChangeAt(PathOf(k), DiffOf(k))

LEMMA PatchParts ==
  ASSUME case \in Cases
  PROVE  \E n \in Nat :
           /\ DOMAIN Done = 1..n
           /\ PartsOf([k \in 1..n |-> DiffOf(k)], n, [k \in 1..n |-> PathOf(k)])
           /\ ThePatch.diff = FlattenSeq([k \in 1..n |-> DiffOf(k)])
           /\ FileChanges(ThePatch.diff) = [k \in 1..n |-> FileChange(k)]
<1>1. PICK n \in Nat :
        /\ DOMAIN Done = 1..n
        /\ \A k \in 1..n : PathOf(k) \in Paths /\ Means(k)
  BY DoneFacts
<1>2. PICK s : s = [k \in 1..n |-> DiffOf(k)] OBVIOUS
<1>3. PICK paths : paths = [k \in 1..n |-> PathOf(k)] OBVIOUS
<1>4. \A k \in 1..n : Part(DiffOf(k), PathOf(k)) BY <1>1, MeantPart
<1>5. \A k \in 1..n : s[k] = DiffOf(k) /\ paths[k] = PathOf(k) BY <1>2, <1>3
<1>6. \A k \in 1..n : DiffOf(k) \in Seq(AnyLine) BY <1>4 DEF Part
<1>7. s \in Seq(Seq(AnyLine)) /\ Len(s) = n
  <2>1. s \in [1..n -> Seq(AnyLine)] BY <1>2, <1>6
  <2> QED BY <2>1, SeqDef
<1>8. PartsOf(s, n, paths) BY <1>4, <1>5, <1>7 DEF PartsOf
<1>9. FileChanges(FlattenSeq(s)) = [k \in 1..n |-> ChangeAt(paths[k], s[k])] BY <1>8, FileChangesAre
<1>10. FileChanges(FlattenSeq(s)) = [k \in 1..n |-> FileChange(k)] BY <1>5, <1>9 DEF FileChange
<1>11. ThePatch.diff = FlattenSeq(s) BY <1>1, <1>2 DEF ThePatch
<1> QED BY <1>1, <1>2, <1>3, <1>8, <1>10, <1>11
-----------------------------------------------------------------------------
(* What every state keeps: the patch is made of the response, the verdict is *)
(* about that patch, and a valid patch set fits the base commit.              *)

Checked ==
  validation = "valid" /\ faults = 0 => \A k \in DOMAIN Done : ~ Invalid(FileChange(k), {})

Judgement(row) == [result |-> PolicyResult(PolicyViolations(row)), violations |-> PolicyViolations(row)]

Kept ==
  /\ case \in Cases /\ faults \in Nat /\ next \in Nat /\ branch = [p \in Paths |-> branch[p]]
  /\ patch # NoPatch => patch = ThePatch
  /\ validation # "none" => patch # NoPatch
  /\ next > 0 => validation = "valid"
  /\ verdict # NotJudged => patch # NoPatch /\ verdict = Judgement(patch)
  /\ outcome = "applied" => next > 0 /\ \A k \in DOMAIN Done : k < next
  /\ Checked

LEMMA SameCase ==
  ASSUME case' = case
  PROVE  /\ ThePatch' = ThePatch /\ Done' = Done /\ Once' = Once
         /\ \A k : FileChange(k)' = FileChange(k) /\ PathOf(k)' = PathOf(k)
         /\ \A p : Wanted(p)' = Wanted(p) /\ Carried(p)' = Carried(p)
<1>1. Made' = Made BY DEF Made, ChangeDiff, Fetched, HasText
<1>2. Done' = Done BY <1>1 DEF Done
<1>3. \A k : Chosen(k)' = Chosen(k) /\ DiffOf(k)' = DiffOf(k) BY <1>1, <1>2 DEF Chosen, DiffOf
<1>4. \A k : PathOf(k)' = PathOf(k) BY <1>3 DEF PathOf
<1>5. \A k : FileChange(k)' = FileChange(k) BY <1>3, <1>4 DEF FileChange
<1>6. ThePatch' = ThePatch BY <1>1, <1>2, <1>3, <1>4 DEF ThePatch
<1>7. Once' = Once BY DEF Once, ChangesOf
<1>8. \A p : Wanted(p)' = Wanted(p) BY DEF Wanted, ChangesOf
<1>9. \A p : Carried(p)' = Carried(p) BY <1>8 DEF Carried
<1> QED BY <1>2, <1>4, <1>5, <1>6, <1>7, <1>8, <1>9

LEMMA PatchChanges ==
  ASSUME case \in Cases, patch = ThePatch
  PROVE  \E n \in Nat : /\ DOMAIN Done = 1..n /\ FileChanges(patch.diff) = [k \in 1..n |-> FileChange(k)]
                        /\ DOMAIN FileChanges(patch.diff) = 1..n /\ Len(FileChanges(patch.diff)) = n
<1>1. PICK n \in Nat : DOMAIN Done = 1..n /\ FileChanges(ThePatch.diff) = [k \in 1..n |-> FileChange(k)]
  BY PatchParts
<1>2. PICK f : f = FileChanges(patch.diff) OBVIOUS
<1>3. f = [k \in 1..n |-> FileChange(k)] BY <1>1, <1>2
<1>4. DOMAIN f = 1..n /\ Len(f) = n BY <1>3
<1> QED BY <1>1, <1>2, <1>3, <1>4

Lost(read, written) ==
  {x \in {"read", "write"} : (x = "read" /\ ~ read) \/ (x = "write" /\ ~ written)}

LEMMA LostCalls ==
  ASSUME NEW read \in BOOLEAN, NEW written \in BOOLEAN
  PROVE  /\ Cardinality(Lost(read, written)) \in Nat
         /\ Cardinality(Lost(read, written)) = 0 => read /\ written
<1>1. IsFiniteSet({"read", "write"})
  <2>1. IsFiniteSet({"read"}) BY FS_Singleton
  <2>2. {"read", "write"} = {"read"} \cup {"write"} OBVIOUS
  <2> QED BY <2>1, <2>2, FS_AddElement
<1>2. PICK S : S = Lost(read, written) OBVIOUS
<1>3. S \subseteq {"read", "write"} BY <1>2 DEF Lost
<1>4. IsFiniteSet(S) BY <1>1, <1>3, FS_Subset
<1>5. Cardinality(S) \in Nat BY <1>4, FS_CardinalityType
<1>6. Cardinality(S) = 0 => S = {} BY <1>4, FS_EmptySet
<1>7. S = {} => read /\ written BY <1>2 DEF Lost
<1> QED BY <1>2, <1>5, <1>6, <1>7

(* What one file change does to the branch when it goes through, and why it   *)
(* does not when no call is lost.                                             *)
NewText(k, t) ==
  LET c == FileChange(k)
      p == PathOf(k)
  IN \/ c.isDeleted /\ (t = Absent \/ (t = branch[p] /\ faults' # faults))
     \/ ~ c.isDeleted /\ branch[p] = Absent /\ t = NewFileText(c.lines)
     \/ ~ c.isDeleted /\ ~ c.isNew /\ branch[p] # Absent /\ t = Applied(branch[p], c.lines)
Refused(k) ==
  LET c == FileChange(k)
      p == PathOf(k)
  IN ~ c.isDeleted /\ branch[p] # Absent /\ (c.isNew \/ Mismatches(branch[p], c.lines) # {})

Goes(k) ==
  /\ next' = next + 1 /\ UNCHANGED outcome
  /\ \E t : branch' = [branch EXCEPT ![PathOf(k)] = t] /\ NewText(k, t)
Stops(k) == Fail /\ (faults' = faults => Refused(k))

LEMMA UpdateMeans ==
  ASSUME NEW path, NEW text, NEW withSha \in BOOLEAN, UpdateFile(path, text, withSha)
  PROVE  \/ branch[path] # Absent /\ ~ withSha /\ Fail
         \/ /\ branch[path] = Absent \/ withSha
            /\ branch' = [branch EXCEPT ![path] = text] /\ next' = next + 1 /\ UNCHANGED outcome
BY DEF UpdateFile, GoOn

LEMMA ApplyMeans ==
  ASSUME Kept, ApplyChange
  PROVE  /\ next \in DOMAIN Done /\ PathOf(next) \in Paths /\ Means(next)
         /\ faults' \in Nat /\ faults' >= faults
         /\ Goes(next) \/ Stops(next)
<1>1. next > 0 /\ validation = "valid" /\ patch = ThePatch /\ case \in Cases /\ next \in Nat /\ faults \in Nat
  BY DEF Kept, ApplyChange
<1>2. PICK n \in Nat : /\ DOMAIN Done = 1..n /\ FileChanges(patch.diff) = [k \in 1..n |-> FileChange(k)]
                       /\ Len(FileChanges(patch.diff)) = n
  BY <1>1, PatchChanges
<1>3. next \in 1..n BY <1>1, <1>2 DEF ApplyChange
<1>4. FileChanges(patch.diff)[next] = FileChange(next) BY <1>2, <1>3
<1>5. PICK c : c = FileChange(next) OBVIOUS
<1>6. PICK p : p = PathOf(next) OBVIOUS
<1>7. c.path = p BY <1>5, <1>6 DEF FileChange, ChangeAt
<1>8. PICK read \in BOOLEAN, written \in BOOLEAN :
        /\ faults' = faults + Cardinality(Lost(read, written))
        /\ IF c.isDeleted THEN DeleteChange(c, read, written)
           ELSE IF ~ written THEN Fail
           ELSE IF c.isNew THEN UpdateFile(c.path, NewFileText(c.lines), FALSE)
           ELSE ModifyChange(c, read)
  BY <1>4, <1>5 DEF ApplyChange, Lost
<1>9. /\ faults' \in Nat /\ faults' >= faults
      /\ faults' = faults => read /\ written
  <2>1. PICK x \in Nat : x = Cardinality(Lost(read, written)) BY LostCalls
  <2>2. faults' = faults + x BY <1>8, <2>1
  <2>3. faults' = faults => x = 0 BY <1>1, <2>2
  <2> QED BY <1>1, <2>1, <2>2, <2>3, LostCalls
<1>10. ASSUME c.isDeleted PROVE Goes(next) \/ Stops(next)
  <2>1. DeleteChange(c, read, written) BY <1>8, <1>10
  <2>2. next' = next + 1 /\ UNCHANGED outcome BY <2>1 DEF DeleteChange, GoOn
  <2>3. CASE read /\ written
    <3>1. branch' = [branch EXCEPT ![p] = Absent] BY <2>1, <2>3, <1>7 DEF DeleteChange
    <3>2. NewText(next, Absent) BY <1>5, <1>10 DEF NewText
    <3> QED BY <2>2, <3>1, <3>2, <1>6 DEF Goes
  <2>4. CASE ~ (read /\ written)
    <3>1. branch' = branch BY <2>1, <2>4 DEF DeleteChange
    <3>2. branch' = [branch EXCEPT ![p] = branch[p]]
      <4>1. branch = [q \in Paths |-> branch[q]] BY DEF Kept
      <4>2. [branch EXCEPT ![p] = branch[p]] = branch BY <4>1
      <4> QED BY <3>1, <4>2
    <3>3. faults' # faults BY <2>4, <1>9
    <3>4. NewText(next, branch[p]) BY <3>3, <1>5, <1>6, <1>10 DEF NewText
    <3> QED BY <2>2, <3>2, <3>4, <1>6 DEF Goes
  <2> QED BY <2>3, <2>4
<1>11. ASSUME ~ c.isDeleted /\ ~ written PROVE Goes(next) \/ Stops(next)
  <2>1. Fail BY <1>8, <1>11
  <2>2. faults' # faults BY <1>9, <1>11
  <2> QED BY <2>1, <2>2 DEF Stops
<1>12. ASSUME ~ c.isDeleted /\ written /\ c.isNew PROVE Goes(next) \/ Stops(next)
  <2>1. UpdateFile(p, NewFileText(c.lines), FALSE) BY <1>7, <1>8, <1>12
  <2>2. CASE branch[p] # Absent
    <3>1. Fail BY <2>1, <2>2, UpdateMeans
    <3>2. Refused(next) BY <2>2, <1>5, <1>6, <1>12 DEF Refused
    <3> QED BY <3>1, <3>2 DEF Stops
  <2>3. CASE branch[p] = Absent
    <3>1. branch' = [branch EXCEPT ![p] = NewFileText(c.lines)] /\ next' = next + 1 /\ UNCHANGED outcome
      BY <2>1, <2>3, UpdateMeans
    <3>2. NewText(next, NewFileText(c.lines)) BY <2>3, <1>5, <1>6, <1>12 DEF NewText
    <3> QED BY <3>1, <3>2, <1>6 DEF Goes
  <2> QED BY <2>2, <2>3
<1>13. ASSUME ~ c.isDeleted /\ written /\ ~ c.isNew PROVE Goes(next) \/ Stops(next)
  <2>0. ModifyChange(c, read) BY <1>8, <1>13
  <2>1. CASE ~ read \/ branch[p] = Absent
    <3>1. UpdateFile(p, NewFileText(c.lines), FALSE) BY <2>0, <2>1, <1>7 DEF ModifyChange
    <3>2. CASE branch[p] # Absent
      <4>1. Fail BY <3>1, <3>2, UpdateMeans
      <4>2. faults' # faults BY <2>1, <3>2, <1>9
      <4> QED BY <4>1, <4>2 DEF Stops
    <3>3. CASE branch[p] = Absent
      <4>1. branch' = [branch EXCEPT ![p] = NewFileText(c.lines)] /\ next' = next + 1 /\ UNCHANGED outcome
        BY <3>1, <3>3, UpdateMeans
      <4>2. NewText(next, NewFileText(c.lines)) BY <3>3, <1>5, <1>6, <1>13 DEF NewText
      <4> QED BY <4>1, <4>2, <1>6 DEF Goes
    <3> QED BY <3>2, <3>3
  <2>2. CASE read /\ branch[p] # Absent /\ Mismatches(branch[p], c.lines) # {}
    <3>1. Fail BY <2>0, <2>2, <1>7 DEF ModifyChange
    <3>2. Refused(next) BY <2>2, <1>5, <1>6, <1>13 DEF Refused
    <3> QED BY <3>1, <3>2 DEF Stops
  <2>3. CASE read /\ branch[p] # Absent /\ Mismatches(branch[p], c.lines) = {}
    <3>1. UpdateFile(p, Applied(branch[p], c.lines), TRUE) BY <2>0, <2>3, <1>7 DEF ModifyChange
    <3>2. branch' = [branch EXCEPT ![p] = Applied(branch[p], c.lines)] /\ next' = next + 1 /\ UNCHANGED outcome
      BY <3>1, UpdateMeans
    <3>3. NewText(next, Applied(branch[p], c.lines)) BY <2>3, <1>5, <1>6, <1>13 DEF NewText
    <3> QED BY <3>2, <3>3, <1>6 DEF Goes
  <2> QED BY <2>1, <2>2, <2>3
<1>14. Goes(next) \/ Stops(next) BY <1>10, <1>11, <1>12, <1>13
<1>15. PathOf(next) \in Paths /\ Means(next)
  <2>1. \A k \in DOMAIN Done : PathOf(k) \in Paths /\ Means(k) BY <1>1, DoneFacts
  <2> QED BY <2>1, <1>2, <1>3
<1> QED BY <1>2, <1>3, <1>9, <1>14, <1>15
-----------------------------------------------------------------------------
(* Every step keeps Kept.                                                     *)
LEMMA SameInvalid ==
  ASSUME case' = case
  PROVE  \A k : Invalid(FileChange(k), {})' = Invalid(FileChange(k), {})
<1>1. \A k : FileChange(k)' = FileChange(k) BY SameCase
<1> QED BY <1>1 DEF Invalid

(* A step that only changes later parts of the state.                         *)
LEMMA CheckedStays ==
  ASSUME Checked, case' = case, validation' = validation, faults' = 0 => faults = 0
  PROVE  Checked'
<1>1. Done' = Done BY SameCase
<1>2. \A k : Invalid(FileChange(k), {})' = Invalid(FileChange(k), {}) BY SameInvalid
<1> QED BY <1>1, <1>2 DEF Checked

LEMMA InitKept == Init => Kept
<1> SUFFICES ASSUME Init PROVE Kept OBVIOUS
<1>1. Checked BY DEF Init, Checked
<1>2. branch = [p \in Paths |-> branch[p]] BY DEF Init
<1>3. 0 \in Nat /\ ~ (0 > 0) OBVIOUS
<1> QED BY <1>1, <1>2, <1>3 DEF Init, Kept

LEMMA GenerateKept == Kept /\ GeneratePatch => Kept'
<1> SUFFICES ASSUME Kept, GeneratePatch PROVE Kept' OBVIOUS
<1>1. UNCHANGED <<case, verdict, validation, branch, next, faults>> /\ outcome = "none" /\ patch = NoPatch
  BY DEF GeneratePatch
<1>2. (patch' = ThePatch /\ outcome' = outcome) \/ (patch' = patch /\ outcome' = "failed")
  <2> DEFINE row(made, done) ==
               [diff |-> FlattenSeq([k \in DOMAIN done |-> made[done[k]][1].patch]),
                files |-> [k \in DOMAIN done |->
                  [path |-> case.changes[done[k]].path,
                   additions |-> made[done[k]][1].additions,
                   deletions |-> made[done[k]][1].deletions]]]
             outcomeOf(made, done) ==
               IF done = <<>> THEN outcome' = "failed" /\ UNCHANGED patch
               ELSE patch' = row(made, done) /\ UNCHANGED outcome
  <2>1. PICK made \in {[i \in DOMAIN case.changes |-> ChangeDiff(case.changes[i])]} :
          \E done \in {InOrder({i \in DOMAIN made : made[i] # None})} : outcomeOf(made, done)
    BY DEF GeneratePatch
  <2>2. PICK done \in {InOrder({i \in DOMAIN made : made[i] # None})} : outcomeOf(made, done) BY <2>1
  <2>3. made = Made BY <2>1 DEF Made
  <2>4. done = Done BY <2>2, <2>3 DEF Done
  <2>5. row(made, done) = ThePatch BY <2>3, <2>4 DEF ThePatch, DiffOf, PathOf, Chosen
  <2> HIDE DEF row
  <2> QED BY <2>2, <2>5
<1>3. ThePatch' = ThePatch BY <1>1, SameCase
<1>4. Checked' BY <1>1, CheckedStays DEF Kept
<1>5. outcome' # "applied" BY <1>1, <1>2
<1>6. patch' # NoPatch' => patch' = ThePatch' BY <1>1, <1>2, <1>3 DEF NoPatch
<1>7. validation' = "none" /\ verdict' = NotJudged' BY <1>1 DEF Kept, NotJudged
<1>8. next' > 0 => validation' = "valid" BY <1>1 DEF Kept
<1> QED BY <1>1, <1>4, <1>5, <1>6, <1>7, <1>8 DEF Kept

LEMMA JudgeKept == Kept /\ EvaluatePolicy => Kept'
<1> SUFFICES ASSUME Kept, EvaluatePolicy PROVE Kept' OBVIOUS
<1>1. UNCHANGED <<case, patch, validation, branch, next, outcome, faults>> /\ patch # NoPatch
  BY DEF EvaluatePolicy
<1>2. verdict' = Judgement(patch) BY DEF EvaluatePolicy, Judgement
<1>3. Judgement(patch)' = Judgement(patch) BY <1>1
<1>4. ThePatch' = ThePatch /\ Done' = Done BY <1>1, SameCase
<1>5. Checked' BY <1>1, CheckedStays DEF Kept
<1> QED BY <1>1, <1>2, <1>3, <1>4, <1>5 DEF Kept, NoPatch

LEMMA ValidateKept == Kept /\ (\E unread \in SUBSET Paths : ValidatePatches(unread)) => Kept'
<1> SUFFICES ASSUME Kept, NEW unread \in SUBSET Paths, ValidatePatches(unread) PROVE Kept' OBVIOUS
<1>1. /\ UNCHANGED <<case, patch, verdict, branch, next, outcome>>
      /\ patch # NoPatch /\ next = 0 /\ faults' = faults + Cardinality(unread)
  BY DEF ValidatePatches
<1>2. case \in Cases /\ patch = ThePatch /\ faults \in Nat BY <1>1 DEF Kept
<1>3. IsFiniteSet(unread) BY PatchTextAssumption, FS_Subset
<1>4. faults' \in Nat /\ (faults' = 0 => unread = {})
  <2>1. PICK x \in Nat : x = Cardinality(unread) BY <1>3, FS_CardinalityType
  <2>2. faults' = faults + x BY <1>1, <2>1
  <2>3. faults' \in Nat /\ (faults' = 0 => x = 0) BY <2>2, <1>2
  <2>4. x = 0 => unread = {} BY <2>1, <1>3, FS_EmptySet
  <2> QED BY <2>3, <2>4
<1>5. ThePatch' = ThePatch /\ Done' = Done BY <1>1, SameCase
<1>6. Checked'
  <2>1. \A k : Invalid(FileChange(k), {})' = Invalid(FileChange(k), {}) BY <1>1, SameInvalid
  <2>2. PICK n \in Nat : DOMAIN Done = 1..n /\ FileChanges(patch.diff) = [k \in 1..n |-> FileChange(k)]
    BY <1>2, PatchChanges
  <2>3. ASSUME validation' = "valid", faults' = 0, NEW k \in 1..n PROVE ~ Invalid(FileChange(k), {})
    <3>1. unread = {} BY <1>4, <2>3
    <3>2. PICK f : f = FileChanges(patch.diff) OBVIOUS
    <3>3. ~ (\E i \in DOMAIN f : Invalid(f[i], unread)) BY <2>3, <3>2 DEF ValidatePatches
    <3>4. DOMAIN f = 1..n /\ f[k] = FileChange(k) BY <2>2, <3>2
    <3> QED BY <3>1, <3>3, <3>4
  <2> QED BY <1>5, <2>1, <2>2, <2>3 DEF Checked
<1>7. outcome' # "applied"
  <2>1. next = 0 /\ ~ (0 > 0) BY <1>1
  <2> QED BY <1>1, <2>1 DEF Kept
<1>8. ~ (next' > 0) BY <1>1
<1>9. verdict' # NotJudged' => verdict' = Judgement(patch) BY <1>1 DEF Kept, NotJudged
<1>10. Judgement(patch)' = Judgement(patch) BY <1>1
<1> QED BY <1>1, <1>2, <1>4, <1>5, <1>6, <1>7, <1>8, <1>9, <1>10 DEF Kept, NoPatch, NotJudged

(* What is kept without a word about the branch.                              *)
LEMMA ApplyingKept ==
  ASSUME Kept, UNCHANGED <<case, patch, verdict, validation>>, validation = "valid",
         branch' = [p \in Paths |-> branch'[p]], next' \in Nat, faults' \in Nat, faults' >= faults,
         outcome' = "applied" => next' > 0 /\ \A k \in DOMAIN Done : k < next'
  PROVE  Kept'
<1>1. ThePatch' = ThePatch /\ Done' = Done BY SameCase
<1>2. faults \in Nat BY DEF Kept
<1>3. faults' = 0 => faults = 0 BY <1>2
<1>4. Checked' BY <1>3, CheckedStays DEF Kept
<1>5. Judgement(patch)' = Judgement(patch) OBVIOUS
<1> QED BY <1>1, <1>4, <1>5 DEF Kept, NoPatch, NotJudged

LEMMA CreateBranchKept == Kept /\ CreateBranch => Kept'
<1> SUFFICES ASSUME Kept, CreateBranch PROVE Kept' OBVIOUS
<1>1. /\ validation = "valid" /\ outcome = "none" /\ branch' = case.base /\ next' = 1
      /\ UNCHANGED <<case, patch, verdict, validation, outcome, faults>>
  BY DEF CreateBranch
<1>2. case.base \in Tree BY PatchTextAssumption DEF Kept
<1>3. branch' = [p \in Paths |-> branch'[p]] BY <1>1, <1>2 DEF Tree
<1>4. next' \in Nat /\ faults' \in Nat /\ faults' >= faults BY <1>1 DEF Kept
<1>5. outcome' # "applied" BY <1>1
<1> QED BY <1>1, <1>3, <1>4, <1>5, ApplyingKept

LEMMA ApplyKept == Kept /\ ApplyChange => Kept'
<1> SUFFICES ASSUME Kept, ApplyChange PROVE Kept' OBVIOUS
<1>1. UNCHANGED <<case, patch, verdict, validation>> /\ outcome = "none" /\ next > 0 BY DEF ApplyChange
<1>2. validation = "valid" /\ next \in Nat /\ branch = [p \in Paths |-> branch[p]] BY <1>1 DEF Kept
<1>3. faults' \in Nat /\ faults' >= faults BY ApplyMeans
<1>4. CASE Goes(next)
  <2>1. PICK t : branch' = [branch EXCEPT ![PathOf(next)] = t] BY <1>4 DEF Goes
  <2>2. branch' = [p \in Paths |-> branch'[p]] BY <1>2, <2>1
  <2>3. next' \in Nat BY <1>2, <1>4 DEF Goes
  <2>4. outcome' # "applied" BY <1>1, <1>4 DEF Goes
  <2> QED BY <1>1, <1>2, <1>3, <2>2, <2>3, <2>4, ApplyingKept
<1>5. CASE Stops(next)
  <2>1. branch' = branch /\ next' = next /\ outcome' # "applied" BY <1>5 DEF Stops, Fail
  <2>2. branch' = [p \in Paths |-> branch'[p]] BY <1>2, <2>1
  <2> QED BY <1>1, <1>2, <1>3, <2>1, <2>2, ApplyingKept
<1> QED BY <1>4, <1>5, ApplyMeans

LEMMA FinishKept == Kept /\ FinishApply => Kept'
<1> SUFFICES ASSUME Kept, FinishApply PROVE Kept' OBVIOUS
<1>1. /\ UNCHANGED <<case, patch, verdict, validation, branch, next, faults>>
      /\ next > 0 /\ next > Len(FileChanges(patch.diff))
  BY DEF FinishApply
<1>2. validation = "valid" /\ patch = ThePatch /\ case \in Cases /\ next \in Nat /\ faults \in Nat
  BY <1>1 DEF Kept
<1>3. PICK n \in Nat : DOMAIN Done = 1..n /\ Len(FileChanges(patch.diff)) = n BY <1>2, PatchChanges
<1>4. \A k \in DOMAIN Done : k < next BY <1>1, <1>2, <1>3
<1>5. branch' = [p \in Paths |-> branch'[p]] BY <1>1 DEF Kept
<1>6. next' \in Nat /\ faults' \in Nat /\ faults' >= faults /\ next' > 0 BY <1>1, <1>2
<1> QED BY <1>1, <1>2, <1>4, <1>5, <1>6, ApplyingKept

LEMMA StepKept == Kept /\ [Next]_vars => Kept'
<1> SUFFICES ASSUME Kept, [Next]_vars PROVE Kept' OBVIOUS
<1>1. CASE UNCHANGED vars
  <2>1. UNCHANGED <<case, patch, verdict, validation, branch, next, outcome, faults>> BY <1>1 DEF vars
  <2>2. ThePatch' = ThePatch /\ Done' = Done BY <2>1, SameCase
  <2>3. Checked' BY <2>1, CheckedStays DEF Kept
  <2>4. Judgement(patch)' = Judgement(patch) BY <2>1
  <2> QED BY <2>1, <2>2, <2>3, <2>4 DEF Kept, NoPatch, NotJudged
<1>2. CASE Next
  BY <1>2, GenerateKept, JudgeKept, ValidateKept, CreateBranchKept, ApplyKept, FinishKept DEF Next
<1> QED BY <1>1, <1>2

LEMMA KeptInvariant == Spec => []Kept
<1>1. Init => Kept BY InitKept
<1>2. Kept /\ [Next]_vars => Kept' BY StepKept
<1> QED BY <1>1, <1>2, PTL DEF Spec
-----------------------------------------------------------------------------
(* What is on the branch, when a response changes each path once.             *)

OnBranch(k) ==
  LET p == PathOf(k)
  IN /\ k >= next => branch[p] = case.base[p]
     /\ k < next /\ Carried(p) => branch[p] \in {case.base[p], Wanted(p)}
     /\ k < next /\ Carried(p) /\ faults = 0 => branch[p] = Wanted(p)

InPlace ==
  next > 0 /\ Once =>
    /\ \A p \in Paths : branch[p] # case.base[p] => \E k \in DOMAIN Done : p = PathOf(k)
    /\ \A k \in DOMAIN Done : OnBranch(k)

LEMMA OncePaths ==
  ASSUME case \in Cases, Once
  PROVE  /\ \A k \in DOMAIN Done : Wanted(PathOf(k)) = WantedBy(Chosen(k))
         /\ \A i, k \in DOMAIN Done : PathOf(i) = PathOf(k) => i = k
<1>1. PICK n \in Nat : /\ DOMAIN Done = 1..n
                       /\ \A i, k \in 1..n : Done[i] = Done[k] => i = k
                       /\ \A k \in 1..n : Done[k] \in DOMAIN case.changes
  BY DoneFacts
<1>2. ASSUME NEW k \in 1..n
      PROVE  ChangesOf(PathOf(k)) = {Done[k]} /\ Wanted(PathOf(k)) = WantedBy(Chosen(k))
  <2>1. PICK i \in DOMAIN case.changes : i = Done[k] BY <1>1
  <2>2. ChangesOf(case.changes[i].path) = {i} /\ Wanted(case.changes[i].path) = WantedBy(case.changes[i])
    BY OnceWanted
  <2> QED BY <2>1, <2>2 DEF PathOf, Chosen
<1>3. ASSUME NEW i \in 1..n, NEW k \in 1..n, PathOf(i) = PathOf(k) PROVE i = k
  <2>1. {Done[i]} = {Done[k]} BY <1>2, <1>3
  <2>2. Done[i] = Done[k] BY <2>1
  <2> QED BY <2>2, <1>1
<1> QED BY <1>1, <1>2, <1>3

(* The three kinds of diff, as the applicator sees them.                      *)
LEMMA ChangeKinds ==
  ASSUME case \in Cases, NEW k, PathOf(k) \in Paths, Means(k)
  PROVE  LET c == Chosen(k)
             d == DiffOf(k)
             f == FileChange(k)
         IN /\ f.lines = d
            /\ \/ Deletes(c, d) /\ f.isDeleted
               \/ Creates(c, d) /\ ~ f.isDeleted /\ f.isNew
               \/ Modifies(c, d) /\ ~ f.isDeleted /\ ~ f.isNew
<1>1. PICK f : f = FileChange(k) OBVIOUS
<1>2. PICK c, d : c = Chosen(k) /\ d = DiffOf(k) OBVIOUS
<1>3. f.lines = d /\ (f.isNew <=> Marked(d, "new")) /\ (f.isDeleted <=> Marked(d, "deleted"))
  BY <1>1, <1>2 DEF FileChange, ChangeAt
<1>4. (Marked(d, "new") <=> Creates(c, d)) /\ (Marked(d, "deleted") <=> Deletes(c, d))
  BY <1>2, MeantPart
<1>5. Creates(c, d) => ~ Deletes(c, d) BY DEF Creates, Deletes, IsText, Absent
<1>6. Deletes(c, d) \/ Creates(c, d) \/ Modifies(c, d) BY <1>2 DEF Means
<1> QED BY <1>1, <1>2, <1>3, <1>4, <1>5, <1>6

LEMMA WrittenText ==
  ASSUME case \in Cases, Once, NEW k \in DOMAIN Done, NEW t, NewText(k, t),
         branch[PathOf(k)] = case.base[PathOf(k)], Carried(PathOf(k))
  PROVE  /\ t \in {case.base[PathOf(k)], Wanted(PathOf(k))}
         /\ faults' = faults => t = Wanted(PathOf(k))
<1>1. PathOf(k) \in Paths /\ Means(k) /\ Wanted(PathOf(k)) = WantedBy(Chosen(k))
  <2>1. PathOf(k) \in Paths /\ Means(k) BY DoneFacts
  <2> QED BY <2>1, OncePaths
<1>2. PICK p \in Paths : p = PathOf(k) BY <1>1
<1>3. PICK c, d : c = Chosen(k) /\ d = DiffOf(k) OBVIOUS
<1>4. PICK f : f = FileChange(k) OBVIOUS
<1>5. c.path = p BY <1>2, <1>3 DEF PathOf
<1>6. PICK old, new : old = case.base[p] /\ new = Wanted(p) OBVIOUS
<1>7. new = WantedBy(c) /\ branch[p] = old BY <1>1, <1>2, <1>3, <1>6
<1>8. f.lines = d /\ (\/ Deletes(c, d) /\ f.isDeleted
                      \/ Creates(c, d) /\ ~ f.isDeleted /\ f.isNew
                      \/ Modifies(c, d) /\ ~ f.isDeleted /\ ~ f.isNew)
  BY <1>1, <1>3, <1>4, ChangeKinds
<1>9. \/ f.isDeleted /\ (t = Absent \/ (t = old /\ faults' # faults))
      \/ ~ f.isDeleted /\ old = Absent /\ t = NewFileText(f.lines)
      \/ ~ f.isDeleted /\ ~ f.isNew /\ old # Absent /\ t = Applied(old, f.lines)
  BY <1>2, <1>4, <1>7 DEF NewText
<1>10. /\ Plain(old) /\ Plain(new)
       /\ (old # Absent /\ new # Absent) => EndsWithNewline(old) = EndsWithNewline(new)
  BY <1>2, <1>6 DEF Carried
<1>11. ASSUME Deletes(c, d), f.isDeleted PROVE t \in {old, new} /\ (faults' = faults => t = new)
  <2>1. new = Absent BY <1>7, <1>11 DEF Deletes
  <2> QED BY <2>1, <1>9, <1>11
<1>12. ASSUME Creates(c, d), ~ f.isDeleted, f.isNew PROVE t = new
  <2>1. IsText(new) /\ d = CreateDiff(p, new).patch BY <1>5, <1>7, <1>12 DEF Creates
  <2>2. NewFileText(d) = new BY <2>1, <1>10, NewFileTextIsText
  <2> QED BY <2>2, <1>8, <1>9, <1>12
<1>13. ASSUME Modifies(c, d), ~ f.isDeleted PROVE t = new
  <2>1. IsText(old) /\ IsText(new) /\ d = ModifyDiff(p, old, new).patch BY <1>5, <1>6, <1>7, <1>13 DEF Modifies
  <2>2. old # Absent /\ new # Absent BY <2>1 DEF IsText, Absent
  <2>3. EndsWithNewline(old) = EndsWithNewline(new) BY <2>2, <1>10
  <2>4. Applied(old, d) = new BY <2>1, <2>3, <1>10, AppliedGivesNew
  <2> QED BY <2>2, <2>4, <1>8, <1>9, <1>13
<1> QED BY <1>2, <1>6, <1>8, <1>11, <1>12, <1>13

LEMMA InPlaceStays ==
  ASSUME InPlace, UNCHANGED <<case, branch, next>>, faults' = 0 => faults = 0
  PROVE  InPlace'
<1>1. /\ Done' = Done /\ Once' = Once /\ \A k : PathOf(k)' = PathOf(k)
      /\ \A p : Wanted(p)' = Wanted(p) /\ Carried(p)' = Carried(p)
  BY SameCase
<1>2. \A k : OnBranch(k) => OnBranch(k)' BY <1>1 DEF OnBranch
<1> QED BY <1>1, <1>2 DEF InPlace

LEMMA CreateInPlace == Kept /\ CreateBranch => InPlace'
<1> SUFFICES ASSUME Kept, CreateBranch PROVE InPlace' OBVIOUS
<1>1. case' = case /\ case \in Cases /\ branch' = case.base /\ next' = 1 BY DEF CreateBranch, Kept
<1>2. PICK n \in Nat : DOMAIN Done = 1..n BY <1>1, DoneFacts
<1>3. Done' = Done /\ \A k : PathOf(k)' = PathOf(k) BY <1>1, SameCase
<1>4. ASSUME NEW k \in 1..n PROVE OnBranch(k)'
  <2>1. ~ (k < 1) OBVIOUS
  <2> QED BY <1>1, <2>1 DEF OnBranch
<1> QED BY <1>1, <1>2, <1>3, <1>4 DEF InPlace

LEMMA ApplyInPlace == Kept /\ InPlace /\ ApplyChange => InPlace'
<1> SUFFICES ASSUME Kept, InPlace, ApplyChange PROVE InPlace' OBVIOUS
<1>a. case' = case BY DEF ApplyChange
<1>b. Once' = Once BY <1>a, SameCase
<1> SUFFICES ASSUME Once PROVE InPlace' BY <1>b DEF InPlace
<1>1. /\ case' = case /\ case \in Cases /\ next \in Nat /\ next > 0 /\ faults \in Nat
      /\ branch = [p \in Paths |-> branch[p]]
  BY DEF ApplyChange, Kept
<1>2. /\ next \in DOMAIN Done /\ PathOf(next) \in Paths
      /\ faults' \in Nat /\ faults' >= faults /\ (Goes(next) \/ Stops(next))
  BY ApplyMeans
<1>3. faults' = 0 => faults = 0 /\ faults' = faults BY <1>1, <1>2
<1>4. CASE Stops(next)
  <2>1. UNCHANGED <<branch, next>> BY <1>4 DEF Stops, Fail
  <2> QED BY <1>1, <1>3, <2>1, InPlaceStays
<1>5. CASE Goes(next)
  <2>1. PICK n \in Nat : DOMAIN Done = 1..n /\ \A k \in 1..n : PathOf(k) \in Paths BY <1>1, DoneFacts
  <2>2. PICK m \in 1..n : m = next BY <1>2, <2>1
  <2>3. PICK q \in Paths : q = PathOf(m) BY <1>2, <2>2
  <2>4. PICK t : branch' = [branch EXCEPT ![q] = t] /\ NewText(m, t) BY <1>5, <2>2, <2>3 DEF Goes
  <2>5. next' = m + 1 BY <1>5, <2>2 DEF Goes
  <2>6. branch'[q] = t /\ \A p \in Paths : p # q => branch'[p] = branch[p] BY <1>1, <2>4
  <2>7. /\ \A p \in Paths : branch[p] # case.base[p] => \E k \in 1..n : p = PathOf(k)
        /\ \A k \in 1..n : OnBranch(k)
    BY <1>1, <2>1 DEF InPlace
  <2>8. \A i, k \in 1..n : PathOf(i) = PathOf(k) => i = k BY <1>1, <2>1, OncePaths
  <2>9. branch[q] = case.base[q]
    <3>1. OnBranch(m) /\ m >= m BY <2>7
    <3> QED BY <3>1, <2>2, <2>3 DEF OnBranch
  <2>10. Carried(q) => t \in {case.base[q], Wanted(q)} /\ (faults' = faults => t = Wanted(q))
    <3>1. m \in DOMAIN Done BY <2>1, <2>2
    <3> QED BY <3>1, <1>1, <2>3, <2>4, <2>9, WrittenText
  <2>11. /\ Done' = Done /\ \A k : PathOf(k)' = PathOf(k)
         /\ \A p : Wanted(p)' = Wanted(p) /\ Carried(p)' = Carried(p)
    BY <1>1, SameCase
  <2>12. ASSUME NEW k \in 1..n PROVE OnBranch(k)'
    <3>1. PICK p \in Paths : p = PathOf(k) BY <2>1
    <3>2. CASE k = m
      <4>1. k < next' /\ ~ (k >= next') BY <3>2, <2>5
      <4>2. p = q /\ branch'[p] = t BY <3>1, <3>2, <2>3, <2>6
      <4> QED BY <4>1, <4>2, <3>1, <2>10, <2>11, <1>1, <1>3 DEF OnBranch
    <3>3. CASE k # m
      <4>1. p # q BY <3>1, <3>3, <2>3, <2>8
      <4>2. branch'[p] = branch[p] BY <4>1, <2>6
      <4>3. (k >= next' => k >= next) /\ (k < next' => k < next) BY <3>3, <2>2, <2>5
      <4>4. OnBranch(k) BY <2>7
      <4> QED BY <4>2, <4>3, <4>4, <3>1, <2>11, <1>1, <1>3 DEF OnBranch
    <3> QED BY <3>2, <3>3
  <2>13. ASSUME NEW p \in Paths, branch'[p] # case.base[p] PROVE \E k \in 1..n : p = PathOf(k)
    <3>1. CASE p = q BY <3>1, <2>3
    <3>2. CASE p # q BY <3>2, <2>6, <2>7, <2>13
    <3> QED BY <3>1, <3>2
  <2> QED BY <1>1, <2>1, <2>11, <2>12, <2>13 DEF InPlace
<1> QED BY <1>2, <1>4, <1>5

LEMMA StepInPlace == Kept /\ InPlace /\ [Next]_vars => InPlace'
<1> SUFFICES ASSUME Kept, InPlace, [Next]_vars PROVE InPlace' OBVIOUS
<1>1. CASE UNCHANGED <<case, branch, next, faults>> BY <1>1, InPlaceStays
<1>2. CASE \E unread \in SUBSET Paths : ValidatePatches(unread)
  <2>1. next' = 0 BY <1>2 DEF ValidatePatches
  <2> QED BY <2>1 DEF InPlace
<1> QED BY <1>1, <1>2, CreateInPlace, ApplyInPlace
        DEF Next, GeneratePatch, EvaluatePolicy, FinishApply, vars

LEMMA InPlaceInvariant == Spec => [](Kept /\ InPlace)
<1>1. Init => Kept /\ InPlace
  <2>1. Init => InPlace BY DEF Init, InPlace
  <2> QED BY <2>1, InitKept
<1>2. (Kept /\ InPlace) /\ [Next]_vars => (Kept /\ InPlace)' BY StepKept, StepInPlace
<1> QED BY <1>1, <1>2, PTL DEF Spec

(* The paths of the Patch row. *)
LEMMA PathsPatched ==
  ASSUME Kept, patch # NoPatch
  PROVE  PatchedPaths = {PathOf(k) : k \in DOMAIN Done}
<1>1. patch = ThePatch BY DEF Kept
<1>2. DOMAIN patch.files = DOMAIN Done /\ \A k \in DOMAIN Done : patch.files[k].path = PathOf(k)
  BY <1>1 DEF ThePatch
<1> QED BY <1>2 DEF PatchedPaths

(* PatchText!NeverMangled: a file on the branch is the base's or the wanted   *)
(* one at every point of the application, whatever calls fail, for every base *)
(* commit and every response that changes each path once                      *)
(* (applyDiffToContent over generateUnifiedDiff).                             *)
THEOREM NeverMangledHolds == Spec => []NeverMangled
<1>1. Kept /\ InPlace => NeverMangled
  <2> SUFFICES ASSUME Kept, InPlace, next > 0, Once, NEW p \in Paths, branch[p] # case.base[p]
               PROVE  p \in PatchedPaths /\ (Carried(p) => branch[p] = Wanted(p))
    BY DEF NeverMangled
  <2>1. PICK n \in Nat : DOMAIN Done = 1..n BY DoneFacts DEF Kept
  <2>2. PICK k \in 1..n : p = PathOf(k) /\ OnBranch(k) BY <2>1 DEF InPlace
  <2>3. next \in Nat BY DEF Kept
  <2>4. k < next
    <3>1. ~ (k >= next) BY <2>2 DEF OnBranch
    <3> QED BY <3>1, <2>3
  <2>5. patch # NoPatch BY DEF Kept
  <2>6. p \in PatchedPaths BY <2>1, <2>2, <2>5, PathsPatched
  <2>7. Carried(p) => branch[p] \in {case.base[p], Wanted(p)} BY <2>2, <2>4 DEF OnBranch
  <2> QED BY <2>6, <2>7
<1> QED BY <1>1, InPlaceInvariant, PTL

(* PatchText!AppliedIsWanted: when no call failed, an applied patch set has   *)
(* put every wanted text on the branch.                                       *)
THEOREM AppliedIsWantedHolds == Spec => []AppliedIsWanted
<1>1. Kept /\ InPlace => AppliedIsWanted
  <2> SUFFICES ASSUME Kept, InPlace, outcome = "applied", Once, faults = 0,
                      NEW p \in PatchedPaths, Carried(p)
               PROVE  branch[p] = Wanted(p)
    BY DEF AppliedIsWanted
  <2>1. next > 0 /\ (\A k \in DOMAIN Done : k < next) /\ patch # NoPatch BY DEF Kept
  <2>2. PICK k \in DOMAIN Done : p = PathOf(k) BY <2>1, PathsPatched
  <2>3. OnBranch(k) /\ k < next BY <2>1, <2>2 DEF InPlace
  <2> QED BY <2>2, <2>3 DEF OnBranch
<1> QED BY <1>1, InPlaceInvariant, PTL

(* Only a step of the applicator fails a patch set that exists, and without a *)
(* failed call it does so only where validation had seen it.                  *)
Fitting ==
  outcome = "failed" /\ patch # NoPatch /\ Once /\ CreatesOnlyNew => faults > 0

LEMMA ApplyFitting == Kept /\ InPlace /\ Fitting /\ ApplyChange => Fitting'
<1> SUFFICES ASSUME Kept, InPlace, ApplyChange PROVE Fitting' OBVIOUS
<1>1. /\ UNCHANGED <<case, patch, verdict, validation>> /\ outcome = "none" /\ next > 0
  BY DEF ApplyChange
<1>2. /\ case \in Cases /\ patch = ThePatch /\ validation = "valid" /\ faults \in Nat /\ next \in Nat
  BY <1>1 DEF Kept
<1>3. /\ next \in DOMAIN Done /\ faults' \in Nat /\ faults' >= faults /\ (Goes(next) \/ Stops(next))
  BY ApplyMeans
<1>4. Once' = Once BY <1>1, SameCase
<1>5. CreatesOnlyNew' = CreatesOnlyNew BY <1>1 DEF CreatesOnlyNew
<1>6. ASSUME outcome' = "failed", Once, CreatesOnlyNew, faults' = 0 PROVE FALSE
  <2>1. Stops(next) BY <1>1, <1>3, <1>6 DEF Goes
  <2>2. faults = 0 /\ faults' = faults BY <1>2, <1>3, <1>6
  <2>3. Refused(next) BY <2>1, <2>2 DEF Stops
  <2>4. PICK n \in Nat : DOMAIN Done = 1..n /\ FileChanges(patch.diff) = [k \in 1..n |-> FileChange(k)]
    BY <1>2, PatchChanges
  <2>5. PICK m \in 1..n : m = next BY <1>3, <2>4
  <2>6. PICK c : c = FileChange(m) OBVIOUS
  <2>7. PICK p : p = PathOf(m) OBVIOUS
  <2>8. c.path = p BY <2>6, <2>7 DEF FileChange, ChangeAt
  <2>9. c.isNew => case.base[p] = Absent
    <3>1. PICK f : f = FileChanges(patch.diff) OBVIOUS
    <3>2. m \in DOMAIN f /\ f[m] = c BY <2>4, <2>6, <3>1
    <3> QED BY <3>1, <3>2, <2>8, <1>6 DEF CreatesOnlyNew
  <2>10. branch[p] = case.base[p]
    <3>1. OnBranch(m) /\ m >= m BY <1>1, <1>6, <2>4 DEF InPlace
    <3> QED BY <3>1, <2>5, <2>7 DEF OnBranch
  <2>11. ~ Invalid(c, {}) BY <1>2, <2>2, <2>4, <2>6 DEF Kept, Checked
  <2>12. /\ ~ c.isDeleted /\ branch[p] # Absent
         /\ c.isNew \/ Mismatches(branch[p], c.lines) # {}
    BY <2>3, <2>5, <2>6, <2>7 DEF Refused
  <2>13. ~ c.isNew /\ Mismatches(case.base[p], c.lines) # {} BY <2>9, <2>10, <2>12
  <2>14. Invalid(c, {}) BY <2>8, <2>12, <2>13 DEF Invalid
  <2> QED BY <2>11, <2>14
<1> QED BY <1>3, <1>4, <1>5, <1>6 DEF Fitting

LEMMA FittingStays ==
  ASSUME Fitting, UNCHANGED <<case, patch>>, outcome' = "failed" => outcome = "failed",
         faults' \in Nat, faults \in Nat, faults' >= faults
  PROVE  Fitting'
<1>1. Once' = Once BY SameCase
<1>2. CreatesOnlyNew' = CreatesOnlyNew BY DEF CreatesOnlyNew
<1> QED BY <1>1, <1>2 DEF Fitting, NoPatch

LEMMA StepFitting == Kept /\ InPlace /\ Fitting /\ [Next]_vars => Fitting'
<1> SUFFICES ASSUME Kept, InPlace, Fitting, [Next]_vars PROVE Fitting' OBVIOUS
<1>1. faults \in Nat /\ faults' \in Nat BY StepKept DEF Kept
<1>2. CASE UNCHANGED <<case, patch, faults>> /\ (outcome' = "failed" => outcome = "failed")
  <2>1. faults' >= faults BY <1>1, <1>2
  <2> QED BY <1>1, <1>2, <2>1, FittingStays
<1>3. CASE GeneratePatch
  <2>1. patch = NoPatch /\ outcome = "none" /\ (outcome' = "failed" => patch' = patch)
    BY <1>3 DEF GeneratePatch
  <2> QED BY <2>1 DEF Fitting, NoPatch
<1>4. CASE \E unread \in SUBSET Paths : ValidatePatches(unread)
  <2>1. PICK unread \in SUBSET Paths : ValidatePatches(unread) BY <1>4
  <2>2. UNCHANGED <<case, patch, outcome>> /\ faults' = faults + Cardinality(unread)
    BY <2>1 DEF ValidatePatches
  <2>3. Cardinality(unread) \in Nat BY PatchTextAssumption, FS_Subset, FS_CardinalityType
  <2>4. faults' >= faults BY <2>2, <2>3, <1>1
  <2> QED BY <1>1, <2>2, <2>4, FittingStays
<1>5. CASE UNCHANGED vars BY <1>2, <1>5 DEF vars
<1>6. CASE EvaluatePolicy BY <1>2, <1>6 DEF EvaluatePolicy
<1>7. CASE CreateBranch BY <1>2, <1>7 DEF CreateBranch
<1>8. CASE FinishApply BY <1>2, <1>8 DEF FinishApply
<1>9. CASE ApplyChange BY <1>9, ApplyFitting
<1> QED BY <1>3, <1>4, <1>5, <1>6, <1>7, <1>8, <1>9 DEF Next

(* PatchText!ValidApplies: while GitHub answers, a patch set that             *)
(* validatePatches found valid is applied, if it changes each path once and   *)
(* creates only new files: what validation reads of the base commit is what   *)
(* the applicator finds on the branch.                                        *)
THEOREM ValidAppliesHolds == Spec => []ValidApplies
<1>1. Init => Kept /\ InPlace /\ Fitting
  <2>1. Init => InPlace /\ Fitting BY DEF Init, InPlace, Fitting
  <2> QED BY <2>1, InitKept
<1>2. (Kept /\ InPlace /\ Fitting) /\ [Next]_vars => (Kept /\ InPlace /\ Fitting)'
  BY StepKept, StepInPlace, StepFitting
<1>3. Kept /\ InPlace /\ Fitting => ValidApplies BY DEF Kept, Fitting, ValidApplies
<1> QED BY <1>1, <1>2, <1>3, PTL DEF Spec
-----------------------------------------------------------------------------

(* What gets onto the branch *)

AddedText(d) == {d[i].line : i \in Additions(d)}
(* The lines a file can have: those of its base, and the added ones.          *)
Sources(p) == {Blank} \cup {case.base[p][j] : j \in DOMAIN case.base[p]} \cup AddedText(patch.diff)
Sourced == \A p \in Paths : branch[p] \in Seq(Sources(p))

(* The unchanged lines that a diff shows are the old text's.                  *)
ShownLine(old) == {l \in HunkLine : l.mark = " " => \E j \in DOMAIN old : l.line = old[j]}

LEMMA OneLine ==
  ASSUME NEW S, NEW e \in S
  PROVE  <<e>> \in Seq(S)
OBVIOUS

LEMMA ShownIsOld ==
  ASSUME NEW old, NEW new, IsText(old), IsText(new)
  PROVE  Hunks(old, new) \in Seq(ShownLine(old))
<1>0. PICK l \in Nat : \E ops, c : Script(ops, c, l, old, new) BY ScriptExists
<1>1. PICK ops, c : Script(ops, c, l, old, new) BY <1>0
<1>2. ops = EditScript(old, new) /\ DOMAIN ops = 1..l /\ \A p \in 1..l : ops[p] \in Op(Token)
  BY <1>1, LenProperties, ElementOfSeq DEF Script
<1>3. ASSUME NEW p \in 1..l PROVE Piece(ops, p) \in Seq(ShownLine(old))
  <2>1. /\ ops[p].mark \in HunkMarks /\ ops[p].tok.line \in Lines
    <3>1. ops[p] \in Op(Token) BY <1>2
    <3> QED BY <3>1 DEF Op, Token, HunkMarks
  <2>2. ops[p].mark = " " => \E j \in DOMAIN old : ops[p].tok.line = old[j]
    <3>1. PICK i \in 1..Units(old) + 1, j \in 1..Units(new) + 1 :
            c[p] = <<i, j>> /\ StepsTo(ops[p], i, j, c[p + 1], old, new)
      BY <1>1, ScriptSteps
    <3>2. PICK n \in Nat : n = Units(old) /\ \A k \in 1..n : k \in 1..Len(old) BY TokenFacts
    <3>a. ops[p].mark = " " => i <= n /\ ops[p].tok.line = old[i] BY <3>1, <3>2 DEF StepsTo
    <3>b. i \in Nat /\ i >= 1 BY <3>2
    <3>c. i <= n => i \in 1..n BY <3>b
    <3>3. ops[p].mark = " " => i \in 1..n /\ ops[p].tok.line = old[i] BY <3>a, <3>c
    <3>4. DOMAIN old = 1..Len(old) BY LenProperties DEF IsText
    <3> QED BY <3>2, <3>3, <3>4
  <2>3. PICK line \in HunkLine : line = DiffLine(ops[p].mark, ops[p].tok.line) BY <2>1, LineTypes
  <2>4. line \in ShownLine(old)
    <3>1. line.mark = ops[p].mark /\ line.line = ops[p].tok.line BY <2>3, DiffLineIs
    <3>2. line.mark = " " => \E j \in DOMAIN old : line.line = old[j] BY <2>2, <3>1
    <3> QED BY <3>2 DEF ShownLine
  <2>5. NoNewline \in ShownLine(old)
    <3>1. NoNewline \in HunkLine BY LineTypes
    <3>2. NoNewline.mark # " " BY DEF NoNewline, DiffLine
    <3> QED BY <3>1, <3>2 DEF ShownLine
  <2>6. ASSUME NEW a \in Nat, NEW b \in Nat PROVE HunkHeader(a, b) \in ShownLine(old)
    <3>1. HunkHeader(a, b) \in HunkLine BY LineTypes
    <3>2. HunkHeader(a, b).mark # " " BY DEF HunkHeader
    <3> QED BY <3>1, <3>2 DEF ShownLine
  <2>7. CountBut(ops, p - 1, "+") \in Nat /\ CountBut(ops, p - 1, "-") \in Nat
    <3>1. p \in Nat \ {0} OBVIOUS
    <3> QED BY <3>1, CountOneMore
  <2>8. PICK x \in Seq(ShownLine(old)) : x = Head1(ops, p)
    <3>1. CASE p - 1 \in Shown(ops)
      <4>1. Head1(ops, p) = <<>> BY <3>1 DEF Head1
      <4> QED BY <4>1, EmptySeq
    <3>2. CASE p - 1 \notin Shown(ops)
      <4>1. PICK a \in Nat, b \in Nat : a = 1 + CountBut(ops, p - 1, "+") /\ b = 1 + CountBut(ops, p - 1, "-")
        BY <2>7
      <4>2. Head1(ops, p) = <<HunkHeader(a, b)>> BY <3>2, <4>1 DEF Head1
      <4>3. HunkHeader(a, b) \in ShownLine(old) BY <2>6
      <4>4. <<HunkHeader(a, b)>> \in Seq(ShownLine(old)) BY <4>3, OneLine
      <4> QED BY <4>2, <4>4
    <3> QED BY <3>1, <3>2
  <2>9. PICK y \in Seq(ShownLine(old)) : y = Line1(ops, p)
    <3>1. Line1(ops, p) = <<line>> BY <2>3 DEF Line1
    <3>2. <<line>> \in Seq(ShownLine(old)) BY <2>4, OneLine
    <3> QED BY <3>1, <3>2
  <2>10. PICK z \in Seq(ShownLine(old)) : z = Last1(ops, p)
    <3>1. CASE ops[p].tok.nl
      <4>1. Last1(ops, p) = <<>> BY <3>1 DEF Last1
      <4> QED BY <4>1, EmptySeq
    <3>2. CASE ~ ops[p].tok.nl
      <4>1. Last1(ops, p) = <<NoNewline>> BY <3>2 DEF Last1
      <4>2. <<NoNewline>> \in Seq(ShownLine(old)) BY <2>5, OneLine
      <4> QED BY <4>1, <4>2
    <3> QED BY <3>1, <3>2
  <2>11. x \o y \in Seq(ShownLine(old)) BY ConcatProperties
  <2>12. (x \o y) \o z \in Seq(ShownLine(old)) BY <2>11, ConcatProperties
  <2>13. <<>> \in Seq(ShownLine(old)) BY EmptySeq
  <2> QED BY <2>8, <2>9, <2>10, <2>12, <2>13 DEF Piece
<1>4. PICK s : s = [p \in 1..l |-> Piece(ops, p)] OBVIOUS
<1>5. s \in [1..l -> Seq(ShownLine(old))] BY <1>3, <1>4
<1>6. s \in Seq(Seq(ShownLine(old))) BY <1>5, SeqDef
<1>7. Hunks(old, new) = FlattenSeq(s) BY <1>2, <1>4, HunksArePieces
<1> QED BY <1>6, <1>7, FlattenLaid

(* A diff of two texts gives whatever it is applied to only lines of the first *)
(* and its added ones.                                                        *)
LEMMA ModifyGives ==
  ASSUME NEW old, NEW new, IsText(old), IsText(new), NEW path \in Paths,
         NEW d, d = ModifyDiff(path, old, new).patch, NEW n \in Nat, n = Len(d),
         NEW S, \A j \in DOMAIN old : old[j] \in S, AddedText(d) \subseteq S
  PROVE  \A k \in 1..n : Gives(d[k], S)
<1>1. PICK f \in Seq(ShownLine(old)) : f = Hunks(old, new) BY ShownIsOld
<1>2. d = <<DiffLine("git", path)>> \o f BY <1>1 DEF ModifyDiff
<1>3. ShownLine(old) \subseteq AnyLine BY LineTypes DEF ShownLine
<1>4. DiffLine("git", path) \in AnyLine /\ f \in Seq(AnyLine)
  <2>1. "git" \in Marks /\ path \in Lines \cup Paths BY DEF Marks
  <2> QED BY <2>1, <1>3, LineTypes, SeqMonotonic
<1>5. PICK w \in Nat : w = Len(f) BY LenProperties
<1>6. /\ d \in Seq(AnyLine) /\ Len(d) = w + 1 /\ d[1] = DiffLine("git", path)
      /\ \A i \in 1..w : d[i + 1] = f[i]
  BY <1>2, <1>4, <1>5, Prepended
<1>7. DOMAIN d = 1..n BY <1>6, LenProperties
<1>8. ASSUME NEW k \in 1..n PROVE Gives(d[k], S)
  <2>1. d[k].at \in Int
    <3>1. d[k] \in AnyLine BY <1>6, ElementOfSeq
    <3> QED BY <3>1 DEF AnyLine
  <2>2. IsAddition(d[k]) => d[k].line \in S BY <1>7 DEF AddedText, Additions
  <2>3. d[k].mark = " " => d[k].line \in S
    <3>1. CASE k = 1
      <4>1. d[k].mark = "git" BY <3>1, <1>6, DiffLineIs
      <4> QED BY <4>1
    <3>2. CASE k # 1
      <4>1. k - 1 \in 1..w /\ (k - 1) + 1 = k BY <3>2, <1>6
      <4>2. d[k] = f[k - 1] BY <4>1, <1>6
      <4>3. f[k - 1] \in ShownLine(old) BY <4>1, <1>5, ElementOfSeq
      <4> QED BY <4>2, <4>3 DEF ShownLine
    <3> QED BY <3>1, <3>2
  <2> QED BY <2>1, <2>2, <2>3 DEF Gives
<1> QED BY <1>8

(* A new file has no line but added ones and the blank one.                   *)
LEMMA NewFileGives ==
  ASSUME NEW d \in Seq(AnyLine), NEW S, Blank \in S, AddedText(d) \subseteq S
  PROVE  NewFileText(d) \in Seq(S)
<1>1. PICK n \in Nat : n = Len(d) BY LenProperties
<1>2. PICK A : A = Additions(d) OBVIOUS
<1>3. A \subseteq 1..n BY <1>1, <1>2, LenProperties DEF Additions
<1>4. PICK h : h = InOrder(A) OBVIOUS
<1>5. PICK l \in Nat : Lists(h, l, A) BY <1>3, <1>4, InOrderFacts
<1>6. h \in [1..l -> A] BY <1>5 DEF Lists
<1>7. PICK t : t = [k \in 1..l |-> d[h[k]].line] OBVIOUS
<1>8. t \in [1..l -> S]
  <2>1. ASSUME NEW k \in 1..l PROVE d[h[k]].line \in S
    <3>1. h[k] \in Additions(d) BY <1>2, <1>6
    <3> QED BY <3>1 DEF AddedText
  <2> QED BY <2>1, <1>7
<1>9. t \in Seq(S) BY <1>8, SeqDef
<1>10. EmptyText \in Seq(S) BY OneLine DEF EmptyText
<1>11. NewFileText(d) = IF h = <<>> THEN EmptyText ELSE t BY <1>2, <1>4, <1>6, <1>7 DEF NewFileText
<1> QED BY <1>9, <1>10, <1>11

(* The additions of a part are additions of the patch.                        *)
LEMMA PartAdds ==
  ASSUME case \in Cases, NEW k \in DOMAIN Done
  PROVE  AddedText(DiffOf(k)) \subseteq AddedText(ThePatch.diff)
<1>1. PICK n \in Nat :
        /\ DOMAIN Done = 1..n
        /\ PartsOf([x \in 1..n |-> DiffOf(x)], n, [x \in 1..n |-> PathOf(x)])
        /\ ThePatch.diff = FlattenSeq([x \in 1..n |-> DiffOf(x)])
  BY PatchParts
<1>2. PICK s : s = [x \in 1..n |-> DiffOf(x)] OBVIOUS
<1>3. PICK paths : paths = [x \in 1..n |-> PathOf(x)] OBVIOUS
<1>4. PartsOf(s, n, paths) BY <1>1, <1>2, <1>3
<1>5. PICK D : D = ThePatch.diff OBVIOUS
<1>6. D = FlattenSeq(s) BY <1>1, <1>2, <1>5
<1>7. PICK o : Places(D, o, s, n) BY <1>4, <1>6, Placed
<1>8. s[k] = DiffOf(k) /\ k \in 1..n BY <1>1, <1>2
<1>9. Part(s[k], paths[k]) BY <1>4, <1>8 DEF PartsOf
<1>10. ASSUME NEW i \in Additions(s[k]) PROVE s[k][i].line \in AddedText(D)
  <2>1. i \in 1..Len(s[k]) /\ IsAddition(s[k][i]) BY <1>9, LenProperties DEF Additions, Part
  <2>2. o[k - 1] + i \in 1..Len(D) /\ D[o[k - 1] + i] = s[k][i] BY <2>1, <1>7, <1>8 DEF Places
  <2>3. PICK y : y = o[k - 1] + i OBVIOUS
  <2>4. y \in DOMAIN D /\ D[y] = s[k][i] BY <2>2, <2>3, <1>7, LenProperties DEF Places
  <2>5. y \in Additions(D) BY <2>1, <2>4 DEF Additions
  <2> QED BY <2>4, <2>5 DEF AddedText
<1> QED BY <1>5, <1>8, <1>10 DEF AddedText

(* What a step of the applicator writes comes from the base or the diff.      *)
LEMMA WrittenSourced ==
  ASSUME case \in Cases, patch = ThePatch, NEW k \in DOMAIN Done, NEW t, NewText(k, t),
         branch[PathOf(k)] \in Seq(Sources(PathOf(k)))
  PROVE  t \in Seq(Sources(PathOf(k)))
<1>1. PathOf(k) \in Paths /\ Means(k) BY DoneFacts
<1>2. PICK p \in Paths : p = PathOf(k) BY <1>1
<1>3. PICK c, d : c = Chosen(k) /\ d = DiffOf(k) OBVIOUS
<1>4. PICK f : f = FileChange(k) OBVIOUS
<1>5. PICK S : S = Sources(p) OBVIOUS
<1>6. c.path = p BY <1>2, <1>3 DEF PathOf
<1>7. /\ f.lines = d
      /\ Modifies(c, d) \/ f.isDeleted \/ f.isNew
  BY <1>1, <1>3, <1>4, ChangeKinds
<1>8. Blank \in S /\ AddedText(d) \subseteq S /\ \A j \in DOMAIN case.base[p] : case.base[p][j] \in S
  <2>1. AddedText(d) \subseteq AddedText(patch.diff) BY <1>3, PartAdds
  <2> QED BY <2>1, <1>5 DEF Sources
<1>9. d \in Seq(AnyLine)
  <2>1. Part(d, p) BY <1>1, <1>2, <1>3, MeantPart
  <2> QED BY <2>1 DEF Part
<1>10. branch[p] \in Seq(S) BY <1>2, <1>5
<1>11. t = Absent \/ t = branch[p] \/ t = NewFileText(d)
       \/ (~ f.isDeleted /\ ~ f.isNew /\ t = Applied(branch[p], d))
  BY <1>2, <1>4, <1>7 DEF NewText
<1>12. Absent \in Seq(S) BY EmptySeq DEF Absent
<1>13. NewFileText(d) \in Seq(S) BY <1>8, <1>9, NewFileGives
<1>14. ASSUME Modifies(c, d) PROVE Applied(branch[p], d) \in Seq(S)
  <2>1. PICK old, new : old = case.base[p] /\ new = WantedBy(c) OBVIOUS
  <2>2. IsText(old) /\ IsText(new) /\ d = ModifyDiff(p, old, new).patch BY <1>6, <1>14, <2>1 DEF Modifies
  <2>3. PICK n \in Nat : n = Len(d) BY <1>9, LenProperties
  <2>4. \A j \in DOMAIN old : old[j] \in S BY <1>8, <2>1
  <2>5. \A x \in 1..n : Gives(d[x], S) BY <1>8, <2>2, <2>3, <2>4, ModifyGives
  <2> QED BY <1>8, <1>10, <2>3, <2>5, AppliedTyped
<1> QED BY <1>2, <1>5, <1>7, <1>10, <1>11, <1>12, <1>13, <1>14

LEMMA SameSources ==
  ASSUME UNCHANGED <<case, patch>>
  PROVE  \A p : Sources(p)' = Sources(p)
BY DEF Sources, AddedText, Additions

LEMMA ApplySourced == Kept /\ Sourced /\ ApplyChange => Sourced'
<1> SUFFICES ASSUME Kept, Sourced, ApplyChange PROVE Sourced' OBVIOUS
<1>1. UNCHANGED <<case, patch>> /\ case \in Cases /\ branch = [p \in Paths |-> branch[p]]
  BY DEF ApplyChange, Kept
<1>2. patch = ThePatch BY DEF ApplyChange, Kept
<1>3. next \in DOMAIN Done /\ PathOf(next) \in Paths /\ (Goes(next) \/ Stops(next)) BY ApplyMeans
<1>4. \A p : Sources(p)' = Sources(p) BY <1>1, SameSources
<1>5. CASE Stops(next)
  <2>1. branch' = branch BY <1>5 DEF Stops, Fail
  <2> QED BY <1>4, <2>1 DEF Sourced
<1>6. CASE Goes(next)
  <2>1. PICK m \in DOMAIN Done, q \in Paths : m = next /\ q = PathOf(m) BY <1>3
  <2>2. PICK t : branch' = [branch EXCEPT ![q] = t] /\ NewText(m, t) BY <1>6, <2>1 DEF Goes
  <2>3. branch[q] \in Seq(Sources(q)) BY DEF Sourced
  <2>4. t \in Seq(Sources(q)) BY <1>1, <1>2, <2>1, <2>2, <2>3, WrittenSourced
  <2>5. branch'[q] = t /\ \A p \in Paths : p # q => branch'[p] = branch[p] BY <1>1, <2>2
  <2>6. \A p \in Paths : branch'[p] \in Seq(Sources(p))
    <3>1. \A p \in Paths : branch[p] \in Seq(Sources(p)) BY DEF Sourced
    <3> QED BY <2>4, <2>5, <3>1
  <2> QED BY <1>4, <2>6 DEF Sourced
<1> QED BY <1>3, <1>5, <1>6

LEMMA CreateSourced == Kept /\ CreateBranch => Sourced'
<1> SUFFICES ASSUME Kept, CreateBranch PROVE Sourced' OBVIOUS
<1>1. UNCHANGED <<case, patch>> /\ branch' = case.base /\ case \in Cases BY DEF CreateBranch, Kept
<1>2. \A p : Sources(p)' = Sources(p) BY <1>1, SameSources
<1>3. ASSUME NEW p \in Paths PROVE case.base[p] \in Seq(Sources(p))
  <2>1. PICK b : b = case.base[p] OBVIOUS
  <2>2. b \in Seq(Lines) BY <1>1, <2>1, CaseFacts
  <2>3. PICK n \in Nat : n = Len(b) BY <2>2, LenProperties
  <2>4. DOMAIN b = 1..n /\ b = [j \in 1..n |-> b[j]] BY <2>2, <2>3, LenProperties
  <2>5. \A j \in 1..n : b[j] \in Sources(p) BY <2>1, <2>4 DEF Sources
  <2>6. b \in [1..n -> Sources(p)] BY <2>4, <2>5
  <2> QED BY <2>1, <2>6, SeqDef
<1> QED BY <1>1, <1>2, <1>3 DEF Sourced

(* Before there is a patch no line is added.                                  *)
LEMMA GenerateSourced == Sourced /\ GeneratePatch => Sourced'
<1> SUFFICES ASSUME Sourced, GeneratePatch PROVE Sourced' OBVIOUS
<1>1. UNCHANGED <<case, branch>> /\ patch = NoPatch BY DEF GeneratePatch
<1>2. AddedText(patch.diff) = {}
  <2>1. patch.diff = <<>> BY <1>1 DEF NoPatch
  <2>2. DOMAIN <<>> = {} OBVIOUS
  <2> QED BY <2>1, <2>2 DEF AddedText, Additions
<1>3. \A p : Sources(p) \subseteq Sources(p)' BY <1>1, <1>2 DEF Sources
<1>4. ASSUME NEW p \in Paths PROVE branch'[p] \in Seq(Sources(p)')
  <2>1. branch[p] \in Seq(Sources(p)) BY DEF Sourced
  <2>2. Sources(p) \subseteq Sources(p)' BY <1>3
  <2>3. branch[p] \in Seq(Sources(p)') BY <2>1, <2>2, SeqMonotonic
  <2> QED BY <1>1, <2>3
<1> QED BY <1>4 DEF Sourced

LEMMA StepSourced == Kept /\ Sourced /\ [Next]_vars => Sourced'
<1> SUFFICES ASSUME Kept, Sourced, [Next]_vars PROVE Sourced' OBVIOUS
<1>1. CASE UNCHANGED <<case, patch, branch>>
  <2>1. \A p : Sources(p)' = Sources(p) BY <1>1, SameSources
  <2> QED BY <1>1, <2>1 DEF Sourced
<1>2. CASE \E unread \in SUBSET Paths : ValidatePatches(unread)
  <2>1. UNCHANGED <<case, patch, branch>> BY <1>2 DEF ValidatePatches
  <2> QED BY <1>1, <2>1
<1>3. CASE GeneratePatch BY <1>3, GenerateSourced
<1>4. CASE CreateBranch BY <1>4, CreateSourced
<1>5. CASE ApplyChange BY <1>5, ApplySourced
<1>6. CASE EvaluatePolicy BY <1>1, <1>6 DEF EvaluatePolicy
<1>7. CASE FinishApply BY <1>1, <1>7 DEF FinishApply
<1>8. CASE UNCHANGED vars BY <1>1, <1>8 DEF vars
<1> QED BY <1>2, <1>3, <1>4, <1>5, <1>6, <1>7, <1>8 DEF Next

(* PatchText!SecretsAreSeen: for every base commit and every response, and    *)
(* whatever calls fail, a secret line on the branch that is not in its file's *)
(* base blocked the patch when it was evaluated: scanForSecrets reads every   *)
(* line that applyDiffToContent and extractNewFileContent can bring in.       *)
THEOREM SecretsAreSeenHolds == Spec => []SecretsAreSeen
<1>1. Init => Kept /\ Sourced
  <2>1. ASSUME Init, NEW p \in Paths PROVE branch[p] \in Seq(Sources(p))
    <3>1. branch[p] = <<>> BY <2>1 DEF Init, Absent
    <3> QED BY <3>1, EmptySeq
  <2> QED BY <2>1, InitKept DEF Sourced
<1>2. (Kept /\ Sourced) /\ [Next]_vars => (Kept /\ Sourced)' BY StepKept, StepSourced
<1>3. Kept /\ Sourced => SecretsAreSeen
  <2> SUFFICES ASSUME Kept, Sourced, verdict # NotJudged, NEW p \in Paths, NEW i \in DOMAIN branch[p],
                      branch[p][i] \in SecretLines,
                      \A j \in DOMAIN case.base[p] : case.base[p][j] # branch[p][i]
               PROVE  /\ verdict.result = "blocked"
                      /\ Violation("SECRET_DETECTED", TRUE, Title) \in verdict.violations
    BY DEF SecretsAreSeen
  <2>1. PICK b : b = branch[p] OBVIOUS
  <2>2. b \in Seq(Sources(p)) BY <2>1 DEF Sourced
  <2>3. b[i] \in Sources(p)
    <3>1. i \in 1..Len(b) BY <2>1, <2>2, LenProperties
    <3> QED BY <2>2, <3>1, ElementOfSeq
  <2>4. b[i] # Blank /\ b[i] \in SecretLines BY <2>1, PatchTextAssumption
  <2>5. b[i] \in AddedText(patch.diff)
    <3>1. \A j \in DOMAIN case.base[p] : case.base[p][j] # b[i] BY <2>1
    <3> QED BY <2>3, <2>4, <3>1 DEF Sources
  <2>6. b[i] \in ScanForSecrets(patch.diff) BY <2>4, <2>5 DEF AddedText, ScanForSecrets
  <2>7. PICK v : v = Violation("SECRET_DETECTED", TRUE, Title) OBVIOUS
  <2>8. v \in PolicyViolations(patch)
    <3>1. v \in {Violation("SECRET_DETECTED", TRUE, Title) : s \in ScanForSecrets(patch.diff)} BY <2>6, <2>7
    <3> QED BY <3>1 DEF PolicyViolations
  <2>9. v.blocking BY <2>7 DEF Violation
  <2>10. PolicyResult(PolicyViolations(patch)) = "blocked" BY <2>8, <2>9 DEF PolicyResult
  <2>11. verdict = Judgement(patch) BY DEF Kept
  <2> QED BY <2>7, <2>8, <2>10, <2>11 DEF Judgement
<1> QED BY <1>1, <1>2, <1>3, PTL DEF Spec

(* The files that parseDiff and extractTouchedFiles find in a stored patch    *)
(* are the files its row lists, which ingest wrote without parsing the text.  *)
THEOREM TouchedFilesAreListed == Spec => [](patch # NoPatch => TouchedFiles(patch.diff) = PatchedPaths)
<1>1. Kept => (patch # NoPatch => TouchedFiles(patch.diff) = PatchedPaths)
  <2> SUFFICES ASSUME Kept, patch # NoPatch PROVE TouchedFiles(patch.diff) = PatchedPaths OBVIOUS
  <2>1. case \in Cases /\ patch = ThePatch BY DEF Kept
  <2>2. PICK n \in Nat : DOMAIN Done = 1..n /\ FileChanges(patch.diff) = [k \in 1..n |-> FileChange(k)]
    BY <2>1, PatchChanges
  <2>3. PICK D : D = patch.diff OBVIOUS
  <2>4. PICK f : f = FileChanges(D) OBVIOUS
  <2>5. DOMAIN f = 1..n /\ \A k \in 1..n : f[k].path = PathOf(k)
    <3>1. f = [k \in 1..n |-> FileChange(k)] BY <2>2, <2>3, <2>4
    <3>2. \A k \in 1..n : FileChange(k).path = PathOf(k) BY DEF FileChange, ChangeAt
    <3> QED BY <3>1, <3>2
  <2>6. PICK z : z = ParsedFiles(D) OBVIOUS
  <2>7. z = [k \in DOMAIN f |->
              [path |-> f[k].path,
               additions |-> Cardinality(Additions(f[k].lines)),
               deletions |-> Cardinality(Deletions(f[k].lines)),
               isNew |-> f[k].isNew, isDeleted |-> f[k].isDeleted]]
    BY <2>4, <2>6 DEF ParsedFiles
  <2>8. DOMAIN z = 1..n /\ \A k \in 1..n : z[k].path = PathOf(k) BY <2>5, <2>7
  <2>9. TouchedFiles(D) = {z[k].path : k \in DOMAIN z} BY <2>6 DEF TouchedFiles
  <2>10. TouchedFiles(D) = {PathOf(k) : k \in 1..n} BY <2>8, <2>9
  <2> QED BY <2>2, <2>3, <2>10, PathsPatched
<1> QED BY <1>1, KeptInvariant, PTL
=============================================================================
