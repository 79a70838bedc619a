----------------------------- MODULE DataLemmas -----------------------------
(* Induction and recursion over data, sequences and remainders, for the    *)
(* proofs of the other modules.                                            *)
EXTENDS Integers, Sequences, SequencesExt, WellFoundedInduction, TLAPS

(* Induction and recursion.  The theorems of the library take the          *)
(* predicate or the definition as an operator; here they are sets and      *)
(* functions, so that the provers can instantiate them.                    *)

(* A set of naturals that is not empty has a least element.                *)
LEMMA HasLeast ==
    ASSUME NEW S \in SUBSET Nat, S # {} PROVE \E x \in S : \A y \in S : x <= y
<1>. DEFINE Less == OpToRel(<, Nat)
<1>1. IsWellFoundedOn(Less, Nat)
  BY NatLessThanWellFounded
<1>2. Less = {ss \in Nat \X Nat : ss[1] < ss[2]}
  BY DEF OpToRel
<1>. HIDE DEF Less
<1>3. ASSUME NEW j \in Nat, NEW k \in Nat, j < k PROVE <<j, k>> \in Less
  <2>1. <<j, k>> \in Nat \X Nat /\ <<j, k>>[1] = j /\ <<j, k>>[2] = k
    OBVIOUS
  <2>. QED
    BY <1>2, <1>3, <2>1
<1>4. PICK x \in S : \A y \in S : ~ (<<y, x>> \in Less)
  BY <1>1, WFMin
<1>5. ASSUME NEW y \in S PROVE x <= y
  <2>1. ~ (y < x)
    BY <1>3, <1>4
  <2>. QED
    BY <2>1
<1>. QED
  BY <1>4, <1>5

(* Induction: a set that has 0, and with each natural the next, has all.   *)
LEMMA Induction ==
    ASSUME NEW S, 0 \in S, \A n \in Nat : n \in S => n + 1 \in S
    PROVE  \A n \in Nat : n \in S
<1>. SUFFICES ASSUME Nat \ S # {} PROVE FALSE
  OBVIOUS
<1>1. PICK x \in Nat \ S : \A y \in Nat \ S : x <= y
  BY HasLeast
<1>2. x - 1 \in Nat /\ (x - 1) + 1 = x /\ ~(x <= x - 1)
  BY <1>1
<1>. QED
  BY <1>1, <1>2

(* Two functions agree that agree at each argument as soon as they do at   *)
(* all smaller ones.                                                       *)
AgreeBySize(f, g, Dom, size) ==
    /\ size \in [Dom -> Nat]
    /\ \A x \in Dom : (\A y \in Dom : size[y] < size[x] => f[y] = g[y]) => f[x] = g[x]

LEMMA SameBySize ==
    ASSUME NEW Dom, NEW size, NEW f, NEW g, AgreeBySize(f, g, Dom, size)
    PROVE  \A x \in Dom : f[x] = g[x]
<1>. USE DEF AgreeBySize
<1>. DEFINE Same == {k \in Nat : \A x \in Dom : size[x] < k => f[x] = g[x]}
<1>1. 0 \in Same
  OBVIOUS
<1>2. ASSUME NEW k \in Nat, k \in Same PROVE k + 1 \in Same
  <2>. SUFFICES ASSUME NEW x \in Dom, size[x] < k + 1 PROVE f[x] = g[x]
    OBVIOUS
  <2>1. \A y \in Dom : size[y] < size[x] => f[y] = g[y]
    BY <1>2
  <2>. QED
    BY <2>1
<1>3. \A k \in Nat : k \in Same
  <2>. HIDE DEF Same
  <2>. QED
    BY <1>1, <1>2, Induction
<1>4. ASSUME NEW x \in Dom PROVE f[x] = g[x]
  <2>1. size[x] + 1 \in Same /\ size[x] < size[x] + 1
    BY <1>3
  <2>. QED
    BY <2>1
<1>. QED
  BY <1>4

(* Recursion: where the value at x of Body[f] depends on the values of f   *)
(* for smaller arguments only, there is a function that is its own body.   *)
Recursive(Body, Dom, Val, size) ==
    /\ Val # {} /\ size \in [Dom -> Nat] /\ Body \in [[Dom -> Val] -> [Dom -> Val]]
    /\ \A f, g \in [Dom -> Val] : \A x \in Dom :
          (\A y \in Dom : size[y] < size[x] => f[y] = g[y]) => Body[f][x] = Body[g][x]

LEMMA RecursiveFunction ==
    ASSUME NEW Dom, NEW Val, NEW size, NEW Body, Recursive(Body, Dom, Val, size)
    PROVE  \E f \in [Dom -> Val] : f = Body[f]
<1>. USE DEF Recursive
<1>. PICK start \in Val : TRUE
  OBVIOUS
<1>. DEFINE Fixed(f, n) == \A x \in Dom : size[x] < n => f[x] = Body[f][x]
            Upto == {n \in Nat : \E f \in [Dom -> Val] : Fixed(f, n)}
<1>1. \A n \in Nat : n \in Upto
  <2>1. 0 \in Upto
    <3>1. [x \in Dom |-> start] \in [Dom -> Val]
      OBVIOUS
    <3>2. \A x \in Dom : ~(size[x] < 0)
      OBVIOUS
    <3>. QED
      BY <3>1, <3>2
  <2>2. ASSUME NEW n \in Nat, n \in Upto PROVE n + 1 \in Upto
    <3>1. PICK f \in [Dom -> Val] : Fixed(f, n)
      BY <2>2
    <3>2. Body[f] \in [Dom -> Val]
      OBVIOUS
    <3>3. ASSUME NEW x \in Dom, size[x] < n + 1 PROVE Body[f][x] = Body[Body[f]][x]
      <4>1. \A y \in Dom : size[y] < size[x] => f[y] = Body[f][y]
        BY <3>1, <3>3
      <4>. QED
        BY <3>2, <4>1
    <3>. QED
      BY <3>2, <3>3
  <2>. HIDE DEF Upto
  <2>. QED
    BY <2>1, <2>2, Induction
<1>2. ASSUME NEW f \in [Dom -> Val], NEW g \in [Dom -> Val], NEW n \in Nat, Fixed(f, n), Fixed(g, n)
      PROVE  \A x \in Dom : size[x] < n => f[x] = g[x]
  <2>. DEFINE Same == {k \in Nat : \A x \in Dom : size[x] < n /\ size[x] < k => f[x] = g[x]}
  <2>1. 0 \in Same
    OBVIOUS
  <2>2. ASSUME NEW k \in Nat, k \in Same PROVE k + 1 \in Same
    <3>. SUFFICES ASSUME NEW x \in Dom, size[x] < n, size[x] < k + 1 PROVE f[x] = g[x]
      OBVIOUS
    <3>1. \A y \in Dom : size[y] < size[x] => f[y] = g[y]
      BY <2>2
    <3>2. Body[f][x] = Body[g][x]
      BY <3>1
    <3>. QED
      BY <1>2, <3>2
  <2>3. \A k \in Nat : k \in Same
    <3>. HIDE DEF Same
    <3>. QED
      BY <2>1, <2>2, Induction
  <2>. QED
    BY <2>3
<1>. DEFINE At(n) == CHOOSE f \in [Dom -> Val] : Fixed(f, n)
            F == [x \in Dom |-> At(size[x] + 1)[x]]
<1>3. ASSUME NEW n \in Nat PROVE At(n) \in [Dom -> Val] /\ Fixed(At(n), n)
  <2>1. \E f \in [Dom -> Val] : Fixed(f, n)
    BY <1>1
  <2>. HIDE DEF Fixed
  <2>. QED
    BY <2>1
<1>. HIDE DEF At
<1>4. F \in [Dom -> Val]
  BY <1>3
<1>5. ASSUME NEW n \in Nat, NEW x \in Dom, size[x] < n PROVE F[x] = At(n)[x]
  <2>1. size[x] + 1 \in Nat /\ size[x] + 1 <= n
    BY <1>5
  <2>. DEFINE k == size[x] + 1
  <2>2. k \in Nat /\ size[x] < k /\ At(k) \in [Dom -> Val] /\ At(n) \in [Dom -> Val] /\ Fixed(At(k), k)
    BY <1>3, <2>1
  <2>3. Fixed(At(n), k)
    BY <1>3, <2>1
  <2>4. F[x] = At(k)[x]
    OBVIOUS
  <2>. HIDE DEF k, Fixed, F
  <2>5. \A y \in Dom : size[y] < k => At(k)[y] = At(n)[y]
    BY <1>2, <2>2, <2>3
  <2>. QED
    BY <2>2, <2>4, <2>5
<1>6. ASSUME NEW x \in Dom PROVE F[x] = Body[F][x]
  <2>. DEFINE n == size[x] + 1
  <2>1. n \in Nat
    OBVIOUS
  <2>2. \A y \in Dom : size[y] < size[x] => F[y] = At(n)[y]
    BY <1>5
  <2>3. Body[F][x] = Body[At(n)][x]
    <3>1. At(n) \in [Dom -> Val]
      BY <1>3, <2>1
    <3>. HIDE DEF n, F
    <3>. QED
      BY <1>4, <3>1, <2>2
  <2>4. Fixed(At(n), n)
    BY <1>3, <2>1
  <2>. QED
    BY <2>3, <2>4
<1>7. Body[F] \in [Dom -> Val]
  <2>. HIDE DEF F
  <2>. QED
    BY <1>4
<1>. HIDE DEF F
<1>8. F = [x \in Dom |-> F[x]] /\ Body[F] = [x \in Dom |-> Body[F][x]]
  BY <1>4, <1>7
<1>. QED
  BY <1>4, <1>6, <1>8

(* Recursion over 0 .. n: a function whose value at k depends on k and the *)
(* value before.                                                           *)
StepsUp(g, n, start, F) == g = [k \in 0 .. n |-> IF k = 0 THEN start ELSE F[<<k, g[k - 1]>>]]

LEMMA RecursionUp ==
    ASSUME NEW n \in Nat, NEW S, NEW start \in S, NEW F \in [(1 .. n) \X S -> S]
    PROVE  \E g \in [0 .. n -> S] : StepsUp(g, n, start, F)
<1>. DEFINE Good(m, g) == g \in [0 .. m -> S] /\ StepsUp(g, m, start, F)
            Upto == {m \in Nat : m <= n => \E g : Good(m, g)}
<1>1. 0 \in Upto
  <2>. DEFINE g == [k \in 0 .. 0 |-> start]
  <2>1. g \in [0 .. 0 -> S]
    OBVIOUS
  <2>2. StepsUp(g, 0, start, F)
    BY DEF StepsUp
  <2>. QED
    BY <2>1, <2>2
<1>2. ASSUME NEW m \in Nat, m \in Upto, m + 1 <= n PROVE \E f : Good(m + 1, f)
  <2>1. PICK g : Good(m, g)
    BY <1>2
  <2>. DEFINE f == [k \in 0 .. m + 1 |-> IF k = m + 1 THEN F[<<k, g[k - 1]>>] ELSE g[k]]
  <2>2. m + 1 \in 1 .. n /\ (m + 1) - 1 = m /\ g[m] \in S /\ g \in [0 .. m -> S]
    BY <1>2, <2>1
  <2>3. F[<<m + 1, g[m]>>] \in S
    BY <2>2
  <2>4. f \in [0 .. m + 1 -> S]
    BY <2>2, <2>3
  <2>5. ASSUME NEW k \in 0 .. m + 1 PROVE f[k] = IF k = 0 THEN start ELSE F[<<k, f[k - 1]>>]
    <3>1. CASE k = m + 1
      <4>1. f[k] = F[<<k, g[k - 1]>>] /\ k - 1 = m /\ f[m] = g[m] /\ k # 0
        BY <3>1
      <4>. QED
        BY <4>1
    <3>2. CASE k # m + 1
      <4>1. k \in 0 .. m /\ f[k] = g[k]
        BY <3>2
      <4>2. g[k] = IF k = 0 THEN start ELSE F[<<k, g[k - 1]>>]
        BY <2>1, <4>1 DEF StepsUp
      <4>3. k # 0 => f[k - 1] = g[k - 1]
        BY <4>1
      <4>. QED
        BY <4>1, <4>2, <4>3
    <3>. QED
      BY <3>1, <3>2
  <2>6. f = [k \in 0 .. m + 1 |-> f[k]]
    OBVIOUS
  <2>. HIDE DEF f
  <2>7. StepsUp(f, m + 1, start, F)
    BY <2>5, <2>6, Zenon DEF StepsUp
  <2>. QED
    BY <2>4, <2>7
<1>3. n \in Upto
  <2>1. \A m \in Nat : m \in Upto => m + 1 \in Upto
    BY <1>2
  <2>. HIDE DEF Upto
  <2>. QED
    BY <1>1, <2>1, Induction
<1>. QED
  BY <1>3

-----------------------------------------------------------------------------
(* Sequences put together and cut.                                         *)
LEMMA ConcatIs ==
    ASSUME NEW S, NEW s \in Seq(S), NEW t \in Seq(S)
    PROVE  /\ s \o t \in Seq(S) /\ Len(s \o t) = Len(s) + Len(t) /\ Len(s) \in Nat /\ Len(t) \in Nat
           /\ \A i \in 1 .. Len(s) : (s \o t)[i] = s[i]
           /\ \A i \in Len(s) + 1 .. Len(s) + Len(t) : (s \o t)[i] = t[i - Len(s)]
  OBVIOUS

LEMMA SubSeqIs ==
    ASSUME NEW S, NEW s \in Seq(S), NEW a \in Nat \ {0}, NEW b \in Nat, a <= b + 1, b <= Len(s)
    PROVE  /\ SubSeq(s, a, b) \in Seq(S) /\ Len(SubSeq(s, a, b)) = b - a + 1
           /\ \A i \in 1 .. b - a + 1 : SubSeq(s, a, b)[i] = s[a + i - 1]
  OBVIOUS

LEMMA SameSeq ==
    ASSUME NEW S, NEW s \in Seq(S), NEW t \in Seq(S), Len(s) = Len(t), \A i \in 1 .. Len(s) : s[i] = t[i]
    PROVE  s = t
  OBVIOUS

LEMMA Assoc ==
    ASSUME NEW S, NEW s \in Seq(S), NEW t \in Seq(S), NEW u \in Seq(S)
    PROVE  (s \o t) \o u = s \o (t \o u)
  OBVIOUS

LEMMA CutOfFront ==
    ASSUME NEW S, NEW s \in Seq(S), NEW t \in Seq(S), NEW a \in Nat \ {0}, NEW b \in Nat, a <= b + 1, b <= Len(s)
    PROVE  SubSeq(s \o t, a, b) = SubSeq(s, a, b)
<1>1. s \o t \in Seq(S) /\ b <= Len(s \o t) /\ Len(s) \in Nat
  BY ConcatIs
<1>2. ASSUME NEW i \in 1 .. b - a + 1 PROVE SubSeq(s \o t, a, b)[i] = SubSeq(s, a, b)[i]
  <2>1. SubSeq(s \o t, a, b)[i] = (s \o t)[a + i - 1] /\ SubSeq(s, a, b)[i] = s[a + i - 1]
    BY <1>1, SubSeqIs
  <2>2. a + i - 1 \in 1 .. Len(s)
    BY <1>1
  <2>. QED
    BY <2>1, <2>2, ConcatIs
<1>3. /\ SubSeq(s \o t, a, b) \in Seq(S) /\ SubSeq(s, a, b) \in Seq(S)
      /\ Len(SubSeq(s \o t, a, b)) = b - a + 1 /\ Len(SubSeq(s, a, b)) = b - a + 1
  BY <1>1, SubSeqIs
<1>. QED
  BY <1>2, <1>3, SameSeq

LEMMA RestOfFront ==
    ASSUME NEW S, NEW s \in Seq(S), NEW t \in Seq(S), NEW a \in Nat \ {0}, a <= Len(s) + 1
    PROVE  SubSeq(s \o t, a, Len(s \o t)) = SubSeq(s, a, Len(s)) \o t
<1>. DEFINE x == SubSeq(s \o t, a, Len(s \o t))
            r == SubSeq(s, a, Len(s))
<1>1. s \o t \in Seq(S) /\ Len(s \o t) = Len(s) + Len(t) /\ Len(s) \in Nat /\ Len(t) \in Nat
  BY ConcatIs
<1>2. /\ x \in Seq(S) /\ Len(x) = Len(s) + Len(t) - a + 1
      /\ \A i \in 1 .. Len(s) + Len(t) - a + 1 : x[i] = (s \o t)[a + i - 1]
  BY <1>1, SubSeqIs
<1>3. r \in Seq(S) /\ Len(r) = Len(s) - a + 1 /\ \A i \in 1 .. Len(s) - a + 1 : r[i] = s[a + i - 1]
  BY <1>1, SubSeqIs
<1>. HIDE DEF x, r
<1>4. /\ r \o t \in Seq(S) /\ Len(r \o t) = Len(x)
      /\ \A i \in 1 .. Len(r) : (r \o t)[i] = r[i]
      /\ \A i \in Len(r) + 1 .. Len(r) + Len(t) : (r \o t)[i] = t[i - Len(r)]
  <2>1. r \in Seq(S) /\ t \in Seq(S)
    BY <1>3
  <2>2. /\ r \o t \in Seq(S) /\ Len(r \o t) = Len(r) + Len(t)
        /\ \A i \in 1 .. Len(r) : (r \o t)[i] = r[i]
        /\ \A i \in Len(r) + 1 .. Len(r) + Len(t) : (r \o t)[i] = t[i - Len(r)]
    BY <2>1, ConcatIs
  <2>3. Len(r) + Len(t) = Len(x)
    BY <1>1, <1>2, <1>3
  <2>. QED
    BY <2>2, <2>3
<1>5. ASSUME NEW i \in 1 .. Len(x) PROVE x[i] = (r \o t)[i]
  <2>1. CASE i <= Len(s) - a + 1
    <3>1. a + i - 1 \in 1 .. Len(s) /\ i \in 1 .. Len(r)
      BY <1>1, <1>3, <2>1
    <3>2. (s \o t)[a + i - 1] = s[a + i - 1]
      BY <3>1, ConcatIs
    <3>. QED
      BY <1>2, <1>3, <1>4, <3>1, <3>2
  <2>2. CASE i > Len(s) - a + 1
    <3>1. a + i - 1 \in Len(s) + 1 .. Len(s) + Len(t) /\ i \in Len(r) + 1 .. Len(r) + Len(t)
      BY <1>1, <1>2, <1>3, <2>2
    <3>2. (s \o t)[a + i - 1] = t[(a + i - 1) - Len(s)]
      BY <3>1, ConcatIs
    <3>3. (a + i - 1) - Len(s) = i - Len(r)
      BY <1>1, <1>3
    <3>. QED
      BY <1>2, <1>4, <3>1, <3>2, <3>3
  <2>3. i <= Len(s) - a + 1 \/ i > Len(s) - a + 1
    BY <1>1, <1>2
  <2>. QED
    BY <2>1, <2>2, <2>3, Zenon
<1>6. x = r \o t
  BY <1>2, <1>4, <1>5, SameSeq
<1>. QED
  BY <1>6 DEF x, r

(* The pieces of a sequence that was cut, put together again.              *)
LEMMA HeadOfCut ==
    ASSUME NEW S, NEW q \in Seq(S), NEW k \in 1 .. Len(q)
    PROVE  <<q[k]>> \o SubSeq(q, k + 1, Len(q)) = SubSeq(q, k, Len(q))
<1>. DEFINE n == Len(q)
            h == <<q[k]>>
            x == SubSeq(q, k + 1, n)
            y == SubSeq(q, k, n)
<1>1. n \in Nat /\ h \in Seq(S) /\ Len(h) = 1 /\ h[1] = q[k]
  OBVIOUS
<1>2. x \in Seq(S) /\ Len(x) = n - k /\ \A i \in 1 .. n - k : x[i] = q[k + i]
  <2>. DEFINE a == k + 1
  <2>1. a \in Nat \ {0} /\ a <= n + 1 /\ n - a + 1 = n - k /\ \A i \in 1 .. n - k : a + i - 1 = k + i
    BY <1>1
  <2>. HIDE DEF a
  <2>2. /\ SubSeq(q, a, n) \in Seq(S) /\ Len(SubSeq(q, a, n)) = n - a + 1
        /\ \A i \in 1 .. n - a + 1 : SubSeq(q, a, n)[i] = q[a + i - 1]
    BY <1>1, <2>1, SubSeqIs
  <2>. QED
    BY <2>1, <2>2 DEF a
<1>3. y \in Seq(S) /\ Len(y) = n - k + 1 /\ \A i \in 1 .. n - k + 1 : y[i] = q[k + i - 1]
  BY <1>1, SubSeqIs
<1>. HIDE DEF n, h, x, y
<1>4. /\ h \o x \in Seq(S) /\ Len(h \o x) = Len(h) + Len(x)
      /\ \A i \in 1 .. Len(h) : (h \o x)[i] = h[i]
      /\ \A i \in Len(h) + 1 .. Len(h) + Len(x) : (h \o x)[i] = x[i - Len(h)]
  BY <1>1, <1>2, ConcatIs
<1>5. ASSUME NEW i \in 1 .. n - k + 1 PROVE (h \o x)[i] = y[i]
  <2>1. CASE i = 1
    <3>1. (h \o x)[1] = h[1] /\ y[1] = q[k + 1 - 1] /\ k + 1 - 1 = k
      BY <1>1, <1>3, <1>4, <2>1
    <3>. QED
      BY <1>1, <2>1, <3>1
  <2>2. CASE i # 1
    <3>1. i \in 2 .. n - k + 1 /\ i - 1 \in 1 .. n - k /\ k + (i - 1) = k + i - 1
      BY <1>1, <2>2
    <3>2. (h \o x)[i] = x[i - 1]
      BY <1>1, <1>2, <1>4, <3>1
    <3>3. x[i - 1] = q[k + i - 1]
      BY <1>2, <3>1
    <3>. QED
      BY <1>3, <3>2, <3>3
  <2>. QED
    BY <2>1, <2>2
<1>6. h \o x = y
  <2>1. Len(h \o x) = Len(y) /\ Len(y) = n - k + 1
    BY <1>1, <1>2, <1>3, <1>4
  <2>. QED
    BY <1>3, <1>4, <1>5, <2>1, SameSeq
<1>. QED
  BY <1>6 DEF n, h, x, y

LEMMA RestIs ==
    ASSUME NEW S, NEW p \in Seq(S), NEW q \in Seq(S)
    PROVE  SubSeq(p \o q, Len(p) + 1, Len(p) + Len(q)) = q
<1>. DEFINE n == Len(p)
            k == Len(q)
            h == p \o q
            x == SubSeq(h, n + 1, n + k)
<1>1. /\ h \in Seq(S) /\ Len(h) = n + k /\ n \in Nat /\ k \in Nat
      /\ \A i \in n + 1 .. n + k : h[i] = q[i - n]
  BY ConcatIs
<1>. HIDE DEF h
<1>2. x \in Seq(S) /\ Len(x) = k /\ \A i \in 1 .. k : x[i] = h[n + i]
  <2>1. n + 1 \in Nat \ {0} /\ n + k \in Nat /\ n + 1 <= (n + k) + 1 /\ (n + k) - (n + 1) + 1 = k
    BY <1>1
  <2>2. /\ x \in Seq(S) /\ Len(x) = (n + k) - (n + 1) + 1
        /\ \A i \in 1 .. (n + k) - (n + 1) + 1 : x[i] = h[(n + 1) + i - 1]
    BY <1>1, <2>1, SubSeqIs
  <2>3. \A i \in 1 .. k : (n + 1) + i - 1 = n + i
    BY <1>1
  <2>. QED
    BY <2>1, <2>2, <2>3
<1>. HIDE DEF x
<1>3. ASSUME NEW i \in 1 .. k PROVE x[i] = q[i]
  <2>1. n + i \in n + 1 .. n + k /\ (n + i) - n = i
    BY <1>1
  <2>. QED
    BY <1>1, <1>2, <2>1
<1>4. x = q
  BY <1>2, <1>3, SameSeq
<1>. QED
  BY <1>4 DEF x, h

-----------------------------------------------------------------------------
(* The sequences of a sequence one behind the other: how FlattenSeq of the *)
(* library grows with its argument.                                        *)
Joined(f, ss) == [i \in 1 .. Len(ss) |-> IF i = 1 THEN ss[i] ELSE f[i - 1] \o ss[i]]
Flat(ss) == CHOOSE f : f = Joined(f, ss)

LEMMA FlatIs ==
    ASSUME NEW S, NEW ss \in Seq(Seq(S))
    PROVE  /\ Flat(ss) \in [1 .. Len(ss) -> Seq(S)]
           /\ \A i \in 1 .. Len(ss) : Flat(ss)[i] = IF i = 1 THEN ss[i] ELSE Flat(ss)[i - 1] \o ss[i]
<1>. DEFINE n    == Len(ss)
            Dom  == 1 .. n
            Val  == Seq(S)
            place == [i \in Dom |-> i]
            Body == [f \in [Dom -> Val] |-> Joined(f, ss)]
<1>1. n \in Nat /\ \A i \in Dom : ss[i] \in Val
  OBVIOUS
<1>. HIDE DEF n
<1>2. place \in [Dom -> Nat] /\ \A i \in Dom : place[i] = i
  BY <1>1
<1>3. ASSUME NEW f, NEW i \in Dom
      PROVE  Joined(f, ss)[i] = IF i = 1 THEN ss[i] ELSE f[i - 1] \o ss[i]
  BY <1>1 DEF Joined, n
<1>4. Body \in [[Dom -> Val] -> [Dom -> Val]]
  <2>. SUFFICES ASSUME NEW f \in [Dom -> Val] PROVE Joined(f, ss) \in [Dom -> Val]
    OBVIOUS
  <2>1. ASSUME NEW i \in Dom PROVE Joined(f, ss)[i] \in Val
    <3>1. i = 1 \/ i - 1 \in Dom
      BY <1>1
    <3>2. i - 1 \in Dom => f[i - 1] \o ss[i] \in Val
      <4>. SUFFICES ASSUME i - 1 \in Dom PROVE f[i - 1] \o ss[i] \in Val
        OBVIOUS
      <4>1. f[i - 1] \in Seq(S) /\ ss[i] \in Seq(S)
        BY <1>1
      <4>. QED
        BY <4>1, ConcatIs
    <3>. QED
      BY <1>1, <1>3, <3>1, <3>2
  <2>2. Joined(f, ss) = [i \in Dom |-> Joined(f, ss)[i]]
    BY DEF Joined, n
  <2>. QED
    BY <2>1, <2>2
<1>5. <<>> \in Val
  OBVIOUS
<1>6. ASSUME NEW f, NEW g, NEW i \in Dom, \A j \in Dom : place[j] < place[i] => f[j] = g[j]
      PROVE  Joined(f, ss)[i] = Joined(g, ss)[i]
  <2>1. i = 1 \/ (i - 1 \in Dom /\ i - 1 < i)
    BY <1>1
  <2>2. i = 1 \/ f[i - 1] = g[i - 1]
    BY <1>2, <1>6, <2>1
  <2>. QED
    BY <1>3, <2>2
<1>7. \A f \in [Dom -> Val] : Body[f] = Joined(f, ss)
  OBVIOUS
<1>. HIDE DEF Dom, Val, place, Body
<1>8. Recursive(Body, Dom, Val, place)
  <2>1. ASSUME NEW f \in [Dom -> Val], NEW g \in [Dom -> Val], NEW i \in Dom,
               \A j \in Dom : place[j] < place[i] => f[j] = g[j]
        PROVE  Body[f][i] = Body[g][i]
    <3>1. Joined(f, ss)[i] = Joined(g, ss)[i]
      BY <1>6, <2>1, Zenon
    <3>. QED
      BY <1>7, <3>1
  <2>. QED
    BY <1>2, <1>4, <1>5, <2>1 DEF Recursive
<1>9. PICK g \in [Dom -> Val] : g = Body[g]
  BY <1>8, RecursiveFunction
<1>10. g = Joined(g, ss)
  BY <1>7, <1>9
<1>11. Flat(ss) = Joined(Flat(ss), ss)
  BY <1>10 DEF Flat
<1>12. AgreeBySize(Flat(ss), g, Dom, place)
  <2>1. ASSUME NEW i \in Dom, \A j \in Dom : place[j] < place[i] => Flat(ss)[j] = g[j]
        PROVE  Flat(ss)[i] = g[i]
    BY <1>6, <1>10, <1>11, <2>1
  <2>. QED
    BY <1>2, <2>1 DEF AgreeBySize
<1>13. \A i \in Dom : Flat(ss)[i] = g[i]
  BY <1>12, SameBySize
<1>14. Flat(ss) = [i \in Dom |-> Flat(ss)[i]]
  <2>1. Joined(Flat(ss), ss) = [i \in Dom |-> Joined(Flat(ss), ss)[i]]
    BY DEF Joined, Dom, n
  <2>. QED
    BY <1>11, <2>1
<1>15. Flat(ss) \in [Dom -> Val]
  BY <1>13, <1>14
<1>16. \A i \in Dom : Flat(ss)[i] = IF i = 1 THEN ss[i] ELSE Flat(ss)[i - 1] \o ss[i]
  BY <1>3, <1>11, Zenon
<1>. QED
  BY <1>15, <1>16 DEF Dom, Val, n

LEMMA FlattenIs ==
    ASSUME NEW S, NEW ss \in Seq(Seq(S))
    PROVE  /\ FlattenSeq(ss) \in Seq(S)
           /\ FlattenSeq(ss) = IF Len(ss) = 0 THEN <<>> ELSE Flat(ss)[Len(ss)]
<1>1. FlattenSeq(ss) = IF Len(ss) = 0 THEN ss ELSE Flat(ss)[Len(ss)]
  BY Zenon DEF FlattenSeq, Flat, Joined
<1>2. Len(ss) \in Nat /\ (Len(ss) = 0 => ss = <<>>)
  OBVIOUS
<1>3. Len(ss) # 0 => Flat(ss)[Len(ss)] \in Seq(S)
  <2>1. Len(ss) # 0 => Len(ss) \in 1 .. Len(ss)
    BY <1>2
  <2>2. Flat(ss) \in [1 .. Len(ss) -> Seq(S)]
    BY FlatIs
  <2>. QED
    BY <2>1, <2>2
<1>. QED
  BY <1>1, <1>2, <1>3

LEMMA FlattenAppend ==
    ASSUME NEW S, NEW ss \in Seq(Seq(S)), NEW x \in Seq(S)
    PROVE  FlattenSeq(Append(ss, x)) = FlattenSeq(ss) \o x
<1>. DEFINE tt == Append(ss, x)
            n  == Len(ss)
            f  == Flat(ss)
            g  == Flat(tt)
<1>1. /\ tt \in Seq(Seq(S)) /\ Len(tt) = n + 1 /\ n \in Nat /\ tt[n + 1] = x
      /\ \A i \in 1 .. n : tt[i] = ss[i]
  OBVIOUS
<1>. HIDE DEF tt
<1>2. f \in [1 .. n -> Seq(S)] /\ \A i \in 1 .. n : f[i] = IF i = 1 THEN ss[i] ELSE f[i - 1] \o ss[i]
  BY FlatIs
<1>3. /\ g \in [1 .. n + 1 -> Seq(S)]
      /\ \A i \in 1 .. n + 1 : g[i] = IF i = 1 THEN tt[i] ELSE g[i - 1] \o tt[i]
  <2>1. /\ g \in [1 .. Len(tt) -> Seq(S)]
        /\ \A i \in 1 .. Len(tt) : g[i] = IF i = 1 THEN tt[i] ELSE g[i - 1] \o tt[i]
    BY <1>1, FlatIs
  <2>. QED
    BY <1>1, <2>1
<1>. HIDE DEF n, f, g
<1>4. \A i \in 1 .. n : f[i] = g[i]
  <2>. DEFINE place == [i \in 1 .. n |-> i]
  <2>1. place \in [1 .. n -> Nat] /\ \A i \in 1 .. n : place[i] = i
    BY <1>1
  <2>. HIDE DEF place
  <2>2. ASSUME NEW i \in 1 .. n, \A j \in 1 .. n : place[j] < place[i] => f[j] = g[j]
        PROVE  f[i] = g[i]
    <3>1. tt[i] = ss[i] /\ i \in 1 .. n + 1
      BY <1>1
    <3>2. i = 1 \/ (i - 1 \in 1 .. n /\ i - 1 < i)
      BY <1>1
    <3>3. i = 1 \/ f[i - 1] = g[i - 1]
      BY <2>1, <2>2, <3>2
    <3>. QED
      BY <1>2, <1>3, <3>1, <3>3
  <2>. DEFINE Dom == 1 .. n
  <2>3. AgreeBySize(f, g, Dom, place)
    BY <2>1, <2>2, Zenon DEF AgreeBySize
  <2>. HIDE DEF Dom
  <2>4. \A i \in Dom : f[i] = g[i]
    BY <2>3, SameBySize
  <2>. QED
    BY <2>4 DEF Dom
<1>5. FlattenSeq(ss) = IF n = 0 THEN <<>> ELSE f[n]
  BY FlattenIs DEF n, f
<1>6. FlattenSeq(tt) = g[n + 1]
  <2>1. FlattenSeq(tt) = IF Len(tt) = 0 THEN <<>> ELSE Flat(tt)[Len(tt)]
    BY <1>1, FlattenIs
  <2>. QED
    BY <1>1, <2>1 DEF g
<1>7. g[n + 1] = IF n = 0 THEN x ELSE g[n] \o x
  <2>0. n \in Nat
    BY <1>1
  <2>1. n + 1 \in 1 .. n + 1 /\ (n + 1 = 1 <=> n = 0) /\ (n + 1) - 1 = n
    BY <2>0
  <2>. QED
    BY <1>1, <1>3, <2>1
<1>8. CASE n = 0
  <2>1. <<>> \o x = x
    OBVIOUS
  <2>. QED
    BY <1>5, <1>6, <1>7, <1>8, <2>1 DEF tt
<1>9. CASE n # 0
  <2>1. n \in 1 .. n
    BY <1>1, <1>9
  <2>. QED
    BY <1>4, <1>5, <1>6, <1>7, <1>9, <2>1 DEF tt
<1>. QED
  BY <1>8, <1>9

(* An item more in the last of some sequences.                             *)
WithLast(ss, x) == [ss EXCEPT ![Len(ss)] = Append(@, x)]

LEMMA FlattenLast ==
    ASSUME NEW S, NEW ss \in Seq(Seq(S)), Len(ss) # 0, NEW x \in S
    PROVE  /\ WithLast(ss, x) \in Seq(Seq(S)) /\ Len(WithLast(ss, x)) = Len(ss)
           /\ WithLast(ss, x)[Len(ss)] = Append(ss[Len(ss)], x)
           /\ \A i \in 1 .. Len(ss) - 1 : WithLast(ss, x)[i] = ss[i]
           /\ FlattenSeq(WithLast(ss, x)) = Append(FlattenSeq(ss), x)
<1>. DEFINE n == Len(ss)
            rest == ss[n]
            front == SubSeq(ss, 1, n - 1)
            more == [ss EXCEPT ![n] = Append(rest, x)]
<1>1. n \in Nat \ {0} /\ n \in 1 .. n /\ rest \in Seq(S)
  OBVIOUS
<1>2. Append(rest, x) \in Seq(S) /\ Append(rest, x) = rest \o <<x>> /\ <<x>> \in Seq(S)
  BY <1>1
<1>3. /\ more \in Seq(Seq(S)) /\ Len(more) = n /\ more[n] = Append(rest, x)
      /\ \A i \in 1 .. n - 1 : more[i] = ss[i]
  BY <1>1, <1>2
<1>4. front \in Seq(Seq(S)) /\ Len(front) = n - 1 /\ \A i \in 1 .. n - 1 : front[i] = ss[i]
  <2>. DEFINE k == n - 1
  <2>1. k \in Nat /\ 1 <= k + 1 /\ k <= Len(ss) /\ k - 1 + 1 = k /\ \A i \in 1 .. k : 1 + i - 1 = i
    BY <1>1
  <2>. HIDE DEF k
  <2>2. /\ SubSeq(ss, 1, k) \in Seq(Seq(S)) /\ Len(SubSeq(ss, 1, k)) = k - 1 + 1
        /\ \A i \in 1 .. k - 1 + 1 : SubSeq(ss, 1, k)[i] = ss[1 + i - 1]
    BY <2>1, SubSeqIs
  <2>. QED
    BY <2>1, <2>2 DEF k
<1>. HIDE DEF n, rest, front, more
<1>5. ASSUME NEW y \in Seq(S), NEW tt \in Seq(Seq(S)), Len(tt) = n, tt[n] = y,
             \A i \in 1 .. n - 1 : tt[i] = front[i]
      PROVE  FlattenSeq(tt) = FlattenSeq(front) \o y
  <2>1. /\ Append(front, y) \in Seq(Seq(S)) /\ Len(Append(front, y)) = n
        /\ Append(front, y)[n] = y /\ \A i \in 1 .. n - 1 : Append(front, y)[i] = front[i]
    BY <1>1, <1>4
  <2>2. \A i \in 1 .. n : i = n \/ i \in 1 .. n - 1
    BY <1>1
  <2>3. \A i \in 1 .. Len(tt) : tt[i] = Append(front, y)[i]
    BY <1>5, <2>1, <2>2
  <2>4. tt = Append(front, y)
    <3>. DEFINE u == Append(front, y)
    <3>1. u \in Seq(Seq(S)) /\ Len(tt) = Len(u) /\ \A i \in 1 .. Len(tt) : tt[i] = u[i]
      BY <1>5, <2>1, <2>3
    <3>. HIDE DEF u
    <3>2. tt = u
      BY <3>1, SameSeq
    <3>. QED
      BY <3>2 DEF u
  <2>. QED
    BY <1>4, <2>4, FlattenAppend
<1>6. FlattenSeq(more) = FlattenSeq(front) \o (rest \o <<x>>)
  BY <1>2, <1>3, <1>4, <1>5
<1>7. FlattenSeq(ss) = FlattenSeq(front) \o rest
  <2>1. Len(ss) = n /\ ss[n] = rest /\ \A i \in 1 .. n - 1 : ss[i] = front[i]
    BY <1>4 DEF n, rest
  <2>. QED
    BY <1>1, <1>5, <2>1
<1>8. FlattenSeq(more) = Append(FlattenSeq(ss), x)
  <2>. DEFINE a == FlattenSeq(front)
              b == FlattenSeq(ss)
  <2>1. a \in Seq(S) /\ b \in Seq(S)
    BY <1>4, FlattenIs
  <2>. HIDE DEF a, b
  <2>2. a \o (rest \o <<x>>) = (a \o rest) \o <<x>>
    BY <1>1, <1>2, <2>1, Assoc
  <2>3. b \o <<x>> = Append(b, x)
    BY <2>1
  <2>. QED
    BY <1>6, <1>7, <2>2, <2>3 DEF a, b
<1>. QED
  BY <1>3, <1>8 DEF WithLast, more, n, rest

(* Two sequences of sequences, one behind the other.                       *)
LEMMA FlattenConcat ==
    ASSUME NEW S, NEW ss \in Seq(Seq(S)), NEW tt \in Seq(Seq(S))
    PROVE  FlattenSeq(ss \o tt) = FlattenSeq(ss) \o FlattenSeq(tt)
<1>. DEFINE Same(t) == FlattenSeq(ss \o t) = FlattenSeq(ss) \o FlattenSeq(t)
            Good == {n \in Nat : \A t \in Seq(Seq(S)) : Len(t) = n => Same(t)}
<1>1. FlattenSeq(ss) \in Seq(S) /\ FlattenSeq(<<>>) = <<>>
  <2>1. <<>> \in Seq(Seq(S)) /\ Len(<<>>) = 0
    OBVIOUS
  <2>2. FlattenSeq(<<>>) = <<>>
    BY <2>1, FlattenIs
  <2>3. FlattenSeq(ss) \in Seq(S)
    BY FlattenIs
  <2>. QED
    BY <2>2, <2>3
<1>2. 0 \in Good
  <2>1. ASSUME NEW t \in Seq(Seq(S)), Len(t) = 0 PROVE Same(t)
    <3>1. t = <<>> /\ ss \o t = ss
      BY <2>1
    <3>2. FlattenSeq(ss) \o <<>> = FlattenSeq(ss)
      BY <1>1
    <3>. QED
      BY <1>1, <3>1, <3>2
  <2>. QED
    BY <2>1
<1>3. ASSUME NEW n \in Nat, n \in Good PROVE n + 1 \in Good
  <2>1. ASSUME NEW t \in Seq(Seq(S)), Len(t) = n + 1 PROVE Same(t)
    <3>. DEFINE x == t[n + 1]
                front == SubSeq(t, 1, n)
    <3>1. front \in Seq(Seq(S)) /\ Len(front) = n /\ x \in Seq(S) /\ t = Append(front, x)
      BY <2>1
    <3>2. ss \o t = Append(ss \o front, x) /\ ss \o front \in Seq(Seq(S))
      <4>. HIDE DEF x, front
      <4>. QED
        BY <3>1
    <3>. HIDE DEF x, front
    <3>3. /\ FlattenSeq(t) = FlattenSeq(front) \o x
          /\ FlattenSeq(ss \o t) = FlattenSeq(ss \o front) \o x
      BY <3>1, <3>2, FlattenAppend
    <3>4. FlattenSeq(ss \o front) = FlattenSeq(ss) \o FlattenSeq(front)
      BY <1>3, <3>1
    <3>5. FlattenSeq(front) \in Seq(S)
      BY <3>1, FlattenIs
    <3>6. (FlattenSeq(ss) \o FlattenSeq(front)) \o x = FlattenSeq(ss) \o (FlattenSeq(front) \o x)
      <4>. DEFINE A == FlattenSeq(ss)
                  B == FlattenSeq(front)
      <4>1. A \in Seq(S) /\ B \in Seq(S) /\ x \in Seq(S)
        BY <1>1, <3>1, <3>5
      <4>. HIDE DEF A, B
      <4>2. (A \o B) \o x = A \o (B \o x)
        BY <4>1, Assoc
      <4>. QED
        BY <4>2 DEF A, B
    <3>. QED
      BY <3>3, <3>4, <3>6
  <2>. HIDE DEF Same
  <2>. QED
    BY <2>1
<1>4. Len(tt) \in Good
  <2>1. Len(tt) \in Nat
    OBVIOUS
  <2>. HIDE DEF Good
  <2>. QED
    BY <1>2, <1>3, <2>1, Induction
<1>. QED
  BY <1>4

(* The first of some sequences, and the rest.                              *)
LEMMA FlattenHead ==
    ASSUME NEW S, NEW ss \in Seq(Seq(S)), ss # <<>>
    PROVE  /\ Head(ss) \in Seq(S) /\ Tail(ss) \in Seq(Seq(S)) /\ FlattenSeq(Tail(ss)) \in Seq(S)
           /\ FlattenSeq(ss) = Head(ss) \o FlattenSeq(Tail(ss))
<1>. DEFINE h == Head(ss)
            t == Tail(ss)
<1>1. h \in Seq(S) /\ t \in Seq(Seq(S)) /\ ss = <<h>> \o t
  OBVIOUS
<1>. HIDE DEF h, t
<1>2. <<h>> \in Seq(Seq(S)) /\ <<>> \in Seq(Seq(S)) /\ <<h>> = Append(<<>>, h) /\ Len(<<>>) = 0
  BY <1>1
<1>3. FlattenSeq(<<>>) = <<>>
  BY <1>2, FlattenIs
<1>4. FlattenSeq(Append(<<>>, h)) = FlattenSeq(<<>>) \o h
  BY <1>1, <1>2, FlattenAppend
<1>5. <<>> \o h = h
  BY <1>1
<1>6. FlattenSeq(<<h>>) = h
  BY <1>2, <1>3, <1>4, <1>5
<1>7. FlattenSeq(<<h>> \o t) = FlattenSeq(<<h>>) \o FlattenSeq(t)
  BY <1>1, <1>2, FlattenConcat
<1>8. FlattenSeq(t) \in Seq(S)
  BY <1>1, FlattenIs
<1>. QED
  BY <1>1, <1>6, <1>7, <1>8 DEF h, t

(* Three sequences of one item each.                                       *)
LEMMA ThreeInARow ==
    ASSUME NEW S, NEW x \in S, NEW y \in S, NEW z \in S
    PROVE  /\ (<<x>> \o <<y>>) \o <<z>> \in Seq(S) /\ Len((<<x>> \o <<y>>) \o <<z>>) = 3
           /\ ((<<x>> \o <<y>>) \o <<z>>)[1] = x /\ ((<<x>> \o <<y>>) \o <<z>>)[2] = y
           /\ ((<<x>> \o <<y>>) \o <<z>>)[3] = z
<1>. DEFINE a == <<x>>
            b == <<y>>
            c == <<z>>
            ab == a \o b
            r == ab \o c
<1>1. /\ a \in Seq(S) /\ b \in Seq(S) /\ c \in Seq(S) /\ Len(a) = 1 /\ Len(b) = 1 /\ Len(c) = 1
      /\ a[1] = x /\ b[1] = y /\ c[1] = z
  OBVIOUS
<1>2. r = ab \o c
  OBVIOUS
<1>. HIDE DEF a, b, c, r
<1>3. ab \in Seq(S) /\ Len(ab) = 2 /\ ab[1] = x /\ ab[2] = y
  <2>1. /\ a \o b \in Seq(S) /\ Len(a \o b) = Len(a) + Len(b)
        /\ \A i \in 1 .. Len(a) : (a \o b)[i] = a[i]
        /\ \A i \in Len(a) + 1 .. Len(a) + Len(b) : (a \o b)[i] = b[i - Len(a)]
    BY <1>1, ConcatIs
  <2>2. 1 \in 1 .. Len(a) /\ 2 \in Len(a) + 1 .. Len(a) + Len(b) /\ 2 - Len(a) = 1
    BY <1>1
  <2>. QED
    BY <1>1, <2>1, <2>2
<1>. HIDE DEF ab
<1>4. r \in Seq(S) /\ Len(r) = 3 /\ r[1] = ab[1] /\ r[2] = ab[2] /\ r[3] = c[1]
  <2>1. /\ ab \o c \in Seq(S) /\ Len(ab \o c) = Len(ab) + Len(c)
        /\ \A i \in 1 .. Len(ab) : (ab \o c)[i] = ab[i]
        /\ \A i \in Len(ab) + 1 .. Len(ab) + Len(c) : (ab \o c)[i] = c[i - Len(ab)]
    BY <1>1, <1>3, ConcatIs
  <2>2. 1 \in 1 .. Len(ab) /\ 2 \in 1 .. Len(ab) /\ 3 \in Len(ab) + 1 .. Len(ab) + Len(c) /\ 3 - Len(ab) = 1
    BY <1>1, <1>3
  <2>. QED
    BY <1>1, <1>2, <1>3, <2>1, <2>2
<1>5. r \in Seq(S) /\ Len(r) = 3 /\ r[1] = x /\ r[2] = y /\ r[3] = z
  BY <1>1, <1>3, <1>4
<1>. QED
  BY <1>5 DEF r, ab, a, b, c

(* A part of what follows.                                                 *)
LEMMA FrontAgrees ==
    ASSUME NEW S, NEW a \in Seq(S), NEW h \in Seq(S), NEW rest \in Seq(S), NEW n \in 0 .. Len(h)
    PROVE  /\ Len(a) + n <= Len(a \o (h \o rest))
           /\ \A i \in 1 .. Len(a) + n : (a \o (h \o rest))[i] = (a \o SubSeq(h, 1, n))[i]
<1>. DEFINE t == h \o rest
            u == SubSeq(h, 1, n)
            A == Len(a)
            H == Len(h)
<1>1. A \in Nat /\ H \in Nat /\ n \in Nat /\ n <= H
  OBVIOUS
<1>2. t \in Seq(S) /\ H <= Len(t) /\ Len(t) \in Nat /\ \A i \in 1 .. H : t[i] = h[i]
  <2>1. /\ h \o rest \in Seq(S) /\ Len(h \o rest) = Len(h) + Len(rest) /\ Len(h) \in Nat /\ Len(rest) \in Nat
        /\ \A i \in 1 .. Len(h) : (h \o rest)[i] = h[i]
    BY ConcatIs
  <2>. QED
    BY <2>1
<1>3. u \in Seq(S) /\ Len(u) = n /\ \A i \in 1 .. n : u[i] = h[i]
  OBVIOUS
<1>. HIDE DEF t, u
<1>4. /\ Len(a \o t) = A + Len(t)
      /\ \A i \in 1 .. A : (a \o t)[i] = a[i]
      /\ \A i \in A + 1 .. A + Len(t) : (a \o t)[i] = t[i - A]
  BY <1>2, ConcatIs
<1>5. /\ \A i \in 1 .. A : (a \o u)[i] = a[i]
      /\ \A i \in A + 1 .. A + Len(u) : (a \o u)[i] = u[i - A]
  BY <1>3, ConcatIs
<1>. HIDE DEF A, H
<1>6. ASSUME NEW i \in 1 .. A + n PROVE (a \o t)[i] = (a \o u)[i]
  <2>1. CASE i <= A
    <3>1. i \in 1 .. A
      BY <1>1, <2>1
    <3>. QED
      BY <1>4, <1>5, <3>1
  <2>2. CASE i > A
    <3>1. i \in A + 1 .. A + Len(t) /\ i \in A + 1 .. A + Len(u) /\ i - A \in 1 .. n /\ i - A \in 1 .. H
      BY <1>1, <1>2, <1>3, <2>2
    <3>. QED
      BY <1>2, <1>3, <1>4, <1>5, <3>1
  <2>3. i <= A \/ i > A
    BY <1>1
  <2>. QED
    BY <2>1, <2>2, <2>3, Zenon
<1>7. A + n <= Len(a \o t)
  BY <1>1, <1>2, <1>4
<1>. QED
  BY <1>6, <1>7 DEF A, t, u

-----------------------------------------------------------------------------
(* Remainders.                                                             *)
LEMMA SmallMultiple ==
    ASSUME NEW d \in Nat \ {0}, NEW x \in Int, x * d < d, -d < x * d PROVE x = 0
<1>1. CASE x >= 1
  <2>1. PICK y \in Nat : x = y + 1 BY <1>1
  <2>2. x * d = y * d + d /\ y * d >= 0 BY <2>1
  <2> QED BY <2>2
<1>2. CASE x <= -1
  <2>1. PICK y \in Nat : x = -1 - y BY <1>2
  <2>2. x * d = -d - y * d /\ y * d >= 0 BY <2>1
  <2> QED BY <2>2
<1> QED BY <1>1, <1>2

LEMMA RemainderIs ==
    ASSUME NEW d \in Nat \ {0}, NEW q \in Int, NEW r \in 0 .. d - 1
    PROVE  (q * d + r) % d = r
<1> DEFINE n == q * d + r
           k == n \div d
<1>1. n \in Int BY SMT
<1>2. k \in Int /\ n % d \in 0 .. d - 1 /\ n = d * k + (n % d) BY <1>1
<1> DEFINE m == n % d
<1>3. m \in 0 .. d - 1 /\ q * d + r = d * k + m BY <1>2
<1> HIDE DEF m, k, n
<1>4. (q - k) * d = m - r BY <1>2, <1>3
<1>5. q - k = 0
  <2>1. q - k \in Int /\ (q - k) * d < d /\ -d < (q - k) * d BY <1>2, <1>3, <1>4
  <2> QED BY <2>1, SmallMultiple
<1>6. m = r BY <1>2, <1>3, <1>4, <1>5
<1> QED BY <1>6 DEF m, n

LEMMA Decomposed ==
    ASSUME NEW d \in Nat \ {0}, NEW n \in Nat
    PROVE  \E q \in Nat : n = q * d + (n % d) /\ n % d \in 0 .. d - 1
<1>1. n \div d \in Int /\ n % d \in 0 .. d - 1 /\ n = d * (n \div d) + (n % d) OBVIOUS
<1>2. n \div d \in Nat OBVIOUS
<1> DEFINE q == n \div d
<1>3. q \in Nat /\ n = q * d + (n % d) BY <1>1, <1>2
<1> HIDE DEF q
<1> QED BY <1>1, <1>3

LEMMA NextRemainder ==
    ASSUME NEW d \in Nat \ {0}, NEW n \in Nat
    PROVE  (n + 1) % d = IF (n % d) + 1 = d THEN 0 ELSE (n % d) + 1
<1>1. PICK q \in Nat : n = q * d + (n % d) /\ n % d \in 0 .. d - 1 BY Decomposed
<1> DEFINE r == n % d
<1>2. n = q * d + r /\ r \in 0 .. d - 1 BY <1>1
<1> HIDE DEF r
<1>3. CASE r + 1 = d
  <2>1. n + 1 = (q + 1) * d + 0 BY <1>2, <1>3
  <2>2. 0 \in 0 .. d - 1 /\ q + 1 \in Int OBVIOUS
  <2>3. (n + 1) % d = 0 BY <2>1, <2>2, RemainderIs
  <2> QED BY <1>3, <2>3 DEF r
<1>4. CASE r + 1 # d
  <2>1. n + 1 = q * d + (r + 1) /\ r + 1 \in 0 .. d - 1 BY <1>2, <1>4
  <2> DEFINE s == r + 1
  <2>2. s \in 0 .. d - 1 /\ n + 1 = q * d + s BY <2>1
  <2> HIDE DEF s
  <2>3. (q * d + s) % d = s BY <2>2, RemainderIs
  <2>4. (n + 1) % d = s BY <2>2, <2>3
  <2> QED BY <1>4, <2>4 DEF r, s
<1> QED BY <1>3, <1>4

LEMMA Wrapped ==
    ASSUME NEW w \in Nat \ {0}, NEW a \in Nat, a < 2 * w
    PROVE  a % w = IF a < w THEN a ELSE a - w
<1>1. CASE a < w
  <2>1. a = 0 * w + a /\ a \in 0 .. w - 1
    BY <1>1
  <2>. QED
    BY <1>1, <2>1, RemainderIs
<1>2. CASE a >= w
  <2>. DEFINE r == a - w
  <2>1. a = 1 * w + r /\ r \in 0 .. w - 1
    BY <1>2
  <2>. HIDE DEF r
  <2>2. (1 * w + r) % w = r
    BY <2>1, RemainderIs
  <2>. QED
    BY <1>2, <2>1, <2>2 DEF r
<1>. QED
  BY <1>1, <1>2

LEMMA Shifted ==
    ASSUME NEW d \in Nat \ {0}, NEW q \in Int, NEW x \in Nat
    PROVE  (q * d + x) % d = x % d
<1>1. PICK s \in Nat : x = s * d + (x % d) /\ x % d \in 0 .. d - 1
  BY Decomposed
<1>. DEFINE r == x % d
<1>. HIDE DEF r
<1>2. x = s * d + r /\ r \in 0 .. d - 1
  BY <1>1 DEF r
<1>3. q * d + x = (q + s) * d + r
  BY <1>2
<1>4. ((q + s) * d + r) % d = r
  BY <1>2, RemainderIs
<1>. QED
  BY <1>3, <1>4 DEF r

(* A counter that wraps at a multiple of d counts right modulo d.          *)
WrapsWith(w, d) == \A a, k \in Nat : ((a % w) + k) % d = (a + k) % d

LEMMA CountsWrap ==
    ASSUME NEW d \in Nat \ {0}, NEW w \in Nat \ {0}, w % d = 0 PROVE WrapsWith(w, d)
<1>. SUFFICES ASSUME NEW a \in Nat, NEW k \in Nat PROVE ((a % w) + k) % d = (a + k) % d
  BY DEF WrapsWith
<1>1. PICK p \in Nat : a = p * w + (a % w) /\ a % w \in 0 .. w - 1
  BY Decomposed
<1>2. PICK q \in Nat : w = q * d + (w % d)
  BY Decomposed
<1>. DEFINE r == a % w
<1>3. r \in Nat /\ a = p * w + r /\ w = q * d
  BY <1>1, <1>2
<1>. HIDE DEF r
<1>4. a + k = (p * q) * d + (r + k) /\ p * q \in Int /\ r + k \in Nat
  BY <1>3
<1>. DEFINE e == p * q
<1>. HIDE DEF e
<1>5. a + k = e * d + (r + k) /\ e \in Int /\ r + k \in Nat
  BY <1>4 DEF e
<1>6. (e * d + (r + k)) % d = (r + k) % d
  BY <1>5, Shifted
<1>. QED
  BY <1>5, <1>6 DEF r

(* Of fewer than d successive numbers no two have the same remainder.      *)
LEMMA SameRemainder ==
    ASSUME NEW d \in Nat \ {0}, NEW a \in Nat, NEW j \in 0 .. d - 1, NEW k \in 0 .. d - 1,
           (a + j) % d = (a + k) % d
    PROVE  j = k
<1>. DEFINE x == a + j
            y == a + k
<1>0. x \in Nat /\ y \in Nat /\ x % d = y % d
  OBVIOUS
<1>. HIDE DEF x, y
<1>1. PICK p \in Nat : x = p * d + (x % d)
  BY <1>0, Decomposed
<1>2. PICK q \in Nat : y = q * d + (y % d)
  BY <1>0, Decomposed
<1>. DEFINE r == y % d
<1>3. a + j = p * d + r /\ a + k = q * d + r /\ r \in Int
  BY <1>0, <1>1, <1>2 DEF x, y
<1>. HIDE DEF r
<1>4. (p - q) * d = j - k /\ p - q \in Int
  BY <1>3
<1>. DEFINE e == p - q
<1>. HIDE DEF e
<1>5. e * d = j - k /\ e \in Int
  BY <1>4 DEF e
<1>6. e = 0
  BY <1>5, SmallMultiple
<1>. QED
  BY <1>5, <1>6

(* The distance of two such counters.                                      *)
LEMMA WrappedDistance ==
    ASSUME NEW w \in Nat \ {0}, NEW a \in 0 .. w - 1, NEW k \in 0 .. w - 1
    PROVE  (((a + k) % w) - a) % w = k
<1>1. (a + k) % w = IF a + k < w THEN a + k ELSE a + k - w
  <2>. DEFINE x == a + k
  <2>1. x \in Nat /\ x < 2 * w
    OBVIOUS
  <2>. HIDE DEF x
  <2>2. x % w = IF x < w THEN x ELSE x - w
    BY <2>1, Wrapped
  <2>. QED
    BY <2>2 DEF x
<1>2. CASE a + k < w
  <2>1. ((a + k) % w) - a = 0 * w + k
    BY <1>1, <1>2
  <2>. QED
    BY <2>1, RemainderIs
<1>3. CASE ~(a + k < w)
  <2>1. ((a + k) % w) - a = (-1) * w + k
    BY <1>1, <1>3
  <2>. QED
    BY <2>1, RemainderIs
<1>. QED
  BY <1>2, <1>3
=============================================================================
