---------------------------- MODULE QueueProofs ----------------------------
(***************************************************************************)
(* Os::BufferQueue for any depth, messages, buffer sizes and counters: the *)
(* heap and the ring of slots implement the priority queue.                *)
(* Os::Queue for any number of threads, any depth, any set of messages and *)
(* any buffers of the receivers: the type invariant, and that no wakeup is *)
(* lost.  Svc::BufferAccumulator for a ring of any size: its buffers go on *)
(* in order.  Os::LocklessQueue for any number of senders and of nodes:    *)
(* its two lists stay as they should be until a pop takes a stale link.    *)
(***************************************************************************)
EXTENDS OsQueue, PriorityBufferQueue, BufferAccumulator, LocklessQueue, SequenceTheorems,
        FiniteSetTheorems, DataLemmas, TLAPS

USE QueueAssumption

(* Os::BufferQueue.                                                        *)
QNodes == [value : Int, order : 0 .. OrderMod - 1, id : Slots]

-----------------------------------------------------------------------------
(* Nodes are ordered by value and age.                                     *)
Counters == 0 .. OrderMod - 1

LEMMA AgeType ==
    ASSUME BufferAssumption, NEW o \in Counters, NEW x \in QNodes
    PROVE  Age(o, x) \in Counters
  BY DEF BufferAssumption, Counters, QNodes, Age

LEMMA PrecedesIs ==
    ASSUME BufferAssumption, NEW o \in Counters, NEW x \in QNodes, NEW y \in QNodes, NEW z \in QNodes
    PROVE  /\ ~(Precedes(o, x, y) /\ Precedes(o, y, x)) /\ ~Precedes(o, x, x)
           /\ Precedes(o, x, y) /\ Precedes(o, y, z) => Precedes(o, x, z)
           /\ ~Precedes(o, y, x) /\ ~Precedes(o, z, y) => ~Precedes(o, z, x)
           /\ Age(o, x) # Age(o, y) => Precedes(o, x, y) \/ Precedes(o, y, x)
           /\ x.value > y.value => Precedes(o, x, y)
<1>1. /\ Age(o, x) \in Int /\ Age(o, y) \in Int /\ Age(o, z) \in Int
  BY AgeType DEF Counters
<1>2. x.value \in Int /\ y.value \in Int /\ z.value \in Int
  BY DEF QNodes
<1>. QED
  BY <1>1, <1>2 DEF Precedes

(* The parent of a place in the array.                                     *)
LEMMA ParentIs ==
    ASSUME NEW i \in Nat, i >= 2
    PROVE  /\ Parent(i) \in 1 .. i - 1 /\ (i = 2 * Parent(i) \/ i = 2 * Parent(i) + 1)
           /\ \A p \in Nat : i = 2 * p \/ i = 2 * p + 1 => p = Parent(i)
  BY DEF Parent

-----------------------------------------------------------------------------
(* Two places of an array swapped: the nodes are the same.                 *)
Distinct(h)   == \A i, j \in 1 .. Len(h) : h[i] = h[j] => i = j
Ordered(h, o) == \A j \in 2 .. Len(h) : ~Precedes(o, h[j], h[Parent(j)])

LEMMA ToSetIs == ASSUME NEW h \in Seq(QNodes) PROVE ToSet(h) = {h[i] : i \in 1 .. Len(h)}
  BY DEF ToSet

Swap(h, a, b) == [h EXCEPT ![a] = h[b], ![b] = h[a]]
IsSwap(g, h, a, b) ==
    /\ g \in Seq(QNodes) /\ Len(g) = Len(h)
    /\ \A i \in 1 .. Len(h) : g[i] = IF i = a THEN h[b] ELSE IF i = b THEN h[a] ELSE h[i]
    /\ ToSet(g) = ToSet(h)
    /\ Distinct(h) => Distinct(g)

LEMMA SwapIs ==
    ASSUME NEW h \in Seq(QNodes), NEW a \in 1 .. Len(h), NEW b \in 1 .. Len(h)
    PROVE  IsSwap(Swap(h, a, b), h, a, b)
<1>. DEFINE g == Swap(h, a, b)
<1>1. /\ g \in Seq(QNodes) /\ Len(g) = Len(h)
      /\ \A i \in 1 .. Len(h) : g[i] = IF i = a THEN h[b] ELSE IF i = b THEN h[a] ELSE h[i]
  BY DEF Swap
<1>. HIDE DEF g
<1>2. ToSet(g) = ToSet(h)
  <2>1. ASSUME NEW i \in 1 .. Len(h) PROVE \E j \in 1 .. Len(h) : g[j] = h[i]
    BY <1>1
  <2>2. ASSUME NEW i \in 1 .. Len(h) PROVE \E j \in 1 .. Len(h) : h[j] = g[i]
    BY <1>1
  <2>3. ToSet(g) = {g[i] : i \in 1 .. Len(h)} /\ ToSet(h) = {h[i] : i \in 1 .. Len(h)}
    BY <1>1, ToSetIs
  <2>4. {g[i] : i \in 1 .. Len(h)} \subseteq {h[i] : i \in 1 .. Len(h)}
    BY <2>2
  <2>5. {h[i] : i \in 1 .. Len(h)} \subseteq {g[i] : i \in 1 .. Len(h)}
    BY <2>1
  <2>. QED
    BY <2>3, <2>4, <2>5
<1>3. Distinct(h) => Distinct(g)
  BY <1>1 DEF Distinct
<1>. QED
  BY <1>1, <1>2, <1>3 DEF g, IsSwap

-----------------------------------------------------------------------------
(* The loops: a function of turns follows its equation.                    *)
Iterates(g, n, S, start, F) ==
    g \in [0 .. n -> S] /\ g[0] = start /\ \A k \in 0 .. n - 1 : g[k + 1] = F[g[k]]

LEMMA Iteration ==
    ASSUME NEW n \in Nat, NEW S, NEW start \in S, NEW F \in [S -> S]
    PROVE  \E g : Iterates(g, n, S, start, F)
<1>. DEFINE Good(m, g) == Iterates(g, m, S, start, F)
            Upto == {m \in Nat : \E g : Good(m, g)}
<1>1. 0 \in Upto
  <2>1. Good(0, [k \in 0 .. 0 |-> start])
    BY DEF Iterates
  <2>. QED
    BY <2>1
<1>2. ASSUME NEW m \in Nat, m \in Upto PROVE m + 1 \in Upto
  <2>1. PICK g : Good(m, g)
    BY <1>2
  <2>. DEFINE f == [k \in 0 .. m + 1 |-> IF k = m + 1 THEN F[g[m]] ELSE g[k]]
  <2>2. f \in [0 .. m + 1 -> S] /\ f[0] = start
    BY <2>1 DEF Iterates
  <2>3. ASSUME NEW k \in 0 .. m PROVE f[k + 1] = F[f[k]]
    BY <2>1 DEF Iterates
  <2>4. Good(m + 1, f)
    <3>1. (m + 1) - 1 = m
      OBVIOUS
    <3>. HIDE DEF f
    <3>. QED
      BY <2>2, <2>3, <3>1 DEF Iterates
  <2>. HIDE DEF Good, f
  <2>. QED
    BY <2>4
<1>3. n \in Upto
  <2>. HIDE DEF Upto
  <2>. QED
    BY <1>1, <1>2, Induction
<1>. QED
  BY <1>3

Turns(h) == [heap : {g \in Seq(QNodes) : Len(g) = Len(h)}, at : 1 .. Len(h)]

LEMMA SinkIs ==
    ASSUME BufferAssumption, NEW o \in Counters, NEW n \in Nat \ {0}, NEW h \in Seq(QNodes), Len(h) = n,
           NEW s \in Turns(h)
    PROVE  \E c \in 1 .. n :
              /\ c = s.at \/ (c <= n /\ c >= 2 /\ Parent(c) = s.at /\ Precedes(o, s.heap[c], s.heap[s.at]))
              /\ \A j \in 2 .. n : Parent(j) = s.at => ~Precedes(o, s.heap[j], s.heap[c])
              /\ Sink(s, o) = [heap |-> Swap(s.heap, s.at, c), at |-> c]
              /\ Sink(s, o) \in Turns(h)
<1>. DEFINE i == s.at
            left == IF LChild(i) > Len(s.heap) THEN i ELSE Larger(s.heap, o, LChild(i), i)
            c == IF RChild(i) > Len(s.heap) THEN left ELSE Larger(s.heap, o, RChild(i), left)
<1>1. /\ i \in 1 .. n /\ s.heap \in Seq(QNodes) /\ Len(s.heap) = n
      /\ \A j \in 1 .. n : s.heap[j] \in QNodes
  BY DEF Turns
<1>. HIDE DEF i
<1>2. /\ left = IF 2 * i <= n /\ Precedes(o, s.heap[2 * i], s.heap[i]) THEN 2 * i ELSE i
      /\ left \in 1 .. n
  BY <1>1 DEF Larger, LChild
<1>. HIDE DEF left
<1>3. /\ c = IF 2 * i + 1 <= n /\ Precedes(o, s.heap[2 * i + 1], s.heap[left]) THEN 2 * i + 1 ELSE left
      /\ c \in 1 .. n
  BY <1>1, <1>2 DEF Larger, RChild
<1>. HIDE DEF c
<1>4. ASSUME NEW j \in 2 .. n, Parent(j) = i PROVE j = 2 * i \/ j = 2 * i + 1
  BY <1>4, ParentIs
<1>5. ASSUME NEW j \in 2 .. n, j = 2 * i \/ j = 2 * i + 1 PROVE Parent(j) = i
  BY <1>1, <1>5, ParentIs
<1>6. \A x, y, z \in QNodes : /\ ~(Precedes(o, x, y) /\ Precedes(o, y, x)) /\ ~Precedes(o, x, x)
                              /\ Precedes(o, x, y) /\ Precedes(o, y, z) => Precedes(o, x, z)
                              /\ ~Precedes(o, y, x) /\ ~Precedes(o, z, y) => ~Precedes(o, z, x)
  BY PrecedesIs
<1>7. c = i \/ (c <= n /\ c >= 2 /\ Parent(c) = i /\ Precedes(o, s.heap[c], s.heap[i]))
  <2>1. CASE c = left /\ left = 2 * i
    BY <1>1, <1>2, <1>5, <2>1
  <2>2. CASE c = 2 * i + 1
    <3>1. 2 * i + 1 <= n /\ Precedes(o, s.heap[2 * i + 1], s.heap[left])
      BY <1>1, <1>2, <1>3, <2>2
    <3>2. Precedes(o, s.heap[2 * i + 1], s.heap[i])
      <4>1. left = i \/ (2 * i <= n /\ Precedes(o, s.heap[2 * i], s.heap[i]) /\ left = 2 * i)
        BY <1>2
      <4>. QED
        BY <1>1, <1>6, <3>1, <4>1
    <3>. QED
      BY <1>1, <1>5, <2>2, <3>1, <3>2
  <2>. QED
    BY <1>2, <1>3, <2>1, <2>2
<1>8. ASSUME NEW j \in 2 .. n, Parent(j) = i PROVE ~Precedes(o, s.heap[j], s.heap[c])
  <2>1. \A k \in 1 .. n : s.heap[k] \in QNodes
    BY <1>1
  <2>2. CASE j = 2 * i
    <3>1. ~Precedes(o, s.heap[j], s.heap[left])
      BY <1>1, <1>2, <1>6, <2>1, <2>2
    <3>2. c = left \/ Precedes(o, s.heap[c], s.heap[left])
      BY <1>3
    <3>3. s.heap[j] \in QNodes /\ s.heap[c] \in QNodes /\ s.heap[left] \in QNodes
      BY <1>2, <1>3, <2>1
    <3>. QED
      BY <1>6, <3>1, <3>2, <3>3
  <2>3. CASE j = 2 * i + 1
    BY <1>2, <1>3, <1>6, <2>1, <2>3
  <2>. QED
    BY <1>4, <1>8, <2>2, <2>3
<1>9. Sink(s, o) = [heap |-> Swap(s.heap, i, c), at |-> c]
  BY Zenon DEF Sink, Swap, c, left, i
<1>10. Sink(s, o) \in Turns(h)
  <2>1. s.heap \in Seq(QNodes) /\ i \in 1 .. Len(s.heap) /\ c \in 1 .. Len(s.heap)
    BY <1>1, <1>3
  <2>2. IsSwap(Swap(s.heap, i, c), s.heap, i, c)
    BY <2>1, SwapIs
  <2>. QED
    BY <1>1, <1>3, <1>9, <2>2 DEF Turns, IsSwap
<1>. QED
  BY <1>3, <1>7, <1>8, <1>9, <1>10 DEF i

LEMMA SinkingIs ==
    ASSUME BufferAssumption, NEW o \in Counters, NEW n \in Nat \ {0}, NEW h \in Seq(QNodes), Len(h) = n
    PROVE  /\ Sinking(h, o)[0] = [heap |-> h, at |-> 1]
           /\ \A k \in 0 .. n : Sinking(h, o)[k] \in Turns(h)
           /\ \A k \in 0 .. n - 1 : Sinking(h, o)[k + 1] = Sink(Sinking(h, o)[k], o)
<1>. DEFINE start == [heap |-> h, at |-> 1]
            S == Turns(h)
            F == [s \in S |-> Sink(s, o)]
            Body(g) == [k \in 0 .. Len(h) |-> IF k = 0 THEN start ELSE Sink(g[k - 1], o)]
<1>1. start \in S
  BY DEF Turns
<1>2. F \in [S -> S]
  BY SinkIs
<1>3. PICK g : g \in [0 .. n -> S] /\ g[0] = start /\ \A k \in 0 .. n - 1 : g[k + 1] = F[g[k]]
  <2>. HIDE DEF F, S, start
  <2>1. \E g : Iterates(g, n, S, start, F)
    BY <1>1, <1>2, Iteration
  <2>. QED
    BY <2>1 DEF Iterates
<1>. HIDE DEF S, start
<1>4. g = Body(g)
  <2>1. ASSUME NEW k \in 0 .. n PROVE g[k] = IF k = 0 THEN start ELSE Sink(g[k - 1], o)
    <3>1. CASE k = 0
      BY <1>3, <3>1
    <3>2. CASE k # 0
      <4>1. k - 1 \in 0 .. n - 1 /\ g[k - 1] \in S /\ (k - 1) + 1 = k
        BY <1>3, <3>2
      <4>2. g[(k - 1) + 1] = F[g[k - 1]]
        BY <1>3, <4>1, Zenon
      <4>3. F[g[k - 1]] = Sink(g[k - 1], o)
        BY <4>1
      <4>. QED
        BY <3>2, <4>1, <4>2, <4>3
    <3>. QED
      BY <3>1, <3>2
  <2>2. \A k \in 0 .. n : g[k] = Body(g)[k]
    BY <2>1
  <2>3. DOMAIN g = 0 .. n /\ g = [k \in 0 .. n |-> g[k]]
    BY <1>3, Zenon
  <2>. QED
    BY <2>2, <2>3
<1>5. Sinking(h, o) = CHOOSE f : f = Body(f)
  BY DEF Sinking, start
<1>6. Sinking(h, o) = Body(Sinking(h, o))
  <2>. HIDE DEF Body
  <2>. QED
    BY <1>4, <1>5, Zenon
<1>. DEFINE t == Sinking(h, o)
<1>. HIDE DEF t
<1>7. t = [k \in 0 .. n |-> IF k = 0 THEN start ELSE Sink(t[k - 1], o)]
  BY <1>6 DEF t
<1>8. t[0] = start
  BY <1>7
<1>9. ASSUME NEW k \in 0 .. n - 1 PROVE t[k + 1] = Sink(t[k], o)
  <2>1. k + 1 \in 0 .. n /\ k + 1 # 0 /\ (k + 1) - 1 = k
    OBVIOUS
  <2>2. t[k + 1] = IF k + 1 = 0 THEN start ELSE Sink(t[(k + 1) - 1], o)
    BY <1>7, <2>1, Zenon
  <2>. QED
    BY <2>1, <2>2
<1>10. \A k \in 0 .. n : t[k] \in S
  <2>. DEFINE Typed == {k \in Nat : k <= n => t[k] \in S}
  <2>1. 0 \in Typed
    BY <1>1, <1>8
  <2>2. ASSUME NEW k \in Nat, k \in Typed PROVE k + 1 \in Typed
    <3>1. CASE k + 1 <= n
      <4>1. k \in 0 .. n - 1 /\ t[k] \in S
        BY <2>2, <3>1
      <4>2. Sink(t[k], o) \in S
        BY <4>1, SinkIs DEF S
      <4>. QED
        BY <1>9, <4>1, <4>2
    <3>. QED
      BY <3>1
  <2>. HIDE DEF Typed
  <2>3. \A k \in Nat : k \in Typed
    BY <2>1, <2>2, Induction
  <2>. QED
    BY <2>3 DEF Typed
<1>. QED
  BY <1>8, <1>9, <1>10 DEF t, S, start

(* What a turn keeps: all pairs of a node and its parent are in order but  *)
(* those below the sinking node, and its children are in order with its    *)
(* parent.  After k turns the array is in order or the node k + 1 deep.    *)
SinkInv(h, o, s, k) ==
    /\ s \in Turns(h) /\ ToSet(s.heap) = ToSet(h) /\ Distinct(s.heap)
    /\ \A j \in 2 .. Len(h) : Parent(j) # s.at => ~Precedes(o, s.heap[j], s.heap[Parent(j)])
    /\ \A j \in 2 .. Len(h) : Parent(j) = s.at /\ s.at > 1 =>
          ~Precedes(o, s.heap[j], s.heap[Parent(s.at)])
    /\ Ordered(s.heap, o) \/ s.at >= k + 1

LEMMA SinkKeeps ==
    ASSUME BufferAssumption, NEW o \in Counters, NEW n \in Nat \ {0}, NEW h \in Seq(QNodes), Len(h) = n,
           NEW s, NEW k \in Nat, SinkInv(h, o, s, k)
    PROVE  SinkInv(h, o, Sink(s, o), k + 1)
<1>. DEFINE i == s.at
            r == Sink(s, o)
<1>1. /\ i \in 1 .. n /\ s.heap \in Seq(QNodes) /\ Len(s.heap) = n /\ s \in Turns(h)
      /\ \A j \in 1 .. n : s.heap[j] \in QNodes
  BY DEF Turns, SinkInv
<1>2. PICK c \in 1 .. n :
         /\ c = i \/ (c <= n /\ c >= 2 /\ Parent(c) = i /\ Precedes(o, s.heap[c], s.heap[i]))
         /\ \A j \in 2 .. n : Parent(j) = i => ~Precedes(o, s.heap[j], s.heap[c])
         /\ r = [heap |-> Swap(s.heap, i, c), at |-> c]
         /\ r \in Turns(h)
  BY <1>1, SinkIs
<1>. DEFINE g == Swap(s.heap, i, c)
<1>3. r.heap = g /\ r.at = c
  BY <1>2
<1>. SUFFICES SinkInv(h, o, r, k + 1)
  OBVIOUS
<1>. HIDE DEF r, i
<1>4. /\ g \in Seq(QNodes) /\ Len(g) = n
      /\ \A j \in 1 .. n : g[j] = IF j = i THEN s.heap[c] ELSE IF j = c THEN s.heap[i] ELSE s.heap[j]
      /\ ToSet(g) = ToSet(h) /\ Distinct(g)
  <2>1. ToSet(s.heap) = ToSet(h) /\ Distinct(s.heap)
    BY DEF SinkInv
  <2>2. s.heap \in Seq(QNodes) /\ i \in 1 .. Len(s.heap) /\ c \in 1 .. Len(s.heap)
    BY <1>1
  <2>3. IsSwap(g, s.heap, i, c)
    BY <2>2, SwapIs
  <2>. HIDE DEF g
  <2>. QED
    BY <1>1, <2>1, <2>3 DEF IsSwap
<1>. HIDE DEF g
<1>5. \A x, y \in QNodes : ~(Precedes(o, x, y) /\ Precedes(o, y, x)) /\ ~Precedes(o, x, x)
  BY PrecedesIs
<1>6. \A j \in 2 .. n : Parent(j) \in 1 .. n /\ Parent(j) < j
  BY ParentIs
<1>7. /\ \A j \in 2 .. n : Parent(j) # i => ~Precedes(o, s.heap[j], s.heap[Parent(j)])
      /\ \A j \in 2 .. n : Parent(j) = i /\ i > 1 => ~Precedes(o, s.heap[j], s.heap[Parent(i)])
      /\ Ordered(s.heap, o) \/ i >= k + 1
  BY DEF SinkInv, i
<1>8. CASE c = i
  <2>1. \A j \in 1 .. n : g[j] = s.heap[j]
    BY <1>4, <1>8
  <2>2. ASSUME NEW j \in 2 .. n PROVE ~Precedes(o, g[j], g[Parent(j)])
    BY <1>2, <1>6, <1>7, <1>8, <2>1
  <2>3. Ordered(g, o)
    BY <1>4, <2>2 DEF Ordered
  <2>4. ASSUME NEW j \in 2 .. n, Parent(j) = c, c > 1 PROVE ~Precedes(o, g[j], g[Parent(c)])
    BY <1>6, <1>7, <1>8, <2>1, <2>4
  <2>. QED
    BY <1>2, <1>3, <1>4, <2>2, <2>3, <2>4 DEF SinkInv
<1>9. CASE c # i
  <2>1. c >= 2 /\ Parent(c) = i /\ i < c /\ Precedes(o, s.heap[c], s.heap[i])
    BY <1>2, <1>6, <1>9
  <2>2. ~Ordered(s.heap, o)
    BY <1>1, <2>1 DEF Ordered
  <2>3. c >= (k + 1) + 1
    BY <1>1, <1>7, <2>1, <2>2
  <2>4. ASSUME NEW j \in 2 .. n, Parent(j) # c PROVE ~Precedes(o, g[j], g[Parent(j)])
    <3>1. CASE j = c
      BY <1>1, <1>4, <1>5, <1>9, <2>1, <3>1
    <3>2. CASE j # c /\ Parent(j) = i
      <4>1. j # i
        BY <1>6, <3>2
      <4>2. g[j] = s.heap[j] /\ g[Parent(j)] = s.heap[c]
        BY <1>1, <1>4, <3>2, <4>1
      <4>. QED
        BY <1>2, <3>2, <4>2
    <3>3. CASE j = i
      <4>1. Parent(i) \in 1 .. n /\ Parent(i) # i /\ Parent(i) # c /\ i > 1
        BY <1>6, <2>1, <3>3
      <4>2. g[j] = s.heap[c] /\ g[Parent(j)] = s.heap[Parent(i)]
        BY <1>4, <3>3, <4>1
      <4>. QED
        BY <1>7, <2>1, <4>1, <4>2
    <3>4. CASE j # c /\ j # i /\ Parent(j) # i
      <4>1. g[j] = s.heap[j] /\ g[Parent(j)] = s.heap[Parent(j)]
        BY <1>4, <1>6, <2>4, <3>4
      <4>. QED
        BY <1>7, <3>4, <4>1
    <3>. QED
      BY <3>1, <3>2, <3>3, <3>4
  <2>5. ASSUME NEW j \in 2 .. n, Parent(j) = c PROVE ~Precedes(o, g[j], g[Parent(c)])
    <3>1. j # c /\ j # i
      BY <1>6, <2>1, <2>5
    <3>2. g[j] = s.heap[j] /\ g[Parent(c)] = s.heap[c]
      BY <1>1, <1>4, <2>1, <3>1
    <3>. QED
      BY <1>7, <1>9, <2>5, <3>2
  <2>. QED
    BY <1>2, <1>3, <1>4, <2>3, <2>4, <2>5 DEF SinkInv
<1>. QED
  BY <1>8, <1>9

(* A heap but for its root becomes a heap.                                 *)
LEMMA HeapifyIs ==
    ASSUME BufferAssumption, NEW o \in Counters, NEW n \in Nat \ {0}, NEW h \in Seq(QNodes), Len(h) = n,
           Distinct(h), \A j \in 2 .. n : Parent(j) # 1 => ~Precedes(o, h[j], h[Parent(j)])
    PROVE  /\ Heapify(h, o) \in Seq(QNodes) /\ Len(Heapify(h, o)) = n
           /\ ToSet(Heapify(h, o)) = ToSet(h) /\ Distinct(Heapify(h, o)) /\ Ordered(Heapify(h, o), o)
<1>. DEFINE t == Sinking(h, o)
            Kept == {k \in Nat : k <= n => SinkInv(h, o, t[k], k)}
<1>1. /\ t[0] = [heap |-> h, at |-> 1]
      /\ \A k \in 0 .. n : t[k] \in Turns(h)
      /\ \A k \in 0 .. n - 1 : t[k + 1] = Sink(t[k], o)
  BY SinkingIs
<1>. HIDE DEF t
<1>2. 0 \in Kept
  <2>1. 1 >= 0 + 1 /\ t[0].heap = h /\ t[0].at = 1 /\ t[0] \in Turns(h)
    BY <1>1
  <2>. QED
    BY <2>1 DEF SinkInv
<1>3. ASSUME NEW k \in Nat, k \in Kept PROVE k + 1 \in Kept
  <2>1. ASSUME k + 1 <= n PROVE SinkInv(h, o, t[k + 1], k + 1)
    <3>1. k \in 0 .. n - 1 /\ SinkInv(h, o, t[k], k)
      BY <1>3, <2>1
    <3>2. SinkInv(h, o, Sink(t[k], o), k + 1)
      BY <3>1, SinkKeeps
    <3>. QED
      BY <1>1, <3>1, <3>2
  <2>. QED
    BY <2>1
<1>4. SinkInv(h, o, t[n], n)
  <2>. HIDE DEF Kept
  <2>1. n \in Kept
    BY <1>2, <1>3, Induction
  <2>. QED
    BY <2>1 DEF Kept
<1>5. t[n] \in Turns(h) /\ Ordered(t[n].heap, o)
  BY <1>4 DEF SinkInv, Turns
<1>6. Heapify(h, o) = t[n].heap
  BY DEF Heapify, t
<1>. QED
  BY <1>4, <1>5, <1>6 DEF SinkInv, Turns

LEMMA HeapifyNothing == ASSUME NEW o PROVE Heapify(<<>>, o) = <<>>
<1>. DEFINE start == [heap |-> <<>>, at |-> 1]
            Body(g) == [k \in 0 .. 0 |-> IF k = 0 THEN start ELSE Sink(g[k - 1], o)]
            f == [k \in 0 .. 0 |-> start]
<1>1. f = Body(f)
  OBVIOUS
<1>2. Sinking(<<>>, o) = CHOOSE g : g = Body(g)
  <2>1. Len(<<>>) = 0
    OBVIOUS
  <2>. QED
    BY <2>1, Zenon DEF Sinking
<1>3. Sinking(<<>>, o) = Body(Sinking(<<>>, o))
  <2>. HIDE DEF Body, f
  <2>. QED
    BY <1>1, <1>2, Zenon
<1>4. Sinking(<<>>, o)[0] = start
  BY <1>3
<1>. QED
  BY <1>4 DEF Heapify

(* Pop takes the root, and leaves a heap of the others.                    *)
LEMMA HeapPopIs ==
    ASSUME BufferAssumption, NEW o \in Counters, NEW n \in Nat \ {0}, NEW h \in Seq(QNodes), Len(h) = n,
           Distinct(h), Ordered(h, o)
    PROVE  /\ HeapPop(h, o) \in Seq(QNodes) /\ Len(HeapPop(h, o)) = n - 1
           /\ ToSet(HeapPop(h, o)) = ToSet(h) \ {h[1]}
           /\ Distinct(HeapPop(h, o)) /\ Ordered(HeapPop(h, o), o)
<1>. DEFINE r == SubSeq([h EXCEPT ![1] = h[n]], 1, n - 1)
            g == [h EXCEPT ![1] = h[n]]
<1>1. g \in Seq(QNodes) /\ Len(g) = n /\ \A i \in 1 .. n : g[i] = IF i = 1 THEN h[n] ELSE h[i]
  OBVIOUS
<1>2. /\ r \in Seq(QNodes) /\ Len(r) = n - 1
      /\ \A i \in 1 .. n - 1 : r[i] = IF i = 1 THEN h[n] ELSE h[i]
  <2>. HIDE DEF g
  <2>1. /\ SubSeq(g, 1, n - 1) \in Seq(QNodes) /\ Len(SubSeq(g, 1, n - 1)) = n - 1
        /\ \A i \in 1 .. n - 1 : SubSeq(g, 1, n - 1)[i] = g[i]
    BY <1>1
  <2>. QED
    BY <1>1, <2>1 DEF g
<1>. HIDE DEF r, g
<1>3. HeapPop(h, o) = Heapify(r, o)
  BY DEF HeapPop, r
<1>4. Distinct(r)
  BY <1>2 DEF Distinct
<1>5. ToSet(r) = ToSet(h) \ {h[1]}
  <2>1. ToSet(r) = {r[i] : i \in 1 .. n - 1} /\ ToSet(h) = {h[i] : i \in 1 .. n}
    BY <1>2, ToSetIs
  <2>2. \A i \in 1 .. n - 1 : r[i] \in {h[j] : j \in 1 .. n} /\ r[i] # h[1]
    BY <1>2 DEF Distinct
  <2>3. ASSUME NEW i \in 2 .. n PROVE \E j \in 1 .. n - 1 : r[j] = h[i]
    <3>1. CASE i = n
      BY <1>2, <3>1
    <3>2. CASE i # n
      BY <1>2, <3>2
    <3>. QED
      BY <3>1, <3>2
  <2>4. {r[i] : i \in 1 .. n - 1} \subseteq {h[i] : i \in 1 .. n} \ {h[1]}
    BY <2>2
  <2>5. {h[i] : i \in 1 .. n} \ {h[1]} \subseteq {r[i] : i \in 1 .. n - 1}
    <3>. SUFFICES ASSUME NEW i \in 1 .. n, h[i] # h[1] PROVE h[i] \in {r[j] : j \in 1 .. n - 1}
      OBVIOUS
    <3>1. i \in 2 .. n
      OBVIOUS
    <3>. QED
      BY <2>3, <3>1
  <2>. QED
    BY <2>1, <2>4, <2>5
<1>6. CASE n = 1
  <2>1. r = <<>>
    BY <1>2, <1>6
  <2>2. HeapPop(h, o) = <<>>
    BY <1>3, <2>1, HeapifyNothing
  <2>. QED
    BY <1>2, <1>4, <1>5, <1>6, <2>1, <2>2 DEF Ordered
<1>7. CASE n # 1
  <2>1. n - 1 \in Nat \ {0}
    BY <1>7
  <2>2. ASSUME NEW j \in 2 .. n - 1, Parent(j) # 1 PROVE ~Precedes(o, r[j], r[Parent(j)])
    <3>1. Parent(j) \in 2 .. n - 1
      <4>1. j \in Nat /\ j >= 2 /\ j <= n - 1
        OBVIOUS
      <4>2. Parent(j) \in 1 .. j - 1
        BY <4>1, ParentIs
      <4>. QED
        BY <2>2, <4>1, <4>2
    <3>. QED
      BY <1>2, <3>1 DEF Ordered
  <2>. QED
    BY <1>2, <1>3, <1>4, <1>5, <2>1, <2>2, HeapifyIs
<1>. QED
  BY <1>6, <1>7

(* A new node climbs.  It is not in the array yet, but in the place of the *)
(* node above which it has climbed: with it there, all pairs are in order  *)
(* but the one of it and its parent.                                       *)
Rising(h)     == [heap : {g \in Seq(QNodes) : Len(g) = Len(h) + 1}, at : 1 .. Len(h) + 1]
View(s, node) == [s.heap EXCEPT ![s.at] = node]
Stopped(s, node) == s.at = 1 \/ node.value <= s.heap[Parent(s.at)].value

ClimbInv(h, o, node, s, k) ==
    LET v == View(s, node)
    IN  /\ s \in Rising(h) /\ ToSet(v) = ToSet(h) \cup {node} /\ Distinct(v)
        /\ \A j \in 2 .. Len(h) + 1 : j # s.at => ~Precedes(o, v[j], v[Parent(j)])
        /\ \A j \in 2 .. Len(h) + 1 : Parent(j) = s.at /\ s.at > 1 =>
              ~Precedes(o, v[j], v[Parent(s.at)])
        /\ Stopped(s, node) \/ s.at <= Len(h) + 1 - k

LEMMA ClimbType ==
    ASSUME BufferAssumption, NEW h \in Seq(QNodes), NEW node \in QNodes, NEW s \in Rising(h)
    PROVE  Climb(s, node) \in Rising(h)
<1>1. s.at \in 1 .. Len(h) + 1 /\ s.heap \in Seq(QNodes) /\ Len(s.heap) = Len(h) + 1 /\ Len(h) \in Nat
  BY DEF Rising
<1>2. CASE Stopped(s, node)
  BY <1>2 DEF Climb, Stopped
<1>3. CASE ~Stopped(s, node)
  <2>. DEFINE p == Parent(s.at)
              g == [s.heap EXCEPT ![s.at] = s.heap[p]]
  <2>1. p \in 1 .. Len(h) + 1
    <3>1. s.at \in Nat /\ s.at >= 2
      BY <1>1, <1>3 DEF Stopped
    <3>2. p \in 1 .. s.at - 1
      BY <3>1, ParentIs
    <3>. QED
      BY <1>1, <3>2
  <2>2. g \in Seq(QNodes) /\ Len(g) = Len(h) + 1
    BY <1>1, <2>1
  <2>3. Climb(s, node) = [heap |-> g, at |-> p]
    BY <1>3 DEF Climb, Stopped
  <2>. QED
    BY <2>1, <2>2, <2>3 DEF Rising
<1>. QED
  BY <1>2, <1>3

LEMMA ClimbKeeps ==
    ASSUME BufferAssumption, NEW o \in Counters, NEW h \in Seq(QNodes), NEW node \in QNodes,
           NEW s, NEW k \in Nat, ClimbInv(h, o, node, s, k)
    PROVE  ClimbInv(h, o, node, Climb(s, node), k + 1)
<1>. DEFINE n == Len(h) + 1
            i == s.at
            v == View(s, node)
            p == Parent(i)
<1>1. /\ i \in 1 .. n /\ s.heap \in Seq(QNodes) /\ Len(s.heap) = n /\ n \in Nat /\ s \in Rising(h)
      /\ \A j \in 1 .. n : s.heap[j] \in QNodes
  BY DEF Rising, ClimbInv
<1>2. CASE Stopped(s, node)
  <2>1. Climb(s, node) = s
    BY <1>2 DEF Climb, Stopped
  <2>. QED
    BY <1>2, <2>1 DEF ClimbInv
<1>3. CASE ~Stopped(s, node)
  <2>. DEFINE g == [s.heap EXCEPT ![i] = s.heap[p]]
              r == [heap |-> g, at |-> p]
              w == View(r, node)
  <2>1. p \in 1 .. n /\ p < i /\ i > 1
    <3>1. i \in Nat /\ i >= 2
      BY <1>1, <1>3 DEF Stopped
    <3>2. p \in 1 .. i - 1
      BY <3>1, ParentIs
    <3>. QED
      BY <1>1, <3>1, <3>2
  <2>2. Climb(s, node) = r /\ r \in Rising(h)
    <3>1. Climb(s, node) = r
      BY <1>3 DEF Climb, Stopped
    <3>. QED
      BY <1>1, <3>1, ClimbType
  <2>3. /\ v \in Seq(QNodes) /\ Len(v) = n
        /\ \A j \in 1 .. n : v[j] = IF j = i THEN node ELSE s.heap[j]
    BY <1>1 DEF View
  <2>4. w = Swap(v, i, p)
    BY <1>1, <2>1 DEF View, Swap
  <2>. HIDE DEF v, w
  <2>5. /\ w \in Seq(QNodes) /\ Len(w) = n
        /\ \A j \in 1 .. n : w[j] = IF j = i THEN v[p] ELSE IF j = p THEN v[i] ELSE v[j]
        /\ ToSet(w) = ToSet(h) \cup {node} /\ Distinct(w)
    <3>1. ToSet(v) = ToSet(h) \cup {node} /\ Distinct(v)
      BY DEF ClimbInv, v
    <3>2. v \in Seq(QNodes) /\ Len(v) = n /\ i \in 1 .. Len(v) /\ p \in 1 .. Len(v)
      BY <1>1, <2>1, <2>3
    <3>3. IsSwap(w, v, i, p)
      BY <2>4, <3>2, SwapIs
    <3>. HIDE DEF i, p, n, g, r
    <3>. QED
      BY <3>1, <3>2, <3>3 DEF IsSwap
  <2>6. /\ \A j \in 2 .. n : j # i => ~Precedes(o, v[j], v[Parent(j)])
        /\ \A j \in 2 .. n : Parent(j) = i => ~Precedes(o, v[j], v[p])
        /\ i <= n - k
    BY <1>3, <2>1 DEF ClimbInv, v
  <2>7. \A j \in 2 .. n : Parent(j) \in 1 .. n /\ Parent(j) < j
    BY ParentIs
  <2>8. Precedes(o, node, v[p]) /\ v[i] = node
    <3>1. node.value > v[p].value
      <4>1. ~(node.value <= s.heap[p].value)
        BY <1>3 DEF Stopped
      <4>2. v[p] = s.heap[p] /\ s.heap[p] \in QNodes
        BY <1>1, <2>1, <2>3
      <4>3. s.heap[p].value \in Int /\ node.value \in Int
        BY <4>2 DEF QNodes
      <4>. QED
        BY <4>1, <4>2, <4>3
    <3>. QED
      BY <1>1, <2>3, <3>1 DEF Precedes
  <2>9. \A x, y, z \in QNodes : /\ ~(Precedes(o, x, y) /\ Precedes(o, y, x))
                                /\ ~Precedes(o, y, x) /\ ~Precedes(o, z, y) => ~Precedes(o, z, x)
    BY PrecedesIs
  <2>10. \A j \in 1 .. n : v[j] \in QNodes
    BY <2>3
  <2>11. ASSUME NEW j \in 2 .. n, j # p PROVE ~Precedes(o, w[j], w[Parent(j)])
    <3>1. CASE j = i
      BY <1>1, <2>1, <2>5, <2>8, <2>9, <2>10, <3>1
    <3>2. CASE j # i /\ Parent(j) = i
      <4>1. w[j] = v[j] /\ w[Parent(j)] = v[p]
        BY <1>1, <2>1, <2>5, <2>11, <3>2
      <4>. QED
        BY <2>6, <3>2, <4>1
    <3>3. CASE j # i /\ Parent(j) = p
      <4>1. w[j] = v[j] /\ w[Parent(j)] = v[i]
        BY <1>1, <2>1, <2>5, <2>11, <3>3
      <4>2. ~Precedes(o, v[j], v[p]) /\ ~Precedes(o, v[p], v[i])
        BY <1>1, <2>1, <2>6, <2>8, <2>9, <2>10, <3>3
      <4>. QED
        BY <1>1, <2>1, <2>9, <2>10, <4>1, <4>2
    <3>4. CASE j # i /\ Parent(j) # i /\ Parent(j) # p
      <4>1. w[j] = v[j] /\ w[Parent(j)] = v[Parent(j)]
        BY <2>5, <2>7, <2>11, <3>4
      <4>. QED
        BY <2>6, <3>4, <4>1
    <3>. QED
      BY <3>1, <3>2, <3>3, <3>4
  <2>12. ASSUME NEW j \in 2 .. n, Parent(j) = p, p > 1 PROVE ~Precedes(o, w[j], w[Parent(p)])
    <3>1. Parent(p) \in 1 .. n /\ Parent(p) < p
      BY <2>1, <2>7, <2>12
    <3>2. w[Parent(p)] = v[Parent(p)] /\ ~Precedes(o, v[p], v[Parent(p)])
      BY <2>1, <2>5, <2>6, <2>12, <3>1
    <3>3. CASE j = i
      BY <1>1, <2>5, <3>2, <3>3
    <3>4. CASE j # i
      <4>1. w[j] = v[j] /\ ~Precedes(o, v[j], v[p])
        BY <2>5, <2>6, <2>7, <2>12, <3>4
      <4>. QED
        BY <2>1, <2>9, <2>10, <3>1, <3>2, <4>1
    <3>. QED
      BY <3>3, <3>4
  <2>13. p <= n - (k + 1)
    BY <1>1, <2>1, <2>6
  <2>14. ClimbInv(h, o, node, r, k + 1)
    <3>1. r.at = p
      OBVIOUS
    <3>. HIDE DEF r, p
    <3>. QED
      BY <2>2, <2>5, <2>11, <2>12, <2>13, <3>1 DEF ClimbInv, w
  <2>. QED
    BY <2>2, <2>14
<1>. QED
  BY <1>2, <1>3

LEMMA ClimbingIs ==
    ASSUME BufferAssumption, NEW h \in Seq(QNodes), NEW node \in QNodes
    PROVE  /\ Climbing(h, node)[0] = [heap |-> Append(h, node), at |-> Len(h) + 1]
           /\ \A k \in 0 .. Len(h) : Climbing(h, node)[k] \in Rising(h)
           /\ \A k \in 0 .. Len(h) - 1 : Climbing(h, node)[k + 1] = Climb(Climbing(h, node)[k], node)
<1>. DEFINE n == Len(h)
            start == [heap |-> Append(h, node), at |-> Len(h) + 1]
            S == Rising(h)
            F == [s \in S |-> Climb(s, node)]
            Body(g) == [k \in 0 .. Len(h) |-> IF k = 0 THEN start ELSE Climb(g[k - 1], node)]
<1>1. start \in S /\ n \in Nat
  BY DEF Rising
<1>2. F \in [S -> S]
  BY ClimbType
<1>3. PICK g : g \in [0 .. n -> S] /\ g[0] = start /\ \A k \in 0 .. n - 1 : g[k + 1] = F[g[k]]
  <2>. HIDE DEF F, S, start, n
  <2>1. \E g : Iterates(g, n, S, start, F)
    BY <1>1, <1>2, Iteration
  <2>. QED
    BY <2>1 DEF Iterates
<1>. HIDE DEF S, start
<1>4. g = Body(g)
  <2>1. ASSUME NEW k \in 0 .. n PROVE g[k] = IF k = 0 THEN start ELSE Climb(g[k - 1], node)
    <3>1. CASE k = 0
      BY <1>3, <3>1
    <3>2. CASE k # 0
      <4>1. k - 1 \in 0 .. n - 1 /\ g[k - 1] \in S /\ (k - 1) + 1 = k
        BY <1>1, <1>3, <3>2
      <4>2. g[(k - 1) + 1] = F[g[k - 1]]
        BY <1>3, <4>1, Zenon
      <4>3. F[g[k - 1]] = Climb(g[k - 1], node)
        BY <4>1
      <4>. QED
        BY <3>2, <4>1, <4>2, <4>3
    <3>. QED
      BY <3>1, <3>2
  <2>2. \A k \in 0 .. n : g[k] = Body(g)[k]
    BY <2>1
  <2>3. DOMAIN g = 0 .. n /\ g = [k \in 0 .. n |-> g[k]]
    BY <1>3, Zenon
  <2>. QED
    BY <2>2, <2>3
<1>5. Climbing(h, node) = CHOOSE f : f = Body(f)
  BY DEF Climbing, start
<1>6. Climbing(h, node) = Body(Climbing(h, node))
  <2>. HIDE DEF Body
  <2>. QED
    BY <1>4, <1>5, Zenon
<1>. DEFINE t == Climbing(h, node)
<1>. HIDE DEF t, n
<1>7. t = [k \in 0 .. n |-> IF k = 0 THEN start ELSE Climb(t[k - 1], node)]
  BY <1>6 DEF t, n
<1>8. t[0] = start
  BY <1>1, <1>7
<1>9. ASSUME NEW k \in 0 .. n - 1 PROVE t[k + 1] = Climb(t[k], node)
  <2>1. k + 1 \in 0 .. n /\ k + 1 # 0 /\ (k + 1) - 1 = k
    BY <1>1
  <2>2. t[k + 1] = IF k + 1 = 0 THEN start ELSE Climb(t[(k + 1) - 1], node)
    BY <1>7, <2>1, Zenon
  <2>. QED
    BY <2>1, <2>2
<1>10. \A k \in 0 .. n : t[k] \in S
  <2>. DEFINE Typed == {k \in Nat : k <= n => t[k] \in S}
  <2>1. 0 \in Typed
    BY <1>1, <1>8
  <2>2. ASSUME NEW k \in Nat, k \in Typed PROVE k + 1 \in Typed
    <3>1. CASE k + 1 <= n
      <4>1. k \in 0 .. n - 1 /\ t[k] \in S
        BY <1>1, <2>2, <3>1
      <4>2. Climb(t[k], node) \in S
        BY <4>1, ClimbType DEF S
      <4>. QED
        BY <1>9, <4>1, <4>2
    <3>. QED
      BY <3>1
  <2>. HIDE DEF Typed
  <2>3. \A k \in Nat : k \in Typed
    BY <2>1, <2>2, Induction
  <2>. QED
    BY <1>1, <2>3 DEF Typed
<1>. QED
  BY <1>8, <1>9, <1>10 DEF t, S, start, n

(* Push adds a node that is not older than any other, and keeps a heap.    *)
LEMMA HeapPushIs ==
    ASSUME BufferAssumption, NEW o \in Counters, NEW h \in Seq(QNodes), NEW node \in QNodes,
           Distinct(h), Ordered(h, o), node \notin ToSet(h),
           \A x \in ToSet(h) : Age(o, node) <= Age(o, x)
    PROVE  /\ HeapPush(h, node) \in Seq(QNodes) /\ Len(HeapPush(h, node)) = Len(h) + 1
           /\ ToSet(HeapPush(h, node)) = ToSet(h) \cup {node}
           /\ Distinct(HeapPush(h, node)) /\ Ordered(HeapPush(h, node), o)
<1>. DEFINE t == Climbing(h, node)
            n == Len(h)
            Kept == {k \in Nat : k <= n => ClimbInv(h, o, node, t[k], k)}
<1>1. /\ t[0] = [heap |-> Append(h, node), at |-> n + 1] /\ n \in Nat
      /\ \A k \in 0 .. n : t[k] \in Rising(h)
      /\ \A k \in 0 .. n - 1 : t[k + 1] = Climb(t[k], node)
  BY ClimbingIs
<1>. HIDE DEF t
<1>2. 0 \in Kept
  <2>. DEFINE s == t[0]
              v == View(s, node)
  <2>1. s.heap = Append(h, node) /\ s.at = n + 1 /\ s \in Rising(h)
    BY <1>1
  <2>2. v \in Seq(QNodes) /\ Len(v) = n + 1 /\ \A j \in 1 .. n + 1 : v[j] = IF j = n + 1 THEN node ELSE h[j]
    <3>. DEFINE a == Append(h, node)
    <3>1. v = [a EXCEPT ![n + 1] = node]
      BY <2>1 DEF View
    <3>2. a \in Seq(QNodes) /\ Len(a) = n + 1 /\ \A j \in 1 .. n : a[j] = h[j]
      OBVIOUS
    <3>. HIDE DEF v, a, n
    <3>3. n + 1 \in 1 .. Len(a)
      BY <1>1, <3>2
    <3>4. v \in Seq(QNodes) /\ Len(v) = n + 1
      BY <3>1, <3>2, <3>3
    <3>. QED
      BY <1>1, <3>1, <3>2, <3>3, <3>4
  <2>. HIDE DEF v, s
  <2>3. ToSet(v) = ToSet(h) \cup {node}
    <3>1. ToSet(v) = {v[i] : i \in 1 .. n + 1} /\ ToSet(h) = {h[i] : i \in 1 .. n}
      BY <2>2, ToSetIs
    <3>2. {v[i] : i \in 1 .. n + 1} = {h[i] : i \in 1 .. n} \cup {node}
      <4>1. v[n + 1] = node /\ n + 1 \in 1 .. n + 1 /\ \A i \in 1 .. n : v[i] = h[i] /\ i \in 1 .. n + 1
        BY <1>1, <2>2
      <4>2. \A i \in 1 .. n + 1 : i = n + 1 \/ i \in 1 .. n
        BY <1>1
      <4>. QED
        BY <4>1, <4>2
    <3>. QED
      BY <3>1, <3>2
  <2>4. Distinct(v)
    <3>1. \A i \in 1 .. n : h[i] # node
      BY ToSetIs
    <3>. QED
      BY <2>2, <3>1 DEF Distinct
  <2>5. ASSUME NEW j \in 2 .. n + 1, j # n + 1 PROVE ~Precedes(o, v[j], v[Parent(j)])
    <3>1. j \in 2 .. n /\ Parent(j) \in 1 .. n
      <4>1. Parent(j) \in 1 .. j - 1 /\ j \in 2 .. n
        BY <1>1, <2>5, ParentIs
      <4>. QED
        BY <1>1, <4>1
    <3>2. ~Precedes(o, h[j], h[Parent(j)])
      BY <3>1 DEF Ordered
    <3>3. v[j] = h[j] /\ v[Parent(j)] = h[Parent(j)]
      BY <1>1, <2>2, <3>1
    <3>. QED
      BY <3>2, <3>3
  <2>6. ASSUME NEW j \in 2 .. n + 1 PROVE Parent(j) # n + 1
    BY <1>1, ParentIs
  <2>7. ClimbInv(h, o, node, s, 0)
    <3>1. s.at <= n + 1 - 0
      BY <1>1, <2>1
    <3>. QED
      BY <2>1, <2>3, <2>4, <2>5, <2>6, <3>1 DEF ClimbInv, v
  <2>. QED
    BY <2>7 DEF s
<1>3. ASSUME NEW k \in Nat, k \in Kept PROVE k + 1 \in Kept
  <2>1. ASSUME k + 1 <= n PROVE ClimbInv(h, o, node, t[k + 1], k + 1)
    <3>1. k \in 0 .. n - 1 /\ ClimbInv(h, o, node, t[k], k)
      BY <1>1, <1>3, <2>1
    <3>2. ClimbInv(h, o, node, Climb(t[k], node), k + 1)
      BY <3>1, ClimbKeeps
    <3>. QED
      BY <1>1, <3>1, <3>2
  <2>. QED
    BY <2>1
<1>. DEFINE s == t[n]
            v == View(s, node)
<1>4. ClimbInv(h, o, node, s, n)
  <2>. HIDE DEF Kept
  <2>1. n \in Kept
    BY <1>1, <1>2, <1>3, Induction
  <2>. QED
    BY <1>1, <2>1 DEF Kept
<1>5. HeapPush(h, node) = v
  BY DEF HeapPush, View, t
<1>6. /\ s.at \in 1 .. n + 1 /\ s.heap \in Seq(QNodes) /\ Len(s.heap) = n + 1
      /\ v \in Seq(QNodes) /\ Len(v) = n + 1
      /\ \A j \in 1 .. n + 1 : v[j] = IF j = s.at THEN node ELSE s.heap[j]
  BY <1>1 DEF Rising, View
<1>. HIDE DEF s, v, n
<1>7. Stopped(s, node)
  BY <1>1, <1>4, <1>6 DEF ClimbInv, Stopped, n
<1>8. /\ ToSet(v) = ToSet(h) \cup {node} /\ Distinct(v)
      /\ \A j \in 2 .. n + 1 : j # s.at => ~Precedes(o, v[j], v[Parent(j)])
  BY <1>4 DEF ClimbInv, v, n
<1>9. ASSUME NEW j \in 2 .. n + 1, j = s.at PROVE ~Precedes(o, v[j], v[Parent(j)])
  <2>1. Parent(j) \in 1 .. n + 1 /\ Parent(j) # j
    BY <1>1, ParentIs
  <2>. DEFINE x == s.heap[Parent(j)]
  <2>2. v[j] = node /\ v[Parent(j)] = x /\ node.value <= x.value /\ x \in QNodes
    BY <1>6, <1>7, <1>9, <2>1 DEF Stopped
  <2>3. x \in ToSet(h) \cup {node}
    <3>1. v[Parent(j)] \in ToSet(v)
      BY <1>1, <1>6, <2>1, ToSetIs
    <3>. QED
      BY <1>8, <2>2, <3>1
  <2>4. Age(o, node) <= Age(o, x) /\ Age(o, node) \in Int /\ Age(o, x) \in Int
    BY <2>2, <2>3, AgeType DEF Counters
  <2>5. node.value \in Int /\ x.value \in Int
    BY <2>2 DEF QNodes
  <2>. HIDE DEF x
  <2>. QED
    BY <2>2, <2>4, <2>5 DEF Precedes
<1>10. Ordered(v, o)
  BY <1>6, <1>8, <1>9 DEF Ordered
<1>. QED
  BY <1>5, <1>6, <1>8, <1>10 DEF n

(* The root of a heap precedes all other nodes.                            *)
LEMMA RootFirst ==
    ASSUME BufferAssumption, NEW o \in Counters, NEW h \in Seq(QNodes), Ordered(h, o),
           NEW j \in 1 .. Len(h)
    PROVE  ~Precedes(o, h[j], h[1])
<1>. DEFINE Bad == {k \in Nat : k \in 1 .. Len(h) /\ Precedes(o, h[k], h[1])}
<1>1. \A k \in 1 .. Len(h) : h[k] \in QNodes
  OBVIOUS
<1>2. \A x, y, z \in QNodes : /\ ~Precedes(o, x, x)
                              /\ ~Precedes(o, y, x) /\ ~Precedes(o, z, y) => ~Precedes(o, z, x)
  BY PrecedesIs
<1>3. ASSUME Bad # {} PROVE FALSE
  <2>1. PICK k \in Bad : \A m \in Bad : k <= m
    <3>1. Bad \in SUBSET Nat
      OBVIOUS
    <3>. HIDE DEF Bad
    <3>. QED
      BY <1>3, <3>1, HasLeast
  <2>2. k \in 2 .. Len(h)
    BY <1>1, <1>2
  <2>3. Parent(k) \in 1 .. k - 1
    BY <2>2, ParentIs
  <2>4. ~Precedes(o, h[Parent(k)], h[1])
    BY <2>1, <2>2, <2>3
  <2>5. ~Precedes(o, h[k], h[Parent(k)])
    BY <2>2 DEF Ordered
  <2>6. h[1] \in QNodes /\ h[Parent(k)] \in QNodes /\ h[k] \in QNodes
    BY <1>1, <2>2, <2>3
  <2>7. ~Precedes(o, h[k], h[1])
    <3>. HIDE DEF Bad
    <3>. QED
      BY <1>2, <2>4, <2>5, <2>6
  <2>. QED
    BY <2>1, <2>7
<1>. QED
  BY <1>3

-----------------------------------------------------------------------------
(* A finite set of nodes of different ages, listed in their order: the k'th *)
(* is the one with k - 1 nodes before it.                                  *)
Aged(N, o) == /\ N \subseteq QNodes /\ IsFiniteSet(N)
              /\ \A x, y \in N : Age(o, x) = Age(o, y) => x = y
Before(N, o, x) == {y \in N : Precedes(o, y, x)}
Place(N, o, k)  == CHOOSE x \in N : Cardinality(Before(N, o, x)) = k - 1

LEMMA RankIs ==
    ASSUME BufferAssumption, NEW o \in Counters, NEW N, Aged(N, o), NEW x \in QNodes
    PROVE  /\ IsFiniteSet(Before(N, o, x)) /\ Before(N, o, x) \subseteq N
           /\ Cardinality(Before(N, o, x)) \in 0 .. Cardinality(N)
           /\ x \in N => Cardinality(Before(N, o, x)) \in 0 .. Cardinality(N) - 1
<1>. DEFINE B == Before(N, o, x)
<1>1. B \in SUBSET N /\ IsFiniteSet(N)
  BY DEF Before, Aged
<1>2. x \notin B
  BY PrecedesIs DEF Before
<1>. HIDE DEF B
<1>3. IsFiniteSet(B) /\ Cardinality(B) <= Cardinality(N) /\ (Cardinality(N) = Cardinality(B) => N = B)
  BY <1>1, FS_Subset
<1>4. Cardinality(B) \in Nat /\ Cardinality(N) \in Nat
  BY <1>1, <1>3, FS_CardinalityType
<1>. QED
  BY <1>1, <1>2, <1>3, <1>4 DEF B

LEMMA RankGrows ==
    ASSUME BufferAssumption, NEW o \in Counters, NEW N, Aged(N, o), NEW x \in N, NEW y \in QNodes,
           Precedes(o, x, y)
    PROVE  Cardinality(Before(N, o, x)) < Cardinality(Before(N, o, y))
<1>. DEFINE A == Before(N, o, x)
            B == Before(N, o, y)
<1>1. x \in QNodes /\ \A z \in N : z \in QNodes
  BY DEF Aged
<1>2. A \in SUBSET B
  BY <1>1, PrecedesIs DEF Before
<1>3. x \in B /\ x \notin A
  BY <1>1, PrecedesIs DEF Before
<1>4. IsFiniteSet(A) /\ IsFiniteSet(B)
  BY <1>1, RankIs
<1>. HIDE DEF A, B
<1>5. Cardinality(A) <= Cardinality(B) /\ (Cardinality(B) = Cardinality(A) => B = A)
  BY <1>2, <1>4, FS_Subset
<1>6. Cardinality(A) \in Nat /\ Cardinality(B) \in Nat
  BY <1>4, FS_CardinalityType
<1>. QED
  BY <1>3, <1>5, <1>6 DEF A, B

LEMMA AgedTotal ==
    ASSUME BufferAssumption, NEW o \in Counters, NEW N, Aged(N, o), NEW x \in N, NEW y \in N, x # y
    PROVE  Precedes(o, x, y) \/ Precedes(o, y, x)
<1>1. x \in QNodes /\ y \in QNodes /\ Age(o, x) # Age(o, y)
  BY DEF Aged
<1>. QED
  BY <1>1, PrecedesIs

LEMMA PlaceIs ==
    ASSUME BufferAssumption, NEW o \in Counters, NEW N, Aged(N, o)
    PROVE  /\ Cardinality(N) \in Nat
           /\ \A k \in 1 .. Cardinality(N) : Place(N, o, k) \in N
                                             /\ Cardinality(Before(N, o, Place(N, o, k))) = k - 1
           /\ \A x \in N, k \in Int : Cardinality(Before(N, o, x)) = k - 1 => Place(N, o, k) = x
<1>. DEFINE Rank(x) == Cardinality(Before(N, o, x))
            n == Cardinality(N)
            f == [x \in N |-> Rank(x)]
<1>1. IsFiniteSet(N) /\ n \in Nat /\ \A x \in N : x \in QNodes
  BY FS_CardinalityType DEF Aged
<1>2. \A x \in N : Rank(x) \in 0 .. n - 1
  BY <1>1, RankIs
<1>3. ASSUME NEW x \in N, NEW y \in N, Rank(x) = Rank(y) PROVE x = y
  <2>1. ~(Rank(x) < Rank(y)) /\ ~(Rank(y) < Rank(x))
    BY <1>2, <1>3
  <2>2. ~Precedes(o, x, y) /\ ~Precedes(o, y, x)
    BY <1>1, <2>1, RankGrows
  <2>. QED
    BY <2>2, AgedTotal
<1>4. f \in Injection(N, 0 .. n - 1)
  <2>1. f \in [N -> 0 .. n - 1]
    BY <1>2
  <2>2. IsInjective(f)
    BY <1>3 DEF IsInjective
  <2>. QED
    BY <2>1, <2>2 DEF Injection
<1>5. f \in Surjection(N, 0 .. n - 1)
  <2>1. IsFiniteSet(0 .. n - 1) /\ Cardinality(0 .. n - 1) = n
    <3>1. /\ IsFiniteSet(0 .. n - 1)
          /\ Cardinality(0 .. n - 1) = IF 0 > n - 1 THEN 0 ELSE (n - 1) - 0 + 1
      BY <1>1, FS_Interval
    <3>. QED
      BY <1>1, <3>1
  <2>. HIDE DEF f
  <2>2. Cardinality(N) = Cardinality(0 .. n - 1) <=> f \in Surjection(N, 0 .. n - 1)
    BY <1>4, <2>1, FS_Injection
  <2>. QED
    BY <2>1, <2>2
<1>6. ASSUME NEW k \in 1 .. n PROVE \E x \in N : Rank(x) = k - 1
  <2>1. k - 1 \in 0 .. n - 1
    BY <1>1
  <2>2. \E x \in N : f[x] = k - 1
    <3>. HIDE DEF f
    <3>. QED
      BY <1>5, <2>1 DEF Surjection
  <2>. QED
    BY <2>2
<1>. QED
  BY <1>1, <1>3, <1>6 DEF Place

(* The order of the nodes is all that counts.                              *)
LEMMA SamePlaces ==
    ASSUME NEW o, NEW p, NEW N, \A x, y \in N : (Precedes(o, x, y) <=> Precedes(p, x, y)), NEW k
    PROVE  Place(N, o, k) = Place(N, p, k)
<1>1. \A x \in N : Before(N, o, x) = Before(N, p, x)
  BY DEF Before
<1>. QED
  BY <1>1 DEF Place

(* Without the first node the others are one place further in front.       *)
LEMMA FirstPlace ==
    ASSUME BufferAssumption, NEW o \in Counters, NEW N, Aged(N, o), NEW z \in N,
           \A x \in N : ~Precedes(o, x, z)
    PROVE  /\ Aged(N \ {z}, o) /\ Cardinality(N \ {z}) = Cardinality(N) - 1
           /\ Place(N, o, 1) = z
           /\ \A k \in 1 .. Cardinality(N) - 1 : Place(N \ {z}, o, k) = Place(N, o, k + 1)
<1>. DEFINE M == N \ {z}
            n == Cardinality(N)
<1>1. Aged(M, o) /\ Cardinality(M) = n - 1 /\ n \in Nat /\ IsFiniteSet(N)
  BY FS_RemoveElement, FS_CardinalityType DEF Aged
<1>2. Place(N, o, 1) = z
  <2>1. Before(N, o, z) = {}
    BY DEF Before
  <2>2. Cardinality(Before(N, o, z)) = 1 - 1
    BY <2>1, FS_EmptySet
  <2>. QED
    BY <2>2, PlaceIs
<1>3. ASSUME NEW k \in 1 .. n - 1 PROVE Place(M, o, k) = Place(N, o, k + 1)
  <2>. DEFINE x == Place(M, o, k)
  <2>1. x \in M /\ Cardinality(Before(M, o, x)) = k - 1
    BY <1>1, <1>3, PlaceIs
  <2>. HIDE DEF x
  <2>2. Precedes(o, z, x)
    BY <2>1, AgedTotal
  <2>3. x \in QNodes /\ IsFiniteSet(Before(M, o, x))
    <3>1. x \in QNodes
      BY <2>1 DEF Aged
    <3>. QED
      BY <1>1, <3>1, RankIs
  <2>4. Before(N, o, x) = Before(M, o, x) \cup {z} /\ z \notin Before(M, o, x)
    BY <2>2 DEF Before
  <2>5. Cardinality(Before(N, o, x)) = (k - 1) + 1
    BY <2>1, <2>3, <2>4, FS_AddElement
  <2>6. Cardinality(Before(N, o, x)) = (k + 1) - 1 /\ k + 1 \in Int /\ x \in N
    BY <2>1, <2>5
  <2>. QED
    BY <2>6, PlaceIs DEF x
<1>. QED
  BY <1>1, <1>2, <1>3

(* A new node takes its place, and those behind it one place further back. *)
Takes(N, o, z, k) ==
    /\ k \in 0 .. Cardinality(N)
    /\ \A i \in 1 .. k : Place(N \cup {z}, o, i) = Place(N, o, i) /\ Precedes(o, Place(N, o, i), z)
    /\ Place(N \cup {z}, o, k + 1) = z
    /\ \A i \in k + 1 .. Cardinality(N) :
          Place(N \cup {z}, o, i + 1) = Place(N, o, i) /\ Precedes(o, z, Place(N, o, i))

LEMMA NewPlace ==
    ASSUME BufferAssumption, NEW o \in Counters, NEW N, NEW z \in QNodes, z \notin N,
           Aged(N \cup {z}, o)
    PROVE  Takes(N, o, z, Cardinality(Before(N, o, z)))
<1>. DEFINE k == Cardinality(Before(N, o, z))
<1>. DEFINE M == N \cup {z}
            n == Cardinality(N)
<1>1. IsFiniteSet(N)
  <2>1. IsFiniteSet(M) /\ N \in SUBSET M
    BY DEF Aged
  <2>. QED
    BY <2>1, FS_Subset
<1>2. Aged(N, o) /\ Cardinality(M) = n + 1 /\ n \in Nat
  <2>1. Aged(N, o)
    BY <1>1 DEF Aged
  <2>. QED
    BY <1>1, <2>1, FS_AddElement, FS_CardinalityType
<1>3. k \in 0 .. n
  BY <1>2, RankIs
<1>. HIDE DEF n
<1>4. ~Precedes(o, z, z)
  BY PrecedesIs
<1>5. Place(M, o, k + 1) = z
  <2>1. Before(M, o, z) = Before(N, o, z)
    BY <1>4 DEF Before
  <2>2. z \in M /\ k + 1 \in Int /\ Cardinality(Before(M, o, z)) = (k + 1) - 1
    BY <1>3, <2>1
  <2>. QED
    BY <2>2, PlaceIs
<1>6. ASSUME NEW i \in 1 .. n
      PROVE  /\ i <= k => Place(M, o, i) = Place(N, o, i) /\ Precedes(o, Place(N, o, i), z)
             /\ i > k => Place(M, o, i + 1) = Place(N, o, i) /\ Precedes(o, z, Place(N, o, i))
  <2>. DEFINE x == Place(N, o, i)
  <2>1. x \in N /\ Cardinality(Before(N, o, x)) = i - 1
    BY <1>2, <1>6, PlaceIs DEF n
  <2>. HIDE DEF x
  <2>2. x \in M /\ x # z /\ x \in QNodes
    BY <1>2, <2>1 DEF Aged
  <2>3. IsFiniteSet(Before(N, o, x))
    BY <1>2, <2>2, RankIs
  <2>4. z \in M
    OBVIOUS
  <2>5. Precedes(o, x, z) \/ Precedes(o, z, x)
    BY <2>2, <2>4, AgedTotal
  <2>6. CASE Precedes(o, x, z)
    <3>1. Cardinality(Before(N, o, x)) < Cardinality(Before(N, o, z))
      BY <1>2, <2>1, <2>6, RankGrows
    <3>2. i <= k /\ ~(i > k)
      BY <1>2, <1>3, <2>1, <3>1 DEF n
    <3>3. ~Precedes(o, z, x)
      BY <2>2, <2>6, PrecedesIs
    <3>4. Before(M, o, x) = Before(N, o, x)
      BY <3>3 DEF Before
    <3>5. Place(M, o, i) = x
      BY <2>1, <2>2, <3>4, PlaceIs
    <3>. QED
      BY <2>6, <3>2, <3>5 DEF x
  <2>7. CASE Precedes(o, z, x)
    <3>1. Before(M, o, x) = Before(N, o, x) \cup {z} /\ z \notin Before(N, o, x)
      BY <2>7 DEF Before
    <3>2. Cardinality(Before(M, o, x)) = (i - 1) + 1
      BY <2>1, <2>3, <3>1, FS_AddElement
    <3>3. Cardinality(Before(M, o, x)) = (i + 1) - 1 /\ i + 1 \in Int
      BY <3>2
    <3>4. Place(M, o, i + 1) = x
      BY <2>2, <3>3, PlaceIs
    <3>5. Cardinality(Before(M, o, z)) < Cardinality(Before(M, o, x))
      BY <2>2, <2>4, <2>7, RankGrows
    <3>6. Before(M, o, z) = Before(N, o, z)
      BY <1>4 DEF Before
    <3>7. i > k /\ ~(i <= k)
      BY <1>2, <1>3, <3>2, <3>5, <3>6 DEF n
    <3>. QED
      BY <2>7, <3>4, <3>7 DEF x
  <2>. QED
    BY <2>5, <2>6, <2>7
<1>. QED
  BY <1>2, <1>3, <1>5, <1>6 DEF n, Takes

-----------------------------------------------------------------------------
(* A push makes all nodes one push older, and their order is the same.     *)
LEMMA AgeIs ==
    ASSUME BufferAssumption, NEW o \in Counters, NEW x \in QNodes
    PROVE  Age(o, x) = IF o >= x.order THEN o - x.order ELSE o - x.order + OrderMod
<1>1. OrderMod \in Nat \ {0} /\ o \in 0 .. OrderMod - 1 /\ x.order \in 0 .. OrderMod - 1
  BY DEF BufferAssumption, Counters, QNodes
<1>. DEFINE d == o - x.order
<1>2. CASE o >= x.order
  <2>1. d \in 0 .. OrderMod - 1 /\ d = 0 * OrderMod + d
    BY <1>1, <1>2
  <2>. HIDE DEF d
  <2>2. d % OrderMod = d
    BY <1>1, <2>1, RemainderIs
  <2>. QED
    BY <1>2, <2>2 DEF d, Age
<1>3. CASE ~(o >= x.order)
  <2>. DEFINE e == d + OrderMod
  <2>1. e \in 0 .. OrderMod - 1 /\ d = (-1) * OrderMod + e
    BY <1>1, <1>3
  <2>. HIDE DEF d, e
  <2>2. ((-1) * OrderMod + e) % OrderMod = e
    BY <1>1, <2>1, RemainderIs
  <2>. QED
    BY <1>3, <2>1, <2>2 DEF d, e, Age
<1>. QED
  BY <1>2, <1>3

LEMMA AgeNext ==
    ASSUME BufferAssumption, CountersFit, NEW o \in Counters, NEW x \in QNodes, Age(o, x) < AgeBound
    PROVE  (o + 1) % OrderMod \in Counters /\ Age((o + 1) % OrderMod, x) = Age(o, x) + 1
<1>. DEFINE p == (o + 1) % OrderMod
<1>1. OrderMod \in Nat \ {0} /\ o \in 0 .. OrderMod - 1 /\ x.order \in 0 .. OrderMod - 1
      /\ AgeBound \in Nat /\ AgeBound < OrderMod
  BY DEF BufferAssumption, CountersFit, Counters, QNodes
<1>2. p = IF o + 1 < OrderMod THEN o + 1 ELSE o + 1 - OrderMod
  <2>. DEFINE s == o + 1
  <2>1. s \in Nat /\ s < 2 * OrderMod
    BY <1>1
  <2>. HIDE DEF s
  <2>2. s % OrderMod = IF s < OrderMod THEN s ELSE s - OrderMod
    BY <1>1, <2>1, Wrapped
  <2>. QED
    BY <1>1, <2>2 DEF s
<1>. HIDE DEF p
<1>3. p \in Counters
  BY <1>1, <1>2 DEF Counters
<1>4. Age(p, x) = IF p >= x.order THEN p - x.order ELSE p - x.order + OrderMod
  BY <1>3, AgeIs
<1>5. Age(o, x) = IF o >= x.order THEN o - x.order ELSE o - x.order + OrderMod
  BY AgeIs
<1>6. Age(p, x) = Age(o, x) + 1
  BY <1>1, <1>2, <1>4, <1>5
<1>. QED
  BY <1>3, <1>6 DEF p

LEMMA PrecedesNext ==
    ASSUME BufferAssumption, CountersFit, NEW o \in Counters, NEW x \in QNodes, NEW y \in QNodes,
           Age(o, x) < AgeBound, Age(o, y) < AgeBound
    PROVE  Precedes((o + 1) % OrderMod, x, y) <=> Precedes(o, x, y)
<1>. DEFINE p == (o + 1) % OrderMod
<1>1. Age(p, x) = Age(o, x) + 1 /\ Age(p, y) = Age(o, y) + 1
  BY AgeNext
<1>2. Age(o, x) \in Int /\ Age(o, y) \in Int
  BY AgeType DEF Counters
<1>. HIDE DEF p
<1>3. Age(p, x) > Age(p, y) <=> Age(o, x) > Age(o, y)
  BY <1>1, <1>2
<1>4. Precedes(p, x, y) <=> Precedes(o, x, y)
  BY <1>3 DEF Precedes
<1>. QED
  BY <1>4 DEF p

-----------------------------------------------------------------------------
(* What holds in every state.  The nodes of the heap have slots of their   *)
(* own, that store their messages, and ages of their own, by which they    *)
(* are in order; the ring has the other slots, from startIndex on.         *)
BufferType ==
    /\ heap \in Seq(QNodes) /\ order \in Counters
    /\ indexes \in [Slots -> Slots]
    /\ startIndex \in 0 .. IndexMod - 1 /\ stopIndex \in 0 .. IndexMod - 1
    /\ data \in [Slots -> Messages \cup {NoMessage}]
    /\ count \in 0 .. Depth /\ maxCount \in count .. Depth
    /\ popped \in Messages \cup {NoMessage}

SlotsMatch(N, o, d) ==
    /\ Aged(N, o) /\ \A x \in N : Age(o, x) \in 1 .. AgeBound
    /\ \A x, y \in N : x.id = y.id => x = y
    /\ \A x \in N : d[x.id] \in Messages /\ d[x.id].pri = x.value

HeapOf(h, o, d) ==
    /\ h \in Seq(QNodes) /\ Cardinality(ToSet(h)) = Len(h)
    /\ Distinct(h) /\ Ordered(h, o) /\ SlotsMatch(ToSet(h), o, d)

HeapInv == Len(heap) = count /\ HeapOf(heap, order, data)

FreeAt(k) == indexes[(startIndex + k) % Depth]
RingInv ==
    /\ stopIndex = (startIndex + (Depth - count)) % IndexMod
    /\ \A j, k \in 0 .. Depth - count - 1 : FreeAt(j) = FreeAt(k) => j = k
    /\ \A k \in 0 .. Depth - count - 1 : \A x \in ToSet(heap) : FreeAt(k) # x.id

BufferInv == BufferType /\ HeapInv /\ RingInv

LEMMA BufferStart ==
    ASSUME BufferAssumption, CountersFit, BufferInit PROVE BufferInv
<1>1. /\ Depth \in Nat \ {0} /\ OrderMod \in Nat \ {0} /\ IndexMod \in Nat \ {0} /\ Depth < IndexMod
  BY DEF BufferAssumption
<1>2. ToSet(heap) = {} /\ Len(heap) = 0 /\ heap \in Seq(QNodes)
  BY DEF BufferInit, ToSet
<1>3. BufferType
  BY <1>1, <1>2 DEF BufferInit, BufferType, Counters, Slots
<1>4. HeapInv
  <2>1. IsFiniteSet({}) /\ Cardinality({}) = 0
    BY FS_EmptySet
  <2>2. Distinct(heap) /\ Ordered(heap, order)
    BY <1>2 DEF Distinct, Ordered
  <2>. QED
    BY <1>2, <2>1, <2>2 DEF HeapInv, HeapOf, SlotsMatch, Aged, BufferInit
<1>5. RingInv
  <2>1. Depth % IndexMod = Depth
    <3>1. Depth \in 0 .. IndexMod - 1 /\ Depth = 0 * IndexMod + Depth
      BY <1>1
    <3>. QED
      BY <1>1, <3>1, RemainderIs
  <2>2. stopIndex = (startIndex + (Depth - count)) % IndexMod
    <3>1. startIndex + (Depth - count) = Depth /\ stopIndex = Depth
      BY <1>1 DEF BufferInit
    <3>. QED
      BY <2>1, <3>1
  <2>3. ASSUME NEW k \in 0 .. Depth - 1 PROVE FreeAt(k) = k
    <3>1. startIndex + k = k /\ k = 0 * Depth + k
      BY <1>1 DEF BufferInit
    <3>2. k % Depth = k
      BY <1>1, <3>1, RemainderIs
    <3>. QED
      BY <3>1, <3>2 DEF FreeAt, BufferInit, Slots
  <2>4. Depth - count - 1 = Depth - 1
    BY <1>1 DEF BufferInit
  <2>. QED
    BY <1>2, <2>2, <2>3, <2>4 DEF RingInv
<1>. QED
  BY <1>3, <1>4, <1>5 DEF BufferInv

(* A pop and a push of the heap.                                           *)
LEMMA Shrunk ==
    ASSUME BufferAssumption, NEW o \in Counters, NEW d, NEW h, HeapOf(h, o, d), h # <<>>
    PROVE  /\ h[1] \in ToSet(h) /\ Len(HeapPop(h, o)) = Len(h) - 1 /\ Len(h) \in Nat \ {0}
           /\ ToSet(HeapPop(h, o)) = ToSet(h) \ {h[1]}
           /\ HeapOf(HeapPop(h, o), o, d)
           /\ \A x \in ToSet(h) : ~Precedes(o, x, h[1])
<1>1. /\ h \in Seq(QNodes) /\ Len(h) \in Nat \ {0} /\ Distinct(h) /\ Ordered(h, o)
      /\ Cardinality(ToSet(h)) = Len(h) /\ SlotsMatch(ToSet(h), o, d)
  BY DEF HeapOf
<1>2. ToSet(h) = {h[i] : i \in 1 .. Len(h)}
  BY <1>1, ToSetIs
<1>3. h[1] \in ToSet(h) /\ \A x \in ToSet(h) : ~Precedes(o, x, h[1])
  <2>1. \A i \in 1 .. Len(h) : ~Precedes(o, h[i], h[1])
    BY <1>1, RootFirst
  <2>2. 1 \in 1 .. Len(h)
    BY <1>1
  <2>. QED
    BY <1>2, <2>1, <2>2
<1>. DEFINE g == HeapPop(h, o)
            N == ToSet(h)
            r == h[1]
<1>4. /\ g \in Seq(QNodes) /\ Len(g) = Len(h) - 1 /\ ToSet(g) = N \ {r} /\ Distinct(g) /\ Ordered(g, o)
  BY <1>1, HeapPopIs
<1>. HIDE DEF g, N, r
<1>5. IsFiniteSet(N)
  BY <1>1 DEF SlotsMatch, Aged, N
<1>6. IsFiniteSet(N \ {r}) /\ Cardinality(N \ {r}) = Len(h) - 1
  <2>1. r \in N
    BY <1>3 DEF N, r
  <2>2. Cardinality(N) = Len(h)
    BY <1>1 DEF N
  <2>3. IsFiniteSet(N \ {r}) /\ Cardinality(N \ {r}) = Cardinality(N) - 1
    BY <1>5, <2>1, FS_RemoveElement
  <2>. QED
    BY <2>2, <2>3
<1>7. SlotsMatch(N \ {r}, o, d)
  BY <1>1, <1>6 DEF SlotsMatch, Aged, N
<1>8. HeapOf(g, o, d)
  BY <1>4, <1>6, <1>7 DEF HeapOf
<1>. QED
  BY <1>1, <1>3, <1>4, <1>8 DEF g, N, r

CanGrow(h, o, d, z, e) ==
    /\ HeapOf(h, o, d) /\ \A x \in ToSet(h) : Age(o, x) < AgeBound
    /\ z \in QNodes /\ z.order = o /\ \A x \in ToSet(h) : x.id # z.id
    /\ \A x \in ToSet(h) : e[x.id] = d[x.id]
    /\ e[z.id] \in Messages /\ e[z.id].pri = z.value

Grows(h, o, p, z, e) ==
    LET N == ToSet(h)
    IN  /\ p \in Counters /\ Len(HeapPush(h, z)) = Len(h) + 1
        /\ ToSet(HeapPush(h, z)) = N \cup {z} /\ z \notin N /\ Aged(N \cup {z}, o)
        /\ HeapOf(HeapPush(h, z), p, e)
        /\ \A x, y \in N \cup {z} : Precedes(o, x, y) <=> Precedes(p, x, y)
        /\ \A x \in N : Age(o, z) <= Age(o, x)

LEMMA Grown ==
    ASSUME BufferAssumption, CountersFit, NEW o \in Counters, NEW d, NEW h, NEW z, NEW e,
           CanGrow(h, o, d, z, e)
    PROVE  Grows(h, o, (o + 1) % OrderMod, z, e)
<1>. DEFINE p == (o + 1) % OrderMod
            N == ToSet(h)
            g == HeapPush(h, z)
<1>0. /\ HeapOf(h, o, d) /\ \A x \in N : Age(o, x) < AgeBound
      /\ z \in QNodes /\ z.order = o /\ \A x \in N : x.id # z.id
      /\ \A x \in N : e[x.id] = d[x.id]
      /\ e[z.id] \in Messages /\ e[z.id].pri = z.value
  BY DEF CanGrow
<1>1. /\ h \in Seq(QNodes) /\ Len(h) \in Nat /\ Distinct(h) /\ Ordered(h, o)
      /\ Cardinality(N) = Len(h) /\ IsFiniteSet(N) /\ \A x \in N : x \in QNodes
      /\ \A x, y \in N : Age(o, x) = Age(o, y) => x = y
      /\ \A x \in N : Age(o, x) \in 1 .. AgeBound
      /\ \A x, y \in N : x.id = y.id => x = y
      /\ \A x \in N : d[x.id] \in Messages /\ d[x.id].pri = x.value
  BY <1>0 DEF HeapOf, SlotsMatch, Aged
<1>2. AgeBound \in Nat \ {0} /\ AgeBound < OrderMod /\ OrderMod \in Nat \ {0} /\ o \in 0 .. OrderMod - 1
  BY DEF BufferAssumption, CountersFit, Counters
<1>3. z \notin N /\ \A x \in N : Age(o, x) < AgeBound
  BY <1>0
<1>4. Age(o, z) = 0
  BY <1>0, <1>2, AgeIs
<1>5. \A x \in N : Age(o, z) <= Age(o, x) /\ Age(o, z) # Age(o, x)
  BY <1>1, <1>2, <1>4
<1>. HIDE DEF g, N, p
<1>6. /\ g \in Seq(QNodes) /\ Len(g) = Len(h) + 1 /\ ToSet(g) = N \cup {z}
      /\ Distinct(g) /\ Ordered(g, o)
  BY <1>0, <1>1, <1>3, <1>5, HeapPushIs DEF g, N
<1>7. IsFiniteSet(N \cup {z}) /\ Cardinality(N \cup {z}) = Len(h) + 1
  <2>1. /\ IsFiniteSet(N \cup {z})
        /\ Cardinality(N \cup {z}) = IF z \in N THEN Cardinality(N) ELSE Cardinality(N) + 1
    BY <1>1, FS_AddElement
  <2>. QED
    BY <1>1, <1>3, <2>1
<1>8. Aged(N \cup {z}, o)
  BY <1>0, <1>1, <1>5, <1>7 DEF Aged
<1>9. \A x \in N \cup {z} : x \in QNodes /\ Age(o, x) < AgeBound
  BY <1>0, <1>1, <1>2, <1>3, <1>4
<1>10. p \in Counters /\ \A x \in N \cup {z} : Age(p, x) = Age(o, x) + 1
  <2>1. z \in N \cup {z}
    OBVIOUS
  <2>. QED
    BY <1>9, <2>1, AgeNext DEF p
<1>11. \A x, y \in N \cup {z} : Precedes(o, x, y) <=> Precedes(p, x, y)
  BY <1>9, PrecedesNext DEF p
<1>12. Ordered(g, p)
  <2>1. \A i \in 1 .. Len(g) : g[i] \in N \cup {z}
    BY <1>6, ToSetIs
  <2>2. ASSUME NEW j \in 2 .. Len(g) PROVE ~Precedes(p, g[j], g[Parent(j)])
    <3>1. Parent(j) \in 1 .. Len(g) /\ j \in 1 .. Len(g)
      BY <1>1, <1>6, ParentIs
    <3>. QED
      BY <1>6, <1>11, <2>1, <3>1 DEF Ordered
  <2>. QED
    BY <2>2 DEF Ordered
<1>13. SlotsMatch(N \cup {z}, p, e)
  <2>1. \A x, y \in N \cup {z} : Age(p, x) = Age(p, y) => x = y
    <3>1. \A x \in N \cup {z} : Age(o, x) \in Int
      BY <1>9, AgeType DEF Counters
    <3>2. \A x, y \in N \cup {z} : Age(p, x) = Age(p, y) => Age(o, x) = Age(o, y)
      BY <1>10, <3>1
    <3>. QED
      BY <1>8, <3>2 DEF Aged
  <2>2. Aged(N \cup {z}, p)
    BY <1>8, <2>1 DEF Aged
  <2>3. \A x \in N \cup {z} : Age(p, x) \in 1 .. AgeBound
    <3>1. \A x \in N : Age(p, x) \in 1 .. AgeBound
      BY <1>1, <1>2, <1>9, <1>10
    <3>2. Age(p, z) \in 1 .. AgeBound
      BY <1>2, <1>4, <1>10
    <3>. QED
      BY <3>1, <3>2
  <2>4. \A x, y \in N \cup {z} : x.id = y.id => x = y
    BY <1>0, <1>1
  <2>5. \A x \in N \cup {z} : e[x.id] \in Messages /\ e[x.id].pri = x.value
    BY <1>0, <1>1
  <2>. QED
    BY <2>2, <2>3, <2>4, <2>5 DEF SlotsMatch
<1>14. HeapOf(g, p, e)
  BY <1>6, <1>7, <1>12, <1>13 DEF HeapOf
<1>. QED
  BY <1>3, <1>5, <1>6, <1>8, <1>10, <1>11, <1>14 DEF g, N, p, Grows

-----------------------------------------------------------------------------
(* The messages of the nodes in their order, as the abstract queue.        *)
Listing(N, o, d, n) ==
    [k \in 1 .. n |-> [d[Place(N, o, k).id] EXCEPT !.pri = Place(N, o, k).value]]

LEMMA StoredIs ==
    ASSUME BufferAssumption, NEW o \in Counters, NEW d, NEW N, SlotsMatch(N, o, d), NEW x \in N
    PROVE  [d[x.id] EXCEPT !.pri = x.value] = d[x.id] /\ d[x.id] \in Messages /\ d[x.id].pri = x.value
<1>. DEFINE m == d[x.id]
<1>1. m \in Messages /\ m.pri = x.value
  BY DEF SlotsMatch
<1>2. m \in [pri : Int, size : Nat, body : STRING]
  BY <1>1 DEF BufferAssumption
<1>. HIDE DEF m
<1>3. [m EXCEPT !.pri = x.value] = m
  BY <1>1, <1>2
<1>. QED
  BY <1>1, <1>3 DEF m

LEMMA ListingIs ==
    ASSUME BufferAssumption, NEW o \in Counters, NEW d, NEW N, SlotsMatch(N, o, d),
           NEW n \in Nat, Cardinality(N) = n
    PROVE  /\ Listing(N, o, d, n) \in Seq(Messages) /\ Len(Listing(N, o, d, n)) = n
           /\ \A k \in 1 .. n : /\ Place(N, o, k) \in N
                                /\ Listing(N, o, d, n)[k] = d[Place(N, o, k).id]
                                /\ Listing(N, o, d, n)[k].pri = Place(N, o, k).value
<1>. DEFINE L == Listing(N, o, d, n)
<1>1. Aged(N, o)
  BY DEF SlotsMatch
<1>2. \A k \in 1 .. n : Place(N, o, k) \in N
  BY <1>1, PlaceIs
<1>3. ASSUME NEW k \in 1 .. n
      PROVE  /\ Place(N, o, k) \in N /\ L[k] = d[Place(N, o, k).id]
             /\ L[k] \in Messages /\ L[k].pri = Place(N, o, k).value
  <2>. DEFINE x == Place(N, o, k)
  <2>1. x \in N
    BY <1>2
  <2>2. L[k] = [d[x.id] EXCEPT !.pri = x.value]
    BY DEF Listing
  <2>. HIDE DEF x, L
  <2>3. [d[x.id] EXCEPT !.pri = x.value] = d[x.id] /\ d[x.id] \in Messages /\ d[x.id].pri = x.value
    BY <2>1, StoredIs
  <2>. QED
    BY <2>1, <2>2, <2>3 DEF x
<1>4. DOMAIN L = 1 .. n /\ L = [k \in 1 .. n |-> L[k]]
  BY DEF Listing
<1>. HIDE DEF L
<1>5. L \in [1 .. n -> Messages]
  BY <1>3, <1>4
<1>6. L \in Seq(Messages) /\ Len(L) = n
  BY <1>5
<1>. QED
  BY <1>3, <1>6 DEF L

RootIsHead(h, o, d, L) ==
    /\ L # <<>> /\ Head(L) = [d[h[1].id] EXCEPT !.pri = h[1].value]
    /\ Tail(L) = Listing(ToSet(h) \ {h[1]}, o, d, Len(h) - 1)

LEMMA TakeListing ==
    ASSUME BufferAssumption, NEW o \in Counters, NEW d, NEW h, HeapOf(h, o, d), h # <<>>
    PROVE  RootIsHead(h, o, d, Listing(ToSet(h), o, d, Len(h)))
<1>. DEFINE N == ToSet(h)
            r == h[1]
            n == Len(h)
            L == Listing(N, o, d, n)
            M == Listing(N \ {r}, o, d, n - 1)
<1>1. /\ r \in N /\ n \in Nat \ {0} /\ \A x \in N : ~Precedes(o, x, r)
      /\ HeapOf(HeapPop(h, o), o, d) /\ ToSet(HeapPop(h, o)) = N \ {r} /\ Len(HeapPop(h, o)) = n - 1
  BY Shrunk
<1>2. /\ SlotsMatch(N, o, d) /\ Aged(N, o) /\ Cardinality(N) = n
      /\ SlotsMatch(N \ {r}, o, d) /\ Cardinality(N \ {r}) = n - 1
  BY <1>1 DEF HeapOf, SlotsMatch
<1>. HIDE DEF N, n, r
<1>3. /\ Place(N, o, 1) = r
      /\ \A k \in 1 .. n - 1 : Place(N \ {r}, o, k) = Place(N, o, k + 1)
  BY <1>1, <1>2, FirstPlace
<1>4. /\ L \in Seq(Messages) /\ Len(L) = n /\ M \in Seq(Messages) /\ Len(M) = n - 1
  BY <1>1, <1>2, ListingIs
<1>5. L[1] = [d[r.id] EXCEPT !.pri = r.value]
  BY <1>1, <1>3 DEF Listing
<1>6. ASSUME NEW k \in 1 .. n - 1 PROVE M[k] = L[k + 1]
  <2>1. k + 1 \in 1 .. n
    BY <1>1
  <2>. QED
    BY <1>3, <2>1 DEF Listing
<1>. HIDE DEF L, M
<1>7. L # <<>> /\ Head(L) = L[1] /\ Tail(L) \in Seq(Messages) /\ Len(Tail(L)) = n - 1
      /\ \A k \in 1 .. n - 1 : Tail(L)[k] = L[k + 1]
  BY <1>1, <1>4
<1>8. Tail(L) = M
  BY <1>4, <1>6, <1>7, SameSeq
<1>. QED
  BY <1>5, <1>7, <1>8 DEF L, M, N, r, n, RootIsHead

LEMMA PutListing ==
    ASSUME BufferAssumption, CountersFit, NEW o \in Counters, NEW d, NEW h, NEW z, NEW e,
           CanGrow(h, o, d, z, e)
    PROVE  Fifo!Placed(Listing(ToSet(h), o, d, Len(h)), e[z.id],
                       Listing(ToSet(h) \cup {z}, (o + 1) % OrderMod, e, Len(h) + 1))
<1>. DEFINE N == ToSet(h)
            n == Len(h)
            p == (o + 1) % OrderMod
            L == Listing(N, o, d, n)
            M == Listing(N \cup {z}, p, e, n + 1)
            m == e[z.id]
<1>1. /\ p \in Counters /\ Len(HeapPush(h, z)) = n + 1
      /\ ToSet(HeapPush(h, z)) = N \cup {z} /\ z \notin N /\ Aged(N \cup {z}, o)
      /\ HeapOf(HeapPush(h, z), p, e)
      /\ \A x, y \in N \cup {z} : Precedes(o, x, y) <=> Precedes(p, x, y)
      /\ \A x \in N : Age(o, z) <= Age(o, x)
  <2>1. Grows(h, o, p, z, e)
    BY Grown
  <2>. QED
    BY <2>1 DEF Grows
<1>2. /\ SlotsMatch(N, o, d) /\ Aged(N, o) /\ Cardinality(N) = n /\ n \in Nat
      /\ SlotsMatch(N \cup {z}, p, e) /\ Cardinality(N \cup {z}) = n + 1
  <2>1. HeapOf(h, o, d)
    BY DEF CanGrow
  <2>. QED
    BY <1>1, <2>1 DEF HeapOf, SlotsMatch
<1>3. z \in QNodes /\ m.pri = z.value /\ \A x \in N : e[x.id] = d[x.id]
  BY DEF CanGrow
<1>. HIDE DEF N, n, p, m
<1>. DEFINE k == Cardinality(Before(N, o, z))
<1>4. /\ k \in 0 .. n
      /\ \A i \in 1 .. k : Place(N \cup {z}, o, i) = Place(N, o, i) /\ Precedes(o, Place(N, o, i), z)
      /\ Place(N \cup {z}, o, k + 1) = z
      /\ \A i \in k + 1 .. n :
            Place(N \cup {z}, o, i + 1) = Place(N, o, i) /\ Precedes(o, z, Place(N, o, i))
  <2>1. Takes(N, o, z, k)
    BY <1>1, <1>3, NewPlace
  <2>. HIDE DEF k
  <2>. QED
    BY <1>2, <2>1 DEF Takes
<1>. HIDE DEF k
<1>5. \A i : Place(N \cup {z}, p, i) = Place(N \cup {z}, o, i)
  BY <1>1, SamePlaces
<1>6. /\ L \in Seq(Messages) /\ Len(L) = n
      /\ \A i \in 1 .. n : /\ Place(N, o, i) \in N /\ L[i] = d[Place(N, o, i).id]
                           /\ L[i].pri = Place(N, o, i).value
  BY <1>2, ListingIs
<1>7. /\ M \in Seq(Messages) /\ Len(M) = n + 1
      /\ \A i \in 1 .. n + 1 : M[i] = e[Place(N \cup {z}, p, i).id]
  <2>. DEFINE A == N \cup {z}
              a == n + 1
  <2>1. a \in Nat /\ SlotsMatch(A, p, e) /\ Cardinality(A) = a /\ p \in Counters
    BY <1>1, <1>2
  <2>. HIDE DEF A, a
  <2>2. /\ Listing(A, p, e, a) \in Seq(Messages) /\ Len(Listing(A, p, e, a)) = a
        /\ \A i \in 1 .. a : Listing(A, p, e, a)[i] = e[Place(A, p, i).id]
    BY <2>1, ListingIs
  <2>. QED
    BY <2>2 DEF A, a
<1>. HIDE DEF L, M
<1>8. ASSUME NEW i \in 1 .. k PROVE L[i].pri >= m.pri
  <2>1. i \in 1 .. n /\ Precedes(o, Place(N, o, i), z) /\ Place(N, o, i) \in N
    BY <1>2, <1>4, <1>6
  <2>2. Place(N, o, i) \in QNodes
    BY <1>2, <2>1 DEF Aged
  <2>3. Place(N, o, i).value >= z.value
    BY <1>3, <2>1, <2>2 DEF Precedes, QNodes
  <2>. QED
    BY <1>3, <1>6, <2>1, <2>3
<1>9. ASSUME NEW i \in k + 1 .. n PROVE L[i].pri < m.pri
  <2>1. i \in 1 .. n /\ Precedes(o, z, Place(N, o, i)) /\ Place(N, o, i) \in N
    BY <1>2, <1>4, <1>6
  <2>2. Place(N, o, i) \in QNodes /\ Age(o, z) <= Age(o, Place(N, o, i))
    BY <1>1, <1>2, <2>1 DEF Aged
  <2>3. Age(o, z) \in Int /\ Age(o, Place(N, o, i)) \in Int
    BY <1>3, <2>2, AgeType DEF Counters
  <2>4. Place(N, o, i).value < z.value
    BY <1>3, <2>1, <2>2, <2>3 DEF Precedes, QNodes
  <2>. QED
    BY <1>3, <1>6, <2>1, <2>4
<1>10. ASSUME NEW i \in 1 .. n + 1
       PROVE  M[i] = IF i <= k THEN L[i] ELSE IF i = k + 1 THEN m ELSE L[i - 1]
  <2>1. M[i] = e[Place(N \cup {z}, o, i).id]
    BY <1>5, <1>7
  <2>2. CASE i <= k
    <3>1. i \in 1 .. k /\ i \in 1 .. n
      BY <1>2, <1>4, <2>2
    <3>. QED
      BY <1>3, <1>4, <1>6, <2>1, <2>2, <3>1
  <2>3. CASE i = k + 1
    <3>1. ~(i <= k)
      BY <1>2, <1>4, <2>3
    <3>. QED
      BY <1>4, <2>1, <2>3, <3>1 DEF m
  <2>4. CASE ~(i <= k) /\ i # k + 1
    <3>. DEFINE j == i - 1
    <3>1. j \in k + 1 .. n /\ j \in 1 .. n /\ j + 1 = i
      BY <1>2, <1>4, <2>4
    <3>. HIDE DEF j
    <3>2. Place(N \cup {z}, o, j + 1) = Place(N, o, j)
      BY <1>4, <3>1
    <3>3. M[i] = L[j]
      BY <1>3, <1>6, <2>1, <3>1, <3>2
    <3>. QED
      BY <2>4, <3>3 DEF j
  <2>. QED
    BY <2>2, <2>3, <2>4
<1>11. M = [i \in 1 .. n + 1 |-> IF i <= k THEN L[i] ELSE IF i = k + 1 THEN m ELSE L[i - 1]]
  <2>1. DOMAIN M = 1 .. n + 1 /\ M = [i \in DOMAIN M |-> M[i]]
    BY <1>2, <1>7
  <2>. QED
    BY <1>10, <2>1
<1>12. Fifo!Placed(L, m, M)
  <2>1. k \in 0 .. Len(L) /\ Len(L) = n
    BY <1>4, <1>6
  <2>. QED
    BY <1>8, <1>9, <1>11, <2>1 DEF Fifo!Placed
<1>. QED
  BY <1>12 DEF L, M, N, n, m, p

LEMMA ListedIs ==
    /\ heap \in Seq(QNodes) => Listed = Listing(ToSet(heap), order, data, Len(heap))
    /\ heap' \in Seq(QNodes) => Listed' = Listing(ToSet(heap'), order', data', Len(heap'))
<1>1. heap \in Seq(QNodes) => DOMAIN heap = 1 .. Len(heap)
  OBVIOUS
<1>2. heap' \in Seq(QNodes) => DOMAIN heap' = 1 .. Len(heap')
  OBVIOUS
<1>. QED
  BY <1>1, <1>2, Zenon DEF Listed, Stored, Nodes, Ahead, Listing, Place, Before

-----------------------------------------------------------------------------
(* One step of each operation.                                             *)
LEMMA PushStep ==
    ASSUME BufferAssumption, CountersFit, BufferInv, NEW m \in Messages, Push(m)
    PROVE  BufferInv' /\ Fifo!Put(m)
<1>. DEFINE slot == indexes[startIndex % Depth]
            z == NewNode(m.pri, slot)
            N == ToSet(heap)
<1>1. /\ Depth \in Nat \ {0} /\ IndexMod \in Nat \ {0} /\ Depth < IndexMod /\ IndexMod % Depth = 0
      /\ OrderMod \in Nat \ {0} /\ \A x \in Messages : x \in [pri : Int, size : Nat, body : STRING]
  BY DEF BufferAssumption, CountersFit
<1>2. /\ heap \in Seq(QNodes) /\ order \in Counters
      /\ indexes \in [Slots -> Slots]
      /\ startIndex \in 0 .. IndexMod - 1 /\ stopIndex \in 0 .. IndexMod - 1
      /\ data \in [Slots -> Messages \cup {NoMessage}]
      /\ count \in 0 .. Depth /\ maxCount \in count .. Depth
      /\ popped \in Messages \cup {NoMessage}
      /\ Len(heap) = count /\ HeapOf(heap, order, data)
  BY DEF BufferInv, BufferType, HeapInv
<1>3. /\ count # Depth /\ AgesBounded
      /\ heap' = HeapPush(heap, z) /\ data' = [data EXCEPT ![slot] = m]
      /\ startIndex' = (startIndex + 1) % IndexMod /\ order' = (order + 1) % OrderMod
      /\ count' = count + 1 /\ maxCount' = (IF count' > maxCount THEN count' ELSE maxCount)
      /\ UNCHANGED <<indexes, stopIndex, popped>>
  BY DEF Push
<1>4. /\ stopIndex = (startIndex + (Depth - count)) % IndexMod
      /\ \A j, k \in 0 .. Depth - count - 1 : FreeAt(j) = FreeAt(k) => j = k
      /\ \A k \in 0 .. Depth - count - 1 : \A x \in N : FreeAt(k) # x.id
  BY DEF BufferInv, RingInv
<1>5. slot \in Slots /\ slot = FreeAt(0) /\ 0 \in 0 .. Depth - count - 1
  <2>1. startIndex + 0 = startIndex /\ startIndex \in Nat
    BY <1>1, <1>2
  <2>2. startIndex % Depth \in Slots
    BY <1>1, <2>1 DEF Slots
  <2>. QED
    BY <1>1, <1>2, <1>3, <2>1, <2>2 DEF FreeAt
<1>6. z \in QNodes /\ z.order = order /\ z.id = slot /\ z.value = m.pri
  BY <1>1, <1>2, <1>5 DEF NewNode, QNodes, Counters
<1>7. \A x \in N : x.id \in Slots /\ x.id # slot
  <2>1. \A x \in N : x \in QNodes
    BY <1>2 DEF HeapOf, SlotsMatch, Aged
  <2>. QED
    BY <1>4, <1>5, <2>1 DEF QNodes
<1>8. CanGrow(heap, order, data, z, data')
  <2>1. \A x \in N : Age(order, x) < AgeBound
    <3>1. N = {heap[i] : i \in 1 .. Len(heap)} /\ DOMAIN heap = 1 .. Len(heap)
      BY <1>2, ToSetIs
    <3>. QED
      BY <1>3, <3>1 DEF AgesBounded
  <2>2. /\ \A x \in N : data'[x.id] = data[x.id]
        /\ data'[slot] = m
    BY <1>2, <1>3, <1>5, <1>7
  <2>. QED
    BY <1>2, <1>6, <1>7, <2>1, <2>2 DEF CanGrow
<1>. HIDE DEF z, slot
<1>9. /\ order' \in Counters /\ Len(heap') = count + 1 /\ ToSet(heap') = N \cup {z}
      /\ HeapOf(heap', order', data')
  <2>1. Grows(heap, order, (order + 1) % OrderMod, z, data')
    BY <1>2, <1>8, Grown
  <2>. QED
    BY <1>2, <1>3, <2>1 DEF Grows
<1>10. BufferType'
  <2>1. startIndex' \in 0 .. IndexMod - 1
    BY <1>1, <1>2, <1>3
  <2>2. data' \in [Slots -> Messages \cup {NoMessage}]
    BY <1>2, <1>3
  <2>3. count' \in 0 .. Depth /\ maxCount' \in count' .. Depth
    BY <1>1, <1>2, <1>3
  <2>. QED
    BY <1>2, <1>3, <1>9, <2>1, <2>2, <2>3 DEF BufferType, HeapOf
<1>11. RingInv'
  <2>1. ASSUME NEW k \in 0 .. Depth - count' - 1
        PROVE  k + 1 \in 0 .. Depth - count - 1 /\ FreeAt(k)' = FreeAt(k + 1)
    <3>. DEFINE a == startIndex + 1
    <3>1. a \in Nat /\ k \in Nat
      BY <1>1, <1>2
    <3>2. a + k = startIndex + (k + 1) /\ k + 1 \in 0 .. Depth - count - 1
      BY <1>1, <1>2, <1>3
    <3>. HIDE DEF a
    <3>3. ((a % IndexMod) + k) % Depth = (a + k) % Depth
      <4>1. WrapsWith(IndexMod, Depth)
        BY <1>1, CountsWrap
      <4>. QED
        BY <3>1, <4>1, Zenon DEF WrapsWith
    <3>4. FreeAt(k)' = indexes[((a % IndexMod) + k) % Depth]
      BY <1>3 DEF FreeAt, a
    <3>. QED
      BY <3>2, <3>3, <3>4 DEF FreeAt
  <2>2. stopIndex' = (startIndex' + (Depth - count')) % IndexMod
    <3>. DEFINE a == startIndex + 1
                k == Depth - count - 1
    <3>1. a \in Nat /\ k \in Nat /\ a + k = startIndex + (Depth - count) /\ Depth - count' = k
      BY <1>1, <1>2, <1>3
    <3>2. IndexMod % IndexMod = 0
      <4>1. IndexMod = 1 * IndexMod + 0 /\ 0 \in 0 .. IndexMod - 1
        BY <1>1
      <4>. QED
        BY <1>1, <4>1, RemainderIs
    <3>. HIDE DEF a, k
    <3>3. ((a % IndexMod) + k) % IndexMod = (a + k) % IndexMod
      <4>1. WrapsWith(IndexMod, IndexMod)
        BY <1>1, <3>2, CountsWrap
      <4>. QED
        BY <3>1, <4>1, Zenon DEF WrapsWith
    <3>4. startIndex' = a % IndexMod
      BY <1>3 DEF a
    <3>. QED
      BY <1>3, <1>4, <3>1, <3>3, <3>4
  <2>3. ASSUME NEW j \in 0 .. Depth - count' - 1, NEW k \in 0 .. Depth - count' - 1, FreeAt(j)' = FreeAt(k)'
        PROVE  j = k
    <3>1. j + 1 = k + 1
      BY <1>4, <2>1, <2>3
    <3>. QED
      BY <3>1
  <2>4. ASSUME NEW k \in 0 .. Depth - count' - 1, NEW x \in ToSet(heap') PROVE FreeAt(k)' # x.id
    <3>1. CASE x \in N
      BY <1>4, <2>1, <3>1
    <3>2. CASE x = z
      <4>1. k + 1 # 0
        OBVIOUS
      <4>. QED
        BY <1>4, <1>5, <1>6, <2>1, <3>2, <4>1
    <3>. QED
      BY <1>9, <3>1, <3>2
  <2>. QED
    BY <2>2, <2>3, <2>4 DEF RingInv
<1>12. Fifo!Put(m)
  <2>. DEFINE L == Listing(N, order, data, Len(heap))
  <2>1. Listed = L
    BY <1>2, ListedIs
  <2>2. Listed' = Listing(N \cup {z}, (order + 1) % OrderMod, data', Len(heap) + 1)
    <3>1. heap' \in Seq(QNodes) /\ Len(heap') = Len(heap) + 1
      BY <1>2, <1>9 DEF HeapOf
    <3>. QED
      BY <1>3, <1>9, <3>1, ListedIs
  <2>3. Fifo!Placed(L, data'[z.id], Listing(N \cup {z}, (order + 1) % OrderMod, data', Len(heap) + 1))
    BY <1>2, <1>8, PutListing
  <2>4. data'[z.id] = m
    BY <1>2, <1>3, <1>5, <1>6
  <2>5. Len(L) < Depth
    <3>1. SlotsMatch(N, order, data) /\ Cardinality(N) = Len(heap) /\ Len(heap) \in Nat
      BY <1>2 DEF HeapOf
    <3>2. Len(L) = Len(heap)
      BY <1>2, <3>1, ListingIs
    <3>. QED
      BY <1>1, <1>2, <1>3, <3>2
  <2>. HIDE DEF L
  <2>. QED
    BY <1>3, <2>1, <2>2, <2>3, <2>4, <2>5 DEF Fifo!Put
<1>. QED
  BY <1>2, <1>3, <1>9, <1>10, <1>11, <1>12 DEF BufferInv, HeapInv

LEMMA PopStep ==
    ASSUME BufferAssumption, CountersFit, BufferInv, NEW c \in Capacities, Pop(c)
    PROVE  BufferInv' /\ Fifo!Take
<1>. DEFINE r == heap[1]
            N == ToSet(heap)
            unused == Depth - count
            a == startIndex + unused
<1>1. /\ Depth \in Nat \ {0} /\ IndexMod \in Nat \ {0} /\ Depth < IndexMod /\ IndexMod % Depth = 0
  BY DEF BufferAssumption, CountersFit
<1>2. /\ heap \in Seq(QNodes) /\ order \in Counters
      /\ indexes \in [Slots -> Slots]
      /\ startIndex \in 0 .. IndexMod - 1 /\ stopIndex \in 0 .. IndexMod - 1
      /\ data \in [Slots -> Messages \cup {NoMessage}]
      /\ count \in 0 .. Depth /\ maxCount \in count .. Depth
      /\ popped \in Messages \cup {NoMessage}
      /\ Len(heap) = count /\ HeapOf(heap, order, data)
  BY DEF BufferInv, BufferType, HeapInv
<1>3. /\ count # 0
      /\ popped' = [data[r.id] EXCEPT !.pri = r.value]
      /\ heap' = HeapPop(heap, order)
      /\ indexes' = [indexes EXCEPT ![stopIndex % Depth] = r.id]
      /\ stopIndex' = (stopIndex + 1) % IndexMod /\ count' = count - 1
      /\ UNCHANGED <<order, startIndex, data, maxCount>>
  BY DEF Pop
<1>4. /\ stopIndex = a % IndexMod
      /\ \A j, k \in 0 .. unused - 1 : FreeAt(j) = FreeAt(k) => j = k
      /\ \A k \in 0 .. unused - 1 : \A x \in N : FreeAt(k) # x.id
  BY DEF BufferInv, RingInv
<1>5. unused \in 0 .. Depth - 1 /\ a \in Nat /\ startIndex \in Nat /\ heap # <<>>
  <2>1. count \in 1 .. Depth
    BY <1>1, <1>2, <1>3
  <2>2. unused \in 0 .. Depth - 1
    BY <1>1, <2>1
  <2>3. startIndex \in Nat
    BY <1>1, <1>2
  <2>4. Len(heap) # 0
    BY <1>2, <1>3
  <2>. QED
    BY <2>2, <2>3, <2>4
<1>6. /\ r \in N /\ ToSet(heap') = N \ {r} /\ Len(heap') = count - 1 /\ HeapOf(heap', order', data')
  BY <1>2, <1>3, <1>5, Shrunk
<1>7. SlotsMatch(N, order, data) /\ Cardinality(N) = Len(heap) /\ Len(heap) \in Nat
  BY <1>2 DEF HeapOf
<1>. HIDE DEF N, r
<1>8. r.id \in Slots /\ \A x \in N : x.id = r.id => x = r
  <2>1. r \in N /\ N \subseteq QNodes
    BY <1>6, <1>7 DEF SlotsMatch, Aged
  <2>2. r.id \in Slots
    BY <2>1 DEF QNodes
  <2>. QED
    BY <1>7, <2>1, <2>2 DEF SlotsMatch
<1>9. BufferType'
  <2>1. stopIndex' \in 0 .. IndexMod - 1 /\ stopIndex % Depth \in Slots
    <3>1. \A n \in Nat \ {0}, i \in Nat : i % n \in 0 .. n - 1
      OBVIOUS
    <3>2. stopIndex \in Nat /\ stopIndex + 1 \in Nat
      BY <1>1, <1>2
    <3>3. (stopIndex + 1) % IndexMod \in 0 .. IndexMod - 1 /\ stopIndex % Depth \in 0 .. Depth - 1
      BY <1>1, <3>1, <3>2
    <3>. QED
      BY <1>3, <3>3 DEF Slots
  <2>2. indexes' \in [Slots -> Slots]
    BY <1>2, <1>3, <1>8
  <2>3. count' \in 0 .. Depth /\ maxCount' \in count' .. Depth
    BY <1>1, <1>2, <1>3
  <2>4. popped' \in Messages \cup {NoMessage}
    BY <1>2, <1>3, <1>6, <1>7, StoredIs
  <2>. QED
    BY <1>2, <1>3, <1>6, <2>1, <2>2, <2>3, <2>4 DEF BufferType, HeapOf
<1>10. RingInv'
  <2>. HIDE DEF a
  <2>1. stopIndex % Depth = (startIndex + unused) % Depth
    <3>1. WrapsWith(IndexMod, Depth)
      BY <1>1, CountsWrap
    <3>2. ((a % IndexMod) + 0) % Depth = (a + 0) % Depth
      BY <1>5, <3>1 DEF WrapsWith
    <3>3. (a % IndexMod) + 0 = a % IndexMod /\ a + 0 = a
      BY <1>1, <1>5
    <3>. QED
      BY <1>4, <3>2, <3>3 DEF a
  <2>2. ASSUME NEW k \in 0 .. Depth - 1 PROVE (startIndex + k) % Depth \in Slots
    <3>1. startIndex + k \in Nat
      BY <1>5
    <3>. QED
      BY <1>1, <3>1 DEF Slots
  <2>. HIDE DEF unused
  <2>3. ASSUME NEW k \in 0 .. unused PROVE FreeAt(k)' = IF k = unused THEN r.id ELSE FreeAt(k)
    <3>1. k \in 0 .. Depth - 1
      BY <1>1, <1>5
    <3>2. FreeAt(k)' = indexes'[(startIndex + k) % Depth]
      BY <1>3 DEF FreeAt
    <3>3. CASE k = unused
      BY <1>2, <1>3, <2>1, <2>2, <3>1, <3>2, <3>3
    <3>4. CASE k # unused
      <4>1. (startIndex + k) % Depth # (startIndex + unused) % Depth
        BY <1>1, <1>5, <3>1, <3>4, SameRemainder
      <4>. QED
        BY <1>2, <1>3, <2>1, <2>2, <3>1, <3>2, <3>4, <4>1 DEF FreeAt
    <3>. QED
      BY <3>3, <3>4
  <2>4. Depth - count' = unused + 1 /\ Depth - count' - 1 = unused
    <3>1. count \in Int /\ Depth \in Int /\ count' = count - 1
      BY <1>1, <1>2, <1>3
    <3>. QED
      BY <3>1 DEF unused
  <2>5. stopIndex' = (startIndex' + (Depth - count')) % IndexMod
    <3>1. WrapsWith(IndexMod, IndexMod)
      <4>1. IndexMod = 1 * IndexMod + 0 /\ 0 \in 0 .. IndexMod - 1
        BY <1>1
      <4>2. IndexMod % IndexMod = 0
        BY <1>1, <4>1, RemainderIs
      <4>. QED
        BY <1>1, <4>2, CountsWrap
    <3>2. ((a % IndexMod) + 1) % IndexMod = (a + 1) % IndexMod
      BY <1>5, <3>1 DEF WrapsWith
    <3>3. startIndex' + (Depth - count') = a + 1
      BY <1>1, <1>3, <1>5, <2>4 DEF a
    <3>. QED
      BY <1>3, <1>4, <3>2, <3>3
  <2>6. ASSUME NEW j \in 0 .. Depth - count' - 1, NEW k \in 0 .. Depth - count' - 1, FreeAt(j)' = FreeAt(k)'
        PROVE  j = k
    <3>1. j \in 0 .. unused /\ k \in 0 .. unused
      BY <2>4
    <3>2. \A i \in 0 .. unused : i = unused \/ i \in 0 .. unused - 1
      BY <1>5
    <3>. QED
      BY <1>4, <1>6, <2>3, <2>6, <3>1, <3>2
  <2>7. ASSUME NEW k \in 0 .. Depth - count' - 1, NEW x \in ToSet(heap') PROVE FreeAt(k)' # x.id
    <3>1. k \in 0 .. unused /\ (k = unused \/ k \in 0 .. unused - 1)
      BY <1>5, <2>4
    <3>. QED
      BY <1>4, <1>6, <1>8, <2>3, <3>1
  <2>. QED
    BY <2>5, <2>6, <2>7 DEF RingInv
<1>11. Fifo!Take
  <2>. DEFINE L == Listing(N, order, data, Len(heap))
  <2>1. Listed = L
    BY <1>2, ListedIs DEF N
  <2>2. Listed' = Listing(N \ {r}, order, data, Len(heap) - 1)
    <3>1. heap' \in Seq(QNodes)
      BY <1>6 DEF HeapOf
    <3>. QED
      BY <1>2, <1>3, <1>6, <3>1, ListedIs
  <2>3. /\ L # <<>> /\ Head(L) = [data[r.id] EXCEPT !.pri = r.value]
        /\ Tail(L) = Listing(N \ {r}, order, data, Len(heap) - 1)
    <3>1. RootIsHead(heap, order, data, L)
      BY <1>2, <1>5, TakeListing DEF N
    <3>. HIDE DEF L
    <3>. QED
      BY <3>1 DEF RootIsHead, N, r
  <2>. HIDE DEF L
  <2>. QED
    BY <1>3, <2>1, <2>2, <2>3 DEF Fifo!Take
<1>. QED
  BY <1>3, <1>6, <1>9, <1>10, <1>11 DEF BufferInv, HeapInv

LEMMA PopTooSmallStep ==
    ASSUME BufferAssumption, CountersFit, BufferInv, NEW c \in Capacities, PopTooSmall(c)
    PROVE  BufferInv' /\ Fifo!Requeue
<1>. DEFINE r == heap[1]
            N == ToSet(heap)
            g == HeapPop(heap, order)
            z == NewNode(r.value, r.id)
<1>1. /\ heap \in Seq(QNodes) /\ order \in Counters /\ count \in 0 .. Depth /\ Depth \in Nat
      /\ Len(heap) = count /\ HeapOf(heap, order, data) /\ BufferType
  BY DEF BufferInv, BufferType, HeapInv, BufferAssumption
<1>2. /\ count # 0 /\ AgesBounded
      /\ heap' = HeapPush(g, z) /\ order' = (order + 1) % OrderMod
      /\ UNCHANGED <<ring, data, count, maxCount, popped>>
  BY DEF PopTooSmall
<1>3. heap # <<>>
  BY <1>1, <1>2
<1>4. /\ r \in N /\ ToSet(g) = N \ {r} /\ Len(g) = count - 1 /\ HeapOf(g, order, data)
  BY <1>1, <1>3, Shrunk
<1>5. /\ \A x \in N : x.id = r.id => x = r
      /\ \A x \in N : x \in QNodes
      /\ data[r.id] \in Messages /\ data[r.id].pri = r.value
      /\ SlotsMatch(N, order, data) /\ Cardinality(N) = Len(heap)
  BY <1>1, <1>4 DEF HeapOf, SlotsMatch, Aged
<1>6. z \in QNodes /\ z.order = order /\ z.id = r.id /\ z.value = r.value
  BY <1>1, <1>4, <1>5 DEF NewNode, QNodes, Counters
<1>7. CanGrow(g, order, data, z, data)
  <2>1. \A x \in N : Age(order, x) < AgeBound
    <3>1. N = {heap[i] : i \in 1 .. Len(heap)} /\ DOMAIN heap = 1 .. Len(heap)
      BY <1>1, ToSetIs
    <3>. QED
      BY <1>2, <3>1 DEF AgesBounded
  <2>. QED
    BY <1>4, <1>5, <1>6, <2>1 DEF CanGrow
<1>. HIDE DEF z, g, N, r
<1>8. /\ order' \in Counters /\ Len(heap') = count /\ ToSet(heap') = (N \ {r}) \cup {z}
      /\ HeapOf(heap', order', data')
  <2>1. Grows(g, order, (order + 1) % OrderMod, z, data)
    BY <1>1, <1>7, Grown
  <2>. QED
    BY <1>1, <1>2, <1>4, <2>1 DEF Grows
<1>9. BufferType'
  BY <1>1, <1>2, <1>8 DEF BufferType, HeapOf, ring
<1>10. RingInv'
  <2>1. \A k : FreeAt(k)' = FreeAt(k)
    BY <1>2 DEF FreeAt, ring
  <2>2. \A x \in ToSet(heap') : \E y \in N : y.id = x.id
    BY <1>4, <1>6, <1>8
  <2>3. /\ stopIndex = (startIndex + (Depth - count)) % IndexMod
        /\ \A j, k \in 0 .. Depth - count - 1 : FreeAt(j) = FreeAt(k) => j = k
        /\ \A k \in 0 .. Depth - count - 1 : \A x \in N : FreeAt(k) # x.id
    BY DEF BufferInv, RingInv, N
  <2>. QED
    BY <1>2, <2>1, <2>2, <2>3 DEF RingInv, ring
<1>11. Fifo!Requeue
  <2>. DEFINE L == Listing(N, order, data, Len(heap))
  <2>1. Listed = L
    BY <1>1, ListedIs DEF N
  <2>2. Listed' = Listing((N \ {r}) \cup {z}, (order + 1) % OrderMod, data, Len(g) + 1)
    <3>1. heap' \in Seq(QNodes) /\ Len(heap') = Len(g) + 1
      BY <1>1, <1>4, <1>8 DEF HeapOf
    <3>. QED
      BY <1>2, <1>8, <3>1, ListedIs
  <2>3. /\ L # <<>> /\ Head(L) = [data[r.id] EXCEPT !.pri = r.value]
        /\ Tail(L) = Listing(N \ {r}, order, data, Len(g))
    <3>1. Len(g) = Len(heap) - 1
      BY <1>1, <1>4
    <3>2. RootIsHead(heap, order, data, L)
      BY <1>1, <1>3, TakeListing DEF N
    <3>. HIDE DEF L
    <3>. QED
      BY <3>1, <3>2 DEF RootIsHead, N, r
  <2>4. Head(L) = data[z.id]
    BY <1>1, <1>4, <1>5, <1>6, <2>3, StoredIs
  <2>5. Fifo!Placed(Listing(N \ {r}, order, data, Len(g)), data[z.id],
                    Listing((N \ {r}) \cup {z}, (order + 1) % OrderMod, data, Len(g) + 1))
    <3>1. Fifo!Placed(Listing(ToSet(g), order, data, Len(g)), data[z.id],
                      Listing(ToSet(g) \cup {z}, (order + 1) % OrderMod, data, Len(g) + 1))
      BY <1>1, <1>7, PutListing
    <3>. QED
      BY <1>4, <3>1
  <2>. HIDE DEF L
  <2>. QED
    BY <1>2, <2>1, <2>2, <2>3, <2>4, <2>5 DEF Fifo!Requeue
<1>. QED
  BY <1>2, <1>8, <1>9, <1>10, <1>11 DEF BufferInv, HeapInv

-----------------------------------------------------------------------------
(* The invariant holds, and each step is one of the abstract queue or none. *)
LEMMA BufferStep ==
    ASSUME BufferAssumption, CountersFit, BufferInv, [BufferNext]_bufferVars
    PROVE  /\ BufferInv'
           /\ [Fifo!Take \/ Fifo!Requeue \/ \E m \in Messages : Fifo!Put(m)]_<<Listed, popped>>
<1>1. ASSUME NEW m \in Messages, Push(m) PROVE BufferInv' /\ Fifo!Put(m)
  BY <1>1, PushStep
<1>2. ASSUME NEW c \in Capacities, Pop(c) PROVE BufferInv' /\ Fifo!Take
  BY <1>2, PopStep
<1>3. ASSUME NEW c \in Capacities, PopTooSmall(c) PROVE BufferInv' /\ Fifo!Requeue
  BY <1>3, PopTooSmallStep
<1>4. CASE UNCHANGED bufferVars
  <2>1. BufferInv'
    BY <1>4 DEF bufferVars, ring, BufferInv, BufferType, HeapInv, RingInv, FreeAt
  <2>2. UNCHANGED <<Listed, popped>>
    BY <1>4 DEF bufferVars, ring, Listed, Stored, Nodes, Ahead
  <2>. QED
    BY <2>1, <2>2
<1>. QED
  BY <1>1, <1>2, <1>3, <1>4 DEF BufferNext

LEMMA BufferQueueInvariant ==
    ASSUME BufferAssumption, CountersFit PROVE BufferSpec => []BufferInv
<1>1. BufferInit => BufferInv
  BY BufferStart
<1>2. BufferInv /\ [BufferNext]_bufferVars => BufferInv'
  BY BufferStep
<1>. QED
  BY <1>1, <1>2, PTL DEF BufferSpec

(* Every part of the buffer queue's state keeps its type.                  *)
THEOREM BufferQueueTypes ==
    ASSUME BufferAssumption, CountersFit PROVE BufferSpec => []BufferTypeOK
<1>1. BufferInv => BufferTypeOK
  BY DEF BufferInv, BufferType, BufferTypeOK, QNodes, Counters
<1>. QED
  BY <1>1, BufferQueueInvariant, PTL

(* checkoutIndex always gets a free slot: no message is stored over one    *)
(* that is still queued, and no slot is lost.                              *)
THEOREM SlotsAreKept ==
    ASSUME BufferAssumption, CountersFit PROVE BufferSpec => []PoolHoldsTheFreeSlots
<1>1. ASSUME BufferInv PROVE PoolHoldsTheFreeSlots
  <2>. DEFINE unused == (stopIndex - startIndex) % IndexMod
              FreeSlot(k) == indexes[((startIndex + k) % IndexMod) % Depth]
              held == [k \in 1 .. unused + Len(heap) |->
                          IF k <= unused THEN FreeSlot(k - 1) ELSE heap[k - unused].id]
  <2>1. /\ Depth \in Nat \ {0} /\ IndexMod \in Nat \ {0} /\ Depth < IndexMod /\ IndexMod % Depth = 0
    BY DEF BufferAssumption, CountersFit
  <2>2. /\ heap \in Seq(QNodes) /\ startIndex \in 0 .. IndexMod - 1 /\ count \in 0 .. Depth
        /\ Len(heap) = count /\ HeapOf(heap, order, data) /\ RingInv
    BY <1>1 DEF BufferInv, BufferType, HeapInv
  <2>3. unused = Depth - count
    <3>. DEFINE k == Depth - count
    <3>1. k \in 0 .. IndexMod - 1 /\ stopIndex = (startIndex + k) % IndexMod
      BY <2>1, <2>2 DEF RingInv
    <3>. HIDE DEF k
    <3>2. (((startIndex + k) % IndexMod) - startIndex) % IndexMod = k
      BY <2>1, <2>2, <3>1, WrappedDistance
    <3>. QED
      BY <3>1, <3>2 DEF k
  <2>. HIDE DEF unused
  <2>4. ASSUME NEW k \in 0 .. Depth - 1 PROVE FreeSlot(k) = FreeAt(k)
    <3>. DEFINE a == startIndex + k
    <3>1. WrapsWith(IndexMod, Depth)
      BY <2>1, CountsWrap
    <3>2. a \in Nat
      BY <2>1, <2>2
    <3>. HIDE DEF a
    <3>3. ((a % IndexMod) + 0) % Depth = (a + 0) % Depth /\ (a % IndexMod) + 0 = a % IndexMod /\ a + 0 = a
      BY <2>1, <3>1, <3>2 DEF WrapsWith
    <3>. QED
      BY <3>3 DEF a, FreeAt
  <2>5. held = [k \in 1 .. Depth |-> IF k <= unused THEN FreeAt(k - 1) ELSE heap[k - unused].id]
    <3>1. unused + Len(heap) = Depth
      BY <2>1, <2>2, <2>3
    <3>2. \A k \in 1 .. Depth : k <= unused => FreeSlot(k - 1) = FreeAt(k - 1)
      BY <2>1, <2>4
    <3>. QED
      BY <3>1, <3>2
  <2>6. /\ \A x, y \in ToSet(heap) : x.id = y.id => x = y
        /\ Distinct(heap) /\ \A i \in 1 .. count : heap[i] \in ToSet(heap)
    BY <2>2, ToSetIs DEF HeapOf, SlotsMatch
  <2>7. /\ \A j, k \in 0 .. unused - 1 : FreeAt(j) = FreeAt(k) => j = k
        /\ \A k \in 0 .. unused - 1 : \A x \in ToSet(heap) : FreeAt(k) # x.id
    BY <2>2, <2>3 DEF RingInv
  <2>. HIDE DEF held
  <2>8. ASSUME NEW j \in 1 .. Depth, NEW k \in 1 .. Depth, held[j] = held[k] PROVE j = k
    <3>1. CASE j <= unused /\ k <= unused
      <4>1. j - 1 \in 0 .. unused - 1 /\ k - 1 \in 0 .. unused - 1 /\ FreeAt(j - 1) = FreeAt(k - 1)
        BY <2>1, <2>2, <2>3, <2>5, <2>8, <3>1
      <4>2. j - 1 = k - 1
        BY <2>7, <4>1
      <4>. QED
        BY <4>2
    <3>2. CASE j <= unused /\ ~(k <= unused)
      <4>1. j - 1 \in 0 .. unused - 1 /\ k - unused \in 1 .. count /\ FreeAt(j - 1) = heap[k - unused].id
        BY <2>1, <2>2, <2>3, <2>5, <2>8, <3>2
      <4>. QED
        BY <2>6, <2>7, <4>1
    <3>3. CASE ~(j <= unused) /\ k <= unused
      <4>1. k - 1 \in 0 .. unused - 1 /\ j - unused \in 1 .. count /\ FreeAt(k - 1) = heap[j - unused].id
        BY <2>1, <2>2, <2>3, <2>5, <2>8, <3>3
      <4>. QED
        BY <2>6, <2>7, <4>1
    <3>4. CASE ~(j <= unused) /\ ~(k <= unused)
      <4>1. /\ j - unused \in 1 .. count /\ k - unused \in 1 .. count
            /\ heap[j - unused].id = heap[k - unused].id
        BY <2>1, <2>2, <2>3, <2>5, <2>8, <3>4
      <4>2. j - unused = k - unused
        BY <2>2, <2>6, <4>1 DEF Distinct
      <4>. QED
        BY <2>1, <2>2, <2>3, <4>2
    <3>. QED
      BY <3>1, <3>2, <3>3, <3>4
  <2>9. Len(held) = Depth /\ IsInjective(held)
    <3>1. DOMAIN held = 1 .. Depth
      BY <2>5
    <3>2. Len(held) = Depth
      BY <2>1, <3>1
    <3>. QED
      BY <2>8, <3>1, <3>2 DEF IsInjective
  <2>10. BufferTypeOK
    BY <1>1 DEF BufferInv, BufferType, BufferTypeOK, QNodes, Counters
  <2>. QED
    BY <2>2, <2>9, <2>10 DEF PoolHoldsTheFreeSlots, held, unused
<1>2. BufferInv => PoolHoldsTheFreeSlots
  BY <1>1
<1>. QED
  BY <1>2, BufferQueueInvariant, PTL

(* Messages come out by priority, those of one priority first in first out *)
(* unless a receive failed, each once and with its own content.            *)
THEOREM BufferQueueIsFifo ==
    ASSUME BufferAssumption, CountersFit PROVE BufferSpec => ImplementsFifo
<1>1. BufferInit => Fifo!InitFifo
  <2>1. ASSUME BufferInit PROVE Listed = <<>> /\ popped = Fifo!NoMessage
    <3>1. heap = <<>> /\ DOMAIN heap = {}
      BY <2>1 DEF BufferInit
    <3>2. Listed = <<>>
      BY <3>1 DEF Listed
    <3>. QED
      BY <2>1, <3>2 DEF BufferInit, NoMessage, Fifo!NoMessage
  <2>. QED
    BY <2>1 DEF Fifo!InitFifo
<1>2. BufferInv /\ [BufferNext]_bufferVars
      => [Fifo!Take \/ Fifo!Requeue \/ \E m \in Messages : Fifo!Put(m)]_<<Listed, popped>>
  BY BufferStep
<1>. QED
  BY <1>1, <1>2, BufferQueueInvariant, PTL DEF BufferSpec, ImplementsFifo, Fifo!FifoSpec

-----------------------------------------------------------------------------
(* Os::Queue.                                                              *)
USE ThreadsAssumption

(* Placing a message makes the sequence of messages one longer.            *)
LEMMA PlacedType ==
    ASSUME NEW q \in Seq(Messages), NEW m \in Messages, NEW s, Placed(q, m, s)
    PROVE  s \in Seq(Messages) /\ Len(s) = Len(q) + 1
<1>1. PICK k \in 0 .. Len(q) :
         s = [i \in 1 .. Len(q) + 1 |->
                 IF i <= k THEN q[i] ELSE IF i = k + 1 THEN m ELSE q[i - 1]]
  BY DEF Placed
<1>2. \A i \in 1 .. Len(q) + 1 : s[i] \in Messages
  BY <1>1, ElementOfSeq
<1>3. Len(q) + 1 \in Nat
  OBVIOUS
<1>4. s = [i \in 1 .. Len(q) + 1 |-> s[i]]
  BY <1>1
<1> QED
  BY <1>2, <1>3, <1>4, IsASeq

(* What is at the head of the queue is a message, and the rest is a queue. *)
LEMMA HeadTail ==
    ASSUME NEW q \in Seq(Messages), q # <<>>
    PROVE  /\ Head(q) \in Messages /\ Tail(q) \in Seq(Messages)
           /\ Len(q) \in Nat \ {0} /\ Len(Tail(q)) = Len(q) - 1
<1>1. Len(q) \in Nat \ {0}
  BY EmptySeq, LenProperties
<1> QED
  BY <1>1, HeadTailProperties

(* The thread t may be in a section that waits on c: it is in no other     *)
(* call and does not wait.                                                 *)
Other(c) == IF c = "queueNotFull" THEN "queueNotEmpty" ELSE "queueNotFull"

Runs(t, c) ==
    /\ t \in Threads
    /\ t \notin waiting[c] /\ t \notin waiting[Other(c)] /\ t \notin woken[Other(c)]

(* Every step is of one of seven kinds.                                    *)
LEMMA Steps ==
    ASSUME TypeOK, [Next]_vars
    PROVE  \/ UNCHANGED vars
           \/ \E t \in Threads, m \in Messages : Runs(t, "queueNotFull") /\ SendNow(t, m)
           \/ \E t \in Threads, n \in Capacities :
                 Runs(t, "queueNotEmpty") /\ ReceiveNow(t, n)
           \/ \E t \in Threads, m \in Messages :
                 Runs(t, "queueNotFull") /\ Len(msgs) = Depth /\ Wait(t, "queueNotFull", m)
           \/ \E t \in Threads, n \in Capacities :
                 /\ Runs(t, "queueNotEmpty") /\ msgs = <<>>
                 /\ Wait(t, "queueNotEmpty", [capacity |-> n])
           \/ \E t \in Threads, c \in Conds : SpuriousWakeup(t, c)
<1> DEFINE NE == "queueNotEmpty"
           NF == "queueNotFull"
<1>1. \A t \in Threads : Idle(t) => Runs(t, NE) /\ Runs(t, NF)
  BY DEF Idle, Runs, Other, Conds
<1>2. \A t \in woken[NE] : Runs(t, NE) /\ arg[t].capacity \in Capacities
                           /\ arg[t] = [capacity |-> arg[t].capacity]
  BY DEF TypeOK, Runs, Other, Conds
<1>3. \A t \in woken[NF] : Runs(t, NF) /\ arg[t] \in Messages
  BY DEF TypeOK, Runs, Other, Conds
<1>4. ASSUME NEW t \in Threads, NEW m \in Messages, SendNonBlock(t, m) \/ SendBlock(t, m)
      PROVE  \/ UNCHANGED vars
             \/ Runs(t, NF) /\ SendNow(t, m)
             \/ Runs(t, NF) /\ Len(msgs) = Depth /\ Wait(t, NF, m)
  BY <1>1, <1>4 DEF SendNonBlock, SendBlock, SendOrWait
<1>5. ASSUME NEW t \in Threads, NEW n \in Capacities,
             ReceiveNonBlock(t, n) \/ ReceiveBlock(t, n)
      PROVE  \/ UNCHANGED vars
             \/ Runs(t, NE) /\ ReceiveNow(t, n)
             \/ Runs(t, NE) /\ msgs = <<>> /\ Wait(t, NE, [capacity |-> n])
  BY <1>1, <1>5 DEF ReceiveNonBlock, ReceiveBlock, ReceiveOrWait
<1>6. ASSUME NEW t \in Threads, ResumeSend(t)
      PROVE  \E m \in Messages :
                \/ Runs(t, NF) /\ SendNow(t, m)
                \/ Runs(t, NF) /\ Len(msgs) = Depth /\ Wait(t, NF, m)
  BY <1>3, <1>6 DEF ResumeSend, SendOrWait
<1>7. ASSUME NEW t \in Threads, ResumeReceive(t)
      PROVE  \E n \in Capacities :
                \/ Runs(t, NE) /\ ReceiveNow(t, n)
                \/ Runs(t, NE) /\ msgs = <<>> /\ Wait(t, NE, [capacity |-> n])
  BY <1>2, <1>7 DEF ResumeReceive, ReceiveOrWait
<1> QED
  BY <1>4, <1>5, <1>6, <1>7, Zenon DEF Next

(* Leaving with a signal keeps every thread in at most one place.          *)
LEMMA LeaveType ==
    ASSUME TypeOK, NEW c \in Conds, NEW t, Runs(t, c),
           SignalAndLeave(t, c, Other(c))
    PROVE  /\ waiting' \in [Conds -> SUBSET Threads] /\ woken' \in [Conds -> SUBSET Threads]
           /\ \A d \in Conds : /\ waiting'[d] \cap woken'[d] = {}
                               /\ waiting'[d] \cup woken'[d]
                                    \subseteq (waiting[d] \cup woken[d]) \ {t}
           /\ arg' = [arg EXCEPT ![t] = NoArg]
<1>1. Other(c) \in Conds /\ Other(c) # c
  BY DEF Other, Conds
<1>2. CASE waiting[Other(c)] = {} /\ woken' = [woken EXCEPT ![c] = @ \ {t}]
           /\ UNCHANGED waiting
  BY <1>1, <1>2 DEF TypeOK, Runs, SignalAndLeave, Conds, Other
<1>3. ASSUME NEW w \in waiting[Other(c)],
             waiting' = [waiting EXCEPT ![Other(c)] = @ \ {w}],
             woken' = [woken EXCEPT ![c] = @ \ {t}, ![Other(c)] = @ \cup {w}]
      PROVE  /\ waiting' \in [Conds -> SUBSET Threads]
             /\ woken' \in [Conds -> SUBSET Threads]
             /\ \A d \in Conds : /\ waiting'[d] \cap woken'[d] = {}
                                 /\ waiting'[d] \cup woken'[d]
                                      \subseteq (waiting[d] \cup woken[d]) \ {t}
  BY <1>1, <1>3 DEF TypeOK, Runs, Conds, Other
<1> QED
  BY <1>2, <1>3 DEF SignalAndLeave
(* Where a leaving thread's call is concerned the type invariant holds     *)
(* again, whatever became of the messages.                                 *)
LEMMA ThreadPlaces ==
    ASSUME TypeOK,
           waiting' \in [Conds -> SUBSET Threads], woken' \in [Conds -> SUBSET Threads],
           NEW t \in Threads,
           \A d \in Conds : /\ waiting'[d] \cap woken'[d] = {}
                            /\ waiting'[d] \cup woken'[d]
                                 \subseteq (waiting[d] \cup woken[d]) \ {t},
           arg' = [arg EXCEPT ![t] = NoArg],
           msgs' \in Seq(Messages), Len(msgs') <= Depth,
           last' \in Messages \cup {NoMessage}, wasted' \in BOOLEAN
    PROVE  TypeOK'
<1> DEFINE In(c) == waiting[c] \cup woken[c]
           In2(c) == (waiting[c] \cup woken[c])'
<1>1. In2("queueNotEmpty") \subseteq In("queueNotEmpty") \ {t}
  BY DEF Conds
<1>2. In2("queueNotFull") \subseteq In("queueNotFull") \ {t}
  BY DEF Conds
<1>3. In2("queueNotEmpty") \cap In2("queueNotFull") = {}
  BY <1>1, <1>2 DEF TypeOK
<1>4. arg' \in [Threads -> Messages \cup [capacity : Capacities] \cup {NoArg}]
  BY DEF TypeOK
<1>5. \A u \in In2("queueNotEmpty") : arg'[u] \in [capacity : Capacities]
  BY <1>1 DEF TypeOK, Conds
<1>6. \A u \in In2("queueNotFull") : arg'[u] \in Messages
  BY <1>2 DEF TypeOK, Conds
<1> QED
  BY <1>3, <1>4, <1>5, <1>6 DEF TypeOK

LEMMA WaitType ==
    ASSUME TypeOK, NEW c \in Conds, NEW t, Runs(t, c), NEW a, Wait(t, c, a),
           \/ c = "queueNotFull" /\ a \in Messages
           \/ c = "queueNotEmpty" /\ a \in [capacity : Capacities]
    PROVE  TypeOK'
<1>1. arg' \in [Threads -> Messages \cup [capacity : Capacities] \cup {NoArg}]
  BY DEF TypeOK, Wait
<1>2. waiting' \in [Conds -> SUBSET Threads] /\ woken' \in [Conds -> SUBSET Threads]
  BY DEF TypeOK, Wait, Runs
<1>3. \A d \in Conds : waiting'[d] \cap woken'[d] = {}
  BY DEF TypeOK, Wait, Runs
<1>4. /\ (waiting[c] \cup woken[c])' \subseteq waiting[c] \cup woken[c] \cup {t}
      /\ (waiting[Other(c)] \cup woken[Other(c)])' = waiting[Other(c)] \cup woken[Other(c)]
      /\ t \notin waiting[Other(c)] \cup woken[Other(c)]
      /\ arg' = [arg EXCEPT ![t] = a] /\ t \in Threads
  BY DEF TypeOK, Wait, Runs, Other, Conds
<1>5. CASE c = "queueNotFull"
  BY <1>1, <1>2, <1>3, <1>4, <1>5 DEF TypeOK, Other, Conds, Wait
<1>6. CASE c = "queueNotEmpty"
  BY <1>1, <1>2, <1>3, <1>4, <1>6 DEF TypeOK, Other, Conds, Wait
<1> QED
  BY <1>5, <1>6 DEF Conds

(* The type invariant is inductive.                                        *)
LEMMA TypeStep == TypeOK /\ [Next]_vars => TypeOK'
<1> SUFFICES ASSUME TypeOK, [Next]_vars PROVE TypeOK'
  OBVIOUS
<1>1. CASE UNCHANGED vars
  BY <1>1 DEF vars, TypeOK
<1>2. ASSUME NEW t \in Threads, NEW m \in Messages, Runs(t, "queueNotFull"), SendNow(t, m)
      PROVE  TypeOK'
  <2>1. msgs' \in Seq(Messages) /\ Len(msgs') <= Depth
    BY <1>2, PlacedType DEF SendNow, Put, TypeOK
  <2>2. last' \in Messages \cup {NoMessage}
    BY <1>2 DEF SendNow, Put, TypeOK
  <2>3. "queueNotFull" \in Conds /\ Other("queueNotFull") = "queueNotEmpty"
    BY DEF Conds, Other
  <2>4. wasted' \in BOOLEAN
    BY <1>2 DEF SendNow, SignalAndLeave, TypeOK
  <2>5. /\ waiting' \in [Conds -> SUBSET Threads] /\ woken' \in [Conds -> SUBSET Threads]
        /\ \A d \in Conds : /\ waiting'[d] \cap woken'[d] = {}
                            /\ waiting'[d] \cup woken'[d]
                                 \subseteq (waiting[d] \cup woken[d]) \ {t}
        /\ arg' = [arg EXCEPT ![t] = NoArg]
    BY <1>2, <2>3, LeaveType DEF SendNow
  <2> QED
    BY <2>1, <2>2, <2>4, <2>5, ThreadPlaces
<1>3. ASSUME NEW t \in Threads, NEW n \in Capacities, Runs(t, "queueNotEmpty"),
             ReceiveNow(t, n)
      PROVE  TypeOK'
  <2>1. msgs # <<>> /\ msgs \in Seq(Messages)
    BY <1>3 DEF ReceiveNow, TypeOK
  <2>2. CASE Take /\ SignalAndLeave(t, "queueNotEmpty", "queueNotFull")
    <3>1. msgs' \in Seq(Messages) /\ Len(msgs') <= Depth /\ last' \in Messages
      BY <2>1, <2>2, HeadTail DEF Take, TypeOK
    <3>2. "queueNotEmpty" \in Conds /\ Other("queueNotEmpty") = "queueNotFull"
      BY DEF Conds, Other
    <3>3. wasted' \in BOOLEAN
      BY <2>2 DEF SignalAndLeave, TypeOK
    <3>4. /\ waiting' \in [Conds -> SUBSET Threads] /\ woken' \in [Conds -> SUBSET Threads]
          /\ \A d \in Conds : /\ waiting'[d] \cap woken'[d] = {}
                              /\ waiting'[d] \cup woken'[d]
                                   \subseteq (waiting[d] \cup woken[d]) \ {t}
          /\ arg' = [arg EXCEPT ![t] = NoArg]
      BY <1>3, <2>2, <3>2, LeaveType
    <3> QED
      BY <3>1, <3>3, <3>4, ThreadPlaces
  <2>3. CASE TooSmall(t)
    <3>1. msgs' \in Seq(Messages) /\ Len(msgs') <= Depth
      <4>1. /\ Head(msgs) \in Messages /\ Tail(msgs) \in Seq(Messages)
            /\ Len(Tail(msgs)) = Len(msgs) - 1 /\ Len(msgs) \in Nat
        BY <2>1, HeadTail
      <4>2. msgs' \in Seq(Messages) /\ Len(msgs') = Len(Tail(msgs)) + 1
        BY <2>3, <4>1, PlacedType DEF TooSmall, Requeue
      <4> QED
        BY <4>1, <4>2 DEF TypeOK
    <3>2. /\ waiting' \in [Conds -> SUBSET Threads] /\ woken' \in [Conds -> SUBSET Threads]
          /\ \A d \in Conds : /\ waiting'[d] \cap woken'[d] = {}
                              /\ waiting'[d] \cup woken'[d]
                                   \subseteq (waiting[d] \cup woken[d]) \ {t}
      BY <1>3, <2>3 DEF TooSmall, TypeOK, Runs, Other, Conds
    <3>3. wasted' \in BOOLEAN
      BY <2>3 DEF TooSmall, TypeOK
    <3> QED
      BY <2>3, <3>1, <3>2, <3>3, ThreadPlaces DEF TooSmall, Requeue, TypeOK
  <2> QED
    BY <1>3, <2>2, <2>3 DEF ReceiveNow
<1>4. ASSUME NEW t \in Threads, NEW m \in Messages, Runs(t, "queueNotFull"),
             Wait(t, "queueNotFull", m)
      PROVE  TypeOK'
  BY <1>4, WaitType DEF Conds
<1>5. ASSUME NEW t \in Threads, NEW n \in Capacities, Runs(t, "queueNotEmpty"),
             Wait(t, "queueNotEmpty", [capacity |-> n])
      PROVE  TypeOK'
  BY <1>5, WaitType DEF Conds
<1>6. ASSUME NEW t \in Threads, NEW c \in Conds, SpuriousWakeup(t, c)
      PROVE  TypeOK'
  BY <1>6 DEF SpuriousWakeup, TypeOK, Conds
<1> QED
  BY <1>1, <1>2, <1>3, <1>4, <1>5, <1>6, Steps

(* Every reachable state is well typed: a thread is in one call at most    *)
(* and keeps its message or capacity while it waits (TypeOK).              *)
THEOREM TypeCorrect == Spec => []TypeOK
<1>1. Init => TypeOK
  <2> SUFFICES ASSUME Init PROVE TypeOK
    OBVIOUS
  <2>1. msgs \in Seq(Messages) /\ Len(msgs) <= Depth /\ last \in Messages \cup {NoMessage}
    BY EmptySeq DEF Init, InitFifo
  <2>2. wasted \in BOOLEAN
    BY DEF Init
  <2> QED
    BY <2>1, <2>2 DEF Init, TypeOK, Conds, NoArg
<1> QED
  BY <1>1, TypeStep, PTL DEF Spec

(* Sets of threads are finite, so that the woken ones can be counted.      *)
LEMMA Counting ==
    ASSUME NEW S \in SUBSET Threads
    PROVE  /\ Cardinality(S) \in Nat
           /\ \A w \in Threads \ S : Cardinality(S \cup {w}) = Cardinality(S) + 1
           /\ \A t : Cardinality(S \ {t}) >= Cardinality(S) - 1
<1>1. IsFiniteSet(S)
  BY FS_Subset
<1>2. Cardinality(S) \in Nat
  BY <1>1, FS_CardinalityType
<1>3. ASSUME NEW w \in Threads \ S PROVE Cardinality(S \cup {w}) = Cardinality(S) + 1
  BY <1>1, <1>3, FS_AddElement
<1>4. ASSUME NEW t PROVE Cardinality(S \ {t}) >= Cardinality(S) - 1
  <2>1. CASE t \in S
    <3>1. Cardinality(S \ {t}) = Cardinality(S) - 1
      BY <1>1, <2>1, FS_RemoveElement
    <3> QED
      BY <1>2, <3>1
  <2>2. CASE t \notin S
    <3>1. S \ {t} = S
      BY <2>2
    <3>2. Cardinality(S \ {t}) = Cardinality(S)
      BY <3>1
    <3> QED
      BY <1>2, <3>2
  <2> QED
    BY <2>1, <2>2
<1> QED
  BY <1>2, <1>3, <1>4

(* A thread that leaves may count as one of the woken for its own end of   *)
(* the queue, and wakes one for the other end if any waits there.          *)
LEMMA LeaveCount ==
    ASSUME TypeOK, NEW c \in Conds, NEW t, Runs(t, c),
           SignalAndLeave(t, c, Other(c))
    PROVE  /\ waiting'[c] = waiting[c]
           /\ Cardinality(woken'[c]) >= Cardinality(woken[c]) - 1
           /\ waiting'[Other(c)] # {} =>
                 /\ waiting[Other(c)] # {}
                 /\ Cardinality(woken'[Other(c)]) = Cardinality(woken[Other(c)]) + 1
<1> DEFINE d == Other(c)
<1>1. d \in Conds /\ d # c
  BY DEF Other, Conds
<1>2. CASE waiting[d] = {} /\ woken' = [woken EXCEPT ![c] = @ \ {t}] /\ UNCHANGED waiting
  <2>1. woken'[c] = woken[c] \ {t} /\ woken[c] \in SUBSET Threads
    BY <1>2 DEF TypeOK
  <2> QED
    BY <1>2, <2>1, Counting
<1>3. ASSUME NEW w \in waiting[d], waiting' = [waiting EXCEPT ![d] = @ \ {w}],
             woken' = [woken EXCEPT ![c] = @ \ {t}, ![d] = @ \cup {w}]
      PROVE  /\ waiting'[c] = waiting[c] /\ waiting[d] # {}
             /\ Cardinality(woken'[c]) >= Cardinality(woken[c]) - 1
             /\ Cardinality(woken'[d]) = Cardinality(woken[d]) + 1
  <2>1. /\ woken'[c] = woken[c] \ {t} /\ woken[c] \in SUBSET Threads
        /\ woken'[d] = woken[d] \cup {w} /\ woken[d] \in SUBSET Threads
        /\ w \in Threads \ woken[d] /\ waiting'[c] = waiting[c]
    BY <1>1, <1>3 DEF TypeOK
  <2> QED
    BY <1>3, <2>1, Counting
<1> QED
  BY <1>2, <1>3 DEF SignalAndLeave

(* No step loses a wakeup.                                                 *)
LEMMA WakeupStep ==
    ASSUME TypeOK, EnoughAwake, [Next]_vars
    PROVE  EnoughAwake'
<1> DEFINE NE == "queueNotEmpty"
           NF == "queueNotFull"
<1>0. /\ NE \in Conds /\ NF \in Conds /\ Other(NE) = NF /\ Other(NF) = NE
      /\ Len(msgs) \in Nat /\ Depth \in Nat
      /\ Cardinality(woken[NE]) \in Nat /\ Cardinality(woken[NF]) \in Nat
  BY Counting, LenProperties DEF Conds, Other, TypeOK
<1>1. CASE UNCHANGED vars
  BY <1>1 DEF vars, EnoughAwake
<1>2. ASSUME NEW t \in Threads, NEW m \in Messages, Runs(t, NF), SendNow(t, m)
      PROVE  EnoughAwake'
  <2>1. Len(msgs') = Len(msgs) + 1
    BY <1>2, PlacedType DEF SendNow, Put, TypeOK
  <2>2. /\ waiting'[NF] = waiting[NF]
        /\ Cardinality(woken'[NF]) >= Cardinality(woken[NF]) - 1
        /\ waiting'[NE] # {} => /\ waiting[NE] # {}
                                /\ Cardinality(woken'[NE]) = Cardinality(woken[NE]) + 1
    BY <1>0, <1>2, LeaveCount DEF SendNow
  <2>3. Cardinality(woken'[NF]) \in Nat
    BY <1>0, <1>2, TypeStep, Counting DEF TypeOK
  <2>4. CASE wasted
    <3>1. wasted'
      BY <1>2, <2>4, Zenon DEF SendNow, SignalAndLeave
    <3> QED
      BY <1>0, <2>1, <2>2, <2>3, <3>1 DEF EnoughAwake
  <2>5. CASE ~wasted
    BY <1>0, <2>1, <2>2, <2>3, <2>5 DEF EnoughAwake
  <2> QED
    BY <2>4, <2>5
<1>3. ASSUME NEW t \in Threads, NEW n \in Capacities, Runs(t, NE), ReceiveNow(t, n)
      PROVE  EnoughAwake'
  <2>1. CASE msgs # <<>> /\ Take /\ SignalAndLeave(t, NE, NF)
    <3>1. Len(msgs') = Len(msgs) - 1
      BY <2>1, HeadTail DEF Take, TypeOK
    <3>2. /\ waiting'[NE] = waiting[NE] /\ wasted' = wasted
          /\ Cardinality(woken'[NE]) >= Cardinality(woken[NE]) - 1
          /\ waiting'[NF] # {} => /\ waiting[NF] # {}
                                  /\ Cardinality(woken'[NF]) = Cardinality(woken[NF]) + 1
      BY <1>0, <1>3, <2>1, LeaveCount DEF SignalAndLeave
    <3>3. Cardinality(woken'[NE]) \in Nat
      BY <1>0, TypeStep, Counting DEF TypeOK
    <3> QED
      BY <1>0, <3>1, <3>2, <3>3 DEF EnoughAwake
  <2>2. CASE msgs # <<>> /\ TooSmall(t)
    <3>1. Len(msgs') = Len(msgs)
      <4>1. /\ Head(msgs) \in Messages /\ Tail(msgs) \in Seq(Messages)
            /\ Len(Tail(msgs)) = Len(msgs) - 1
        BY <2>2, HeadTail DEF TypeOK
      <4>2. Len(msgs') = Len(Tail(msgs)) + 1
        BY <2>2, <4>1, PlacedType DEF TooSmall, Requeue
      <4> QED
        BY <1>0, <4>1, <4>2
    <3>2. waiting' = waiting /\ woken'[NF] = woken[NF]
      BY <1>0, <2>2 DEF TooSmall, TypeOK
    <3>3. CASE t \in woken[NE]
      <4>1. wasted'
        BY <2>2, <3>3, Zenon DEF TooSmall
      <4> QED
        BY <1>0, <3>1, <3>2, <4>1 DEF EnoughAwake
    <3>4. CASE t \notin woken[NE]
      <4>1. wasted => wasted'
        BY <2>2, Zenon DEF TooSmall
      <4>2. woken'[NE] = woken[NE]
        BY <1>0, <2>2, <3>4 DEF TooSmall, TypeOK
      <4> QED
        BY <1>0, <3>1, <3>2, <4>1, <4>2 DEF EnoughAwake
    <3> QED
      BY <3>3, <3>4
  <2> QED
    BY <1>3, <2>1, <2>2 DEF ReceiveNow
<1>4. ASSUME NEW t \in Threads, NEW c \in Conds, NEW a, Runs(t, c), Wait(t, c, a),
             \/ c = NF /\ Len(msgs) = Depth
             \/ c = NE /\ Len(msgs) = 0
      PROVE  EnoughAwake'
  <2>1. /\ msgs' = msgs /\ waiting'[Other(c)] = waiting[Other(c)]
        /\ woken'[Other(c)] = woken[Other(c)]
    BY <1>4 DEF Wait, TypeOK, Other, Conds
  <2>2. Cardinality(woken'[c]) \in Nat
    BY <1>0, TypeStep, Counting DEF TypeOK
  <2>3. CASE c = NF
    <3>1. Len(msgs) = Depth
      BY <1>0, <1>4, <2>3
    <3>2. wasted => wasted'
      BY <1>4, Zenon DEF Wait
    <3> QED
      BY <1>0, <2>1, <2>2, <2>3, <3>1, <3>2 DEF EnoughAwake
  <2>4. CASE c = NE
    BY <1>0, <1>4, <2>1, <2>2, <2>4 DEF EnoughAwake
  <2> QED
    BY <2>3, <2>4 DEF Conds
<1>5. ASSUME NEW t \in Threads, NEW c \in Conds, SpuriousWakeup(t, c)
      PROVE  EnoughAwake'
  <2>1. /\ msgs' = msgs /\ woken'[c] = woken[c] \cup {t} /\ waiting[c] # {}
        /\ t \in Threads \ woken[c] /\ woken[c] \in SUBSET Threads
        /\ \A d \in Conds \ {c} : woken'[d] = woken[d] /\ waiting'[d] = waiting[d]
    BY <1>5 DEF SpuriousWakeup, TypeOK
  <2>2. Cardinality(woken'[c]) = Cardinality(woken[c]) + 1
    BY <2>1, Counting
  <2>3. CASE c = NE
    <3>1. woken'[NF] = woken[NF] /\ waiting'[NF] = waiting[NF]
      BY <1>0, <2>1, <2>3 DEF Conds
    <3>2. Cardinality(woken'[NE]) = Cardinality(woken[NE]) + 1 /\ waiting[NE] # {}
      BY <2>1, <2>2, <2>3
    <3>3. wasted' \/ Cardinality(woken[NE]) >= Len(msgs)
      BY <1>5, <3>2 DEF EnoughAwake, SpuriousWakeup
    <3>4. wasted' \/ Cardinality(woken'[NE]) >= Len(msgs)
      BY <1>0, <3>2, <3>3
    <3> QED
      BY <2>1, <3>1, <3>4 DEF EnoughAwake
  <2>4. CASE c = NF
    <3>1. woken'[NE] = woken[NE] /\ waiting'[NE] = waiting[NE]
      BY <1>0, <2>1, <2>4 DEF Conds
    <3>2. Cardinality(woken'[NF]) = Cardinality(woken[NF]) + 1 /\ waiting[NF] # {}
      BY <2>1, <2>2, <2>4
    <3>3. Cardinality(woken[NF]) >= Depth - Len(msgs)
      BY <3>2 DEF EnoughAwake
    <3>4. Cardinality(woken'[NF]) >= Depth - Len(msgs)
      BY <1>0, <3>2, <3>3
    <3>5. wasted => wasted'
      BY <1>5, Zenon DEF SpuriousWakeup
    <3> QED
      BY <2>1, <2>4, <3>1, <3>4, <3>5 DEF EnoughAwake
  <2> QED
    BY <2>3, <2>4 DEF Conds
<1>6. \A t \in Threads, m \in Messages :
         Runs(t, NF) /\ Len(msgs) = Depth /\ Wait(t, NF, m) => EnoughAwake'
  BY <1>0, <1>4
<1>7. \A t \in Threads, n \in Capacities :
         Runs(t, NE) /\ msgs = <<>> /\ Wait(t, NE, [capacity |-> n]) => EnoughAwake'
  BY <1>0, <1>4, EmptySeq
<1> QED
  BY <1>1, <1>2, <1>3, <1>5, <1>6, <1>7, Steps

(* No wakeup is lost unless a woken receiver left without its message      *)
(* (NoLostWakeup): a message never lies in the queue with a receiver       *)
(* asleep and nobody on the way to take it, nor a free place with a sender *)
(* asleep.                                                                 *)
THEOREM NoLostWakeupCorrect == Spec => []NoLostWakeup
<1>1. Init => EnoughAwake
  BY DEF Init, EnoughAwake, Conds
<1>2. TypeOK /\ EnoughAwake /\ [Next]_vars => EnoughAwake'
  BY WakeupStep
<1>3. TypeOK /\ EnoughAwake => NoLostWakeup
  BY DEF NoLostWakeup
<1> QED
  BY <1>1, <1>2, <1>3, TypeCorrect, PTL DEF Spec

-----------------------------------------------------------------------------
(* The buffer accumulator.                                                 *)

(* Remainders of what lies less than two turns ahead.                      *)
LEMMA Turn ==
    ASSUME NEW c \in Nat \ {0}
    PROVE  /\ \A a \in 0 .. c - 1 : a % c = a /\ (a + c) % c = a
           /\ \A a \in Nat : a % c \in 0 .. c - 1
  OBVIOUS

(* The place that lies i behind the front d of a ring.                     *)
Behind(d, i) == IF d + i < Capacity THEN d + i ELSE d + i - Capacity

(* The ring, its buffers in the order of their coming, and where it ends.  *)
RingOf(q, s) ==
    /\ q \in Rings /\ s \in Seq(Buffers)
    /\ Len(s) = q.size
    /\ \A i \in 1 .. q.size : s[i] = q.elements[Behind(q.dequeueIndex, i - 1)]
    /\ Capacity > 0 => q.enqueueIndex = Behind(q.dequeueIndex, q.size)

Settled(drains, s, sends, outside) ==
    /\ drains /\ ~sends => outside # {}
    /\ drains /\ sends => s = <<>>

(* Every buffer is in one place.                                           *)
Parted(up, outside, gone, s) ==
    /\ IsInjective(s)
    /\ LET places == <<up, outside, gone, ToSet(s)>>
       IN  \A b \in Buffers : \E i \in 1 .. 4 : \A j \in 1 .. 4 : b \in places[j] <=> j = i

AccumulatorInv ==
    /\ AccumulatorTypeOK
    /\ RingOf(bufferQueue, stored)
    /\ Settled(mode = "DRAIN", stored, send, out)
    /\ Parted(upstream, out, dropped, stored)

LEMMA BehindIs ==
    ASSUME AccumulatorAssumption, Capacity > 0, NEW d \in Places, NEW i \in 0 .. Capacity - 1
    PROVE  /\ Behind(d, i) \in Places
           /\ (d + i) % Capacity = Behind(d, i)
           /\ (d + 1) % Capacity \in Places
           /\ Behind((d + 1) % Capacity, i) = Behind(d, i + 1)
           /\ (Behind(d, i) + 1) % Capacity = Behind(d, i + 1)
           /\ \A j \in 0 .. Capacity - 1 : Behind(d, j) = Behind(d, i) => j = i
<1>1. Capacity \in Nat \ {0} BY DEF AccumulatorAssumption
<1>2. \A a \in 0 .. Capacity - 1 : a % Capacity = a /\ (a + Capacity) % Capacity = a
  BY <1>1, Turn
<1>3. d \in 0 .. Capacity - 1 BY DEF Places
<1>4. (d + 1) % Capacity = IF d + 1 < Capacity THEN d + 1 ELSE 0
  <2>1. CASE d + 1 < Capacity
    <3>1. d + 1 \in 0 .. Capacity - 1 BY <2>1, <1>1, <1>3
    <3> QED BY <3>1, <2>1, <1>2
  <2>2. CASE ~(d + 1 < Capacity)
    <3>1. d + 1 = 0 + Capacity /\ 0 \in 0 .. Capacity - 1 BY <2>2, <1>1, <1>3
    <3> QED BY <3>1, <2>2, <1>2
  <2> QED BY <2>1, <2>2
<1>5. Behind(d, i) \in 0 .. Capacity - 1 BY <1>1, <1>3 DEF Behind
<1>6. (Behind(d, i) + 1) % Capacity = IF Behind(d, i) + 1 < Capacity THEN Behind(d, i) + 1 ELSE 0
  <2> DEFINE e == Behind(d, i)
  <2> HIDE DEF e
  <2>0. e \in 0 .. Capacity - 1 BY <1>5 DEF e
  <2>1. CASE e + 1 < Capacity
    <3>1. e + 1 \in 0 .. Capacity - 1 BY <2>1, <1>1, <2>0
    <3> QED BY <3>1, <2>1, <1>2 DEF e
  <2>2. CASE ~(e + 1 < Capacity)
    <3>1. e + 1 = 0 + Capacity /\ 0 \in 0 .. Capacity - 1 BY <2>2, <1>1, <2>0
    <3> QED BY <3>1, <2>2, <1>2 DEF e
  <2> QED BY <2>1, <2>2 DEF e
<1>7. (d + i) % Capacity = Behind(d, i)
  <2>1. d + i = Behind(d, i) \/ d + i = Behind(d, i) + Capacity BY <1>1, <1>3 DEF Behind
  <2> QED BY <2>1, <1>5, <1>2
<1>8. Behind((d + 1) % Capacity, i) = Behind(d, i + 1)
  BY <1>1, <1>3, <1>4 DEF Behind
<1>9. (Behind(d, i) + 1) % Capacity = Behind(d, i + 1)
  BY <1>1, <1>3, <1>6 DEF Behind
<1>10. \A j \in 0 .. Capacity - 1 : Behind(d, j) = Behind(d, i) => j = i
  BY <1>1, <1>3 DEF Behind
<1>11. (d + 1) % Capacity \in Places BY <1>1, <1>3, <1>4 DEF Places
<1> QED BY <1>5, <1>7, <1>8, <1>9, <1>10, <1>11 DEF Places

(* What the ring holds.                                                    *)
LEMMA ContentsAre ==
    ASSUME AccumulatorAssumption, NEW q, NEW s, RingOf(q, s)
    PROVE  Contents(q) = s
<1>1. /\ q.size \in 0 .. Capacity /\ s \in Seq(Buffers) /\ Len(s) = q.size
      /\ q.dequeueIndex \in Places \cup {0} /\ Capacity \in Nat
  BY DEF RingOf, Rings, AccumulatorAssumption
<1>2. ASSUME NEW i \in 1 .. q.size
      PROVE  q.elements[(q.dequeueIndex + i - 1) % Capacity] = s[i]
  <2>1. /\ Capacity > 0 /\ i - 1 \in 0 .. Capacity - 1 /\ q.dequeueIndex \in Places
        /\ q.dequeueIndex + i - 1 = q.dequeueIndex + (i - 1)
    BY <1>1 DEF Places
  <2>2. (q.dequeueIndex + (i - 1)) % Capacity = Behind(q.dequeueIndex, i - 1)
    BY <2>1, BehindIs
  <2> QED BY <2>1, <2>2 DEF RingOf
<1>3. s = [i \in 1 .. q.size |-> s[i]] BY <1>1
<1> QED BY <1>2, <1>3 DEF Contents

LEMMA EnqueueKeeps ==
    ASSUME AccumulatorAssumption, NEW q, NEW s, RingOf(q, s), NEW b \in Buffers, q.size < Capacity
    PROVE  RingOf(Enqueue(q, b), Append(s, b))
<1> DEFINE d == q.dequeueIndex
           e == q.enqueueIndex
           r == Enqueue(q, b)
<1>1. /\ q.size \in 0 .. Capacity /\ s \in Seq(Buffers) /\ Len(s) = q.size /\ Capacity > 0
      /\ d \in Places /\ e \in Places /\ Capacity \in Nat /\ e = Behind(d, q.size)
      /\ q.elements \in [Places -> Buffers \cup {NoBuffer}]
      /\ q.size \in 0 .. Capacity - 1
  BY DEF RingOf, Rings, AccumulatorAssumption, Places
<1>2. /\ r.elements = [q.elements EXCEPT ![e] = b]
      /\ r.enqueueIndex = (e + 1) % Capacity
      /\ r.dequeueIndex = d /\ r.size = q.size + 1
  BY DEF Enqueue
<1>3. r \in Rings
  <2>1. (e + 1) % Capacity \in Places BY <1>1, BehindIs
  <2> QED BY <1>1, <2>1 DEF Rings, Enqueue
<1>4. Append(s, b) \in Seq(Buffers) /\ Len(Append(s, b)) = r.size BY <1>1, <1>2
<1>5. ASSUME NEW i \in 1 .. r.size PROVE Append(s, b)[i] = r.elements[Behind(d, i - 1)]
  <2>1. i - 1 \in 0 .. Capacity - 1 /\ i \in 1 .. q.size + 1 BY <1>1, <1>2
  <2>2. Behind(d, i - 1) \in Places BY <2>1, <1>1, BehindIs
  <2>3. CASE i = q.size + 1
    <3>1. Append(s, b)[i] = b BY <2>3, <1>1
    <3>2. i - 1 = q.size BY <2>3, <1>1
    <3> QED BY <3>1, <3>2, <1>1, <1>2
  <2>4. CASE i # q.size + 1
    <3>1. i \in 1 .. q.size BY <2>4, <2>1, <1>1
    <3>2. Append(s, b)[i] = s[i] BY <3>1, <1>1
    <3>3. Behind(d, i - 1) # e
      <4>1. Behind(d, i - 1) = Behind(d, q.size) => i - 1 = q.size BY <2>1, <1>1, BehindIs
      <4> QED BY <4>1, <3>1, <1>1
    <3>4. s[i] = q.elements[Behind(d, i - 1)] BY <3>1 DEF RingOf
    <3> QED BY <3>2, <3>3, <3>4, <2>2, <1>1, <1>2
  <2> QED BY <2>3, <2>4
<1>6. r.enqueueIndex = Behind(d, r.size)
  <2>1. (Behind(d, q.size) + 1) % Capacity = Behind(d, q.size + 1) BY <1>1, BehindIs
  <2> QED BY <2>1, <1>1, <1>2
<1> QED BY <1>2, <1>3, <1>4, <1>5, <1>6 DEF RingOf

LEMMA DequeueKeeps ==
    ASSUME AccumulatorAssumption, NEW q, NEW s, RingOf(q, s), q.size # 0
    PROVE  /\ RingOf(Dequeue(q), Tail(s))
           /\ s # <<>> /\ q.elements[q.dequeueIndex] = Head(s)
<1> DEFINE d == q.dequeueIndex
           r == Dequeue(q)
<1>1. /\ q.size \in 1 .. Capacity /\ s \in Seq(Buffers) /\ Len(s) = q.size /\ Capacity > 0
      /\ d \in Places /\ Capacity \in Nat /\ d \in 0 .. Capacity - 1
      /\ q \in Rings
  BY DEF RingOf, Rings, AccumulatorAssumption, Places
<1>2. /\ r.elements = q.elements /\ r.enqueueIndex = q.enqueueIndex
      /\ r.dequeueIndex = (d + 1) % Capacity /\ r.size = q.size - 1
  BY <1>1 DEF Dequeue, Rings
<1>3. r \in Rings
  <2>1. (d + 1) % Capacity \in Places BY <1>1, BehindIs
  <2>2. \A x \in Places, y \in 0 .. Capacity :
           [q EXCEPT !.dequeueIndex = x, !.size = y] \in Rings
    BY <1>1 DEF Rings
  <2>3. q.size - 1 \in 0 .. Capacity BY <1>1
  <2>4. r = [q EXCEPT !.dequeueIndex = (d + 1) % Capacity, !.size = q.size - 1] BY DEF Dequeue
  <2> QED BY <2>1, <2>2, <2>3, <2>4
<1>4. /\ s # <<>> /\ Tail(s) \in Seq(Buffers) /\ Len(Tail(s)) = r.size /\ Head(s) = s[1]
      /\ \A i \in 1 .. r.size : Tail(s)[i] = s[i + 1]
  BY <1>1, <1>2
<1>5. ASSUME NEW i \in 1 .. r.size PROVE Tail(s)[i] = r.elements[Behind(r.dequeueIndex, i - 1)]
  <2>1. i - 1 \in 0 .. Capacity - 1 /\ i - 1 < Capacity - 1 /\ i + 1 \in 1 .. q.size
        /\ (i - 1) + 1 = (i + 1) - 1
    BY <1>1, <1>2
  <2>2. Behind((d + 1) % Capacity, i - 1) = Behind(d, (i - 1) + 1) BY <2>1, <1>1, BehindIs
  <2>3. s[i + 1] = q.elements[Behind(d, (i + 1) - 1)] BY <2>1 DEF RingOf
  <2> QED BY <2>1, <2>2, <2>3, <1>2, <1>4
<1>6. r.enqueueIndex = Behind(r.dequeueIndex, r.size)
  <2>1. q.size - 1 \in 0 .. Capacity - 1 BY <1>1
  <2>2. q.enqueueIndex = Behind(d, q.size) BY <1>1 DEF RingOf
  <2>3. Behind((d + 1) % Capacity, q.size - 1) = Behind(d, (q.size - 1) + 1)
    BY <2>1, <1>1, BehindIs
  <2> QED BY <2>2, <2>3, <1>1, <1>2
<1>7. q.elements[d] = Head(s)
  <2>1. 1 \in 1 .. q.size BY <1>1
  <2>2. s[1] = q.elements[Behind(d, 1 - 1)] BY <2>1 DEF RingOf
  <2>3. Behind(d, 1 - 1) = d BY <1>1 DEF Behind
  <2> QED BY <2>2, <2>3, <1>4
<1> QED BY <1>2, <1>3, <1>4, <1>5, <1>6, <1>7 DEF RingOf

-----------------------------------------------------------------------------
(* Being in exactly one of four places.                                    *)
LEMMA OnePlace ==
    ASSUME NEW A, NEW B, NEW C, NEW D, NEW x
    PROVE  (\E i \in 1 .. 4 : \A j \in 1 .. 4 : x \in <<A, B, C, D>>[j] <=> j = i)
              <=> /\ x \in A \cup B \cup C \cup D
                  /\ ~(x \in A /\ x \in B) /\ ~(x \in A /\ x \in C) /\ ~(x \in A /\ x \in D)
                  /\ ~(x \in B /\ x \in C) /\ ~(x \in B /\ x \in D) /\ ~(x \in C /\ x \in D)
<1> DEFINE p == <<A, B, C, D>>
<1>1. p[1] = A /\ p[2] = B /\ p[3] = C /\ p[4] = D OBVIOUS
<1>2. 1 .. 4 = {1, 2, 3, 4} OBVIOUS
<1> HIDE DEF p
<1>3. (\E i \in 1 .. 4 : \A j \in 1 .. 4 : x \in p[j] <=> j = i)
         <=> \E i \in {1, 2, 3, 4} : /\ x \in A <=> 1 = i
                                     /\ x \in B <=> 2 = i
                                     /\ x \in C <=> 3 = i
                                     /\ x \in D <=> 4 = i
  BY <1>1, <1>2
<1>4. (\E i \in 1 .. 4 : \A j \in 1 .. 4 : x \in p[j] <=> j = i)
         <=> /\ x \in A \cup B \cup C \cup D
             /\ ~(x \in A /\ x \in B) /\ ~(x \in A /\ x \in C) /\ ~(x \in A /\ x \in D)
             /\ ~(x \in B /\ x \in C) /\ ~(x \in B /\ x \in D) /\ ~(x \in C /\ x \in D)
  BY <1>3
<1> QED BY <1>4 DEF p

LEMMA AppendedSet ==
    ASSUME NEW B, NEW s \in Seq(B), NEW b \in B, IsInjective(s), b \notin ToSet(s)
    PROVE  ToSet(Append(s, b)) = ToSet(s) \cup {b} /\ IsInjective(Append(s, b))
<1> DEFINE t == Append(s, b)
<1>1. /\ DOMAIN s = 1 .. Len(s) /\ DOMAIN t = 1 .. Len(s) + 1 /\ Len(s) \in Nat
      /\ t[Len(s) + 1] = b /\ \A i \in 1 .. Len(s) : t[i] = s[i]
  OBVIOUS
<1> HIDE DEF t
<1>2. \A i \in 1 .. Len(s) : s[i] # b BY <1>1 DEF ToSet
<1>3. ToSet(t) = ToSet(s) \cup {b}
  <2>1. \A i \in 1 .. Len(s) + 1 : i \in 1 .. Len(s) \/ i = Len(s) + 1 BY <1>1
  <2>2. Len(s) + 1 \in 1 .. Len(s) + 1 /\ 1 .. Len(s) \subseteq 1 .. Len(s) + 1 BY <1>1
  <2> QED BY <2>1, <2>2, <1>1 DEF ToSet
<1>4. IsInjective(t)
  <2>1. \A i \in 1 .. Len(s) + 1 : i \in 1 .. Len(s) \/ i = Len(s) + 1 BY <1>1
  <2> QED BY <2>1, <1>1, <1>2 DEF IsInjective
<1> QED BY <1>3, <1>4 DEF t

LEMMA HeadAndRest ==
    ASSUME NEW B, NEW s \in Seq(B), IsInjective(s), s # <<>>
    PROVE  /\ ToSet(s) = ToSet(Tail(s)) \cup {Head(s)} /\ Head(s) \notin ToSet(Tail(s))
           /\ Head(s) \in B /\ IsInjective(Tail(s))
<1> DEFINE t == Tail(s)
<1>1. /\ DOMAIN s = 1 .. Len(s) /\ DOMAIN t = 1 .. Len(s) - 1 /\ Len(s) \in Nat \ {0}
      /\ Head(s) = s[1] /\ \A i \in 1 .. Len(s) - 1 : t[i] = s[i + 1]
      /\ Head(s) \in B
  OBVIOUS
<1> HIDE DEF t
<1>2. \A i \in 1 .. Len(s) - 1 : i + 1 \in 1 .. Len(s) /\ i + 1 # 1 BY <1>1
<1>3. /\ 1 \in 1 .. Len(s)
      /\ \A i \in 1 .. Len(s) : i = 1 \/ (i - 1 \in 1 .. Len(s) - 1 /\ i = (i - 1) + 1)
  BY <1>1
<1>4. ToSet(s) = ToSet(t) \cup {s[1]}
  <2>1. ToSet(s) \subseteq ToSet(t) \cup {s[1]}
    <3> SUFFICES ASSUME NEW i \in 1 .. Len(s) PROVE s[i] \in ToSet(t) \cup {s[1]}
      BY <1>1 DEF ToSet
    <3>1. CASE i = 1 BY <3>1
    <3>2. CASE i # 1
      <4>1. i - 1 \in 1 .. Len(s) - 1 /\ i = (i - 1) + 1 BY <1>3, <3>2
      <4>2. t[i - 1] = s[(i - 1) + 1] BY <4>1, <1>1
      <4>3. t[i - 1] \in ToSet(t) BY <4>1, <1>1 DEF ToSet
      <4> QED BY <4>1, <4>2, <4>3
    <3> QED BY <3>1, <3>2
  <2>2. ToSet(t) \subseteq ToSet(s)
    <3> SUFFICES ASSUME NEW i \in 1 .. Len(s) - 1 PROVE t[i] \in ToSet(s)
      BY <1>1 DEF ToSet
    <3>1. i + 1 \in 1 .. Len(s) /\ t[i] = s[i + 1] BY <1>1, <1>2
    <3>2. s[i + 1] \in ToSet(s) BY <3>1, <1>1 DEF ToSet
    <3> QED BY <3>1, <3>2
  <2> QED BY <2>1, <2>2, <1>1, <1>3 DEF ToSet
<1>5. s[1] \notin ToSet(t) BY <1>1, <1>2, <1>3 DEF ToSet, IsInjective
<1>6. IsInjective(t)
  <2> SUFFICES ASSUME NEW i \in 1 .. Len(s) - 1, NEW j \in 1 .. Len(s) - 1, t[i] = t[j]
               PROVE  i = j
    BY <1>1 DEF IsInjective
  <2>1. s[i + 1] = s[j + 1] BY <1>1
  <2>2. i + 1 = j + 1 BY <2>1, <1>1, <1>2 DEF IsInjective
  <2> QED BY <2>2
<1> QED BY <1>1, <1>4, <1>5, <1>6 DEF t

(* A buffer comes, one goes on.                                            *)
LEMMA PartedIn ==
    ASSUME NEW up \in SUBSET Buffers, NEW outside, NEW gone, NEW s \in Seq(Buffers),
           Parted(up, outside, gone, s), NEW b \in up
    PROVE  /\ Parted(up \ {b}, outside, gone, Append(s, b))
           /\ Parted(up \ {b}, outside, gone \cup {b}, s)
<1>1. IsInjective(s) /\ b \in Buffers BY DEF Parted
<1>2. \A x \in Buffers : /\ x \in up \cup outside \cup gone \cup ToSet(s)
                         /\ ~(x \in up /\ x \in outside) /\ ~(x \in up /\ x \in gone)
                         /\ ~(x \in up /\ x \in ToSet(s)) /\ ~(x \in outside /\ x \in gone)
                         /\ ~(x \in outside /\ x \in ToSet(s)) /\ ~(x \in gone /\ x \in ToSet(s))
  BY OnePlace DEF Parted
<1>3. ToSet(Append(s, b)) = ToSet(s) \cup {b} /\ IsInjective(Append(s, b))
  BY <1>1, <1>2, AppendedSet
<1> DEFINE T == ToSet(s)
           TA == ToSet(Append(s, b))
<1> HIDE DEF T, TA
<1>4. ASSUME NEW x \in Buffers
      PROVE  /\ \E i \in 1 .. 4 : \A j \in 1 .. 4 :
                   x \in <<up \ {b}, outside, gone, TA>>[j] <=> j = i
             /\ \E i \in 1 .. 4 : \A j \in 1 .. 4 :
                   x \in <<up \ {b}, outside, gone \cup {b}, T>>[j] <=> j = i
  <2>1. TA = T \cup {b} BY <1>3 DEF T, TA
  <2>2. /\ x \in up \cup outside \cup gone \cup T
        /\ ~(x \in up /\ x \in outside) /\ ~(x \in up /\ x \in gone)
        /\ ~(x \in up /\ x \in T) /\ ~(x \in outside /\ x \in gone)
        /\ ~(x \in outside /\ x \in T) /\ ~(x \in gone /\ x \in T)
    BY <1>2 DEF T
  <2>3. x = b => x \in up OBVIOUS
  <2> QED BY <2>1, <2>2, <2>3, OnePlace
<1> QED BY <1>1, <1>3, <1>4 DEF Parted, T, TA

LEMMA PartedOn ==
    ASSUME NEW up, NEW outside, NEW gone, NEW s \in Seq(Buffers),
           Parted(up, outside, gone, s), s # <<>>
    PROVE  Parted(up, outside \cup {Head(s)}, gone, Tail(s)) /\ Head(s) \in Buffers
<1>1. /\ ToSet(s) = ToSet(Tail(s)) \cup {Head(s)} /\ Head(s) \notin ToSet(Tail(s))
      /\ Head(s) \in Buffers /\ IsInjective(Tail(s))
  BY HeadAndRest DEF Parted
<1> DEFINE T == ToSet(s)
           R == ToSet(Tail(s))
           h == Head(s)
<1> HIDE DEF T, R, h
<1>2. ASSUME NEW x \in Buffers
      PROVE  \E i \in 1 .. 4 : \A j \in 1 .. 4 :
                x \in <<up, outside \cup {h}, gone, R>>[j] <=> j = i
  <2>1. T = R \cup {h} /\ h \notin R BY <1>1 DEF T, R, h
  <2>2. /\ x \in up \cup outside \cup gone \cup T
        /\ ~(x \in up /\ x \in outside) /\ ~(x \in up /\ x \in gone)
        /\ ~(x \in up /\ x \in T) /\ ~(x \in outside /\ x \in gone)
        /\ ~(x \in outside /\ x \in T) /\ ~(x \in gone /\ x \in T)
    BY OnePlace DEF T, Parted
  <2> QED BY <2>1, <2>2, OnePlace
<1> QED BY <1>1, <1>2 DEF Parted, R, h

LEMMA PartedBack ==
    ASSUME NEW up, NEW outside \in SUBSET Buffers, NEW gone, NEW s,
           Parted(up, outside, gone, s), NEW b \in outside
    PROVE  Parted(up \cup {b}, outside \ {b}, gone, s)
<1> DEFINE T == ToSet(s)
<1> HIDE DEF T
<1>1. ASSUME NEW x \in Buffers
      PROVE  \E i \in 1 .. 4 : \A j \in 1 .. 4 :
                x \in <<up \cup {b}, outside \ {b}, gone, T>>[j] <=> j = i
  <2>1. /\ x \in up \cup outside \cup gone \cup T
        /\ ~(x \in up /\ x \in outside) /\ ~(x \in up /\ x \in gone)
        /\ ~(x \in up /\ x \in T) /\ ~(x \in outside /\ x \in gone)
        /\ ~(x \in outside /\ x \in T) /\ ~(x \in gone /\ x \in T)
    BY OnePlace DEF T, Parted
  <2> QED BY <2>1, OnePlace
<1> QED BY <1>1 DEF Parted, T

-----------------------------------------------------------------------------
LEMMA SendStoredKeeps ==
    ASSUME AccumulatorAssumption, NEW q, NEW s, RingOf(q, s),
           NEW up, NEW outside \in SUBSET Buffers, NEW gone, Parted(up, outside, gone, s),
           SendStored(q, s, outside)
    PROVE  /\ RingOf(bufferQueue', stored') /\ Parted(up, out', gone, stored')
           /\ out' \in SUBSET Buffers /\ send' \in BOOLEAN
           /\ ~send' => out' # {}
           /\ send' => stored' = <<>>
<1>1. q.size \in Nat /\ s \in Seq(Buffers) /\ Len(s) = q.size
  BY DEF RingOf, Rings, AccumulatorAssumption
<1>2. CASE q.size = 0
  <2>1. s = <<>> BY <1>1, <1>2, EmptySeq
  <2> QED BY <1>2, <2>1 DEF SendStored
<1>3. CASE q.size # 0
  <2>1. /\ RingOf(Dequeue(q), Tail(s)) /\ s # <<>> /\ q.elements[q.dequeueIndex] = Head(s)
    BY <1>3, DequeueKeeps
  <2>2. Parted(up, outside \cup {Head(s)}, gone, Tail(s)) /\ Head(s) \in Buffers
    BY <1>1, <2>1, PartedOn
  <2>3. bufferQueue' = Dequeue(q) /\ stored' = Tail(s) /\ out' = outside \cup {Head(s)} /\ ~send'
        /\ send' = FALSE
    BY <1>3, <2>1 DEF SendStored
  <2> QED BY <2>1, <2>2, <2>3
<1> QED BY <1>2, <1>3

(* The same when the flag decides.                                         *)
LEMMA SendIfSetKeeps ==
    ASSUME AccumulatorAssumption, NEW q, NEW s, RingOf(q, s),
           NEW up, NEW outside \in SUBSET Buffers, NEW gone, Parted(up, outside, gone, s),
           send \in BOOLEAN, NEW drains \in BOOLEAN, drains /\ ~send => outside # {},
           SendIfSet(q, s, outside)
    PROVE  /\ RingOf(bufferQueue', stored') /\ Parted(up, out', gone, stored')
           /\ out' \in SUBSET Buffers /\ send' \in BOOLEAN
           /\ Settled(drains, stored', send', out')
<1>1. CASE send
  <2>1. SendStored(q, s, outside) BY <1>1 DEF SendIfSet
  <2> QED BY <2>1, SendStoredKeeps DEF Settled
<1>2. CASE ~send
  BY <1>2 DEF SendIfSet, Settled
<1> QED BY <1>1, <1>2

LEMMA AccumulatorInvHolds ==
    ASSUME AccumulatorAssumption PROVE AccumulatorSpec => []AccumulatorInv
<1>1. ASSUME AccumulatorInit PROVE AccumulatorInv
  <2>1. <<>> \in Seq(Buffers) /\ Len(<<>>) = 0 /\ DOMAIN <<>> = {} OBVIOUS
  <2>2. bufferQueue \in Rings
    BY <1>1 DEF AccumulatorInit, Rings, AccumulatorAssumption, Places
  <2>3. RingOf(bufferQueue, stored)
    <3>1. /\ bufferQueue.size = 0 /\ bufferQueue.enqueueIndex = 0
          /\ bufferQueue.dequeueIndex = 0 /\ stored = <<>>
      BY <1>1 DEF AccumulatorInit
    <3>2. Capacity > 0 => Behind(0, 0) = 0 BY DEF Behind, AccumulatorAssumption
    <3> QED BY <2>1, <2>2, <3>1, <3>2 DEF RingOf
  <2>4. Parted(upstream, out, dropped, stored)
    <3>1. ToSet(stored) = {} /\ IsInjective(stored)
      BY <1>1, <2>1 DEF AccumulatorInit, ToSet, IsInjective
    <3> DEFINE T == ToSet(stored)
    <3>2. ASSUME NEW x \in Buffers
          PROVE  \E i \in 1 .. 4 : \A j \in 1 .. 4 :
                    x \in <<upstream, out, dropped, T>>[j] <=> j = i
      <4>1. upstream = Buffers /\ out = {} /\ dropped = {} /\ T = {}
        BY <1>1, <3>1 DEF AccumulatorInit
      <4> HIDE DEF T
      <4> QED BY <4>1, OnePlace
    <3> QED BY <3>1, <3>2 DEF Parted
  <2> QED BY <1>1, <2>1, <2>2, <2>3, <2>4
      DEF AccumulatorInv, AccumulatorInit, AccumulatorTypeOK, Settled
<1>2. ASSUME AccumulatorInv, [AccumulatorNext]_accumulatorVars PROVE AccumulatorInv'
  <2> DEFINE Kept == /\ RingOf(bufferQueue', stored') /\ out' \in SUBSET Buffers
                     /\ send' \in BOOLEAN
                     /\ Parted(upstream', out', dropped', stored')
                     /\ Settled(mode' = "DRAIN", stored', send', out')
                     /\ mode' \in {"DRAIN", "ACCUMULATE"}
                     /\ upstream' \in SUBSET Buffers /\ dropped' \in SUBSET Buffers
  <2> SUFFICES Kept
    BY DEF AccumulatorInv, AccumulatorTypeOK, RingOf
  <2>1. /\ mode \in {"DRAIN", "ACCUMULATE"} /\ send \in BOOLEAN
        /\ upstream \in SUBSET Buffers /\ out \in SUBSET Buffers /\ dropped \in SUBSET Buffers
        /\ stored \in Seq(Buffers) /\ bufferQueue.size \in 0 .. Capacity
        /\ RingOf(bufferQueue, stored) /\ Parted(upstream, out, dropped, stored)
        /\ Settled(mode = "DRAIN", stored, send, out)
    BY <1>2 DEF AccumulatorInv, AccumulatorTypeOK, Rings
  <2>2. ASSUME NEW b \in Buffers, bufferSendInFill(b) PROVE Kept
    <3>1. b \in upstream /\ upstream' = upstream \ {b} /\ mode' = mode
      BY <2>2 DEF bufferSendInFill
    <3>2. /\ Parted(upstream', out, dropped, Append(stored, b))
          /\ Parted(upstream', out, dropped \cup {b}, stored)
      BY <2>1, <3>1, PartedIn
    <3>3. (mode = "DRAIN" /\ ~send) => out # {} BY <2>1 DEF Settled
    <3>4. CASE bufferQueue.size < Capacity
      <4>1. /\ SendIfSet(Enqueue(bufferQueue, b), Append(stored, b), out)
            /\ dropped' = dropped
        BY <2>2, <3>4 DEF bufferSendInFill
      <4>2. RingOf(Enqueue(bufferQueue, b), Append(stored, b)) BY <2>1, <3>4, EnqueueKeeps
      <4> QED BY <2>1, <3>1, <3>2, <3>3, <4>1, <4>2, SendIfSetKeeps
    <3>5. CASE ~(bufferQueue.size < Capacity)
      <4>1. /\ SendIfSet(bufferQueue, stored, out) /\ dropped' = dropped \cup {b}
        BY <2>2, <3>5 DEF bufferSendInFill
      <4> QED BY <2>1, <3>1, <3>2, <3>3, <4>1, SendIfSetKeeps
    <3> QED BY <3>4, <3>5
  <2>3. ASSUME NEW b \in Buffers, bufferSendInReturn(b) PROVE Kept
    <3>1. /\ b \in out /\ upstream' = upstream \cup {b}
          /\ SendStored(bufferQueue, stored, out \ {b})
          /\ mode' = mode /\ dropped' = dropped
      BY <2>3 DEF bufferSendInReturn
    <3>2. Parted(upstream', out \ {b}, dropped, stored) BY <2>1, <3>1, PartedBack
    <3>3. out \ {b} \in SUBSET Buffers BY <2>1
    <3> QED BY <2>1, <3>1, <3>2, <3>3, SendStoredKeeps DEF Settled
  <2>4. ASSUME NEW m \in {"DRAIN", "ACCUMULATE"}, BA_SetMode(m) PROVE Kept
    <3>1. mode' = m /\ upstream' = upstream /\ dropped' = dropped BY <2>4 DEF BA_SetMode
    <3>2. CASE m = "DRAIN"
      <4>1. SendStored(bufferQueue, stored, out) BY <2>4, <3>2 DEF BA_SetMode
      <4> QED BY <2>1, <3>1, <4>1, SendStoredKeeps DEF Settled
    <3>3. CASE m # "DRAIN"
      <4>1. send' = FALSE /\ bufferQueue' = bufferQueue /\ stored' = stored /\ out' = out
        BY <2>4, <3>3 DEF BA_SetMode
      <4> QED BY <2>1, <3>1, <3>3, <4>1 DEF Settled
    <3> QED BY <3>2, <3>3
  <2>5. CASE UNCHANGED accumulatorVars
    BY <2>1, <2>5 DEF accumulatorVars
  <2> QED BY <1>2, <2>2, <2>3, <2>4, <2>5 DEF AccumulatorNext
<1> QED BY <1>1, <1>2, PTL DEF AccumulatorSpec

(* What comes in goes on in its order, is in one place, and is not held    *)
(* back by an accumulator that drains: for any ring, the empty one too.    *)
THEOREM BuffersDrain ==
    ASSUME AccumulatorAssumption PROVE AccumulatorSpec => []DrainsInOrder
<1>1. ASSUME AccumulatorInv PROVE DrainsInOrder
  <2>1. Contents(bufferQueue) = stored BY <1>1, ContentsAre DEF AccumulatorInv
  <2>2. mode = "DRAIN" /\ stored # <<>> => out # {} /\ ~ send
    BY <1>1 DEF AccumulatorInv, Settled, AccumulatorTypeOK
  <2> QED BY <1>1, <2>1, <2>2 DEF AccumulatorInv, Parted, DrainsInOrder
<1> QED BY <1>1, AccumulatorInvHolds, PTL

-----------------------------------------------------------------------------
(* The queue without locks.                                               *)
USE LocklessAssumption

(* A node pushed is the first, and every other one moves up one place.     *)
LEMMA Prepended ==
    ASSUME NEW B, NEW s \in Seq(B), NEW b \in B, IsInjective(s), b \notin ToSet(s)
    PROVE  /\ <<b>> \o s \in Seq(B) /\ Len(<<b>> \o s) = Len(s) + 1
           /\ (<<b>> \o s)[1] = b /\ Head(<<b>> \o s) = b
           /\ \A i \in 1 .. Len(s) : (<<b>> \o s)[i + 1] = s[i]
           /\ ToSet(<<b>> \o s) = ToSet(s) \cup {b} /\ IsInjective(<<b>> \o s)
<1> DEFINE t == <<b>> \o s
<1>1. /\ t \in Seq(B) /\ DOMAIN s = 1 .. Len(s) /\ DOMAIN t = 1 .. Len(s) + 1
      /\ Len(s) \in Nat /\ Len(t) = Len(s) + 1 /\ t[1] = b /\ Head(t) = b
  OBVIOUS
<1>2. \A i \in 1 .. Len(s) : t[i + 1] = s[i]
  OBVIOUS
<1> HIDE DEF t
<1>3. \A i \in 1 .. Len(s) : s[i] # b /\ i + 1 \in 1 .. Len(s) + 1
  BY <1>1 DEF ToSet
<1>4. \A i \in 1 .. Len(s) + 1 : i = 1 \/ (i - 1 \in 1 .. Len(s) /\ i = (i - 1) + 1)
  BY <1>1
<1>5. ToSet(t) = ToSet(s) \cup {b}
  <2>1. ASSUME NEW i \in 1 .. Len(s) + 1 PROVE t[i] \in ToSet(s) \cup {b}
    <3>1. CASE i = 1 BY <3>1, <1>1
    <3>2. CASE i # 1
      <4>1. i - 1 \in 1 .. Len(s) /\ i = (i - 1) + 1 BY <1>4, <3>2
      <4>2. t[(i - 1) + 1] = s[i - 1] BY <4>1, <1>2
      <4>3. s[i - 1] \in ToSet(s) BY <4>1, <1>1 DEF ToSet
      <4> QED BY <4>1, <4>2, <4>3
    <3> QED BY <3>1, <3>2
  <2>2. ASSUME NEW i \in 1 .. Len(s) PROVE s[i] \in ToSet(t)
    <3>1. i + 1 \in DOMAIN t /\ t[i + 1] = s[i] BY <1>1, <1>2, <1>3
    <3> QED BY <3>1 DEF ToSet
  <2>3. b \in ToSet(t)
    <3>1. 1 \in DOMAIN t BY <1>1
    <3> QED BY <3>1, <1>1 DEF ToSet
  <2> QED BY <2>1, <2>2, <2>3, <1>1 DEF ToSet
<1>6. IsInjective(t)
  <2> SUFFICES ASSUME NEW i \in 1 .. Len(s) + 1, NEW j \in 1 .. Len(s) + 1, t[i] = t[j]
               PROVE  i = j
    BY <1>1 DEF IsInjective
  <2>1. CASE i = 1 /\ j = 1 BY <2>1
  <2>2. CASE i # 1 /\ j # 1
    <3>1. /\ i - 1 \in 1 .. Len(s) /\ j - 1 \in 1 .. Len(s)
          /\ t[i] = s[i - 1] /\ t[j] = s[j - 1]
      BY <1>2, <1>4, <2>2
    <3>2. i - 1 = j - 1 BY <3>1, <1>1 DEF IsInjective
    <3> QED BY <3>2
  <2>3. CASE i = 1 /\ j # 1
    <3>1. j - 1 \in 1 .. Len(s) /\ t[j] = s[j - 1] BY <1>2, <1>4, <2>3
    <3> QED BY <3>1, <1>3, <1>1, <2>3
  <2>4. CASE i # 1 /\ j = 1
    <3>1. i - 1 \in 1 .. Len(s) /\ t[i] = s[i - 1] BY <1>2, <1>4, <2>4
    <3> QED BY <3>1, <1>3, <1>1, <2>4
  <2> QED BY <2>1, <2>2, <2>3, <2>4
<1> QED BY <1>1, <1>2, <1>5, <1>6 DEF t

(* The nodes of a sequence of messages, and those of the queue when a      *)
(* message is taken from it or put in.                                     *)
Message == [node : Node, body : Senders \cup {Blank}]
NodesOf(p) == [i \in DOMAIN p |-> p[i].node]

LEMMA NodesAre ==
    ASSUME NEW p \in Seq(Message)
    PROVE  /\ NodesOf(p) \in Seq(Node) /\ Len(NodesOf(p)) = Len(p) /\ Len(p) \in Nat
           /\ DOMAIN NodesOf(p) = 1 .. Len(p) /\ DOMAIN p = 1 .. Len(p)
           /\ \A i \in 1 .. Len(p) : NodesOf(p)[i] = p[i].node /\ NodesOf(p)[i] \in Node
<1>1. Len(p) \in Nat /\ DOMAIN p = 1 .. Len(p)
  BY LenProperties
<1>2. \A i \in 1 .. Len(p) : p[i] \in Message
  BY ElementOfSeq
<1>3. \A i \in 1 .. Len(p) : p[i].node \in Node
  BY <1>2 DEF Message
<1>4. NodesOf(p) = [i \in 1 .. Len(p) |-> p[i].node]
  BY <1>1 DEF NodesOf
<1>5. NodesOf(p) \in Seq(Node)
  BY <1>1, <1>3, <1>4, IsASeq
<1>6. Len(NodesOf(p)) = Len(p)
  BY <1>1, <1>4, <1>5, LenProperties
<1> QED
  BY <1>1, <1>3, <1>4, <1>5, <1>6

LEMMA QueuedIs ==
    ASSUME published \in Seq(Message)
    PROVE  /\ Queued \in Seq(Node) /\ Len(Queued) = Len(published) /\ Len(published) \in Nat
           /\ DOMAIN Queued = 1 .. Len(published) /\ DOMAIN published = 1 .. Len(published)
           /\ \A i \in 1 .. Len(published) :
                 Queued[i] = published[i].node /\ Queued[i] \in Node
<1>1. Queued = NodesOf(published)
  BY DEF Queued, NodesOf
<1> QED
  BY <1>1, NodesAre

LEMMA QueuedTail ==
    ASSUME published \in Seq(Message), published # <<>>, published' = Tail(published)
    PROVE  /\ Queued' = Tail(Queued) /\ Len(published') = Len(published) - 1
           /\ published' \in Seq(Message)
           /\ \A i \in 1 .. Len(published) - 1 :
                 Queued'[i] = Queued[i + 1] /\ published'[i] = published[i + 1]
<1> DEFINE p == published
           t == Tail(published)
<1>1. /\ p \in Seq(Message) /\ t \in Seq(Message) /\ Len(t) = Len(p) - 1
      /\ Len(p) \in Nat \ {0} /\ \A i \in 1 .. Len(p) - 1 : t[i] = p[i + 1]
  BY HeadTailProperties, EmptySeq
<1>2. Queued = NodesOf(p) /\ Queued' = NodesOf(t)
  BY DEF Queued, NodesOf
<1> HIDE DEF p, t
<1>3. NodesOf(p) # <<>>
  BY <1>1, NodesAre, EmptySeq
<1>4. /\ Tail(NodesOf(p)) \in Seq(Node) /\ Len(Tail(NodesOf(p))) = Len(p) - 1
      /\ \A i \in 1 .. Len(p) - 1 : Tail(NodesOf(p))[i] = NodesOf(p)[i + 1]
  <2>1. NodesOf(p) \in Seq(Node) /\ Len(NodesOf(p)) = Len(p)
    BY <1>1, NodesAre
  <2> QED BY <2>1, <1>3, HeadTailProperties
<1>5. \A i \in 1 .. Len(p) - 1 : i + 1 \in 1 .. Len(p)
  BY <1>1
<1>6. \A i \in 1 .. Len(p) - 1 : NodesOf(t)[i] = NodesOf(p)[i + 1]
  <2> TAKE i \in 1 .. Len(p) - 1
  <2>1. NodesOf(t)[i] = t[i].node
    BY <1>1, NodesAre
  <2>2. NodesOf(p)[i + 1] = p[i + 1].node
    BY <1>1, <1>5, NodesAre
  <2> QED BY <2>1, <2>2, <1>1
<1>7. NodesOf(t) = Tail(NodesOf(p))
  <2>1. Len(NodesOf(t)) = Len(p) - 1 /\ NodesOf(t) \in Seq(Node)
    BY <1>1, NodesAre
  <2> QED BY <2>1, <1>4, <1>6, SeqEqual
<1> QED
  BY <1>1, <1>2, <1>6, <1>7 DEF p, t

LEMMA QueuedAppend ==
    ASSUME published \in Seq(Message), NEW r \in Message, published' = Append(published, r)
    PROVE  /\ Queued' = Append(Queued, r.node) /\ Len(published') = Len(published) + 1
           /\ published' \in Seq(Message)
           /\ Queued'[Len(published) + 1] = r.node /\ published'[Len(published) + 1] = r
           /\ \A i \in 1 .. Len(published) :
                 Queued'[i] = Queued[i] /\ published'[i] = published[i]
<1> DEFINE p == published
           t == Append(published, r)
<1>1. /\ p \in Seq(Message) /\ t \in Seq(Message) /\ Len(t) = Len(p) + 1
      /\ Len(p) \in Nat /\ t[Len(p) + 1] = r /\ \A i \in 1 .. Len(p) : t[i] = p[i]
  BY AppendProperties, LenProperties
<1>2. Queued = NodesOf(p) /\ Queued' = NodesOf(t)
  BY DEF Queued, NodesOf
<1> HIDE DEF p, t
<1>3. r.node \in Node
  BY DEF Message
<1>4. /\ Append(NodesOf(p), r.node) \in Seq(Node)
      /\ Len(Append(NodesOf(p), r.node)) = Len(p) + 1
      /\ Append(NodesOf(p), r.node)[Len(p) + 1] = r.node
      /\ \A i \in 1 .. Len(p) : Append(NodesOf(p), r.node)[i] = NodesOf(p)[i]
  <2>1. NodesOf(p) \in Seq(Node) /\ Len(NodesOf(p)) = Len(p)
    BY <1>1, NodesAre
  <2> QED BY <2>1, <1>3, AppendProperties
<1>5. \A i \in 1 .. Len(p) + 1 : i \in 1 .. Len(p) \/ i = Len(p) + 1
  BY <1>1
<1>6. /\ \A i \in 1 .. Len(p) : i \in 1 .. Len(p) + 1 /\ NodesOf(t)[i] = NodesOf(p)[i]
      /\ NodesOf(t)[Len(p) + 1] = r.node
  <2>1. Len(p) + 1 \in 1 .. Len(t) /\ \A i \in 1 .. Len(p) : i \in 1 .. Len(t)
    BY <1>1
  <2>2. \A i \in 1 .. Len(t) : NodesOf(t)[i] = t[i].node
    BY <1>1, NodesAre
  <2>3. \A i \in 1 .. Len(p) : NodesOf(p)[i] = p[i].node
    BY <1>1, NodesAre
  <2> QED BY <2>1, <2>2, <2>3, <1>1
<1>7. NodesOf(t) = Append(NodesOf(p), r.node)
  <2>1. Len(NodesOf(t)) = Len(p) + 1 /\ NodesOf(t) \in Seq(Node)
    BY <1>1, NodesAre
  <2>2. \A i \in 1 .. Len(p) + 1 : NodesOf(t)[i] = Append(NodesOf(p), r.node)[i]
    BY <1>4, <1>5, <1>6
  <2> QED BY <2>1, <2>2, <1>4, SeqEqual
<1> QED
  BY <1>1, <1>2, <1>6, <1>7 DEF p, t

(* Where a sender is, what it has in its hands, and that no two of them    *)
(* are to link the same node.                                              *)
LinksNext(s) == \E i \in 1 .. Len(published) - 1 :
    AboutToLink(s, Queued[i], Queued[i + 1]) /\ m_index[Queued[i]].next = Null

SenderKnows(s) ==
    /\ s \notin callers => sender[s].at = "idle"
    /\ sender[s].at \in {"next", "cas", "fill", "last", "publish", "link"}
          => sender[s].node \in Node
    /\ sender[s].at \in {"last", "publish"} =>
          m_index[sender[s].node].next = Null /\ m_index[sender[s].node].data = s
    /\ sender[s].at = "publish" => sender[s].read \in Node

SendersKnow ==
    /\ \A s \in Senders : SenderKnows(s)
    /\ \A s \in Senders : sender[s].at = "link" => LinksNext(s)
    /\ \A s, t \in Senders :
          sender[s].at = "link" /\ sender[t].at = "link" /\ s # t
             => sender[s].read # sender[t].read

ReceiverKnows ==
    /\ receiver.at \in {"push", "chain", "cas"} => receiver.old \in Node
    /\ receiver.at = "cas" => m_index[receiver.old].next = receiver.read

KnowsAlone(s) == callers = {s} =>
    /\ sender[s].at \in {"next", "cas"} => sender[s].node \in ToSet(free)
    /\ sender[s].at = "cas" => m_index[sender[s].node].next = sender[s].read
AloneKnows == \A s \in Senders : KnowsAlone(s)

QueueKept == NodesKeptApart /\ FreeNodesLinked /\ MessagesLinked /\ MessagesIntact
Knowing == SendersKnow /\ ReceiverKnows /\ AloneKnows

LocklessInv ==
    /\ LocklessTypeOK
    /\ \A s \in Senders : callers = {s} => ~ aba
    /\ ~ aba => QueueKept /\ Knowing

(* A step of a sender that changes nothing but where it is, to and from    *)
(* where it has no link to make.                                           *)
LEMMA SenderMoves ==
    ASSUME LocklessInv, ~ aba, NEW s \in callers, NEW r \in SenderStates,
           sender' = [sender EXCEPT ![s] = r],
           UNCHANGED <<callers, m_first, m_last, freeList, m_index, receiver, published, aba>>,
           sender[s].at # "link", r.at # "link", Held(s)' = Held(s),
           SenderKnows(s)', KnowsAlone(s)'
    PROVE  LocklessInv'
<1>1. /\ s \in Senders /\ sender'[s] = r /\ sender' \in [Senders -> SenderStates]
      /\ \A t \in Senders : t # s => sender'[t] = sender[t]
  BY DEF LocklessInv, LocklessTypeOK
<1>2. LocklessTypeOK'
  BY <1>1 DEF LocklessInv, LocklessTypeOK, freeList
<1>3. /\ Queued' = Queued /\ Returning' = Returning
      /\ \A t \in Senders : Held(t)' = Held(t)
  BY <1>1 DEF Queued, Returning, Held
<1>4. NodesKeptApart'
  BY <1>3 DEF LocklessInv, QueueKept, NodesKeptApart, freeList
<1>5. FreeNodesLinked'
  BY DEF LocklessInv, QueueKept, FreeNodesLinked, freeList
<1>6. \A t \in Senders : sender'[t].at = "link" => sender[t].at = "link" /\ sender'[t] = sender[t]
  BY <1>1
<1>7. \A t \in Senders : sender[t].at = "link" => sender'[t] = sender[t]
  BY <1>1
<1>8. MessagesLinked'
  BY <1>3, <1>7 DEF LocklessInv, QueueKept, MessagesLinked, AboutToLink
<1>9. MessagesIntact'
  BY <1>3 DEF LocklessInv, QueueKept, MessagesIntact
<1>10. SendersKnow'
  <2>1. \A t \in Senders : SenderKnows(t)'
    BY <1>1 DEF LocklessInv, Knowing, SendersKnow, SenderKnows
  <2>2. \A t \in Senders : sender'[t].at = "link" => LinksNext(t)'
    BY <1>3, <1>6 DEF LocklessInv, Knowing, SendersKnow, LinksNext, AboutToLink
  <2>3. \A t, u \in Senders :
           sender'[t].at = "link" /\ sender'[u].at = "link" /\ t # u
              => sender'[t].read # sender'[u].read
    BY <1>6 DEF LocklessInv, Knowing, SendersKnow
  <2> QED BY <2>1, <2>2, <2>3 DEF SendersKnow
<1>11. ReceiverKnows'
  BY DEF LocklessInv, Knowing, ReceiverKnows
<1>12. AloneKnows'
  BY <1>1 DEF LocklessInv, Knowing, AloneKnows, KnowsAlone, freeList
<1> QED
  BY <1>2, <1>4, <1>5, <1>8, <1>9, <1>10, <1>11, <1>12 DEF LocklessInv, QueueKept, Knowing

(* A step of the receiver that changes nothing but where it is.            *)
LEMMA ReceiverMoves ==
    ASSUME LocklessInv, ~ aba, receiver' \in ReceiverStates,
           UNCHANGED <<callers, m_first, m_last, freeList, m_index, sender, published, aba>>,
           Returning' = Returning, ReceiverKnows',
           receiver'.at \in {"push", "chain", "cas", "copy"} => receiver'.node = m_first
    PROVE  LocklessInv'
<1>2. LocklessTypeOK'
  BY DEF LocklessInv, LocklessTypeOK, freeList
<1>3. Queued' = Queued /\ \A t \in Senders : Held(t)' = Held(t)
  BY DEF Queued, Held
<1>4. NodesKeptApart'
  BY <1>3 DEF LocklessInv, QueueKept, NodesKeptApart, freeList
<1>5. FreeNodesLinked'
  BY DEF LocklessInv, QueueKept, FreeNodesLinked, freeList
<1>8. MessagesLinked'
  BY <1>3 DEF LocklessInv, QueueKept, MessagesLinked, AboutToLink
<1>9. MessagesIntact'
  BY <1>3 DEF LocklessInv, QueueKept, MessagesIntact
<1>10. SendersKnow'
  BY <1>3 DEF LocklessInv, Knowing, SendersKnow, SenderKnows, LinksNext, AboutToLink
<1>12. AloneKnows'
  BY DEF LocklessInv, Knowing, AloneKnows, KnowsAlone, freeList
<1> QED
  BY <1>2, <1>4, <1>5, <1>8, <1>9, <1>10, <1>12 DEF LocklessInv, QueueKept, Knowing

(* The steps of a sender that only look at what is shared.                 *)
LEMMA LookingKeeps ==
    ASSUME LocklessInv, ~ aba, NEW s \in callers,
           \/ Send(s) \/ PopRead(s) \/ PopNext(s) \/ LastRead(s)
           \/ PopCAS(s) /\ m_free_head # sender[s].node
           \/ LastCAS(s) /\ m_last # sender[s].read
    PROVE  LocklessInv'
<1> DEFINE my == sender[s]
<1>1. /\ s \in Senders /\ my \in SenderStates /\ SenderKnows(s) /\ KnowsAlone(s)
      /\ m_last \in Node /\ m_free_head \in Node \cup {Null}
      /\ m_index \in [Node -> [next : Node \cup {Null}, data : Senders \cup {Blank}]]
      /\ sender \in [Senders -> SenderStates]
  BY DEF LocklessInv, LocklessTypeOK, Knowing, SendersKnow, AloneKnows
<1>2. my.node \in Links /\ my.read \in Links /\ Node \cup {Null} = Links
  BY <1>1 DEF SenderStates, Links, Node, Null
<1> DEFINE Moved(r) ==
              /\ r \in SenderStates /\ sender' = [sender EXCEPT ![s] = r]
              /\ my.at # "link" /\ r.at # "link"
              /\ UNCHANGED <<callers, m_first, m_last, freeList, m_index, receiver, published, aba>>
<1>3. \A r : Moved(r) => sender'[s] = r
  BY <1>1
<1>4. CASE Send(s)
  <2> DEFINE r == [my EXCEPT !.at = "pop", !.read = Null]
  <2>1. Moved(r) /\ r.at = "pop" /\ my.at = "idle"
    BY <1>1, <1>2, <1>4 DEF Send, Goes, SenderOnly, SenderStates, Links, Null
  <2> HIDE DEF r
  <2>2. Held(s)' = Held(s) /\ SenderKnows(s)' /\ KnowsAlone(s)'
    BY <2>1, <1>3 DEF Held, SenderKnows, KnowsAlone
  <2> QED BY <2>1, <2>2, SenderMoves
<1>5. CASE PopRead(s)
  <2>1. CASE m_free_head = Null
    <3>1. Moved(NotSending) /\ my.at = "pop"
      BY <1>1, <1>5, <2>1 DEF PopRead, SenderOnly, SenderStates, NotSending, Links, Null
    <3>2. Held(s)' = Held(s) /\ SenderKnows(s)' /\ KnowsAlone(s)'
      BY <3>1, <1>3 DEF Held, SenderKnows, KnowsAlone, NotSending
    <3> QED BY <3>1, <3>2, SenderMoves
  <2>2. CASE m_free_head # Null
    <3> DEFINE r == [my EXCEPT !.at = "next", !.node = m_free_head]
    <3>1. Moved(r) /\ r.at = "next" /\ r.node = m_free_head /\ my.at = "pop"
      BY <1>1, <1>2, <1>5, <2>2 DEF PopRead, SenderOnly, SenderStates
    <3> HIDE DEF r
    <3>2. m_free_head \in ToSet(free)
      <4>1. free \in Seq(Node) /\ m_free_head = IF free = <<>> THEN Null ELSE Head(free)
        BY DEF LocklessInv, LocklessTypeOK, QueueKept, FreeNodesLinked
      <4>2. free # <<>> /\ m_free_head = free[1] /\ 1 \in DOMAIN free
        BY <4>1, <2>2
      <4> QED BY <4>2 DEF ToSet
    <3>3. Held(s)' = Held(s) /\ SenderKnows(s)' /\ KnowsAlone(s)'
      BY <3>1, <3>2, <1>1, <1>3, <2>2 DEF Held, SenderKnows, KnowsAlone, freeList
    <3> QED BY <3>1, <3>3, SenderMoves
  <2> QED BY <2>1, <2>2
<1>6. CASE PopNext(s)
  <2> DEFINE r == [my EXCEPT !.at = "cas", !.read = m_index[my.node].next]
  <2>1. my.at = "next" /\ my.node \in Node
    BY <1>1, <1>6 DEF PopNext, SenderKnows
  <2>2. /\ Moved(r) /\ r.at = "cas" /\ r.node = my.node
        /\ r.read = m_index[my.node].next
    BY <1>1, <1>2, <1>6, <2>1 DEF PopNext, SenderOnly, SenderStates
  <2> HIDE DEF r
  <2>3. Held(s)' = Held(s) /\ SenderKnows(s)' /\ KnowsAlone(s)'
    BY <2>1, <2>2, <1>1, <1>3 DEF Held, SenderKnows, KnowsAlone, freeList
  <2> QED BY <2>1, <2>2, <2>3, SenderMoves
<1>7. CASE LastRead(s)
  <2> DEFINE r == [my EXCEPT !.at = "publish", !.read = m_last]
  <2>1. /\ Moved(r) /\ r.at = "publish" /\ r.node = my.node /\ r.read = m_last
        /\ my.at = "last"
    BY <1>1, <1>2, <1>7 DEF LastRead, SenderOnly, SenderStates
  <2> HIDE DEF r
  <2>2. Held(s)' = Held(s) /\ SenderKnows(s)' /\ KnowsAlone(s)'
    BY <2>1, <1>1, <1>3 DEF Held, SenderKnows, KnowsAlone
  <2> QED BY <2>1, <2>2, SenderMoves
<1>8. CASE PopCAS(s) /\ m_free_head # my.node
  <2> DEFINE r == [NotSending EXCEPT !.at = "pop"]
  <2>1. Moved(r) /\ r.at = "pop" /\ my.at = "cas"
    BY <1>1, <1>8 DEF PopCAS, SenderOnly, SenderStates, NotSending, Links, Null
  <2> HIDE DEF r
  <2>2. Held(s)' = Held(s) /\ SenderKnows(s)' /\ KnowsAlone(s)'
    BY <2>1, <1>3 DEF Held, SenderKnows, KnowsAlone
  <2> QED BY <2>1, <2>2, SenderMoves
<1>9. CASE LastCAS(s) /\ m_last # my.read
  <2> DEFINE r == [my EXCEPT !.at = "last", !.read = Null]
  <2>1. Moved(r) /\ r.at = "last" /\ r.node = my.node /\ my.at = "publish"
    BY <1>1, <1>2, <1>9 DEF LastCAS, Goes, SenderOnly, SenderStates, Links, Null
  <2> HIDE DEF r
  <2>2. Held(s)' = Held(s) /\ SenderKnows(s)' /\ KnowsAlone(s)'
    BY <2>1, <1>1, <1>3 DEF Held, SenderKnows, KnowsAlone
  <2> QED BY <2>1, <2>2, SenderMoves
<1> QED
  BY <1>4, <1>5, <1>6, <1>7, <1>8, <1>9

(* The same of the receiver.                                               *)
LEMMA WaitingKeeps ==
    ASSUME LocklessInv, ~ aba,
           \/ Receive \/ PushRead \/ Copy
           \/ TakeFirst /\ m_index[m_first].next = Null
           \/ PushCAS /\ m_free_head # receiver.read
    PROVE  LocklessInv'
<1>1. /\ receiver \in ReceiverStates /\ ReceiverKnows /\ m_free_head \in Node \cup {Null}
      /\ receiver.at \in {"push", "chain", "cas", "copy"} => receiver.node = m_first
      /\ Node \cup {Null} = Links /\ Null \in Links
  BY DEF LocklessInv, LocklessTypeOK, Knowing, QueueKept, MessagesIntact, Node, Links, Null
<1>2. CASE Receive
  BY <1>1, <1>2, ReceiverMoves DEF Receive, ReceiverOnly, ReceiverStates, Returning, ReceiverKnows
<1>3. CASE PushRead
  BY <1>1, <1>3, ReceiverMoves
     DEF PushRead, ReceiverOnly, ReceiverStates, Returning, ReceiverKnows
<1>4. CASE Copy
  BY <1>1, <1>4, ReceiverMoves
     DEF Copy, ReceiverOnly, ReceiverStates, Returning, ReceiverKnows, NotReceiving
<1>5. CASE TakeFirst /\ m_index[m_first].next = Null
  BY <1>1, <1>5, ReceiverMoves
     DEF TakeFirst, ReceiverOnly, ReceiverStates, Returning, ReceiverKnows
<1>6. CASE PushCAS /\ m_free_head # receiver.read
  BY <1>1, <1>6, ReceiverMoves DEF PushCAS, ReceiverOnly, ReceiverStates, Returning, ReceiverKnows
<1> QED
  BY <1>2, <1>3, <1>4, <1>5, <1>6

(* What a step of the sender s leaves alone of the others.                 *)
LEMMA OthersStay ==
    ASSUME LocklessInv, ~ aba, NEW s \in callers, NEW r \in SenderStates,
           sender' = [sender EXCEPT ![s] = r]
    PROVE  /\ s \in Senders /\ callers \subseteq Senders /\ sender[s] \in SenderStates
           /\ SenderKnows(s) /\ KnowsAlone(s)
           /\ sender' \in [Senders -> SenderStates] /\ sender'[s] = r
           /\ \A t \in Senders : t # s => sender'[t] = sender[t] /\ Held(t)' = Held(t)
<1>1. /\ s \in Senders /\ callers \subseteq Senders /\ sender \in [Senders -> SenderStates]
      /\ SenderKnows(s) /\ KnowsAlone(s)
  BY DEF LocklessInv, LocklessTypeOK, Knowing, SendersKnow, AloneKnows
<1> QED
  BY <1>1 DEF Held

(* The step that takes a node from the free list. If it takes the link     *)
(* that the node has the list goes on from there.                          *)
LEMMA PopKeeps ==
    ASSUME LocklessInv, ~ aba, NEW s \in callers, PopCAS(s), m_free_head = sender[s].node
    PROVE  LocklessInv'
<1> DEFINE my == sender[s]
           r  == [my EXCEPT !.at = "fill", !.read = Null]
<1>1. /\ my.at = "cas" /\ m_free_head' = my.read /\ free' = Tail(free)
      /\ sender' = [sender EXCEPT ![s] = r] /\ aba' = (m_index[my.node].next # my.read)
      /\ UNCHANGED <<callers, m_first, m_last, m_index, receiver, published>>
  BY DEF PopCAS, Goes, SenderOnly
<1>2. r \in SenderStates /\ r.at = "fill" /\ r.node = my.node
  <2>1. my \in SenderStates
    <3>1. s \in Senders /\ sender \in [Senders -> SenderStates]
      BY DEF LocklessInv, LocklessTypeOK
    <3> QED BY <3>1
  <2>2. Null \in Links
    BY DEF Null, Links
  <2> QED BY <2>1, <2>2 DEF SenderStates
<1> HIDE DEF r
<1>3. /\ s \in Senders /\ callers \subseteq Senders /\ my \in SenderStates
      /\ SenderKnows(s) /\ KnowsAlone(s)
      /\ sender' \in [Senders -> SenderStates] /\ sender'[s] = r
      /\ \A t \in Senders : t # s => sender'[t] = sender[t] /\ Held(t)' = Held(t)
  BY <1>1, <1>2, OthersStay
<1>4. my.node \in Node /\ my.read \in Node \cup {Null}
  BY <1>1, <1>3 DEF SenderKnows, SenderStates, Links, Node, Null
<1>5. /\ free \in Seq(Node) /\ NodesKeptApart /\ FreeNodesLinked /\ MessagesLinked
      /\ MessagesIntact /\ SendersKnow /\ ReceiverKnows /\ AloneKnows
  BY DEF LocklessInv, LocklessTypeOK, QueueKept, Knowing
<1>6. free # <<>> /\ Head(free) = my.node /\ IsInjective(free)
  BY <1>4, <1>5 DEF FreeNodesLinked, NodesKeptApart, Node, Null
<1>7. /\ ToSet(free) = ToSet(free') \cup {my.node} /\ my.node \notin ToSet(free')
      /\ IsInjective(free')
  BY <1>1, <1>5, <1>6, HeadAndRest
<1>8. /\ Len(free) \in Nat \ {0} /\ free[1] = my.node /\ free' \in Seq(Node)
      /\ DOMAIN free = 1 .. Len(free) /\ DOMAIN free' = 1 .. Len(free) - 1
      /\ Len(free') = Len(free) - 1 /\ \A i \in 1 .. Len(free) - 1 : free'[i] = free[i + 1]
  BY <1>1, <1>5, <1>6
<1>9. LocklessTypeOK'
  BY <1>1, <1>3, <1>4, <1>8 DEF LocklessInv, LocklessTypeOK
<1>10. \A t \in Senders : callers' = {t} => ~ aba'
  BY <1>1, <1>3 DEF KnowsAlone
<1>11. ASSUME ~ aba' PROVE (QueueKept /\ Knowing)'
  <2>1. m_index[my.node].next = my.read
    BY <1>1, <1>11
  <2>2. Queued' = Queued /\ Returning' = Returning /\ Held(s)' = {my.node} /\ Held(s) = {}
    BY <1>1, <1>2, <1>3 DEF Queued, Returning, Held
  <2>3. NodesKeptApart'
    <3>1. /\ my.node \notin ToSet(Queued) /\ my.node \notin Returning
          /\ \A t \in Senders : my.node \notin Held(t)
      BY <1>5, <1>7 DEF NodesKeptApart
    <3> QED BY <3>1, <1>3, <1>5, <1>7, <2>2 DEF NodesKeptApart
  <2>4. FreeNodesLinked'
    <3>1. m_free_head' = IF Len(free) = 1 THEN Null ELSE free[2]
      BY <2>1, <1>1, <1>5, <1>8 DEF FreeNodesLinked
    <3>2. m_free_head' = IF free' = <<>> THEN Null ELSE Head(free')
      <4>1. CASE Len(free) = 1
        <5>1. free' = <<>> BY <4>1, <1>8, EmptySeq
        <5> QED BY <5>1, <4>1, <3>1
      <4>2. CASE Len(free) # 1
        <5>1. free' # <<>> /\ Head(free') = free'[1] /\ 1 \in 1 .. Len(free) - 1
          BY <4>2, <1>8
        <5> QED BY <5>1, <4>2, <3>1, <1>8
      <4> QED BY <4>1, <4>2
    <3>3. ASSUME NEW i \in 1 .. Len(free) - 1
          PROVE  m_index'[free'[i]].next = IF i = Len(free') THEN Null ELSE free'[i + 1]
      <4>1. i + 1 \in 1 .. Len(free) /\ free'[i] = free[i + 1]
        BY <1>8
      <4>2. m_index[free[i + 1]].next = IF i + 1 = Len(free) THEN Null ELSE free[(i + 1) + 1]
        BY <4>1, <1>5, <1>8 DEF FreeNodesLinked
      <4>6. Len(free) \in Nat \ {0} /\ Len(free') = Len(free) - 1
        BY <1>8
      <4>3. i = Len(free') <=> i + 1 = Len(free)
        BY <4>6
      <4>4. i # Len(free') => i + 1 \in 1 .. Len(free) - 1
        BY <4>6
      <4>5. i # Len(free') => free'[i + 1] = free[(i + 1) + 1]
        BY <4>4, <1>8
      <4> QED BY <4>1, <4>2, <4>3, <4>5, <1>1
    <3> QED BY <3>2, <3>3, <1>8 DEF FreeNodesLinked
  <2>5. \A t \in Senders : /\ sender'[t].at = "link" => sender'[t] = sender[t]
                           /\ sender[t].at = "link" => sender'[t] = sender[t]
    BY <1>1, <1>2, <1>3
  <2>6. MessagesLinked' /\ MessagesIntact'
    BY <2>2, <2>5, <1>1, <1>5 DEF MessagesLinked, MessagesIntact, AboutToLink
  <2>7. SendersKnow'
    <3>1. \A t \in Senders : SenderKnows(t)'
      BY <1>1, <1>2, <1>3, <1>4, <1>5 DEF SendersKnow, SenderKnows
    <3>2. \A t \in Senders : sender'[t].at = "link" => LinksNext(t)'
      BY <1>1, <1>5, <2>2, <2>5 DEF SendersKnow, LinksNext, AboutToLink
    <3>3. \A t, u \in Senders :
            sender'[t].at = "link" /\ sender'[u].at = "link" /\ t # u
               => sender'[t].read # sender'[u].read
      BY <1>5, <2>5 DEF SendersKnow
    <3> QED BY <3>1, <3>2, <3>3 DEF SendersKnow
  <2>8. ReceiverKnows'
    BY <1>1, <1>5 DEF ReceiverKnows
  <2>9. AloneKnows'
    <3> SUFFICES ASSUME NEW t \in Senders, callers' = {t}
                 PROVE  KnowsAlone(t)'
      BY DEF AloneKnows, KnowsAlone
    <3>1. t = s
      BY <1>1
    <3> QED BY <3>1, <1>2, <1>3 DEF KnowsAlone
  <2> QED BY <2>3, <2>4, <2>6, <2>7, <2>8, <2>9 DEF QueueKept, Knowing
<1> QED
  BY <1>9, <1>10, <1>11 DEF LocklessInv

(* A write to a node that is in neither list leaves both as they are.      *)
LEMMA WriteApart ==
    ASSUME LocklessInv, ~ aba, NEW n \in Node, n \notin ToSet(free) \cup ToSet(Queued),
           \A m \in Node : m # n => m_index'[m] = m_index[m],
           UNCHANGED <<m_first, m_last, m_free_head, free, published>>,
           \A t \in Senders : /\ sender[t].at = "link" => sender'[t] = sender[t]
                              /\ sender'[t].at = "link" => sender'[t] = sender[t],
           receiver'.at \in {"push", "chain", "cas", "copy"} => receiver'.node = m_first
    PROVE  /\ FreeNodesLinked' /\ MessagesLinked' /\ MessagesIntact' /\ Queued' = Queued
           /\ \A t \in Senders : sender'[t].at = "link" => LinksNext(t)'
           /\ \A t, u \in Senders :
                 sender'[t].at = "link" /\ sender'[u].at = "link" /\ t # u
                    => sender'[t].read # sender'[u].read
<1>1. /\ free \in Seq(Node) /\ published \in Seq(Message) /\ receiver \in ReceiverStates
      /\ FreeNodesLinked /\ MessagesLinked /\ MessagesIntact /\ SendersKnow
  BY DEF LocklessInv, LocklessTypeOK, QueueKept, Knowing, Message
<1>2. Queued' = Queued
  BY DEF Queued
<1>3. \A i \in DOMAIN free : free[i] \in Node /\ m_index'[free[i]] = m_index[free[i]]
  BY <1>1 DEF ToSet
<1>4. /\ DOMAIN published = 1 .. Len(published) /\ Len(published) \in Nat
      /\ \A i \in 1 .. Len(published) :
            Queued[i] \in Node /\ m_index'[Queued[i]] = m_index[Queued[i]]
  <2>1. /\ DOMAIN published = 1 .. Len(published) /\ Len(published) \in Nat
        /\ \A i \in 1 .. Len(published) : Queued[i] \in Node /\ Queued[i] \in ToSet(Queued)
    BY <1>1, QueuedIs DEF ToSet
  <2> QED BY <2>1
<1>5. FreeNodesLinked'
  BY <1>1, <1>3 DEF FreeNodesLinked
<1>6. 1 .. Len(published) - 1 \subseteq 1 .. Len(published)
  BY <1>4
<1>7. m_index'[m_last] = m_index[m_last]
  <2>1. published # <<>> /\ m_last = Queued[Len(published)]
    BY <1>1 DEF MessagesLinked
  <2>2. Len(published) \in 1 .. Len(published)
    BY <2>1, <1>1, <1>4, EmptySeq
  <2> QED BY <2>1, <2>2, <1>4
<1>8. MessagesLinked'
  <2>1. published' # <<>> /\ m_first' = Queued'[1] /\ m_last' = Queued'[Len(published')]
        /\ m_index'[m_last'].next = Null
    BY <1>1, <1>2, <1>7 DEF MessagesLinked
  <2>2. ASSUME NEW i \in 1 .. Len(published) - 1
        PROVE  \/ m_index'[Queued[i]].next = Queued[i + 1]
               \/ /\ m_index'[Queued[i]].next = Null
                  /\ \E t \in Senders : /\ sender'[t].at = "link" /\ sender'[t].read = Queued[i]
                                        /\ sender'[t].node = Queued[i + 1]
    <3>1. m_index'[Queued[i]] = m_index[Queued[i]]
      BY <1>4, <1>6
    <3> QED BY <3>1, <1>1 DEF MessagesLinked, AboutToLink
  <2> QED BY <2>1, <2>2, <1>2 DEF MessagesLinked, AboutToLink
<1>9. MessagesIntact'
  <2>1. \A i \in DOMAIN published : m_index'[Queued[i]].data = published[i].body
    BY <1>1, <1>4 DEF MessagesIntact
  <2>2. receiver'.at \in {"push", "chain", "cas", "copy"} => receiver'.node = m_first'
    OBVIOUS
  <2> QED BY <2>1, <2>2, <1>2 DEF MessagesIntact
<1>10. ASSUME NEW t \in Senders, sender'[t].at = "link" PROVE LinksNext(t)'
  <2>1. PICK i \in 1 .. Len(published) - 1 :
           AboutToLink(t, Queued[i], Queued[i + 1]) /\ m_index[Queued[i]].next = Null
    BY <1>1, <1>10 DEF SendersKnow, LinksNext
  <2>2. m_index'[Queued[i]] = m_index[Queued[i]]
    BY <1>4, <1>6
  <2> QED BY <2>1, <2>2, <1>2, <1>10 DEF LinksNext, AboutToLink
<1>11. \A t, u \in Senders :
           sender'[t].at = "link" /\ sender'[u].at = "link" /\ t # u
              => sender'[t].read # sender'[u].read
  BY <1>1 DEF SendersKnow
<1> QED
  BY <1>2, <1>5, <1>8, <1>9, <1>10, <1>11

(* The message is written into a node that no other thread has.            *)
LEMMA FillKeeps ==
    ASSUME LocklessInv, ~ aba, NEW s \in callers, Fill(s)
    PROVE  LocklessInv'
<1> DEFINE my == sender[s]
           r  == [my EXCEPT !.at = "last", !.read = Null]
<1>1. /\ my.at = "fill" /\ sender' = [sender EXCEPT ![s] = r]
      /\ m_index' = [m_index EXCEPT ![my.node] = [next |-> Null, data |-> s]]
      /\ UNCHANGED <<callers, m_first, m_last, m_free_head, free, receiver, published, aba>>
  BY DEF Fill, Goes, SenderOnly, freeList
<1>2. r \in SenderStates /\ r.at = "last" /\ r.node = my.node
  <2>1. s \in Senders /\ sender \in [Senders -> SenderStates]
    BY DEF LocklessInv, LocklessTypeOK
  <2>2. my \in SenderStates
    BY <2>1
  <2>3. Null \in Links
    BY DEF Null, Links
  <2> QED BY <2>2, <2>3 DEF SenderStates
<1> HIDE DEF r
<1>3. /\ s \in Senders /\ callers \subseteq Senders /\ my \in SenderStates
      /\ SenderKnows(s) /\ KnowsAlone(s)
      /\ sender' \in [Senders -> SenderStates] /\ sender'[s] = r
      /\ \A t \in Senders : t # s => sender'[t] = sender[t] /\ Held(t)' = Held(t)
  BY <1>1, <1>2, OthersStay
<1>4. /\ NodesKeptApart /\ MessagesIntact /\ SendersKnow /\ ReceiverKnows
      /\ m_index \in [Node -> [next : Node \cup {Null}, data : Senders \cup {Blank}]]
  BY DEF LocklessInv, LocklessTypeOK, QueueKept, Knowing
<1>5. my.node \in Node /\ Held(s) = {my.node} /\ Held(s)' = {my.node}
  BY <1>1, <1>2, <1>3 DEF SenderKnows, Held
<1>6. /\ my.node \notin ToSet(free) \cup ToSet(Queued) /\ my.node \notin Returning
      /\ \A t \in Senders : t # s => my.node \notin Held(t)
  BY <1>3, <1>4, <1>5 DEF NodesKeptApart
<1>7. /\ \A m \in Node : m # my.node => m_index'[m] = m_index[m]
      /\ m_index'[my.node].next = Null /\ m_index'[my.node].data = s
  BY <1>1, <1>4, <1>5
<1>8. LocklessTypeOK'
  BY <1>1, <1>3, <1>5 DEF LocklessInv, LocklessTypeOK
<1>9. \A t \in Senders : callers' = {t} => ~ aba'
  BY <1>1 DEF LocklessInv
<1>10. /\ FreeNodesLinked' /\ MessagesLinked' /\ MessagesIntact' /\ Queued' = Queued
       /\ \A t \in Senders : sender'[t].at = "link" => LinksNext(t)'
       /\ \A t, u \in Senders :
             sender'[t].at = "link" /\ sender'[u].at = "link" /\ t # u
                => sender'[t].read # sender'[u].read
  <2>1. \A t \in Senders : /\ sender[t].at = "link" => sender'[t] = sender[t]
                           /\ sender'[t].at = "link" => sender'[t] = sender[t]
    BY <1>1, <1>2, <1>3
  <2>2. /\ UNCHANGED <<m_first, m_last, m_free_head, free, published>>
        /\ receiver'.at \in {"push", "chain", "cas", "copy"} => receiver'.node = m_first
        /\ my.node \in Node /\ my.node \notin ToSet(free) \cup ToSet(Queued)
        /\ \A m \in Node : m # my.node => m_index'[m] = m_index[m]
    BY <1>1, <1>4, <1>5, <1>6, <1>7 DEF MessagesIntact
  <2> QED BY <2>1, <2>2, WriteApart
<1>11. NodesKeptApart'
  <2>1. Returning' = Returning /\ \A t \in Senders : Held(t)' = Held(t)
    BY <1>1, <1>3, <1>5 DEF Returning
  <2> QED BY <2>1, <1>1, <1>4, <1>10 DEF NodesKeptApart
<1>12. SendersKnow'
  <2>1. ASSUME NEW t \in Senders, t # s PROVE SenderKnows(t)'
    <3>1. sender'[t] = sender[t] /\ SenderKnows(t)
      BY <2>1, <1>3, <1>4 DEF SendersKnow
    <3>2. sender[t].at \in {"last", "publish"} =>
             m_index'[sender[t].node] = m_index[sender[t].node]
      BY <3>1, <1>6, <1>7, <2>1 DEF SenderKnows, Held
    <3> QED BY <3>1, <3>2, <1>1 DEF SenderKnows
  <2>2. SenderKnows(s)'
    BY <1>1, <1>2, <1>3, <1>5, <1>7 DEF SenderKnows
  <2> QED BY <2>1, <2>2, <1>10 DEF SendersKnow
<1>13. ReceiverKnows'
  <2>1. receiver.at = "cas" => m_index'[receiver.old] = m_index[receiver.old]
    BY <1>4, <1>6, <1>7 DEF ReceiverKnows, Returning
  <2> QED BY <2>1, <1>1, <1>4 DEF ReceiverKnows
<1>14. AloneKnows'
  <2> SUFFICES ASSUME NEW t \in Senders, callers' = {t}
               PROVE  KnowsAlone(t)'
    BY DEF AloneKnows, KnowsAlone
  <2>1. t = s
    BY <1>1
  <2> QED BY <2>1, <1>2, <1>3 DEF KnowsAlone
<1> QED
  BY <1>8, <1>9, <1>10, <1>11, <1>12, <1>13, <1>14 DEF LocklessInv, QueueKept, Knowing

(* The link that the receiver writes into the node that it gives back.     *)
LEMMA PushLinkKeeps ==
    ASSUME LocklessInv, ~ aba, PushLink
    PROVE  LocklessInv'
<1> DEFINE old == receiver.old
<1>1. /\ receiver.at = "chain" /\ receiver' = [receiver EXCEPT !.at = "cas"]
      /\ m_index' = [m_index EXCEPT ![old].next = receiver.read]
      /\ UNCHANGED <<callers, m_first, m_last, m_free_head, free, sender, published, aba>>
  BY DEF PushLink, ReceiverOnly, freeList
<1>2. /\ NodesKeptApart /\ MessagesIntact /\ SendersKnow /\ ReceiverKnows /\ AloneKnows
      /\ m_index \in [Node -> [next : Node \cup {Null}, data : Senders \cup {Blank}]]
      /\ receiver \in ReceiverStates /\ Links = Node \cup {Null}
  BY DEF LocklessInv, LocklessTypeOK, QueueKept, Knowing, Links, Node, Null
<1>3. /\ receiver' \in ReceiverStates /\ receiver'.at = "cas" /\ receiver'.old = old
      /\ receiver'.node = receiver.node /\ receiver'.read = receiver.read
      /\ receiver.read \in Node \cup {Null} /\ receiver.node = m_first
  BY <1>1, <1>2 DEF ReceiverStates, MessagesIntact
<1>4. old \in Node /\ Returning = {old} /\ Returning' = {old}
  BY <1>1, <1>2, <1>3 DEF ReceiverKnows, Returning
<1>5. /\ old \notin ToSet(free) \cup ToSet(Queued) /\ \A t \in Senders : old \notin Held(t)
  BY <1>2, <1>4 DEF NodesKeptApart
<1>6. /\ \A m \in Node : m # old => m_index'[m] = m_index[m]
      /\ m_index'[old].next = receiver.read
      /\ m_index' \in [Node -> [next : Node \cup {Null}, data : Senders \cup {Blank}]]
  BY <1>1, <1>2, <1>3, <1>4
<1>7. LocklessTypeOK'
  BY <1>1, <1>3, <1>6 DEF LocklessInv, LocklessTypeOK
<1>8. /\ FreeNodesLinked' /\ MessagesLinked' /\ MessagesIntact' /\ Queued' = Queued
      /\ \A t \in Senders : sender'[t].at = "link" => LinksNext(t)'
      /\ \A t, u \in Senders :
            sender'[t].at = "link" /\ sender'[u].at = "link" /\ t # u
               => sender'[t].read # sender'[u].read
  BY <1>1, <1>3, <1>4, <1>5, <1>6, WriteApart
<1>9. NodesKeptApart'
  <2>1. Returning' = Returning /\ \A t \in Senders : Held(t)' = Held(t)
    BY <1>1, <1>4 DEF Held
  <2> QED BY <2>1, <1>1, <1>2, <1>8 DEF NodesKeptApart
<1>10. SendersKnow'
  <2>1. ASSUME NEW t \in Senders PROVE SenderKnows(t)'
    <3>1. sender'[t] = sender[t] /\ SenderKnows(t)
      BY <1>1, <1>2 DEF SendersKnow
    <3>2. sender[t].at \in {"last", "publish"} =>
             m_index'[sender[t].node] = m_index[sender[t].node]
      BY <3>1, <1>5, <1>6 DEF SenderKnows, Held
    <3> QED BY <3>1, <3>2, <1>1 DEF SenderKnows
  <2> QED BY <2>1, <1>8 DEF SendersKnow
<1>11. ReceiverKnows'
  BY <1>3, <1>4, <1>6 DEF ReceiverKnows
<1>12. AloneKnows'
  <2> SUFFICES ASSUME NEW t \in Senders, callers' = {t} PROVE KnowsAlone(t)'
    BY DEF AloneKnows, KnowsAlone
  <2>1. KnowsAlone(t) /\ callers = {t} /\ sender[t] \in SenderStates
    BY <1>1, <1>2 DEF AloneKnows, LocklessInv, LocklessTypeOK
  <2>2. sender[t].at = "cas" => m_index'[sender[t].node] = m_index[sender[t].node]
    <3>1. sender[t].at = "cas" => sender[t].node \in Node
      BY <1>2 DEF SendersKnow, SenderKnows
    <3> QED BY <3>1, <2>1, <1>5, <1>6 DEF KnowsAlone
  <2> QED BY <2>1, <2>2, <1>1 DEF KnowsAlone
<1> QED
  BY <1>1, <1>7, <1>8, <1>9, <1>10, <1>11, <1>12 DEF LocklessInv, QueueKept, Knowing

(* Whoever links the last message but one to the last writes into a node   *)
(* that nobody else writes into.                                           *)
LEMMA LinkKeeps ==
    ASSUME LocklessInv, ~ aba, NEW s \in callers, Link(s)
    PROVE  LocklessInv'
<1> DEFINE my == sender[s]
           n  == my.read
<1>1. /\ my.at = "link" /\ sender' = [sender EXCEPT ![s] = NotSending]
      /\ m_index' = [m_index EXCEPT ![n].next = my.node]
      /\ UNCHANGED <<callers, m_first, m_last, m_free_head, free, receiver, published, aba>>
  BY DEF Link, SenderOnly, freeList
<1>2. NotSending \in SenderStates /\ NotSending.at = "idle"
  BY DEF NotSending, SenderStates, Links, Null
<1>3. /\ s \in Senders /\ callers \subseteq Senders /\ my \in SenderStates
      /\ SenderKnows(s) /\ KnowsAlone(s)
      /\ sender' \in [Senders -> SenderStates] /\ sender'[s] = NotSending
      /\ \A t \in Senders : t # s => sender'[t] = sender[t] /\ Held(t)' = Held(t)
  BY <1>1, <1>2, OthersStay
<1>4. /\ NodesKeptApart /\ FreeNodesLinked /\ MessagesLinked /\ MessagesIntact
      /\ SendersKnow /\ ReceiverKnows
      /\ m_index \in [Node -> [next : Node \cup {Null}, data : Senders \cup {Blank}]]
      /\ published \in Seq(Message) /\ free \in Seq(Node)
  BY DEF LocklessInv, LocklessTypeOK, QueueKept, Knowing, Message
<1>5. /\ DOMAIN published = 1 .. Len(published) /\ DOMAIN Queued = 1 .. Len(published)
      /\ Len(published) \in Nat \ {0} /\ Queued' = Queued
      /\ \A i \in 1 .. Len(published) : Queued[i] \in Node /\ Queued[i] \in ToSet(Queued)
  <2>1. /\ DOMAIN published = 1 .. Len(published) /\ DOMAIN Queued = 1 .. Len(published)
        /\ \A i \in 1 .. Len(published) : Queued[i] \in Node /\ Queued[i] \in ToSet(Queued)
    BY <1>4, QueuedIs DEF ToSet
  <2>2. Queued' = Queued
    BY <1>1 DEF Queued
  <2>3. Len(published) \in Nat \ {0}
    BY <1>4, EmptySeq DEF MessagesLinked
  <2> QED BY <2>1, <2>2, <2>3
<1>6. PICK k \in 1 .. Len(published) - 1 :
         Queued[k] = n /\ Queued[k + 1] = my.node /\ m_index[Queued[k]].next = Null
  BY <1>1, <1>3, <1>4 DEF SendersKnow, LinksNext, AboutToLink
<1>7. /\ k \in 1 .. Len(published) /\ k # Len(published) /\ k + 1 \in 1 .. Len(published)
      /\ 1 .. Len(published) - 1 \subseteq 1 .. Len(published)
      /\ Len(published) \in 1 .. Len(published)
  <2>1. Len(published) \in Nat \ {0}
    BY <1>5
  <2> QED BY <2>1
<1>8. n \in Node /\ my.node \in Node /\ n \in ToSet(Queued)
  BY <1>5, <1>6, <1>7
<1>9. /\ n \notin ToSet(free) /\ n \notin Returning /\ \A t \in Senders : n \notin Held(t)
  BY <1>4, <1>8 DEF NodesKeptApart
<1>10. /\ \A m \in Node : m # n => m_index'[m] = m_index[m]
       /\ \A m \in Node : m_index'[m].data = m_index[m].data
       /\ m_index'[n].next = my.node
       /\ m_index' \in [Node -> [next : Node \cup {Null}, data : Senders \cup {Blank}]]
  <2>1. /\ m_index' = [m_index EXCEPT ![n].next = my.node]
        /\ m_index \in [Node -> [next : Node \cup {Null}, data : Senders \cup {Blank}]]
    BY <1>1, <1>4
  <2> QED BY <2>1, <1>8
<1>11. LocklessTypeOK'
  BY <1>1, <1>3, <1>10 DEF LocklessInv, LocklessTypeOK
<1>12. \A t \in Senders : callers' = {t} => ~ aba'
  BY <1>1 DEF LocklessInv
<1>13. NodesKeptApart'
  <2>1. Returning' = Returning /\ \A t \in Senders : Held(t)' = Held(t)
    BY <1>1, <1>2, <1>3 DEF Returning, Held
  <2> QED BY <2>1, <1>1, <1>4, <1>5 DEF NodesKeptApart
<1>14. FreeNodesLinked'
  <2>1. \A i \in DOMAIN free : m_index'[free[i]] = m_index[free[i]]
    BY <1>4, <1>9, <1>10 DEF ToSet
  <2> QED BY <2>1, <1>1, <1>4 DEF FreeNodesLinked
<1>15. \A i \in 1 .. Len(published) :
          i # k => Queued[i] # n /\ m_index'[Queued[i]] = m_index[Queued[i]]
  <2> SUFFICES ASSUME NEW i \in 1 .. Len(published), i # k
               PROVE  Queued[i] # n /\ m_index'[Queued[i]] = m_index[Queued[i]]
    OBVIOUS
  <2>1. IsInjective(Queued) /\ i \in DOMAIN Queued /\ k \in DOMAIN Queued /\ Queued[i] \in Node
    BY <1>4, <1>5, <1>7 DEF NodesKeptApart
  <2>2. Queued[i] # Queued[k]
    BY <2>1 DEF IsInjective
  <2> QED BY <2>1, <2>2, <1>6, <1>10
<1>16. MessagesLinked'
  <2>1. /\ published' # <<>> /\ m_first' = Queued'[1] /\ m_last' = Queued'[Len(published')]
        /\ m_index'[m_last'].next = Null
    <3>1. Len(published) \in 1 .. Len(published) /\ Len(published) # k
      BY <1>7
    <3> QED BY <3>1, <1>1, <1>4, <1>5, <1>15 DEF MessagesLinked
  <2>2. ASSUME NEW i \in 1 .. Len(published) - 1
        PROVE  \/ m_index'[Queued[i]].next = Queued[i + 1]
               \/ /\ m_index'[Queued[i]].next = Null
                  /\ \E t \in Senders : /\ sender'[t].at = "link" /\ sender'[t].read = Queued[i]
                                        /\ sender'[t].node = Queued[i + 1]
    <3>1. CASE i = k
      BY <3>1, <1>6, <1>10
    <3>2. CASE i # k
      <4>1. m_index'[Queued[i]] = m_index[Queued[i]] /\ Queued[i] # n
        BY <3>2, <1>7, <1>15
      <4>2. \A t \in Senders : AboutToLink(t, Queued[i], Queued[i + 1]) => t # s
        BY <4>1 DEF AboutToLink
      <4>3. \/ m_index[Queued[i]].next = Queued[i + 1]
            \/ /\ m_index[Queued[i]].next = Null
               /\ \E t \in Senders : AboutToLink(t, Queued[i], Queued[i + 1])
        BY <1>4 DEF MessagesLinked
      <4>4. CASE m_index[Queued[i]].next = Queued[i + 1]
        BY <4>1, <4>4
      <4>5. ASSUME m_index[Queued[i]].next = Null,
                   NEW t \in Senders, AboutToLink(t, Queued[i], Queued[i + 1])
            PROVE  /\ m_index'[Queued[i]].next = Null /\ sender'[t].at = "link"
                   /\ sender'[t].read = Queued[i] /\ sender'[t].node = Queued[i + 1]
        BY <4>1, <4>2, <4>5, <1>3 DEF AboutToLink
      <4> QED BY <4>3, <4>4, <4>5
    <3> QED BY <3>1, <3>2
  <2> QED BY <2>1, <2>2, <1>1, <1>5 DEF MessagesLinked, AboutToLink
<1>17. MessagesIntact'
  BY <1>1, <1>4, <1>5, <1>10 DEF MessagesIntact
<1>18. SendersKnow'
  <2>1. ASSUME NEW t \in Senders, t # s PROVE SenderKnows(t)'
    <3>1. sender'[t] = sender[t] /\ SenderKnows(t)
      BY <2>1, <1>3, <1>4 DEF SendersKnow
    <3>2. sender[t].at \in {"last", "publish"} =>
             m_index'[sender[t].node] = m_index[sender[t].node]
      BY <3>1, <1>9, <1>10, <2>1 DEF SenderKnows, Held
    <3> QED BY <3>1, <3>2, <1>1 DEF SenderKnows
  <2>2. SenderKnows(s)'
    BY <1>2, <1>3 DEF SenderKnows
  <2>3. \A t \in Senders :
           sender'[t].at = "link" => t # s /\ sender[t].at = "link" /\ sender'[t] = sender[t]
    BY <1>2, <1>3
  <2>4. ASSUME NEW t \in Senders, sender'[t].at = "link" PROVE LinksNext(t)'
    <3>1. t # s /\ sender[t].at = "link" /\ sender'[t] = sender[t] /\ sender[t].read # n
      BY <2>3, <2>4, <1>1, <1>3, <1>4 DEF SendersKnow
    <3>2. PICK i \in 1 .. Len(published) - 1 :
             AboutToLink(t, Queued[i], Queued[i + 1]) /\ m_index[Queued[i]].next = Null
      BY <3>1, <1>4 DEF SendersKnow, LinksNext
    <3>3. i # k
      BY <3>1, <3>2, <1>6 DEF AboutToLink
    <3>4. m_index'[Queued[i]] = m_index[Queued[i]]
      BY <3>3, <1>7, <1>15
    <3> QED BY <3>1, <3>2, <3>4, <1>1, <1>5 DEF LinksNext, AboutToLink
  <2>5. \A t, u \in Senders :
          sender'[t].at = "link" /\ sender'[u].at = "link" /\ t # u
             => sender'[t].read # sender'[u].read
    BY <2>3, <1>4 DEF SendersKnow
  <2> QED BY <2>1, <2>2, <2>4, <2>5 DEF SendersKnow
<1>19. ReceiverKnows'
  <2>1. receiver.at = "cas" => m_index'[receiver.old] = m_index[receiver.old]
    BY <1>4, <1>9, <1>10 DEF ReceiverKnows, Returning
  <2> QED BY <2>1, <1>1, <1>4 DEF ReceiverKnows
<1>20. AloneKnows'
  <2> SUFFICES ASSUME NEW t \in Senders, callers' = {t} PROVE KnowsAlone(t)'
    BY DEF AloneKnows, KnowsAlone
  <2>1. t = s
    BY <1>1
  <2> QED BY <2>1, <1>2, <1>3 DEF KnowsAlone
<1> QED
  BY <1>11, <1>12, <1>13, <1>14, <1>16, <1>17, <1>18, <1>19, <1>20
     DEF LocklessInv, QueueKept, Knowing

(* A message becomes the last, and its sender the one to link it.          *)
LEMMA PublishKeeps ==
    ASSUME LocklessInv, ~ aba, NEW s \in callers, LastCAS(s), m_last = sender[s].read
    PROVE  LocklessInv'
<1> DEFINE my == sender[s]
           r  == [my EXCEPT !.at = "link"]
           m  == [node |-> my.node, body |-> s]
           q  == Len(published)
<1>1. /\ my.at = "publish" /\ m_last' = my.node
      /\ published' = Append(published, m)
      /\ UNCHANGED <<callers, m_first, m_free_head, free, m_index, receiver, aba>>
  BY DEF LastCAS, SenderOnly, freeList
<1>2. /\ sender' = [sender EXCEPT ![s] = r] /\ r \in SenderStates
      /\ r.at = "link" /\ r.node = my.node /\ r.read = my.read
  <2>1. s \in Senders /\ sender \in [Senders -> SenderStates]
    BY DEF LocklessInv, LocklessTypeOK
  <2>2. my \in SenderStates
    BY <2>1
  <2> QED BY <2>2 DEF SenderStates, LastCAS
<1> HIDE DEF r
<1>3. /\ s \in Senders /\ callers \subseteq Senders /\ my \in SenderStates
      /\ SenderKnows(s) /\ KnowsAlone(s)
      /\ sender' \in [Senders -> SenderStates] /\ sender'[s] = r
      /\ \A t \in Senders : t # s => sender'[t] = sender[t] /\ Held(t)' = Held(t)
  BY <1>1, <1>2, OthersStay
<1>4. /\ NodesKeptApart /\ FreeNodesLinked /\ MessagesLinked /\ MessagesIntact
      /\ SendersKnow /\ ReceiverKnows /\ published \in Seq(Message)
  BY DEF LocklessInv, LocklessTypeOK, QueueKept, Knowing, Message
<1>5. /\ my.node \in Node /\ Held(s) = {my.node} /\ Held(s)' = {}
      /\ m_index[my.node].next = Null /\ m_index[my.node].data = s
      /\ m \in Message /\ m.node = my.node /\ m.body = s
  BY <1>1, <1>2, <1>3 DEF SenderKnows, Held, Message
<1> HIDE DEF m
<1>6. /\ Queued' = Append(Queued, my.node) /\ Len(published') = q + 1
      /\ published' \in Seq(Message) /\ Queued'[q + 1] = my.node /\ published'[q + 1] = m
      /\ \A i \in 1 .. q : Queued'[i] = Queued[i] /\ published'[i] = published[i]
  BY <1>1, <1>4, <1>5, QueuedAppend
<1>7. /\ q \in Nat \ {0} /\ Queued \in Seq(Node) /\ DOMAIN published = 1 .. q
      /\ DOMAIN published' = 1 .. q + 1
      /\ \A i \in 1 .. q : Queued[i] \in Node /\ Queued[i] \in ToSet(Queued)
      /\ m_last = Queued[q] /\ m_first = Queued[1]
  <2>1. q \in Nat \ {0} /\ published # <<>> /\ m_last = Queued[q] /\ m_first = Queued[1]
    BY <1>4, EmptySeq DEF MessagesLinked
  <2>2. /\ Queued \in Seq(Node) /\ DOMAIN published = 1 .. q
        /\ \A i \in 1 .. q : Queued[i] \in Node /\ Queued[i] \in ToSet(Queued)
    BY <1>4, QueuedIs DEF ToSet
  <2>3. DOMAIN published' = 1 .. q + 1
    BY <1>6, LenProperties
  <2> QED BY <2>1, <2>2, <2>3
<1> HIDE DEF q
<1>20. q \in Nat \ {0} /\ Len(published') = q + 1
  BY <1>6, <1>7
<1>8. /\ my.node \notin ToSet(free) \cup ToSet(Queued) /\ my.node \notin Returning
      /\ \A t \in Senders : t # s => my.node \notin Held(t)
  BY <1>3, <1>4, <1>5 DEF NodesKeptApart
<1>9. ToSet(Queued') = ToSet(Queued) \cup {my.node} /\ IsInjective(Queued')
  <2>1. IsInjective(Queued)
    BY <1>4 DEF NodesKeptApart
  <2> QED BY <2>1, <1>5, <1>6, <1>7, <1>8, AppendedSet
<1>10. LocklessTypeOK'
  BY <1>1, <1>3, <1>5, <1>6 DEF LocklessInv, LocklessTypeOK, Message
<1>11. \A t \in Senders : callers' = {t} => ~ aba'
  BY <1>1 DEF LocklessInv
<1>12. NodesKeptApart'
  <2>1. Returning' = Returning
    BY <1>1 DEF Returning
  <2>2. \A t \in Senders : t # s => Held(t)' = Held(t)
    BY <1>3
  <2> QED BY <2>1, <2>2, <1>1, <1>3, <1>4, <1>5, <1>8, <1>9 DEF NodesKeptApart
<1>13. FreeNodesLinked'
  BY <1>1, <1>4 DEF FreeNodesLinked
<1>14. \A t \in Senders : sender[t].at = "link" => t # s /\ sender'[t] = sender[t]
  BY <1>1, <1>3
<1>15. MessagesLinked'
  <2>1. /\ published' # <<>> /\ m_first' = Queued'[1] /\ m_last' = Queued'[Len(published')]
        /\ m_index'[m_last'].next = Null
    <3>1. Len(published') \in Nat \ {0} /\ 1 \in 1 .. q
      BY <1>6, <1>7
    <3>2. published' # <<>>
      BY <3>1, EmptySeq
    <3> QED BY <3>1, <3>2, <1>1, <1>5, <1>6, <1>7
  <2>2. ASSUME NEW i \in 1 .. Len(published') - 1
        PROVE  \/ m_index'[Queued'[i]].next = Queued'[i + 1]
               \/ /\ m_index'[Queued'[i]].next = Null
                  /\ \E t \in Senders : /\ sender'[t].at = "link" /\ sender'[t].read = Queued'[i]
                                        /\ sender'[t].node = Queued'[i + 1]
    <3>0. i \in 1 .. q /\ Queued'[i] = Queued[i]
      <4>1. i \in 1 .. q
        BY <1>20
      <4> QED BY <4>1, <1>6
    <3>1. CASE i = q
      <4>1. Queued'[i] = my.read /\ Queued'[i + 1] = my.node
        BY <3>0, <3>1, <1>6, <1>7
      <4>2. m_index'[Queued'[i]].next = Null
        BY <3>0, <3>1, <1>1, <1>4, <1>7 DEF MessagesLinked
      <4> QED BY <4>1, <4>2, <1>2, <1>3
    <3>2. CASE i # q
      <4>1. i \in 1 .. q - 1 /\ i + 1 \in 1 .. q /\ Queued'[i + 1] = Queued[i + 1]
        <5>1. i \in 1 .. q - 1 /\ i + 1 \in 1 .. q
          BY <3>0, <3>2, <1>7
        <5> QED BY <5>1, <1>6
      <4>2. \/ m_index[Queued[i]].next = Queued[i + 1]
            \/ /\ m_index[Queued[i]].next = Null
               /\ \E t \in Senders : AboutToLink(t, Queued[i], Queued[i + 1])
        BY <4>1, <1>4 DEF MessagesLinked, q
      <4> QED BY <4>1, <4>2, <3>0, <1>1, <1>14 DEF AboutToLink
    <3> QED BY <3>1, <3>2
  <2> QED BY <2>1, <2>2 DEF MessagesLinked, AboutToLink
<1>16. MessagesIntact'
  <2>1. ASSUME NEW i \in 1 .. q + 1
        PROVE  m_index'[Queued'[i]].data = published'[i].body
    <3>1. CASE i \in 1 .. q
      BY <3>1, <1>1, <1>4, <1>6, <1>7 DEF MessagesIntact
    <3>2. CASE i = q + 1
      BY <3>2, <1>1, <1>5, <1>6
    <3> QED BY <3>1, <3>2, <1>7
  <2> QED BY <2>1, <1>1, <1>4, <1>7 DEF MessagesIntact
<1>17. SendersKnow'
  <2>1. ASSUME NEW t \in Senders, t # s PROVE SenderKnows(t)'
    BY <2>1, <1>1, <1>3, <1>4 DEF SendersKnow, SenderKnows
  <2>2. SenderKnows(s)'
    BY <1>1, <1>2, <1>3, <1>5 DEF SenderKnows
  <2>3. ASSUME NEW t \in Senders, t # s, sender'[t].at = "link"
        PROVE  LinksNext(t)' /\ sender'[t].read # my.read
    <3>1. sender'[t] = sender[t]
      BY <2>3, <1>3
    <3>2. PICK i \in 1 .. q - 1 :
             AboutToLink(t, Queued[i], Queued[i + 1]) /\ m_index[Queued[i]].next = Null
      BY <2>3, <3>1, <1>4 DEF SendersKnow, LinksNext, q
    <3>3. /\ i \in 1 .. Len(published') - 1 /\ i \in 1 .. q /\ i + 1 \in 1 .. q /\ i # q
          /\ q \in 1 .. q
      BY <1>20
    <3>4. Queued'[i] = Queued[i] /\ Queued'[i + 1] = Queued[i + 1]
      BY <3>3, <1>6
    <3>5. LinksNext(t)'
      BY <3>1, <3>2, <3>3, <3>4, <1>1 DEF LinksNext, AboutToLink
    <3>6. Queued[i] # Queued[q]
      <4>1. DOMAIN Queued = 1 .. q /\ IsInjective(Queued)
        BY <1>4, QueuedIs DEF NodesKeptApart, q
      <4> QED BY <4>1, <3>3 DEF IsInjective
    <3> QED BY <3>1, <3>2, <3>5, <3>6, <1>7 DEF AboutToLink
  <2>4. LinksNext(s)'
    <3>1. q \in 1 .. Len(published') - 1 /\ q \in 1 .. q
      BY <1>20
    <3>2. Queued'[q] = my.read /\ Queued'[q + 1] = my.node /\ m_index'[Queued'[q]].next = Null
      BY <3>1, <1>1, <1>4, <1>6, <1>7 DEF MessagesLinked
    <3> QED BY <3>1, <3>2, <1>2, <1>3 DEF LinksNext, AboutToLink
  <2>5. ASSUME NEW t \in Senders, NEW u \in Senders, sender'[t].at = "link",
               sender'[u].at = "link", t # u
        PROVE  sender'[t].read # sender'[u].read
    <3>1. CASE t # s /\ u # s
      BY <3>1, <2>5, <1>3, <1>4 DEF SendersKnow
    <3>2. CASE t = s
      BY <3>2, <2>3, <2>5, <1>2, <1>3
    <3>3. CASE u = s
      BY <3>3, <2>3, <2>5, <1>2, <1>3
    <3> QED BY <3>1, <3>2, <3>3
  <2>6. \A t \in Senders : SenderKnows(t)'
    BY <2>1, <2>2
  <2>7. \A t \in Senders : sender'[t].at = "link" => LinksNext(t)'
    BY <2>3, <2>4
  <2> QED BY <2>5, <2>6, <2>7 DEF SendersKnow
<1>18. ReceiverKnows'
  BY <1>1, <1>4 DEF ReceiverKnows
<1>19. AloneKnows'
  <2> SUFFICES ASSUME NEW t \in Senders, callers' = {t} PROVE KnowsAlone(t)'
    BY DEF AloneKnows, KnowsAlone
  <2>1. t = s
    BY <1>1
  <2> QED BY <2>1, <1>2, <1>3 DEF KnowsAlone
<1> QED
  BY <1>10, <1>11, <1>12, <1>13, <1>15, <1>16, <1>17, <1>18, <1>19
     DEF LocklessInv, QueueKept, Knowing

(* The receiver takes the first message if it is linked to the next.       *)
LEMMA TakeKeeps ==
    ASSUME LocklessInv, ~ aba, TakeFirst, m_index[m_first].next # Null
    PROVE  LocklessInv'
<1> DEFINE next == m_index[m_first].next
           q    == Len(published)
<1>1. /\ receiver.at = "next" /\ m_first' = next /\ published' = Tail(published)
      /\ receiver' = [receiver EXCEPT !.at = "push", !.node = next, !.old = m_first]
      /\ UNCHANGED <<callers, m_last, m_free_head, free, m_index, sender, aba>>
  BY DEF TakeFirst, ReceiverOnly, freeList
<1>2. /\ NodesKeptApart /\ FreeNodesLinked /\ MessagesLinked /\ MessagesIntact
      /\ SendersKnow /\ AloneKnows /\ published \in Seq(Message) /\ receiver \in ReceiverStates
      /\ m_first \in Node /\ Node \cup {Null} = Links
      /\ m_index \in [Node -> [next : Node \cup {Null}, data : Senders \cup {Blank}]]
  BY DEF LocklessInv, LocklessTypeOK, QueueKept, Knowing, Message, Links, Node, Null
<1>3. /\ q \in Nat \ {0} /\ published # <<>> /\ Queued \in Seq(Node) /\ Len(Queued) = q
      /\ DOMAIN published = 1 .. q /\ DOMAIN Queued = 1 .. q
      /\ \A i \in 1 .. q : Queued[i] \in Node
      /\ m_first = Queued[1] /\ m_last = Queued[q] /\ IsInjective(Queued)
  <2>1. q \in Nat \ {0} /\ published # <<>> /\ m_last = Queued[q] /\ m_first = Queued[1]
    BY <1>2, EmptySeq DEF MessagesLinked
  <2>2. IsInjective(Queued)
    BY <1>2 DEF NodesKeptApart
  <2> QED BY <2>1, <2>2, <1>2, QueuedIs
<1>4. q # 1
  BY <1>2, <1>3 DEF MessagesLinked
<1>5. 1 \in 1 .. q - 1 /\ 2 \in 1 .. q /\ q - 1 \in 1 .. q - 1 /\ q - 1 \in Nat \ {0}
  <2> HIDE DEF q
  <2>1. q \in Nat /\ q >= 2
    BY <1>3, <1>4
  <2>2. 1 \in 1 .. q - 1 /\ 2 \in 1 .. q
    BY <2>1
  <2>3. q - 1 \in 1 .. q - 1 /\ q - 1 \in Nat \ {0}
    BY <2>1
  <2> QED BY <2>2, <2>3
<1>6. next = Queued[2] /\ next \in Node
  <2>1. \/ m_index[Queued[1]].next = Queued[1 + 1]
        \/ m_index[Queued[1]].next = Null
    BY <1>2, <1>5 DEF MessagesLinked
  <2>2. Queued[1 + 1] = Queued[2] /\ Queued[2] \in Node
    BY <1>3, <1>5
  <2> QED BY <2>1, <2>2, <1>3
<1>7. /\ Queued' = Tail(Queued) /\ Len(published') = q - 1 /\ published' \in Seq(Message)
      /\ \A i \in 1 .. q - 1 : Queued'[i] = Queued[i + 1] /\ published'[i] = published[i + 1]
  BY <1>1, <1>2, <1>3, QueuedTail
<1>8. /\ ToSet(Queued) = ToSet(Queued') \cup {m_first} /\ m_first \notin ToSet(Queued')
      /\ IsInjective(Queued')
  <2>1. Queued # <<>>
    BY <1>3, EmptySeq
  <2>2. Head(Queued) = m_first
    BY <1>3
  <2> QED BY <2>1, <2>2, <1>3, <1>7, HeadAndRest
<1>9. /\ receiver' \in ReceiverStates /\ receiver'.at = "push" /\ receiver'.node = next
      /\ receiver'.old = m_first
  BY <1>1, <1>2, <1>6 DEF ReceiverStates
<1>10. DOMAIN published' = 1 .. q - 1
  BY <1>7, LenProperties
<1>11. \A i \in 1 .. q - 1 : i + 1 \in 1 .. q
  <2>1. q \in Nat \ {0}
    BY <1>3
  <2> QED BY <2>1
<1>12. LocklessTypeOK'
  BY <1>1, <1>6, <1>7, <1>9 DEF LocklessInv, LocklessTypeOK, Message
<1>13. NodesKeptApart'
  <2>1. Returning = {} /\ Returning' = {m_first} /\ \A t \in Senders : Held(t)' = Held(t)
    BY <1>1, <1>9 DEF Returning, Held
  <2>2. /\ m_first \notin ToSet(free) /\ \A t \in Senders : m_first \notin Held(t)
    BY <1>2, <1>8 DEF NodesKeptApart
  <2> QED BY <2>1, <2>2, <1>1, <1>2, <1>8 DEF NodesKeptApart
<1>14. FreeNodesLinked'
  BY <1>1, <1>2 DEF FreeNodesLinked
<1> HIDE DEF q
<1>15. MessagesLinked'
  <2>1. /\ published' # <<>> /\ m_first' = Queued'[1] /\ m_last' = Queued'[Len(published')]
        /\ m_index'[m_last'].next = Null
    <3>1. published' # <<>>
      BY <1>5, <1>7, EmptySeq
    <3>2. Queued'[1] = Queued[2]
      <4>1. Queued'[1] = Queued[1 + 1]
        BY <1>5, <1>7
      <4> QED BY <4>1
    <3>3. Queued'[q - 1] = Queued[q]
      <4>1. Queued'[q - 1] = Queued[(q - 1) + 1]
        BY <1>5, <1>7
      <4>2. (q - 1) + 1 = q
        BY <1>3
      <4> QED BY <4>1, <4>2
    <3> QED BY <3>1, <3>2, <3>3, <1>1, <1>2, <1>3, <1>6, <1>7 DEF MessagesLinked
  <2>2. ASSUME NEW i \in 1 .. Len(published') - 1
        PROVE  \/ m_index'[Queued'[i]].next = Queued'[i + 1]
               \/ /\ m_index'[Queued'[i]].next = Null
                  /\ \E t \in Senders : /\ sender'[t].at = "link" /\ sender'[t].read = Queued'[i]
                                        /\ sender'[t].node = Queued'[i + 1]
    <3>1. i \in 1 .. q - 1 /\ i + 1 \in 1 .. q - 1
      <4>1. q \in Nat \ {0} /\ Len(published') = q - 1
        BY <1>3, <1>7
      <4> QED BY <4>1
    <3>2. Queued'[i] = Queued[i + 1] /\ Queued'[i + 1] = Queued[(i + 1) + 1]
      BY <3>1, <1>7
    <3>3. \/ m_index[Queued[i + 1]].next = Queued[(i + 1) + 1]
          \/ /\ m_index[Queued[i + 1]].next = Null
             /\ \E t \in Senders : AboutToLink(t, Queued[i + 1], Queued[(i + 1) + 1])
      BY <3>1, <1>2 DEF MessagesLinked, q
    <3> QED BY <3>2, <3>3, <1>1 DEF AboutToLink
  <2> QED BY <2>1, <2>2 DEF MessagesLinked, AboutToLink
<1>16. MessagesIntact'
  <2>1. ASSUME NEW i \in 1 .. q - 1
        PROVE  m_index'[Queued'[i]].data = published'[i].body
    BY <1>1, <1>2, <1>3, <1>7, <1>11 DEF MessagesIntact
  <2> QED BY <2>1, <1>1, <1>9, <1>10 DEF MessagesIntact
<1>17. SendersKnow'
  <2>1. \A t \in Senders : SenderKnows(t)'
    BY <1>1, <1>2 DEF SendersKnow, SenderKnows
  <2>2. ASSUME NEW t \in Senders, sender'[t].at = "link" PROVE LinksNext(t)'
    <3>1. PICK i \in 1 .. q - 1 :
             AboutToLink(t, Queued[i], Queued[i + 1]) /\ m_index[Queued[i]].next = Null
      BY <2>2, <1>1, <1>2 DEF SendersKnow, LinksNext, q
    <3>2. i # 1
      BY <3>1, <1>3
    <3> DEFINE j == i - 1
    <3>3. /\ j \in 1 .. q - 1 /\ j + 1 = i /\ i \in 1 .. q - 1 /\ j \in 1 .. Len(published') - 1
      <4>1. q \in Nat \ {0} /\ Len(published') = q - 1
        BY <1>3, <1>7
      <4> QED BY <4>1, <3>2
    <3> HIDE DEF j
    <3>4. Queued'[j] = Queued[i] /\ Queued'[j + 1] = Queued[i + 1]
      BY <3>3, <1>7
    <3> QED BY <3>1, <3>3, <3>4, <1>1 DEF LinksNext, AboutToLink
  <2>3. \A t, u \in Senders :
          sender'[t].at = "link" /\ sender'[u].at = "link" /\ t # u
             => sender'[t].read # sender'[u].read
    BY <1>1, <1>2 DEF SendersKnow
  <2> QED BY <2>1, <2>2, <2>3 DEF SendersKnow
<1>18. ReceiverKnows'
  BY <1>2, <1>9 DEF ReceiverKnows
<1>19. AloneKnows'
  BY <1>1, <1>2 DEF AloneKnows, KnowsAlone
<1> QED
  BY <1>1, <1>12, <1>13, <1>14, <1>15, <1>16, <1>17, <1>18, <1>19
     DEF LocklessInv, QueueKept, Knowing

(* The node that the receiver gives back becomes the first free one.       *)
LEMMA PushKeeps ==
    ASSUME LocklessInv, ~ aba, PushCAS, m_free_head = receiver.read
    PROVE  LocklessInv'
<1> DEFINE old == receiver.old
<1>1. /\ receiver.at = "cas" /\ m_free_head' = old /\ free' = <<old>> \o free
      /\ receiver' = [NotReceiving EXCEPT !.at = "copy", !.node = receiver.node]
      /\ UNCHANGED <<callers, m_first, m_last, m_index, sender, published, aba>>
  BY DEF PushCAS, ReceiverOnly
<1>2. /\ NodesKeptApart /\ FreeNodesLinked /\ MessagesLinked /\ MessagesIntact
      /\ SendersKnow /\ ReceiverKnows /\ AloneKnows /\ receiver \in ReceiverStates
      /\ free \in Seq(Node) /\ Null \in Links
  BY DEF LocklessInv, LocklessTypeOK, QueueKept, Knowing, Links, Null
<1>3. receiver' \in ReceiverStates /\ receiver'.at = "copy" /\ receiver'.node = receiver.node
  BY <1>1, <1>2 DEF ReceiverStates, NotReceiving
<1>4. /\ old \in Node /\ Returning = {old} /\ Returning' = {} /\ Queued' = Queued
      /\ m_index[old].next = m_free_head /\ \A t \in Senders : Held(t)' = Held(t)
  BY <1>1, <1>2, <1>3 DEF ReceiverKnows, Returning, Held, Queued
<1>5. /\ old \notin ToSet(free) /\ old \notin ToSet(Queued) /\ IsInjective(free)
      /\ \A t \in Senders : old \notin Held(t)
  BY <1>2, <1>4 DEF NodesKeptApart
<1>6. /\ free' \in Seq(Node) /\ Len(free') = Len(free) + 1 /\ free'[1] = old
      /\ Head(free') = old /\ \A i \in 1 .. Len(free) : free'[i + 1] = free[i]
      /\ ToSet(free') = ToSet(free) \cup {old} /\ IsInjective(free')
  BY <1>1, <1>2, <1>4, <1>5, Prepended
<1>7. LocklessTypeOK'
  BY <1>1, <1>3, <1>4, <1>6 DEF LocklessInv, LocklessTypeOK
<1>8. NodesKeptApart'
  BY <1>1, <1>2, <1>4, <1>5, <1>6 DEF NodesKeptApart
<1>9. FreeNodesLinked'
  <2>1. Len(free) \in Nat /\ DOMAIN free = 1 .. Len(free) /\ DOMAIN free' = 1 .. Len(free) + 1
    BY <1>2, <1>6, LenProperties
  <2>2. free' # <<>>
    BY <1>6, <2>1, EmptySeq
  <2>3. ASSUME NEW i \in 1 .. Len(free) + 1
        PROVE  m_index'[free'[i]].next = IF i = Len(free') THEN Null ELSE free'[i + 1]
    <3>1. CASE i = 1
      <4>1. m_index'[free'[i]].next = IF free = <<>> THEN Null ELSE Head(free)
        BY <3>1, <1>1, <1>2, <1>4, <1>6 DEF FreeNodesLinked
      <4>2. CASE free = <<>>
        <5>1. Len(free) = 0
          BY <4>2
        <5> QED BY <5>1, <4>1, <4>2, <3>1, <1>6
      <4>3. CASE free # <<>>
        <5>1. Len(free) \in Nat \ {0} /\ Head(free) = free[1]
          BY <4>3, <1>2, EmptySeq
        <5>2. 1 \in 1 .. Len(free) /\ 1 # Len(free) + 1
          BY <5>1
        <5>3. free'[1 + 1] = free[1]
          BY <5>2, <1>6
        <5> QED BY <5>1, <5>2, <5>3, <4>1, <4>3, <3>1, <1>6
      <4> QED BY <4>2, <4>3
    <3>2. CASE i # 1
      <4> DEFINE j == i - 1
      <4>1. /\ j \in 1 .. Len(free) /\ j + 1 = i /\ (j = Len(free) <=> i = Len(free) + 1)
            /\ (j # Len(free) => j + 1 \in 1 .. Len(free))
        BY <3>2, <2>1
      <4> HIDE DEF j
      <4>2. m_index[free[j]].next = IF j = Len(free) THEN Null ELSE free[j + 1]
        BY <4>1, <2>1, <1>2 DEF FreeNodesLinked
      <4>3. free'[i] = free[j]
        BY <4>1, <1>6
      <4>4. i # Len(free) + 1 => free'[i + 1] = free[j + 1]
        <5>1. i # Len(free) + 1 => free'[(j + 1) + 1] = free[j + 1]
          BY <4>1, <1>6
        <5> QED BY <5>1, <4>1
      <4> QED BY <4>1, <4>2, <4>3, <4>4, <1>1, <1>6
    <3> QED BY <3>1, <3>2
  <2> QED BY <2>1, <2>2, <2>3, <1>1, <1>6 DEF FreeNodesLinked
<1>10. MessagesLinked' /\ MessagesIntact'
  BY <1>1, <1>2, <1>3, <1>4 DEF MessagesLinked, MessagesIntact, AboutToLink
<1>11. SendersKnow'
  BY <1>1, <1>2, <1>4 DEF SendersKnow, SenderKnows, LinksNext, AboutToLink
<1>12. ReceiverKnows'
  BY <1>3 DEF ReceiverKnows
<1>13. AloneKnows'
  BY <1>1, <1>2, <1>6 DEF AloneKnows, KnowsAlone
<1> QED
  BY <1>1, <1>7, <1>8, <1>9, <1>10, <1>11, <1>12, <1>13 DEF LocklessInv, QueueKept, Knowing

LEMMA LocklessInvHolds == LocklessSpec => []LocklessInv
<1>1. LocklessInit => LocklessInv
  <2> SUFFICES ASSUME LocklessInit PROVE LocklessInv
    OBVIOUS
  <2> DEFINE first == [node |-> 1, body |-> Blank]
  <2>1. /\ MaxMsg \in Nat \ {0, 1} /\ Node = 1 .. MaxMsg
        /\ 1 \in Node /\ 2 \in Node /\ Null \notin Node
    BY DEF Node, Null
  <2>2. \A n \in Node : /\ m_index[n].next = IF n \in {1, MaxMsg} THEN Null ELSE n + 1
                        /\ m_index[n].data = Blank
    BY DEF LocklessInit
  <2>3. m_index \in [Node -> [next : Node \cup {Null}, data : Senders \cup {Blank}]]
    <3>1. \A n \in Node : (IF n \in {1, MaxMsg} THEN Null ELSE n + 1) \in Node \cup {Null}
      BY <2>1
    <3> QED BY <3>1 DEF LocklessInit
  <2>4. first \in Message /\ published = <<first>> /\ published \in Seq(Message)
    BY <2>1 DEF LocklessInit, Message
  <2>5. Len(published) = 1 /\ published[1] = first
    BY <2>4
  <2>6. /\ Queued[1] = 1 /\ DOMAIN Queued = 1 .. 1 /\ DOMAIN published = 1 .. 1
        /\ ToSet(Queued) = {1} /\ IsInjective(Queued)
    <3>1. /\ DOMAIN Queued = 1 .. 1 /\ DOMAIN published = 1 .. 1 /\ Queued[1] = 1
      BY <2>4, <2>5, QueuedIs
    <3>2. 1 .. 1 = {1}
      OBVIOUS
    <3> QED BY <3>1, <3>2 DEF ToSet, IsInjective
  <2>7. /\ free \in Seq(Node) /\ Len(free) = MaxMsg - 1 /\ DOMAIN free = 1 .. MaxMsg - 1
        /\ \A i \in 1 .. MaxMsg - 1 : free[i] = i + 1
    <3>1. \A i \in 1 .. MaxMsg - 1 : i + 1 \in Node
      BY <2>1
    <3>2. MaxMsg - 1 \in Nat
      BY <2>1
    <3>3. free \in Seq(Node)
      BY <3>1, <3>2, IsASeq DEF LocklessInit
    <3>4. DOMAIN free = 1 .. MaxMsg - 1 /\ \A i \in 1 .. MaxMsg - 1 : free[i] = i + 1
      BY DEF LocklessInit
    <3>5. Len(free) = MaxMsg - 1
      BY <3>2, <3>3, <3>4, LenProperties
    <3> QED BY <3>3, <3>4, <3>5
  <2>8. ToSet(free) = 2 .. MaxMsg /\ IsInjective(free)
    <3>1. \A n \in 2 .. MaxMsg : n - 1 \in 1 .. MaxMsg - 1 /\ n = (n - 1) + 1
      BY <2>1
    <3>2. \A n \in 2 .. MaxMsg : free[n - 1] = n
      BY <2>7, <3>1
    <3>3. \A i \in 1 .. MaxMsg - 1 : free[i] \in 2 .. MaxMsg
      BY <2>1, <2>7
    <3>4. ToSet(free) = 2 .. MaxMsg
      <4>1. ToSet(free) = {free[i] : i \in 1 .. MaxMsg - 1}
        BY <2>7 DEF ToSet
      <4>2. \A n \in 2 .. MaxMsg : n \in ToSet(free)
        BY <4>1, <3>1, <3>2
      <4>3. \A n \in ToSet(free) : n \in 2 .. MaxMsg
        BY <4>1, <3>3
      <4> QED BY <4>2, <4>3
    <3>5. IsInjective(free)
      <4> SUFFICES ASSUME NEW i \in 1 .. MaxMsg - 1, NEW j \in 1 .. MaxMsg - 1, free[i] = free[j]
                   PROVE  i = j
        BY <2>7 DEF IsInjective
      <4>1. i + 1 = j + 1
        BY <2>7
      <4> QED BY <4>1
    <3> QED BY <3>4, <3>5
  <2>9. /\ \A s \in Senders : sender[s].at = "idle" /\ Held(s) = {}
        /\ Returning = {} /\ receiver.at = "idle"
    BY DEF LocklessInit, NotSending, NotReceiving, Held, Returning
  <2>10. LocklessTypeOK
    <3>1. NotSending \in SenderStates /\ NotReceiving \in ReceiverStates
      BY <2>1 DEF NotSending, NotReceiving, SenderStates, ReceiverStates, Links, Null
    <3> QED BY <3>1, <2>1, <2>3, <2>4, <2>7 DEF LocklessInit, LocklessTypeOK, Message
  <2>11. NodesKeptApart
    <3>1. Node = {1} \cup (2 .. MaxMsg) /\ 1 \notin 2 .. MaxMsg
      BY <2>1
    <3> QED BY <3>1, <2>6, <2>8, <2>9 DEF NodesKeptApart
  <2>12. FreeNodesLinked
    <3>1. free # <<>> /\ Head(free) = free[1] /\ free[1] = 1 + 1
      <4>1. Len(free) \in Nat \ {0} /\ 1 \in 1 .. MaxMsg - 1
        BY <2>1, <2>7
      <4> QED BY <4>1, <2>7
    <3>2. m_free_head = IF free = <<>> THEN Null ELSE Head(free)
      <4>1. m_free_head = 2
        BY DEF LocklessInit
      <4> QED BY <4>1, <3>1
    <3>3. ASSUME NEW i \in 1 .. MaxMsg - 1
          PROVE  m_index[free[i]].next = IF i = Len(free) THEN Null ELSE free[i + 1]
      <4>1. free[i] = i + 1 /\ Len(free) = MaxMsg - 1
        BY <2>7
      <4>2. i + 1 \in Node /\ i + 1 # 1 /\ (i = MaxMsg - 1 <=> i + 1 = MaxMsg)
            /\ (i # MaxMsg - 1 => i + 1 \in 1 .. MaxMsg - 1)
        BY <2>1
      <4>3. i # MaxMsg - 1 => free[i + 1] = (i + 1) + 1
        BY <4>2, <2>7
      <4>4. m_index[i + 1].next = IF i + 1 \in {1, MaxMsg} THEN Null ELSE (i + 1) + 1
        BY <4>2, <2>2
      <4> QED BY <4>1, <4>2, <4>3, <4>4
    <3> QED BY <3>2, <3>3, <2>7 DEF FreeNodesLinked
  <2>13. MessagesLinked
    <3>1. published # <<>>
      BY <2>4, <2>5, EmptySeq
    <3>2. 1 .. Len(published) - 1 = {}
      BY <2>5
    <3> QED BY <3>1, <3>2, <2>1, <2>2, <2>5, <2>6 DEF MessagesLinked, LocklessInit
  <2>14. MessagesIntact
    <3>1. \A i \in 1 .. 1 : m_index[Queued[i]].data = published[i].body
      BY <2>1, <2>2, <2>5, <2>6
    <3> QED BY <3>1, <2>6, <2>9 DEF MessagesIntact
  <2>15. Knowing
    BY <2>9 DEF Knowing, SendersKnow, SenderKnows, ReceiverKnows, AloneKnows, KnowsAlone
  <2> QED BY <2>10, <2>11, <2>12, <2>13, <2>14, <2>15 DEF LocklessInv, QueueKept, LocklessInit
<1>2. LocklessInv /\ [LocklessNext]_locklessVars => LocklessInv'
  <2> SUFFICES ASSUME LocklessInv, [LocklessNext]_locklessVars PROVE LocklessInv'
    OBVIOUS
  <2>1. CASE UNCHANGED locklessVars
    <3> USE <2>1 DEF locklessVars, freeList
    <3>1. LocklessTypeOK'
      BY DEF LocklessInv, LocklessTypeOK
    <3>2. Queued' = Queued /\ Returning' = Returning /\ \A s \in Senders : Held(s)' = Held(s)
      BY DEF Queued, Returning, Held
    <3>3. ASSUME ~ aba PROVE NodesKeptApart' /\ FreeNodesLinked'
      BY <3>2, <3>3 DEF LocklessInv, QueueKept, NodesKeptApart, FreeNodesLinked
    <3>4. ASSUME ~ aba PROVE MessagesLinked' /\ MessagesIntact'
      BY <3>2, <3>4 DEF LocklessInv, QueueKept, MessagesLinked, MessagesIntact, AboutToLink
    <3>5. ASSUME ~ aba PROVE SendersKnow'
      BY <3>2, <3>5 DEF LocklessInv, Knowing, SendersKnow, SenderKnows, LinksNext, AboutToLink
    <3>6. ASSUME ~ aba PROVE ReceiverKnows' /\ AloneKnows'
      BY <3>6 DEF LocklessInv, Knowing, ReceiverKnows, AloneKnows, KnowsAlone
    <3> QED BY <3>1, <3>3, <3>4, <3>5, <3>6 DEF LocklessInv, QueueKept, Knowing
  <2>2. ASSUME ~ aba, NEW s \in callers,
               \/ Send(s) \/ PopRead(s) \/ PopNext(s) \/ PopCAS(s)
               \/ Fill(s) \/ LastRead(s) \/ LastCAS(s) \/ Link(s)
        PROVE  LocklessInv'
    BY <2>2, LookingKeeps, PopKeeps, FillKeeps, PublishKeeps, LinkKeeps
  <2>3. ASSUME ~ aba, Receive \/ TakeFirst \/ PushRead \/ PushLink \/ PushCAS \/ Copy
        PROVE  LocklessInv'
    BY <2>3, WaitingKeeps, TakeKeeps, PushLinkKeeps, PushKeeps
  <2> QED BY <2>1, <2>2, <2>3 DEF LocklessNext
<1> QED BY <1>1, <1>2, PTL DEF LocklessSpec

(* For any number of senders and of nodes: until a pop has put a stale     *)
(* link into m_free_head, which one sender alone never does, no node is    *)
(* lost or in two places, the free nodes and the messages are linked in    *)
(* their order, and each holds what was sent in it.                        *)
THEOREM LocklessIsSound == LocklessSpec => []NothingLostOrMixed
<1>1. LocklessInv => NothingLostOrMixed
  BY DEF LocklessInv, QueueKept, NothingLostOrMixed
<1> QED BY <1>1, LocklessInvHolds, PTL
=============================================================================
