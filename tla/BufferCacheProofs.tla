--------------------------- MODULE BufferCacheProofs ---------------------------
(***************************************************************************)
(* Proofs about BufferCache: the pointers of the list, the inductive        *)
(* invariant CacheInv, the order in which buffers are recycled, and the     *)
(* refinement of BlockStore, for every set of blocks and contents and every *)
(* number of buffers.                                                       *)
(***************************************************************************)
EXTENDS BufferCache, WellFoundedInduction, TLAPS

\* A property that the first number has and that passes on to the next.
LEMMA UpTo ==
    ASSUME NEW N \in Nat, NEW S, 0 \in S, \A n \in 1 .. N : n - 1 \in S => n \in S
    PROVE  0 .. N \subseteq S
<1> DEFINE T == (0 .. N) \ S
<1>1. SUFFICES ASSUME T # {} PROVE FALSE
  OBVIOUS
<1>2. PICK n \in T : \A m \in T : ~(<<m, n>> \in OpToRel(<, Nat))
  <2>1. T \subseteq Nat
    OBVIOUS
  <2> HIDE DEF T
  <2>2. QED BY <1>1, <2>1, NatLessThanWellFounded, WFMin
<1>3. n \in 1 .. N /\ n - 1 \in 0 .. N
  OBVIOUS
<1>4. n - 1 \in T
  BY <1>3
<1>5. <<n - 1, n>> \in OpToRel(<, Nat)
  BY <1>3 DEF OpToRel
<1>6. QED BY <1>2, <1>4, <1>5

USE CacheAssumption DEF Buf, Node, Head

\* The nodes are numbered from 0, the head.
LEMMA NodeIs == Node = 0 .. NBUF /\ NBUF \in Node
OBVIOUS

\* Two functions on the numbers up to NBUF that start alike and go on alike are equal.
LEMMA Unique ==
    ASSUME NEW f, NEW g,
           f[0] = g[0], \A k \in Buf : f[k - 1] = g[k - 1] => f[k] = g[k]
    PROVE  \A k \in Node : f[k] = g[k]
<1> DEFINE S == {k \in Node : f[k] = g[k]}
<1>1. \A k \in 1 .. NBUF : k - 1 \in S => k \in S
  OBVIOUS
<1>2. 0 \in S
  OBVIOUS
<1>3. 0 .. NBUF \subseteq S
  <2> HIDE DEF S
  <2>1. QED BY <1>1, <1>2, UpTo
<1>4. QED BY <1>3, NodeIs

\* The walk along link is the one function that begins at the head and follows the links.
LEMMA WalkIs ==
    ASSUME NEW link, NEW p \in [Node -> Node], p[0] = Head,
           \A k \in Buf : p[k] = link[p[k - 1]]
    PROVE  Walk(link) = p
<1> DEFINE at[k \in Node] == IF k = 0 THEN Head ELSE link[at[k - 1]]
           Body(g) == [k \in Node |-> IF k = 0 THEN Head ELSE link[g[k - 1]]]
<1>1. p = Body(p)
  <2>1. \A k \in Node : p[k] = IF k = 0 THEN Head ELSE link[p[k - 1]]
    OBVIOUS
  <2>2. p = [k \in Node |-> p[k]]
    OBVIOUS
  <2> HIDE DEF at
  <2>3. QED BY <2>1, <2>2
<1>2. at = Body(at)
  <2>1. at = CHOOSE g : g = Body(g)
    BY DEF Body
  <2> HIDE DEF at, Body
  <2>2. QED BY <1>1, <2>1
<1>3. Walk(link) = at
  BY DEF Walk
<1> HIDE DEF at
<1>4. at = p
  <2>1. at[0] = p[0] /\ \A k \in Buf : at[k] = link[at[k - 1]]
    BY <1>2
  <2>2. at = [k \in Node |-> at[k]] /\ p = [k \in Node |-> p[k]]
    BY <1>2
  <2>3. \A k \in Node : at[k] = p[k]
    BY <2>1, Unique
  <2> HIDE DEF Body
  <2>4. QED BY <2>2, <2>3
<1>5. QED BY <1>3, <1>4

\* The list as binit() leaves it after n buffers.
Inserted(n) ==
    [next |-> [m \in Node |-> IF m = 0 THEN n ELSE IF m <= n THEN m - 1 ELSE Head],
     prev |-> [m \in Node |-> IF m = 0 THEN (IF n = 0 THEN 0 ELSE 1)
                              ELSE IF m < n THEN m + 1 ELSE Head]]

\* The loop of binit() ends with the last buffer first.
LEMMA BinitIs == Binit[NBUF] = Inserted(NBUF)
<1> DEFINE Empty == [next |-> [m \in Node |-> Head], prev |-> [m \in Node |-> Head]]
           Body(g) == [n \in Node |-> IF n = 0 THEN [next |-> [m \in Node |-> Head], prev |-> [m \in Node |-> Head]] ELSE AtFront(g[n - 1], n)]
           p == [n \in Node |-> Inserted(n)]
<1>1. ASSUME NEW n \in Buf PROVE AtFront(Inserted(n - 1), n) = Inserted(n)
  <2> DEFINE l == Inserted(n - 1)  r == Inserted(n)
             nx == [l.next EXCEPT ![n] = n - 1, ![Head] = n]
             pv == [l.prev EXCEPT ![n] = Head, ![n - 1] = n]
  <2>1. n - 1 \in Node /\ l.next[Head] = n - 1 /\ n \in Nat
    BY DEF Inserted
  <2>2. nx = r.next
    <3>1. \A m \in Node : l.next[m] = IF m = 0 THEN n - 1 ELSE IF m <= n - 1 THEN m - 1 ELSE 0
      BY DEF Inserted
    <3>2. \A m \in Node : nx[m] = IF m = 0 THEN n ELSE IF m = n THEN n - 1 ELSE l.next[m]
      BY DEF Inserted
    <3>3. \A m \in Node : nx[m] = IF m = 0 THEN n ELSE IF m <= n THEN m - 1 ELSE 0
      <4> HIDE DEF nx, l
      <4>1. QED BY <3>1, <3>2, <2>1
    <3>4. nx = [m \in Node |-> nx[m]]
      BY DEF Inserted
    <3> HIDE DEF nx
    <3>5. QED BY <3>3, <3>4 DEF Inserted
  <2>3. pv = r.prev
    <3>1. \A m \in Node : l.prev[m] = IF m = 0 THEN (IF n = 1 THEN 0 ELSE 1)
                                      ELSE IF m < n - 1 THEN m + 1 ELSE 0
      BY DEF Inserted
    <3>2. \A m \in Node : pv[m] = IF m = n - 1 THEN n ELSE IF m = n THEN 0 ELSE l.prev[m]
      BY <2>1 DEF Inserted
    <3>3. \A m \in Node : pv[m] = IF m = 0 THEN 1 ELSE IF m < n THEN m + 1 ELSE 0
      <4> HIDE DEF pv, l
      <4>1. QED BY <3>1, <3>2, <2>1
    <3>4. pv = [m \in Node |-> pv[m]]
      BY DEF Inserted
    <3>5. r.prev = [m \in Node |-> IF m = 0 THEN 1 ELSE IF m < n THEN m + 1 ELSE 0]
      BY <2>1 DEF Inserted
    <3> HIDE DEF pv, r
    <3>6. QED BY <3>3, <3>4, <3>5
  <2>4. r = [next |-> r.next, prev |-> r.prev]
    BY DEF Inserted
  <2>5. AtFront(l, n) = [next |-> nx, prev |-> pv]
    BY <2>1 DEF AtFront
  <2> HIDE DEF nx, pv, r, l
  <2>6. AtFront(l, n) = r
    BY <2>2, <2>3, <2>4, <2>5
  <2>7. QED BY <2>6 DEF l, r
<1>2. Inserted(0) = Empty
  BY DEF Inserted
<1>3. p = Body(p)
  <2>1. \A n \in Node : p[n] = IF n = 0 THEN Empty ELSE AtFront(p[n - 1], n)
    BY <1>1, <1>2
  <2> HIDE DEF p
  <2>2. p = [n \in Node |-> p[n]]
    BY DEF p
  <2>3. QED BY <2>1, <2>2
<1>4. Binit = Body(Binit)
  <2>1. Binit = CHOOSE g : g = Body(g)
    BY DEF Binit
  <2> HIDE DEF p, Body
  <2>2. QED BY <1>3, <2>1
<1>5. Binit = p
  <2>1. Binit[0] = Empty /\ \A n \in Buf : Binit[n] = AtFront(Binit[n - 1], n)
    BY <1>4
  <2>2. p[0] = Empty /\ \A n \in Buf : p[n] = AtFront(p[n - 1], n)
    BY <1>1, <1>2
  <2>3. Binit = [k \in Node |-> Binit[k]] /\ p = [k \in Node |-> p[k]]
    BY <1>4
  <2> HIDE DEF p, Body, Empty
  <2>4. \A k \in Node : Binit[k] = p[k]
    BY <2>1, <2>2, Unique
  <2>5. QED BY <2>3, <2>4
<1>6. QED BY <1>5, NodeIs

-----------------------------------------------------------------------------
(* The ring *)

List == [next : [Node -> Node], prev : [Node -> Node]]

\* Walked along next, a ring is met in its order; along prev, in the opposite one.
LEMMA WalkOfRing ==
    ASSUME NEW l \in List, NEW p \in [Node -> Node], RingInOrder(l, p)
    PROVE  /\ Walk(l.next) = p
           /\ Walk(l.prev) = [k \in Node |-> IF k = 0 THEN 0 ELSE p[NBUF + 1 - k]]
<1> DEFINE q == [k \in Node |-> IF k = 0 THEN 0 ELSE p[NBUF + 1 - k]]
<1>1. \A k \in Buf : p[k] = l.next[p[k - 1]]
  <2> TAKE k \in Buf
  <2>1. k - 1 \in Node /\ After(k - 1) = k
    BY DEF After
  <2>2. QED BY <2>1 DEF RingInOrder
<1>2. q \in [Node -> Node] /\ q[0] = Head
  OBVIOUS
<1>3. ASSUME NEW k \in Buf PROVE q[k] = l.prev[q[k - 1]]
  <2> DEFINE m == NBUF + 1 - k
  <2>1. m \in Node /\ q[k] = p[m]
    OBVIOUS
  <2>2. q[k - 1] = p[After(m)]
    <3>1. CASE k = 1
      BY <3>1 DEF After, RingInOrder
    <3>2. CASE k # 1
      <4>1. k - 1 \in Buf /\ NBUF + 1 - (k - 1) = m + 1 /\ m # NBUF
        BY <3>2
      <4> HIDE DEF m
      <4>2. QED BY <4>1 DEF After
    <3>3. QED BY <3>1, <3>2
  <2> HIDE DEF m, q
  <2>3. QED BY <2>1, <2>2 DEF RingInOrder
<1>4. Walk(l.next) = p
  BY <1>1, WalkIs DEF RingInOrder
<1>5. Walk(l.prev) = q
  <2> HIDE DEF q
  <2>1. QED BY <1>2, <1>3, WalkIs
<1>6. QED BY <1>4, <1>5

\* binit() links every buffer.
LEMMA BinitLinks == Binit[NBUF] \in List /\ \E p \in [Node -> Node] : RingInOrder(Binit[NBUF], p)
<1> DEFINE l == Inserted(NBUF)
           p == [k \in Node |-> IF k = 0 THEN 0 ELSE NBUF + 1 - k]
<1>1. l \in List
  <2>1. \A m \in Node : (IF m = 0 THEN NBUF ELSE IF m <= NBUF THEN m - 1 ELSE Head) \in Node
    OBVIOUS
  <2>2. \A m \in Node : (IF m = 0 THEN (IF NBUF = 0 THEN 0 ELSE 1) ELSE IF m < NBUF THEN m + 1 ELSE Head) \in Node
    OBVIOUS
  <2>3. QED BY <2>1, <2>2 DEF Inserted, List
<1>2. p \in [Node -> Node] /\ p[0] = Head
  OBVIOUS
<1>3. \A n \in Node : \E k \in Node : p[k] = n
  <2> TAKE n \in Node
  <2>1. CASE n = 0
    BY <2>1
  <2>2. CASE n # 0
    <3>1. NBUF + 1 - n \in Node /\ p[NBUF + 1 - n] = n
      BY <2>2
    <3>2. QED BY <3>1
  <2>3. QED BY <2>1, <2>2
<1>4. \A k, m \in Node : p[k] = p[m] => k = m
  OBVIOUS
<1>5. ASSUME NEW k \in Node PROVE l.next[p[k]] = p[After(k)] /\ l.prev[p[After(k)]] = p[k]
  BY DEF After, Inserted
<1> HIDE DEF p, l
<1>6. QED BY <1>1, <1>2, <1>3, <1>4, <1>5, BinitIs DEF RingInOrder, l

\* The order of the ring after the node at place q was put behind the head.
Moved(p, q) ==
    [k \in Node |-> IF k = 0 THEN 0 ELSE IF k = 1 THEN p[q] ELSE IF k <= q THEN p[k - 1] ELSE p[k]]

\* brelse keeps the ring: the buffer comes first, the others keep their order.
LEMMA MoveKeepsRing ==
    ASSUME NEW l \in List, NEW p \in [Node -> Node], RingInOrder(l, p), NEW q \in Buf
    PROVE  /\ AtFront(Unlinked(l, p[q]), p[q]) \in List
           /\ Moved(p, q) \in [Node -> Node]
           /\ RingInOrder(AtFront(Unlinked(l, p[q]), p[q]), Moved(p, q))
<1> DEFINE i == p[q]  b == p[q - 1]  a == p[After(q)]
           u == Unlinked(l, i)  f == u.next[Head]  r == AtFront(u, i)  t == Moved(p, q)
<1>0. /\ q - 1 \in Node /\ q \in Node /\ After(q) \in Node /\ After(q - 1) = q
      /\ i \in Node /\ b \in Node /\ a \in Node /\ i # Head
  BY DEF After, RingInOrder
<1>1. /\ p[0] = 0
      /\ \A k, m \in Node : p[k] = p[m] => k = m
      /\ \A k \in Node : l.next[p[k]] = p[After(k)] /\ l.prev[p[After(k)]] = p[k]
  BY DEF RingInOrder
<1>2. l.prev[i] = b /\ l.next[i] = a
  BY <1>0, <1>1
<1>3. /\ u.next = [l.next EXCEPT ![b] = a] /\ u.prev = [l.prev EXCEPT ![a] = b]
      /\ u.next \in [Node -> Node] /\ u.prev \in [Node -> Node]
  BY <1>0, <1>2 DEF Unlinked, List
<1>4. f \in Node
  BY <1>3
<1>5. /\ r.next = [u.next EXCEPT ![i] = f, ![Head] = i]
      /\ r.prev = [u.prev EXCEPT ![i] = Head, ![f] = i]
      /\ r = [next |-> r.next, prev |-> r.prev]
  BY DEF AtFront
<1>6. r \in List
  <2>1. r.next \in [Node -> Node] /\ r.prev \in [Node -> Node]
    BY <1>0, <1>3, <1>4, <1>5
  <2>2. QED BY <2>1, <1>5 DEF List
<1>7. /\ t \in [Node -> Node] /\ t[0] = Head /\ t[1] = i
      /\ \A k \in Node : k > 1 /\ k <= q => t[k] = p[k - 1]
      /\ \A k \in Node : k > q => t[k] = p[k]
  <2>1. 1 \in Node /\ \A k \in Node : k > 1 => k - 1 \in Node
    OBVIOUS
  <2>2. QED BY <1>0, <2>1 DEF Moved
<1>8. \A n \in Node : \E k \in Node : t[k] = n
  <2> TAKE n \in Node
  <2>1. PICK k \in Node : p[k] = n
    BY DEF RingInOrder
  <2>2. CASE k = 0
    BY <1>1, <1>7, <2>1, <2>2
  <2>3. CASE k = q
    BY <1>7, <2>1, <2>3
  <2>4. CASE k # 0 /\ k < q
    <3>1. k + 1 \in Node /\ k + 1 > 1 /\ k + 1 <= q /\ (k + 1) - 1 = k
      BY <2>4
    <3>2. t[k + 1] = p[k]
      BY <3>1, <1>7
    <3>3. QED BY <2>1, <3>1, <3>2
  <2>5. CASE k > q
    BY <1>7, <2>1, <2>5
  <2>6. QED BY <2>2, <2>3, <2>4, <2>5
<1>9. \A k, m \in Node : t[k] = t[m] => k = m
  <2> DEFINE s(k) == IF k = 0 THEN 0 ELSE IF k = 1 THEN q ELSE IF k <= q THEN k - 1 ELSE k
  <2>1. \A k \in Node : t[k] = p[s(k)] /\ s(k) \in Node
    BY <1>0, <1>1, <1>7
  <2>2. \A k, m \in Node : s(k) = s(m) => k = m
    OBVIOUS
  <2> HIDE DEF s, t
  <2>3. QED BY <1>1, <2>1, <2>2
<1>10. \A k \in Node : r.next[t[k]] = t[After(k)] /\ r.prev[t[After(k)]] = t[k]
  <2>1. CASE q = 1
    <3>1. b = Head /\ f = a
      BY <1>0, <1>1, <1>3, <2>1
    <3>2. r.next = l.next
      <4>1. l.next[Head] = i /\ l.next[i] = a
        BY <1>0, <1>1, <1>2, <3>1, <2>1
      <4>2. \A n \in Node : r.next[n] = l.next[n]
        BY <1>0, <1>3, <1>5, <3>1, <4>1
      <4>3. r.next = [n \in Node |-> r.next[n]] /\ l.next = [n \in Node |-> l.next[n]]
        BY <1>6 DEF List
      <4> HIDE DEF r
      <4>4. QED BY <4>2, <4>3
    <3>3. r.prev = l.prev
      <4>1. l.prev[i] = Head /\ l.prev[a] = i
        BY <1>0, <1>1, <1>2, <3>1
      <4>2. \A n \in Node : r.prev[n] = l.prev[n]
        BY <1>0, <1>3, <1>5, <3>1, <4>1
      <4>3. r.prev = [n \in Node |-> r.prev[n]] /\ l.prev = [n \in Node |-> l.prev[n]]
        BY <1>6 DEF List
      <4> HIDE DEF r
      <4>4. QED BY <4>2, <4>3
    <3>4. \A k \in Node : t[k] = p[k]
      BY <1>1, <1>7, <2>1
    <3>5. \A k \in Node : After(k) \in Node
      BY DEF After
    <3> HIDE DEF r, t, f, u
    <3>6. QED BY <1>1, <3>2, <3>3, <3>4, <3>5
  <2>2. CASE q # 1
    <3>1. f = p[1] /\ 1 \in Node /\ b # Head /\ f # i /\ f # Head /\ f # a
      <4>1. 1 \in Node /\ q - 1 # 0 /\ After(0) = 1 /\ q # 0 /\ After(q) # 1 /\ 0 \in Node
        BY <2>2 DEF After
      <4>2. b # Head
        BY <1>0, <1>1, <4>1
      <4>3. f = l.next[Head]
        BY <1>3, <4>2
      <4>4. l.next[p[0]] = p[1]
        BY <1>1, <4>1
      <4>5. f = p[1]
        BY <1>1, <4>3, <4>4
      <4> HIDE DEF f
      <4>6. QED BY <1>0, <1>1, <4>1, <4>2, <4>5, <2>2
    <3>2. \A n \in Node : r.next[n] = IF n = Head THEN i ELSE IF n = i THEN f ELSE IF n = b THEN a ELSE l.next[n]
      BY <1>0, <1>3, <1>5
    <3>3. \A n \in Node : r.prev[n] = IF n = f THEN i ELSE IF n = i THEN Head ELSE IF n = a THEN b ELSE l.prev[n]
      BY <1>0, <1>3, <1>4, <1>5
    <3> HIDE DEF r, u, f
    <3> TAKE k \in Node
    <3>4. CASE k = 0
      <4>1. t[k] = Head /\ After(k) = 1 /\ t[After(k)] = i
        BY <1>7, <3>4 DEF After
      <4>2. QED BY <1>0, <3>1, <3>2, <3>3, <4>1
    <3>5. CASE k = 1
      <4>1. After(k) = 2 /\ 2 \in Node /\ 2 > 1 /\ 2 <= q /\ 2 - 1 = 1
        BY <2>2, <3>5 DEF After
      <4>2. t[k] = i /\ t[After(k)] = f
        BY <1>7, <3>1, <3>5, <4>1
      <4>3. QED BY <1>0, <3>1, <3>2, <3>3, <4>2
    <3>6. CASE k > 1 /\ k < q
      <4>1. /\ After(k) = k + 1 /\ k + 1 \in Node /\ k + 1 > 1 /\ k + 1 <= q /\ (k + 1) - 1 = k
            /\ k - 1 \in Node /\ After(k - 1) = k /\ k - 1 # 0 /\ k - 1 # q - 1 /\ k # q
            /\ k # 1 /\ k # After(q) /\ k - 1 # q
        BY <3>6 DEF After
      <4>2. t[k] = p[k - 1] /\ t[After(k)] = p[k]
        BY <1>7, <3>6, <4>1
      <4>3. l.next[p[k - 1]] = p[k] /\ l.prev[p[k]] = p[k - 1]
        BY <1>1, <4>1
      <4>4. p[k - 1] # Head /\ p[k - 1] # i /\ p[k - 1] # b /\ p[k] # f /\ p[k] # i /\ p[k] # a
        BY <1>0, <1>1, <3>1, <4>1
      <4>5. QED BY <3>2, <3>3, <4>1, <4>2, <4>3, <4>4
    <3>7. CASE k = q
      <4>1. /\ k > 1 /\ (After(k) = 0 \/ After(k) > q) /\ After(k) \in Node /\ q - 1 # 0 /\ q - 1 # q
            /\ After(k) # 1
        BY <2>2, <3>7 DEF After
      <4>2. t[k] = b /\ t[After(k)] = a
        BY <1>1, <1>7, <3>7, <4>1
      <4>3. b # Head /\ b # i /\ a # f /\ a # i
        BY <1>0, <1>1, <3>1, <3>7, <4>1
      <4>4. QED BY <1>0, <3>2, <3>3, <4>2, <4>3
    <3>8. CASE k > q
      <4>1. /\ (After(k) = 0 \/ After(k) > q) /\ After(k) \in Node /\ After(k) # 1
            /\ After(k) # q /\ After(k) # After(q) /\ k # 0 /\ k # q /\ k # q - 1
        BY <3>8 DEF After
      <4>2. t[k] = p[k] /\ t[After(k)] = p[After(k)]
        BY <1>1, <1>7, <3>8, <4>1
      <4>3. l.next[p[k]] = p[After(k)] /\ l.prev[p[After(k)]] = p[k]
        BY <1>1
      <4>4. p[k] # Head /\ p[k] # i /\ p[k] # b /\ p[After(k)] # f /\ p[After(k)] # i /\ p[After(k)] # a
        BY <1>0, <1>1, <3>1, <4>1
      <4>5. QED BY <3>2, <3>3, <4>1, <4>2, <4>3, <4>4
    <3>9. QED BY <3>4, <3>5, <3>6, <3>7, <3>8
  <2>3. QED BY <2>1, <2>2
<1> HIDE DEF r, t
<1>11. RingInOrder(r, t)
  BY <1>7, <1>8, <1>9, <1>10 DEF RingInOrder
<1>12. QED BY <1>6, <1>7, <1>11 DEF r, t
-----------------------------------------------------------------------------
(* Reference counts. *)

\* One more hold on buffer i keeps the counts in their range (bget, bpin).
LEMMA HoldTyped ==
    ASSUME TypeOK, NEW i \in Buf, refcnt[i] < MaxRef
    PROVE  [refcnt EXCEPT ![i] = @ + 1] \in [Buf -> 0 .. MaxRef]
<1>1. refcnt[i] \in 0 .. MaxRef /\ refcnt \in [Buf -> 0 .. MaxRef]
  BY DEF TypeOK
<1>2. refcnt[i] + 1 \in 0 .. MaxRef
  BY <1>1
<1>3. QED BY <1>1, <1>2

\* One hold less on buffer i, which is held, keeps them too (brelse, bunpin).
LEMMA UnholdTyped ==
    ASSUME TypeOK, NEW i \in Buf, refcnt[i] > 0
    PROVE  [refcnt EXCEPT ![i] = @ - 1] \in [Buf -> 0 .. MaxRef]
<1>1. refcnt[i] \in 0 .. MaxRef /\ refcnt \in [Buf -> 0 .. MaxRef]
  BY DEF TypeOK
<1>2. refcnt[i] - 1 \in 0 .. MaxRef
  BY <1>1
<1>3. QED BY <1>1, <1>2

-----------------------------------------------------------------------------
(* What the searches of bget find. *)

\* The list has an order p, in which the loop over next walks.
LEMMA ListWalked ==
    ASSUME CacheInv
    PROVE  \E p \in [Node -> Node] :
             /\ RingInOrder(list, p)
             /\ Walk(list.next) = p
             /\ Walk(list.prev) = [k \in Node |-> IF k = 0 THEN 0 ELSE p[NBUF + 1 - k]]
<1>1. list \in List
  BY DEF CacheInv, TypeOK, List
<1>2. PICK p \in [Node -> Node] : RingInOrder(list, p)
  BY DEF CacheInv, ListIsRing
<1>3. QED BY <1>1, <1>2, WalkOfRing

\* The forward search finds a block where it is bound.
LEMMA HitIs ==
    ASSUME CacheInv, NEW b \in Block, NEW i \in Buf
    PROVE  Hit(b, i) <=> blockno[i] = b
<1>1. PICK p \in [Node -> Node] : RingInOrder(list, p) /\ Walk(list.next) = p
  BY ListWalked
<1>2. ASSUME blockno[i] = b PROVE Hit(b, i)
  <2> DEFINE S == {j \in Buf : blockno[j] = b}
  <2>1. PICK k \in Node : p[k] = i
    BY <1>1 DEF RingInOrder
  <2>2. k \in Buf
    BY <1>1, <2>1 DEF RingInOrder
  <2>3. \A j \in S : j = i
    BY <1>2 DEF CacheInv, OneCopyPerBlock
  <2>4. ASSUME NEW m \in 1 .. k - 1 PROVE p[m] \notin S \cup {Head}
    <3>1. m \in Node /\ 0 \in Node /\ m # 0 /\ m # k
      BY <2>2
    <3>2. p[m] # i /\ p[m] # Head
      BY <1>1, <2>1, <2>2, <3>1 DEF RingInOrder
    <3> HIDE DEF S
    <3>3. QED BY <2>3, <3>2
  <2>5. i \in S
    BY <1>2
  <2> HIDE DEF S
  <2>6. FirstMet(list.next, S, i)
    BY <1>1, <2>1, <2>2, <2>4, <2>5 DEF FirstMet
  <2>7. QED BY <2>6 DEF Hit, S
<1>3. ASSUME Hit(b, i) PROVE blockno[i] = b
  BY <1>3 DEF Hit, FirstMet
<1>4. QED BY <1>2, <1>3

\* The forward search finds a block exactly when some buffer is bound to it.
LEMMA CachedIs == ASSUME CacheInv, NEW b \in Block PROVE Cached(b) <=> Bound(b)
BY HitIs DEF Cached, Bound

\* The backward search finds an unused buffer behind every other one.
LEMMA VictimIsLast ==
    ASSUME CacheInv, NEW i \in Buf, Victim(i)
    PROVE  refcnt[i] = 0 /\ \A j \in Buf \ {i} : refcnt[j] = 0 => Before(j, i)
<1> DEFINE S == {j \in Buf : refcnt[j] = 0}
<1>1. PICK p \in [Node -> Node] :
        /\ RingInOrder(list, p)
        /\ Walk(list.next) = p
        /\ Walk(list.prev) = [k \in Node |-> IF k = 0 THEN 0 ELSE p[NBUF + 1 - k]]
  BY ListWalked
<1> DEFINE q == Walk(list.prev)
<1>2. PICK k \in Buf : q[k] = i /\ \A m \in 1 .. k - 1 : q[m] \notin S \cup {Head}
  BY DEF Victim, FirstMet
<1>3. i \in S
  BY DEF Victim, FirstMet
<1>4. ASSUME NEW j \in S, j # i PROVE Before(j, i)
  <2>1. PICK n \in Node : p[n] = j
    BY <1>1 DEF RingInOrder
  <2>2. n \in Buf /\ NBUF + 1 - n \in Buf /\ NBUF + 1 - k \in Buf /\ NBUF + 1 - (NBUF + 1 - n) = n
    BY <1>1, <2>1 DEF RingInOrder
  <2>3. q[NBUF + 1 - n] = j /\ p[NBUF + 1 - k] = i
    BY <1>1, <1>2, <2>1, <2>2
  <2>4. ~(NBUF + 1 - n < k)
    <3>1. SUFFICES ASSUME NBUF + 1 - n < k PROVE FALSE
      OBVIOUS
    <3>2. NBUF + 1 - n \in 1 .. k - 1
      BY <2>2, <3>1
    <3> HIDE DEF q, S
    <3>3. QED BY <1>2, <1>4, <2>3, <3>2
  <2>5. NBUF + 1 - n # k
    BY <1>2, <1>4, <2>3
  <2>6. n < NBUF + 1 - k
    BY <2>2, <2>4, <2>5
  <2>7. QED BY <1>1, <2>1, <2>2, <2>3, <2>6 DEF Before
<1>5. QED BY <1>3, <1>4

\* It finds one if there is one: bget panics only when every buffer is held.
LEMMA VictimExists ==
    ASSUME CacheInv, NEW j \in Buf, refcnt[j] = 0
    PROVE  \E i \in Buf : Victim(i)
<1> DEFINE S == {i \in Buf : refcnt[i] = 0}
<1>1. PICK p \in [Node -> Node] :
        /\ RingInOrder(list, p)
        /\ Walk(list.prev) = [k \in Node |-> IF k = 0 THEN 0 ELSE p[NBUF + 1 - k]]
  BY ListWalked
<1> DEFINE q == Walk(list.prev)  T == {k \in Buf : q[k] \in S}
<1>2. T # {}
  <2>1. PICK n \in Node : p[n] = j
    BY <1>1 DEF RingInOrder
  <2>2. n \in Buf /\ NBUF + 1 - n \in Buf /\ NBUF + 1 - (NBUF + 1 - n) = n
    BY <1>1, <2>1 DEF RingInOrder
  <2>3. q[NBUF + 1 - n] = j
    BY <1>1, <2>1, <2>2
  <2>4. QED BY <2>2, <2>3
<1>3. PICK k \in T : \A m \in T : ~(<<m, k>> \in OpToRel(<, Nat))
  <2>1. T \subseteq Nat
    OBVIOUS
  <2> HIDE DEF T
  <2>2. QED BY <1>2, <2>1, NatLessThanWellFounded, WFMin
<1>4. ASSUME NEW m \in 1 .. k - 1 PROVE q[m] \notin S \cup {Head}
  <2>1. m \in Buf /\ m \in Nat /\ k \in Nat /\ m < k
    OBVIOUS
  <2>2. <<m, k>> \in OpToRel(<, Nat)
    BY <2>1 DEF OpToRel
  <2>3. q[m] \notin S
    BY <1>3, <2>1, <2>2
  <2>4. q[m] # Head
    <3>1. NBUF + 1 - m \in Buf /\ 0 \in Node /\ NBUF + 1 - m # 0 /\ q[m] = p[NBUF + 1 - m]
      BY <1>1, <2>1
    <3>2. QED BY <1>1, <3>1 DEF RingInOrder
  <2>5. QED BY <2>3, <2>4
<1>5. k \in Buf /\ q[k] \in S
  OBVIOUS
<1> HIDE DEF T
<1>6. Victim(q[k])
  BY <1>4, <1>5 DEF Victim, FirstMet
<1>7. QED BY <1>5, <1>6

-----------------------------------------------------------------------------
(* The inductive invariant. *)

\* binit() establishes the invariant.
LEMMA CacheInit == Init => CacheInv
<1> SUFFICES ASSUME Init PROVE CacheInv
  OBVIOUS
<1>2. TypeOK
  <2>1. disk \in [Block -> Data] /\ data \in [Buf -> Data]
    BY DEF Init
  <2>2. blockno \in [Buf -> Block \cup {NoBlock}]
    BY DEF Init
  <2>3. refcnt \in [Buf -> 0 .. MaxRef]
    BY DEF Init
  <2>4. list \in [next : [Node -> Node], prev : [Node -> Node]]
    BY BinitLinks DEF Init, List
  <2>5. panicked \in BOOLEAN
    BY DEF Init
  <2>6. QED BY <2>1, <2>2, <2>3, <2>4, <2>5 DEF TypeOK
<1>3. OneCopyPerBlock /\ ListIsRing
  BY BinitLinks DEF Init, OneCopyPerBlock, ListIsRing
<1>4. UnheldIsClean /\ HeldIsBound
  BY DEF Init, UnheldIsClean, HeldIsBound
<1>5. QED BY <1>2, <1>3, <1>4 DEF CacheInv

\* Every call of bio.c, made as its header asks, preserves the invariant.
LEMMA CacheStep == CacheInv /\ [Next]_vars => CacheInv'
<1> SUFFICES ASSUME CacheInv, [Next]_vars PROVE CacheInv'
  OBVIOUS
<1> USE DEF CacheInv
<1>0. TypeOK /\ OneCopyPerBlock /\ ListIsRing /\ UnheldIsClean /\ HeldIsBound
  OBVIOUS
<1>1. ASSUME NEW b \in Block, BreadHit(b) PROVE CacheInv'
  <2>1. PICK i \in Buf : /\ blockno[i] = b
                         /\ refcnt[i] < MaxRef
                         /\ refcnt' = [refcnt EXCEPT ![i] = @ + 1]
    BY <1>1, HitIs DEF BreadHit
  <2>2. UNCHANGED <<disk, blockno, data, list, panicked>>
    BY <1>1 DEF BreadHit
  <2>3. TypeOK'
    BY <2>1, <2>2, HoldTyped DEF TypeOK
  <2>4. OneCopyPerBlock' /\ ListIsRing'
    BY <2>2 DEF OneCopyPerBlock, ListIsRing
  <2>5. \A j \in Buf : refcnt'[j] = 0 => refcnt[j] = 0
    BY <2>1 DEF TypeOK
  <2>6. UnheldIsClean'
    BY <2>2, <2>5 DEF UnheldIsClean, Clean
  <2>7. HeldIsBound'
    BY <2>1, <2>2 DEF HeldIsBound, TypeOK
  <2>8. QED BY <2>3, <2>4, <2>6, <2>7
<1>2. ASSUME NEW b \in Block, BreadMiss(b) PROVE CacheInv'
  <2>1. PICK i \in Buf : /\ Victim(i)
                         /\ blockno' = [blockno EXCEPT ![i] = b]
                         /\ refcnt' = [refcnt EXCEPT ![i] = 1]
                         /\ data' = [data EXCEPT ![i] = disk[b]]
    BY <1>2 DEF BreadMiss
  <2>2. UNCHANGED <<disk, list, panicked>> /\ ~Bound(b)
    BY <1>2, CachedIs DEF BreadMiss
  <2>3. TypeOK'
    <3>1. 1 \in 0 .. MaxRef /\ disk[b] \in Data
      BY DEF TypeOK
    <3>2. QED BY <2>1, <2>2, <3>1 DEF TypeOK
  <2>4. OneCopyPerBlock'
    BY <2>1, <2>2 DEF OneCopyPerBlock, Bound, TypeOK
  <2>5. ListIsRing'
    BY <2>2 DEF ListIsRing
  <2>6. UnheldIsClean'
    BY <2>1, <2>2 DEF UnheldIsClean, Clean, TypeOK
  <2>7. HeldIsBound'
    BY <2>1, <2>2 DEF HeldIsBound, TypeOK
  <2>8. QED BY <2>3, <2>4, <2>5, <2>6, <2>7
<1>3. ASSUME NEW b \in Block, BreadPanic(b) PROVE CacheInv'
  BY <1>3 DEF BreadPanic, TypeOK, OneCopyPerBlock, ListIsRing,
              UnheldIsClean, Clean, HeldIsBound
<1>4. ASSUME NEW i \in Buf, NEW d \in Data, Store(i, d) PROVE CacheInv'
  <2>1. TypeOK'
    BY <1>4 DEF Store, TypeOK
  <2>2. OneCopyPerBlock' /\ ListIsRing' /\ HeldIsBound'
    BY <1>4 DEF Store, OneCopyPerBlock, ListIsRing, HeldIsBound
  <2>3. UnheldIsClean'
    BY <1>4 DEF Store, UnheldIsClean, Clean, TypeOK
  <2>4. QED BY <2>1, <2>2, <2>3
<1>5. ASSUME NEW i \in Buf, Bwrite(i) PROVE CacheInv'
  <2>1. blockno[i] \in Block
    BY <1>5 DEF Bwrite, HeldIsBound
  <2>2. TypeOK'
    BY <1>5, <2>1 DEF Bwrite, TypeOK
  <2>3. OneCopyPerBlock' /\ ListIsRing' /\ HeldIsBound'
    BY <1>5 DEF Bwrite, OneCopyPerBlock, ListIsRing, HeldIsBound
  <2>4. ASSUME NEW j \in Buf, blockno[j] # NoBlock, refcnt[j] = 0
        PROVE  data[j] = disk'[blockno[j]]
    <3>1. j # i
      BY <1>5, <2>4 DEF Bwrite, TypeOK
    <3>2. blockno[j] # blockno[i] /\ blockno[j] \in Block
      BY <3>1, <2>4 DEF OneCopyPerBlock, TypeOK
    <3>3. disk'[blockno[j]] = disk[blockno[j]]
      BY <1>5, <3>2 DEF Bwrite, TypeOK
    <3>4. QED BY <2>4, <3>3 DEF UnheldIsClean, Clean
  <2>5. UnheldIsClean'
    BY <1>5, <2>4 DEF Bwrite, UnheldIsClean, Clean
  <2>6. QED BY <2>2, <2>3, <2>5
<1>6. ASSUME NEW i \in Buf, Bpin(i) PROVE CacheInv'
  <2>1. TypeOK'
    <3>1. refcnt[i] < MaxRef
      BY <1>6 DEF Bpin, TypeOK
    <3>2. refcnt' \in [Buf -> 0 .. MaxRef]
      BY <1>6, <3>1, HoldTyped DEF Bpin
    <3>3. QED BY <1>6, <3>2 DEF Bpin, TypeOK
  <2>2. OneCopyPerBlock' /\ ListIsRing'
    BY <1>6 DEF Bpin, OneCopyPerBlock, ListIsRing
  <2>3. UnheldIsClean' /\ HeldIsBound'
    <3>1. refcnt[i] \in Nat \ {0} /\ \A j \in Buf \ {i} : refcnt'[j] = refcnt[j]
      BY <1>6 DEF Bpin, TypeOK
    <3>2. refcnt'[i] = refcnt[i] + 1
      BY <1>6 DEF Bpin, TypeOK
    <3>3. QED BY <1>6, <3>1, <3>2 DEF Bpin, UnheldIsClean, Clean, HeldIsBound
  <2>4. QED BY <2>1, <2>2, <2>3
<1>7. ASSUME NEW i \in Buf, refcnt[i] = 1 => Clean(i), Brelse(i) PROVE CacheInv'
  <2>1. list' \in List /\ ListIsRing'
    <3>1. CASE list' = list
      BY <3>1 DEF TypeOK, ListIsRing, List
    <3>2. CASE list' = AtFront(Unlinked(list, i), i)
      <4>1. PICK p \in [Node -> Node] : RingInOrder(list, p)
        BY DEF ListIsRing
      <4>2. PICK q \in Buf : p[q] = i
        BY <4>1 DEF RingInOrder
      <4>3. list \in List
        BY DEF TypeOK, List
      <4>4. QED BY <3>2, <4>1, <4>2, <4>3, MoveKeepsRing DEF ListIsRing
    <3>3. QED BY <1>7, <3>1, <3>2 DEF Brelse
  <2>2. TypeOK'
    <3>1. refcnt' \in [Buf -> 0 .. MaxRef]
      BY <1>7, UnholdTyped DEF Brelse
    <3>2. QED BY <1>7, <2>1, <3>1 DEF Brelse, TypeOK, List
  <2>3. OneCopyPerBlock'
    BY <1>7 DEF Brelse, OneCopyPerBlock
  <2>4. UnheldIsClean' /\ HeldIsBound'
    <3>1. refcnt[i] \in Nat \ {0} /\ \A j \in Buf \ {i} : refcnt'[j] = refcnt[j]
      BY <1>7 DEF Brelse, TypeOK
    <3>2. /\ refcnt'[i] = 0 => refcnt[i] = 1
          /\ \A j \in Buf : refcnt'[j] > 0 => refcnt[j] > 0
      BY <1>7, <3>1 DEF Brelse, TypeOK
    <3>3. QED BY <1>7, <3>1, <3>2 DEF Brelse, UnheldIsClean, Clean, HeldIsBound
  <2>5. QED BY <2>1, <2>2, <2>3, <2>4
<1>8. ASSUME NEW i \in Buf, refcnt[i] > 1, Bunpin(i) PROVE CacheInv'
  <2>1. TypeOK'
    <3>1. refcnt' \in [Buf -> 0 .. MaxRef]
      BY <1>8, UnholdTyped DEF Bunpin
    <3>2. QED BY <1>8, <3>1 DEF Bunpin, TypeOK
  <2>2. OneCopyPerBlock' /\ ListIsRing'
    BY <1>8 DEF Bunpin, OneCopyPerBlock, ListIsRing
  <2>3. UnheldIsClean' /\ HeldIsBound'
    <3>1. refcnt[i] \in Nat \ {0} /\ \A j \in Buf \ {i} : refcnt'[j] = refcnt[j]
      BY <1>8 DEF Bunpin, TypeOK
    <3>2. /\ refcnt'[i] # 0
          /\ \A j \in Buf : refcnt'[j] > 0 => refcnt[j] > 0
      BY <1>8, <3>1 DEF Bunpin, TypeOK
    <3>3. QED BY <1>8, <3>1, <3>2 DEF Bunpin, UnheldIsClean, Clean, HeldIsBound
  <2>4. QED BY <2>1, <2>2, <2>3
<1>9. CASE UNCHANGED vars
  BY <1>9 DEF vars, TypeOK, OneCopyPerBlock, ListIsRing,
              UnheldIsClean, Clean, HeldIsBound
<1>10. QED
  BY <1>1, <1>2, <1>3, <1>4, <1>5, <1>6, <1>7, <1>8, <1>9 DEF Next

\* The cache's invariant holds in every reachable state, for every number of
\* buffers: bget, brelse, bpin and bunpin never break it.
THEOREM CacheInvariant == Spec => []CacheInv
<1>1. QED BY CacheInit, CacheStep, PTL DEF Spec

\* Type correctness: reference counts stay within their range.
THEOREM TypeCorrect == Spec => []TypeOK
<1>1. CacheInv => TypeOK
  BY DEF CacheInv
<1>2. QED BY <1>1, CacheInvariant, PTL

\* No block is ever cached twice.
THEOREM OneCopy == Spec => []OneCopyPerBlock
<1>1. CacheInv => OneCopyPerBlock
  BY DEF CacheInv
<1>2. QED BY <1>1, CacheInvariant, PTL

-----------------------------------------------------------------------------
(* Action properties. *)

\* Where a buffer is on a list that is a ring.
LEMMA BeforeIs ==
    ASSUME NEW p \in [Node -> Node], Walk(list.next) = p, RingInOrder(list, p),
           NEW k \in Buf, NEW m \in Buf
    PROVE  Before(p[k], p[m]) <=> k < m
BY DEF Before, RingInOrder

\* Unused buffers are ordered by when they were released, and bget recycles the
\* last of them.
THEOREM RecycledInOrder == Spec => LeastRecentlyUsed
<1> DEFINE Ordered == \A i, j \in Buf :
                        /\ i # j
                        /\ refcnt'[i] = 0
                        /\ refcnt[j] = 0 /\ refcnt'[j] = 0
                        => (Before(i, j)' <=> (refcnt[i] > 0 \/ Before(i, j)))
           Oldest == \A i \in Buf :
                       blockno'[i] # blockno[i]
                         => \A j \in Buf \ {i} : refcnt[j] = 0 => Before(j, i)
<1>1. CacheInv /\ CacheInv' /\ [Next]_vars => [Ordered /\ Oldest]_vars
  <2> SUFFICES ASSUME CacheInv, CacheInv', Next PROVE Ordered /\ Oldest
    BY DEF vars
  <2>1. ASSUME NEW n \in Buf, Brelse(n), refcnt[n] = 1 PROVE Ordered /\ Oldest
    <3>1. PICK p \in [Node -> Node] : RingInOrder(list, p) /\ Walk(list.next) = p
      BY ListWalked
    <3>2. PICK q \in Buf : p[q] = n
      BY <3>1 DEF RingInOrder
    <3> DEFINE t == Moved(p, q)
    <3>3. list' = AtFront(Unlinked(list, n), n) /\ list \in List
      BY <2>1 DEF Brelse, CacheInv, TypeOK, List
    <3>4. list' \in List /\ t \in [Node -> Node] /\ RingInOrder(list', t)
      BY <3>1, <3>2, <3>3, MoveKeepsRing
    <3>5. Walk(list'.next) = t
      BY <3>4, WalkOfRing
    <3>6. UNCHANGED blockno /\ refcnt' = [refcnt EXCEPT ![n] = 0]
      BY <2>1 DEF Brelse, CacheInv, TypeOK
    <3>7. ASSUME NEW i \in Buf, NEW j \in Buf, i # j, refcnt[j] = 0, refcnt'[i] = 0
          PROVE  Before(i, j)' <=> (refcnt[i] > 0 \/ Before(i, j))
      <4>1. PICK k \in Buf, m \in Buf : p[k] = i /\ p[m] = j
        BY <3>1 DEF RingInOrder
      <4>2. j # n /\ k # m /\ m # q
        BY <2>1, <3>2, <3>7, <4>1
      <4> DEFINE s(x) == IF x = q THEN 1 ELSE IF x < q THEN x + 1 ELSE x
      <4>3. ASSUME NEW x \in Buf PROVE s(x) \in Buf /\ t[s(x)] = p[x]
        <5>1. CASE x = q
          BY <5>1 DEF Moved
        <5>2. CASE x < q
          <6>1. x + 1 \in Buf /\ x + 1 # 1 /\ x + 1 <= q /\ (x + 1) - 1 = x
            BY <5>2
          <6>2. QED BY <5>2, <6>1 DEF Moved
        <5>3. CASE x > q
          BY <5>3 DEF Moved
        <5>4. QED BY <5>1, <5>2, <5>3
      <4>4. Before(i, j)' <=> s(k) < s(m)
        <5>1. Before(i, j)' <=> \E x, y \in Buf : x < y /\ t[x] = i /\ t[y] = j
          BY <3>5 DEF Before
        <5>2. t[s(k)] = i /\ t[s(m)] = j /\ s(k) \in Buf /\ s(m) \in Buf
          BY <4>1, <4>3
        <5>3. \A x, y \in Node : t[x] = t[y] => x = y
          BY <3>4 DEF RingInOrder
        <5> HIDE DEF t, s
        <5>4. QED BY <5>1, <5>2, <5>3
      <4>5. Before(i, j) <=> k < m
        BY <3>1, <4>1, BeforeIs
      <4>6. CASE k = q
        <5>1. refcnt[i] > 0 /\ s(k) = 1 /\ s(m) > 1
          BY <2>1, <3>2, <4>1, <4>2, <4>6
        <5>2. QED BY <4>4, <5>1
      <4>7. CASE k # q
        <5>1. ~(refcnt[i] > 0)
          <6>1. i # n
            BY <3>1, <3>2, <4>1, <4>7 DEF RingInOrder
          <6>2. QED BY <3>6, <3>7, <6>1
        <5>2. s(k) < s(m) <=> k < m
          BY <4>2, <4>7
        <5>3. QED BY <4>4, <4>5, <5>1, <5>2
      <4>8. QED BY <4>6, <4>7
    <3>8. Ordered
      BY <3>7
    <3>9. QED BY <3>6, <3>8
  <2>2. ASSUME NEW b \in Block, BreadMiss(b) PROVE Ordered /\ Oldest
    <3>1. PICK n \in Buf : /\ Victim(n)
                           /\ blockno' = [blockno EXCEPT ![n] = b]
                           /\ refcnt' = [refcnt EXCEPT ![n] = 1]
      BY <2>2 DEF BreadMiss
    <3>2. list' = list /\ refcnt \in [Buf -> 0 .. MaxRef] /\ blockno \in [Buf -> Block \cup {NoBlock}]
      BY <2>2 DEF BreadMiss, CacheInv, TypeOK
    <3>3. Ordered
      <4>1. \A i \in Buf : refcnt'[i] = 0 => ~(refcnt[i] > 0)
        BY <3>1, <3>2
      <4>2. \A i, j \in Buf : Before(i, j)' <=> Before(i, j)
        BY <3>2 DEF Before
      <4>3. QED BY <4>1, <4>2
    <3>4. Oldest
      BY <3>1, <3>2, VictimIsLast
    <3>5. QED BY <3>3, <3>4
  <2>3. ASSUME list' = list, blockno' = blockno,
               \A i \in Buf : refcnt'[i] = 0 => refcnt[i] = 0
        PROVE  Ordered /\ Oldest
    <3>1. \A i, j \in Buf : Before(i, j)' <=> Before(i, j)
      BY <2>3 DEF Before
    <3>2. \A i \in Buf : refcnt'[i] = 0 => ~(refcnt[i] > 0)
      BY <2>3
    <3>3. QED BY <2>3, <3>1, <3>2
  <2>4. refcnt \in [Buf -> 0 .. MaxRef]
    BY DEF CacheInv, TypeOK
  <2>5. ASSUME NEW n \in Buf, Brelse(n), refcnt[n] # 1 PROVE Ordered /\ Oldest
    <3>1. list' = list /\ blockno' = blockno /\ refcnt' = [refcnt EXCEPT ![n] = @ - 1]
      BY <2>5 DEF Brelse
    <3>2. \A i \in Buf : refcnt'[i] = 0 => refcnt[i] = 0
      BY <2>4, <2>5, <3>1
    <3>3. QED BY <2>3, <3>1, <3>2
  <2>6. ASSUME NEW n \in Buf, refcnt[n] > 1, Bunpin(n) PROVE Ordered /\ Oldest
    <3>1. list' = list /\ blockno' = blockno /\ refcnt' = [refcnt EXCEPT ![n] = @ - 1]
      BY <2>6 DEF Bunpin
    <3>2. \A i \in Buf : refcnt'[i] = 0 => refcnt[i] = 0
      BY <2>4, <2>6, <3>1
    <3>3. QED BY <2>3, <3>1, <3>2
  <2>7. ASSUME NEW n \in Buf, list' = list, blockno' = blockno,
               refcnt' = [refcnt EXCEPT ![n] = @ + 1]
        PROVE  Ordered /\ Oldest
    <3>1. \A i \in Buf : refcnt'[i] = 0 => refcnt[i] = 0
      BY <2>4, <2>7
    <3>2. QED BY <2>3, <2>7, <3>1
  <2>8. ASSUME list' = list, blockno' = blockno, refcnt' = refcnt PROVE Ordered /\ Oldest
    BY <2>3, <2>8
  <2> HIDE DEF Ordered, Oldest
  <2>9. ASSUME NEW b \in Block, BreadHit(b) PROVE Ordered /\ Oldest
    BY <2>7, <2>9 DEF BreadHit
  <2>10. ASSUME NEW n \in Buf, Bpin(n) PROVE Ordered /\ Oldest
    BY <2>7, <2>10 DEF Bpin
  <2>11. ASSUME \/ \E b \in Block : BreadPanic(b)
                \/ \E n \in Buf, d \in Data : Store(n, d)
                \/ \E n \in Buf : Bwrite(n)
         PROVE  Ordered /\ Oldest
    BY <2>8, <2>11 DEF BreadPanic, Store, Bwrite
  <2>12. QED BY <2>1, <2>2, <2>5, <2>6, <2>9, <2>10, <2>11 DEF Next
<1>2. QED BY <1>1, CacheInvariant, PTL DEF Spec, LeastRecentlyUsed

-----------------------------------------------------------------------------
(* The refinement of BlockStore. *)

\* What a caller finds under a block number: the one buffer bound to it, or the
\* disk when there is none.
MappingFacts ==
    /\ Contents = [b \in Block |-> Contents[b]]
    /\ Holds = [b \in Block |-> Holds[b]]
    /\ \A i \in Buf : blockno[i] \in Block =>
          Contents[blockno[i]] = data[i] /\ Holds[blockno[i]] = refcnt[i]
    /\ \A b \in Block : ~Bound(b) => Contents[b] = disk[b] /\ Holds[b] = 0

\* The refinement mapping reads the unique copy of a block.
LEMMA Mapping == CacheInv => MappingFacts
<1> SUFFICES ASSUME CacheInv PROVE MappingFacts
  OBVIOUS
<1>1. ASSUME NEW i \in Buf, blockno[i] \in Block
      PROVE  Bound(blockno[i]) /\ BufOf(blockno[i]) = i
  <2>1. Bound(blockno[i])
    BY DEF Bound
  <2>2. \A j \in Buf : blockno[j] = blockno[i] => j = i
    BY <1>1 DEF CacheInv, OneCopyPerBlock
  <2>3. QED BY <2>1, <2>2 DEF BufOf
<1>2. \A i \in Buf : blockno[i] \in Block =>
        Contents[blockno[i]] = data[i] /\ Holds[blockno[i]] = refcnt[i]
  BY <1>1 DEF Contents, Holds
<1>3. \A b \in Block : ~Bound(b) => Contents[b] = disk[b] /\ Holds[b] = 0
  BY DEF Contents, Holds
<1>4. QED BY <1>2, <1>3 DEF MappingFacts, Contents, Holds

\* An empty cache shows the disk.
LEMMA RefinesInit == Init => BS!Init
<1> SUFFICES ASSUME Init PROVE BS!Init
  OBVIOUS
<1>1. CacheInv
  BY CacheInit
<1>2. \A b \in Block : ~Bound(b)
  BY DEF Init, Bound
<1>3. Contents = disk /\ Holds = [b \in Block |-> 0]
  BY <1>2 DEF Contents, Holds, Init
<1>4. QED BY <1>3 DEF Init, BS!Init

\* When every buffer is held, NBUF different blocks are: bget panics for no
\* other reason.
LEMMA EveryBufferHeld ==
    ASSUME CacheInv, \A i \in Buf : refcnt[i] # 0
    PROVE  BS!Exhausted
<1>0. MappingFacts
  BY Mapping
<1>1. ASSUME NEW i \in Buf PROVE refcnt[i] > 0 /\ blockno[i] \in Block
  <2>1. refcnt[i] \in 0 .. MaxRef /\ refcnt[i] # 0
    BY DEF CacheInv, TypeOK
  <2>2. refcnt[i] > 0
    BY <2>1, CacheAssumption
  <2>3. QED BY <2>2 DEF CacheInv, HeldIsBound
<1>2. blockno \in [Buf -> BS!HeldBlocks]
  <2>1. \A i \in Buf : blockno[i] \in BS!HeldBlocks
    BY <1>0, <1>1 DEF MappingFacts, BS!HeldBlocks
  <2>2. blockno = [i \in Buf |-> blockno[i]]
    BY DEF CacheInv, TypeOK
  <2>3. QED BY <2>1, <2>2
<1>3. \A i, j \in Buf : blockno[i] = blockno[j] => i = j
  BY <1>1 DEF CacheInv, OneCopyPerBlock
<1>4. QED BY <1>2, <1>3 DEF BS!Exhausted

\* Every call of bio.c is a call of the block store or invisible in it.
LEMMA RefinesStep == CacheInv /\ CacheInv' /\ [Next]_vars => [BS!Next]_(BS!vars)
<1> SUFFICES ASSUME CacheInv, CacheInv', Next
             PROVE  BS!Next \/ UNCHANGED BS!vars
  <2>1. ASSUME UNCHANGED vars PROVE UNCHANGED BS!vars
    BY <2>1 DEF vars, BS!vars, Contents, Holds, Bound, BufOf
  <2>2. QED BY <2>1
<1>m. MappingFacts
  BY Mapping
<1>n. MappingFacts'
  BY Mapping, PTL
<1>t. TypeOK /\ TypeOK' /\ HeldIsBound
  BY DEF CacheInv
\* Steps that keep the bindings keep the copy each block is read from.
<1>k. ASSUME blockno' = blockno
      PROVE  \A b \in Block : Bound(b)' = Bound(b) /\ BufOf(b)' = BufOf(b)
  BY <1>k DEF Bound, BufOf
<1>1. ASSUME NEW b \in Block, BreadHit(b) PROVE BS!Acquire(b)
  <2>1. PICK i \in Buf : blockno[i] = b /\ refcnt' = [refcnt EXCEPT ![i] = @ + 1]
    BY <1>1, HitIs DEF BreadHit
  <2>2. ~panicked /\ UNCHANGED <<disk, blockno, data, list, panicked>>
    BY <1>1 DEF BreadHit
  <2>3. Contents' = Contents
    BY <2>2, <1>k DEF Contents
  <2>4. Holds' = [Holds EXCEPT ![b] = @ + 1]
    <3>1. Holds'[b] = Holds[b] + 1
      BY <2>1, <2>2, <1>m, <1>n, <1>t DEF MappingFacts, TypeOK
    <3>2. \A c \in Block \ {b} : Holds'[c] = Holds[c]
      <4> TAKE c \in Block \ {b}
      <4>1. CASE Bound(c)
        <5>1. PICK j \in Buf : blockno[j] = c
          BY <4>1 DEF Bound
        <5>2. j # i /\ refcnt'[j] = refcnt[j]
          BY <2>1, <5>1, <1>t DEF TypeOK
        <5>3. QED BY <5>1, <5>2, <2>2, <1>m, <1>n DEF MappingFacts
      <4>2. CASE ~Bound(c)
        BY <4>2, <2>2, <1>k, <1>m, <1>n DEF MappingFacts
      <4>3. QED BY <4>1, <4>2
    <3>3. QED BY <3>1, <3>2, <1>m, <1>n DEF MappingFacts
  <2>5. QED BY <2>2, <2>3, <2>4 DEF BS!Acquire
<1>2. ASSUME NEW b \in Block, BreadMiss(b) PROVE BS!Acquire(b)
  <2>1. PICK i \in Buf : /\ Victim(i)
                         /\ blockno' = [blockno EXCEPT ![i] = b]
                         /\ refcnt' = [refcnt EXCEPT ![i] = 1]
                         /\ data' = [data EXCEPT ![i] = disk[b]]
    BY <1>2 DEF BreadMiss
  <2>2. ~panicked /\ ~Bound(b) /\ UNCHANGED <<disk, list, panicked>>
    BY <1>2, CachedIs DEF BreadMiss
  <2>3. Contents'[b] = Contents[b] /\ Holds'[b] = Holds[b] + 1
    <3>1. blockno'[i] = b /\ data'[i] = disk[b] /\ refcnt'[i] = 1
      BY <2>1, <1>t DEF TypeOK
    <3>2. Contents'[b] = disk[b] /\ Holds'[b] = 1
      BY <3>1, <1>n DEF MappingFacts
    <3>3. Contents[b] = disk[b] /\ Holds[b] = 0
      BY <2>2, <1>m DEF MappingFacts
    <3>4. QED BY <3>2, <3>3
  <2>4. ASSUME NEW c \in Block \ {b}
        PROVE  Contents'[c] = Contents[c] /\ Holds'[c] = Holds[c]
    <3>1. CASE blockno[i] = c
      <4>1. ~Bound(c)'
        <5>1. \A j \in Buf : j # i => blockno[j] # c
          BY <3>1 DEF CacheInv, OneCopyPerBlock, TypeOK
        <5>2. \A j \in Buf : blockno'[j] # c
          BY <5>1, <2>1, <1>t DEF TypeOK
        <5>3. QED BY <5>2 DEF Bound
      <4>2. data[i] = disk[c] /\ refcnt[i] = 0
        BY <3>1, <2>1, VictimIsLast DEF CacheInv, UnheldIsClean, Clean
      <4>3. Contents[c] = data[i] /\ Holds[c] = 0
        BY <3>1, <4>2, <1>m DEF MappingFacts
      <4>4. Contents'[c] = disk[c] /\ Holds'[c] = 0
        BY <4>1, <2>2, <1>n DEF MappingFacts
      <4>5. QED BY <4>2, <4>3, <4>4
    <3>2. CASE blockno[i] # c /\ Bound(c)
      <4>1. PICK j \in Buf : blockno[j] = c
        BY <3>2 DEF Bound
      <4>2. j # i /\ blockno'[j] = c /\ data'[j] = data[j] /\ refcnt'[j] = refcnt[j]
        BY <3>2, <4>1, <2>1, <1>t DEF TypeOK
      <4>3. QED BY <4>1, <4>2, <1>m, <1>n DEF MappingFacts
    <3>3. CASE ~Bound(c)
      <4>1. ~Bound(c)'
        BY <3>3, <2>1, <1>t DEF Bound, TypeOK
      <4>2. QED BY <3>3, <4>1, <2>2, <1>m, <1>n DEF MappingFacts
    <3>4. QED BY <3>1, <3>2, <3>3
  <2>5. Contents' = Contents /\ Holds' = [Holds EXCEPT ![b] = @ + 1]
    BY <2>3, <2>4, <1>m, <1>n DEF MappingFacts
  <2>6. QED BY <2>2, <2>5 DEF BS!Acquire
<1>3. ASSUME NEW b \in Block, BreadPanic(b) PROVE BS!Halt
  <2>1. ~panicked /\ panicked' = TRUE /\ UNCHANGED <<disk, blockno, refcnt, data, list>>
    BY <1>3 DEF BreadPanic
  <2>2. BS!Exhausted
    BY <1>3, VictimExists, EveryBufferHeld DEF BreadPanic
  <2>3. Contents' = Contents /\ Holds' = Holds
    BY <2>1, <1>k DEF Contents, Holds
  <2>4. panicked' = TRUE /\ ~panicked
    BY <2>1
  <2>5. QED BY <2>2, <2>3, <2>4, Zenon DEF BS!Halt
<1>4. ASSUME NEW i \in Buf, NEW d \in Data, Store(i, d)
      PROVE  BS!Change(blockno[i], d) /\ blockno[i] \in Block
  <2>1. /\ ~panicked /\ refcnt[i] > 0 /\ data' = [data EXCEPT ![i] = d]
        /\ UNCHANGED <<disk, blockno, refcnt, list, panicked>>
    BY <1>4 DEF Store
  <2>2. blockno[i] \in Block
    BY <2>1, <1>t DEF HeldIsBound
  <2>3. Holds' = Holds /\ Holds[blockno[i]] = refcnt[i]
    BY <2>1, <2>2, <1>k, <1>m DEF Holds, MappingFacts
  <2>4. Contents' = [Contents EXCEPT ![blockno[i]] = d]
    <3>1. Contents'[blockno[i]] = d
      BY <2>1, <2>2, <1>n, <1>t DEF MappingFacts, TypeOK
    <3>2. \A c \in Block \ {blockno[i]} : Contents'[c] = Contents[c]
      <4> TAKE c \in Block \ {blockno[i]}
      <4>1. CASE Bound(c)
        <5>1. PICK j \in Buf : blockno[j] = c
          BY <4>1 DEF Bound
        <5>2. data'[j] = data[j]
          BY <2>1, <5>1, <1>t DEF TypeOK
        <5>3. QED BY <5>1, <5>2, <2>1, <1>m, <1>n DEF MappingFacts
      <4>2. CASE ~Bound(c)
        BY <4>2, <2>1, <1>k, <1>m, <1>n DEF MappingFacts
      <4>3. QED BY <4>1, <4>2
    <3>3. QED BY <3>1, <3>2, <1>m, <1>n DEF MappingFacts
  <2>5. QED BY <2>1, <2>2, <2>3, <2>4 DEF BS!Change
<1>5. ASSUME NEW i \in Buf, Bwrite(i) PROVE UNCHANGED BS!vars
  <2>1. /\ refcnt[i] > 0 /\ disk' = [disk EXCEPT ![blockno[i]] = data[i]]
        /\ UNCHANGED <<blockno, refcnt, data, list, panicked>>
    BY <1>5 DEF Bwrite
  <2>2. Holds' = Holds
    BY <2>1, <1>k DEF Holds
  <2>3. \A c \in Block : Contents'[c] = Contents[c]
    <3> TAKE c \in Block
    <3>1. CASE Bound(c)
      BY <3>1, <2>1, <1>k DEF Contents
    <3>2. CASE ~Bound(c)
      <4>1. blockno[i] # c
        BY <3>2 DEF Bound
      <4>2. disk'[c] = disk[c]
        BY <4>1, <2>1, <1>t DEF TypeOK
      <4>3. QED BY <3>2, <4>2, <2>1, <1>k, <1>m, <1>n DEF MappingFacts
    <3>3. QED BY <3>1, <3>2
  <2>4. Contents' = Contents
    BY <2>3, <1>m, <1>n DEF MappingFacts
  <2>5. QED BY <2>1, <2>2, <2>4 DEF BS!vars
<1>6. ASSUME NEW i \in Buf, Bpin(i)
      PROVE  BS!Acquire(blockno[i]) /\ blockno[i] \in Block
  <2>1. /\ ~panicked /\ refcnt[i] > 0 /\ refcnt' = [refcnt EXCEPT ![i] = @ + 1]
        /\ UNCHANGED <<disk, blockno, data, list, panicked>>
    BY <1>6 DEF Bpin
  <2>2. blockno[i] \in Block
    BY <2>1, <1>t DEF HeldIsBound
  <2>3. BreadHit(blockno[i])
    <3>1. refcnt[i] < MaxRef
      BY <1>6 DEF Bpin
    <3>2. QED BY <2>1, <2>2, <3>1, HitIs DEF BreadHit
  <2>4. QED BY <1>1, <2>2, <2>3
<1>7. ASSUME NEW i \in Buf, Brelse(i) \/ Bunpin(i)
      PROVE  BS!Release(blockno[i]) /\ blockno[i] \in Block
  <2>1. /\ ~panicked /\ refcnt[i] > 0 /\ refcnt' = [refcnt EXCEPT ![i] = @ - 1]
        /\ UNCHANGED <<disk, blockno, data, panicked>>
    BY <1>7 DEF Brelse, Bunpin
  <2>2. blockno[i] \in Block
    BY <2>1, <1>t DEF HeldIsBound
  <2>3. Contents' = Contents
    BY <2>1, <1>k DEF Contents
  <2>4. Holds' = [Holds EXCEPT ![blockno[i]] = @ - 1]
    <3>1. Holds'[blockno[i]] = Holds[blockno[i]] - 1
      BY <2>1, <2>2, <1>m, <1>n, <1>t DEF MappingFacts, TypeOK
    <3>2. \A c \in Block \ {blockno[i]} : Holds'[c] = Holds[c]
      <4> TAKE c \in Block \ {blockno[i]}
      <4>1. CASE Bound(c)
        <5>1. PICK j \in Buf : blockno[j] = c
          BY <4>1 DEF Bound
        <5>2. refcnt'[j] = refcnt[j]
          BY <2>1, <5>1, <1>t DEF TypeOK
        <5>3. QED BY <5>1, <5>2, <2>1, <1>m, <1>n DEF MappingFacts
      <4>2. CASE ~Bound(c)
        BY <4>2, <2>1, <1>k, <1>m, <1>n DEF MappingFacts
      <4>3. QED BY <4>1, <4>2
    <3>3. QED BY <3>1, <3>2, <1>m, <1>n DEF MappingFacts
  <2>5. Holds[blockno[i]] > 0
    BY <2>1, <2>2, <1>m DEF MappingFacts
  <2>6. QED BY <2>1, <2>2, <2>3, <2>4, <2>5 DEF BS!Release
<1>8. QED
  BY <1>1, <1>2, <1>3, <1>4, <1>5, <1>6, <1>7 DEF Next, BS!Next

\* Called as its header asks, the cache is the block store: a change made
\* through it is never lost, however the buffers are recycled.
THEOREM CacheImplementsStore == Spec => ImplementsBlockStore
<1>1. Spec => BS!Init /\ [][BS!Next]_(BS!vars)
  BY RefinesInit, RefinesStep, CacheInvariant, PTL DEF Spec
<1>2. QED BY <1>1 DEF ImplementsBlockStore, BS!Spec

===============================================================================
