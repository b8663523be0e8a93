----------------------------- MODULE Trees_proofs -----------------------------
(***************************************************************************)
(* The Merkle trees of intents and of reasoning steps, of any size: what   *)
(* was put into a tree can be proved of its root, and nothing else.        *)
(***************************************************************************)
EXTENDS ScopeTree, Provenance, FiniteSetTheorems, WellFoundedInduction, TLAPS

-----------------------------------------------------------------------------
(* Induction by the least counterexample, and recursion                     *)

LEMMA NatInd ==
  ASSUME NEW T \in SUBSET Nat, 0 \in T, \A n \in T : n + 1 \in T
  PROVE  T = Nat
<1> SUFFICES ASSUME Nat \ T # {} PROVE FALSE
  OBVIOUS
<1>1. PICK m \in Nat \ T : \A y \in Nat \ T : ~ (<<y, m>> \in OpToRel(<, Nat))
  BY NatLessThanWellFounded, WFMin
<1>2. m # 0 /\ m - 1 \in Nat
  OBVIOUS
<1>3. <<m - 1, m>> \in OpToRel(<, Nat)
  BY <1>2 DEF OpToRel
<1>4. m - 1 \in T
  BY <1>1, <1>2, <1>3
<1>5. QED
  BY <1>2, <1>4

(* h starts with v and goes on by F.                                        *)
Iterates(h, v, F) == h[0] = v /\ \A n \in Nat : n + 1 \in DOMAIN h => h[n + 1] = F[n][h[n]]

(* There is such a function: what its beginnings, which are unique, have at *)
(* their ends.                                                              *)
LEMMA IterationExists ==
  ASSUME NEW V, NEW v \in V, NEW F \in [Nat -> [V -> V]]
  PROVE  \E h \in [Nat -> V] : Iterates(h, v, F)
<1> DEFINE Part(n) == {h \in [0 .. n -> V] : Iterates(h, v, F)}
           T == {n \in Nat : Part(n) # {}}
           U == {n \in Nat : \A i, j \in Nat : n <= i /\ n <= j =>
                   \A g \in Part(i), h \in Part(j) : g[n] = h[n]}
           At(n) == CHOOSE g \in Part(n) : TRUE
           h == [n \in Nat |-> At(n)[n]]
<1>1. 0 \in T
  <2>1. [i \in 0 .. 0 |-> v] \in Part(0)
    BY DEF Iterates
  <2>2. QED
    BY <2>1
<1>2. ASSUME NEW n \in T PROVE n + 1 \in T
  <2>1. PICK g \in [0 .. n -> V] : Iterates(g, v, F)
    BY <1>2
  <2>2. F[n] \in [V -> V] /\ g[n] \in V
    OBVIOUS
  <2> DEFINE e == [i \in 0 .. n + 1 |-> IF i = n + 1 THEN F[n][g[n]] ELSE g[i]]
  <2>3. e \in [0 .. n + 1 -> V]
    BY <2>2
  <2>4. Iterates(e, v, F)
    BY <2>1 DEF Iterates
  <2>5. QED
    BY <2>3, <2>4
<1>3. T = Nat
  <2> HIDE DEF T
  <2>1. T \in SUBSET Nat
    BY DEF T
  <2>2. QED
    BY <1>1, <1>2, <2>1, NatInd
<1>4. 0 \in U
  BY DEF Iterates
<1>5. ASSUME NEW n \in U PROVE n + 1 \in U
  <2> SUFFICES ASSUME NEW i \in Nat, NEW j \in Nat, n + 1 <= i, n + 1 <= j,
                      NEW g \in Part(i), NEW k \in Part(j)
               PROVE  g[n + 1] = k[n + 1]
    BY <1>5
  <2>1. n \in Nat /\ \A x, y \in Nat : n <= x /\ n <= y => \A a \in Part(x), b \in Part(y) : a[n] = b[n]
    BY <1>5
  <2>2. g \in [0 .. i -> V] /\ Iterates(g, v, F) /\ k \in [0 .. j -> V] /\ Iterates(k, v, F)
    OBVIOUS
  <2> HIDE DEF Part, U
  <2>3. n <= i /\ n <= j
    BY <2>1
  <2>4. g[n] = k[n]
    BY <2>1, <2>3
  <2>5. QED
    BY <2>1, <2>2, <2>4 DEF Iterates
<1>6. U = Nat
  <2> HIDE DEF U
  <2>1. U \in SUBSET Nat
    BY DEF U
  <2>2. QED
    BY <1>4, <1>5, <2>1, NatInd
<1>7. \A n \in Nat : At(n) \in Part(n)
  BY <1>3
<1>8. \A n \in Nat : At(n) \in [0 .. n -> V] /\ Iterates(At(n), v, F)
  BY <1>7
<1>9. \A n \in Nat : \A i, j \in Nat : n <= i /\ n <= j => \A g \in Part(i), k \in Part(j) : g[n] = k[n]
  BY <1>6
<1> HIDE DEF T, U, Part, At
<1>10. h \in [Nat -> V]
  BY <1>8
<1>11. h[0] = v
  BY <1>8 DEF Iterates
<1>12. ASSUME NEW n \in Nat PROVE h[n + 1] = F[n][h[n]]
  <2>0. n + 1 \in Nat /\ n + 1 \in 0 .. n + 1 /\ n <= n + 1 /\ n <= n
    OBVIOUS
  <2>1. At(n + 1)[n + 1] = F[n][At(n + 1)[n]]
    <3>1. At(n + 1) \in [0 .. n + 1 -> V] /\ Iterates(At(n + 1), v, F)
      BY <1>8, <2>0
    <3>2. QED
      BY <2>0, <3>1 DEF Iterates
  <2>2. At(n + 1)[n] = At(n)[n]
    BY <1>7, <1>9, <2>0
  <2>3. QED
    BY <2>1, <2>2
<1>13. QED
  BY <1>10, <1>11, <1>12 DEF Iterates

LEMMA IterationUpTo ==
  ASSUME NEW V, NEW v \in V, NEW m \in Nat, NEW F \in [0 .. m - 1 -> [V -> V]]
  PROVE  \E h \in [0 .. m -> V] : Iterates(h, v, F)
<1> DEFINE G == [n \in Nat |-> IF n \in 0 .. m - 1 THEN F[n] ELSE [x \in V |-> x]]
<1>1. G \in [Nat -> [V -> V]]
  OBVIOUS
<1>2. \A n \in 0 .. m - 1 : n \in Nat /\ G[n] = F[n]
  OBVIOUS
<1> HIDE DEF G
<1>3. PICK g \in [Nat -> V] : Iterates(g, v, G)
  BY <1>1, IterationExists
<1>4. g[0] = v /\ \A n \in Nat : g[n + 1] = G[n][g[n]]
  BY <1>3 DEF Iterates
<1> DEFINE h == [n \in 0 .. m |-> g[n]]
<1>5. h \in [0 .. m -> V] /\ h[0] = v /\ \A n \in 0 .. m : h[n] = g[n]
  BY <1>4
<1> HIDE DEF h
<1>6. ASSUME NEW n \in Nat, n + 1 \in 0 .. m PROVE h[n + 1] = F[n][h[n]]
  <2>1. n \in 0 .. m /\ n \in 0 .. m - 1
    BY <1>6
  <2>2. QED
    BY <1>2, <1>4, <1>5, <1>6, <2>1
<1>7. QED
  BY <1>5, <1>6 DEF Iterates

-----------------------------------------------------------------------------
(* Ways through a tree                                                      *)

Hash == Seq(Nat)
Sibling == [hash : Hash, is_left : BOOLEAN]

Up(h, s) == IF s.is_left THEN merkle_node(s.hash, h) ELSE merkle_node(h, s.hash)

LEMMA NodeIsHash == ASSUME NEW l \in Hash, NEW r \in Hash PROVE merkle_node(l, r) \in Hash
BY DEF Hash, merkle_node

LEMMA UpIsHash == ASSUME NEW h \in Hash, NEW s \in Sibling PROVE Up(h, s) \in Hash
BY NodeIsHash DEF Sibling, Up

LEMMA HalvedIs ==
  ASSUME NEW pos \in Nat
  PROVE  /\ halved(pos) \in [Nat -> Nat] /\ halved(pos)[0] = pos
         /\ \A n \in Nat : halved(pos)[n + 1] = halved(pos)[n] \div 2
<1> DEFINE F == [n \in Nat |-> [x \in Nat |-> x \div 2]]
           E(g) == g = [n \in Nat |-> IF n = 0 THEN pos ELSE g[n - 1] \div 2]
<1>1. F \in [Nat -> [Nat -> Nat]]
  OBVIOUS
<1>2. PICK h \in [Nat -> Nat] : Iterates(h, pos, F)
  BY <1>1, IterationExists
<1>3. h[0] = pos /\ \A n \in Nat : h[n + 1] = h[n] \div 2
  <2>1. h[0] = pos /\ \A n \in Nat : n + 1 \in DOMAIN h => h[n + 1] = F[n][h[n]]
    BY <1>2 DEF Iterates
  <2>2. \A n \in Nat : n + 1 \in DOMAIN h /\ F[n][h[n]] = h[n] \div 2
    OBVIOUS
  <2>3. QED
    BY <2>1, <2>2
<1>4. E(h)
  <2>1. ASSUME NEW n \in Nat PROVE h[n] = IF n = 0 THEN pos ELSE h[n - 1] \div 2
    <3>1. CASE n # 0
      <4>1. n - 1 \in Nat /\ (n - 1) + 1 = n
        BY <3>1
      <4>2. QED
        BY <1>3, <3>1, <4>1
    <3>2. QED
      BY <1>3, <3>1
  <2>2. QED
    BY <2>1
<1>5. E(CHOOSE g : E(g))
  BY <1>4
<1> DEFINE f == halved(pos)
<1>6. f = [n \in Nat |-> IF n = 0 THEN pos ELSE f[n - 1] \div 2]
  BY <1>5 DEF halved
<1> HIDE DEF f
<1>7. f[0] = pos /\ \A n \in Nat : f[n + 1] = f[n] \div 2
  BY <1>6
<1>8. f = h
  <2> DEFINE T == {n \in Nat : f[n] = h[n]}
  <2>1. 0 \in T /\ \A n \in T : n + 1 \in T
    BY <1>3, <1>7
  <2>2. T = Nat
    <3> HIDE DEF T
    <3>1. T \in SUBSET Nat
      BY DEF T
    <3>2. QED
      BY <2>1, <3>1, NatInd
  <2>3. QED
    BY <1>6, <2>2
<1>9. QED
  BY <1>3, <1>8 DEF f

LEMMA ClimbIs ==
  ASSUME NEW leaf \in Hash, NEW siblings \in Seq(Sibling)
  PROVE  \E h \in [0 .. Len(siblings) -> Hash] :
           /\ h[0] = leaf /\ climb(leaf, siblings) = h[Len(siblings)]
           /\ \A n \in 0 .. Len(siblings) - 1 : h[n + 1] = Up(h[n], siblings[n + 1])
<1> DEFINE m == Len(siblings)
           F == [n \in 0 .. m - 1 |-> [x \in Hash |-> Up(x, siblings[n + 1])]]
           E(g) == g = [n \in 0 .. m |-> IF n = 0 THEN leaf
                                        ELSE IF siblings[n].is_left THEN merkle_node(siblings[n].hash, g[n - 1])
                                        ELSE merkle_node(g[n - 1], siblings[n].hash)]
<1>1. m \in Nat /\ \A n \in 0 .. m - 1 : siblings[n + 1] \in Sibling
  OBVIOUS
<1>2. F \in [0 .. m - 1 -> [Hash -> Hash]]
  BY <1>1, UpIsHash
<1>3. PICK h \in [0 .. m -> Hash] : Iterates(h, leaf, F)
  <2> HIDE DEF m, F
  <2>1. QED
    BY <1>1, <1>2, IterationUpTo
<1>4. h[0] = leaf /\ \A n \in 0 .. m - 1 : h[n + 1] = Up(h[n], siblings[n + 1])
  <2>1. \A n \in 0 .. m - 1 : n \in Nat /\ n + 1 \in DOMAIN h /\ F[n][h[n]] = Up(h[n], siblings[n + 1])
    BY <1>1
  <2> HIDE DEF F
  <2>2. QED
    BY <1>3, <2>1 DEF Iterates
<1> HIDE DEF F
<1>5. ASSUME NEW n \in 0 .. m PROVE h[n] = IF n = 0 THEN leaf ELSE Up(h[n - 1], siblings[n])
  <2>1. CASE n # 0
    <3>1. n - 1 \in 0 .. m - 1 /\ (n - 1) + 1 = n
      BY <1>1, <2>1
    <3>2. QED
      BY <1>4, <2>1, <3>1
  <2>2. QED
    BY <1>4, <2>1
<1>6. E(h)
  <2>1. h = [n \in 0 .. m |-> IF n = 0 THEN leaf ELSE Up(h[n - 1], siblings[n])]
    BY <1>5
  <2>2. QED
    BY <2>1 DEF Up
<1>7. E(CHOOSE g : E(g))
  BY <1>6
<1> DEFINE f == CHOOSE g : E(g)
<1>8. climb(leaf, siblings) = f[m]
  BY DEF climb
<1>9. f = [n \in 0 .. m |-> IF n = 0 THEN leaf ELSE Up(f[n - 1], siblings[n])]
  BY <1>7 DEF Up
<1> HIDE DEF f, E, m
<1>10. \A n \in 0 .. m : f[n] = h[n]
  <2> DEFINE T == {n \in Nat : n \in 0 .. m => f[n] = h[n]}
  <2>1. 0 \in T
    BY <1>1, <1>4, <1>9
  <2>2. ASSUME NEW n \in T PROVE n + 1 \in T
    <3> SUFFICES ASSUME n + 1 \in 0 .. m PROVE f[n + 1] = h[n + 1]
      BY <2>2
    <3>1. n \in 0 .. m - 1 /\ n \in 0 .. m /\ n + 1 # 0 /\ (n + 1) - 1 = n
      BY <1>1
    <3>2. f[n] = h[n]
      BY <3>1
    <3>3. f[n + 1] = Up(f[n], siblings[n + 1])
      BY <1>9, <3>1
    <3>4. QED
      BY <1>4, <3>1, <3>2, <3>3
  <2>3. T = Nat
    <3> HIDE DEF T
    <3>1. T \in SUBSET Nat
      BY DEF T
    <3>2. QED
      BY <2>1, <2>2, <3>1, NatInd
  <2>4. QED
    BY <1>1, <2>3
<1>11. f[m] = h[m]
  BY <1>1, <1>10
<1>12. QED
  BY <1>4, <1>8, <1>11 DEF m

LEMMA ClimbNothing == ASSUME NEW leaf \in Hash PROVE climb(leaf, << >>) = leaf
<1>1. ASSUME NEW e \in Seq(Sibling), Len(e) = 0 PROVE climb(leaf, e) = leaf
  <2>1. PICK h \in [0 .. Len(e) -> Hash] :
          /\ h[0] = leaf /\ climb(leaf, e) = h[Len(e)]
          /\ \A n \in 0 .. Len(e) - 1 : h[n + 1] = Up(h[n], e[n + 1])
    BY ClimbIs
  <2>2. QED
    BY <1>1, <2>1
<1>2. << >> \in Seq(Sibling) /\ Len(<< >>) = 0
  OBVIOUS
<1>3. QED
  BY <1>1, <1>2

(* One more sibling takes the way one node further.                         *)
LEMMA ClimbFurther ==
  ASSUME NEW leaf \in Hash, NEW siblings \in Seq(Sibling), NEW s \in Sibling
  PROVE  climb(leaf, Append(siblings, s)) = Up(climb(leaf, siblings), s)
<1> DEFINE m == Len(siblings)
           t == Append(siblings, s)
<1>1. /\ m \in Nat /\ t \in Seq(Sibling) /\ Len(t) = m + 1 /\ t[m + 1] = s
      /\ \A n \in 0 .. m - 1 : t[n + 1] = siblings[n + 1]
  OBVIOUS
<1>2. PICK h \in [0 .. m -> Hash] :
        /\ h[0] = leaf /\ climb(leaf, siblings) = h[m]
        /\ \A n \in 0 .. m - 1 : h[n + 1] = Up(h[n], siblings[n + 1])
  BY ClimbIs
<1> HIDE DEF t
<1>3. PICK k \in [0 .. m + 1 -> Hash] :
        /\ k[0] = leaf /\ climb(leaf, t) = k[m + 1]
        /\ \A n \in 0 .. (m + 1) - 1 : k[n + 1] = Up(k[n], t[n + 1])
  <2>1. \E k \in [0 .. Len(t) -> Hash] :
          /\ k[0] = leaf /\ climb(leaf, t) = k[Len(t)]
          /\ \A n \in 0 .. Len(t) - 1 : k[n + 1] = Up(k[n], t[n + 1])
    BY <1>1, ClimbIs
  <2>2. QED
    BY <1>1, <2>1
<1> HIDE DEF m
<1>4. \A n \in 0 .. m : n \in 0 .. (m + 1) - 1
  BY <1>1
<1> DEFINE T == {n \in Nat : n \in 0 .. m => k[n] = h[n]}
<1>5. 0 \in T
  BY <1>2, <1>3
<1>6. ASSUME NEW n \in T PROVE n + 1 \in T
  <2> SUFFICES ASSUME n + 1 \in 0 .. m PROVE k[n + 1] = h[n + 1]
    BY <1>6
  <2>1. n \in 0 .. m - 1 /\ n \in 0 .. m
    BY <1>1
  <2>2. QED
    BY <1>1, <1>2, <1>3, <1>4, <2>1
<1>7. T = Nat
  <2> HIDE DEF T
  <2>1. T \in SUBSET Nat
    BY DEF T
  <2>2. QED
    BY <1>5, <1>6, <2>1, NatInd
<1>8. k[m] = h[m]
  BY <1>1, <1>7
<1>9. m \in 0 .. (m + 1) - 1
  BY <1>1
<1>10. k[m + 1] = Up(h[m], s)
  BY <1>1, <1>3, <1>8, <1>9
<1>11. QED
  BY <1>2, <1>3, <1>10 DEF t

-----------------------------------------------------------------------------
(* Hashes in order                                                          *)

LEMMA LeastOf ==
  ASSUME NEW S \in SUBSET Nat, S # {}
  PROVE  \E m \in S : \A k \in S : m <= k
<1>1. PICK m \in S : \A y \in S : ~ (<<y, m>> \in OpToRel(<, Nat))
  BY NatLessThanWellFounded, WFMin
<1>2. ASSUME NEW k \in S PROVE m <= k
  <2>1. k < m => <<k, m>> \in OpToRel(<, Nat)
    BY DEF OpToRel
  <2>2. ~ (<<k, m>> \in OpToRel(<, Nat))
    BY <1>1
  <2>3. ~ (k < m)
    BY <2>1, <2>2
  <2>4. k \in Nat /\ m \in Nat
    OBVIOUS
  <2>5. QED
    BY <2>3, <2>4
<1>3. QED
  BY <1>2

LEMMA BeforeTransitive ==
  ASSUME NEW s \in Hash, NEW t \in Hash, NEW u \in Hash, Before(s, t), Before(t, u)
  PROVE  Before(s, u)
<1>0. /\ Len(s) \in Nat /\ Len(t) \in Nat /\ Len(u) \in Nat
      /\ \A i \in 1 .. Len(s) : s[i] \in Nat
      /\ \A i \in 1 .. Len(t) : t[i] \in Nat
      /\ \A i \in 1 .. Len(u) : u[i] \in Nat
  BY DEF Hash
<1>1. PICK i \in 1 .. Len(t) : /\ \A l \in 1 .. (i - 1) : l <= Len(s) /\ s[l] = t[l]
                               /\ i > Len(s) \/ s[i] < t[i]
  BY DEF Before
<1>2. PICK j \in 1 .. Len(u) : /\ \A l \in 1 .. (j - 1) : l <= Len(t) /\ t[l] = u[l]
                               /\ j > Len(t) \/ t[j] < u[j]
  BY DEF Before
<1>3. CASE i < j
  <2>1. i \in 1 .. (j - 1) /\ i \in 1 .. Len(u) /\ \A l \in 1 .. (i - 1) : l \in 1 .. (j - 1)
    BY <1>0, <1>3
  <2>2. t[i] = u[i] /\ \A l \in 1 .. (i - 1) : l <= Len(s) /\ s[l] = u[l]
    BY <1>1, <1>2, <2>1
  <2>3. QED
    BY <1>1, <2>1, <2>2 DEF Before
<1>4. CASE i = j
  <2>1. t[i] < u[i] /\ i \in 1 .. Len(u) /\ \A l \in 1 .. (i - 1) : l <= Len(s) /\ s[l] = u[l]
    BY <1>0, <1>1, <1>2, <1>4
  <2>2. i > Len(s) \/ s[i] < u[i]
    <3>1. CASE i <= Len(s)
      <4>1. s[i] \in Nat /\ t[i] \in Nat /\ u[i] \in Nat /\ s[i] < t[i]
        BY <1>0, <1>1, <2>1, <3>1
      <4>2. QED
        BY <2>1, <4>1
    <3>2. QED
      BY <1>0, <3>1
  <2>3. QED
    BY <2>1, <2>2 DEF Before
<1>5. CASE j < i
  <2>1. j \in 1 .. (i - 1) /\ j <= Len(t) /\ \A l \in 1 .. (j - 1) : l \in 1 .. (i - 1)
    BY <1>0, <1>5
  <2>2. s[j] = t[j] /\ t[j] < u[j] /\ \A l \in 1 .. (j - 1) : l <= Len(s) /\ s[l] = u[l]
    BY <1>0, <1>1, <1>2, <2>1
  <2>3. QED
    BY <2>2 DEF Before
<1>6. QED
  BY <1>0, <1>3, <1>4, <1>5

LEMMA BeforeTotal ==
  ASSUME NEW s \in Hash, NEW t \in Hash, s # t
  PROVE  Before(s, t) \/ Before(t, s)
<1>0. /\ Len(s) \in Nat /\ Len(t) \in Nat
      /\ s = [i \in 1 .. Len(s) |-> s[i]] /\ t = [i \in 1 .. Len(t) |-> t[i]]
      /\ \A i \in 1 .. Len(s) : s[i] \in Nat
      /\ \A i \in 1 .. Len(t) : t[i] \in Nat
  BY DEF Hash
<1> DEFINE Same(i) == i <= Len(s) /\ i <= Len(t) /\ s[i] = t[i]
           D == {i \in Nat : i # 0 /\ ~ Same(i)}
<1>1. D \in SUBSET Nat /\ Len(s) + 1 \in D
  BY <1>0
<1> HIDE DEF D
<1>2. PICK i \in D : \A k \in D : i <= k
  BY <1>1, LeastOf
<1>3. i \in Nat /\ i # 0 /\ ~ Same(i) /\ \A l \in 1 .. (i - 1) : Same(l)
  BY <1>2 DEF D
<1>4. CASE i <= Len(s) /\ i <= Len(t)
  <2>1. s[i] < t[i] \/ t[i] < s[i]
    BY <1>0, <1>3, <1>4
  <2>2. QED
    BY <1>0, <1>3, <1>4, <2>1 DEF Before
<1>5. CASE i > Len(s) /\ i <= Len(t)
  BY <1>0, <1>3, <1>5 DEF Before
<1>6. CASE i <= Len(s) /\ i > Len(t)
  BY <1>0, <1>3, <1>6 DEF Before
<1>7. CASE i > Len(s) /\ i > Len(t)
  <2>1. Len(s) = i - 1 /\ Len(t) = i - 1
    <3>1. Len(s) >= i - 1 /\ Len(t) >= i - 1
      <4>1. CASE i = 1
        BY <1>0, <4>1
      <4>2. CASE i > 1
        <5>1. i - 1 \in 1 .. (i - 1)
          BY <1>3, <4>2
        <5>2. QED
          BY <1>3, <5>1
      <4>3. QED
        BY <1>3, <4>1, <4>2
    <3>2. QED
      BY <1>0, <1>3, <1>7, <3>1
  <2>2. \A l \in 1 .. Len(s) : s[l] = t[l]
    BY <1>3, <2>1
  <2>3. QED
    BY <1>0, <2>1, <2>2
<1>8. QED
  BY <1>0, <1>3, <1>4, <1>5, <1>6, <1>7

InOrder(q, S) ==
  /\ q \in [1 .. Cardinality(S) -> S] /\ {q[i] : i \in 1 .. Cardinality(S)} = S
  /\ \A i, j \in 1 .. Cardinality(S) : i < j => Before(q[i], q[j])

(* A finite set of hashes that is not empty has a last one.                 *)
LEMMA LastHash ==
  ASSUME NEW S \in SUBSET Hash, IsFiniteSet(S), S # {}
  PROVE  \E m \in S : \A h \in S \ {m} : Before(h, m)
<1> DEFINE Last(T) == \E m \in T : \A h \in T \ {m} : Before(h, m)
           N == {n \in Nat : \A T \in SUBSET Hash : IsFiniteSet(T) /\ Cardinality(T) = n + 1 => Last(T)}
<1>1. 0 \in N
  <2> SUFFICES ASSUME NEW T \in SUBSET Hash, IsFiniteSet(T), Cardinality(T) = 1 PROVE Last(T)
    OBVIOUS
  <2>1. PICK x : T = {x}
    BY FS_Singleton
  <2>2. QED
    BY <2>1
<1>2. ASSUME NEW n \in N PROVE n + 1 \in N
  <2> SUFFICES ASSUME NEW T \in SUBSET Hash, IsFiniteSet(T), Cardinality(T) = (n + 1) + 1 PROVE Last(T)
    BY <1>2
  <2>1. n \in Nat /\ \A R \in SUBSET Hash : IsFiniteSet(R) /\ Cardinality(R) = n + 1 => Last(R)
    BY <1>2
  <2>2. T # {}
    BY <2>1, FS_EmptySet
  <2>3. PICK x \in T : TRUE
    BY <2>2
  <2>4. IsFiniteSet(T \ {x}) /\ Cardinality(T \ {x}) = Cardinality(T) - 1
    BY FS_RemoveElement
  <2>5. Last(T \ {x})
    BY <2>1, <2>4
  <2>6. PICK m \in T \ {x} : \A h \in (T \ {x}) \ {m} : Before(h, m)
    BY <2>5
  <2>7. CASE Before(x, m)
    <3>1. \A h \in T \ {m} : Before(h, m)
      BY <2>6, <2>7
    <3>2. QED
      BY <3>1
  <2>8. CASE ~ Before(x, m)
    <3>1. Before(m, x)
      BY <2>6, <2>8, BeforeTotal
    <3>2. \A h \in T \ {x} : Before(h, x)
      BY <2>6, <3>1, BeforeTransitive
    <3>3. QED
      BY <3>2
  <2>9. QED
    BY <2>7, <2>8
<1>3. N = Nat
  <2> HIDE DEF N
  <2>1. N \in SUBSET Nat
    BY DEF N
  <2>2. QED
    BY <1>1, <1>2, <2>1, NatInd
<1>4. Cardinality(S) \in Nat /\ Cardinality(S) # 0
  BY FS_CardinalityType, FS_EmptySet
<1>5. Cardinality(S) - 1 \in N /\ (Cardinality(S) - 1) + 1 = Cardinality(S)
  BY <1>3, <1>4
<1>6. QED
  BY <1>5

LEMMA OrderExists ==
  ASSUME NEW S \in SUBSET Hash, IsFiniteSet(S)
  PROVE  \E q : InOrder(q, S)
<1> DEFINE N == {n \in Nat : \A T \in SUBSET Hash : IsFiniteSet(T) /\ Cardinality(T) = n => \E q : InOrder(q, T)}
<1>1. 0 \in N
  <2> SUFFICES ASSUME NEW T \in SUBSET Hash, IsFiniteSet(T), Cardinality(T) = 0 PROVE \E q : InOrder(q, T)
    OBVIOUS
  <2>1. T = {}
    BY FS_EmptySet
  <2>2. InOrder([i \in 1 .. 0 |-> << >>], T)
    BY <2>1 DEF InOrder
  <2>3. QED
    BY <2>2
<1>2. ASSUME NEW n \in N PROVE n + 1 \in N
  <2> SUFFICES ASSUME NEW T \in SUBSET Hash, IsFiniteSet(T), Cardinality(T) = n + 1 PROVE \E q : InOrder(q, T)
    BY <1>2
  <2>1. n \in Nat /\ \A R \in SUBSET Hash : IsFiniteSet(R) /\ Cardinality(R) = n => \E q : InOrder(q, R)
    BY <1>2
  <2>2. T # {}
    BY <2>1, FS_EmptySet
  <2>3. PICK m \in T : \A h \in T \ {m} : Before(h, m)
    BY <2>2, LastHash
  <2> DEFINE R == T \ {m}
  <2>4. IsFiniteSet(R) /\ Cardinality(R) = n
    <3>1. IsFiniteSet(R) /\ Cardinality(R) = Cardinality(T) - 1
      BY FS_RemoveElement
    <3>2. QED
      BY <2>1, <3>1
  <2>5. PICK q : InOrder(q, R)
    BY <2>1, <2>4
  <2>6. /\ q \in [1 .. n -> R] /\ {q[i] : i \in 1 .. n} = R
        /\ \A i, j \in 1 .. n : i < j => Before(q[i], q[j])
    BY <2>4, <2>5 DEF InOrder
  <2> DEFINE e == [i \in 1 .. n + 1 |-> IF i = n + 1 THEN m ELSE q[i]]
  <2>7. /\ \A i \in 1 .. n : i \in 1 .. n + 1 /\ e[i] = q[i] /\ e[i] \in R
        /\ n + 1 \in 1 .. n + 1 /\ e[n + 1] = m
        /\ \A i \in 1 .. n + 1 : i \in 1 .. n \/ i = n + 1
        /\ DOMAIN e = 1 .. n + 1
    BY <2>1, <2>6
  <2>8. e \in [1 .. n + 1 -> T]
    BY <2>6
  <2> HIDE DEF e
  <2>9. {e[i] : i \in 1 .. n + 1} = T
    <3>1. \A i \in 1 .. n + 1 : e[i] \in T
      BY <2>8
    <3>2. \A x \in T : \E i \in 1 .. n + 1 : x = e[i]
      BY <2>6, <2>7
    <3>3. QED
      BY <3>1, <3>2
  <2>10. ASSUME NEW i \in 1 .. n + 1, NEW j \in 1 .. n + 1, i < j PROVE Before(e[i], e[j])
    <3>1. i \in 1 .. n
      BY <2>1, <2>10
    <3>2. CASE j \in 1 .. n
      BY <2>6, <2>7, <2>10, <3>1, <3>2
    <3>3. CASE j = n + 1
      BY <2>3, <2>7, <3>1, <3>3
    <3>4. QED
      BY <2>7, <3>2, <3>3
  <2>11. InOrder(e, T)
    BY <2>8, <2>9, <2>10 DEF InOrder
  <2>12. QED
    BY <2>11
<1>3. N = Nat
  <2> HIDE DEF N
  <2>1. N \in SUBSET Nat
    BY DEF N
  <2>2. QED
    BY <1>1, <1>2, <2>1, NatInd
<1>4. Cardinality(S) \in Nat
  BY FS_CardinalityType
<1>5. QED
  BY <1>3, <1>4

LEMMA SortedIs ==
  ASSUME NEW S \in SUBSET Hash, IsFiniteSet(S)
  PROVE  InOrder(Sorted(S), S)
<1>1. \E q \in [1 .. Cardinality(S) -> S] :
        /\ {q[i] : i \in 1 .. Cardinality(S)} = S
        /\ \A i, j \in 1 .. Cardinality(S) : i < j => Before(q[i], q[j])
  BY OrderExists DEF InOrder
<1>2. QED
  BY <1>1 DEF Sorted, InOrder

-----------------------------------------------------------------------------
(* IntentTree                                                               *)

Above(l) == IF Len(l) > 1 THEN NextLayer(l) ELSE l

LEMMA AboveIs ==
  ASSUME NEW l \in Seq(Hash), Len(l) > 0
  PROVE  /\ Above(l) \in Seq(Hash)
         /\ Len(Above(l)) = (Len(l) + 1) \div 2
         /\ \A i \in 1 .. (Len(l) + 1) \div 2 :
              Above(l)[i] = IF 2 * i <= Len(l) THEN merkle_node(l[2 * i - 1], l[2 * i]) ELSE l[2 * i - 1]
<1> DEFINE m == Len(l)
           k == (m + 1) \div 2
<1>0. m \in Nat /\ m > 0 /\ k \in Nat /\ \A i \in 1 .. m : l[i] \in Hash
  OBVIOUS
<1>1. CASE m > 1
  <2>1. ASSUME NEW i \in 1 .. k
        PROVE  (IF 2 * i <= m THEN merkle_node(l[2 * i - 1], l[2 * i]) ELSE l[2 * i - 1]) \in Hash
    <3>1. 2 * i - 1 \in 1 .. m /\ (2 * i <= m => 2 * i \in 1 .. m)
      BY <1>0
    <3>2. QED
      BY <1>0, <3>1, NodeIsHash
  <2>2. Above(l) = [i \in 1 .. k |-> IF 2 * i <= m THEN merkle_node(l[2 * i - 1], l[2 * i]) ELSE l[2 * i - 1]]
    BY <1>1 DEF Above, NextLayer
  <2> HIDE DEF m, k
  <2>3. Above(l) \in Seq(Hash) /\ Len(Above(l)) = k
    BY <1>0, <2>1, <2>2
  <2>4. QED
    BY <2>2, <2>3 DEF m, k
<1>2. CASE m = 1
  <2>1. k = 1 /\ Above(l) = l
    BY <1>2 DEF Above
  <2>2. \A i \in 1 .. k : i = 1 /\ ~ (2 * i <= m) /\ 2 * i - 1 = 1
    BY <1>2, <2>1
  <2>3. QED
    BY <1>2, <2>1, <2>2
<1>3. m > 1 \/ m = 1
  <2> HIDE DEF m
  <2>1. QED
    BY <1>0
<1>4. QED
  BY <1>1, <1>2, <1>3

LEMMA LayersAre ==
  ASSUME NEW S \in SUBSET Hash, IsFiniteSet(S), S # {}
  PROVE  /\ \A n \in Nat : layers(S)[n] \in Seq(Hash) /\ Len(layers(S)[n]) > 0
         /\ layers(S)[0] = Sorted(S)
         /\ \A n \in Nat : layers(S)[n + 1] = Above(layers(S)[n])
<1> DEFINE V == {l \in Seq(Hash) : Len(l) > 0}
           q == Sorted(S)
           F == [n \in Nat |-> [l \in V |-> Above(l)]]
           E(g) == g = [n \in Nat |-> IF n = 0 THEN q
                                     ELSE IF Len(g[n - 1]) > 1 THEN NextLayer(g[n - 1]) ELSE g[n - 1]]
<1>1. q \in V
  <2>1. Cardinality(S) \in Nat /\ Cardinality(S) # 0
    BY FS_CardinalityType, FS_EmptySet
  <2>2. q \in [1 .. Cardinality(S) -> Hash]
    BY SortedIs DEF InOrder
  <2> HIDE DEF q
  <2>3. q \in Seq(Hash) /\ Len(q) = Cardinality(S)
    BY <2>1, <2>2
  <2>4. QED
    BY <2>1, <2>3
<1> HIDE DEF q
<1>2. F \in [Nat -> [V -> V]]
  <2>1. ASSUME NEW l \in V PROVE Above(l) \in V
    <3>1. Above(l) \in Seq(Hash) /\ Len(Above(l)) = (Len(l) + 1) \div 2
      BY AboveIs
    <3>2. Len(l) \in Nat /\ Len(l) > 0
      OBVIOUS
    <3>3. QED
      BY <3>1, <3>2
  <2>2. QED
    BY <2>1
<1> HIDE DEF V
<1>3. PICK h \in [Nat -> V] : Iterates(h, q, F)
  <2> HIDE DEF F
  <2>1. QED
    BY <1>1, <1>2, IterationExists
<1>4. h[0] = q /\ \A n \in Nat : h[n + 1] = Above(h[n])
  <2>1. h[0] = q /\ \A n \in Nat : n + 1 \in DOMAIN h => h[n + 1] = F[n][h[n]]
    BY <1>3 DEF Iterates
  <2>2. \A n \in Nat : n + 1 \in DOMAIN h /\ F[n][h[n]] = Above(h[n])
    OBVIOUS
  <2>3. QED
    BY <2>1, <2>2
<1> HIDE DEF F
<1>5. E(h)
  <2>1. ASSUME NEW n \in Nat PROVE h[n] = IF n = 0 THEN q ELSE Above(h[n - 1])
    <3>1. CASE n # 0
      <4>1. n - 1 \in Nat /\ (n - 1) + 1 = n
        BY <3>1
      <4>2. QED
        BY <1>4, <3>1, <4>1
    <3>2. QED
      BY <1>4, <3>1
  <2>2. h = [n \in Nat |-> IF n = 0 THEN q ELSE Above(h[n - 1])]
    BY <2>1
  <2>3. QED
    BY <2>2 DEF Above
<1>6. E(CHOOSE g : E(g))
  BY <1>5
<1> DEFINE f == layers(S)
<1>7. f = [n \in Nat |-> IF n = 0 THEN q ELSE Above(f[n - 1])]
  BY <1>6 DEF layers, q, Above
<1> HIDE DEF f, E
<1>8. f[0] = q /\ \A n \in Nat : f[n + 1] = Above(f[n])
  BY <1>7
<1>9. \A n \in Nat : f[n] = h[n]
  <2> DEFINE T == {n \in Nat : f[n] = h[n]}
  <2>1. 0 \in T /\ \A n \in T : n + 1 \in T
    BY <1>4, <1>8
  <2>2. T = Nat
    <3> HIDE DEF T
    <3>1. T \in SUBSET Nat
      BY DEF T
    <3>2. QED
      BY <2>1, <3>1, NatInd
  <2>3. QED
    BY <2>2
<1>10. \A n \in Nat : f[n] \in Seq(Hash) /\ Len(f[n]) > 0
  BY <1>9 DEF V
<1>11. QED
  BY <1>8, <1>10 DEF f, q

(* A layer of more than one is shorter than the one below it, so one is     *)
(* left after as many layers as there are leaves.                           *)
LEMMA OneRoot ==
  ASSUME NEW S \in SUBSET Hash, IsFiniteSet(S), S # {}
  PROVE  Cardinality(S) \in Nat /\ Len(layers(S)[Cardinality(S)]) = 1
<1> DEFINE ls == layers(S)
           c == Cardinality(S)
<1>1. c \in Nat /\ c # 0
  BY FS_CardinalityType, FS_EmptySet
<1>2. \A n \in Nat : /\ ls[n] \in Seq(Hash) /\ Len(ls[n]) \in Nat /\ Len(ls[n]) > 0
                     /\ ls[n + 1] = Above(ls[n])
  <2>1. \A n \in Nat : ls[n] \in Seq(Hash) /\ Len(ls[n]) > 0 /\ ls[n + 1] = Above(ls[n])
    BY LayersAre
  <2>2. \A l \in Seq(Hash) : Len(l) \in Nat
    OBVIOUS
  <2>3. QED
    BY <2>1, <2>2
<1>3. Len(ls[0]) = c
  <2> DEFINE q == Sorted(S)
  <2>1. q \in [1 .. c -> Hash] /\ ls[0] = q
    BY SortedIs, LayersAre DEF InOrder
  <2> HIDE DEF q, c
  <2>2. Len(q) = c
    BY <1>1, <2>1
  <2>3. QED
    BY <2>1, <2>2
<1>4. \A n \in Nat : Len(ls[n + 1]) = (Len(ls[n]) + 1) \div 2
  BY <1>2, AboveIs
<1> HIDE DEF ls, c
<1> DEFINE T == {n \in Nat : Len(ls[n]) = 1 \/ Len(ls[n]) + n <= c}
<1>5. 0 \in T
  BY <1>1, <1>3
<1>6. ASSUME NEW n \in T PROVE n + 1 \in T
  <2>1. /\ n \in Nat /\ Len(ls[n]) \in Nat /\ Len(ls[n]) > 0 /\ (Len(ls[n]) = 1 \/ Len(ls[n]) + n <= c)
        /\ Len(ls[n + 1]) = (Len(ls[n]) + 1) \div 2
    BY <1>2, <1>4, <1>6
  <2> DEFINE a == Len(ls[n])
             b == Len(ls[n + 1])
  <2>2. a \in Nat /\ a > 0 /\ (a = 1 \/ a + n <= c) /\ b = (a + 1) \div 2 /\ n \in Nat
    BY <2>1
  <2> HIDE DEF a, b
  <2>3. b = 1 \/ b + (n + 1) <= c
    BY <1>1, <2>2
  <2>4. n + 1 \in Nat
    BY <2>2
  <2>5. QED
    BY <2>3, <2>4 DEF b
<1>7. T = Nat
  <2> HIDE DEF T
  <2>1. T \in SUBSET Nat
    BY DEF T
  <2>2. QED
    BY <1>5, <1>6, <2>1, NatInd
<1>8. c \in T
  BY <1>1, <1>7
<1>9. Len(ls[c]) = 1
  BY <1>1, <1>2, <1>8
<1>10. QED
  BY <1>1, <1>9 DEF ls, c

StepUp(ls, p, n) ==
  IF beside(p) < Len(ls[n]) THEN <<[hash |-> ls[n][beside(p) + 1], is_left |-> p % 2 = 1]>> ELSE << >>

LEMMA StepUpIs ==
  ASSUME NEW ls, NEW n, ls[n] \in Seq(Hash), NEW p \in Nat
  PROVE  StepUp(ls, p, n) \in Seq(Sibling)
<1>1. beside(p) \in Nat /\ Len(ls[n]) \in Nat
  BY DEF beside
<1>2. CASE beside(p) < Len(ls[n])
  <2>1. beside(p) + 1 \in 1 .. Len(ls[n])
    BY <1>1, <1>2
  <2>2. ls[n][beside(p) + 1] \in Hash
    BY <2>1
  <2>3. [hash |-> ls[n][beside(p) + 1], is_left |-> p % 2 = 1] \in Sibling
    BY <2>2 DEF Sibling
  <2>4. QED
    BY <1>2, <2>3 DEF StepUp
<1>3. QED
  BY <1>2 DEF StepUp

(* The path so far and the next step of it.                                 *)
Longer(x, ls, p, n) == x \o StepUp(ls, p, n)

LEMMA PathIs ==
  ASSUME NEW ls, \A n \in Nat : ls[n] \in Seq(Hash), NEW start \in Nat
  PROVE  /\ path(ls, start)[0] = << >>
         /\ \A n \in Nat : /\ path(ls, start)[n] \in Seq(Sibling)
                           /\ path(ls, start)[n + 1] = Longer(path(ls, start)[n], ls, halved(start)[n], n)
<1> DEFINE V == Seq(Sibling)
           pos == halved(start)
           F == [n \in Nat |-> [x \in V |-> Longer(x, ls, pos[n], n)]]
           E(g) == g = [n \in Nat |-> IF n = 0 THEN << >>
                                     ELSE g[n - 1] \o (IF beside(pos[n - 1]) < Len(ls[n - 1])
                                            THEN <<[hash |-> ls[n - 1][beside(pos[n - 1]) + 1],
                                                    is_left |-> pos[n - 1] % 2 = 1]>>
                                            ELSE << >>)]
<1>1. << >> \in V
  OBVIOUS
<1>2. \A n \in Nat : StepUp(ls, pos[n], n) \in V
  BY HalvedIs, StepUpIs
<1>3. F \in [Nat -> [V -> V]]
  <2> HIDE DEF pos
  <2>1. \A n \in Nat : \A x \in V : Longer(x, ls, pos[n], n) \in V
    BY <1>2 DEF Longer
  <2>2. QED
    BY <2>1
<1> HIDE DEF pos
<1>4. PICK h \in [Nat -> V] : Iterates(h, << >>, F)
  <2> HIDE DEF F, V
  <2>1. QED
    BY <1>1, <1>3, IterationExists
<1>5. h[0] = << >> /\ \A n \in Nat : h[n + 1] = Longer(h[n], ls, pos[n], n)
  <2>1. h[0] = << >> /\ \A n \in Nat : n + 1 \in DOMAIN h => h[n + 1] = F[n][h[n]]
    BY <1>4 DEF Iterates
  <2>2. \A n \in Nat : n + 1 \in DOMAIN h /\ F[n][h[n]] = Longer(h[n], ls, pos[n], n)
    <3> HIDE DEF V
    <3>1. ASSUME NEW n \in Nat PROVE F[n][h[n]] = Longer(h[n], ls, pos[n], n)
      <4>1. h[n] \in V
        OBVIOUS
      <4>2. QED
        BY <4>1
    <3>2. \A n \in Nat : n + 1 \in DOMAIN h
      OBVIOUS
    <3>3. QED
      BY <3>1, <3>2
  <2>3. QED
    BY <2>1, <2>2
<1> HIDE DEF F, V
<1>6. E(h)
  <2>1. ASSUME NEW n \in Nat PROVE h[n] = IF n = 0 THEN << >> ELSE Longer(h[n - 1], ls, pos[n - 1], n - 1)
    <3>1. CASE n # 0
      <4>1. n - 1 \in Nat /\ (n - 1) + 1 = n
        BY <3>1
      <4>2. QED
        BY <1>5, <3>1, <4>1
    <3>2. QED
      BY <1>5, <3>1
  <2>2. h = [n \in Nat |-> IF n = 0 THEN << >> ELSE Longer(h[n - 1], ls, pos[n - 1], n - 1)]
    BY <2>1
  <2>3. QED
    BY <2>2 DEF Longer, StepUp
<1>7. E(CHOOSE g : E(g))
  BY <1>6
<1> DEFINE f == path(ls, start)
<1>8. f = [n \in Nat |-> IF n = 0 THEN << >> ELSE Longer(f[n - 1], ls, pos[n - 1], n - 1)]
  BY <1>7 DEF path, pos, Longer, StepUp
<1> HIDE DEF f, E
<1>9. f[0] = << >> /\ \A n \in Nat : f[n + 1] = Longer(f[n], ls, pos[n], n)
  <2>1. f[0] = << >>
    BY <1>8
  <2>2. ASSUME NEW n \in Nat PROVE f[n + 1] = Longer(f[n], ls, pos[n], n)
    <3>1. n + 1 \in Nat /\ n + 1 # 0 /\ (n + 1) - 1 = n
      OBVIOUS
    <3>2. QED
      BY <1>8, <3>1
  <2>3. QED
    BY <2>1, <2>2
<1>10. \A n \in Nat : f[n] = h[n]
  <2> DEFINE T == {n \in Nat : f[n] = h[n]}
  <2>1. 0 \in T /\ \A n \in T : n + 1 \in T
    <3>1. 0 \in T
      BY <1>5, <1>9
    <3>2. ASSUME NEW n \in T PROVE n + 1 \in T
      <4>1. n \in Nat /\ f[n] = h[n] /\ n + 1 \in Nat
        BY <3>2
      <4>2. f[n + 1] = h[n + 1]
        BY <1>5, <1>9, <4>1
      <4>3. QED
        BY <4>1, <4>2
    <3>3. QED
      BY <3>1, <3>2
  <2>2. T = Nat
    <3> HIDE DEF T
    <3>1. T \in SUBSET Nat
      BY DEF T
    <3>2. QED
      BY <2>1, <3>1, NatInd
  <2>3. QED
    BY <2>2
<1>11. \A n \in Nat : f[n] \in V
  BY <1>10
<1>12. QED
  BY <1>9, <1>11 DEF f, V, pos

(* One layer of the way up: the path so far leads to the node above.        *)
LEMMA OneLayerUp ==
  ASSUME NEW ls, NEW n \in Nat, ls[n] \in Seq(Hash), Len(ls[n]) > 0, ls[n + 1] = Above(ls[n]),
         NEW p \in Nat, p < Len(ls[n]), NEW leaf \in Hash, NEW siblings \in Seq(Sibling),
         climb(leaf, siblings) = ls[n][p + 1]
  PROVE  /\ p \div 2 < Len(ls[n + 1])
         /\ climb(leaf, siblings \o StepUp(ls, p, n)) = ls[n + 1][p \div 2 + 1]
<1> DEFINE l == ls[n]
           m == Len(l)
           j == p \div 2 + 1
<1>1. m \in Nat /\ l \in Seq(Hash)
  OBVIOUS
<1>2. /\ Len(ls[n + 1]) = (m + 1) \div 2
      /\ \A i \in 1 .. (m + 1) \div 2 :
           ls[n + 1][i] = IF 2 * i <= m THEN merkle_node(l[2 * i - 1], l[2 * i]) ELSE l[2 * i - 1]
  BY AboveIs
<1> HIDE DEF m
<1>3. p < m
  BY DEF m
<1>4. j \in 1 .. (m + 1) \div 2 /\ p \div 2 < (m + 1) \div 2
  BY <1>1, <1>3
<1>5. ls[n + 1][j] = IF 2 * j <= m THEN merkle_node(l[2 * j - 1], l[2 * j]) ELSE l[2 * j - 1]
  BY <1>2, <1>4
<1>6. CASE p % 2 = 1
  <2>1. beside(p) = p - 1 /\ 2 * j - 1 = p /\ 2 * j = p + 1 /\ 2 * j <= m /\ p - 1 < m /\ (p - 1) + 1 = p /\ p >= 1
    BY <1>1, <1>3, <1>6 DEF beside
  <2> DEFINE s == [hash |-> l[p], is_left |-> TRUE]
  <2>2. StepUp(ls, p, n) = <<s>>
    BY <1>6, <2>1 DEF StepUp, m
  <2>3. s \in Sibling /\ Up(l[p + 1], s) = merkle_node(l[p], l[p + 1])
    <3>1. p \in 1 .. m
      BY <1>1, <1>3, <2>1
    <3>2. l[p] \in Hash
      BY <1>1, <3>1 DEF m
    <3>3. QED
      BY <3>2 DEF Sibling, Up
  <2> HIDE DEF s, l
  <2>4. siblings \o <<s>> = Append(siblings, s)
    BY <2>3
  <2>5. climb(leaf, Append(siblings, s)) = Up(l[p + 1], s)
    BY <2>3, ClimbFurther DEF l
  <2>6. ls[n + 1][j] = merkle_node(l[p], l[p + 1])
    BY <1>5, <2>1
  <2>7. QED
    BY <1>2, <1>4, <2>2, <2>3, <2>4, <2>5, <2>6
<1>7. CASE p % 2 = 0 /\ p + 1 < m
  <2>1. beside(p) = p + 1 /\ 2 * j - 1 = p + 1 /\ 2 * j = p + 2 /\ 2 * j <= m /\ (p + 1) + 1 = p + 2
    BY <1>1, <1>3, <1>7 DEF beside
  <2> DEFINE s == [hash |-> l[p + 2], is_left |-> FALSE]
  <2>2. StepUp(ls, p, n) = <<s>>
    <3>1. beside(p) < Len(ls[n]) /\ ls[n][beside(p) + 1] = l[p + 2] /\ (p % 2 = 1) = FALSE
      BY <1>7, <2>1 DEF m
    <3>2. QED
      BY <3>1 DEF StepUp
  <2>3. s \in Sibling /\ Up(l[p + 1], s) = merkle_node(l[p + 1], l[p + 2])
    <3>1. p + 2 \in 1 .. m
      BY <1>1, <1>7
    <3>2. l[p + 2] \in Hash
      BY <1>1, <3>1 DEF m
    <3>3. QED
      BY <3>2 DEF Sibling, Up
  <2> HIDE DEF s, l
  <2>4. siblings \o <<s>> = Append(siblings, s)
    BY <2>3
  <2>5. climb(leaf, Append(siblings, s)) = Up(l[p + 1], s)
    BY <2>3, ClimbFurther DEF l
  <2>6. ls[n + 1][j] = merkle_node(l[p + 1], l[p + 2])
    BY <1>5, <2>1
  <2>7. QED
    BY <1>2, <1>4, <2>2, <2>3, <2>4, <2>5, <2>6
<1>8. CASE p % 2 = 0 /\ ~ (p + 1 < m)
  <2>1. beside(p) = p + 1 /\ 2 * j - 1 = p + 1 /\ ~ (2 * j <= m)
    BY <1>1, <1>3, <1>8 DEF beside
  <2>2. StepUp(ls, p, n) = << >>
    BY <1>8, <2>1 DEF StepUp, m
  <2>3. siblings \o << >> = siblings
    OBVIOUS
  <2>4. ls[n + 1][j] = l[p + 1]
    BY <1>5, <2>1
  <2>5. QED
    BY <1>2, <1>4, <2>2, <2>3, <2>4
<1>9. p % 2 = 0 \/ p % 2 = 1
  OBVIOUS
<1>10. QED
  BY <1>6, <1>7, <1>8, <1>9

(* Whoever holds the tree can prove each of its members.                    *)
LEMMA MemberProvable ==
  ASSUME NEW S \in SUBSET Hash, IsFiniteSet(S), NEW leaf \in S
  PROVE  verify_proof(prove(S, leaf), leaf, root(S))
<1> DEFINE ls == layers(S)
           c == Cardinality(S)
           found == CHOOSE i \in 1 .. Len(ls[0]) : ls[0][i] = leaf
           start == found - 1
           pos == halved(start)
           way == path(ls, start)
<1>1. /\ \A n \in Nat : ls[n] \in Seq(Hash) /\ Len(ls[n]) > 0 /\ ls[n + 1] = Above(ls[n])
      /\ ls[0] = Sorted(S) /\ c \in Nat /\ Len(ls[c]) = 1
  BY LayersAre, OneRoot
<1>2. \E i \in 1 .. Len(ls[0]) : ls[0][i] = leaf
  <2> DEFINE q == Sorted(S)
  <2>1. q \in [1 .. c -> Hash] /\ {q[i] : i \in 1 .. c} = S
    BY SortedIs DEF InOrder
  <2> HIDE DEF q, c
  <2>2. Len(q) = c
    BY <1>1, <2>1
  <2>3. QED
    BY <1>1, <2>1, <2>2 DEF q
<1>3. found \in 1 .. Len(ls[0]) /\ ls[0][found] = leaf
  BY <1>2
<1> HIDE DEF found
<1>4. Len(ls[0]) \in Nat
  BY <1>1
<1>5. start \in Nat /\ start < Len(ls[0]) /\ ls[0][start + 1] = leaf
  BY <1>3, <1>4
<1> HIDE DEF start, ls
<1>6. pos \in [Nat -> Nat] /\ pos[0] = start /\ \A n \in Nat : pos[n + 1] = pos[n] \div 2
  BY <1>5, HalvedIs
<1>7. /\ way[0] = << >>
      /\ \A n \in Nat : way[n] \in Seq(Sibling) /\ way[n + 1] = Longer(way[n], ls, pos[n], n)
  BY <1>1, <1>5, PathIs
<1> HIDE DEF pos, way
<1> DEFINE T == {n \in Nat : pos[n] < Len(ls[n]) /\ climb(leaf, way[n]) = ls[n][pos[n] + 1]}
<1>8. 0 \in T
  BY <1>5, <1>6, <1>7, ClimbNothing
<1>9. ASSUME NEW n \in T PROVE n + 1 \in T
  <2>1. n \in Nat /\ pos[n] \in Nat /\ pos[n] < Len(ls[n]) /\ climb(leaf, way[n]) = ls[n][pos[n] + 1]
    BY <1>6, <1>9
  <2>2. /\ pos[n] \div 2 < Len(ls[n + 1])
        /\ climb(leaf, way[n] \o StepUp(ls, pos[n], n)) = ls[n + 1][pos[n] \div 2 + 1]
    <3>1. /\ ls[n] \in Seq(Hash) /\ Len(ls[n]) > 0 /\ ls[n + 1] = Above(ls[n]) /\ leaf \in Hash
          /\ way[n] \in Seq(Sibling)
      BY <1>1, <1>7, <2>1
    <3> HIDE DEF T
    <3>2. QED
      BY <2>1, <3>1, OneLayerUp
  <2>3. way[n + 1] = way[n] \o StepUp(ls, pos[n], n) /\ pos[n + 1] = pos[n] \div 2
    BY <1>6, <1>7, <2>1 DEF Longer
  <2> HIDE DEF T
  <2>4. n + 1 \in Nat
    BY <2>1
  <2>5. pos[n + 1] < Len(ls[n + 1]) /\ climb(leaf, way[n + 1]) = ls[n + 1][pos[n + 1] + 1]
    BY <2>2, <2>3
  <2>6. QED
    BY <2>4, <2>5 DEF T
<1>10. T = Nat
  <2> HIDE DEF T
  <2>1. T \in SUBSET Nat
    BY DEF T
  <2>2. QED
    BY <1>8, <1>9, <2>1, NatInd
<1>11. pos[c] < Len(ls[c]) /\ climb(leaf, way[c]) = ls[c][pos[c] + 1] /\ pos[c] \in Nat
  BY <1>1, <1>6, <1>10
<1>12. pos[c] = 0
  <2> DEFINE x == pos[c]
  <2>1. x \in Nat /\ x < 1
    BY <1>1, <1>11
  <2> HIDE DEF x
  <2>2. x = 0
    BY <2>1
  <2>3. QED
    BY <2>2 DEF x
<1>13. climb(leaf, way[c]) = ls[c][1]
  BY <1>11, <1>12
<1>14. prove(S, leaf) = way[c] /\ root(S) = ls[c][1]
  BY DEF prove, root, way, ls, c, start, found
<1>15. QED
  BY <1>13, <1>14 DEF verify_proof

-----------------------------------------------------------------------------
(* What a hash was made of                                                  *)

(* The intents under a hash.                                                *)
atoms(h) == {h[i] : i \in 1 .. Len(h)} \ {0}

LEMMA Joined ==
  ASSUME NEW u \in Seq(Nat), NEW r \in Seq(Nat)
  PROVE  /\ Len(u \o r) = Len(u) + Len(r)
         /\ \A i \in 1 .. Len(u) : (u \o r)[i] = u[i]
         /\ \A i \in 1 .. Len(r) : (u \o r)[Len(u) + i] = r[i]
<1>1. Len(u \o r) = Len(u) + Len(r)
  OBVIOUS
<1>2. ASSUME NEW i \in 1 .. Len(u) PROVE (u \o r)[i] = u[i]
  OBVIOUS
<1>3. ASSUME NEW i \in 1 .. Len(r) PROVE (u \o r)[Len(u) + i] = r[i]
  OBVIOUS
<1>4. QED
  BY <1>1, <1>2, <1>3

LEMMA NodeParts ==
  ASSUME NEW l \in Hash, NEW r \in Hash
  PROVE  /\ Len(l) \in Nat /\ Len(r) \in Nat
         /\ Len(merkle_node(l, r)) = 1 + Len(l) + Len(r) /\ merkle_node(l, r)[1] = 0
         /\ \A i \in 1 .. Len(l) : merkle_node(l, r)[1 + i] = l[i]
         /\ \A i \in 1 .. Len(r) : merkle_node(l, r)[1 + Len(l) + i] = r[i]
<1> DEFINE u == <<0>> \o l
           t == u \o r
<1>1. l \in Seq(Nat) /\ r \in Seq(Nat) /\ merkle_node(l, r) = t
  BY DEF Hash, merkle_node
<1>2. u \in Seq(Nat) /\ Len(u) = 1 + Len(l) /\ u[1] = 0 /\ \A i \in 1 .. Len(l) : u[1 + i] = l[i]
  BY <1>1
<1> HIDE DEF u
<1>3. /\ Len(t) = Len(u) + Len(r)
      /\ \A i \in 1 .. Len(u) : t[i] = u[i]
      /\ \A i \in 1 .. Len(r) : t[Len(u) + i] = r[i]
  BY <1>1, <1>2, Joined
<1> HIDE DEF t
<1>4. Len(l) \in Nat /\ Len(r) \in Nat
  BY <1>1
<1>5. 1 \in 1 .. Len(u) /\ \A i \in 1 .. Len(l) : 1 + i \in 1 .. Len(u)
  BY <1>2, <1>4
<1>6. t[1] = 0 /\ \A i \in 1 .. Len(l) : t[1 + i] = l[i]
  BY <1>2, <1>3, <1>5
<1>7. QED
  BY <1>1, <1>2, <1>3, <1>4, <1>6

LEMMA AtomsOfNode ==
  ASSUME NEW l \in Hash, NEW r \in Hash
  PROVE  atoms(l) \subseteq atoms(merkle_node(l, r)) /\ atoms(r) \subseteq atoms(merkle_node(l, r))
         /\ atoms(merkle_node(l, r)) \subseteq atoms(l) \cup atoms(r)
<1> DEFINE a == Len(l)
           b == Len(r)
           t == merkle_node(l, r)
<1>1. /\ a \in Nat /\ b \in Nat /\ Len(t) = 1 + a + b /\ t[1] = 0
      /\ \A i \in 1 .. a : t[1 + i] = l[i]
      /\ \A i \in 1 .. b : t[1 + a + i] = r[i]
  BY NodeParts
<1> HIDE DEF a, b, t
<1>2. ASSUME NEW i \in 1 .. a PROVE 1 + i \in 1 .. Len(t)
  BY <1>1
<1>3. ASSUME NEW i \in 1 .. b PROVE 1 + a + i \in 1 .. Len(t)
  BY <1>1
<1>4. ASSUME NEW i \in 1 .. Len(t) 
      PROVE  i = 1 \/ (i - 1 \in 1 .. a /\ t[i] = l[i - 1]) \/ (i - 1 - a \in 1 .. b /\ t[i] = r[i - 1 - a])
  <2>1. i = 1 \/ (i - 1 \in 1 .. a /\ 1 + (i - 1) = i) \/ (i - 1 - a \in 1 .. b /\ 1 + a + (i - 1 - a) = i)
    BY <1>1
  <2>2. QED
    BY <1>1, <2>1
<1>5. {l[i] : i \in 1 .. a} \subseteq {t[i] : i \in 1 .. Len(t)}
  BY <1>1, <1>2
<1>6. {r[i] : i \in 1 .. b} \subseteq {t[i] : i \in 1 .. Len(t)}
  BY <1>1, <1>3
<1>7. {t[i] : i \in 1 .. Len(t)} \subseteq {l[i] : i \in 1 .. a} \cup {r[i] : i \in 1 .. b} \cup {0}
  BY <1>1, <1>4
<1>8. QED
  BY <1>5, <1>6, <1>7 DEF atoms, a, b, t

LEMMA OneStepUp ==
  ASSUME NEW h \in Hash, NEW s \in Sibling, NEW t, verify_proof(<<s>>, h, t)
  PROVE  atoms(h) \subseteq atoms(t)
<1> DEFINE e == << >>
<1>1. e \in Seq(Sibling) /\ Append(e, s) = <<s>>
  OBVIOUS
<1>2. climb(h, e) = h
  BY ClimbNothing
<1> HIDE DEF e
<1>3. climb(h, <<s>>) = Up(h, s)
  BY <1>1, <1>2, ClimbFurther
<1>4. t = Up(h, s)
  BY <1>3 DEF verify_proof
<1>5. s.hash \in Hash
  BY DEF Sibling
<1>6. QED
  BY <1>4, <1>5, AtomsOfNode DEF Up

(* What has a path to a hash was made of nothing that the hash was not.     *)
LEMMA BelowIs ==
  ASSUME NEW expected \in Hash, NEW known \in SUBSET Hash
  PROVE  /\ Below(expected, known) \subseteq known \cup {expected}
         /\ \A h \in Below(expected, known) : atoms(h) \subseteq atoms(expected)
<1> DEFINE V == SUBSET (known \cup {expected})
           Under(tops) == {h \in known : \E s \in [hash : known, is_left : BOOLEAN] : \E t \in tops :
                                           verify_proof(<<s>>, h, t)}
           F == [n \in Nat |-> [tops \in V |-> tops \cup Under(tops)]]
           E(g) == g = [n \in Nat |-> IF n = 0 THEN {expected} ELSE g[n - 1] \cup Under(g[n - 1])]
<1>0. \A tops : Under(tops) \subseteq known
  OBVIOUS
<1>15. ASSUME NEW tops, \A t \in tops : atoms(t) \subseteq atoms(expected), NEW h \in Under(tops)
      PROVE  atoms(h) \subseteq atoms(expected)
  <2>1. PICK s \in [hash : known, is_left : BOOLEAN], t \in tops : verify_proof(<<s>>, h, t)
    OBVIOUS
  <2>2. s \in Sibling /\ h \in Hash
    BY DEF Sibling
  <2>3. QED
    BY <1>15, <2>1, <2>2, OneStepUp
<1> HIDE DEF Under
<1>1. {expected} \in V
  OBVIOUS
<1>2. F \in [Nat -> [V -> V]]
  BY <1>0
<1> HIDE DEF V
<1>3. PICK h \in [Nat -> V] : Iterates(h, {expected}, F)
  <2> HIDE DEF F
  <2>1. QED
    BY <1>1, <1>2, IterationExists
<1>4. h[0] = {expected} /\ \A n \in Nat : h[n + 1] = h[n] \cup Under(h[n])
  <2>1. h[0] = {expected} /\ \A n \in Nat : n + 1 \in DOMAIN h => h[n + 1] = F[n][h[n]]
    BY <1>3 DEF Iterates
  <2>2. \A n \in Nat : n + 1 \in DOMAIN h /\ F[n][h[n]] = h[n] \cup Under(h[n])
    OBVIOUS
  <2>3. QED
    BY <2>1, <2>2
<1> HIDE DEF F
<1>5. E(h)
  <2>1. ASSUME NEW n \in Nat PROVE h[n] = IF n = 0 THEN {expected} ELSE h[n - 1] \cup Under(h[n - 1])
    <3>1. CASE n # 0
      <4>1. n - 1 \in Nat /\ (n - 1) + 1 = n
        BY <3>1
      <4>2. QED
        BY <1>4, <3>1, <4>1
    <3>2. QED
      BY <1>4, <3>1
  <2>2. QED
    BY <2>1
<1>6. E(CHOOSE g : E(g))
  BY <1>5
<1> DEFINE f == CHOOSE g : E(g)
<1>7. f = [n \in Nat |-> IF n = 0 THEN {expected} ELSE f[n - 1] \cup Under(f[n - 1])]
  BY <1>6
<1>8. Below(expected, known) = f[MaxPath]
  BY DEF Below, Under
<1> HIDE DEF f, E
<1>9. f[0] = {expected} /\ \A n \in Nat : f[n + 1] = f[n] \cup Under(f[n])
  <2>1. f[0] = {expected}
    BY <1>7
  <2>2. ASSUME NEW n \in Nat PROVE f[n + 1] = f[n] \cup Under(f[n])
    <3>1. n + 1 \in Nat /\ n + 1 # 0 /\ (n + 1) - 1 = n
      OBVIOUS
    <3>2. QED
      BY <1>7, <3>1
  <2>3. QED
    BY <2>1, <2>2
<1> DEFINE T == {n \in Nat : f[n] \subseteq known \cup {expected} /\ \A x \in f[n] : atoms(x) \subseteq atoms(expected)}
<1>10. 0 \in T
  BY <1>9
<1>11. ASSUME NEW n \in T PROVE n + 1 \in T
  <2>1. n \in Nat /\ f[n] \subseteq known \cup {expected} /\ \A x \in f[n] : atoms(x) \subseteq atoms(expected)
    BY <1>11
  <2>2. f[n + 1] = f[n] \cup Under(f[n]) /\ n + 1 \in Nat
    BY <1>9, <2>1
  <2>3. \A x \in Under(f[n]) : atoms(x) \subseteq atoms(expected)
    BY <1>15, <2>1
  <2>4. f[n + 1] \subseteq known \cup {expected} /\ \A x \in f[n + 1] : atoms(x) \subseteq atoms(expected)
    BY <1>0, <2>1, <2>2, <2>3
  <2>5. QED
    BY <2>2, <2>4
<1>12. T = Nat
  <2> HIDE DEF T
  <2>1. T \in SUBSET Nat
    BY DEF T
  <2>2. QED
    BY <1>10, <1>11, <2>1, NatInd
<1>13. MaxPath \in T
  BY <1>12, ScopeTreeAssumption
<1>14. QED
  BY <1>8, <1>13

(* A tree holds nothing that its leaves do not.                             *)
LEMMA AtomsOfTree ==
  ASSUME NEW S \in SUBSET Hash, IsFiniteSet(S), S # {}, NEW A, \A h \in S : atoms(h) \subseteq A
  PROVE  root(S) \in Hash /\ atoms(root(S)) \subseteq A
<1> DEFINE ls == layers(S)
           c == Cardinality(S)
           T == {n \in Nat : \A i \in 1 .. Len(ls[n]) : atoms(ls[n][i]) \subseteq A}
<1>1. /\ \A n \in Nat : ls[n] \in Seq(Hash) /\ Len(ls[n]) > 0 /\ ls[n + 1] = Above(ls[n])
      /\ ls[0] = Sorted(S) /\ c \in Nat /\ Len(ls[c]) = 1
  BY LayersAre, OneRoot
<1>2. 0 \in T
  <2> DEFINE q == Sorted(S)
  <2>1. q \in [1 .. c -> S]
    BY SortedIs DEF InOrder
  <2> HIDE DEF q, c
  <2>2. Len(q) = c
    BY <1>1, <2>1
  <2>3. \A i \in 1 .. Len(ls[0]) : ls[0][i] \in S
    BY <1>1, <2>1, <2>2 DEF q
  <2>4. QED
    BY <2>3
<1>3. ASSUME NEW n \in T PROVE n + 1 \in T
  <2> DEFINE l == ls[n]
             m == Len(l)
             u == ls[n + 1]
  <2>1. /\ n \in Nat /\ n + 1 \in Nat /\ (\A i \in 1 .. m : atoms(l[i]) \subseteq A)
        /\ l \in Seq(Hash) /\ Len(l) > 0 /\ u = Above(l)
    <3>1. n \in Nat /\ \A i \in 1 .. Len(ls[n]) : atoms(ls[n][i]) \subseteq A
      BY <1>3
    <3> HIDE DEF T, ls
    <3>2. n + 1 \in Nat /\ l \in Seq(Hash) /\ Len(l) > 0 /\ u = Above(l)
      BY <1>1, <3>1
    <3>3. QED
      BY <3>1, <3>2
  <2>2. m \in Nat /\ m > 0 /\ \A i \in 1 .. m : l[i] \in Hash
    BY <2>1
  <2>3. /\ Len(u) = (m + 1) \div 2
        /\ \A i \in 1 .. (m + 1) \div 2 :
             u[i] = IF 2 * i <= m THEN merkle_node(l[2 * i - 1], l[2 * i]) ELSE l[2 * i - 1]
    BY <2>1, AboveIs
  <2> HIDE DEF m, l, u
  <2>4. ASSUME NEW i \in 1 .. Len(u) PROVE atoms(u[i]) \subseteq A
    <3>1. 2 * i - 1 \in 1 .. m /\ (2 * i <= m => 2 * i \in 1 .. m) /\ i \in 1 .. (m + 1) \div 2
      BY <2>2, <2>3
    <3>2. CASE 2 * i <= m
      <4>1. u[i] = merkle_node(l[2 * i - 1], l[2 * i])
        BY <2>3, <3>1, <3>2
      <4>2. atoms(l[2 * i - 1]) \subseteq A /\ atoms(l[2 * i]) \subseteq A
        BY <2>1, <3>1, <3>2 DEF m
      <4>3. l[2 * i - 1] \in Hash /\ l[2 * i] \in Hash
        BY <2>2, <3>1, <3>2
      <4>4. QED
        BY <4>1, <4>2, <4>3, AtomsOfNode
    <3>3. CASE ~ (2 * i <= m)
      <4>1. u[i] = l[2 * i - 1]
        BY <2>3, <3>1, <3>3
      <4>2. QED
        BY <2>1, <3>1, <4>1 DEF m
    <3>4. QED
      BY <3>2, <3>3
  <2>5. QED
    BY <2>1, <2>4 DEF u
<1>4. T = Nat
  <2> HIDE DEF T
  <2>1. T \in SUBSET Nat
    BY DEF T
  <2>2. QED
    BY <1>2, <1>3, <2>1, NatInd
<1>5. c \in T /\ 1 \in 1 .. Len(ls[c])
  BY <1>1, <1>4
<1>6. ls[c][1] \in Hash /\ atoms(ls[c][1]) \subseteq A
  <2>1. atoms(ls[c][1]) \subseteq A /\ ls[c] \in Seq(Hash)
    BY <1>1, <1>5
  <2> HIDE DEF ls
  <2>2. QED
    BY <1>5, <2>1
<1>7. QED
  BY <1>6 DEF root

LEMMA ImageFinite ==
  ASSUME NEW D, NEW f, f = [x \in D |-> f[x]], IsFiniteSet(D)
  PROVE  IsFiniteSet({f[x] : x \in D})
<1> DEFINE R == {f[x] : x \in D}
<1>1. f \in Surjection(D, R)
  BY DEF Surjection
<1> HIDE DEF R
<1>2. IsFiniteSet(R)
  BY <1>1, FS_Surjection
<1>3. QED
  BY <1>2 DEF R

LEMMA HashesOfTree ==
  ASSUME NEW S \in SUBSET Hash, IsFiniteSet(S), S # {}
  PROVE  HashesOf(S) \in SUBSET Hash /\ IsFiniteSet(HashesOf(S))
<1> DEFINE ls == layers(S)
           c == Cardinality(S)
           In(n) == {ls[n][i] : i \in 1 .. Len(ls[n])}
           f == [n \in 0 .. c |-> In(n)]
<1>1. c \in Nat /\ \A n \in Nat : ls[n] \in Seq(Hash)
  BY LayersAre, OneRoot
<1> HIDE DEF ls, c
<1>2. ASSUME NEW n \in 0 .. c PROVE IsFiniteSet(In(n)) /\ In(n) \subseteq Hash
  <2> DEFINE l == ls[n]
             D == 1 .. Len(l)
  <2>1. l \in Seq(Hash)
    BY <1>1
  <2> HIDE DEF l
  <2>2. Len(l) \in Nat /\ l = [i \in D |-> l[i]] /\ \A i \in D : l[i] \in Hash
    BY <2>1
  <2>3. IsFiniteSet(D)
    BY <2>2, FS_Interval
  <2> HIDE DEF D
  <2>4. IsFiniteSet({l[i] : i \in D})
    BY <2>2, <2>3, ImageFinite
  <2>5. In(n) = {l[i] : i \in D}
    BY DEF l, D
  <2>6. QED
    BY <2>2, <2>4, <2>5
<1> HIDE DEF In
<1>3. IsFiniteSet(0 .. c)
  BY <1>1, FS_Interval
<1>4. f = [n \in 0 .. c |-> f[n]] /\ \A n \in 0 .. c : f[n] = In(n)
  OBVIOUS
<1> HIDE DEF f
<1>5. IsFiniteSet({f[n] : n \in 0 .. c})
  BY <1>3, <1>4, ImageFinite
<1>6. IsFiniteSet(UNION {f[n] : n \in 0 .. c})
  BY <1>2, <1>4, <1>5, FS_UNION
<1>7. HashesOf(S) = UNION {f[n] : n \in 0 .. c}
  <2>1. {In(n) : n \in 0 .. c} = {f[n] : n \in 0 .. c}
    BY <1>4
  <2>2. HashesOf(S) = UNION {In(n) : n \in 0 .. c}
    BY DEF HashesOf, In, ls, c
  <2>3. QED
    BY <2>1, <2>2
<1>8. UNION {f[n] : n \in 0 .. c} \subseteq Hash
  BY <1>2, <1>4
<1>9. QED
  BY <1>6, <1>7, <1>8

LEMMA LeafIs ==
  /\ Leaf \in SUBSET Hash /\ IsFiniteSet(Leaf)
  /\ \A n \in 1 .. Leaves : atoms(<<n>>) = {n}
<1> DEFINE f == [n \in 1 .. Leaves |-> <<n>>]
<1>1. Leaves \in Nat
  BY ScopeTreeAssumption
<1>2. Leaf \in SUBSET Hash
  <2>1. ASSUME NEW n \in 1 .. Leaves PROVE <<n>> \in Hash
    <3>1. n \in Nat
      BY <1>1
    <3>2. QED
      BY <3>1 DEF Hash
  <2>2. QED
    BY <2>1 DEF Leaf
<1>3. IsFiniteSet(1 .. Leaves)
  BY <1>1, FS_Interval
<1>4. f = [n \in 1 .. Leaves |-> f[n]] /\ \A n \in 1 .. Leaves : f[n] = <<n>>
  OBVIOUS
<1> HIDE DEF f
<1>5. IsFiniteSet({f[n] : n \in 1 .. Leaves})
  BY <1>3, <1>4, ImageFinite
<1>6. Leaf = {f[n] : n \in 1 .. Leaves}
  BY <1>4 DEF Leaf
<1>7. ASSUME NEW n \in 1 .. Leaves PROVE atoms(<<n>>) = {n}
  <2> DEFINE h == <<n>>
  <2>1. Len(h) = 1 /\ h[1] = n /\ n # 0
    BY <1>1
  <2> HIDE DEF h
  <2>2. {h[i] : i \in 1 .. Len(h)} = {n}
    BY <2>1
  <2>3. QED
    BY <2>1, <2>2 DEF atoms, h
<1>8. QED
  BY <1>2, <1>5, <1>6, <1>7

(* The intents that were granted.                                           *)
Granted == {n \in 1 .. Leaves : <<n>> \in grants}

(* The hashes in play are finitely many, and the intents under those that   *)
(* are in the tree or have a path to its root were granted.                 *)
TreeInv ==
  /\ TreeTypeOK
  /\ honest \in SUBSET Hash /\ IsFiniteSet(honest) /\ honest # {}
  /\ below \in SUBSET Hash /\ IsFiniteSet(below)
  /\ \A h \in honest \cup below : atoms(h) \subseteq Granted

LEMMA LeavesGranted ==
  ASSUME NEW G \in SUBSET Leaf
  PROVE  /\ G \in SUBSET Hash /\ IsFiniteSet(G)
         /\ \A h \in G : atoms(h) \subseteq {n \in 1 .. Leaves : <<n>> \in G}
<1>1. IsFiniteSet(G) /\ G \in SUBSET Hash
  BY LeafIs, FS_Subset
<1>2. ASSUME NEW h \in G PROVE atoms(h) \subseteq {n \in 1 .. Leaves : <<n>> \in G}
  <2>1. PICK n \in 1 .. Leaves : h = <<n>>
    BY DEF Leaf
  <2>2. atoms(h) = {n}
    BY <2>1, LeafIs
  <2>3. QED
    BY <2>1, <2>2
<1>3. QED
  BY <1>1, <1>2

(* A scope over granted hashes has nothing else under it.                   *)
LEMMA ScopeOver ==
  ASSUME NEW G \in SUBSET Leaf, G # {}, NEW S \in SUBSET Hash, IsFiniteSet(S), S # {}, NEW A,
         \A h \in S : atoms(h) \subseteq A, NEW B, B = Below(root(S), Known(G, S))
  PROVE  B \in SUBSET Hash /\ IsFiniteSet(B) /\ \A h \in B : atoms(h) \subseteq A
<1> DEFINE r == root(S)
           K == Known(G, S)
<1>1. r \in Hash /\ atoms(r) \subseteq A
  BY AtomsOfTree
<1>2. G \in SUBSET Hash /\ IsFiniteSet(G)
  BY LeavesGranted
<1>3. K \in SUBSET Hash /\ IsFiniteSet(K)
  <2>1. /\ HashesOf(S) \in SUBSET Hash /\ IsFiniteSet(HashesOf(S))
        /\ HashesOf(G) \in SUBSET Hash /\ IsFiniteSet(HashesOf(G))
        /\ Leaf \in SUBSET Hash /\ IsFiniteSet(Leaf)
    BY <1>2, HashesOfTree, LeafIs
  <2>2. IsFiniteSet(HashesOf(G) \cup HashesOf(S))
    BY <2>1, FS_Union
  <2>3. IsFiniteSet(HashesOf(G) \cup HashesOf(S) \cup Leaf)
    BY <2>1, <2>2, FS_Union
  <2>4. QED
    BY <2>1, <2>3 DEF Known
<1> HIDE DEF r, K
<1>4. B = Below(r, K)
  BY DEF r, K
<1>5. B \subseteq K \cup {r} /\ \A h \in B : atoms(h) \subseteq atoms(r)
  BY <1>1, <1>3, <1>4, BelowIs
<1>6. IsFiniteSet(K \cup {r})
  BY <1>3, FS_AddElement
<1>7. IsFiniteSet(B)
  BY <1>5, <1>6, FS_Subset
<1>8. QED
  BY <1>1, <1>3, <1>5, <1>7

LEMMA TreeInvInit == TreeInit => TreeInv
<1> SUFFICES ASSUME TreeInit PROVE TreeInv
  OBVIOUS
<1>1. grants \in SUBSET Leaf /\ grants # {} /\ honest = grants /\ scope = root(honest) /\ hops = 0
      /\ below = Below(root(honest), Known(grants, honest))
  <2>1. /\ grants \in SUBSET Leaf /\ grants # {} /\ honest = grants /\ scope = root(grants) /\ hops = 0
        /\ below = Below(scope, Known(grants, grants))
    BY Zenon DEF TreeInit
  <2>2. QED
    BY <2>1, Zenon
<1>2. honest \in SUBSET Hash /\ IsFiniteSet(honest) /\ \A h \in honest : atoms(h) \subseteq Granted
  BY <1>1, LeavesGranted DEF Granted
<1>3. below \in SUBSET Hash /\ IsFiniteSet(below) /\ \A h \in below : atoms(h) \subseteq Granted
  <2> HIDE DEF Granted
  <2>1. QED
    BY <1>1, <1>2, ScopeOver
<1>4. TreeTypeOK
  BY <1>1, ScopeTreeAssumption DEF TreeTypeOK
<1>5. QED
  BY <1>1, <1>2, <1>3, <1>4 DEF TreeInv

LEMMA TreeInvStep == TreeInv /\ [TreeNext]_treeVars => TreeInv'
<1> SUFFICES ASSUME TreeInv, [TreeNext]_treeVars PROVE TreeInv'
  OBVIOUS
<1>1. CASE Narrow
  <2>0. PICK k \in 1 .. MaxSubset : \E subset \in kSubset(k, below) : NarrowTo(subset)
    BY <1>1 DEF Narrow
  <2>1. PICK subset \in kSubset(k, below) : NarrowTo(subset)
    BY <2>0
  <2>2. /\ hops < MaxHops /\ scope' = root(subset) /\ honest' = subset /\ hops' = hops + 1 /\ grants' = grants
        /\ below' = Below(root(subset), Known(grants, subset))
    BY <2>1 DEF NarrowTo
  <2>3. subset \in SUBSET below /\ Cardinality(subset) = k /\ k # 0
    BY ScopeTreeAssumption DEF kSubset
  <2>4. IsFiniteSet(subset) /\ subset # {} /\ subset \in SUBSET Hash /\ \A h \in subset : atoms(h) \subseteq Granted
    <3>1. IsFiniteSet(subset) /\ subset \in SUBSET Hash /\ \A h \in subset : atoms(h) \subseteq Granted
      BY <2>3, FS_Subset DEF TreeInv
    <3>2. QED
      BY <2>3, <3>1, FS_EmptySet
  <2>5. grants \in SUBSET Leaf /\ grants # {} /\ hops \in 0 .. MaxHops
    BY DEF TreeInv, TreeTypeOK
  <2>6. below' \in SUBSET Hash /\ IsFiniteSet(below') /\ \A h \in below' : atoms(h) \subseteq Granted
    BY <2>2, <2>4, <2>5, ScopeOver
  <2>7. Granted' = Granted
    BY <2>2 DEF Granted
  <2>8. TreeTypeOK'
    <3>1. hops' \in 0 .. MaxHops
      BY <2>2, <2>5, ScopeTreeAssumption
    <3>2. QED
      BY <2>2, <2>5, <3>1 DEF TreeTypeOK
  <2>9. QED
    BY <2>2, <2>4, <2>6, <2>7, <2>8 DEF TreeInv
<1>2. CASE PassThrough
  <2>1. hops' \in 0 .. MaxHops
    BY <1>2, ScopeTreeAssumption DEF PassThrough, TreeInv, TreeTypeOK
  <2>2. grants' = grants /\ scope' = scope /\ honest' = honest /\ below' = below
    BY <1>2 DEF PassThrough
  <2>3. TreeTypeOK' /\ Granted' = Granted
    BY <2>1, <2>2 DEF TreeInv, TreeTypeOK, Granted
  <2>4. QED
    BY <2>2, <2>3 DEF TreeInv
<1>3. CASE UNCHANGED treeVars
  <2>1. grants' = grants /\ scope' = scope /\ honest' = honest /\ below' = below /\ hops' = hops
    BY <1>3 DEF treeVars
  <2>2. TreeTypeOK' /\ Granted' = Granted
    BY <2>1 DEF TreeInv, TreeTypeOK, Granted
  <2>3. QED
    BY <2>1, <2>2 DEF TreeInv
<1>4. QED
  BY <1>1, <1>2, <1>3 DEF TreeNext

(* prove and verify_proof of intent.rs agree for every tree, and however a  *)
(* scope is narrowed by verify_and_derive_root, what has a path to its root *)
(* was granted.                                                             *)
THEOREM ScopeProofsExactAlways == TreeSpec => []ScopeProofsExact
<1>1. TreeInv => ScopeProofsExact
  <2> SUFFICES ASSUME TreeInv PROVE ScopeProofsExact
    OBVIOUS
  <2>1. MembersProvable
    BY MemberProvable DEF TreeInv, TreeTypeOK, MembersProvable
  <2>2. ASSUME NEW h \in below \cap Leaf PROVE h \in grants
    <3>1. PICK n \in 1 .. Leaves : h = <<n>>
      BY DEF Leaf
    <3>2. atoms(h) = {n}
      BY <3>1, LeafIs
    <3>3. n \in Granted
      BY <3>2 DEF TreeInv
    <3>4. QED
      BY <3>1, <3>3 DEF Granted
  <2>3. QED
    BY <2>1, <2>2 DEF ScopeProofsExact, ScopeNeverWidens
<1>2. QED
  BY <1>1, TreeInvInit, TreeInvStep, PTL DEF TreeSpec

-----------------------------------------------------------------------------
(* The tree of reasoning steps                                              *)

LEMMA PowerIs ==
  /\ power \in [Nat -> Nat] /\ power[0] = 1
  /\ \A k \in Nat : power[k + 1] = 2 * power[k] /\ power[k] > k
<1> DEFINE F == [n \in Nat |-> [x \in Nat |-> 2 * x]]
           E(g) == g = [k \in Nat |-> IF k = 0 THEN 1 ELSE 2 * g[k - 1]]
<1>1. F \in [Nat -> [Nat -> Nat]]
  OBVIOUS
<1>2. PICK h \in [Nat -> Nat] : Iterates(h, 1, F)
  BY <1>1, IterationExists
<1>3. h[0] = 1 /\ \A n \in Nat : h[n + 1] = 2 * h[n]
  <2>1. h[0] = 1 /\ \A n \in Nat : n + 1 \in DOMAIN h => h[n + 1] = F[n][h[n]]
    BY <1>2 DEF Iterates
  <2>2. \A n \in Nat : n + 1 \in DOMAIN h /\ F[n][h[n]] = 2 * h[n]
    OBVIOUS
  <2>3. QED
    BY <2>1, <2>2
<1>4. E(h)
  <2>1. ASSUME NEW n \in Nat PROVE h[n] = IF n = 0 THEN 1 ELSE 2 * h[n - 1]
    <3>1. CASE n # 0
      <4>1. n - 1 \in Nat /\ (n - 1) + 1 = n
        BY <3>1
      <4>2. QED
        BY <1>3, <3>1, <4>1
    <3>2. QED
      BY <1>3, <3>1
  <2>2. QED
    BY <2>1
<1>5. E(CHOOSE g : E(g))
  BY <1>4
<1> DEFINE f == power
<1>6. f = [k \in Nat |-> IF k = 0 THEN 1 ELSE 2 * f[k - 1]]
  BY <1>5 DEF power
<1> HIDE DEF f
<1>7. f[0] = 1 /\ \A n \in Nat : f[n + 1] = 2 * f[n]
  BY <1>6
<1> DEFINE T == {n \in Nat : f[n] \in Nat /\ f[n] > n}
<1>8. 0 \in T
  BY <1>7
<1>9. ASSUME NEW n \in T PROVE n + 1 \in T
  <2>1. n \in Nat /\ f[n] \in Nat /\ f[n] > n /\ f[n + 1] = 2 * f[n]
    BY <1>7, <1>9
  <2>2. QED
    BY <2>1
<1>10. T = Nat
  <2> HIDE DEF T
  <2>1. T \in SUBSET Nat
    BY DEF T
  <2>2. QED
    BY <1>8, <1>9, <2>1, NatInd
<1>11. f \in [Nat -> Nat]
  <2>1. f = [n \in Nat |-> f[n]] /\ \A n \in Nat : f[n] \in Nat
    BY <1>6, <1>10
  <2>2. QED
    BY <2>1
<1>12. ASSUME NEW k \in Nat PROVE f[k] > k
  <2>1. k \in T
    BY <1>10
  <2>2. QED
    BY <2>1
<1>13. QED
  BY <1>7, <1>11, <1>12 DEF f

LEMMA DepthIs ==
  ASSUME NEW n \in Nat
  PROVE  depth(n) \in Nat /\ power[depth(n)] \in Nat /\ power[depth(n)] >= n
<1> DEFINE D == {k \in 0 .. n : power[k] >= n}
<1>1. n \in D /\ D \in SUBSET Nat
  BY PowerIs
<1>2. PICK k \in D : \A j \in D : k <= j
  <2> HIDE DEF D
  <2>1. QED
    BY <1>1, LeastOf
<1>3. \E x \in 0 .. n : power[x] >= n /\ \A j \in 0 .. n : power[j] >= n => x <= j
  BY <1>2
<1>4. depth(n) \in 0 .. n /\ power[depth(n)] >= n
  BY <1>3 DEF depth
<1>5. QED
  BY <1>4, PowerIs

Step == [index : Nat, content : Nat]

(* The hashes of a layer are of one length.                                 *)
Even(l, k) == l \in Seq(Hash) /\ \A i \in 1 .. Len(l) : Len(l[i]) = k

LEMMA PairsAre ==
  ASSUME NEW l \in Seq(Hash)
  PROVE  /\ pairs(l) \in Seq(Hash) /\ Len(pairs(l)) = Len(l) \div 2
         /\ \A i \in 1 .. Len(l) \div 2 :
              /\ 2 * i - 1 \in 1 .. Len(l) /\ 2 * i \in 1 .. Len(l)
              /\ pairs(l)[i] = merkle_node(l[2 * i - 1], l[2 * i])
<1> DEFINE m == Len(l)
           k == m \div 2
<1>1. m \in Nat /\ k \in Nat /\ \A i \in 1 .. m : l[i] \in Hash
  OBVIOUS
<1>2. pairs(l) = [i \in 1 .. k |-> merkle_node(l[2 * i - 1], l[2 * i])]
  BY DEF pairs
<1>3. ASSUME NEW i \in 1 .. k PROVE 2 * i - 1 \in 1 .. m /\ 2 * i \in 1 .. m
  <2> HIDE DEF m
  <2>1. QED
    BY <1>1
<1>4. ASSUME NEW i \in 1 .. k PROVE merkle_node(l[2 * i - 1], l[2 * i]) \in Hash
  <2>1. l[2 * i - 1] \in Hash /\ l[2 * i] \in Hash
    BY <1>1, <1>3
  <2>2. QED
    BY <2>1, NodeIsHash
<1> HIDE DEF m, k
<1>5. pairs(l) \in Seq(Hash) /\ Len(pairs(l)) = k
  BY <1>1, <1>2, <1>4
<1>6. QED
  BY <1>2, <1>3, <1>5 DEF m, k

LEMMA LenOfNode == ASSUME NEW l \in Hash, NEW r \in Hash PROVE Len(merkle_node(l, r)) = 1 + Len(l) + Len(r)
BY NodeParts

(* Nodes of children of one length are the same only when the children are. *)
LEMMA NodeSplits ==
  ASSUME NEW a \in Hash, NEW b \in Hash, NEW c \in Hash, NEW d \in Hash,
         Len(a) = Len(c), Len(b) = Len(d), merkle_node(a, b) = merkle_node(c, d)
  PROVE  a = c /\ b = d
<1> DEFINE m == Len(a)
           k == Len(b)
           t == merkle_node(a, b)
<1>1. /\ m \in Nat /\ k \in Nat
      /\ \A i \in 1 .. m : t[1 + i] = a[i] /\ t[1 + i] = c[i]
      /\ \A i \in 1 .. k : t[1 + m + i] = b[i] /\ t[1 + m + i] = d[i]
  <2>1. /\ m \in Nat /\ k \in Nat
        /\ \A i \in 1 .. m : t[1 + i] = a[i]
        /\ \A i \in 1 .. k : t[1 + m + i] = b[i]
    BY NodeParts
  <2> DEFINE v == merkle_node(c, d)
  <2>2. /\ \A i \in 1 .. Len(c) : v[1 + i] = c[i]
        /\ \A i \in 1 .. Len(d) : v[1 + Len(c) + i] = d[i]
    BY NodeParts
  <2> HIDE DEF m, k, v, t
  <2>3. v = t /\ Len(c) = m /\ Len(d) = k
    BY DEF v, t, m, k
  <2>4. QED
    BY <2>1, <2>2, <2>3
<1>2. /\ a = [i \in 1 .. m |-> a[i]] /\ c = [i \in 1 .. m |-> c[i]]
      /\ b = [i \in 1 .. k |-> b[i]] /\ d = [i \in 1 .. k |-> d[i]]
  BY DEF Hash
<1> HIDE DEF m, k, t
<1>3. \A i \in 1 .. m : a[i] = c[i]
  BY <1>1
<1>4. \A i \in 1 .. k : b[i] = d[i]
  BY <1>1
<1>5. QED
  BY <1>2, <1>3, <1>4

(* The side a sibling is on.                                                *)
Sided(y, p) == [hash |-> y, is_left |-> p % 2 = 1]

LEMMA PairUp ==
  ASSUME NEW l \in Seq(Hash), Len(l) % 2 = 0, NEW p \in Nat, p < Len(l)
  PROVE  /\ beside(p) + 1 \in 1 .. Len(l) /\ p + 1 \in 1 .. Len(l)
         /\ p \div 2 + 1 \in 1 .. Len(pairs(l))
         /\ Up(l[p + 1], Sided(l[beside(p) + 1], p)) = pairs(l)[p \div 2 + 1]
<1> DEFINE m == Len(l)
           j == p \div 2 + 1
           u == pairs(l)
<1>1. m \in Nat
  OBVIOUS
<1>2. Len(u) = m \div 2 /\ \A i \in 1 .. m \div 2 : u[i] = merkle_node(l[2 * i - 1], l[2 * i])
  BY PairsAre
<1> HIDE DEF m, u
<1>3. m % 2 = 0 /\ p < m
  BY DEF m
<1>4. /\ beside(p) + 1 \in 1 .. m /\ p + 1 \in 1 .. m /\ j \in 1 .. m \div 2
      /\ (p % 2 = 0 => 2 * j - 1 = p + 1 /\ 2 * j = beside(p) + 1)
      /\ (p % 2 = 1 => 2 * j - 1 = beside(p) + 1 /\ 2 * j = p + 1)
      /\ (p % 2 = 0 \/ p % 2 = 1)
  BY <1>1, <1>3 DEF beside
<1>5. u[j] = merkle_node(l[2 * j - 1], l[2 * j])
  BY <1>2, <1>4
<1>6. Up(l[p + 1], Sided(l[beside(p) + 1], p)) = u[j]
  <2>1. CASE p % 2 = 0
    <3>1. (p % 2 = 1) = FALSE
      BY <2>1
    <3>2. Up(l[p + 1], Sided(l[beside(p) + 1], p)) = merkle_node(l[p + 1], l[beside(p) + 1])
      BY <3>1 DEF Up, Sided
    <3>3. QED
      BY <1>4, <1>5, <2>1, <3>2
  <2>2. CASE p % 2 = 1
    <3>1. Up(l[p + 1], Sided(l[beside(p) + 1], p)) = merkle_node(l[beside(p) + 1], l[p + 1])
      BY <2>2 DEF Up, Sided
    <3>2. QED
      BY <1>4, <1>5, <2>2, <3>1
  <2>3. QED
    BY <1>4, <2>1, <2>2
<1>7. QED
  BY <1>2, <1>4, <1>6 DEF m, u

(* What was put under the node above is what the layer has at that place.   *)
LEMMA PairDown ==
  ASSUME NEW l, NEW k \in Nat, Even(l, k), Len(l) % 2 = 0, NEW p \in Nat, p < Len(l),
         NEW x \in Hash, Len(x) = k, NEW y \in Hash, Len(y) = k,
         Up(x, Sided(y, p)) = pairs(l)[p \div 2 + 1]
  PROVE  x = l[p + 1]
<1> DEFINE z == l[p + 1]
           w == l[beside(p) + 1]
<1>1. l \in Seq(Hash) /\ \A i \in 1 .. Len(l) : Len(l[i]) = k /\ l[i] \in Hash
  BY DEF Even
<1>2. /\ beside(p) + 1 \in 1 .. Len(l) /\ p + 1 \in 1 .. Len(l)
      /\ Up(z, Sided(w, p)) = pairs(l)[p \div 2 + 1]
  BY <1>1, PairUp
<1>3. z \in Hash /\ w \in Hash /\ Len(z) = k /\ Len(w) = k
  BY <1>1, <1>2
<1> HIDE DEF z, w
<1>4. Up(x, Sided(y, p)) = Up(z, Sided(w, p))
  BY <1>2
<1>5. CASE p % 2 = 1
  <2>1. merkle_node(y, x) = merkle_node(w, z)
    BY <1>4, <1>5 DEF Up, Sided
  <2>2. QED
    BY <1>3, <2>1, NodeSplits DEF z
<1>6. CASE ~ (p % 2 = 1)
  <2>1. merkle_node(x, y) = merkle_node(z, w)
    BY <1>4, <1>6 DEF Up, Sided
  <2>2. QED
    BY <1>3, <2>1, NodeSplits DEF z
<1>7. QED
  BY <1>5, <1>6

LEMMA HalvedWithin ==
  ASSUME NEW d \in Nat, NEW i \in Nat, i < power[d], NEW n \in 0 .. d
  PROVE  halved(i)[n] \in Nat /\ halved(i)[n] < power[d - n]
<1> DEFINE pos == halved(i)
           T == {k \in Nat : k <= d => pos[k] < power[d - k]}
<1>1. pos \in [Nat -> Nat] /\ pos[0] = i /\ \A k \in Nat : pos[k + 1] = pos[k] \div 2
  BY HalvedIs
<1> HIDE DEF pos
<1>2. 0 \in T
  BY <1>1
<1>3. ASSUME NEW k \in T PROVE k + 1 \in T
  <2> SUFFICES ASSUME k + 1 <= d PROVE pos[k + 1] < power[d - (k + 1)]
    BY <1>3
  <2>1. k \in Nat /\ d - (k + 1) \in Nat /\ (d - (k + 1)) + 1 = d - k
    BY <1>3
  <2>2. power[d - (k + 1)] \in Nat /\ power[d - k] = 2 * power[d - (k + 1)]
    BY <2>1, PowerIs
  <2>3. pos[k] \in Nat /\ pos[k] < power[d - k] /\ pos[k + 1] = pos[k] \div 2
    BY <1>1, <1>3, <2>1
  <2> DEFINE a == pos[k]
             b == power[d - (k + 1)]
  <2>4. a \in Nat /\ b \in Nat /\ a < 2 * b
    BY <2>2, <2>3
  <2> HIDE DEF a, b
  <2>5. a \div 2 < b
    BY <2>4
  <2>6. QED
    BY <2>3, <2>5 DEF a, b
<1>4. T = Nat
  <2> HIDE DEF T
  <2>1. T \in SUBSET Nat
    BY DEF T
  <2>2. QED
    BY <1>2, <1>3, <2>1, NatInd
<1>5. n \in T /\ n <= d /\ n \in Nat
  BY <1>4
<1>6. QED
  BY <1>1, <1>5 DEF pos

LEMMA LeafHashIs ==
  ASSUME NEW step \in Step
  PROVE  leaf_hash(step) \in Hash /\ Len(leaf_hash(step)) = 3
BY DEF Step, leaf_hash, Hash

LEMMA PaddedIs ==
  ASSUME NEW s \in Seq(Step), Len(s) > 0
  PROVE  /\ Even(padded(s), 3) /\ Len(padded(s)) = power[depth(Len(s))]
         /\ \A i \in 1 .. Len(s) : padded(s)[i] = leaf_hash(s[i])
<1> DEFINE m == Len(s)
           w == power[depth(m)]
           At(i) == leaf_hash(s[IF i <= m THEN i ELSE m])
<1>1. m \in Nat /\ m > 0 /\ \A i \in 1 .. m : s[i] \in Step
  OBVIOUS
<1>2. w \in Nat /\ w >= m
  BY <1>1, DepthIs
<1>3. padded(s) = [i \in 1 .. w |-> At(i)]
  BY DEF padded, next_power_of_two
<1>4. ASSUME NEW i \in 1 .. w PROVE At(i) \in Hash /\ Len(At(i)) = 3
  <2> DEFINE j == IF i <= m THEN i ELSE m
  <2> HIDE DEF m, w
  <2>1. j \in 1 .. m
    BY <1>1, <1>2
  <2>2. s[j] \in Step
    BY <1>1, <2>1
  <2> HIDE DEF j
  <2>3. leaf_hash(s[j]) \in Hash /\ Len(leaf_hash(s[j])) = 3
    BY <2>2, LeafHashIs
  <2>4. QED
    BY <2>3 DEF j
<1>5. \A i \in 1 .. m : At(i) = leaf_hash(s[i])
  OBVIOUS
<1> DEFINE q == padded(s)
<1>6. q = [i \in 1 .. w |-> At(i)]
  BY <1>3
<1> HIDE DEF m, w, At, q
<1>7. q \in Seq(Hash) /\ Len(q) = w /\ \A i \in 1 .. w : q[i] = At(i)
  BY <1>2, <1>4, <1>6
<1>8. \A i \in 1 .. m : i \in 1 .. w
  BY <1>1, <1>2
<1>9. \A i \in 1 .. m : q[i] = leaf_hash(s[i])
  BY <1>5, <1>7, <1>8
<1>10. Even(q, 3)
  BY <1>4, <1>7 DEF Even
<1>11. QED
  BY <1>7, <1>9, <1>10 DEF q, m, w

LEMMA LayerIs ==
  ASSUME NEW s \in Seq(Step), Len(s) > 0
  PROVE  /\ layer(s)[0] = padded(s)
         /\ \A n \in Nat : layer(s)[n + 1] = pairs(layer(s)[n])
<1> DEFINE V == Seq(Hash)
           q == padded(s)
           F == [n \in Nat |-> [l \in V |-> pairs(l)]]
           E(g) == g = [n \in Nat |-> IF n = 0 THEN q ELSE pairs(g[n - 1])]
<1>1. q \in V
  BY PaddedIs DEF Even
<1>2. F \in [Nat -> [V -> V]]
  BY PairsAre
<1> HIDE DEF q, V
<1>3. PICK h \in [Nat -> V] : Iterates(h, q, F)
  <2> HIDE DEF F
  <2>1. QED
    BY <1>1, <1>2, IterationExists
<1>4. h[0] = q /\ \A n \in Nat : h[n + 1] = pairs(h[n])
  <2>1. h[0] = q /\ \A n \in Nat : n + 1 \in DOMAIN h => h[n + 1] = F[n][h[n]]
    BY <1>3 DEF Iterates
  <2>2. \A n \in Nat : n + 1 \in DOMAIN h /\ F[n][h[n]] = pairs(h[n])
    OBVIOUS
  <2>3. QED
    BY <2>1, <2>2
<1> HIDE DEF F
<1>5. E(h)
  <2>1. ASSUME NEW n \in Nat PROVE h[n] = IF n = 0 THEN q ELSE pairs(h[n - 1])
    <3>1. CASE n # 0
      <4>1. n - 1 \in Nat /\ (n - 1) + 1 = n
        BY <3>1
      <4>2. QED
        BY <1>4, <3>1, <4>1
    <3>2. QED
      BY <1>4, <3>1
  <2>2. QED
    BY <2>1
<1>6. E(CHOOSE g : E(g))
  BY <1>5
<1> DEFINE f == layer(s)
<1>7. f = [n \in Nat |-> IF n = 0 THEN q ELSE pairs(f[n - 1])]
  BY <1>6 DEF layer, q
<1> HIDE DEF f, E
<1>8. f[0] = q /\ \A n \in Nat : f[n + 1] = pairs(f[n])
  BY <1>7
<1>9. QED
  BY <1>8 DEF f, q

(* How long a layer is, and its hashes, whatever the steps hold.            *)
LEMMA LayerSizes ==
  ASSUME NEW s \in Seq(Step), Len(s) > 0, NEW n \in 0 .. depth(Len(s))
  PROVE  /\ Even(layer(s)[n], 4 * power[n] - 1)
         /\ Len(layer(s)[n]) = power[depth(Len(s)) - n]
<1> DEFINE d == depth(Len(s))
           ls == layer(s)
           T == {k \in Nat : k <= d => Even(ls[k], 4 * power[k] - 1) /\ Len(ls[k]) = power[d - k]}
<1>1. d \in Nat
  BY DepthIs
<1>2. ls[0] = padded(s) /\ \A k \in Nat : ls[k + 1] = pairs(ls[k])
  BY LayerIs
<1>3. Even(padded(s), 3) /\ Len(padded(s)) = power[d]
  BY PaddedIs
<1> HIDE DEF d, ls
<1>4. 0 \in T
  <2>1. 4 * power[0] - 1 = 3 /\ d - 0 = d
    BY <1>1, PowerIs
  <2>2. QED
    BY <1>2, <1>3, <2>1
<1>5. ASSUME NEW k \in T PROVE k + 1 \in T
  <2> SUFFICES ASSUME k + 1 <= d
               PROVE  Even(ls[k + 1], 4 * power[k + 1] - 1) /\ Len(ls[k + 1]) = power[d - (k + 1)]
    BY <1>5
  <2>1. k \in Nat /\ k <= d /\ d - (k + 1) \in Nat /\ (d - (k + 1)) + 1 = d - k
    BY <1>1, <1>5
  <2>2. Even(ls[k], 4 * power[k] - 1) /\ Len(ls[k]) = power[d - k]
    BY <1>5, <2>1
  <2>3. /\ power[d - (k + 1)] \in Nat /\ power[d - k] = 2 * power[d - (k + 1)]
        /\ power[k] \in Nat /\ power[k + 1] = 2 * power[k]
    BY <2>1, PowerIs
  <2> DEFINE l == ls[k]
             u == ls[k + 1]
             a == power[k]
             b == power[d - (k + 1)]
  <2>4. l \in Seq(Hash) /\ Len(l) = 2 * b /\ \A i \in 1 .. Len(l) : Len(l[i]) = 4 * a - 1 /\ l[i] \in Hash
    <3>1. Even(l, 4 * a - 1) /\ Len(l) = 2 * b
      BY <2>2, <2>3
    <3> HIDE DEF l, a, b
    <3>2. l \in Seq(Hash) /\ \A i \in 1 .. Len(l) : Len(l[i]) = 4 * a - 1
      BY <3>1 DEF Even
    <3>3. \A i \in 1 .. Len(l) : l[i] \in Hash
      BY <3>2
    <3>4. QED
      BY <3>1, <3>2, <3>3
  <2>5. u = pairs(l)
    BY <1>2, <2>1
  <2> HIDE DEF l, u, a, b
  <2>6. b \in Nat /\ a \in Nat
    BY <2>3 DEF a, b
  <2>7. (2 * b) \div 2 = b
    BY <2>6
  <2>8. /\ u \in Seq(Hash) /\ Len(u) = b
        /\ \A i \in 1 .. b : /\ 2 * i - 1 \in 1 .. Len(l) /\ 2 * i \in 1 .. Len(l)
                             /\ u[i] = merkle_node(l[2 * i - 1], l[2 * i])
    BY <2>4, <2>5, <2>7, PairsAre
  <2>9. ASSUME NEW i \in 1 .. b PROVE Len(u[i]) = 4 * (2 * a) - 1
    <3>1. /\ l[2 * i - 1] \in Hash /\ l[2 * i] \in Hash /\ u[i] = merkle_node(l[2 * i - 1], l[2 * i])
          /\ Len(l[2 * i - 1]) = 4 * a - 1 /\ Len(l[2 * i]) = 4 * a - 1
      BY <2>4, <2>8
    <3>2. Len(u[i]) = 1 + Len(l[2 * i - 1]) + Len(l[2 * i])
      BY <3>1, LenOfNode
    <3>3. Len(u[i]) = 1 + (4 * a - 1) + (4 * a - 1)
      BY <3>1, <3>2
    <3>4. QED
      BY <2>6, <3>3
  <2>10. Even(u, 4 * (2 * a) - 1)
    BY <2>8, <2>9 DEF Even
  <2>11. QED
    BY <2>3, <2>8, <2>10 DEF u, a, b
<1>6. T = Nat
  <2> HIDE DEF T
  <2>1. T \in SUBSET Nat
    BY DEF T
  <2>2. QED
    BY <1>4, <1>5, <2>1, NatInd
<1>7. n \in T /\ n <= d
  BY <1>1, <1>6 DEF d
<1>8. QED
  BY <1>7 DEF d, ls

LEMMA LowerLayer ==
  ASSUME NEW s \in Seq(Step), Len(s) > 0, NEW n \in 0 .. depth(Len(s)) - 1
  PROVE  /\ Even(layer(s)[n], 4 * power[n] - 1) /\ Len(layer(s)[n]) % 2 = 0
         /\ layer(s)[n] \in Seq(Hash) /\ Len(layer(s)[n]) = power[depth(Len(s)) - n]
         /\ layer(s)[n + 1] = pairs(layer(s)[n])
<1> DEFINE d == depth(Len(s))
<1>1. d \in Nat
  BY DepthIs
<1>2. n \in Nat /\ n \in 0 .. d /\ d - n - 1 \in Nat /\ (d - n - 1) + 1 = d - n
  BY <1>1
<1>3. Even(layer(s)[n], 4 * power[n] - 1) /\ Len(layer(s)[n]) = power[d - n]
  BY <1>2, LayerSizes
<1> HIDE DEF d
<1>4. power[d - n - 1] \in Nat /\ power[d - n] = 2 * power[d - n - 1]
  BY <1>2, PowerIs
<1>5. power[d - n] % 2 = 0
  BY <1>4
<1>6. layer(s)[n + 1] = pairs(layer(s)[n])
  BY <1>2, LayerIs
<1>7. QED
  BY <1>3, <1>5, <1>6 DEF d, Even

(* The siblings that step_proof gives are hashes of the layers.             *)
LEMMA StepProofIs ==
  ASSUME NEW s \in Seq(Step), Len(s) > 0, NEW i \in 0 .. Len(s) - 1
  PROVE  /\ step_proof(s, i).siblings \in Seq(Hash)
         /\ Len(step_proof(s, i).siblings) = depth(Len(s))
         /\ \A n \in 0 .. depth(Len(s)) - 1 :
              /\ step_proof(s, i).siblings[n + 1] = layer(s)[n][beside(halved(i)[n]) + 1]
              /\ step_proof(s, i).siblings[n + 1] \in Hash
              /\ Len(step_proof(s, i).siblings[n + 1]) = 4 * power[n] - 1
              /\ halved(i)[n] \in Nat /\ halved(i)[n] < Len(layer(s)[n])
<1> DEFINE d == depth(Len(s))
           ls == layer(s)
           pos == halved(i)
           At(n) == ls[n][beside(pos[n]) + 1]
           sibs == step_proof(s, i).siblings
<1>1. d \in Nat /\ i \in Nat /\ i < power[d]
  <2>1. Len(s) \in Nat
    OBVIOUS
  <2>2. d \in Nat /\ power[d] \in Nat /\ power[d] >= Len(s)
    BY <2>1, DepthIs
  <2> HIDE DEF d
  <2>3. QED
    BY <2>1, <2>2
<1>2. ASSUME NEW n \in 0 .. d - 1
      PROVE  At(n) \in Hash /\ Len(At(n)) = 4 * power[n] - 1 /\ pos[n] \in Nat /\ pos[n] < Len(ls[n])
  <2>1. /\ Even(ls[n], 4 * power[n] - 1) /\ Len(ls[n]) % 2 = 0 /\ ls[n] \in Seq(Hash)
        /\ Len(ls[n]) = power[d - n]
    BY LowerLayer
  <2>2. n \in 0 .. d
    BY <1>1
  <2> HIDE DEF d
  <2>3. pos[n] \in Nat /\ pos[n] < power[d - n]
    BY <1>1, <2>2, HalvedWithin
  <2> HIDE DEF ls, pos
  <2>4. beside(pos[n]) + 1 \in 1 .. Len(ls[n])
    BY <2>1, <2>3, PairUp
  <2> DEFINE l == ls[n]
             j == beside(pos[n]) + 1
  <2>5. l \in Seq(Hash) /\ j \in 1 .. Len(l) /\ \A k \in 1 .. Len(l) : Len(l[k]) = 4 * power[n] - 1
    BY <2>1, <2>4 DEF Even
  <2> HIDE DEF l, j
  <2>6. l[j] \in Hash /\ Len(l[j]) = 4 * power[n] - 1
    BY <2>5
  <2>7. QED
    BY <2>1, <2>3, <2>6 DEF l, j
<1>3. sibs = [n \in 1 .. d |-> At(n - 1)]
  BY DEF step_proof
<1> HIDE DEF sibs, At, d
<1>4. ASSUME NEW n \in 1 .. d PROVE n - 1 \in 0 .. d - 1 /\ At(n - 1) \in Hash
  <2>1. n - 1 \in 0 .. d - 1
    BY <1>1
  <2>2. QED
    BY <1>2, <2>1
<1>5. sibs \in Seq(Hash) /\ Len(sibs) = d
  BY <1>1, <1>3, <1>4
<1>6. ASSUME NEW n \in 0 .. d - 1 PROVE sibs[n + 1] = At(n)
  <2>1. n + 1 \in 1 .. d /\ (n + 1) - 1 = n
    BY <1>1
  <2>2. QED
    BY <1>3, <2>1
<1>7. QED
  BY <1>2, <1>5, <1>6 DEF sibs, At, d

LEMMA SidedIs ==
  ASSUME NEW proof, proof.siblings \in Seq(Hash)
  PROVE  /\ sided(proof) \in Seq(Sibling) /\ Len(sided(proof)) = Len(proof.siblings)
         /\ \A n \in 0 .. Len(proof.siblings) - 1 :
              sided(proof)[n + 1] = Sided(proof.siblings[n + 1], halved(proof.step.index)[n])
<1> DEFINE sibs == proof.siblings
           pos == halved(proof.step.index)
           m == Len(sibs)
           q == sided(proof)
<1>1. m \in Nat /\ \A n \in 1 .. m : sibs[n] \in Hash
  OBVIOUS
<1>2. q = [n \in 1 .. m |-> Sided(sibs[n], pos[n - 1])]
  BY DEF sided, Sided
<1> HIDE DEF sibs, pos, m, q
<1>3. \A n \in 1 .. m : Sided(sibs[n], pos[n - 1]) \in Sibling
  BY <1>1 DEF Sided, Sibling
<1>4. q \in Seq(Sibling) /\ Len(q) = m
  BY <1>1, <1>2, <1>3
<1>5. ASSUME NEW n \in 0 .. m - 1 PROVE q[n + 1] = Sided(sibs[n + 1], pos[n])
  <2>1. n + 1 \in 1 .. m /\ (n + 1) - 1 = n
    BY <1>1
  <2>2. QED
    BY <1>2, <2>1
<1>6. QED
  BY <1>4, <1>5 DEF sibs, pos, m, q

(* What the steps of verify_step come to.                                   *)
LEMMA VerifyClimbs ==
  ASSUME NEW proof, proof.siblings \in Seq(Hash), proof.step \in Step
  PROVE  \E h \in [0 .. Len(proof.siblings) -> Hash] :
           /\ h[0] = leaf_hash(proof.step)
           /\ climb(leaf_hash(proof.step), sided(proof)) = h[Len(proof.siblings)]
           /\ \A n \in 0 .. Len(proof.siblings) - 1 :
                h[n + 1] = Up(h[n], Sided(proof.siblings[n + 1], halved(proof.step.index)[n]))
<1> DEFINE q == sided(proof)
           m == Len(proof.siblings)
           leaf == leaf_hash(proof.step)
<1>1. /\ q \in Seq(Sibling) /\ Len(q) = m
      /\ \A n \in 0 .. m - 1 : q[n + 1] = Sided(proof.siblings[n + 1], halved(proof.step.index)[n])
  BY SidedIs
<1>2. leaf \in Hash
  BY LeafHashIs
<1> HIDE DEF q, m, leaf
<1>3. PICK h \in [0 .. Len(q) -> Hash] :
        /\ h[0] = leaf /\ climb(leaf, q) = h[Len(q)]
        /\ \A n \in 0 .. Len(q) - 1 : h[n + 1] = Up(h[n], q[n + 1])
  BY <1>1, <1>2, ClimbIs
<1>4. /\ h \in [0 .. m -> Hash] /\ h[0] = leaf /\ climb(leaf, q) = h[m]
      /\ \A n \in 0 .. m - 1 : h[n + 1] = Up(h[n], Sided(proof.siblings[n + 1], halved(proof.step.index)[n]))
  BY <1>1, <1>3
<1>5. QED
  BY <1>4 DEF q, m, leaf

LEMMA PositionWithin ==
  ASSUME NEW s \in Seq(Step), Len(s) > 0, NEW i \in Nat, i < Len(s)
  PROVE  /\ halved(i)[depth(Len(s))] = 0
         /\ \A n \in 0 .. depth(Len(s)) - 1 : halved(i)[n] \in Nat /\ halved(i)[n] < Len(layer(s)[n])
         /\ halved(i)[0] = i /\ \A n \in Nat : halved(i)[n + 1] = halved(i)[n] \div 2
<1> DEFINE d == depth(Len(s))
           pos == halved(i)
<1>1. Len(s) \in Nat /\ d \in Nat /\ power[d] \in Nat /\ power[d] >= Len(s)
  <2>1. Len(s) \in Nat
    OBVIOUS
  <2>2. QED
    BY <2>1, DepthIs
<1>2. i < power[d]
  <2> HIDE DEF d
  <2>1. QED
    BY <1>1
<1>3. pos[0] = i /\ \A n \in Nat : pos[n + 1] = pos[n] \div 2
  BY HalvedIs
<1>4. ASSUME NEW n \in 0 .. d - 1 PROVE pos[n] \in Nat /\ pos[n] < Len(layer(s)[n])
  <2>1. Len(layer(s)[n]) = power[d - n]
    BY LowerLayer
  <2> HIDE DEF d
  <2>2. n \in 0 .. d
    BY <1>1
  <2>3. QED
    BY <1>1, <1>2, <2>1, <2>2, HalvedWithin
<1> HIDE DEF d
<1>5. d \in 0 .. d /\ d - d = 0
  BY <1>1
<1>6. pos[d] \in Nat /\ pos[d] < power[0]
  BY <1>1, <1>2, <1>5, HalvedWithin
<1> HIDE DEF pos
<1>7. pos[d] = 0
  <2> DEFINE x == pos[d]
  <2>1. x \in Nat /\ x < 1
    BY <1>6, PowerIs
  <2> HIDE DEF x
  <2>2. x = 0
    BY <2>1
  <2>3. QED
    BY <2>2 DEF x
<1>8. QED
  BY <1>3, <1>4, <1>7 DEF d, pos

(* step_proof of a step leads to the root of its trace.                     *)
LEMMA OwnProofVerifies ==
  ASSUME NEW s \in Seq(Step), Len(s) > 0, NEW i \in 0 .. Len(s) - 1, s[i + 1].index = i,
         NEW rt, rt.step_count = Len(s), rt.merkle_root = build_merkle_root(s)
  PROVE  verify_step(step_proof(s, i), rt)
<1> DEFINE proof == step_proof(s, i)
           sibs == proof.siblings
           d == depth(Len(s))
           ls == layer(s)
           pos == halved(i)
<1>1. proof.step = s[i + 1] /\ proof.step_count = Len(s)
  BY DEF step_proof
<1>2. Len(s) \in Nat /\ i \in Nat /\ i < Len(s) /\ i + 1 \in 1 .. Len(s)
  <2>1. Len(s) \in Nat
    OBVIOUS
  <2>2. QED
    BY <2>1
<1>3. proof.step \in Step /\ proof.step.index = i
  BY <1>1, <1>2
<1>4. /\ sibs \in Seq(Hash) /\ Len(sibs) = d
      /\ \A n \in 0 .. d - 1 : sibs[n + 1] = ls[n][beside(pos[n]) + 1]
  BY StepProofIs
<1>5. /\ pos[d] = 0 /\ \A n \in 0 .. d - 1 : pos[n] \in Nat /\ pos[n] < Len(ls[n])
      /\ pos[0] = i /\ \A n \in Nat : pos[n + 1] = pos[n] \div 2
  BY <1>2, PositionWithin
<1>6. \A n \in 0 .. d - 1 : Len(ls[n]) % 2 = 0 /\ ls[n] \in Seq(Hash) /\ ls[n + 1] = pairs(ls[n])
  BY LowerLayer
<1>7. ls[0] = padded(s) /\ padded(s)[i + 1] = leaf_hash(s[i + 1])
  BY <1>2, LayerIs, PaddedIs
<1>8. d \in Nat
  BY <1>2, DepthIs
<1> HIDE DEF proof, d, ls, pos
<1>9. PICK h \in [0 .. d -> Hash] :
        /\ h[0] = leaf_hash(proof.step)
        /\ climb(leaf_hash(proof.step), sided(proof)) = h[d]
        /\ \A n \in 0 .. d - 1 : h[n + 1] = Up(h[n], Sided(sibs[n + 1], pos[n]))
  <2>1. PICK h \in [0 .. Len(sibs) -> Hash] :
          /\ h[0] = leaf_hash(proof.step)
          /\ climb(leaf_hash(proof.step), sided(proof)) = h[Len(sibs)]
          /\ \A n \in 0 .. Len(sibs) - 1 : h[n + 1] = Up(h[n], Sided(sibs[n + 1], halved(proof.step.index)[n]))
    BY <1>3, <1>4, VerifyClimbs
  <2>2. halved(proof.step.index) = pos
    BY <1>3 DEF pos
  <2>3. QED
    BY <1>4, <2>1, <2>2
<1> DEFINE T == {n \in Nat : n <= d => h[n] = ls[n][pos[n] + 1]}
<1>10. 0 \in T
  BY <1>1, <1>5, <1>7, <1>9
<1>11. ASSUME NEW n \in T PROVE n + 1 \in T
  <2> SUFFICES ASSUME n + 1 <= d PROVE h[n + 1] = ls[n + 1][pos[n + 1] + 1]
    BY <1>11
  <2>1. n \in 0 .. d - 1 /\ n \in Nat /\ n <= d
    BY <1>8, <1>11
  <2>2. h[n] = ls[n][pos[n] + 1]
    BY <1>11, <2>1
  <2>3. h[n + 1] = Up(ls[n][pos[n] + 1], Sided(ls[n][beside(pos[n]) + 1], pos[n]))
    BY <1>4, <1>9, <2>1, <2>2
  <2> HIDE DEF T
  <2>4. Up(ls[n][pos[n] + 1], Sided(ls[n][beside(pos[n]) + 1], pos[n])) = pairs(ls[n])[pos[n] \div 2 + 1]
    BY <1>5, <1>6, <2>1, PairUp
  <2>5. QED
    BY <1>5, <1>6, <2>1, <2>3, <2>4
<1>12. T = Nat
  <2> HIDE DEF T
  <2>1. T \in SUBSET Nat
    BY DEF T
  <2>2. QED
    BY <1>10, <1>11, <2>1, NatInd
<1>13. h[d] = ls[d][1]
  <2>1. d \in T /\ 0 + 1 = 1
    BY <1>8, <1>12
  <2>2. h[d] = ls[d][pos[d] + 1]
    BY <1>8, <2>1
  <2>3. QED
    BY <1>5, <2>1, <2>2
<1>14. rt.merkle_root = ls[d][1]
  BY DEF build_merkle_root, ls, d
<1>15. proof.step.index < proof.step_count /\ proof.step_count = rt.step_count /\ depth(proof.step_count) = d
  BY <1>1, <1>2, <1>3 DEF d
<1>16. verify_step(proof, rt)
  BY <1>4, <1>9, <1>13, <1>14, <1>15 DEF verify_step
<1>17. QED
  BY <1>16 DEF proof

(* Whatever leads to the root of a trace by siblings of the right lengths   *)
(* is the step that the trace has at that place.                            *)
LEMMA VerifiedIsThere ==
  ASSUME NEW t \in Seq(Step), Len(t) > 0, NEW proof, proof.step \in Step,
         proof.siblings \in Seq(Hash),
         \A n \in 0 .. Len(proof.siblings) - 1 : Len(proof.siblings[n + 1]) = 4 * power[n] - 1,
         NEW rt, rt.step_count = Len(t), rt.merkle_root = build_merkle_root(t), verify_step(proof, rt)
  PROVE  /\ proof.step.index < Len(t)
         /\ leaf_hash(proof.step) = leaf_hash(t[proof.step.index + 1])
<1> DEFINE i == proof.step.index
           sibs == proof.siblings
           d == depth(Len(t))
           ls == layer(t)
           pos == halved(i)
           leaf == leaf_hash(proof.step)
<1>1. i \in Nat /\ Len(t) \in Nat
  BY DEF Step
<1>2. i < Len(t) /\ Len(sibs) = d /\ climb(leaf, sided(proof)) = ls[d][1]
  BY DEF verify_step, build_merkle_root
<1> HIDE DEF i
<1>3. d \in Nat /\ i + 1 \in 1 .. Len(t)
  BY <1>1, <1>2, DepthIs
<1>4. /\ pos[d] = 0 /\ \A n \in 0 .. d - 1 : pos[n] \in Nat /\ pos[n] < Len(ls[n])
      /\ pos[0] = i /\ \A n \in Nat : pos[n + 1] = pos[n] \div 2
  BY <1>1, <1>2, PositionWithin
<1>5. \A n \in 0 .. d - 1 : /\ Len(ls[n]) % 2 = 0 /\ Even(ls[n], 4 * power[n] - 1)
                            /\ ls[n + 1] = pairs(ls[n])
  BY LowerLayer
<1>6. ls[0] = padded(t) /\ padded(t)[i + 1] = leaf_hash(t[i + 1])
  BY <1>3, LayerIs, PaddedIs
<1>7. leaf \in Hash /\ Len(leaf) = 3
  BY LeafHashIs
<1>8. PICK h \in [0 .. Len(sibs) -> Hash] :
        /\ h[0] = leaf /\ climb(leaf, sided(proof)) = h[Len(sibs)]
        /\ \A n \in 0 .. Len(sibs) - 1 : h[n + 1] = Up(h[n], Sided(sibs[n + 1], pos[n]))
  BY VerifyClimbs DEF i
<1>9. \A n \in 0 .. d - 1 : sibs[n + 1] \in Hash /\ Len(sibs[n + 1]) = 4 * power[n] - 1
  <2>1. ASSUME NEW n \in 0 .. d - 1 PROVE n + 1 \in 1 .. d
    BY <1>3
  <2>2. QED
    BY <1>2, <2>1
<1> HIDE DEF sibs, d, ls, pos, leaf
<1>10. /\ h \in [0 .. d -> Hash] /\ h[0] = leaf /\ h[d] = ls[d][1]
       /\ \A n \in 0 .. d - 1 : h[n + 1] = Up(h[n], Sided(sibs[n + 1], pos[n]))
  BY <1>2, <1>8
<1> DEFINE L == {n \in Nat : n <= d => Len(h[n]) = 4 * power[n] - 1}
<1>11. 0 \in L
  <2>1. 4 * power[0] - 1 = 3
    BY PowerIs
  <2>2. QED
    BY <1>7, <1>10, <2>1
<1>12. ASSUME NEW n \in L PROVE n + 1 \in L
  <2> SUFFICES ASSUME n + 1 <= d PROVE Len(h[n + 1]) = 4 * power[n + 1] - 1
    BY <1>12
  <2>1. n \in 0 .. d - 1 /\ n \in Nat /\ n <= d /\ n \in 0 .. d
    BY <1>3, <1>12
  <2>2. Len(h[n]) = 4 * power[n] - 1
    BY <1>12, <2>1
  <2> DEFINE x == h[n]
             y == sibs[n + 1]
             a == power[n]
  <2>3. x \in Hash /\ y \in Hash /\ Len(x) = 4 * a - 1 /\ Len(y) = 4 * a - 1 /\ h[n + 1] = Up(x, Sided(y, pos[n]))
    BY <1>9, <1>10, <2>1, <2>2
  <2>4. a \in Nat /\ power[n + 1] = 2 * a
    BY <2>1, PowerIs
  <2> HIDE DEF L, x, y, a
  <2>5. Up(x, Sided(y, pos[n])) = merkle_node(y, x) \/ Up(x, Sided(y, pos[n])) = merkle_node(x, y)
    BY DEF Up, Sided
  <2>6. Len(Up(x, Sided(y, pos[n]))) = 1 + (4 * a - 1) + (4 * a - 1)
    BY <2>3, <2>5, LenOfNode
  <2>7. 1 + (4 * a - 1) + (4 * a - 1) = 4 * (2 * a) - 1
    BY <2>4
  <2>8. QED
    BY <2>3, <2>4, <2>6, <2>7
<1>13. L = Nat
  <2> HIDE DEF L
  <2>1. L \in SUBSET Nat
    BY DEF L
  <2>2. QED
    BY <1>11, <1>12, <2>1, NatInd
<1>14. ASSUME NEW n \in 0 .. d PROVE Len(h[n]) = 4 * power[n] - 1
  <2>1. n \in Nat /\ n <= d
    BY <1>3
  <2>2. n \in L
    BY <1>13, <2>1, Zenon
  <2>3. QED
    BY <2>1, <2>2
<1> HIDE DEF L
<1> DEFINE T == {k \in Nat : k <= d => h[d - k] = ls[d - k][pos[d - k] + 1]}
<1>15. 0 \in T
  <2>1. d - 0 = d /\ 0 + 1 = 1
    BY <1>3
  <2>2. QED
    BY <1>4, <1>10, <2>1
<1>16. ASSUME NEW k \in T PROVE k + 1 \in T
  <2> DEFINE n == d - (k + 1)
  <2> SUFFICES ASSUME k + 1 <= d PROVE h[n] = ls[n][pos[n] + 1]
    BY <1>16
  <2>1. n \in 0 .. d - 1 /\ n \in 0 .. d /\ n \in Nat /\ n + 1 = d - k /\ k <= d
    BY <1>3, <1>16
  <2>2. h[d - k] = ls[d - k][pos[d - k] + 1]
    BY <1>16, <2>1
  <2> HIDE DEF n, T
  <2>3. h[n + 1] = pairs(ls[n])[pos[n] \div 2 + 1]
    BY <1>4, <1>5, <2>1, <2>2
  <2> DEFINE a == 4 * power[n] - 1
             x == h[n]
             y == sibs[n + 1]
             l == ls[n]
             p == pos[n]
  <2>4. a \in Nat
    <3>1. power[n] \in Nat /\ power[n] > n
      BY <2>1, PowerIs
    <3>2. QED
      BY <2>1, <3>1
  <2>5. Even(l, a) /\ Len(l) % 2 = 0 /\ p \in Nat /\ p < Len(l)
    BY <1>4, <1>5, <2>1
  <2>6. x \in Hash /\ Len(x) = a /\ y \in Hash /\ Len(y) = a
    BY <1>9, <1>10, <1>14, <2>1
  <2>7. Up(x, Sided(y, p)) = pairs(l)[p \div 2 + 1]
    BY <1>10, <2>1, <2>3
  <2> HIDE DEF a, x, y, l, p
  <2>8. x = l[p + 1]
    BY <2>4, <2>5, <2>6, <2>7, PairDown
  <2>9. QED
    BY <2>8 DEF x, l, p
<1>17. T = Nat
  <2> HIDE DEF T
  <2>1. T \in SUBSET Nat
    BY DEF T
  <2>2. QED
    BY <1>15, <1>16, <2>1, NatInd
<1>18. h[0] = ls[0][pos[0] + 1]
  <2>1. d \in T
    BY <1>3, <1>17
  <2>2. d <= d /\ d - d = 0
    BY <1>3
  <2>3. h[d - d] = ls[d - d][pos[d - d] + 1]
    BY <2>1, <2>2
  <2>4. QED
    BY <2>2, <2>3
<1>19. leaf = leaf_hash(t[i + 1])
  BY <1>4, <1>6, <1>10, <1>18
<1>20. QED
  BY <1>2, <1>19 DEF leaf, i

Recorded == [index : Nat, content : Content]

(* What a receipt commits to: the steps recorded first, and their root.     *)
Commits(rt, s) ==
  /\ s \in Seq(Recorded) /\ 0 < Len(s) /\ Len(s) <= Len(steps)
  /\ \A i \in 1 .. Len(s) : s[i] = steps[i]
  /\ rt.step_count = Len(s) /\ rt.merkle_root = build_merkle_root(s)

ProvInv ==
  /\ steps \in Seq(Recorded) /\ \A i \in 1 .. Len(steps) : steps[i].index = i - 1
  /\ DOMAIN receipt = Fingerprint /\ DOMAIN covers = Fingerprint
  /\ \A f \in Fingerprint : receipt[f] # NoRoot => Commits(receipt[f], covers[f])

LEMMA RecordedAreSteps == Recorded \subseteq Step
BY ProvenanceAssumption DEF Recorded, Step

LEMMA ProvInvInit == ProvInit => ProvInv
BY DEF ProvInit, ProvInv

LEMMA ProvInvStep == ProvInv /\ [ProvNext]_provVars => ProvInv'
<1> SUFFICES ASSUME ProvInv, [ProvNext]_provVars PROVE ProvInv'
  OBVIOUS
<1>1. ASSUME NEW c \in Content, Record(c) PROVE ProvInv'
  <2> DEFINE e == [index |-> Len(steps), content |-> c]
             m == Len(steps)
  <2>1. steps' = Append(steps, e) /\ receipt' = receipt /\ covers' = covers
    BY <1>1 DEF Record
  <2>2. steps \in Seq(Recorded) /\ m \in Nat /\ e \in Recorded /\ e.index = m
    BY DEF ProvInv, Recorded
  <2> HIDE DEF e
  <2>3. /\ steps' \in Seq(Recorded) /\ Len(steps') = m + 1 /\ steps'[m + 1] = e
        /\ \A i \in 1 .. m : steps'[i] = steps[i]
    BY <2>1, <2>2
  <2> HIDE DEF m
  <2>4. ASSUME NEW i \in 1 .. Len(steps') PROVE steps'[i].index = i - 1
    <3>1. CASE i = m + 1
      BY <2>2, <2>3, <3>1
    <3>2. CASE i # m + 1
      <4>1. i \in 1 .. m
        BY <2>2, <2>3, <3>2
      <4>2. QED
        BY <2>3, <4>1 DEF ProvInv, m
    <3>3. QED
      BY <3>1, <3>2
  <2>5. ASSUME NEW f \in Fingerprint, receipt'[f] # NoRoot PROVE Commits(receipt[f], covers[f])'
    <3> DEFINE s == covers[f]
    <3>1. /\ s \in Seq(Recorded) /\ 0 < Len(s) /\ Len(s) <= m /\ (\A i \in 1 .. Len(s) : s[i] = steps[i])
          /\ receipt[f].step_count = Len(s) /\ receipt[f].merkle_root = build_merkle_root(s)
      BY <2>1, <2>5 DEF ProvInv, Commits, m
    <3>2. Len(s) \in Nat
      BY <3>1
    <3>3. Len(s) <= Len(steps') /\ \A i \in 1 .. Len(s) : i \in 1 .. m
      BY <2>2, <2>3, <3>1, <3>2
    <3>4. \A i \in 1 .. Len(s) : s[i] = steps'[i]
      BY <2>3, <3>1, <3>3
    <3>5. covers'[f] = s /\ receipt'[f] = receipt[f]
      BY <2>1
    <3> HIDE DEF s
    <3>6. QED
      BY <3>1, <3>3, <3>4, <3>5 DEF Commits
  <2>6. QED
    BY <2>1, <2>3, <2>4, <2>5 DEF ProvInv
<1>2. ASSUME NEW f \in Fingerprint, Bind(f) PROVE ProvInv'
  <2>1. /\ steps # << >> /\ steps' = steps /\ receipt' = [receipt EXCEPT ![f] = finalize(steps, f)]
        /\ covers' = [covers EXCEPT ![f] = steps]
    BY <1>2 DEF Bind
  <2>2. DOMAIN receipt' = Fingerprint /\ DOMAIN covers' = Fingerprint
    BY <2>1 DEF ProvInv
  <2>3. ASSUME NEW g \in Fingerprint, receipt'[g] # NoRoot PROVE Commits(receipt[g], covers[g])'
    <3>1. CASE g = f
      <4>1. covers'[g] = steps /\ receipt'[g] = finalize(steps, f)
        BY <2>1, <3>1 DEF ProvInv
      <4>2. finalize(steps, f).step_count = Len(steps) /\ finalize(steps, f).merkle_root = build_merkle_root(steps)
        BY DEF finalize
      <4>3. steps \in Seq(Recorded) /\ 0 < Len(steps) /\ Len(steps) <= Len(steps)
        BY <2>1 DEF ProvInv
      <4>4. QED
        BY <2>1, <4>1, <4>2, <4>3 DEF Commits
    <3>2. CASE g # f
      <4>1. covers'[g] = covers[g] /\ receipt'[g] = receipt[g]
        BY <2>1, <3>2 DEF ProvInv
      <4>2. QED
        BY <2>1, <2>3, <4>1 DEF ProvInv, Commits
    <3>3. QED
      BY <3>1, <3>2
  <2>4. QED
    BY <2>1, <2>2, <2>3 DEF ProvInv
<1>3. ASSUME NEW f \in Fingerprint, NEW g \in Fingerprint, Attach(f, g) PROVE ProvInv'
  <2>1. /\ receipt[g] # NoRoot /\ steps' = steps /\ receipt' = [receipt EXCEPT ![f] = receipt[g]]
        /\ covers' = [covers EXCEPT ![f] = covers[g]]
    BY <1>3 DEF Attach
  <2>2. DOMAIN receipt' = Fingerprint /\ DOMAIN covers' = Fingerprint
    BY <2>1 DEF ProvInv
  <2>3. ASSUME NEW x \in Fingerprint, receipt'[x] # NoRoot PROVE Commits(receipt[x], covers[x])'
    <3>1. \E y \in Fingerprint : covers'[x] = covers[y] /\ receipt'[x] = receipt[y]
      BY <2>1 DEF ProvInv
    <3>2. QED
      BY <2>1, <2>3, <3>1 DEF ProvInv, Commits
  <2>4. QED
    BY <2>1, <2>2, <2>3 DEF ProvInv
<1>4. CASE UNCHANGED provVars
  BY <1>4 DEF provVars, ProvInv, Commits
<1>5. QED
  BY <1>1, <1>2, <1>3, <1>4 DEF ProvNext

(* A root of finalize in provenance.rs discloses, to verify, exactly the    *)
(* steps it was taken of, each at its own index, for traces of any length.  *)
THEOREM DisclosureExactAlways == ProvSpec => []DisclosureExact
<1>1. ASSUME ProvInv, NEW f \in Fingerprint, receipt[f] # NoRoot,
             NEW s \in {steps, covers[f]}, NEW claim \in Claim, NEW i \in 0 .. (Len(s) - 1),
             verify_step([step_proof(s, i) EXCEPT !.step = claim, !.step_count = receipt[f].step_count], receipt[f])
      PROVE  claim.index < Len(covers[f]) /\ covers[f][claim.index + 1] = claim
  <2> DEFINE t == covers[f]
             sibs == step_proof(s, i).siblings
             proof == [step_proof(s, i) EXCEPT !.step = claim, !.step_count = receipt[f].step_count]
             k == claim.index
  <2>1. /\ t \in Seq(Recorded) /\ Len(t) > 0 /\ (\A j \in 1 .. Len(t) : t[j] = steps[j])
        /\ receipt[f].step_count = Len(t) /\ receipt[f].merkle_root = build_merkle_root(t)
        /\ Len(t) <= Len(steps) /\ steps \in Seq(Recorded)
    <3>1. Commits(receipt[f], t) /\ steps \in Seq(Recorded)
      BY <1>1 DEF ProvInv
    <3> HIDE DEF t
    <3>2. t \in Seq(Recorded) /\ 0 < Len(t)
      BY <3>1 DEF Commits
    <3>3. Len(t) > 0
      BY <3>2
    <3>4. QED
      BY <3>1, <3>2, <3>3 DEF Commits
  <2>2. \A q \in Seq(Recorded) : q \in Seq(Step)
    BY RecordedAreSteps
  <2>3. t \in Seq(Step) /\ s \in Seq(Step) /\ Len(s) > 0
    <3>1. s \in Seq(Recorded) /\ Len(s) >= Len(t)
      BY <2>1
    <3> HIDE DEF t
    <3>2. Len(s) \in Nat /\ Len(t) \in Nat
      BY <2>1, <3>1
    <3>3. QED
      BY <2>1, <2>2, <3>1, <3>2
  <2>4. claim \in Recorded /\ claim \in Step /\ k \in Nat
    <3>1. claim \in [index : 0 .. MaxSteps, content : Content]
      BY DEF Claim
    <3>2. claim \in Recorded
      BY <3>1, ProvenanceAssumption DEF Recorded
    <3>3. k \in Nat
      BY <3>2 DEF Recorded
    <3>4. QED
      BY <3>2, <3>3, RecordedAreSteps
  <2>5. proof.step = claim /\ proof.siblings = sibs
    BY DEF step_proof
  <2>6. /\ sibs \in Seq(Hash)
        /\ \A n \in 0 .. depth(Len(s)) - 1 : Len(sibs[n + 1]) = 4 * power[n] - 1
        /\ Len(sibs) = depth(Len(s))
    BY <2>3, StepProofIs
  <2> HIDE DEF sibs, proof, t
  <2>7. verify_step(proof, receipt[f])
    BY <1>1 DEF proof
  <2>8. k < Len(t) /\ leaf_hash(claim) = leaf_hash(t[k + 1])
    BY <2>1, <2>3, <2>4, <2>5, <2>6, <2>7, VerifiedIsThere
  <2>9. k + 1 \in 1 .. Len(t)
    BY <2>1, <2>4, <2>8
  <2>10. t[k + 1] \in Recorded
    BY <2>1, <2>9
  <2> HIDE DEF k
  <2>11. claim = t[k + 1]
    <3> DEFINE x == t[k + 1]
    <3>1. claim \in Recorded /\ x \in Recorded /\ leaf_hash(claim) = leaf_hash(x)
      BY <2>4, <2>8, <2>10 DEF Recorded
    <3> HIDE DEF x
    <3>2. claim.index = x.index /\ claim.content = x.content
      BY <3>1 DEF leaf_hash
    <3>3. claim = x
      BY <3>1, <3>2 DEF Recorded
    <3>4. QED
      BY <3>3 DEF x
  <2>12. QED
    BY <2>8, <2>11 DEF k, t
<1>2. ASSUME ProvInv, NEW f \in Fingerprint, receipt[f] # NoRoot
      PROVE  /\ \A i \in 1 .. Len(covers[f]) : verify_step(step_proof(covers[f], i - 1), receipt[f])
             /\ steps # covers[f] =>
                  \A i \in 1 .. Len(steps) : ~ verify_step(step_proof(steps, i - 1), receipt[f])
  <2> DEFINE t == covers[f]
  <2>1. Commits(receipt[f], t) /\ steps \in Seq(Recorded)
    BY <1>2 DEF ProvInv
  <2> HIDE DEF t
  <2>2. /\ t \in Seq(Recorded) /\ 0 < Len(t) /\ (\A j \in 1 .. Len(t) : t[j] = steps[j])
        /\ receipt[f].step_count = Len(t) /\ receipt[f].merkle_root = build_merkle_root(t)
        /\ Len(t) <= Len(steps)
    BY <2>1 DEF Commits
  <2>3. t \in Seq(Step) /\ Len(t) \in Nat /\ Len(steps) \in Nat
    BY <2>1, <2>2, RecordedAreSteps
  <2>4. ASSUME NEW i \in 1 .. Len(t) PROVE verify_step(step_proof(t, i - 1), receipt[f])
    <3>1. i - 1 \in 0 .. Len(t) - 1 /\ (i - 1) + 1 = i /\ i \in 1 .. Len(steps) /\ Len(t) > 0
      BY <2>2, <2>3
    <3>2. t[i].index = i - 1
      BY <1>2, <2>2, <3>1 DEF ProvInv
    <3> DEFINE j == i - 1
    <3>3. j \in 0 .. Len(t) - 1 /\ t[j + 1].index = j
      BY <3>1, <3>2
    <3> HIDE DEF j
    <3>4. verify_step(step_proof(t, j), receipt[f])
      BY <2>2, <2>3, <3>1, <3>3, OwnProofVerifies
    <3>5. QED
      BY <3>4 DEF j
  <2>5. ASSUME steps # t, NEW i \in 1 .. Len(steps), verify_step(step_proof(steps, i - 1), receipt[f])
        PROVE  FALSE
    <3>1. Len(steps) = Len(t)
      BY <2>2, <2>5 DEF verify_step, step_proof
    <3>2. steps = [j \in 1 .. Len(steps) |-> steps[j]] /\ t = [j \in 1 .. Len(t) |-> t[j]]
      BY <2>1, <2>2
    <3>3. steps = t
      BY <2>2, <3>1, <3>2
    <3>4. QED
      BY <2>5, <3>3
  <2>6. QED
    BY <2>4, <2>5 DEF t
<1>3. ProvInv => DisclosureExact
  <2> SUFFICES ASSUME ProvInv PROVE DisclosureExact
    OBVIOUS
  <2>1. DisclosedWasRecorded
    BY <1>1 DEF DisclosedWasRecorded
  <2>2. CoveredCanBeDisclosed
    BY <1>2 DEF CoveredCanBeDisclosed
  <2>3. QED
    BY <2>1, <2>2 DEF DisclosureExact
<1>4. QED
  BY <1>3, ProvInvInit, ProvInvStep, PTL DEF ProvSpec
=============================================================================
