-------------------------------- MODULE Sums --------------------------------
(***************************************************************************)
(* Sums over finite sets of rows, and what the proofs need to know of      *)
(* them.  SumFunctionOnSet is the community modules' sum of the values of  *)
(* a function over a set of indices.  It is recursive: that the recursion  *)
(* has a solution, and that sums do not depend on the order in which the   *)
(* indices are taken, is proved here from the fact that strict inclusion   *)
(* is well-founded on the subsets of a finite set.                         *)
(***************************************************************************)
EXTENDS Integers, Functions, FiniteSetTheorems, TLAPS

\* The element the recursion of a sum takes first.
Pick(s) == CHOOSE x \in s : TRUE

\* g sums w over every subset of S, along the recursion of SumFunctionOnSet.
SumsUp(g, w, S) ==
  g = [s \in SUBSET S |-> IF s = {} THEN 0 ELSE w[Pick(s)] + g[s \ {Pick(s)}]]

\* g has the sum over every subset of S.
Tabulates(g, w, S) ==
  SumsUp(g, w, S) /\ \A t \in SUBSET S : SumFunctionOnSet(w, t) = g[t]

\* The part of g that concerns the subsets of t.
Below(g, t) == [u \in SUBSET t |-> g[u]]

\* Every set of subsets of a finite set has a member that contains no other.
LEMMA SmallestSubset ==
  ASSUME NEW S, IsFiniteSet(S), NEW T, T \subseteq SUBSET S, T # {}
  PROVE  \E s \in T : \A t \in T : t \subseteq s => t = s
<1>1. IsWellFoundedOn(StrictSubsetOrdering(S), SUBSET S)
  BY FS_StrictSubsetOrderingWellFounded, FS_FiniteSubsetsOfFinite
<1>2. PICK s \in T : \A t \in T : <<t, s>> \notin StrictSubsetOrdering(S)
  BY <1>1, WFMin
<1>3. ASSUME NEW t \in T, t \subseteq s PROVE t = s
  BY <1>2, <1>3 DEF StrictSubsetOrdering
<1>4. QED
  BY <1>2, <1>3

\* There is at most one way to sum up.
LEMMA SumsUpOnce ==
  ASSUME NEW S, IsFiniteSet(S), NEW w, NEW g, NEW h, SumsUp(g, w, S), SumsUp(h, w, S)
  PROVE  g = h
<1> DEFINE T == {s \in SUBSET S : g[s] # h[s]}
<1>1. SUFFICES ASSUME T # {} PROVE FALSE
  <2>1. DOMAIN g = SUBSET S /\ g = [s \in DOMAIN g |-> g[s]]
    BY DEF SumsUp
  <2>2. DOMAIN h = SUBSET S /\ h = [s \in DOMAIN h |-> h[s]]
    BY DEF SumsUp
  <2>3. QED
    BY <2>1, <2>2
<1>2. PICK s \in T : \A t \in T : t \subseteq s => t = s
  <2>1. T \subseteq SUBSET S
    OBVIOUS
  <2> HIDE DEF T
  <2>2. QED
    BY <1>1, <2>1, SmallestSubset
<1>3. CASE s = {}
  BY <1>3 DEF SumsUp
<1>4. CASE s # {}
  <2> DEFINE t == s \ {Pick(s)}
  <2>1. Pick(s) \in s
    BY <1>4 DEF Pick
  <2>2. t \in SUBSET S /\ t \subseteq s /\ t # s
    BY <2>1
  <2>3. g[t] = h[t]
    BY <1>2, <2>2
  <2>4. g[s] = w[Pick(s)] + g[t] /\ h[s] = w[Pick(s)] + h[t]
    BY <1>4 DEF SumsUp
  <2>5. QED
    BY <2>3, <2>4
<1>5. QED
  BY <1>3, <1>4

\* Summing up S sums up its subsets.
LEMMA SumsUpSubset ==
  ASSUME NEW S, NEW w, NEW g, SumsUp(g, w, S), NEW t \in SUBSET S
  PROVE  SumsUp(Below(g, t), w, t)
<1> DEFINE h == Below(g, t)
<1>2. ASSUME NEW u \in SUBSET t
      PROVE  h[u] = IF u = {} THEN 0 ELSE w[Pick(u)] + h[u \ {Pick(u)}]
  <2>1. u \in SUBSET S /\ u \ {Pick(u)} \in SUBSET t
    OBVIOUS
  <2>2. h[u] = g[u] /\ h[u \ {Pick(u)}] = g[u \ {Pick(u)}]
    BY <2>1 DEF Below
  <2>3. g[u] = IF u = {} THEN 0 ELSE w[Pick(u)] + g[u \ {Pick(u)}]
    BY <2>1 DEF SumsUp
  <2> HIDE DEF h
  <2>4. QED
    BY <2>2, <2>3
<1>3. h = [u \in SUBSET t |-> h[u]]
  BY DEF Below
<1> HIDE DEF h
<1>4. SumsUp(h, w, t)
  BY <1>2, <1>3, Zenon DEF SumsUp
<1>5. QED
  BY <1>4 DEF h

\* There is a way to sum up integers.
LEMMA SumsUpExists ==
  ASSUME NEW S, IsFiniteSet(S), NEW w, \A x \in S : w[x] \in Int
  PROVE  \E g \in [SUBSET S -> Int] : SumsUp(g, w, S)
<1> DEFINE Bad == {s \in SUBSET S : ~ \E g \in [SUBSET s -> Int] : SumsUp(g, w, s)}
<1>1. SUFFICES ASSUME Bad # {} PROVE FALSE
  OBVIOUS
<1>2. PICK s \in Bad : \A t \in Bad : t \subseteq s => t = s
  <2>1. Bad \subseteq SUBSET S
    OBVIOUS
  <2> HIDE DEF Bad
  <2>2. QED
    BY <1>1, <2>1, SmallestSubset
<1>3. \A t \in SUBSET s : t # s => \E g \in [SUBSET t -> Int] : SumsUp(g, w, t)
  BY <1>2
<1>4. \A t \in SUBSET s : IsFiniteSet(t)
  BY <1>2, FS_Subset
<1> DEFINE part[t \in SUBSET s] == CHOOSE g \in [SUBSET t -> Int] : SumsUp(g, w, t)
           top == IF s = {} THEN 0 ELSE w[Pick(s)] + part[s \ {Pick(s)}][s \ {Pick(s)}]
           G == [t \in SUBSET s |-> IF t = s THEN top ELSE part[t][t]]
<1>5. \A t \in SUBSET s : t # s => part[t] \in [SUBSET t -> Int] /\ SumsUp(part[t], w, t)
  BY <1>3
<1>6. \A t \in SUBSET s : t # s =>
        \A u \in SUBSET t : part[t][u] = part[u][u]
  <2>1. ASSUME NEW t \in SUBSET s, t # s, NEW u \in SUBSET t
        PROVE  part[t][u] = part[u][u]
    <3>1. u \in SUBSET s /\ u # s
      BY <2>1
    <3>2. SumsUp(part[t], w, t) /\ SumsUp(part[u], w, u)
      BY <1>5, <2>1, <3>1
    <3> HIDE DEF part
    <3>3. SumsUp(Below(part[t], u), w, u)
      BY <3>2, SumsUpSubset
    <3>4. Below(part[t], u) = part[u]
      BY <3>2, <3>3, <1>4, <3>1, SumsUpOnce
    <3>5. Below(part[t], u)[u] = part[t][u]
      BY DEF Below
    <3>6. QED
      BY <3>4, <3>5
  <2>2. QED
    BY <2>1
<1>7. ASSUME NEW t \in SUBSET s, t # {}
      PROVE  /\ Pick(t) \in t
             /\ t \ {Pick(t)} \in SUBSET s
             /\ t \ {Pick(t)} # s
             /\ t \ {Pick(t)} \in SUBSET t
             /\ w[Pick(t)] \in Int
  BY <1>2, <1>7 DEF Pick
<1>8. \A t \in SUBSET s : t # s => part[t][t] \in Int
  <2> HIDE DEF part
  <2>1. QED
    BY <1>5 DEF SumsUp
<1>9. top \in Int
  <2> HIDE DEF part
  <2>1. QED
    BY <1>7, <1>8
<1>10. G \in [SUBSET s -> Int]
  <2> HIDE DEF part, top
  <2>1. QED
    BY <1>8, <1>9
<1>11. ASSUME NEW t \in SUBSET s
       PROVE  G[t] = IF t = {} THEN 0 ELSE w[Pick(t)] + G[t \ {Pick(t)}]
  <2>1. CASE t = s
    <3>1. CASE s = {}
      BY <2>1, <3>1
    <3>2. CASE s # {}
      <4>1. G[s \ {Pick(s)}] = part[s \ {Pick(s)}][s \ {Pick(s)}]
        <5> HIDE DEF part, top
        <5>1. QED
          BY <3>2, <1>7
      <4>2. G[t] = w[Pick(s)] + part[s \ {Pick(s)}][s \ {Pick(s)}]
        <5> HIDE DEF part
        <5>1. QED
          BY <2>1, <3>2
      <4> HIDE DEF G, part
      <4>3. QED
        BY <2>1, <3>2, <4>1, <4>2
    <3>3. QED
      BY <3>1, <3>2
  <2>2. CASE t # s /\ t = {}
    <3>1. part[t][t] = 0
      <4> HIDE DEF part
      <4>1. QED
        BY <2>2, <1>5 DEF SumsUp
    <3> HIDE DEF part, top
    <3>2. QED
      BY <2>2, <3>1
  <2>3. CASE t # s /\ t # {}
    <3> DEFINE u == t \ {Pick(t)}
    <3>1. u \in SUBSET s /\ u # s /\ u \in SUBSET t
      BY <1>7, <2>3
    <3>2. G[t] = part[t][t] /\ G[u] = part[u][u]
      <4> HIDE DEF part, top
      <4>1. QED
        BY <2>3, <3>1
    <3>3. part[t][t] = w[Pick(t)] + part[t][u]
      <4> HIDE DEF part
      <4>1. SumsUp(part[t], w, t)
        BY <1>5, <2>3
      <4>2. QED
        BY <4>1, <2>3 DEF SumsUp
    <3>4. part[t][u] = part[u][u]
      <4> HIDE DEF part
      <4>1. QED
        BY <1>6, <2>3, <3>1
    <3> HIDE DEF G, part
    <3>5. QED
      BY <2>3, <3>2, <3>3, <3>4
  <2>4. QED
    BY <2>1, <2>2, <2>3
<1>12. SumsUp(G, w, s)
  <2>1. G = [t \in SUBSET s |-> G[t]]
    OBVIOUS
  <2> HIDE DEF G
  <2>2. QED
    BY <2>1, <1>11, Zenon DEF SumsUp
<1>13. QED
  BY <1>2, <1>10, <1>12

\* The sum over S is what summing up S comes to.
LEMMA SumIs ==
  ASSUME NEW S, IsFiniteSet(S), NEW w, \A x \in S : w[x] \in Int
  PROVE  \E g \in [SUBSET S -> Int] : SumsUp(g, w, S) /\ SumFunctionOnSet(w, S) = g[S]
<1>1. PICK g \in [SUBSET S -> Int] : SumsUp(g, w, S)
  BY SumsUpExists
<1> DEFINE h == CHOOSE h : SumsUp(h, w, S)
<1>2. SumsUp(h, w, S)
  BY <1>1
<1>3. h = g
  <2> HIDE DEF h
  <2>1. QED
    BY <1>1, <1>2, SumsUpOnce
<1>4. SumFunctionOnSet(w, S) = h[S]
  BY DEF SumFunctionOnSet, FoldFunctionOnSet, MapThenFoldSet, SumsUp, Pick
<1>5. QED
  BY <1>1, <1>3, <1>4

\* One table has the sums over all subsets of S.
LEMMA SumTable ==
  ASSUME NEW S, IsFiniteSet(S), NEW w, \A x \in S : w[x] \in Int
  PROVE  \E g \in [SUBSET S -> Int] : Tabulates(g, w, S)
<1>1. PICK g \in [SUBSET S -> Int] : SumsUp(g, w, S)
  BY SumsUpExists
<1>2. ASSUME NEW t \in SUBSET S PROVE SumFunctionOnSet(w, t) = g[t]
  <2>1. IsFiniteSet(t)
    BY FS_Subset
  <2>2. PICK h \in [SUBSET t -> Int] : SumsUp(h, w, t) /\ SumFunctionOnSet(w, t) = h[t]
    BY <2>1, SumIs
  <2>3. SumsUp(Below(g, t), w, t)
    BY <1>1, SumsUpSubset
  <2>4. Below(g, t) = h
    BY <2>1, <2>2, <2>3, SumsUpOnce
  <2>5. Below(g, t)[t] = g[t]
    BY DEF Below
  <2>6. QED
    BY <2>2, <2>4, <2>5
<1>3. QED
  BY <1>1, <1>2 DEF Tabulates

\* Sums of integers are integers, the sum of nothing is zero, and a sum is its first
\* element and the sum of the others.
LEMMA SumRecursion ==
  ASSUME NEW S, IsFiniteSet(S), NEW w, \A x \in S : w[x] \in Int
  PROVE  /\ \A t \in SUBSET S : SumFunctionOnSet(w, t) \in Int
         /\ SumFunctionOnSet(w, {}) = 0
         /\ \A t \in SUBSET S : t # {} =>
              SumFunctionOnSet(w, t) = w[Pick(t)] + SumFunctionOnSet(w, t \ {Pick(t)})
<1>1. PICK g \in [SUBSET S -> Int] : Tabulates(g, w, S)
  BY SumTable
<1>2. \A t \in SUBSET S : SumFunctionOnSet(w, t) = g[t]
  BY <1>1, Zenon DEF Tabulates
<1>3. \A t \in SUBSET S : g[t] = IF t = {} THEN 0 ELSE w[Pick(t)] + g[t \ {Pick(t)}]
  BY <1>1 DEF Tabulates, SumsUp
<1>4. \A t \in SUBSET S : SumFunctionOnSet(w, t) \in Int
  <2>1. TAKE t \in SUBSET S
  <2>2. g[t] \in Int
    OBVIOUS
  <2>3. QED
    BY <1>2, <2>2, Zenon
<1>5. SumFunctionOnSet(w, {}) = 0
  <2>1. {} \in SUBSET S
    OBVIOUS
  <2>2. SumFunctionOnSet(w, {}) = g[{}]
    BY <1>2, <2>1, Zenon
  <2>3. g[{}] = 0
    BY <1>3, <2>1
  <2>4. QED
    BY <2>2, <2>3, Zenon
<1>6. ASSUME NEW t \in SUBSET S, t # {}
      PROVE  SumFunctionOnSet(w, t) = w[Pick(t)] + SumFunctionOnSet(w, t \ {Pick(t)})
  <2>1. t \ {Pick(t)} \in SUBSET S
    OBVIOUS
  <2>2. SumFunctionOnSet(w, t) = g[t] /\ SumFunctionOnSet(w, t \ {Pick(t)}) = g[t \ {Pick(t)}]
    BY <1>2, <2>1, Zenon
  <2>3. g[t] = w[Pick(t)] + g[t \ {Pick(t)}]
    BY <1>3, <1>6
  <2>4. QED
    BY <2>2, <2>3
<1>7. QED
  BY <1>4, <1>5, <1>6

\* Any element of a set can be taken first.
THEOREM SumElement ==
  ASSUME NEW S, IsFiniteSet(S), NEW w, \A x \in S : w[x] \in Int, NEW x \in S
  PROVE  SumFunctionOnSet(w, S) = w[x] + SumFunctionOnSet(w, S \ {x})
<1> DEFINE Sum(t) == SumFunctionOnSet(w, t)
           Bad == {s \in SUBSET S : \E y \in s : Sum(s) # w[y] + Sum(s \ {y})}
<1>1. SUFFICES ASSUME Bad # {} PROVE FALSE
  OBVIOUS
<1>2. PICK s \in Bad : \A t \in Bad : t \subseteq s => t = s
  <2>1. Bad \subseteq SUBSET S
    OBVIOUS
  <2> HIDE DEF Bad
  <2>2. QED
    BY <1>1, <2>1, SmallestSubset
<1>3. PICK y \in s : Sum(s) # w[y] + Sum(s \ {y})
  BY <1>2
<1> DEFINE p == Pick(s)
<1>4. p \in s
  BY <1>3 DEF Pick
<1>5. /\ \A t \in SUBSET S : Sum(t) \in Int
      /\ Sum(s) = w[p] + Sum(s \ {p})
  BY <1>2, <1>3, SumRecursion
<1>6. y # p
  BY <1>3, <1>5
<1>7. Sum(s \ {p}) = w[y] + Sum((s \ {p}) \ {y})
  <2>1. s \ {p} \in SUBSET S /\ s \ {p} \subseteq s /\ s \ {p} # s /\ y \in s \ {p}
    BY <1>2, <1>3, <1>4, <1>6
  <2> HIDE DEF p, Sum
  <2>2. QED
    BY <1>2, <2>1
<1>8. Sum(s \ {y}) = w[p] + Sum((s \ {y}) \ {p})
  <2>1. s \ {y} \in SUBSET S /\ s \ {y} \subseteq s /\ s \ {y} # s /\ p \in s \ {y}
    BY <1>2, <1>3, <1>4, <1>6
  <2> HIDE DEF p, Sum
  <2>2. QED
    BY <1>2, <2>1
<1>9. (s \ {p}) \ {y} = (s \ {y}) \ {p} /\ (s \ {y}) \ {p} \in SUBSET S
  BY <1>2
<1>10. w[y] \in Int /\ w[p] \in Int
  BY <1>2, <1>3, <1>4
<1> DEFINE rest == Sum((s \ {y}) \ {p})
<1>11. rest \in Int
  BY <1>5, <1>9
<1>12. Sum(s \ {p}) = w[y] + rest
  BY <1>7, <1>9
<1>13. Sum(s \ {y}) = w[p] + rest
  BY <1>8
<1> HIDE DEF p, Sum, rest
<1>14. Sum(s) = w[p] + (w[y] + rest)
  BY <1>5, <1>12
<1>15. Sum(s) # w[y] + (w[p] + rest)
  BY <1>3, <1>13 DEF Sum
<1>16. QED
  BY <1>10, <1>11, <1>14, <1>15

\* The type of a sum, and the sum of nothing.
THEOREM SumType ==
  ASSUME NEW S, IsFiniteSet(S), NEW w, \A x \in S : w[x] \in Int
  PROVE  SumFunctionOnSet(w, S) \in Int /\ SumFunctionOnSet(w, {}) = 0
BY SumRecursion

\* A sum of natural numbers is one.
THEOREM SumNat ==
  ASSUME NEW S, IsFiniteSet(S), NEW w, \A x \in S : w[x] \in Nat
  PROVE  SumFunctionOnSet(w, S) \in Nat
<1> DEFINE Sum(t) == SumFunctionOnSet(w, t)
           Bad == {s \in SUBSET S : Sum(s) \notin Nat}
<1>1. SUFFICES ASSUME Bad # {} PROVE FALSE
  OBVIOUS
<1>2. PICK s \in Bad : \A t \in Bad : t \subseteq s => t = s
  <2>1. Bad \subseteq SUBSET S
    OBVIOUS
  <2> HIDE DEF Bad
  <2>2. QED
    BY <1>1, <2>1, SmallestSubset
<1>3. \A x \in S : w[x] \in Int
  OBVIOUS
<1>4. s # {}
  <2>1. SumFunctionOnSet(w, {}) = 0
    BY <1>3, SumRecursion
  <2>2. SumFunctionOnSet(w, s) \notin Nat
    BY <1>2
  <2>3. QED
    BY <2>1, <2>2
<1>5. Pick(s) \in s
  BY <1>4 DEF Pick
<1>6. Sum(s) = w[Pick(s)] + Sum(s \ {Pick(s)})
  BY <1>2, <1>3, <1>4, SumRecursion
<1>7. Sum(s \ {Pick(s)}) \in Nat
  BY <1>2, <1>5
<1> HIDE DEF Sum
<1>8. QED
  BY <1>2, <1>5, <1>6, <1>7 DEF Sum

\* Functions that agree on a set have one sum over it.
THEOREM SumSame ==
  ASSUME NEW S, IsFiniteSet(S), NEW w, NEW v, \A x \in S : w[x] \in Int /\ v[x] = w[x]
  PROVE  SumFunctionOnSet(v, S) = SumFunctionOnSet(w, S)
<1> DEFINE W(t) == SumFunctionOnSet(w, t)
           V(t) == SumFunctionOnSet(v, t)
           Bad == {s \in SUBSET S : V(s) # W(s)}
<1>1. SUFFICES ASSUME Bad # {} PROVE FALSE
  OBVIOUS
<1>2. PICK s \in Bad : \A t \in Bad : t \subseteq s => t = s
  <2>1. Bad \subseteq SUBSET S
    OBVIOUS
  <2> HIDE DEF Bad
  <2>2. QED
    BY <1>1, <2>1, SmallestSubset
<1>3. (\A x \in S : w[x] \in Int) /\ (\A x \in S : v[x] \in Int)
  OBVIOUS
<1>4. W({}) = 0 /\ V({}) = 0
  BY <1>3, SumRecursion
<1>5. s # {}
  BY <1>2, <1>4
<1>6. Pick(s) \in s
  BY <1>5 DEF Pick
<1>7. W(s) = w[Pick(s)] + W(s \ {Pick(s)})
  BY <1>2, <1>3, <1>5, SumRecursion
<1>8. V(s) = v[Pick(s)] + V(s \ {Pick(s)})
  BY <1>2, <1>3, <1>5, SumRecursion
<1>9. V(s \ {Pick(s)}) = W(s \ {Pick(s)})
  BY <1>2, <1>6
<1> HIDE DEF V, W
<1>10. QED
  BY <1>2, <1>6, <1>7, <1>8, <1>9 DEF V, W

\* A sum grows by the element that is added to its set.
THEOREM SumAdd ==
  ASSUME NEW S, IsFiniteSet(S), NEW x, x \notin S,
         NEW w, \A y \in S \cup {x} : w[y] \in Int
  PROVE  SumFunctionOnSet(w, S \cup {x}) = SumFunctionOnSet(w, S) + w[x]
<1>1. IsFiniteSet(S \cup {x}) /\ (S \cup {x}) \ {x} = S /\ w[x] \in Int
  BY FS_AddElement
<1>2. SumFunctionOnSet(w, S \cup {x}) = w[x] + SumFunctionOnSet(w, (S \cup {x}) \ {x})
  BY <1>1, SumElement
<1>3. SumFunctionOnSet(w, S) \in Int
  BY SumType
<1>4. SumFunctionOnSet(w, S \cup {x}) = w[x] + SumFunctionOnSet(w, S)
  BY <1>1, <1>2
<1>5. QED
  BY <1>1, <1>3, <1>4

\* A sum changes by what one of its values changes.
THEOREM SumChange ==
  ASSUME NEW S, IsFiniteSet(S), NEW x \in S,
         NEW w, \A y \in S : w[y] \in Int,
         NEW v, v[x] \in Int, \A y \in S \ {x} : v[y] = w[y]
  PROVE  SumFunctionOnSet(v, S) = SumFunctionOnSet(w, S) - w[x] + v[x]
<1>1. IsFiniteSet(S \ {x})
  BY FS_RemoveElement
<1>2. SumFunctionOnSet(v, S) = v[x] + SumFunctionOnSet(v, S \ {x})
  BY SumElement
<1>3. SumFunctionOnSet(w, S) = w[x] + SumFunctionOnSet(w, S \ {x})
  BY SumElement
<1>4. SumFunctionOnSet(v, S \ {x}) = SumFunctionOnSet(w, S \ {x})
  BY <1>1, SumSame
<1>5. SumFunctionOnSet(w, S \ {x}) \in Int /\ w[x] \in Int
  BY <1>1, SumType
<1>6. QED
  BY <1>2, <1>3, <1>4, <1>5

\* The sum of sums.
THEOREM SumPlus ==
  ASSUME NEW S, IsFiniteSet(S),
         NEW w, \A x \in S : w[x] \in Int,
         NEW v, \A x \in S : v[x] \in Int,
         NEW u, \A x \in S : u[x] = w[x] + v[x]
  PROVE  SumFunctionOnSet(u, S) = SumFunctionOnSet(w, S) + SumFunctionOnSet(v, S)
<1> DEFINE W(t) == SumFunctionOnSet(w, t)
           V(t) == SumFunctionOnSet(v, t)
           U(t) == SumFunctionOnSet(u, t)
           Bad == {s \in SUBSET S : U(s) # W(s) + V(s)}
<1>1. SUFFICES ASSUME Bad # {} PROVE FALSE
  OBVIOUS
<1>2. PICK s \in Bad : \A t \in Bad : t \subseteq s => t = s
  <2>1. Bad \subseteq SUBSET S
    OBVIOUS
  <2> HIDE DEF Bad
  <2>2. QED
    BY <1>1, <2>1, SmallestSubset
<1>3. \A x \in S : u[x] \in Int
  OBVIOUS
<1>4. W({}) = 0 /\ V({}) = 0 /\ U({}) = 0
  BY <1>3, SumRecursion
<1>5. s # {}
  <2>1. U(s) # W(s) + V(s)
    BY <1>2
  <2>2. U({}) = W({}) + V({})
    BY <1>4
  <2> HIDE DEF U, V, W
  <2>3. QED
    BY <2>1, <2>2
<1>6. Pick(s) \in s
  BY <1>5 DEF Pick
<1> DEFINE t == s \ {Pick(s)}
<1>7. W(s) = w[Pick(s)] + W(t) /\ W(t) \in Int
  BY <1>2, <1>5, SumRecursion
<1>8. V(s) = v[Pick(s)] + V(t) /\ V(t) \in Int
  BY <1>2, <1>5, SumRecursion
<1>9. U(s) = u[Pick(s)] + U(t)
  BY <1>2, <1>3, <1>5, SumRecursion
<1>10. U(t) = W(t) + V(t)
  BY <1>2, <1>6
<1>11. /\ w[Pick(s)] \in Int
       /\ v[Pick(s)] \in Int
       /\ u[Pick(s)] = w[Pick(s)] + v[Pick(s)]
  BY <1>2, <1>6
<1>12. U(s) # W(s) + V(s)
  BY <1>2
<1> HIDE DEF U, V, W, t
<1>13. QED
  BY <1>7, <1>8, <1>9, <1>10, <1>11, <1>12

\* A sum of terms none of which exceeds k is at most k times their number.
THEOREM SumAtMost ==
  ASSUME NEW S, IsFiniteSet(S), NEW k \in Nat, NEW w, \A x \in S : w[x] \in 0..k
  PROVE  SumFunctionOnSet(w, S) \in Nat /\ SumFunctionOnSet(w, S) <= k * Cardinality(S)
<1> DEFINE Sum(t) == SumFunctionOnSet(w, t)
           Bad == {s \in SUBSET S : ~ (Sum(s) <= k * Cardinality(s))}
<1>1. (\A x \in S : w[x] \in Int) /\ (\A x \in S : w[x] \in Nat)
  OBVIOUS
<1>2. Bad = {}
  <2>1. SUFFICES ASSUME Bad # {} PROVE FALSE
    OBVIOUS
  <2>2. PICK s \in Bad : \A t \in Bad : t \subseteq s => t = s
    <3>1. Bad \subseteq SUBSET S
      OBVIOUS
    <3> HIDE DEF Bad
    <3>2. QED
      BY <2>1, <3>1, SmallestSubset
  <2>3. s \subseteq S /\ IsFiniteSet(s) /\ ~ (Sum(s) <= k * Cardinality(s))
    BY <2>2, FS_Subset
  <2>4. s # {}
    <3>1. SumFunctionOnSet(w, {}) = 0 /\ Cardinality({}) = 0
      BY <1>1, SumRecursion, FS_EmptySet
    <3>2. SumFunctionOnSet(w, {}) <= k * Cardinality({})
      BY <3>1
    <3>3. QED
      BY <2>3, <3>2
  <2>5. Pick(s) \in s
    BY <2>4 DEF Pick
  <2> DEFINE t == s \ {Pick(s)}
  <2>6. Sum(s) = w[Pick(s)] + Sum(t) /\ Sum(t) \in Int
    BY <1>1, <2>3, <2>4, SumRecursion
  <2>7. IsFiniteSet(t) /\ Cardinality(t) = Cardinality(s) - 1
    BY <2>3, <2>5, FS_RemoveElement
  <2>8. Cardinality(s) \in Nat
    BY <2>3, FS_CardinalityType
  <2>9. Sum(t) <= k * Cardinality(t)
    BY <2>2, <2>5
  <2>10. w[Pick(s)] \in Int /\ w[Pick(s)] <= k
    BY <2>3, <2>5
  <2>11. k * (Cardinality(s) - 1) = k * Cardinality(s) - k
    BY <2>8
  <2>12. k * Cardinality(s) \in Int
    BY <2>8
  <2>13. Sum(t) <= k * Cardinality(s) - k
    BY <2>7, <2>9, <2>11
  <2> HIDE DEF Sum, t
  <2>14. QED
    BY <2>3, <2>6, <2>10, <2>12, <2>13
<1>3. S \notin Bad
  BY <1>2
<1>4. SumFunctionOnSet(w, S) <= k * Cardinality(S)
  BY <1>3
<1>5. QED
  BY <1>1, <1>4, SumNat

\* A sum over fewer elements, with smaller values, is no greater.
THEOREM SumMonotone ==
  ASSUME NEW S, IsFiniteSet(S), NEW w, \A x \in S : w[x] \in Nat,
         NEW A, A \subseteq S, NEW v, \A x \in A : v[x] \in Nat /\ v[x] <= w[x]
  PROVE  SumFunctionOnSet(v, A) <= SumFunctionOnSet(w, S)
<1> DEFINE W(s) == SumFunctionOnSet(w, s)
           V(s) == SumFunctionOnSet(v, s \cap A)
           Bad == {s \in SUBSET S : ~ (V(s) <= W(s))}
<1>1. SUFFICES ASSUME Bad # {} PROVE FALSE
  <2>1. S \cap A = A
    OBVIOUS
  <2>2. Bad = {} => V(S) <= W(S)
    OBVIOUS
  <2>3. QED
    BY <2>1, <2>2
<1>2. PICK s \in Bad : \A t \in Bad : t \subseteq s => t = s
  <2>1. Bad \subseteq SUBSET S
    OBVIOUS
  <2> HIDE DEF Bad
  <2>2. QED
    BY <1>1, <2>1, SmallestSubset
<1>3. s \subseteq S /\ IsFiniteSet(s) /\ ~ (V(s) <= W(s))
  BY <1>2, FS_Subset
<1>4. PICK p : p \in s
  <2>1. SUFFICES ASSUME s = {} PROVE FALSE
    OBVIOUS
  <2>2. \A x \in {} : w[x] \in Int /\ v[x] \in Int
    OBVIOUS
  <2>3. SumFunctionOnSet(w, {}) = 0 /\ SumFunctionOnSet(v, {}) = 0
    BY <2>2, SumType, FS_EmptySet
  <2>4. {} \cap A = {}
    OBVIOUS
  <2>5. QED
    BY <1>3, <2>1, <2>3, <2>4
<1> DEFINE t == s \ {p}
<1>5. /\ t \subseteq S /\ IsFiniteSet(t) /\ p \notin t /\ s = t \cup {p}
      /\ IsFiniteSet(t \cap A) /\ p \notin t \cap A
  <2>1. IsFiniteSet(t)
    BY <1>3, FS_Subset
  <2>2. IsFiniteSet(t \cap A)
    BY <2>1, FS_Subset
  <2>3. QED
    BY <1>3, <1>4, <2>1, <2>2
<1>6. V(t) <= W(t)
  BY <1>2, <1>4, <1>5
<1>7. W(t) \in Nat /\ W(s) = W(t) + w[p] /\ w[p] \in Nat
  <2>1. \A y \in t \cup {p} : w[y] \in Nat
    BY <1>3, <1>4
  <2>2. W(t) \in Nat
    BY <1>5, <2>1, SumNat
  <2>3. \A y \in t \cup {p} : w[y] \in Int
    BY <2>1
  <2>4. W(t \cup {p}) = W(t) + w[p]
    <3> HIDE DEF t
    <3>1. QED
      BY <1>5, <2>3, SumAdd
  <2>5. QED
    BY <1>5, <2>1, <2>2, <2>4
<1>8. V(t) \in Nat
  <2>1. \A y \in t \cap A : v[y] \in Nat
    OBVIOUS
  <2>2. QED
    BY <1>5, <2>1, SumNat
<1>9. CASE p \in A
  <2>1. s \cap A = (t \cap A) \cup {p}
    BY <1>4, <1>9
  <2>2. \A y \in (t \cap A) \cup {p} : v[y] \in Int
    BY <1>9
  <2>3. V(s) = V(t) + v[p]
    BY <1>5, <2>1, <2>2, SumAdd
  <2>4. v[p] \in Nat /\ v[p] <= w[p]
    BY <1>9
  <2> HIDE DEF V, W
  <2>5. QED
    BY <1>3, <1>6, <1>7, <1>8, <2>3, <2>4
<1>10. CASE p \notin A
  <2>1. s \cap A = t \cap A
    BY <1>4, <1>10
  <2>2. V(s) = V(t)
    BY <2>1
  <2> HIDE DEF V, W
  <2>3. QED
    BY <1>3, <1>6, <1>7, <1>8, <2>2
<1>11. QED
  BY <1>9, <1>10

\* The sum over a sequence that was extended is the sum over what it was, and over what was
\* appended.
THEOREM SumAppend ==
  ASSUME NEW m \in Nat, NEW n \in Nat, NEW v, \A k \in 1..(m + n) : v[k] \in Int,
         NEW w, \A k \in 1..n : w[k] = v[m + k]
  PROVE  SumFunctionOnSet(v, 1..(m + n)) = SumFunctionOnSet(v, 1..m) + SumFunctionOnSet(w, 1..n)
<1> DEFINE Holds(j) ==
             SumFunctionOnSet(v, 1..(m + j)) = SumFunctionOnSet(v, 1..m) + SumFunctionOnSet(w, 1..j)
           Bad == {s \in SUBSET (1..n) : \E j \in 0..n : s = 1..j /\ ~ Holds(j)}
<1>1. SUFFICES ASSUME Bad # {} PROVE FALSE
  <2>1. n \in 0..n /\ 1..n \in SUBSET (1..n)
    OBVIOUS
  <2>2. Bad = {} => Holds(n)
    BY <2>1
  <2>3. QED
    BY <2>2
<1>2. PICK s \in Bad : \A t \in Bad : t \subseteq s => t = s
  <2> DEFINE R == 1..n
  <2>1. Bad \subseteq SUBSET R
    OBVIOUS
  <2>2. IsFiniteSet(R)
    BY FS_Interval
  <2> HIDE DEF R
  <2> HIDE DEF Bad
  <2>3. QED
    BY <1>1, <2>1, <2>2, SmallestSubset
<1>3. PICK j \in 0..n : s = 1..j /\ ~ Holds(j)
  BY <1>2
<1>4. /\ IsFiniteSet(1..m) /\ \A i \in Nat : IsFiniteSet(1..i)
  BY FS_Interval
<1>5. CASE j = 0
  <2>1. m + j = m /\ 1..j = {}
    BY <1>5
  <2>2. \A x \in {} : w[x] \in Int
    OBVIOUS
  <2>3. SumFunctionOnSet(w, {}) = 0
    BY <2>2, SumType, FS_EmptySet
  <2>4. SumFunctionOnSet(v, 1..m) \in Int
    <3>1. \A k \in 1..m : v[k] \in Int
      OBVIOUS
    <3>2. QED
      BY <1>4, <3>1, SumType
  <2>5. QED
    BY <1>3, <2>1, <2>3, <2>4
<1>6. CASE j # 0
  <2>1. PICK i \in Nat : j = i + 1
    <3>1. j - 1 \in Nat /\ j = (j - 1) + 1
      BY <1>6
    <3>2. QED
      BY <3>1
  <2>2. /\ i \in 0..n /\ i < n /\ m + i \in Nat /\ m + j = (m + i) + 1
        /\ 1..i \in SUBSET (1..n) /\ 1..i \subseteq s /\ 1..i # s
    <3>1. j \in 1..j /\ j \notin 1..i
      BY <2>1
    <3>2. QED
      BY <1>3, <2>1, <3>1
  <2>3. Holds(i)
    BY <1>2, <2>2
  <2>3a. PICK p \in Nat : p = m + i
    BY <2>2
  <2>4. PICK A : A = 1..p
    OBVIOUS
  <2>5. PICK B : B = 1..i
    OBVIOUS
  <2>6. PICK x \in Nat : x = m + j
    OBVIOUS
  <2>7. 1..x = A \cup {x} /\ x \notin A /\ IsFiniteSet(A)
    <3>1. x = p + 1
      BY <2>1, <2>3a, <2>6
    <3>2. 1..(p + 1) = (1..p) \cup {p + 1} /\ p + 1 \notin 1..p
      OBVIOUS
    <3>3. IsFiniteSet(A)
      BY <1>4, <2>4
    <3>4. QED
      BY <2>4, <3>1, <3>2, <3>3
  <2>8. 1..j = B \cup {j} /\ j \notin B /\ IsFiniteSet(B)
    BY <1>4, <2>1, <2>5
  <2>9. \A y \in A \cup {x} : v[y] \in Int
    <3>1. A \cup {x} \subseteq 1..(m + n)
      BY <2>1, <2>2, <2>3a, <2>4, <2>6
    <3>2. QED
      BY <3>1
  <2>10. \A y \in B \cup {j} : w[y] \in Int
    <3>1. ASSUME NEW y \in B \cup {j} PROVE w[y] \in Int
      <4>1. y \in 1..n /\ m + y \in 1..(m + n)
        BY <2>1, <2>2, <2>5
      <4>2. QED
        BY <4>1
    <3>2. QED
      BY <3>1
  <2>11. SumFunctionOnSet(v, A \cup {x}) = SumFunctionOnSet(v, A) + v[x]
    BY ONLY <2>7, <2>9, SumAdd
  <2>12. SumFunctionOnSet(w, B \cup {j}) = SumFunctionOnSet(w, B) + w[j]
    BY ONLY <2>8, <2>10, SumAdd
  <2>13. w[j] = v[x] /\ w[j] \in Int
    BY <1>6, <2>6, <2>10
  <2>14. SumFunctionOnSet(v, 1..m) \in Int
    <3>1. \A k \in 1..m : v[k] \in Int
      OBVIOUS
    <3>2. QED
      BY <1>4, <3>1, SumType
  <2>15. SumFunctionOnSet(w, B) \in Int
    <3>1. \A k \in B : w[k] \in Int
      BY <2>10
    <3>2. QED
      BY <2>8, <3>1, SumType
  <2>16. SumFunctionOnSet(v, A) = SumFunctionOnSet(v, 1..m) + SumFunctionOnSet(w, B)
    BY <2>3, <2>3a, <2>4, <2>5
  <2>17. SumFunctionOnSet(v, 1..x) = SumFunctionOnSet(v, 1..m) + SumFunctionOnSet(w, 1..j)
    <3>1. SumFunctionOnSet(v, 1..x) = SumFunctionOnSet(v, A) + v[x]
      BY <2>7, <2>11
    <3>2. SumFunctionOnSet(w, 1..j) = SumFunctionOnSet(w, B) + w[j]
      BY <2>8, <2>12
    <3>3. QED
      BY ONLY <2>13, <2>14, <2>15, <2>16, <3>1, <3>2
  <2>18. QED
    BY <1>3, <2>6, <2>17
<1>7. QED
  BY <1>5, <1>6

\* A finite set of numbers has a greatest.
THEOREM LargestExists ==
  ASSUME NEW S, S \subseteq Int, IsFiniteSet(S), S # {}
  PROVE  \E m \in S : \A y \in S : y <= m
<1> DEFINE Bad == {s \in SUBSET S : s # {} /\ ~ \E m \in s : \A y \in s : y <= m}
<1>1. SUFFICES ASSUME Bad # {} PROVE FALSE
  OBVIOUS
<1>2. PICK s \in Bad : \A t \in Bad : t \subseteq s => t = s
  <2>1. Bad \subseteq SUBSET S
    OBVIOUS
  <2>2. IsFiniteSet(S)
    OBVIOUS
  <2> HIDE DEF Bad
  <2>3. QED
    BY ONLY <1>1, <2>1, <2>2, SmallestSubset
<1>3. PICK x \in s : TRUE
  OBVIOUS
<1>4. s \ {x} \notin Bad
  BY <1>2, <1>3
<1>5. s \ {x} # {}
  <2>1. SUFFICES ASSUME s = {x} PROVE FALSE
    BY <1>3
  <2>2. x <= x /\ x \in Int
    BY <1>3
  <2>3. \A y \in s : y <= x
    BY <2>1, <2>2
  <2>4. QED
    BY <1>3, <2>3
<1>6. PICK m \in s \ {x} : \A y \in s \ {x} : y <= m
  BY <1>4, <1>5
<1>7. m \in Int /\ x \in Int
  BY <1>3, <1>6
<1>8. CASE x <= m
  BY <1>6, <1>8
<1>9. CASE m <= x
  <2>1. \A y \in s : y <= x
    BY <1>6, <1>7, <1>9
  <2>2. QED
    BY <1>3, <2>1
<1>10. QED
  BY <1>7, <1>8, <1>9

====
