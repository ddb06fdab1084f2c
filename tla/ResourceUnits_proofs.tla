------------------------ MODULE ResourceUnits_proofs ------------------------
(***************************************************************************)
(* What the ledger's sums satisfy, for every finite set and every natural  *)
(* function: the facts about Total that Ledger_proofs cites.               *)
(***************************************************************************)
EXTENDS ResourceUnits, FiniteSetTheorems, TLAPS

\* A member of Units(S, f) is a pair of a member of S and one of its units.
LEMMA UnitsMember ==
    ASSUME NEW S, NEW f, NEW u
    PROVE  u \in Units(S, f) <=> \E i \in S, k \in Int : k \in 1 .. f[i] /\ u = <<i, k>>
BY DEF Units

\* Finitely many summands have finitely many units, so a sum is a natural.
LEMMA TotalType ==
    ASSUME NEW S, IsFiniteSet(S), NEW f, \A i \in S : f[i] \in Nat
    PROVE  IsFiniteSet(Units(S, f)) /\ Total(S, f) \in Nat
<1> DEFINE part == [i \in S |-> {i} \X (1 .. f[i])]
           parts == {{i} \X (1 .. f[i]) : i \in S}
<1>1. part \in Surjection(S, parts)
  BY DEF Surjection
<1>2. IsFiniteSet(parts)
  BY <1>1, FS_Surjection
<1>3. \A i \in S : IsFiniteSet({i} \X (1 .. f[i]))
  <2> TAKE i \in S
  <2>1. IsFiniteSet({i})
    BY FS_Singleton
  <2>2. f[i] \in Int
    OBVIOUS
  <2>3. IsFiniteSet(1 .. f[i])
    BY <2>2, FS_Interval
  <2> QED
    BY <2>1, <2>3, FS_Product
<1>4. IsFiniteSet(Units(S, f))
  BY <1>2, <1>3, FS_UNION DEF Units
<1> QED
  BY <1>4, FS_CardinalityType DEF Total

\* A sum depends on its summands alone.
LEMMA TotalCongruence ==
    ASSUME NEW S, NEW f, NEW g, \A i \in S : f[i] = g[i]
    PROVE  Total(S, f) = Total(S, g)
<1>1. Units(S, f) = Units(S, g)
  BY DEF Units
<1> QED
  BY <1>1 DEF Total

\* More and larger summands make a sum no smaller.
LEMMA TotalMonotone ==
    ASSUME NEW T, IsFiniteSet(T), NEW S \in SUBSET T, NEW f, NEW g,
           \A i \in T : g[i] \in Nat,
           \A i \in S : f[i] \in Nat /\ f[i] <= g[i]
    PROVE  Total(S, f) <= Total(T, g)
<1>1. Units(S, f) \subseteq Units(T, g)
  <2> SUFFICES ASSUME NEW u \in Units(S, f) PROVE u \in Units(T, g)
    OBVIOUS
  <2>1. PICK i \in S, k \in Int : k \in 1 .. f[i] /\ u = <<i, k>>
    BY UnitsMember
  <2>2. i \in T /\ k \in 1 .. g[i]
    BY <2>1
  <2> QED
    BY <2>1, <2>2, UnitsMember
<1> QED
  BY <1>1, TotalType, FS_Subset DEF Total

\* The sum over two disjoint parts is the sum of their sums.
LEMMA TotalDisjoint ==
    ASSUME NEW S, IsFiniteSet(S), NEW T, IsFiniteSet(T), S \cap T = {},
           NEW f, \A i \in S \cup T : f[i] \in Nat
    PROVE  Total(S \cup T, f) = Total(S, f) + Total(T, f)
<1>1. Units(S \cup T, f) = Units(S, f) \cup Units(T, f)
  BY DEF Units
<1>2. Units(S, f) \cap Units(T, f) = {}
  <2> SUFFICES ASSUME NEW u, u \in Units(S, f), u \in Units(T, f) PROVE FALSE
    OBVIOUS
  <2>1. PICK i \in S, k \in Int : k \in 1 .. f[i] /\ u = <<i, k>>
    BY UnitsMember
  <2>2. PICK j \in T, l \in Int : l \in 1 .. f[j] /\ u = <<j, l>>
    BY UnitsMember
  <2> QED
    BY <2>1, <2>2
<1>3. IsFiniteSet(Units(S, f)) /\ IsFiniteSet(Units(T, f))
  BY TotalType
<1>4. Cardinality(Units(S, f) \cap Units(T, f)) = 0
  BY <1>2, FS_EmptySet
<1>5. Total(S, f) \in Nat /\ Total(T, f) \in Nat
  BY TotalType
<1>6. Cardinality(Units(S, f) \cup Units(T, f))
        = Cardinality(Units(S, f)) + Cardinality(Units(T, f))
            - Cardinality(Units(S, f) \cap Units(T, f))
  BY <1>3, FS_Union
<1>7. Cardinality(Units(S, f) \cup Units(T, f)) = Total(S \cup T, f)
  BY <1>1 DEF Total
<1>8. Cardinality(Units(S, f)) = Total(S, f) /\ Cardinality(Units(T, f)) = Total(T, f)
  BY DEF Total
<1> QED
  BY <1>4, <1>5, <1>6, <1>7, <1>8

\* The sum over nothing, and over one summand.
LEMMA TotalEmpty ==
    ASSUME NEW f
    PROVE  Total({}, f) = 0
<1>1. Units({}, f) = {}
  BY DEF Units
<1> QED
  BY <1>1, FS_EmptySet DEF Total

\* The sum over one member is its summand.
LEMMA TotalSingleton ==
    ASSUME NEW i, NEW f, f[i] \in Nat
    PROVE  Total({i}, f) = f[i]
<1>1. Units({i}, f) = {i} \X (1 .. f[i])
  BY DEF Units
<1>2. IsFiniteSet({i}) /\ Cardinality({i}) = 1
  BY FS_Singleton
<1>3. IsFiniteSet(1 .. f[i]) /\ Cardinality(1 .. f[i]) = f[i]
  BY FS_Interval
<1>4. Cardinality({i} \X (1 .. f[i])) = Cardinality({i}) * Cardinality(1 .. f[i])
  BY <1>2, <1>3, FS_Product
<1>5. Cardinality(Units({i}, f)) = 1 * f[i]
  BY <1>1, <1>2, <1>3, <1>4
<1> QED
  BY <1>5 DEF Total

\* A summand taken out of a sum.
LEMMA TotalSplit ==
    ASSUME NEW S, IsFiniteSet(S), NEW i \in S, NEW f, \A j \in S : f[j] \in Nat
    PROVE  Total(S, f) = f[i] + Total(S \ {i}, f)
<1>1. IsFiniteSet({i}) /\ IsFiniteSet(S \ {i})
  BY FS_Singleton, FS_RemoveElement
<1>2. S = {i} \cup (S \ {i})
  OBVIOUS
<1>3. Total({i} \cup (S \ {i}), f) = Total({i}, f) + Total(S \ {i}, f)
  BY <1>1, TotalDisjoint
<1> QED
  BY <1>2, <1>3, TotalSingleton

\* Summands of at most c make a sum of at most c each.
LEMMA TotalBound ==
    ASSUME NEW S, IsFiniteSet(S), NEW c \in Nat, NEW f,
           \A i \in S : f[i] \in Nat /\ f[i] <= c
    PROVE  Total(S, f) <= Cardinality(S) * c
<1>1. Units(S, f) \subseteq S \X (1 .. c)
  <2> SUFFICES ASSUME NEW u \in Units(S, f) PROVE u \in S \X (1 .. c)
    OBVIOUS
  <2>1. PICK i \in S, k \in Int : k \in 1 .. f[i] /\ u = <<i, k>>
    BY UnitsMember
  <2> QED
    BY <2>1
<1>2. IsFiniteSet(1 .. c) /\ Cardinality(1 .. c) = c
  BY FS_Interval
<1>3. IsFiniteSet(S \X (1 .. c)) /\ Cardinality(S \X (1 .. c)) = Cardinality(S) * c
  BY <1>2, FS_Product
<1> QED
  BY <1>1, <1>3, FS_Subset DEF Total

\* Two sums over the same set add up member by member.
LEMMA TotalSum ==
    ASSUME NEW S, IsFiniteSet(S), NEW f, NEW g,
           \A i \in S : f[i] \in Nat /\ g[i] \in Nat
    PROVE  Total(S, [i \in S |-> f[i] + g[i]]) = Total(S, f) + Total(S, g)
<1> DEFINE h == [i \in S |-> f[i] + g[i]]
           above == Units(S, h) \ Units(S, f)
           shift == [u \in Units(S, g) |-> <<u[1], f[u[1]] + u[2]>>]
<1>1. Units(S, f) \subseteq Units(S, h)
  <2> SUFFICES ASSUME NEW u \in Units(S, f) PROVE u \in Units(S, h)
    OBVIOUS
  <2>1. PICK i \in S, k \in Int : k \in 1 .. f[i] /\ u = <<i, k>>
    BY UnitsMember
  <2>2. k \in 1 .. h[i]
    BY <2>1
  <2> QED
    BY <2>1, <2>2, UnitsMember
<1>2. shift \in Bijection(Units(S, g), above)
  <2>1. shift \in [Units(S, g) -> above]
    <3> SUFFICES ASSUME NEW u \in Units(S, g) PROVE shift[u] \in above
      OBVIOUS
    <3>1. PICK i \in S, k \in Int : k \in 1 .. g[i] /\ u = <<i, k>>
      BY UnitsMember
    <3>2. shift[u] = <<i, f[i] + k>>
      BY <3>1
    <3>3. f[i] + k \in 1 .. h[i] /\ f[i] + k \in Int
      BY <3>1
    <3>4. shift[u] \in Units(S, h)
      BY <3>2, <3>3, UnitsMember
    <3>5. ASSUME shift[u] \in Units(S, f) PROVE FALSE
      <4>1. PICK j \in S, l \in Int : l \in 1 .. f[j] /\ shift[u] = <<j, l>>
        BY <3>5, UnitsMember
      <4> QED
        BY <3>1, <3>2, <4>1
    <3> QED
      BY <3>4, <3>5
  <2>2. ASSUME NEW u \in Units(S, g), NEW v \in Units(S, g), shift[u] = shift[v]
        PROVE  u = v
    <3>1. PICK i \in S, k \in Int : k \in 1 .. g[i] /\ u = <<i, k>>
      BY UnitsMember
    <3>2. PICK j \in S, l \in Int : l \in 1 .. g[j] /\ v = <<j, l>>
      BY UnitsMember
    <3> QED
      BY <2>2, <3>1, <3>2
  <2>3. ASSUME NEW w \in above PROVE \E u \in Units(S, g) : shift[u] = w
    <3>1. PICK i \in S, k \in Int : k \in 1 .. h[i] /\ w = <<i, k>>
      BY UnitsMember
    <3>2. ~(k \in 1 .. f[i])
      BY <3>1, UnitsMember
    <3>3. k - f[i] \in Int /\ k - f[i] \in 1 .. g[i]
      BY <3>1, <3>2
    <3>4. <<i, k - f[i]>> \in Units(S, g)
      BY <3>3, UnitsMember
    <3>5. f[i] + (k - f[i]) = k
      BY <3>1
    <3> QED
      BY <3>1, <3>4, <3>5
  <2> QED
    BY <2>1, <2>2, <2>3 DEF Bijection, Injection, Surjection, IsInjective
<1>3. /\ IsFiniteSet(Units(S, f)) /\ Total(S, f) \in Nat
      /\ IsFiniteSet(Units(S, g)) /\ Total(S, g) \in Nat
  BY TotalType
<1>4. IsFiniteSet(above) /\ Cardinality(above) = Cardinality(Units(S, g))
  BY <1>2, <1>3, FS_Bijection DEF ExistsBijection
<1>5. Units(S, h) = Units(S, f) \cup above /\ Units(S, f) \cap above = {}
  BY <1>1
<1>6. Cardinality(Units(S, f) \cap above) = 0
  BY <1>5, FS_EmptySet
<1>7. Cardinality(Units(S, f) \cup above)
        = Cardinality(Units(S, f)) + Cardinality(above)
            - Cardinality(Units(S, f) \cap above)
  BY <1>3, <1>4, FS_Union
<1>8. Cardinality(Units(S, f) \cup above) = Total(S, h)
  BY <1>5 DEF Total
<1>9. Cardinality(Units(S, f)) = Total(S, f) /\ Cardinality(above) = Total(S, g)
  BY <1>4 DEF Total
<1> HIDE DEF above, h
<1>10. Total(S, h) = Total(S, f) + Total(S, g)
  BY <1>3, <1>6, <1>7, <1>8, <1>9
<1> QED
  BY <1>10 DEF h

\* The sums over disjoint parts, themselves summed, are the sum over the union.
LEMMA TotalOfTotals ==
    ASSUME NEW R, IsFiniteSet(R), NEW S, IsFiniteSet(S),
           NEW part, \A r \in R : part[r] \subseteq S,
           \A r \in R, q \in R : r # q => part[r] \cap part[q] = {},
           NEW f, \A i \in S : f[i] \in Nat
    PROVE  Total(R, [r \in R |-> Total(part[r], f)])
             = Total(UNION {part[r] : r \in R}, f)
<1> DEFINE g == [r \in R |-> Total(part[r], f)]
           all == UNION {part[r] : r \in R}
           count(r) == CHOOSE b : b \in Bijection(1 .. g[r], Units(part[r], f))
           b == [r \in R |-> count(r)]
           map == [u \in Units(R, g) |-> b[u[1]][u[2]]]
<1>1. \A r \in R : /\ IsFiniteSet(part[r])
                   /\ IsFiniteSet(Units(part[r], f))
                   /\ g[r] \in Nat
  BY FS_Subset, TotalType
<1>2. \A r \in R : b[r] \in Bijection(1 .. g[r], Units(part[r], f))
  <2> TAKE r \in R
  <2>1. ExistsBijection(1 .. g[r], Units(part[r], f))
    BY <1>1, FS_CardinalityType DEF Total
  <2> QED
    BY <2>1 DEF ExistsBijection
<1> HIDE DEF b
<1>3. IsFiniteSet(Units(R, g))
  BY <1>1, TotalType
<1>4. map \in Bijection(Units(R, g), Units(all, f))
  <2>1. map \in [Units(R, g) -> Units(all, f)]
    <3> SUFFICES ASSUME NEW u \in Units(R, g) PROVE map[u] \in Units(all, f)
      OBVIOUS
    <3>1. PICK r \in R, k \in Int : k \in 1 .. g[r] /\ u = <<r, k>>
      BY UnitsMember
    <3>2. map[u] \in Units(part[r], f)
      BY <1>2, <3>1 DEF Bijection, Injection
    <3> QED
      BY <3>2, UnitsMember
  <2>2. ASSUME NEW u \in Units(R, g), NEW v \in Units(R, g), map[u] = map[v]
        PROVE  u = v
    <3>1. PICK r \in R, k \in Int : k \in 1 .. g[r] /\ u = <<r, k>>
      BY UnitsMember
    <3>2. PICK q \in R, l \in Int : l \in 1 .. g[q] /\ v = <<q, l>>
      BY UnitsMember
    <3>3. map[u] = b[r][k] /\ map[v] = b[q][l]
      BY <3>1, <3>2
    <3>4. b[r][k] \in Units(part[r], f) /\ b[q][l] \in Units(part[q], f)
      BY <1>2, <3>1, <3>2 DEF Bijection, Injection
    <3>5. PICK i \in part[r], m \in Int : m \in 1 .. f[i] /\ b[r][k] = <<i, m>>
      BY <3>4, UnitsMember
    <3>6. PICK j \in part[q], n \in Int : n \in 1 .. f[j] /\ b[q][l] = <<j, n>>
      BY <3>4, UnitsMember
    <3>7. r = q
      BY <2>2, <3>3, <3>5, <3>6
    <3>8. k = l
      BY <1>2, <2>2, <3>1, <3>2, <3>3, <3>7 DEF Bijection, Injection, IsInjective
    <3> QED
      BY <3>1, <3>2, <3>7, <3>8
  <2>3. ASSUME NEW w \in Units(all, f) PROVE \E u \in Units(R, g) : map[u] = w
    <3>1. PICK i \in all, m \in Int : m \in 1 .. f[i] /\ w = <<i, m>>
      BY UnitsMember
    <3>2. PICK r \in R : i \in part[r]
      BY <3>1
    <3>3. w \in Units(part[r], f)
      BY <3>1, <3>2, UnitsMember
    <3>4. PICK k \in 1 .. g[r] : b[r][k] = w
      BY <1>2, <3>3 DEF Bijection, Surjection
    <3>5. <<r, k>> \in Units(R, g)
      BY <1>1, <3>4, UnitsMember
    <3> QED
      BY <3>4, <3>5
  <2> QED
    BY <2>1, <2>2, <2>3 DEF Bijection, Injection, Surjection, IsInjective
<1>5. Cardinality(Units(all, f)) = Cardinality(Units(R, g))
  BY <1>3, <1>4, FS_Bijection DEF ExistsBijection
<1> QED
  BY <1>5 DEF Total
=============================================================================
