---------------------------- MODULE SumsTheorems ----------------------------
(***************************************************************************)
(* Laws of Sum: it is a natural number, it depends on the values the       *)
(* function has on the set, and it moves by what one of them moves by.     *)
(***************************************************************************)
EXTENDS Sums, FiniteSetTheorems, WellFoundedInduction, TLAPS

\* The units one element contributes are finitely many: as many as its value.
LEMMA UnitsCount ==
    ASSUME NEW f, NEW s, f[s] \in Nat
    PROVE  IsFiniteSet(Units(f, s)) /\ Cardinality(Units(f, s)) = f[s]
<1>1. IsFiniteSet({s}) /\ Cardinality({s}) = 1
    BY FS_Singleton
<1>2. IsFiniteSet(1 .. f[s]) /\ Cardinality(1 .. f[s]) = f[s]
    BY FS_Interval
<1>3. IsFiniteSet({s} \X (1 .. f[s]))
          /\ Cardinality({s} \X (1 .. f[s])) = Cardinality({s}) * Cardinality(1 .. f[s])
    BY <1>1, <1>2, FS_Product
<1> QED BY <1>1, <1>2, <1>3 DEF Units

\* The units of a finite set of elements are finitely many.
LEMMA UnitsFinite ==
    ASSUME NEW S, IsFiniteSet(S), NEW f, \A s \in S : f[s] \in Nat
    PROVE  IsFiniteSet(UNION {Units(f, s) : s \in S})
<1> DEFINE U == {Units(f, s) : s \in S}
           g == [s \in S |-> Units(f, s)]
<1>1. g \in Surjection(S, U)
    BY DEF Surjection
<1>2. IsFiniteSet(U)
    BY <1>1, FS_Surjection
<1>3. \A T \in U : IsFiniteSet(T)
    BY UnitsCount
<1> QED BY <1>2, <1>3, FS_UNION

\* A total of natural numbers is a natural number.
THEOREM SumIsNat ==
    ASSUME NEW S, IsFiniteSet(S), NEW f, \A s \in S : f[s] \in Nat
    PROVE  Sum(S, f) \in Nat
BY UnitsFinite, FS_CardinalityType DEF Sum

\* Functions that agree on the set have the same total.
THEOREM SumOfEqual ==
    ASSUME NEW S, NEW f, NEW g, \A s \in S : f[s] = g[s]
    PROVE  Sum(S, f) = Sum(S, g)
<1>1. \A s \in S : Units(f, s) = Units(g, s)
    BY DEF Units
<1>2. {Units(f, s) : s \in S} = {Units(g, s) : s \in S}
    BY <1>1
<1> QED BY <1>2 DEF Sum

\* One element can be taken out of the total.
THEOREM SumWithout ==
    ASSUME NEW S, IsFiniteSet(S), NEW f, \A s \in S : f[s] \in Nat, NEW x \in S
    PROVE  Sum(S, f) = f[x] + Sum(S \ {x}, f)
<1> DEFINE A == Units(f, x)
           B == UNION {Units(f, s) : s \in S \ {x}}
<1>1. IsFiniteSet(A) /\ Cardinality(A) = f[x]
    BY UnitsCount
<1>2. IsFiniteSet(S \ {x})
    BY FS_RemoveElement
<1>3. IsFiniteSet(B)
    BY <1>2, UnitsFinite
<1>4. A \cap B = {}
    BY DEF Units
<1>5. UNION {Units(f, s) : s \in S} = A \cup B
    OBVIOUS
<1>6. Cardinality(A \cup B) = Cardinality(A) + Cardinality(B) - Cardinality({})
    BY <1>1, <1>3, <1>4, FS_Union
<1>7. Cardinality({}) = 0 /\ Cardinality(B) \in Nat
    BY <1>3, FS_EmptySet, FS_CardinalityType
<1>8. Sum(S, f) = Cardinality(A \cup B)
    BY <1>5 DEF Sum
<1>9. Sum(S \ {x}, f) = Cardinality(B)
    BY DEF Sum
<1> HIDE DEF A, B
<1> QED BY <1>1, <1>4, <1>6, <1>7, <1>8, <1>9

\* When one value changes, the total changes by as much.
THEOREM SumOfChange ==
    ASSUME NEW S, IsFiniteSet(S), NEW x \in S,
           NEW f, \A s \in S : f[s] \in Nat,
           NEW g, \A s \in S : g[s] \in Nat,
           \A s \in S \ {x} : g[s] = f[s]
    PROVE  Sum(S, g) = Sum(S, f) + g[x] - f[x]
<1>1. Sum(S, f) = f[x] + Sum(S \ {x}, f)
    BY SumWithout
<1>2. Sum(S, g) = g[x] + Sum(S \ {x}, g)
    BY SumWithout
<1>3. Sum(S \ {x}, f) = Sum(S \ {x}, g)
    BY SumOfEqual
<1>4. IsFiniteSet(S \ {x})
    BY FS_RemoveElement
<1>5. Sum(S \ {x}, f) \in Nat
    BY <1>4, SumIsNat
<1> QED BY <1>1, <1>2, <1>3, <1>5

\* No value exceeds the total.
THEOREM SumBounds ==
    ASSUME NEW S, IsFiniteSet(S), NEW f, \A s \in S : f[s] \in Nat, NEW x \in S
    PROVE  f[x] <= Sum(S, f)
<1>1. Sum(S, f) = f[x] + Sum(S \ {x}, f)
    BY SumWithout
<1>2. IsFiniteSet(S \ {x})
    BY FS_RemoveElement
<1>3. Sum(S \ {x}, f) \in Nat
    BY <1>2, SumIsNat
<1> QED BY <1>1, <1>3

\* The total of nothing is nothing.
THEOREM SumOfZero ==
    ASSUME NEW S, NEW f, \A s \in S : f[s] = 0
    PROVE  Sum(S, f) = 0
<1>1. \A s \in S : Units(f, s) = {}
    BY DEF Units
<1>2. UNION {Units(f, s) : s \in S} = {}
    BY <1>1
<1> QED BY <1>2, FS_EmptySet DEF Sum

\* The total of a sum is the sum of the totals.
THEOREM SumOfPlus ==
    ASSUME NEW S, IsFiniteSet(S),
           NEW f, \A s \in S : f[s] \in Nat,
           NEW g, \A s \in S : g[s] \in Nat,
           NEW h, \A s \in S : h[s] = f[s] + g[s]
    PROVE  Sum(S, h) = Sum(S, f) + Sum(S, g)
<1> DEFINE U == UNION {Units(f, s) : s \in S}
           V == UNION {Units(g, s) : s \in S}
           W == UNION {Units(h, s) : s \in S}
           m == [p \in V |-> <<p[1], f[p[1]] + p[2]>>]
<1>1. /\ \A p : p \in U <=> \E s \in S : \E k \in 1 .. f[s] : p = <<s, k>>
      /\ \A p : p \in V <=> \E s \in S : \E k \in 1 .. g[s] : p = <<s, k>>
      /\ \A p : p \in W <=> \E s \in S : \E k \in 1 .. h[s] : p = <<s, k>>
    BY DEF Units
<1>2. U \subseteq W
    BY <1>1
<1>3. m \in Bijection(V, W \ U)
    <2>1. ASSUME NEW s \in S, NEW k \in 1 .. g[s] PROVE <<s, f[s] + k>> \in W \ U
        BY <1>1
    <2>2. m \in [V -> W \ U]
        BY <1>1, <2>1
    <2>3. ASSUME NEW p \in W \ U PROVE \E q \in V : m[q] = p
        <3>1. PICK s \in S, k \in Int : k \in 1 .. h[s] /\ p = <<s, k>>
            BY <1>1
        <3>2. k - f[s] \in 1 .. g[s]
            BY <1>1, <3>1
        <3>3. <<s, k - f[s]>> \in V
            BY <1>1, <3>2
        <3>4. m[<<s, k - f[s]>>] = <<s, k>>
            BY <3>3
        <3> QED BY <3>1, <3>3, <3>4
    <2>4. ASSUME NEW p \in V, NEW q \in V, m[p] = m[q] PROVE p = q
        <3>1. PICK s \in S, k \in Int : k \in 1 .. g[s] /\ p = <<s, k>>
            BY <1>1
        <3>2. PICK t \in S, j \in Int : j \in 1 .. g[t] /\ q = <<t, j>>
            BY <1>1
        <3> QED BY <2>4, <3>1, <3>2
    <2> HIDE DEF U, V, W, m
    <2>5. m \in Injection(V, W \ U)
        BY <2>2, <2>4 DEF Injection, IsInjective
    <2>6. m \in Surjection(V, W \ U)
        BY <2>2, <2>3 DEF Surjection
    <2> QED BY <2>5, <2>6 DEF Bijection
<1>4. IsFiniteSet(U) /\ IsFiniteSet(V)
    BY UnitsFinite
<1>5. IsFiniteSet(W \ U) /\ Cardinality(W \ U) = Cardinality(V)
    BY <1>3, <1>4, FS_Bijection DEF ExistsBijection
<1>6. Cardinality(U \cup (W \ U)) = Cardinality(U) + Cardinality(W \ U) - Cardinality(U \cap (W \ U))
    BY <1>4, <1>5, FS_Union
<1>7. U \cup (W \ U) = W /\ U \cap (W \ U) = {}
    BY <1>2
<1>8. Cardinality({}) = 0 /\ Cardinality(U) \in Nat /\ Cardinality(V) \in Nat
    BY <1>4, FS_EmptySet, FS_CardinalityType
<1>9. Sum(S, f) = Cardinality(U) /\ Sum(S, g) = Cardinality(V) /\ Sum(S, h) = Cardinality(W)
    BY DEF Sum
<1> HIDE DEF U, V, W, m
<1>10. Cardinality(U \cap (W \ U)) = 0 /\ Cardinality(U \cup (W \ U)) = Cardinality(W)
    BY <1>7, <1>8
<1>11. Cardinality(W) = Cardinality(U) + Cardinality(V)
    BY <1>5, <1>6, <1>8, <1>10
<1> QED BY <1>9, <1>11

\* A total does not exceed another whose elements take up those of the first, one each.
THEOREM SumOfFewer ==
    ASSUME NEW S, NEW f, \A s \in S : f[s] \in Nat,
           NEW T, IsFiniteSet(T), NEW g, \A t \in T : g[t] \in Nat,
           NEW m \in Injection(S, T), \A s \in S : f[s] <= g[m[s]]
    PROVE  IsFiniteSet(S) /\ Sum(S, f) \in Nat /\ Sum(S, f) <= Sum(T, g)
<1> DEFINE U == UNION {Units(f, s) : s \in S}
           V == UNION {Units(g, t) : t \in T}
           n == [p \in U |-> <<m[p[1]], p[2]>>]
<1>1. IsFiniteSet(S)
    BY FS_Injection
<1>2. /\ \A p : p \in U <=> \E s \in S : \E k \in 1 .. f[s] : p = <<s, k>>
      /\ \A p : p \in V <=> \E t \in T : \E k \in 1 .. g[t] : p = <<t, k>>
    BY DEF Units
<1>3. m \in [S -> T] /\ \A r, s \in S : m[r] = m[s] => r = s
    BY DEF Injection, IsInjective
<1>4. n \in [U -> V]
    <2>1. ASSUME NEW s \in S, NEW k \in 1 .. f[s] PROVE <<m[s], k>> \in V
        <3>1. m[s] \in T /\ f[s] \in Nat /\ g[m[s]] \in Nat /\ f[s] <= g[m[s]]
            BY <1>3
        <3>2. k \in 1 .. g[m[s]]
            BY <3>1
        <3> QED BY <1>2, <3>1, <3>2
    <2> QED BY <1>2, <2>1
<1>5. ASSUME NEW p \in U, NEW q \in U, n[p] = n[q] PROVE p = q
    <2>1. PICK s \in S : \E k \in 1 .. f[s] : p = <<s, k>>
        BY <1>2
    <2>2. PICK t \in S : \E k \in 1 .. f[t] : q = <<t, k>>
        BY <1>2
    <2>3. m[p[1]] = m[q[1]] /\ p[2] = q[2]
        BY <1>5
    <2> QED BY <1>3, <2>1, <2>2, <2>3
<1> HIDE DEF U, V, n
<1>6. n \in Injection(U, V)
    BY <1>4, <1>5 DEF Injection, IsInjective
<1>7. IsFiniteSet(V)
    BY UnitsFinite DEF V
<1>8. Cardinality(U) <= Cardinality(V)
    BY <1>6, <1>7, FS_Injection
<1> QED BY <1>1, <1>8, SumIsNat DEF U, V, Sum

\* The total over one element is its value.
THEOREM SumOfOne == ASSUME NEW x, NEW f, f[x] \in Nat PROVE Sum({x}, f) = f[x]
<1>1. IsFiniteSet({x})
    BY FS_Singleton
<1>2. Sum({x}, f) = f[x] + Sum({x} \ {x}, f)
    BY <1>1, SumWithout
<1>3. {x} \ {x} = {}
    OBVIOUS
<1>4. Sum({}, f) = 0
    BY SumOfZero
<1> QED BY <1>2, <1>3, <1>4

\* Induction for sets of numbers: what holds 0 and every successor holds every number.
THEOREM NumbersFrom0 ==
    ASSUME NEW T, 0 \in T, \A n \in Nat : n \in T => n + 1 \in T
    PROVE  Nat \subseteq T
<1> DEFINE Missing == Nat \ T
<1> SUFFICES ASSUME Missing # {} PROVE FALSE
    OBVIOUS
<1>1. OpToRel(<, Nat) = {p \in Nat \X Nat : p[1] < p[2]}
    BY Zenon DEF OpToRel
<1>2. IsWellFoundedOn({p \in Nat \X Nat : p[1] < p[2]}, Nat)
    BY <1>1, NatLessThanWellFounded, Zenon
<1>3. PICK x \in Missing : \A y \in Missing : ~(<<y, x>> \in {p \in Nat \X Nat : p[1] < p[2]})
    BY <1>2, WFMin
<1>4. x \in Nat /\ x # 0
    OBVIOUS
<1>5. x - 1 \in Nat /\ <<x - 1, x>> \in {p \in Nat \X Nat : p[1] < p[2]}
    BY <1>4
<1>6. x - 1 \in T
    BY <1>3, <1>5
<1> QED BY <1>4, <1>5, <1>6
=============================================================================
