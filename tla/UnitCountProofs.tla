-------------------------- MODULE UnitCountProofs --------------------------
(***************************************************************************)
(* What Total (the sum of a natural-valued function) does, for every       *)
(* finite domain.                                                          *)
(***************************************************************************)
EXTENDS UnitCount, FiniteSetTheorems, TLAPS

(* A unit of f is an argument together with a number up to f's value. *)
LEMMA UnitsMember ==
  ASSUME NEW D, NEW f \in [D -> Nat]
  PROVE  \A p : p \in Units(f) <=> /\ p = <<p[1], p[2]>>
                                   /\ p[1] \in D
                                   /\ p[2] \in 1..f[p[1]]
  BY DEF Units

(* The units of a function on a finite domain are finitely many. *)
LEMMA UnitsFinite ==
  ASSUME NEW D, IsFiniteSet(D), NEW f \in [D -> Nat]
  PROVE  IsFiniteSet(Units(f)) /\ Total(f) \in Nat
<1> DEFINE part == [x \in D |-> {x} \X (1..f[x])]
           parts == {{x} \X (1..f[x]) : x \in D}
<1>1. part \in Surjection(D, parts)
  BY DEF Surjection
<1>2. IsFiniteSet(parts)
  BY <1>1, FS_Surjection
<1>3. ASSUME NEW T \in parts PROVE IsFiniteSet(T)
  <2>1. PICK x \in D : T = {x} \X (1..f[x])
    OBVIOUS
  <2>2. IsFiniteSet({x})
    BY FS_Singleton
  <2>3. f[x] \in Int /\ 1 \in Int
    OBVIOUS
  <2>4. IsFiniteSet(1..f[x])
    BY <2>3, FS_Interval
  <2>5. QED
    BY <2>1, <2>2, <2>4, FS_Product
<1>4. IsFiniteSet(UNION parts)
  BY <1>2, <1>3, FS_UNION
<1>5. QED
  BY <1>4, FS_CardinalityType DEF Units, Total

(* Adding functions pointwise adds their sums. *)
LEMMA TotalAdd ==
  ASSUME NEW D, IsFiniteSet(D),
         NEW f \in [D -> Nat], NEW g \in [D -> Nat], NEW h \in [D -> Nat],
         \A x \in D : h[x] = f[x] + g[x]
  PROVE  Total(h) = Total(f) + Total(g)
<1> DEFINE rest == Units(h) \ Units(f)
           shift == [p \in Units(g) |-> <<p[1], f[p[1]] + p[2]>>]
<1>1. /\ IsFiniteSet(Units(f)) /\ Total(f) \in Nat
      /\ IsFiniteSet(Units(g)) /\ Total(g) \in Nat
      /\ IsFiniteSet(Units(h)) /\ Total(h) \in Nat
  BY UnitsFinite
<1>2. Units(h) \cap Units(f) = Units(f)
  <2>1. ASSUME NEW p \in Units(f) PROVE p \in Units(h)
    <3>1. /\ p = <<p[1], p[2]>> /\ p[1] \in D /\ p[2] \in 1..f[p[1]]
      BY UnitsMember
    <3>2. f[p[1]] \in Nat /\ g[p[1]] \in Nat /\ h[p[1]] = f[p[1]] + g[p[1]]
      BY <3>1
    <3>3. p[2] \in 1..h[p[1]]
      BY <3>1, <3>2
    <3>4. QED
      BY <3>1, <3>3, UnitsMember
  <2>2. QED
    BY <2>1
<1>3. Cardinality(rest) = Total(h) - Total(f)
  <2>1. Cardinality(rest) = Cardinality(Units(h)) - Cardinality(Units(h) \cap Units(f))
    BY <1>1, FS_Difference
  <2>2. QED
    BY <2>1, <1>2 DEF Total
<1>4. shift \in Bijection(Units(g), rest)
  <2>1. ASSUME NEW p \in Units(g) PROVE shift[p] \in rest
    <3>1. /\ p = <<p[1], p[2]>> /\ p[1] \in D /\ p[2] \in 1..g[p[1]]
      BY UnitsMember
    <3>2. f[p[1]] \in Nat /\ g[p[1]] \in Nat /\ h[p[1]] = f[p[1]] + g[p[1]]
      BY <3>1
    <3> DEFINE q == <<p[1], f[p[1]] + p[2]>>
    <3>3. /\ q[1] = p[1] /\ q[2] = f[p[1]] + p[2] /\ q = <<q[1], q[2]>>
      OBVIOUS
    <3>4. q[2] \in 1..h[q[1]] /\ q[2] \notin 1..f[q[1]]
      BY <3>1, <3>2, <3>3
    <3>5. q \in Units(h) /\ q \notin Units(f)
      <4> HIDE DEF q
      <4> QED BY <3>1, <3>3, <3>4, UnitsMember
    <3>6. QED
      BY <3>5
  <2>2. ASSUME NEW p \in Units(g), NEW r \in Units(g), shift[p] = shift[r]
        PROVE  p = r
    <3>1. /\ p = <<p[1], p[2]>> /\ p[1] \in D /\ p[2] \in 1..g[p[1]]
          /\ r = <<r[1], r[2]>> /\ r[1] \in D /\ r[2] \in 1..g[r[1]]
      BY UnitsMember
    <3>2. p[1] = r[1] /\ f[p[1]] + p[2] = f[p[1]] + r[2]
      BY <2>2
    <3>3. f[p[1]] \in Int /\ p[2] \in Int /\ r[2] \in Int
      BY <3>1, <3>2
    <3>4. p[2] = r[2]
      <4>1. \A a, b, c \in Int : a + b = a + c => b = c
        OBVIOUS
      <4>2. QED
        BY <3>2, <3>3, <4>1
    <3>5. QED
      BY <3>1, <3>2, <3>4
  <2>3. ASSUME NEW q \in rest PROVE \E p \in Units(g) : shift[p] = q
    <3>1. /\ q = <<q[1], q[2]>> /\ q[1] \in D /\ q[2] \in 1..h[q[1]]
      BY UnitsMember
    <3>2. q[2] \notin 1..f[q[1]]
      BY <3>1, UnitsMember
    <3>3. f[q[1]] \in Nat /\ g[q[1]] \in Nat /\ h[q[1]] = f[q[1]] + g[q[1]]
      BY <3>1
    <3> DEFINE p == <<q[1], q[2] - f[q[1]]>>
    <3>4. /\ p[1] = q[1] /\ p[2] = q[2] - f[q[1]] /\ p = <<p[1], p[2]>>
      OBVIOUS
    <3>5. p[2] \in 1..g[p[1]]
      BY <3>1, <3>2, <3>3, <3>4
    <3>6. p \in Units(g)
      <4> HIDE DEF p
      <4> QED BY <3>1, <3>4, <3>5, UnitsMember
    <3>7. f[p[1]] + p[2] = q[2]
      BY <3>1, <3>3, <3>4
    <3>8. shift[p] = <<q[1], q[2]>>
      BY <3>4, <3>6, <3>7
    <3>9. QED
      BY <3>1, <3>6, <3>8
  <2>4. QED
    BY <2>1, <2>2, <2>3 DEF Bijection, Injection, Surjection, IsInjective
<1>5. Cardinality(rest) = Total(g)
  BY <1>1, <1>4, FS_Bijection DEF ExistsBijection, Total
<1>6. QED
  BY <1>1, <1>3, <1>5

(* A larger function has the larger sum. *)
LEMMA TotalMonotone ==
  ASSUME NEW D, IsFiniteSet(D), NEW f \in [D -> Nat], NEW g \in [D -> Nat],
         \A x \in D : f[x] =< g[x]
  PROVE  Total(f) =< Total(g)
<1> DEFINE d == [x \in D |-> g[x] - f[x]]
<1>1. d \in [D -> Nat]
  OBVIOUS
<1>2. \A x \in D : g[x] = f[x] + d[x]
  OBVIOUS
<1>3. Total(g) = Total(f) + Total(d) /\ Total(f) \in Nat /\ Total(d) \in Nat
  <2> HIDE DEF d
  <2> QED BY <1>1, <1>2, TotalAdd, UnitsFinite
<1>4. QED
  BY <1>3

(* A function that is zero everywhere sums to zero. *)
LEMMA TotalZero ==
  ASSUME NEW D, NEW f, DOMAIN f = D, \A x \in D : f[x] = 0
  PROVE  Total(f) = 0
<1>1. Units(f) = {}
  BY DEF Units
<1>2. QED
  BY <1>1, FS_EmptySet DEF Total

(* A sum is at least each of its terms. *)
LEMMA TotalTerm ==
  ASSUME NEW D, IsFiniteSet(D), NEW f \in [D -> Nat], NEW x \in D
  PROVE  f[x] =< Total(f)
<1> DEFINE part == {x} \X (1..f[x])
           side == [p \in 1..f[x] |-> <<x, p>>]
<1>1. IsFiniteSet(Units(f))
  BY UnitsFinite
<1>2. IsFiniteSet(1..f[x]) /\ Cardinality(1..f[x]) = f[x]
  <2>1. f[x] \in Nat /\ 1 \in Int /\ f[x] \in Int
    OBVIOUS
  <2>2. QED
    BY <2>1, FS_Interval
<1>3. side \in Injection(1..f[x], Units(f))
  <2>1. ASSUME NEW p \in 1..f[x] PROVE side[p] \in Units(f)
    BY DEF Units
  <2>2. QED
    BY <2>1 DEF Injection, IsInjective
<1>4. Cardinality(1..f[x]) =< Cardinality(Units(f))
  BY <1>1, <1>3, FS_Injection
<1>5. QED
  BY <1>2, <1>4 DEF Total

(* One argument's term can be set apart from the sum of the others. *)
LEMMA TotalSplit ==
  ASSUME NEW E, IsFiniteSet(E), NEW x, x \notin E,
         NEW f \in [E -> Nat], NEW g \in [E \cup {x} -> Nat],
         \A y \in E : g[y] = f[y]
  PROVE  Total(g) = Total(f) + g[x]
<1> DEFINE part == {x} \X (1..g[x])
<1>1. /\ IsFiniteSet(Units(f)) /\ Total(f) \in Nat
  BY UnitsFinite
<1>2. IsFiniteSet(1..g[x]) /\ Cardinality(1..g[x]) = g[x]
  <2>1. g[x] \in Nat /\ 1 \in Int /\ g[x] \in Int
    OBVIOUS
  <2>2. QED
    BY <2>1, FS_Interval
<1>3. IsFiniteSet({x}) /\ Cardinality({x}) = 1
  BY FS_Singleton
<1>4. IsFiniteSet(part) /\ Cardinality(part) = g[x]
  <2>1. IsFiniteSet(part) /\ Cardinality(part) = 1 * Cardinality(1..g[x])
    BY <1>2, <1>3, FS_Product
  <2>2. g[x] \in Nat
    OBVIOUS
  <2>3. QED
    BY <1>2, <2>1, <2>2
<1>5. Units(g) = Units(f) \cup part
  <2>1. Units(f) = UNION {{y} \X (1..g[y]) : y \in E}
    BY DEF Units
  <2>2. Units(g) = UNION {{y} \X (1..g[y]) : y \in E \cup {x}}
    BY DEF Units
  <2>3. QED
    BY <2>1, <2>2
<1>6. Units(f) \cap part = {}
  <2>1. ASSUME NEW p \in Units(f), p \in part PROVE FALSE
    <3>1. p[1] \in E
      BY UnitsMember
    <3>2. p[1] = x
      BY <2>1
    <3>3. QED
      BY <3>1, <3>2
  <2>2. QED
    BY <2>1
<1>7. Cardinality(Units(g)) =
        Cardinality(Units(f)) + Cardinality(part) - Cardinality(Units(f) \cap part)
  <2> HIDE DEF part
  <2> QED BY <1>1, <1>4, <1>5, FS_Union
<1>8. Cardinality(Units(f) \cap part) = 0
  BY <1>6, FS_EmptySet
<1>9. QED
  <2>1. g[x] \in Nat
    OBVIOUS
  <2>2. QED
    BY <1>1, <1>4, <1>7, <1>8, <2>1 DEF Total

(* Changing one term changes the sum by the difference. *)
LEMMA TotalUpdate ==
  ASSUME NEW D, IsFiniteSet(D), NEW x \in D,
         NEW f \in [D -> Nat], NEW g \in [D -> Nat],
         \A y \in D \ {x} : g[y] = f[y]
  PROVE  Total(g) + f[x] = Total(f) + g[x]
<1> DEFINE E == D \ {x}
           rest == [y \in E |-> f[y]]
<1>1. IsFiniteSet(E) /\ x \notin E /\ E \cup {x} = D
  BY FS_Subset
<1>2. rest \in [E -> Nat] /\ (\A y \in E : rest[y] = f[y] /\ rest[y] = g[y])
  OBVIOUS
<1>3. Total(f) = Total(rest) + f[x] /\ Total(g) = Total(rest) + g[x]
  <2> HIDE DEF E, rest
  <2> QED BY <1>1, <1>2, TotalSplit
<1>4. Total(rest) \in Nat
  <2> HIDE DEF E, rest
  <2> QED BY <1>1, <1>2, UnitsFinite
<1>5. f[x] \in Nat /\ g[x] \in Nat
  OBVIOUS
<1>6. QED
  BY <1>3, <1>4, <1>5
=============================================================================
