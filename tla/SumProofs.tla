------------------------------- MODULE SumProofs -------------------------------
(***************************************************************************)
(* Sums of natural numbers over finite sets: what SumFunctionOnSet of the  *)
(* community modules returns, and how it changes with its set and its      *)
(* function.  The books of the shop (drawers, shelves, points, receipts)   *)
(* are sums, and these are the facts their proofs need.                    *)
(*                                                                         *)
(* A sum is counted unit by unit, <<s, i>> being the i-th unit of s: it is *)
(* then a cardinality, of which the library knows enough.                  *)
(***************************************************************************)
EXTENDS Integers, FiniteSets, Functions, FiniteSetTheorems, WellFoundedInduction, TLAPS

UnitsOf(S, amount) == UNION {{s} \X (1 .. amount[s]) : s \in S}

(* A set of numbers has a least one: induction, for the provers, is the     *)
(* search for a least counterexample.                                      *)
LEMMA LeastNumber ==
    ASSUME NEW N \in SUBSET Nat, N # {}
    PROVE  \E n \in N : \A m \in N : n <= m
<1> DEFINE R == OpToRel(<, Nat)
<1>1. IsWellFoundedOn(R, Nat)
  BY NatLessThanWellFounded
<1>2. \A m, n \in Nat : m < n => <<m, n>> \in R
  BY DEF OpToRel
<1> HIDE DEF R
<1>3. \E n \in N : \A m \in N : ~ (<<m, n>> \in R)
  BY <1>1, WFMin
<1>4. \A m, n \in Nat : ~(m < n) => n <= m
  OBVIOUS
<1> QED
  BY <1>2, <1>3, <1>4

(* Adding one element to a set adds exactly its amount of units.           *)
LEMMA UnitsOfOneMore ==
    ASSUME NEW S, NEW s, s \notin S, NEW amount, amount[s] \in Nat,
           IsFiniteSet(UnitsOf(S, amount))
    PROVE  /\ IsFiniteSet(UnitsOf(S \cup {s}, amount))
           /\ Cardinality(UnitsOf(S \cup {s}, amount))
                = Cardinality(UnitsOf(S, amount)) + amount[s]
           /\ Cardinality(UnitsOf(S, amount)) \in Nat
<1> DEFINE new == {s} \X (1 .. amount[s])
<1>1. UnitsOf(S \cup {s}, amount) = UnitsOf(S, amount) \cup new
  BY DEF UnitsOf
<1>2. UnitsOf(S, amount) \cap new = {}
  BY DEF UnitsOf
<1>3. IsFiniteSet({s}) /\ Cardinality({s}) = 1
  BY FS_Singleton
<1>4. IsFiniteSet(1 .. amount[s]) /\ Cardinality(1 .. amount[s]) = amount[s]
  BY FS_Interval
<1>5. IsFiniteSet(new) /\ Cardinality(new) = amount[s]
  <2>1. /\ IsFiniteSet(new)
        /\ Cardinality(new) = Cardinality({s}) * Cardinality(1 .. amount[s])
    BY <1>3, <1>4, FS_Product
  <2>2. Cardinality(new) = 1 * amount[s]
    BY <1>3, <1>4, <2>1, Zenon
  <2> QED
    BY <2>1, <2>2
<1> HIDE DEF new
<1>6. /\ IsFiniteSet(UnitsOf(S, amount) \cup new)
      /\ Cardinality(UnitsOf(S, amount) \cup new)
           = Cardinality(UnitsOf(S, amount)) + amount[s] - Cardinality(UnitsOf(S, amount) \cap new)
  BY <1>5, FS_Union
<1>7. Cardinality(UnitsOf(S, amount) \cap new) = 0
  BY <1>2, FS_EmptySet, Zenon
<1>8. Cardinality(UnitsOf(S, amount)) \in Nat
  BY FS_CardinalityType
<1>9. Cardinality(UnitsOf(S, amount) \cup new) = Cardinality(UnitsOf(S, amount)) + amount[s]
  BY <1>6, <1>7, <1>8
<1> QED
  BY <1>1, <1>6, <1>8, <1>9, Zenon

(* Finitely many elements have finitely many units: remove one element of  *)
(* a least set that is said to have more.                                  *)
LEMMA UnitsFinite ==
    ASSUME NEW S, IsFiniteSet(S), NEW f, \A s \in S : f[s] \in Nat
    PROVE  IsFiniteSet(UnitsOf(S, f)) /\ Cardinality(UnitsOf(S, f)) \in Nat
<1> DEFINE Bad == {n \in Nat : \E T \in SUBSET S : Cardinality(T) = n /\ ~IsFiniteSet(UnitsOf(T, f))}
<1>1. SUFFICES ASSUME ~IsFiniteSet(UnitsOf(S, f)) PROVE FALSE
  BY FS_CardinalityType
<1>2. Bad # {}
  BY <1>1, FS_CardinalityType
<1>3. PICK n \in Bad : \A m \in Bad : n <= m
  <2> HIDE DEF Bad
  <2>1. Bad \in SUBSET Nat
    BY DEF Bad
  <2> QED  BY <1>2, <2>1, LeastNumber
<1>4. PICK T \in SUBSET S : Cardinality(T) = n /\ ~IsFiniteSet(UnitsOf(T, f))
  OBVIOUS
<1>5. T # {}
  <2>1. UnitsOf({}, f) = {}
    BY DEF UnitsOf
  <2> QED  BY <1>4, <2>1, FS_EmptySet
<1>6. PICK x : x \in T
  BY <1>5
<1> DEFINE rest == T \ {x}
<1>7. IsFiniteSet(T) /\ Cardinality(rest) = n - 1 /\ Cardinality(rest) \in Nat /\ n \in Nat
  BY <1>4, <1>6, FS_Subset, FS_RemoveElement, FS_CardinalityType
<1>8. ~IsFiniteSet(UnitsOf(rest, f))
  <2>1. f[x] \in Nat /\ x \notin rest /\ T = rest \cup {x}
    BY <1>6
  <2> HIDE DEF rest
  <2> QED  BY <1>4, <2>1, UnitsOfOneMore
<1>9. n - 1 \in Bad
  BY <1>7, <1>8
<1> QED
  BY <1>3, <1>7, <1>9

(* The recursion by which the community module defines a fold.             *)
Recurses(g, f, S) ==
    g = [T \in SUBSET S |-> IF T = {} THEN 0
                            ELSE f[CHOOSE x \in T : TRUE] + g[T \ {CHOOSE x \in T : TRUE}]]

(* The sum is the number of units: this number satisfies the recursion,    *)
(* and nothing else does, or the two would differ on a least set.          *)
LEMMA SumIsUnits ==
    ASSUME NEW S, IsFiniteSet(S), NEW f, \A s \in S : f[s] \in Nat
    PROVE  SumFunctionOnSet(f, S) = Cardinality(UnitsOf(S, f))
<1> DEFINE g == [T \in SUBSET S |-> Cardinality(UnitsOf(T, f))]
<1>1. Recurses(g, f, S)
  <2> SUFFICES ASSUME NEW T \in SUBSET S
               PROVE  g[T] = IF T = {} THEN 0
                            ELSE f[CHOOSE x \in T : TRUE] + g[T \ {CHOOSE x \in T : TRUE}]
    BY DEF Recurses
  <2>1. CASE T = {}
    <3>1. UnitsOf(T, f) = {}
      BY <2>1 DEF UnitsOf
    <3> QED
      BY <2>1, <3>1, FS_EmptySet
  <2>2. CASE T # {}
    <3> DEFINE x == CHOOSE x \in T : TRUE
               rest == T \ {x}
    <3>1. x \in T
      BY <2>2
    <3> HIDE DEF x
    <3>2. IsFiniteSet(rest) /\ rest \in SUBSET S /\ T = rest \cup {x} /\ x \notin rest
      BY <3>1, FS_Subset
    <3>3. IsFiniteSet(UnitsOf(rest, f))
      BY <3>2, UnitsFinite
    <3>4. /\ Cardinality(UnitsOf(T, f)) = Cardinality(UnitsOf(rest, f)) + f[x]
          /\ Cardinality(UnitsOf(rest, f)) \in Nat
      <4> HIDE DEF rest
      <4> QED  BY <3>1, <3>2, <3>3, UnitsOfOneMore
    <3>5. g[T] = f[x] + g[rest]
      BY <3>1, <3>2, <3>4
    <3> QED
      BY <2>2, <3>5 DEF x
  <2> QED
    BY <2>1, <2>2
<1>2. ASSUME NEW h, Recurses(h, f, S) PROVE h[S] = g[S]
  <2> DEFINE Bad == {n \in Nat : \E T \in SUBSET S : Cardinality(T) = n /\ h[T] # g[T]}
  <2>1. SUFFICES ASSUME h[S] # g[S] PROVE FALSE
    OBVIOUS
  <2>2. Bad # {}
    BY <2>1, FS_CardinalityType
  <2>3. PICK n \in Bad : \A m \in Bad : n <= m
    <3> HIDE DEF Bad
    <3>1. Bad \in SUBSET Nat
      BY DEF Bad
    <3> QED  BY <2>2, <3>1, LeastNumber
  <2>4. PICK T \in SUBSET S : Cardinality(T) = n /\ h[T] # g[T]
    OBVIOUS
  <2> HIDE DEF g
  <2>5. T # {}
    BY <1>1, <1>2, <2>4 DEF Recurses
  <2> DEFINE x == CHOOSE x \in T : TRUE
             rest == T \ {x}
  <2>6. x \in T
    BY <2>5
  <2>7. h[T] = f[x] + h[rest] /\ g[T] = f[x] + g[rest]
    BY <1>1, <1>2, <2>5 DEF Recurses
  <2> HIDE DEF x
  <2>8. IsFiniteSet(T) /\ Cardinality(rest) = n - 1 /\ Cardinality(rest) \in Nat /\ n \in Nat
    BY <2>4, <2>6, FS_Subset, FS_RemoveElement, FS_CardinalityType
  <2>9. h[rest] # g[rest]
    BY <2>4, <2>7
  <2>10. n - 1 \in Bad
    BY <2>8, <2>9
  <2> QED
    BY <2>3, <2>8, <2>10
<1>3. SumFunctionOnSet(f, S) = (CHOOSE h : Recurses(h, f, S))[S]
  BY DEF SumFunctionOnSet, FoldFunctionOnSet, MapThenFoldSet, Recurses
<1>4. Recurses(CHOOSE h : Recurses(h, f, S), f, S)
  <2> HIDE DEF g
  <2> QED  BY <1>1
<1> HIDE DEF g
<1>5. SumFunctionOnSet(f, S) = g[S]
  BY <1>2, <1>3, <1>4
<1> QED
  BY <1>5 DEF g

-------------------------------------------------------------------------------
LEMMA SumOfNone ==
    ASSUME NEW f
    PROVE  SumFunctionOnSet(f, {}) = 0
<1>1. UnitsOf({}, f) = {}
  BY DEF UnitsOf
<1>2. IsFiniteSet({}) /\ Cardinality({}) = 0
  BY FS_EmptySet
<1>3. SumFunctionOnSet(f, {}) = Cardinality(UnitsOf({}, f))
  BY <1>2, SumIsUnits
<1> QED
  BY <1>1, <1>2, <1>3

LEMMA SumOfZeros ==
    ASSUME NEW S, IsFiniteSet(S), NEW f, \A s \in S : f[s] = 0
    PROVE  SumFunctionOnSet(f, S) = 0
<1>1. UnitsOf(S, f) = {}
  BY DEF UnitsOf
<1>2. SumFunctionOnSet(f, S) = Cardinality(UnitsOf(S, f))
  BY SumIsUnits
<1> QED
  BY <1>1, <1>2, FS_EmptySet

LEMMA SumType ==
    ASSUME NEW S, IsFiniteSet(S), NEW f, \A s \in S : f[s] \in Nat
    PROVE  SumFunctionOnSet(f, S) \in Nat
BY SumIsUnits, UnitsFinite

LEMMA SumOfOneMore ==
    ASSUME NEW S, IsFiniteSet(S), NEW f, \A s \in S : f[s] \in Nat,
           NEW s, s \notin S, f[s] \in Nat
    PROVE  /\ SumFunctionOnSet(f, S \cup {s}) = SumFunctionOnSet(f, S) + f[s]
           /\ SumFunctionOnSet(f, S) \in Nat
<1>1. IsFiniteSet(S \cup {s}) /\ \A t \in S \cup {s} : f[t] \in Nat
  BY FS_AddElement
<1>2. IsFiniteSet(UnitsOf(S, f))
  BY UnitsFinite
<1>3. /\ Cardinality(UnitsOf(S \cup {s}, f)) = Cardinality(UnitsOf(S, f)) + f[s]
      /\ Cardinality(UnitsOf(S, f)) \in Nat
  BY <1>2, UnitsOfOneMore
<1>4. SumFunctionOnSet(f, S \cup {s}) = Cardinality(UnitsOf(S \cup {s}, f))
  BY <1>1, SumIsUnits
<1>5. SumFunctionOnSet(f, S) = Cardinality(UnitsOf(S, f))
  BY SumIsUnits
<1> QED
  BY <1>3, <1>4, <1>5

(* Of a sum one element is taken out.                                      *)
LEMMA SumOfOneLess ==
    ASSUME NEW S, IsFiniteSet(S), NEW f, \A s \in S : f[s] \in Nat, NEW s \in S
    PROVE  /\ SumFunctionOnSet(f, S) = SumFunctionOnSet(f, S \ {s}) + f[s]
           /\ SumFunctionOnSet(f, S \ {s}) \in Nat
<1> DEFINE rest == S \ {s}
<1>1. S = rest \cup {s} /\ s \notin rest /\ (\A t \in rest : f[t] \in Nat) /\ f[s] \in Nat
  OBVIOUS
<1>2. IsFiniteSet(rest)
  BY FS_Subset
<1> HIDE DEF rest
<1>3. /\ SumFunctionOnSet(f, rest \cup {s}) = SumFunctionOnSet(f, rest) + f[s]
      /\ SumFunctionOnSet(f, rest) \in Nat
  BY <1>1, <1>2, SumOfOneMore
<1> QED
  BY <1>1, <1>3 DEF rest

(* Only the values on the set count.                                       *)
LEMMA SumSame ==
    ASSUME NEW S, IsFiniteSet(S), NEW f, NEW g, \A s \in S : f[s] \in Nat /\ g[s] = f[s]
    PROVE  SumFunctionOnSet(g, S) = SumFunctionOnSet(f, S)
<1>1. UnitsOf(S, g) = UnitsOf(S, f)
  BY DEF UnitsOf
<1>2. \A s \in S : g[s] \in Nat
  OBVIOUS
<1>3. SumFunctionOnSet(f, S) = Cardinality(UnitsOf(S, f))
  BY SumIsUnits
<1>4. SumFunctionOnSet(g, S) = Cardinality(UnitsOf(S, g))
  BY <1>2, SumIsUnits
<1> QED
  BY <1>1, <1>3, <1>4

(* One value changes.                                                      *)
LEMMA SumOfOneChanged ==
    ASSUME NEW S, IsFiniteSet(S), NEW f, NEW g, NEW s \in S,
           \A t \in S : f[t] \in Nat /\ g[t] \in Nat,
           \A t \in S : t # s => g[t] = f[t]
    PROVE  SumFunctionOnSet(g, S) = SumFunctionOnSet(f, S) - f[s] + g[s]
<1> DEFINE rest == S \ {s}
<1>1. IsFiniteSet(rest) /\ \A t \in rest : f[t] \in Nat /\ g[t] = f[t]
  BY FS_Subset
<1> HIDE DEF rest
<1>2. SumFunctionOnSet(g, rest) = SumFunctionOnSet(f, rest)
  BY <1>1, SumSame
<1> USE DEF rest
<1>3. /\ SumFunctionOnSet(f, S) = SumFunctionOnSet(f, rest) + f[s]
      /\ SumFunctionOnSet(f, rest) \in Nat
  BY SumOfOneLess
<1>4. SumFunctionOnSet(g, S) = SumFunctionOnSet(g, rest) + g[s]
  BY SumOfOneLess
<1>5. f[s] \in Nat /\ g[s] \in Nat
  OBVIOUS
<1> HIDE DEF rest
<1> QED
  BY <1>2, <1>3, <1>4, <1>5

(* Sums over disjoint sets add up.                                         *)
LEMMA SumOfUnion ==
    ASSUME NEW S, IsFiniteSet(S), NEW T, IsFiniteSet(T), S \cap T = {},
           NEW f, \A s \in S \cup T : f[s] \in Nat
    PROVE  /\ SumFunctionOnSet(f, S \cup T) = SumFunctionOnSet(f, S) + SumFunctionOnSet(f, T)
           /\ SumFunctionOnSet(f, S) \in Nat /\ SumFunctionOnSet(f, T) \in Nat
<1>1. UnitsOf(S \cup T, f) = UnitsOf(S, f) \cup UnitsOf(T, f) /\ UnitsOf(S, f) \cap UnitsOf(T, f) = {}
  BY DEF UnitsOf
<1>2. /\ IsFiniteSet(UnitsOf(S, f)) /\ Cardinality(UnitsOf(S, f)) \in Nat
      /\ IsFiniteSet(UnitsOf(T, f)) /\ Cardinality(UnitsOf(T, f)) \in Nat
  BY UnitsFinite
<1>3. Cardinality(UnitsOf(S, f) \cup UnitsOf(T, f))
        = Cardinality(UnitsOf(S, f)) + Cardinality(UnitsOf(T, f)) - Cardinality(UnitsOf(S, f) \cap UnitsOf(T, f))
  BY <1>2, FS_Union
<1>4. Cardinality(UnitsOf(S, f) \cap UnitsOf(T, f)) = 0
  BY <1>1, FS_EmptySet, Zenon
<1>5. IsFiniteSet(S \cup T)
  BY FS_Union
<1>6. /\ SumFunctionOnSet(f, S \cup T) = Cardinality(UnitsOf(S \cup T, f))
      /\ SumFunctionOnSet(f, S) = Cardinality(UnitsOf(S, f))
      /\ SumFunctionOnSet(f, T) = Cardinality(UnitsOf(T, f))
  BY <1>5, SumIsUnits
<1>7. Cardinality(UnitsOf(S \cup T, f)) = Cardinality(UnitsOf(S, f)) + Cardinality(UnitsOf(T, f))
  <2>1. Cardinality(UnitsOf(S \cup T, f)) = Cardinality(UnitsOf(S, f) \cup UnitsOf(T, f))
    BY <1>1, Zenon
  <2> QED
    BY <1>2, <1>3, <1>4, <2>1
<1> QED
  BY <1>2, <1>6, <1>7

(* A finite set of numbers has a greatest one: its numbers are no greater  *)
(* than their sum, so their distances to it are numbers.                   *)
LEMMA GreatestNumber ==
    ASSUME NEW S \in SUBSET Nat, IsFiniteSet(S), S # {}
    PROVE  \E x \in S : \A s \in S : s <= x
<1> DEFINE own == [s \in S |-> s]
           all == UnitsOf(S, own)
           n == Cardinality(all)
           gaps == {m \in Nat : \E s \in S : m = n - s}
<1>1. IsFiniteSet(all) /\ n \in Nat
  BY UnitsFinite, FS_CardinalityType
<1>2. ASSUME NEW s \in S PROVE s <= n
  <2>1. {s} \X (1 .. s) \subseteq all
    BY DEF UnitsOf
  <2>2. s \in Nat
    OBVIOUS
  <2>3. Cardinality({s} \X (1 .. s)) = s
    <3>1. IsFiniteSet(1 .. s) /\ Cardinality(1 .. s) = s
      BY <2>2, FS_Interval
    <3>2. IsFiniteSet({s}) /\ Cardinality({s}) = 1
      BY FS_Singleton
    <3>3. Cardinality({s} \X (1 .. s)) = 1 * s
      BY <3>1, <3>2, FS_Product
    <3> QED
      BY <2>2, <3>3
  <2> QED
    BY <1>1, <2>1, <2>3, FS_Subset
<1> HIDE DEF n
<1>3. gaps \in SUBSET Nat /\ gaps # {}
  <2>1. PICK s : s \in S
    OBVIOUS
  <2>2. n - s \in Nat
    BY <1>1, <1>2, <2>1
  <2> QED
    BY <2>1, <2>2
<1> HIDE DEF gaps
<1>4. PICK m \in gaps : \A k \in gaps : m <= k
  BY <1>3, LeastNumber
<1>5. PICK x \in S : m = n - x
  BY <1>4 DEF gaps
<1>6. \A s \in S : n - s \in gaps
  BY <1>1, <1>2 DEF gaps
<1> QED
  BY <1>1, <1>3, <1>4, <1>5, <1>6
===============================================================================
