------------------------- MODULE PureFunctions_proofs -------------------------
(***************************************************************************)
(* What the functions of PureFunctions promise, for every input.           *)
(***************************************************************************)
EXTENDS PureFunctions, FiniteSetTheorems, WellFoundedInduction, TLAPS

------------------------------------------------------------------------------
(* Sorting *)

(* R decides about every two elements of S. *)
StrictOrder(S, R) ==
  /\ \A x \in S : <<x, x>> \notin R
  /\ \A x, y, z \in S : <<x, y>> \in R /\ <<y, z>> \in R => <<x, z>> \in R
  /\ \A x, y \in S : x = y \/ <<x, y>> \in R \/ <<y, x>> \in R

(* How many come before x. *)
Rank(S, R, x) == Cardinality(Before(S, R, x))

(* Ranks are below the number of elements and grow along the order.        *)
LEMMA Ranks ==
  ASSUME NEW S, NEW R, IsFiniteSet(S), StrictOrder(S, R)
  PROVE  /\ Cardinality(S) \in Nat
         /\ \A x \in S : Rank(S, R, x) \in 0 .. Cardinality(S) - 1
         /\ \A x, y \in S : <<x, y>> \in R => Rank(S, R, x) < Rank(S, R, y)
<1>1. Cardinality(S) \in Nat
  BY FS_CardinalityType
<1>2. ASSUME NEW x \in S
      PROVE  /\ IsFiniteSet(Before(S, R, x)) /\ Rank(S, R, x) \in Nat
             /\ Rank(S, R, x) < Cardinality(S)
  <2>1. Before(S, R, x) \in SUBSET S /\ x \notin Before(S, R, x)
    BY DEF Before, StrictOrder
  <2>2. /\ IsFiniteSet(Before(S, R, x)) /\ Cardinality(Before(S, R, x)) <= Cardinality(S)
        /\ Cardinality(S) = Cardinality(Before(S, R, x)) => S = Before(S, R, x)
    BY <2>1, FS_Subset
  <2>3. Cardinality(Before(S, R, x)) \in Nat
    BY <2>2, FS_CardinalityType
  <2> QED
    BY <1>1, <2>1, <2>2, <2>3 DEF Rank
<1>3. ASSUME NEW x \in S, NEW y \in S, <<x, y>> \in R
      PROVE  Rank(S, R, x) < Rank(S, R, y)
  <2>1. /\ Before(S, R, x) \in SUBSET Before(S, R, y)
        /\ x \in Before(S, R, y) /\ x \notin Before(S, R, x)
    BY <1>3 DEF Before, StrictOrder
  <2>2. IsFiniteSet(Before(S, R, y))
    BY <1>2
  <2>3. /\ Cardinality(Before(S, R, x)) <= Cardinality(Before(S, R, y))
        /\ Cardinality(Before(S, R, y)) = Cardinality(Before(S, R, x))
             => Before(S, R, y) = Before(S, R, x)
    BY <2>1, <2>2, FS_Subset
  <2>4. Rank(S, R, x) \in Nat /\ Rank(S, R, y) \in Nat
    BY <1>2
  <2> QED
    BY <2>1, <2>3, <2>4 DEF Rank
<1> QED
  BY <1>1, <1>2, <1>3

(* Every rank below the number of elements is that of one element.         *)
LEMMA RanksAreTaken ==
  ASSUME NEW S, NEW R, IsFiniteSet(S), StrictOrder(S, R), NEW i \in 1 .. Cardinality(S)
  PROVE  \E x \in S : Rank(S, R, x) = i - 1
<1> DEFINE T == 0 .. Cardinality(S) - 1
           f == [x \in S |-> Rank(S, R, x)]
<1>1. Cardinality(S) \in Nat
  BY FS_CardinalityType
<1>2. IsFiniteSet(T) /\ Cardinality(T) = Cardinality(S)
  <2>1. 0 \in Int /\ Cardinality(S) - 1 \in Int
    BY <1>1
  <2>2. /\ IsFiniteSet(T)
        /\ Cardinality(T) = IF 0 > Cardinality(S) - 1 THEN 0
                            ELSE (Cardinality(S) - 1) - 0 + 1
    BY <2>1, FS_Interval
  <2> QED
    BY <1>1, <2>2
<1>3. f \in [S -> T]
  BY Ranks
<1>4. \A x, y \in S : f[x] = f[y] => x = y
  <2> SUFFICES ASSUME NEW x \in S, NEW y \in S, f[x] = f[y] PROVE x = y
    OBVIOUS
  <2>1. Rank(S, R, x) = Rank(S, R, y) /\ Rank(S, R, x) \in Int
    BY Ranks
  <2>2. ~(<<x, y>> \in R) /\ ~(<<y, x>> \in R)
    BY <2>1, Ranks
  <2> QED
    BY <2>2 DEF StrictOrder
<1>5. f \in Injection(S, T)
  BY <1>3, <1>4 DEF Injection, IsInjective
<1>6. f \in Surjection(S, T)
  BY <1>2, <1>5, FS_Injection
<1>7. i - 1 \in T
  BY <1>1
<1>8. PICK x \in S : f[x] = i - 1
  BY <1>6, <1>7 DEF Surjection
<1> QED
  BY <1>8

(* Sorting lists the elements of the set, each once, in order.             *)
LEMMA SortedLists ==
  ASSUME NEW S, NEW R, IsFiniteSet(S), StrictOrder(S, R)
  PROVE  /\ Sorted(S, R) \in Seq(S)
         /\ Len(Sorted(S, R)) = Cardinality(S)
         /\ ToSet(Sorted(S, R)) = S
         /\ \A i, j \in DOMAIN Sorted(S, R) :
              i < j <=> <<Sorted(S, R)[i], Sorted(S, R)[j]>> \in R
         /\ \A i, j \in DOMAIN Sorted(S, R) : Sorted(S, R)[i] = Sorted(S, R)[j] => i = j
<1> DEFINE s == Sorted(S, R)
<1>1. Cardinality(S) \in Nat
  BY FS_CardinalityType
<1>2. DOMAIN s = 1 .. Cardinality(S)
  BY DEF Sorted
<1>3. ASSUME NEW i \in 1 .. Cardinality(S)
      PROVE  s[i] \in S /\ Rank(S, R, s[i]) = i - 1
  <2>1. s[i] = CHOOSE x \in S : Rank(S, R, x) = i - 1
    BY DEF Sorted, Rank
  <2>2. \E x \in S : Rank(S, R, x) = i - 1
    BY RanksAreTaken
  <2> QED
    BY <2>1, <2>2
<1>4. s \in Seq(S) /\ Len(s) = Cardinality(S)
  BY <1>1, <1>2, <1>3 DEF Sorted
<1>5. ASSUME NEW i \in DOMAIN s, NEW j \in DOMAIN s PROVE i < j <=> <<s[i], s[j]>> \in R
  <2>1. /\ s[i] \in S /\ Rank(S, R, s[i]) = i - 1 /\ i \in Int
        /\ s[j] \in S /\ Rank(S, R, s[j]) = j - 1 /\ j \in Int
    BY <1>1, <1>2, <1>3
  <2>2. <<s[i], s[j]>> \in R => i - 1 < j - 1
    BY <2>1, Ranks
  <2>3. <<s[j], s[i]>> \in R => j - 1 < i - 1
    BY <2>1, Ranks
  <2>4. s[i] = s[j] => i - 1 = j - 1
    BY <2>1
  <2>5. s[i] = s[j] \/ <<s[i], s[j]>> \in R \/ <<s[j], s[i]>> \in R
    BY <2>1 DEF StrictOrder
  <2> QED
    BY <2>1, <2>2, <2>3, <2>4, <2>5
<1>6. ASSUME NEW i \in DOMAIN s, NEW j \in DOMAIN s, s[i] = s[j] PROVE i = j
  BY <1>1, <1>2, <1>3, <1>6
<1>7. ASSUME NEW x \in S PROVE \E i \in DOMAIN s : s[i] = x
  <2>1. Rank(S, R, x) \in 0 .. Cardinality(S) - 1
    BY Ranks
  <2> DEFINE i == Rank(S, R, x) + 1
  <2>2. i \in 1 .. Cardinality(S) /\ i - 1 = Rank(S, R, x)
    BY <1>1, <2>1
  <2>3. s[i] \in S /\ Rank(S, R, s[i]) = Rank(S, R, x)
    BY <1>3, <2>2
  <2>4. ~(<<s[i], x>> \in R) /\ ~(<<x, s[i]>> \in R)
    BY <2>1, <2>3, Ranks
  <2>5. s[i] = x
    BY <2>3, <2>4 DEF StrictOrder
  <2> QED
    BY <1>2, <2>2, <2>5
<1>8. ToSet(s) = S
  BY <1>2, <1>3, <1>7 DEF ToSet
<1> QED
  BY <1>4, <1>5, <1>6, <1>8

(* Only the pairs of the set matter.                                       *)
LEMMA SortedByPairs ==
  ASSUME NEW S, NEW R, NEW Q, \A x, y \in S : <<x, y>> \in R <=> <<x, y>> \in Q
  PROVE  Sorted(S, R) = Sorted(S, Q)
<1>1. \A x \in S : Before(S, R, x) = Before(S, Q, x)
  BY DEF Before
<1>2. \A i : (CHOOSE x \in S : Cardinality(Before(S, R, x)) = i - 1)
           = (CHOOSE x \in S : Cardinality(Before(S, Q, x)) = i - 1)
  BY <1>1
<1> QED
  BY <1>2 DEF Sorted

------------------------------------------------------------------------------
(* Canonical forms *)

(* A set of naturals has a least element.                                  *)
LEMMA Least ==
  ASSUME NEW S \in SUBSET Nat, S # {}
  PROVE  \E x \in S : \A y \in S : x <= y
<1>1. \E x \in S : \A y \in S : <<y, x>> \notin OpToRel(<, Nat)
  BY NatLessThanWellFounded, WFMin
<1>2. PICK x \in S : \A y \in S : <<y, x>> \notin OpToRel(<, Nat)
  BY <1>1
<1>3. ASSUME NEW y \in S PROVE x <= y
  <2>1. <<y, x>> \notin {ss \in Nat \X Nat : ss[1] < ss[2]}
    BY <1>2 DEF OpToRel
  <2> QED
    BY <2>1
<1> QED
  BY <1>3

(* Two texts are equal or one is less: the first unit decides that differs, *)
(* or else the length.                                                     *)
LEMMA LessTotal ==
  ASSUME NEW a \in Seq(Nat), NEW b \in Seq(Nat)
  PROVE  a = b \/ Less(a, b) \/ Less(b, a)
<1> DEFINE D == {i \in Nat : i \in 1 .. Len(a) /\ i \in 1 .. Len(b) /\ a[i] # b[i]}
<1>1. CASE D = {}
  <2>1. \A i \in 1 .. Len(a) : i \in 1 .. Len(b) => a[i] = b[i]
    BY <1>1
  <2>2. CASE Len(a) = Len(b)
    BY <2>1, <2>2
  <2>3. CASE Len(a) < Len(b)
    BY <2>1, <2>3 DEF Less
  <2>4. CASE Len(b) < Len(a)
    BY <2>1, <2>4 DEF Less
  <2> QED
    BY <2>2, <2>3, <2>4
<1>2. CASE D # {}
  <2>1. PICK m \in D : \A y \in D : m <= y
    BY <1>2, Least
  <2>2. ASSUME NEW j \in 1 .. m - 1 PROVE a[j] = b[j]
    <3>1. j \in Nat /\ j \in 1 .. Len(a) /\ j \in 1 .. Len(b) /\ ~(m <= j)
      BY <2>1
    <3>2. j \notin D
      BY <2>1, <3>1
    <3> QED
      BY <3>1, <3>2
  <2>3. a[m] < b[m] \/ b[m] < a[m]
    BY <2>1
  <2> QED
    BY <2>1, <2>2, <2>3 DEF Less
<1> QED
  BY <1>1, <1>2

(* No text is less than itself.                                            *)
LEMMA LessIrreflexive ==
  ASSUME NEW a \in Seq(Nat)
  PROVE  ~Less(a, a)
BY DEF Less

(* The comparison by code units is transitive.                             *)
LEMMA LessTransitive ==
  ASSUME NEW a \in Seq(Nat), NEW b \in Seq(Nat), NEW c \in Seq(Nat), Less(a, b), Less(b, c)
  PROVE  Less(a, c)
<1> DEFINE P(x, y) == Len(x) < Len(y) /\ \A i \in 1 .. Len(x) : x[i] = y[i]
           Q(x, y, i) == /\ i \in 1 .. Len(x) /\ i <= Len(y) /\ x[i] < y[i]
                         /\ \A j \in 1 .. i - 1 : x[j] = y[j]
<1>1. P(a, b) \/ \E i \in 1 .. Len(a) : Q(a, b, i)
  BY DEF Less
<1>2. P(b, c) \/ \E i \in 1 .. Len(b) : Q(b, c, i)
  BY DEF Less
<1>3. P(a, c) \/ (\E i \in 1 .. Len(a) : Q(a, c, i)) => Less(a, c)
  BY DEF Less
<1>4. CASE P(a, b) /\ P(b, c)
  <2>1. P(a, c)
    BY <1>4
  <2> QED
    BY <1>3, <2>1
<1>5. ASSUME P(a, b), NEW i \in 1 .. Len(b), Q(b, c, i) PROVE Less(a, c)
  <2>1. CASE i <= Len(a)
    <3>1. Q(a, c, i)
      BY <1>5, <2>1
    <3> QED
      BY <1>3, <3>1
  <2>2. CASE Len(a) < i
    <3>1. P(a, c)
      BY <1>5, <2>2
    <3> QED
      BY <1>3, <3>1
  <2> QED
    BY <2>1, <2>2
<1>6. ASSUME NEW i \in 1 .. Len(a), Q(a, b, i), P(b, c) PROVE Less(a, c)
  <2>1. Q(a, c, i)
    BY <1>6
  <2> QED
    BY <1>3, <2>1
<1>7. ASSUME NEW i \in 1 .. Len(a), Q(a, b, i), NEW j \in 1 .. Len(b), Q(b, c, j)
      PROVE  Less(a, c)
  <2>1. CASE i <= j
    <3>1. i <= Len(c) /\ a[i] < c[i]
      <4>1. CASE i = j
        <5>1. /\ a[i] \in Nat /\ b[i] \in Nat /\ c[i] \in Nat
              /\ a[i] < b[i] /\ b[i] < c[i]
          BY <1>7, <4>1
        <5> QED
          BY <1>7, <4>1, <5>1
      <4>2. CASE i < j
        BY <1>7, <4>2
      <4> QED
        BY <2>1, <4>1, <4>2
    <3>2. \A k \in 1 .. i - 1 : a[k] = c[k]
      BY <1>7, <2>1
    <3>3. Q(a, c, i)
      BY <3>1, <3>2
    <3> QED
      BY <1>3, <3>3
  <2>2. CASE j < i
    <3>1. j \in 1 .. Len(a) /\ Q(a, c, j)
      BY <1>7, <2>2
    <3> QED
      BY <1>3, <3>1
  <2> QED
    BY <2>1, <2>2
<1> QED
  BY <1>1, <1>2, <1>4, <1>5, <1>6, <1>7

(* Every set of names is ordered by its code units.                        *)
LEMMA UnitsOrder ==
  ASSUME NEW S \in SUBSET Names
  PROVE  IsFiniteSet(S) /\ StrictOrder(S, Utf16Order)
<1>1. IsFiniteSet(S)
  BY CanonicalAssumption, FS_Subset
<1>2. \A x \in S : Units[x] \in Seq(Nat)
  BY CanonicalAssumption
<1>3. \A x, y \in S : <<x, y>> \in Utf16Order <=> Less(Units[x], Units[y])
  BY DEF Utf16Order, utf16Less
<1>4. \A x, y \in S : x = y \/ <<x, y>> \in Utf16Order \/ <<y, x>> \in Utf16Order
  BY <1>2, <1>3, LessTotal, CanonicalAssumption
<1>5. \A x \in S : <<x, x>> \notin Utf16Order
  BY <1>2, <1>3, LessIrreflexive
<1>6. ASSUME NEW x \in S, NEW y \in S, NEW z \in S,
             <<x, y>> \in Utf16Order, <<y, z>> \in Utf16Order
      PROVE  <<x, z>> \in Utf16Order
  BY <1>2, <1>3, <1>6, LessTransitive
<1> QED
  BY <1>1, <1>4, <1>5, <1>6 DEF StrictOrder

(* JavaScript lists the properties of an object in an order.               *)
LEMMA PropertiesOrder ==
  ASSUME NEW u \in Seq(Names), \A i, j \in DOMAIN u : u[i] = u[j] => i = j
  PROVE  StrictOrder(ToSet(u), PropertyOrder(u))
<1> DEFINE Index(x, y) == x \in ArrayIndices /\ (y \in ArrayIndices => ArrayIndex[x] < ArrayIndex[y])
           Place(x, y) == \E i, j \in DOMAIN u : i < j /\ u[i] = x /\ u[j] = y
           Plain(x, y) == x \notin ArrayIndices /\ y \notin ArrayIndices /\ Place(x, y)
<1>1. \A x, y \in ToSet(u) : <<x, y>> \in PropertyOrder(u) <=> Index(x, y) \/ Plain(x, y)
  BY DEF PropertyOrder
<1>2. DOMAIN u \subseteq Nat
  OBVIOUS
<1>3. \A x \in ArrayIndices : ArrayIndex[x] \in Nat
  BY CanonicalAssumption DEF ArrayIndices
<1>4. \A x, y \in ArrayIndices : ArrayIndex[x] = ArrayIndex[y] => x = y
  BY CanonicalAssumption DEF ArrayIndices
<1>5. ASSUME NEW x \in ToSet(u) PROVE ~(Index(x, x) \/ Plain(x, x))
  BY <1>2, <1>3
<1>6. ASSUME NEW x \in ToSet(u), NEW y \in ToSet(u), NEW z \in ToSet(u),
             Index(x, y) \/ Plain(x, y), Index(y, z) \/ Plain(y, z)
      PROVE  Index(x, z) \/ Plain(x, z)
  <2>1. CASE Index(x, y) /\ Index(y, z)
    BY <1>3, <2>1
  <2>2. CASE Index(x, y) /\ Plain(y, z)
    BY <2>2
  <2>3. CASE Plain(x, y) /\ Plain(y, z)
    <3>1. PICK i \in DOMAIN u, j \in DOMAIN u : i < j /\ u[i] = x /\ u[j] = y
      BY <2>3
    <3>2. PICK k \in DOMAIN u, l \in DOMAIN u : k < l /\ u[k] = y /\ u[l] = z
      BY <2>3
    <3>3. i < l
      BY <1>2, <3>1, <3>2
    <3> QED
      BY <2>3, <3>1, <3>2, <3>3
  <2> QED
    BY <1>6, <2>1, <2>2, <2>3
<1>7. ASSUME NEW x \in ToSet(u), NEW y \in ToSet(u)
      PROVE  x = y \/ (Index(x, y) \/ Plain(x, y)) \/ (Index(y, x) \/ Plain(y, x))
  <2>1. CASE x \in ArrayIndices /\ y \in ArrayIndices
    BY <1>3, <1>4, <2>1
  <2>2. CASE x \notin ArrayIndices /\ y \notin ArrayIndices
    <3>1. PICK i \in DOMAIN u, j \in DOMAIN u : u[i] = x /\ u[j] = y
      BY DEF ToSet
    <3>2. i = j \/ i < j \/ j < i
      BY <1>2
    <3> QED
      BY <2>2, <3>1, <3>2
  <2> QED
    BY <2>1, <2>2
<1> QED
  BY <1>1, <1>5, <1>6, <1>7 DEF StrictOrder

(* The names of an object by code units: a list of each name once.         *)
LEMMA UnitsSorted ==
  ASSUME NEW s \in Seq(Names)
  PROVE  LET u == Sorted(ToSet(s), Utf16Order)
         IN /\ u \in Seq(Names) /\ ToSet(u) = ToSet(s)
            /\ \A i, j \in DOMAIN u : u[i] = u[j] => i = j
            /\ \A i, j \in DOMAIN u : i < j <=> <<u[i], u[j]>> \in Utf16Order
<1>1. ToSet(s) \in SUBSET Names
  BY DEF ToSet
<1>2. IsFiniteSet(ToSet(s)) /\ StrictOrder(ToSet(s), Utf16Order)
  BY <1>1, UnitsOrder
<1>3. Sorted(ToSet(s), Utf16Order) \in Seq(ToSet(s))
  BY <1>2, SortedLists
<1>4. Sorted(ToSet(s), Utf16Order) \in Seq(Names)
  BY <1>1, <1>3
<1> QED
  BY <1>2, <1>4, SortedLists

(* A canonical form lists the names of its object, and is the list by code *)
(* units if none of them is an array index (canonicalize).                 *)
LEMMA CanonicalForm ==
  ASSUME NEW s \in Seq(Names)
  PROVE  /\ ToSet(canonicalize(s)) = ToSet(s)
         /\ ToSet(s) \cap ArrayIndices = {} =>
              canonicalize(s) = Sorted(ToSet(s), Utf16Order)
<1> DEFINE u == Sorted(ToSet(s), Utf16Order)
<1>1. /\ u \in Seq(Names) /\ ToSet(u) = ToSet(s)
      /\ \A i, j \in DOMAIN u : u[i] = u[j] => i = j
      /\ \A i, j \in DOMAIN u : i < j <=> <<u[i], u[j]>> \in Utf16Order
  BY UnitsSorted
<1>2. StrictOrder(ToSet(u), PropertyOrder(u))
  BY <1>1, PropertiesOrder
<1>3. IsFiniteSet(ToSet(u))
  <2>1. ToSet(u) \in SUBSET Names
    BY <1>1 DEF ToSet
  <2> QED
    BY <2>1, UnitsOrder
<1>4. canonicalize(s) = Sorted(ToSet(u), PropertyOrder(u))
  BY DEF canonicalize, Enumerated
<1>5. ToSet(canonicalize(s)) = ToSet(s)
  BY <1>1, <1>2, <1>3, <1>4, SortedLists
<1>6. ASSUME ToSet(s) \cap ArrayIndices = {},
             NEW x \in ToSet(u), NEW y \in ToSet(u)
      PROVE  <<x, y>> \in PropertyOrder(u) <=> <<x, y>> \in Utf16Order
  <2>1. x \notin ArrayIndices /\ y \notin ArrayIndices
    BY <1>1, <1>6
  <2>2. PICK i \in DOMAIN u, j \in DOMAIN u : u[i] = x /\ u[j] = y
    BY DEF ToSet
  <2>3. <<x, y>> \in PropertyOrder(u) <=>
          \E k, l \in DOMAIN u : k < l /\ u[k] = x /\ u[l] = y
    BY <2>1 DEF PropertyOrder
  <2>4. (\E k, l \in DOMAIN u : k < l /\ u[k] = x /\ u[l] = y) <=> i < j
    BY <1>1, <2>2
  <2> QED
    BY <1>1, <2>2, <2>3, <2>4
<1>7. ASSUME ToSet(s) \cap ArrayIndices = {}
      PROVE  canonicalize(s) = Sorted(ToSet(s), Utf16Order)
  <2>1. Sorted(ToSet(u), PropertyOrder(u)) = Sorted(ToSet(u), Utf16Order)
    BY <1>6, <1>7, SortedByPairs
  <2> QED
    BY <1>1, <1>4, <2>1
<1> QED
  BY <1>5, <1>7

(* Two objects have one canonical form exactly if they have the same       *)
(* names, in every implementation; and the forms of the SDKs are those of  *)
(* core for objects without array indices.                                 *)
LEMMA FormsIdentify ==
  ASSUME NEW s \in Seq(Names), NEW t \in Seq(Names)
  PROVE  /\ canonicalHash(s) = canonicalHash(t) <=> ToSet(s) = ToSet(t)
         /\ canonicalHash_browser(s) = canonicalHash(s)
         /\ canonical_hash_py(s) = CanonicalHash_go(s)
         /\ ToSet(s) \cap ArrayIndices = {} => CanonicalHash_go(s) = canonicalHash(s)
<1>1. canonicalHash(s) = canonicalHash(t) => ToSet(s) = ToSet(t)
  BY CanonicalForm DEF canonicalHash
<1>2. ToSet(s) = ToSet(t) => canonicalHash(s) = canonicalHash(t)
  BY DEF canonicalHash, canonicalize
<1>3. canonicalHash_browser(s) = canonicalHash(s)
  BY DEF canonicalHash, canonicalize, canonicalHash_browser
<1>4. canonical_hash_py(s) = CanonicalHash_go(s)
  BY DEF canonical_hash_py, CanonicalHash_go
<1>5. ToSet(s) \cap ArrayIndices = {} => CanonicalHash_go(s) = canonicalHash(s)
  BY CanonicalForm DEF CanonicalHash_go, canonicalHash
<1> QED
  BY <1>1, <1>2, <1>3, <1>4, <1>5

(* What a consumer may find listed is a list of names.                     *)
LEMMA ListingsType ==
  ASSUME NEW s \in Seq(Names), s # <<>>, NEW t \in Listings(s)
  PROVE  t \in Seq(Names)
<1>1. ToSet(s) \subseteq Names /\ Len(s) \in Nat
  BY DEF ToSet
<1>2. CASE t \in {x \in [1 .. Len(s) -> ToSet(s)] : ToSet(x) = ToSet(s)}
  BY <1>1, <1>2
<1>3. CASE t = Tail(s)
  BY <1>3
<1>4. CASE \E n \in Names : t = Append(s, n)
  BY <1>4
<1> QED
  BY <1>2, <1>3, <1>4 DEF Listings

(* Signatures are by one key over one message.                             *)
LEMMA SignaturesDiffer ==
  ASSUME NEW j, NEW k, NEW m, NEW n
  PROVE  Sign(k, m) = Sign(j, n) <=> k = j /\ m = n
BY DEF Sign

(* A card, receipt or manifest signed by k over s, which arrives as t with *)
(* the key j, verifies exactly if it is genuine (verifyGlyph,              *)
(* verifyReceipt, verifyManifest and their copies).                        *)
LEMMA Travels ==
  ASSUME NEW s \in Objects
  PROVE  SignedTravels(s)
<1> SUFFICES ASSUME NEW k \in Signers, NEW j \in Signers \cup {NoValue},
                    NEW t \in Listings(s)
             PROVE  SignedTravels(s)!(k, j, t)
  BY DEF SignedTravels
<1> DEFINE plain   == (ToSet(s) \cup ToSet(t)) \cap ArrayIndices = {}
           genuine == ToSet(s) = ToSet(t) /\ j = k
           card    == [signGlyph(s, k) EXCEPT !.content = t, !.publicKey = j]
           receipt == [signReceipt(s, k) EXCEPT !.content = t, !.serverPublicKey = j]
           mf      == [signManifest(s, k) EXCEPT !.content = t, !.serverPublicKey = j]
           h == canonicalHash(s)
<1>1. /\ s \in Seq(Names) /\ t \in Seq(Names)
      /\ NoValue \notin {h, Sign(k, h), Sign(k, <<h, k>>)}
  BY InputAssumption, ListingsType DEF signGlyph, signReceipt
<1>2. /\ canonicalHash(t) = h <=> ToSet(s) = ToSet(t)
      /\ canonicalHash_browser(t) = canonicalHash(t)
      /\ canonical_hash_py(t) = CanonicalHash_go(t)
      /\ plain => CanonicalHash_go(t) = canonicalHash(t)
  BY <1>1, FormsIdentify
<1>3. /\ card.content = t /\ card.publicKey = j /\ card.id = h
      /\ card.signature = Sign(k, h)
  BY DEF signGlyph
<1>4. /\ receipt.content = t /\ receipt.serverPublicKey = j
      /\ receipt.signature = Sign(k, <<h, k>>)
      /\ mf = receipt
  BY DEF signReceipt, signManifest
<1>5. k # NoValue
  BY CanonicalAssumption
<1>6. verifyGlyph(card) <=> genuine
  BY <1>1, <1>2, <1>3, <1>5, SignaturesDiffer DEF verifyGlyph, Verifies
<1>7. verifyGlyph_browser(card) <=> genuine
  BY <1>1, <1>2, <1>3, <1>5, SignaturesDiffer DEF verifyGlyph_browser, Verifies
<1>8. plain => (VerifyGlyph_go(card) <=> genuine)
  BY <1>1, <1>2, <1>3, <1>5, SignaturesDiffer DEF VerifyGlyph_go, Verifies
<1>9. plain => (verify_glyph_py(card) <=> genuine)
  BY <1>1, <1>2, <1>3, <1>5, SignaturesDiffer DEF verify_glyph_py, Verifies
<1>10. Sign(k, <<h, k>>) = Sign(j, <<canonicalHash(t), j>>) <=> genuine
  BY <1>2, SignaturesDiffer
<1>11. /\ verifyReceipt(receipt) <=> genuine
       /\ verifyReceipt_browser(receipt) <=> genuine
       /\ verifyManifest(receipt) <=> genuine
  BY <1>1, <1>2, <1>4, <1>5, <1>10
     DEF verifyReceipt, verifyReceipt_browser, verifyManifest, Verifies
<1>12. plain => (VerifyReceipt_go(receipt) <=> genuine)
  BY <1>1, <1>2, <1>4, <1>5, <1>10 DEF VerifyReceipt_go, Verifies
<1>13. plain => (verify_receipt_py(receipt) <=> genuine)
  BY <1>1, <1>2, <1>4, <1>5, <1>10 DEF verify_receipt_py, Verifies
<1>14. ~verifyGlyph([card EXCEPT !.signature = NoValue])
  BY DEF verifyGlyph, Verifies, signGlyph
<1>15. {verifyGlyph(card), verifyGlyph_browser(card), verifyReceipt(receipt),
        verifyReceipt_browser(receipt), verifyManifest(mf)} = {genuine}
  <2>1. /\ verifyGlyph(card) = genuine /\ verifyGlyph_browser(card) = genuine
        /\ verifyReceipt(receipt) = genuine /\ verifyReceipt_browser(receipt) = genuine
        /\ verifyManifest(mf) = genuine
    BY <1>4, <1>6, <1>7, <1>11
       DEF verifyGlyph, verifyGlyph_browser, verifyReceipt, verifyReceipt_browser,
           verifyManifest, Verifies
  <2> HIDE DEF card, receipt, mf, genuine
  <2> QED
    BY <2>1
<1>16. plain => {VerifyGlyph_go(card), verify_glyph_py(card),
                 VerifyReceipt_go(receipt), verify_receipt_py(receipt),
                 VerifyManifest_go(mf), verify_manifest_py(mf)} = {genuine}
  <2> SUFFICES ASSUME plain
               PROVE  {VerifyGlyph_go(card), verify_glyph_py(card),
                       VerifyReceipt_go(receipt), verify_receipt_py(receipt),
                       VerifyManifest_go(mf), verify_manifest_py(mf)} = {genuine}
    OBVIOUS
  <2>1. VerifyManifest_go(mf) = VerifyReceipt_go(receipt) /\ verify_manifest_py(mf) = verify_receipt_py(receipt)
    BY <1>4 DEF VerifyManifest_go, verify_manifest_py
  <2>2. /\ VerifyGlyph_go(card) = genuine /\ verify_glyph_py(card) = genuine
        /\ VerifyReceipt_go(receipt) = genuine /\ verify_receipt_py(receipt) = genuine
    BY <1>8, <1>9, <1>12, <1>13
       DEF VerifyGlyph_go, verify_glyph_py, VerifyReceipt_go, verify_receipt_py, Verifies
  <2> HIDE DEF card, receipt, mf, genuine
  <2> QED
    BY <2>1, <2>2
<1> QED
  BY <1>14, <1>15, <1>16

(* A directory is believed exactly if the pinned root signed it and it     *)
(* arrived whole (verifyProvidersRegistry, discoverProviders).             *)
LEMMA Directories ==
  ASSUME NEW s \in Objects
  PROVE  DirectoryFromRoot(s)
<1> SUFFICES ASSUME NEW k \in Signers, NEW root \in Signers,
                    NEW j \in Signers \cup {NoValue}, NEW t \in Listings(s)
             PROVE  DirectoryFromRoot(s)!(k, root, j, t)
  BY DEF DirectoryFromRoot
<1> DEFINE answer == [signProvidersRegistry(s, k) EXCEPT !.content = t, !.signedBy = j]
           h == canonicalHash(s)
<1>1. s \in Seq(Names) /\ t \in Seq(Names)
  BY InputAssumption, ListingsType
<1>2. canonicalHash(t) = h <=> ToSet(s) = ToSet(t)
  BY <1>1, FormsIdentify
<1>3. /\ answer.content = t /\ answer.signedBy = j /\ answer.version = "1.0"
      /\ answer.signature = Sign(k, <<"1.0", h, k>>)
  BY DEF signProvidersRegistry
<1>4. k # NoValue /\ root # NoValue
  BY CanonicalAssumption
<1>5. Sign(k, <<"1.0", h, k>>) # NoValue
  BY InputAssumption DEF signProvidersRegistry
<1>6. verifyProvidersRegistry(answer, root) <=> k = root /\ j = k /\ ToSet(t) = ToSet(s)
  BY <1>2, <1>3, <1>4, <1>5, SignaturesDiffer DEF verifyProvidersRegistry, Verifies
<1>7. discoverProviders(answer, root) # {} <=> verifyProvidersRegistry(answer, root)
  BY DEF discoverProviders
<1>8. (discoverProviders(answer, root) # {}) = (k = root /\ j = k /\ ToSet(t) = ToSet(s))
  <2> HIDE DEF answer
  <2> QED
    BY <1>6, <1>7
<1> QED
  BY <1>8

(* What the inputs chosen so far are.                                      *)
Chosen ==
  /\ Is("object") => input.arg \in Objects
  /\ Is("import") => input.arg \in Imports
  /\ Is("request") => input.arg \in Requests
  /\ Is("tools") => input.arg \in ToolLists
  /\ Is("query") => input.arg \in Queries
  /\ Is("server") => input.arg \in Servers

LEMMA ChosenInvariant == Spec => []Chosen
<1>1. Init => Chosen
  BY DEF Init, Chosen, Is
<1>2. Chosen /\ [Next]_input => Chosen'
  BY DEF Chosen, Next, Is, Choose, ChooseObject, ChooseImport, ChooseRequest,
         ChooseTools, ChooseQuery, ChooseServer
<1> QED
  BY <1>1, <1>2, PTL DEF Spec

(* Whatever object is signed, of whatever names, every implementation that *)
(* reads it finds it genuine if it is, and only then; only array indices   *)
(* among the names keep the Go and Python SDKs from following core         *)
(* (canonicalize, the verifiers of four implementations).                  *)
THEOREM DocumentsTravel == Spec => []SignedDocumentsTravel
<1>1. Chosen => SignedDocumentsTravel
  BY Travels, Directories DEF Chosen, SignedDocumentsTravel
<1> QED
  BY <1>1, ChosenInvariant, PTL

------------------------------------------------------------------------------
(* Names of tools *)

(* A word stands by itself in the kebab-case name exactly where it does in *)
(* the name that is searched for dangerous words (isDangerousName, toKebab). *)
LEMMA KebabKeepsWords ==
  ASSUME NEW name \in Seq([sep : STRING, word : STRING])
  PROVE  WholeWords(toKebab(name), {"-"}) \cap DANGEROUS_TOOL_WORDS # {}
           => isDangerousName(name)
<1> DEFINE kebab == toKebab(name)
           normalized == [i \in DOMAIN name |->
                            IF name[i].sep \in {"_", "-", "hump"}
                            THEN [name[i] EXCEPT !.sep = " "] ELSE name[i]]
<1>1. /\ DOMAIN kebab = DOMAIN name /\ DOMAIN normalized = DOMAIN name
      /\ DOMAIN name = 1 .. Len(name) /\ Len(name) \in Nat
  BY DEF toKebab
<1>2. Len(kebab) = Len(name) /\ Len(normalized) = Len(name)
  BY <1>1
<1>3. ASSUME NEW i \in DOMAIN name
      PROVE  /\ kebab[i].word = name[i].word /\ normalized[i].word = name[i].word
             /\ Apart(kebab, {"-"}, i) => Apart(normalized, {" ", "."}, i)
  <2>1. i \in 1 .. Len(name) /\ name[i] \in [sep : STRING, word : STRING]
    <3> DEFINE Chunk == [sep : STRING, word : STRING]
    <3>1. i \in 1 .. Len(name) /\ name \in Seq(Chunk)
      BY <1>1
    <3> HIDE DEF Chunk
    <3>2. name[i] \in Chunk
      BY <3>1
    <3> QED
      BY <3>1, <3>2 DEF Chunk
  <2>2. /\ kebab[i].word = name[i].word
        /\ kebab[i].sep = IF i > 1 /\ name[i].sep \in {"hump", "_", "-", "."}
                          THEN "-" ELSE ""
    BY DEF toKebab
  <2>3. /\ normalized[i].word = name[i].word
        /\ normalized[i].sep = IF name[i].sep \in {"_", "-", "hump"}
                               THEN " " ELSE name[i].sep
    BY <2>1
  <2> QED
    BY <2>1, <2>2, <2>3 DEF Apart
<1>4. ASSUME NEW w \in WholeWords(kebab, {"-"})
      PROVE  w \in WholeWords(normalized, {" ", "."})
  <2>1. PICK i \in DOMAIN kebab : /\ w = kebab[i].word /\ Apart(kebab, {"-"}, i)
                                  /\ i = Len(kebab) \/ Apart(kebab, {"-"}, i + 1)
    BY DEF WholeWords
  <2>2. i # Len(name) => i + 1 \in DOMAIN name
    BY <1>1, <2>1
  <2>3. /\ w = normalized[i].word /\ Apart(normalized, {" ", "."}, i)
        /\ i = Len(normalized) \/ Apart(normalized, {" ", "."}, i + 1)
    BY <1>1, <1>2, <1>3, <2>1, <2>2
  <2> QED
    BY <1>1, <2>1, <2>3 DEF WholeWords
<1> QED
  BY <1>4 DEF isDangerousName

(* Whatever a tool is called and its server claims, the name a glyph shows *)
(* does not hide a dangerous word from its cost (glyphsFromMcpTools).      *)
THEOREM ShownNamesTellRisk == Spec => []RiskSurvivesRenaming
<1>1. ASSUME NEW l \in ToolLists PROVE NameShowsRisk(l.tools, l.maxTools)
  <2> DEFINE glyphs == glyphsFromMcpTools(l.tools, l.maxTools)
  <2> SUFFICES ASSUME NEW i \in DOMAIN glyphs
               PROVE  /\ WholeWords(glyphs[i].name, {"-"}) \cap DANGEROUS_TOOL_WORDS # {} =>
                           /\ glyphs[i].cost.riskTier = "danger"
                           /\ glyphs[i].cost.requiresConfirmation
                           /\ glyphs[i].cost.sideEffects
                      /\ glyphs[i].cost.riskTier = "safe" => ~glyphs[i].cost.sideEffects
    BY DEF NameShowsRisk
  <2>1. i \in DOMAIN l.tools
    BY DEF glyphsFromMcpTools
  <2>2. /\ l.tools[i].name \in Seq([sep : STRING, word : STRING])
        /\ l.tools[i].annotations.readOnlyHint \in BOOLEAN
        /\ l.tools[i].annotations.destructiveHint \in BOOLEAN
    <3> DEFINE Tool == [name : Seq([sep : STRING, word : STRING]),
                        annotations : [readOnlyHint : BOOLEAN, destructiveHint : BOOLEAN]]
    <3>1. l.tools \in Seq(Tool)
      BY InputAssumption
    <3> HIDE DEF Tool
    <3>2. l.tools[i] \in Tool
      BY <2>1, <3>1
    <3> QED
      BY <3>2 DEF Tool
  <2>3. /\ glyphs[i].name = toKebab(l.tools[i].name)
        /\ glyphs[i].cost = deriveCost(l.tools[i].name, l.tools[i].annotations)
    BY <2>1 DEF glyphsFromMcpTools
  <2> HIDE DEF glyphs
  <2>4. WholeWords(glyphs[i].name, {"-"}) \cap DANGEROUS_TOOL_WORDS # {}
          => isDangerousName(l.tools[i].name)
    BY <2>2, <2>3, KebabKeepsWords
  <2>5. /\ isDangerousName(l.tools[i].name) =>
             /\ glyphs[i].cost.riskTier = "danger"
             /\ glyphs[i].cost.requiresConfirmation
             /\ glyphs[i].cost.sideEffects
        /\ glyphs[i].cost.riskTier = "safe" => ~glyphs[i].cost.sideEffects
    <3> DEFINE d == isDangerousName(l.tools[i].name)
               r == l.tools[i].annotations.readOnlyHint
               x == l.tools[i].annotations.destructiveHint
               c == glyphs[i].cost
    <3>1. /\ c.sideEffects = ~(r /\ ~d) /\ c.requiresConfirmation = (x \/ d)
          /\ c.riskTier = IF x \/ d THEN "danger" ELSE IF r /\ ~d THEN "safe" ELSE "caution"
      BY <2>3 DEF deriveCost
    <3> QED
      BY <2>2, <3>1
  <2> QED
    BY <2>4, <2>5
<1>2. Chosen => RiskSurvivesRenaming
  BY <1>1 DEF Chosen, RiskSurvivesRenaming
<1> QED
  BY <1>2, ChosenInvariant, PTL

------------------------------------------------------------------------------
(* Ranked entries *)

(* The entries of a lexicon by their words. *)
Entries == Seq([strong : SUBSET STRING, intent : SUBSET STRING])

(* Tokens are counted (queryTokens, LexicalScorer.rank).                   *)
LEMMA TokensCount ==
  ASSUME NEW query \in Seq(STRING)
  PROVE  /\ IsFiniteSet(queryTokens(query)) /\ Cardinality(queryTokens(query)) \in Nat
         /\ \A W : /\ IsFiniteSet(Hits(query, W)) /\ Cardinality(Hits(query, W)) \in Nat
                   /\ Hits(query, W) \in SUBSET queryTokens(query)
<1>1. DOMAIN query = 1 .. Len(query) /\ Len(query) \in Nat
  OBVIOUS
<1>2. IsFiniteSet(DOMAIN query)
  BY <1>1, FS_Interval
<1>3. queryTokens(query) \in SUBSET DOMAIN query
  BY DEF queryTokens
<1>4. IsFiniteSet(queryTokens(query))
  BY <1>2, <1>3, FS_Subset
<1>5. ASSUME NEW W PROVE Hits(query, W) \in SUBSET queryTokens(query)
  BY DEF Hits
<1> QED
  BY <1>4, <1>5, FS_Subset, FS_CardinalityType

(* Scores are numbers (LexicalScorer.rank).                                *)
LEMMA ScoresType ==
  ASSUME NEW query \in Seq(STRING), NEW entries \in Entries, NEW i \in DOMAIN entries
  PROVE  rank(query, entries)[i] \in Nat
BY TokensCount DEF rank

(* Descending scores, with ties as they were listed, order the entries     *)
(* (GlyphResolver.resolve).                                                *)
LEMMA ByScore ==
  ASSUME NEW query \in Seq(STRING), NEW entries \in Entries, NEW minScore \in Nat
  PROVE  /\ IsFiniteSet(Kept(query, entries, minScore))
         /\ StrictOrder(Kept(query, entries, minScore), Better(query, entries))
<1> DEFINE K == Kept(query, entries, minScore)
           score == rank(query, entries)
<1>1. DOMAIN entries = 1 .. Len(entries) /\ Len(entries) \in Nat
  BY DEF Entries
<1>2. K \in SUBSET DOMAIN entries
  BY DEF Kept
<1>3. IsFiniteSet(K)
  <2>1. IsFiniteSet(DOMAIN entries)
    BY <1>1, FS_Interval
  <2> QED
    BY <1>2, <2>1, FS_Subset
<1>4. \A i \in K : i \in Nat /\ score[i] \in Nat
  BY <1>1, <1>2, ScoresType
<1>5. \A i, j \in K : <<i, j>> \in Better(query, entries)
                        <=> score[i] > score[j] \/ (score[i] = score[j] /\ i < j)
  BY <1>2 DEF Better
<1> HIDE DEF K, score
<1>6. StrictOrder(K, Better(query, entries))
  BY <1>4, <1>5 DEF StrictOrder
<1> QED
  BY <1>3, <1>6 DEF K

(* A slice is the beginning of what it is taken from.                      *)
LEMMA Slices ==
  ASSUME NEW S, NEW s \in Seq(S), NEW limit \in Nat
  PROVE  /\ Len(slice(s, limit)) = IF limit < Len(s) THEN limit ELSE Len(s)
         /\ DOMAIN slice(s, limit) = 1 .. Len(slice(s, limit))
         /\ \A p \in DOMAIN slice(s, limit) :
              p \in 1 .. Len(s) /\ p <= limit /\ slice(s, limit)[p] = s[p]
BY DEF slice

(* An entry that holds every token scores more than one that misses one    *)
(* (LexicalScorer.rank).                                                   *)
LEMMA FullBeatsPartial ==
  ASSUME NEW query \in Seq(STRING), NEW entries \in Entries,
         NEW i \in DOMAIN entries, NEW j \in DOMAIN entries,
         {query[k] : k \in queryTokens(query)} \subseteq entries[i].strong,
         ~ ({query[k] : k \in queryTokens(query)}
              \subseteq entries[j].strong \cup entries[j].intent)
  PROVE  rank(query, entries)[i] > rank(query, entries)[j]
<1> DEFINE T == queryTokens(query)
           A == Hits(query, entries[j].strong)
           B == Hits(query, entries[j].intent \ entries[j].strong)
<1>1. /\ Cardinality(T) \in Nat /\ Cardinality(A) \in Nat /\ Cardinality(B) \in Nat
      /\ IsFiniteSet(T) /\ IsFiniteSet(A) /\ IsFiniteSet(B)
      /\ A \in SUBSET T /\ B \in SUBSET T
  BY TokensCount
<1>2. Hits(query, entries[i].strong) = T
  BY DEF Hits
<1>3. rank(query, entries)[i] >= 10 * Cardinality(T)
  BY <1>1, <1>2, TokensCount DEF rank
<1>4. rank(query, entries)[j] = 10 * Cardinality(A) + 6 * Cardinality(B)
  BY DEF rank
<1>5. PICK k \in T : query[k] \notin entries[j].strong \cup entries[j].intent
  OBVIOUS
<1>6. /\ A \cap B = {} /\ k \notin A \cup B /\ A \cup B \in SUBSET T
  BY <1>1, <1>5 DEF Hits
<1> HIDE DEF T, A, B
<1>7. /\ IsFiniteSet(A \cup B)
      /\ Cardinality(A \cup B) = Cardinality(A) + Cardinality(B) - Cardinality(A \cap B)
  BY <1>1, FS_Union
<1>8. Cardinality(A \cap B) = 0
  BY <1>6, FS_EmptySet
<1>9. /\ Cardinality(A \cup B) <= Cardinality(T)
      /\ Cardinality(T) = Cardinality(A \cup B) => T = A \cup B
  BY <1>1, <1>6, FS_Subset
<1>10. T # A \cup B
  BY <1>5, <1>6
<1>11. Cardinality(A) + Cardinality(B) < Cardinality(T)
  BY <1>1, <1>7, <1>8, <1>9, <1>10
<1>12. rank(query, entries)[i] \in Nat /\ rank(query, entries)[j] \in Nat
  BY ScoresType
<1> QED
  BY <1>1, <1>3, <1>4, <1>11, <1>12

(* What is returned is ranked, complete up to the limit, and an entry that *)
(* names every token comes before one that misses a token                  *)
(* (GlyphResolver.resolve).                                                *)
LEMMA ResolveReturns ==
  ASSUME NEW query \in Seq(STRING), NEW entries \in Entries,
         NEW limit \in Nat, NEW minScore \in Nat
  PROVE  ResolvesBest(query, entries, limit, minScore)
<1> DEFINE K == Kept(query, entries, minScore)
           B == Better(query, entries)
           s == Sorted(K, B)
           result == resolve(query, entries, limit, minScore)
           score == rank(query, entries)
           words == {query[k] : k \in queryTokens(query)}
<1>1. IsFiniteSet(K) /\ StrictOrder(K, B)
  BY ByScore
<1>2. /\ s \in Seq(K) /\ ToSet(s) = K
      /\ \A i, j \in DOMAIN s : i < j <=> <<s[i], s[j]>> \in B
      /\ \A i, j \in DOMAIN s : s[i] = s[j] => i = j
  BY <1>1, SortedLists
<1>3. /\ DOMAIN s = 1 .. Len(s) /\ Len(s) \in Nat
  BY <1>2
<1>4. /\ Len(result) = IF limit < Len(s) THEN limit ELSE Len(s)
      /\ DOMAIN result = 1 .. Len(result)
      /\ \A p \in DOMAIN result : p \in DOMAIN s /\ p <= limit /\ result[p] = s[p]
  BY <1>2, <1>3, Slices DEF resolve
<1>5. /\ K \in SUBSET DOMAIN entries
      /\ \A i \in DOMAIN entries : i \notin K => score[i] < Threshold(query, minScore)
  <2>1. \A i \in DOMAIN entries : score[i] \in Nat
    BY ScoresType
  <2>2. Threshold(query, minScore) \in Nat
    BY TokensCount DEF Threshold
  <2> QED
    BY <2>1, <2>2 DEF Kept
<1>6. \A p \in DOMAIN s : s[p] \in K /\ s[p] \in DOMAIN entries /\ score[s[p]] \in Nat
  BY <1>2, <1>3, <1>5, ScoresType
<1>7. \A i, j \in DOMAIN entries : <<i, j>> \in B => score[i] >= score[j]
  BY ScoresType DEF Better
<1>8. \A i, j \in DOMAIN s : i < j => score[s[i]] >= score[s[j]]
  BY <1>2, <1>6, <1>7
<1> HIDE DEF K, B, s, result, score
<1>9. ASSUME NEW p \in DOMAIN result, NEW q \in DOMAIN result, p < q
      PROVE  score[result[p]] >= score[result[q]] /\ result[p] # result[q]
  <2>1. p \in Nat /\ q \in Nat
    BY <1>3, <1>4
  <2> QED
    BY <1>2, <1>4, <1>8, <1>9, <2>1
<1>10. ASSUME NEW i \in DOMAIN entries, i \notin ToSet(result)
       PROVE  \/ score[i] < Threshold(query, minScore)
              \/ /\ Len(result) = limit
                 /\ \A p \in DOMAIN result : score[result[p]] >= score[i]
  <2>1. CASE i \notin K
    BY <1>5, <2>1
  <2>2. CASE i \in K
    <3>1. PICK q \in DOMAIN s : s[q] = i
      BY <1>2, <2>2 DEF ToSet
    <3>2. q \notin DOMAIN result
      BY <1>4, <1>10, <3>1 DEF ToSet
    <3>3. limit < Len(s) /\ Len(result) = limit /\ q > limit
      <4>1. q \in 1 .. Len(s) /\ q \notin 1 .. Len(result) /\ Len(s) \in Nat
        BY <1>3, <1>4, <3>1, <3>2
      <4>2. Len(result) = IF limit < Len(s) THEN limit ELSE Len(s)
        BY <1>4
      <4> QED
        BY <4>1, <4>2
    <3>4. \A p \in DOMAIN result : p < q
      BY <1>3, <1>4, <3>1, <3>3
    <3>5. \A p \in DOMAIN result : score[result[p]] >= score[i]
      BY <1>4, <1>8, <3>1, <3>4
    <3> QED
      BY <3>3, <3>5
  <2> QED
    BY <2>1, <2>2
<1>11. ASSUME NEW p \in DOMAIN result, NEW q \in DOMAIN result,
              words \subseteq entries[result[q]].strong,
              ~ (words \subseteq entries[result[p]].strong \cup entries[result[p]].intent)
       PROVE  q < p
  <2>1. result[p] \in DOMAIN entries /\ result[q] \in DOMAIN entries
    BY <1>4, <1>6
  <2>2. score[result[q]] > score[result[p]]
    BY <1>11, <2>1, FullBeatsPartial DEF score
  <2>3. score[result[q]] \in Nat /\ score[result[p]] \in Nat /\ p \in Nat /\ q \in Nat
    BY <1>3, <1>4, <1>6
  <2>4. p = q \/ p < q \/ q < p
    BY <2>3
  <2> QED
    BY <1>9, <2>2, <2>3, <2>4
<1> QED
  BY <1>9, <1>10, <1>11 DEF ResolvesBest, result, score

(* For every lexicon and query, the best matches come first and none that  *)
(* passes the threshold is lost but to the limit (GlyphResolver.resolve).  *)
THEOREM BestComeFirst == Spec => []BestMatchesFirst
<1>1. Chosen => BestMatchesFirst
  <2>1. ASSUME NEW q \in Queries PROVE ResolvesBest(q.query, q.entries, q.limit, q.minScore)
    BY ResolveReturns, InputAssumption DEF Entries
  <2> QED
    BY <2>1 DEF Chosen, BestMatchesFirst
<1> QED
  BY <1>1, ChosenInvariant, PTL

------------------------------------------------------------------------------
(* Requests to an imported API *)

(* A bounded set of naturals has a greatest element.                       *)
LEMMA Greatest ==
  ASSUME NEW n \in Nat, NEW S \in SUBSET (1 .. n), S # {}
  PROVE  \E x \in S : \A y \in S : y <= x
<1> DEFINE D == {d \in Nat : \E x \in S : d = n - x}
<1>1. \A x \in S : x \in Int /\ n - x \in Nat
  OBVIOUS
<1>2. D # {}
  BY <1>1
<1>3. PICK d \in D : \A e \in D : d <= e
  BY <1>2, Least
<1>4. PICK x \in S : d = n - x
  BY <1>3
<1>5. ASSUME NEW y \in S PROVE y <= x
  <2>1. n - y \in D
    BY <1>1
  <2>2. n - x <= n - y
    BY <1>3, <1>4, <2>1
  <2> QED
    BY <1>1, <2>2
<1> QED
  BY <1>5

(* What a request is made from (Operation, SecurityContext). *)
Operation(op) ==
  /\ op.params \in Seq([name : STRING, in : {"path", "query", "header", "cookie"}])
  /\ op.security \in Seq(STRING)

Context(ctx) ==
  /\ ctx.documentSecurity \in Seq(STRING)
  /\ \A s \in DOMAIN ctx.schemes :
       /\ ctx.schemes[s] \in Scheme
       /\ ctx.schemes[s].type = "apiKey" => ctx.schemes[s].in # ""

(* A pair is its parts.                                                    *)
LEMMA Pairs ==
  ASSUME NEW a, NEW b, NEW p, p = <<a, b>>
  PROVE  p[1] = a /\ p[2] = b /\ p = <<p[1], p[2]>>
OBVIOUS

(* A scheme's credential goes into a header, the query or a cookie, under  *)
(* one name; into the query under a name that errors redact.               *)
LEMMA Slots ==
  ASSUME NEW ctx, Context(ctx), NEW s \in DOMAIN ctx.schemes
  PROVE  /\ Slot(s, ctx) = <<Slot(s, ctx)[1], Slot(s, ctx)[2]>>
         /\ Slot(s, ctx)[1] \in {"header", "query", "cookie"}
         /\ Slot(s, ctx)[1] = "query" => Slot(s, ctx)[2] \in querySchemeNames(ctx)
<1>1. /\ ctx.schemes[s].type \in {"bearer", "basic", "apiKey"}
      /\ ctx.schemes[s].in \in {"", "header", "query", "cookie"}
      /\ ctx.schemes[s].type = "apiKey" => ctx.schemes[s].in # ""
  BY DEF Context, Scheme
<1>2. CASE ctx.schemes[s].type \in {"bearer", "basic"}
  BY <1>2 DEF Slot
<1>3. CASE ctx.schemes[s].type = "apiKey"
  <2>1. Slot(s, ctx) = <<ctx.schemes[s].in, ctx.schemes[s].name>>
    BY <1>3 DEF Slot
  <2>2. ctx.schemes[s].in = "query" => ctx.schemes[s].name \in querySchemeNames(ctx)
    BY <1>3 DEF querySchemeNames
  <2>3. /\ Slot(s, ctx)[1] = ctx.schemes[s].in /\ Slot(s, ctx)[2] = ctx.schemes[s].name
        /\ Slot(s, ctx) = <<Slot(s, ctx)[1], Slot(s, ctx)[2]>>
    BY <2>1, Pairs
  <2>4. ctx.schemes[s].in \in {"header", "query", "cookie"}
    BY <1>1, <1>3
  <2> QED
    BY <2>2, <2>3, <2>4
<1> QED
  BY <1>1, <1>2, <1>3

(* Of the requirements with the slot of one that applies, a last one is    *)
(* final, and it is the only one (applySecurity).                          *)
LEMMA LastOneCounts ==
  ASSUME NEW reqs \in Seq(STRING), NEW ctx, NEW i \in Applied(reqs, ctx)
  PROVE  \E m \in Final(reqs, ctx) :
           /\ Slot(reqs[m], ctx) = Slot(reqs[i], ctx)
           /\ \A k \in Final(reqs, ctx) : Slot(reqs[k], ctx) = Slot(reqs[i], ctx) => k = m
<1> DEFINE S == {j \in Applied(reqs, ctx) : Slot(reqs[j], ctx) = Slot(reqs[i], ctx)}
<1>1. S \in SUBSET (1 .. Len(reqs)) /\ Len(reqs) \in Nat /\ S # {}
  BY DEF Applied
<1>2. PICK m \in S : \A y \in S : y <= m
  BY <1>1, Greatest
<1>3. m \in Final(reqs, ctx)
  BY <1>2 DEF Final
<1>4. ASSUME NEW k \in Final(reqs, ctx), Slot(reqs[k], ctx) = Slot(reqs[i], ctx)
      PROVE  k = m
  <2>1. k \in S
    BY <1>4 DEF Final
  <2>2. m <= k
    BY <1>2, <1>4 DEF Final
  <2>3. k \in Int /\ m \in Int /\ k <= m
    BY <1>1, <1>2, <2>1
  <2> QED
    BY <2>2, <2>3
<1> QED
  BY <1>2, <1>3, <1>4

(* Security is that of the operation or of the document.                   *)
LEMMA Effective ==
  ASSUME NEW op, NEW ctx, Operation(op), Context(ctx)
  PROVE  effectiveSecurity(op, ctx) \in Seq(STRING)
BY DEF effectiveSecurity, Operation, Context

(* The credentials of a place are those of declared schemes.               *)
LEMMA CredentialsAre ==
  ASSUME NEW reqs, NEW ctx, NEW place,
         NEW which \in SUBSET Applied(reqs, ctx),
         NEW c \in Credentials(reqs, ctx, which, place)
  PROVE  \E i \in which :
           /\ reqs[i] \in DOMAIN ctx.schemes
           /\ Slot(reqs[i], ctx)[1] = place
           /\ c = <<Slot(reqs[i], ctx)[2], Secret(reqs[i])>>
BY DEF Credentials, Applied, Applies

(* All that stands under a name is the credential of one requirement. *)
Taken(reqs, ctx, name, all) ==
  \E m \in Applied(reqs, ctx) :
    /\ <<name, Secret(reqs[m])>> \in all
    /\ \A q \in all : q[1] = name => q[2] = Secret(reqs[m])

(* In a place where credentials are set, a slot's name comes with one      *)
(* credential and nothing else (headers[name] = ..., query.set).           *)
LEMMA SlotTaken ==
  ASSUME NEW reqs \in Seq(STRING), NEW ctx, Context(ctx), NEW pairs,
         NEW i \in Applied(reqs, ctx)
  PROVE  Taken(reqs, ctx, Slot(reqs[i], ctx)[2],
               Override(pairs, Credentials(reqs, ctx, Final(reqs, ctx),
                                           Slot(reqs[i], ctx)[1])))
<1> DEFINE place == Slot(reqs[i], ctx)[1]
           name  == Slot(reqs[i], ctx)[2]
           secrets == Credentials(reqs, ctx, Final(reqs, ctx), place)
           all == Override(pairs, secrets)
<1>1. Final(reqs, ctx) \in SUBSET Applied(reqs, ctx)
  BY DEF Final
<1>2. \A j \in Applied(reqs, ctx) :
        /\ reqs[j] \in DOMAIN ctx.schemes
        /\ Slot(reqs[j], ctx) = <<Slot(reqs[j], ctx)[1], Slot(reqs[j], ctx)[2]>>
  BY Slots DEF Applied, Applies
<1>3. PICK m \in Final(reqs, ctx) :
        /\ Slot(reqs[m], ctx) = Slot(reqs[i], ctx)
        /\ \A k \in Final(reqs, ctx) : Slot(reqs[k], ctx) = Slot(reqs[i], ctx) => k = m
  BY LastOneCounts
<1>4. <<name, Secret(reqs[m])>> \in secrets
  BY <1>3 DEF Credentials
<1>5. ASSUME NEW q \in all, q[1] = name PROVE q[2] = Secret(reqs[m])
  <2>1. q \in secrets
    <3>1. ~ (\A c \in secrets : c[1] # q[1])
      BY <1>4, <1>5
    <3> HIDE DEF secrets
    <3> QED
      BY <1>5, <3>1 DEF Override
  <2>2. PICK k \in Final(reqs, ctx) :
          /\ Slot(reqs[k], ctx)[1] = place
          /\ q = <<Slot(reqs[k], ctx)[2], Secret(reqs[k])>>
    BY <1>1, <2>1, CredentialsAre
  <2>3. Slot(reqs[k], ctx) = Slot(reqs[i], ctx)
    BY <1>1, <1>2, <1>5, <2>2
  <2>4. k = m
    BY <1>3, <2>3
  <2> QED
    BY <2>2, <2>4
<1>6. <<name, Secret(reqs[m])>> \in all
  BY <1>4 DEF Override
<1> HIDE DEF place, name, all
<1>7. Taken(reqs, ctx, name, all)
  BY <1>1, <1>5, <1>6 DEF Taken
<1> QED
  BY <1>7 DEF place, name, all

(* The credentials that set the headers or the query of a request. *)
Set(op, ctx, place) ==
  Credentials(effectiveSecurity(op, ctx), ctx, Final(effectiveSecurity(op, ctx), ctx), place)

(* What the caller's input puts into the query. *)
Query(op, given) == UNION {appendQuery(n, given[n]) : n \in Given(op, given, "query")}

(* The parts of a request (buildHandler).                                  *)
LEMMA RequestParts ==
  ASSUME NEW op, NEW ctx, NEW given
  PROVE  /\ buildHandler(op, ctx, given).path = Placed(op, given, "path")
         /\ buildHandler(op, ctx, given).query
              = Override(Query(op, given), Set(op, ctx, "query"))
         /\ buildHandler(op, ctx, given).headers
              = {h \in Override(Placed(op, given, "header"), Set(op, ctx, "header")) :
                   h[1] \notin Written(buildHandler(op, ctx, given))}
         /\ buildHandler(op, ctx, given).cookies
              = <<Placed(op, given, "cookie"),
                  Credentials(effectiveSecurity(op, ctx), ctx,
                              Applied(effectiveSecurity(op, ctx), ctx), "cookie")>>
         /\ buildHandler(op, ctx, given).body = Parameters(op, given).body
<1> DEFINE req == applySecurity(Parameters(op, given), effectiveSecurity(op, ctx), ctx)
<1>1. /\ req.path = Placed(op, given, "path")
      /\ req.query = Override(Query(op, given), Set(op, ctx, "query"))
      /\ req.headers = Override(Placed(op, given, "header"), Set(op, ctx, "header"))
      /\ req.cookies
           = <<Placed(op, given, "cookie"),
               Credentials(effectiveSecurity(op, ctx), ctx,
                           Applied(effectiveSecurity(op, ctx), ctx), "cookie")>>
      /\ req.body = Parameters(op, given).body
      /\ DOMAIN req = {"path", "query", "headers", "cookies", "body"}
  <2> DEFINE mine == Credentials(effectiveSecurity(op, ctx), ctx,
                                 Applied(effectiveSecurity(op, ctx), ctx), "cookie")
  <2>1. /\ req.path = Placed(op, given, "path")
        /\ req.query = Override(Query(op, given), Set(op, ctx, "query"))
        /\ req.headers = Override(Placed(op, given, "header"), Set(op, ctx, "header"))
        /\ req.cookies = Append(<<Placed(op, given, "cookie")>>, mine)
        /\ req.body = Parameters(op, given).body
        /\ DOMAIN req = {"path", "query", "headers", "cookies", "body"}
    BY DEF applySecurity, Parameters, Set, Query
  <2>2. ASSUME NEW x, NEW y PROVE Append(<<x>>, y) = <<x, y>>
    <3> DEFINE t == Append(<<x>>, y)
    <3>1. <<x>> \in Seq({x, y}) /\ y \in {x, y} /\ Len(<<x>>) = 1 /\ <<x>>[1] = x
      OBVIOUS
    <3>2. t \in Seq({x, y}) /\ Len(t) = 2 /\ t[1] = x /\ t[2] = y
      BY <3>1
    <3> HIDE DEF t
    <3>3. t = <<x, y>>
      BY <3>2
    <3> QED
      BY <3>3 DEF t
  <2> QED
    BY <2>1, <2>2
<1>2. buildHandler(op, ctx, given) = Finished(req)
  BY DEF buildHandler
<1> HIDE DEF req
<1>3. Written(Finished(req)) = Written(req)
  BY <1>1 DEF Finished, Written
<1> QED
  BY <1>1, <1>2, <1>3 DEF Finished

(* Credentials that are set are those of declared schemes that apply.      *)
LEMMA SetAre ==
  ASSUME NEW op, NEW ctx, NEW place, NEW c \in Set(op, ctx, place)
  PROVE  \E s \in DOMAIN ctx.schemes :
           Slot(s, ctx)[1] = place /\ c = <<Slot(s, ctx)[2], Secret(s)>>
<1> DEFINE reqs == effectiveSecurity(op, ctx)
<1>1. Final(reqs, ctx) \in SUBSET Applied(reqs, ctx)
  BY DEF Final
<1> QED
  BY <1>1, CredentialsAre DEF Set

(* What Override yields is of one kind or the other.                       *)
LEMMA Overrides ==
  ASSUME NEW pairs, NEW secrets
  PROVE  /\ \A q \in Override(pairs, secrets) : q \in pairs \/ q \in secrets
         /\ secrets \subseteq Override(pairs, secrets)
         /\ \A q \in pairs : \/ q \in Override(pairs, secrets)
                             \/ \E c \in secrets : c[1] = q[1]
BY DEF Override

(* What is sent under one name is one credential. *)
OneSecret(ctx, values) ==
  \E x \in {Secret(s) : s \in DOMAIN ctx.schemes} : values = {x}

(* The header under a credential's name is the credential, unless the      *)
(* handler writes that header itself (applySecurity).                      *)
LEMMA HeaderIsCredential ==
  ASSUME NEW op, NEW ctx, NEW given, Operation(op), Context(ctx),
         NEW s \in ToSet(effectiveSecurity(op, ctx)), Applies(s, ctx),
         Slot(s, ctx)[1] = "header",
         Slot(s, ctx)[2] \notin Written(buildHandler(op, ctx, given))
  PROVE  OneSecret(ctx, Under(buildHandler(op, ctx, given).headers, Slot(s, ctx)[2]))
<1> DEFINE reqs == effectiveSecurity(op, ctx)
           name == Slot(s, ctx)[2]
           all == Override(Placed(op, given, "header"), Set(op, ctx, "header"))
           written == Written(buildHandler(op, ctx, given))
           hs == buildHandler(op, ctx, given).headers
<1>1. hs = {h \in all : h[1] \notin written}
  BY RequestParts
<1>2. reqs \in Seq(STRING)
  BY Effective
<1>3. PICK i \in Applied(reqs, ctx) : s = reqs[i]
  BY DEF ToSet, Applied
<1>4. PICK m \in Applied(reqs, ctx) :
        /\ <<name, Secret(reqs[m])>> \in all
        /\ \A q \in all : q[1] = name => q[2] = Secret(reqs[m])
  <2>1. Taken(reqs, ctx, Slot(reqs[i], ctx)[2],
              Override(Placed(op, given, "header"), Credentials(reqs, ctx, Final(reqs, ctx),
                                                     Slot(reqs[i], ctx)[1])))
    BY <1>2, <1>3, SlotTaken
  <2>2. Taken(reqs, ctx, name, all)
    BY <1>3, <2>1 DEF Set
  <2> QED
    BY <2>2 DEF Taken
<1>5. reqs[m] \in DOMAIN ctx.schemes
  BY DEF Applied, Applies
<1>6. name \notin written
  OBVIOUS
<1> HIDE DEF hs, name, reqs, all, written
<1>7. <<name, Secret(reqs[m])>> \in hs /\ hs \subseteq all
  BY <1>1, <1>4, <1>6
<1>8. Under(hs, name) = {Secret(reqs[m])}
  <2>1. \E r \in hs : r[1] = name /\ r[2] = Secret(reqs[m])
    BY <1>7
  <2> QED
    BY <1>4, <1>7, <2>1 DEF Under
<1> QED
  BY <1>5, <1>8 DEF hs, name, reqs, OneSecret

(* What comes under another spelling of a name, when no parameter has one, *)
(* is a credential; and so is what comes under a name that is one.         *)
LEMMA NothingJoins ==
  ASSUME NEW op, NEW ctx, NEW given, NEW name, ~Respelled(op, name),
         \A h \in buildHandler(op, ctx, given).headers :
           h[1] = name => h[2] \in {Secret(s) : s \in DOMAIN ctx.schemes}
  PROVE  Joined(buildHandler(op, ctx, given).headers, name)
           \subseteq {Secret(s) : s \in DOMAIN ctx.schemes}
<1> DEFINE hs == buildHandler(op, ctx, given).headers
           secrets == {Secret(s) : s \in DOMAIN ctx.schemes}
<1> SUFFICES ASSUME NEW h \in hs, SameHeader(h[1], name), h[1] # name
             PROVE  h[2] \in secrets
  BY DEF Joined
<1>1. h \in Override(Placed(op, given, "header"), Set(op, ctx, "header"))
  BY RequestParts
<1>2. CASE h \in Placed(op, given, "header")
  <2>1. PICK n \in Given(op, given, "header") : h = <<n, Said(given[n].t)>>
    BY <1>2 DEF Placed
  <2>2. h[1] = n
    BY <2>1
  <2> QED
    BY <2>2 DEF Given, Respelled
<1>3. CASE h \in Set(op, ctx, "header")
  <2>1. PICK t \in DOMAIN ctx.schemes : h = <<Slot(t, ctx)[2], Secret(t)>>
    BY <1>3, SetAre
  <2> QED
    BY <2>1
<1> QED
  BY <1>1, <1>2, <1>3, Overrides

(* The query parameter under a credential's name is the credential         *)
(* (applySecurity).                                                        *)
LEMMA QueryIsCredential ==
  ASSUME NEW op, NEW ctx, NEW given, Operation(op), Context(ctx),
         NEW s \in ToSet(effectiveSecurity(op, ctx)), Applies(s, ctx),
         Slot(s, ctx)[1] = "query"
  PROVE  OneSecret(ctx, Under(buildHandler(op, ctx, given).query, Slot(s, ctx)[2]))
<1> DEFINE reqs == effectiveSecurity(op, ctx)
           name == Slot(s, ctx)[2]
           query == buildHandler(op, ctx, given).query
<1>1. query = Override(Query(op, given), Set(op, ctx, "query"))
  BY RequestParts
<1>2. reqs \in Seq(STRING)
  BY Effective
<1>3. PICK i \in Applied(reqs, ctx) : s = reqs[i]
  BY DEF ToSet, Applied
<1>4. PICK m \in Applied(reqs, ctx) :
        /\ <<name, Secret(reqs[m])>> \in query
        /\ \A q \in query : q[1] = name => q[2] = Secret(reqs[m])
  <2>1. Taken(reqs, ctx, Slot(reqs[i], ctx)[2],
              Override(Query(op, given), Credentials(reqs, ctx, Final(reqs, ctx),
                                                     Slot(reqs[i], ctx)[1])))
    BY <1>2, <1>3, SlotTaken
  <2>2. Taken(reqs, ctx, name, query)
    BY <1>1, <1>3, <2>1 DEF Set
  <2> QED
    BY <2>2 DEF Taken
<1>5. reqs[m] \in DOMAIN ctx.schemes
  BY DEF Applied, Applies
<1> HIDE DEF query, name, reqs
<1>6. Under(query, name) = {Secret(reqs[m])}
  <2>1. \E r \in query : r[1] = name /\ r[2] = Secret(reqs[m])
    BY <1>4
  <2> QED
    BY <1>4, <2>1 DEF Under
<1> QED
  BY <1>5, <1>6 DEF query, name, reqs, OneSecret

(* The cookies of the caller come before the credentials (applySecurity).  *)
LEMMA CookieIsLast ==
  ASSUME NEW op, NEW ctx, NEW given,
         NEW s \in ToSet(effectiveSecurity(op, ctx)), Applies(s, ctx),
         Slot(s, ctx)[1] = "cookie"
  PROVE  LET cookies == buildHandler(op, ctx, given).cookies
             secrets == {Secret(x) : x \in DOMAIN ctx.schemes}
         IN /\ DOMAIN cookies = 1 .. 2
            /\ <<Slot(s, ctx)[2], Secret(s)>> \in cookies[2]
            /\ Under(cookies[2], Slot(s, ctx)[2]) \subseteq secrets
<1> DEFINE reqs == effectiveSecurity(op, ctx)
           mine == Credentials(reqs, ctx, Applied(reqs, ctx), "cookie")
           cookies == buildHandler(op, ctx, given).cookies
<1>1. cookies = <<Placed(op, given, "cookie"), mine>>
  BY RequestParts
<1>2. PICK i \in Applied(reqs, ctx) : s = reqs[i]
  BY DEF ToSet, Applied
<1>3. <<Slot(s, ctx)[2], Secret(s)>> \in mine
  BY <1>2 DEF Credentials
<1>4. \A c \in mine : c[2] \in {Secret(x) : x \in DOMAIN ctx.schemes}
  BY DEF Credentials, Applied, Applies
<1>5. DOMAIN cookies = 1 .. 2 /\ cookies[2] = mine
  BY <1>1
<1> HIDE DEF mine, cookies
<1> QED
  BY <1>3, <1>4, <1>5 DEF Under, cookies

(* No input of the caller takes the place of a credential that applies, or *)
(* joins it where the document does not let it (applySecurity).            *)
LEMMA OnlyCredentials ==
  ASSUME NEW op, NEW ctx, NEW given, Operation(op), Context(ctx)
  PROVE  CredentialsWin(op, ctx, given)
<1> DEFINE req == buildHandler(op, ctx, given)
           reqs == effectiveSecurity(op, ctx)
           secrets == {Secret(s) : s \in DOMAIN ctx.schemes}
           alone(n) == Respelled(op, n) \/ Joined(req.headers, n) \subseteq secrets
<1> SUFFICES ASSUME NEW s \in ToSet(reqs), Applies(s, ctx)
             PROVE  LET place == Slot(s, ctx)[1] name == Slot(s, ctx)[2]
                    IN CASE place = "header" ->
                              \/ name \in Written(req)
                              \/ /\ \E x \in secrets : Under(req.headers, name) = {x}
                                 /\ alone(name)
                         [] place = "query" ->
                              \E x \in secrets : Under(req.query, name) = {x}
                         [] place = "cookie" ->
                              /\ \E k \in DOMAIN req.cookies :
                                   /\ <<name, Secret(s)>> \in req.cookies[k]
                                   /\ \A j \in DOMAIN req.cookies :
                                        \/ Under(req.cookies[j], name) \subseteq secrets
                                        \/ j < k
                              /\ alone("Cookie")
  BY DEF CredentialsWin
<1> DEFINE name == Slot(s, ctx)[2]
<1>1. Slot(s, ctx)[1] \in {"header", "query", "cookie"}
  BY Slots DEF Applies
<1>2. ASSUME Slot(s, ctx)[1] = "header", name \notin Written(req)
      PROVE  (\E x \in secrets : Under(req.headers, name) = {x}) /\ alone(name)
  <2>0. OneSecret(ctx, Under(req.headers, name))
    BY <1>2, HeaderIsCredential
  <2>1. \E x \in secrets : Under(req.headers, name) = {x}
    BY <2>0 DEF OneSecret
  <2>2. \A h \in req.headers : h[1] = name => h[2] \in secrets
    BY <2>1 DEF Under
  <2>3. ~Respelled(op, name) => Joined(req.headers, name) \subseteq secrets
    BY <2>2, NothingJoins
  <2> QED
    BY <2>1, <2>3
<1>3. ASSUME Slot(s, ctx)[1] = "query"
      PROVE  \E x \in secrets : Under(req.query, name) = {x}
  <2>1. OneSecret(ctx, Under(req.query, name))
    BY <1>3, QueryIsCredential
  <2> QED
    BY <2>1 DEF OneSecret
<1>4. ASSUME Slot(s, ctx)[1] = "cookie"
      PROVE  /\ \E k \in DOMAIN req.cookies :
                  /\ <<name, Secret(s)>> \in req.cookies[k]
                  /\ \A j \in DOMAIN req.cookies :
                       Under(req.cookies[j], name) \subseteq secrets \/ j < k
             /\ alone("Cookie")
  <2>1. /\ DOMAIN req.cookies = 1 .. 2
        /\ <<name, Secret(s)>> \in req.cookies[2]
        /\ Under(req.cookies[2], name) \subseteq secrets
    BY <1>4, CookieIsLast
  <2>2. "Cookie" \in Written(req)
    BY <2>1 DEF Written, ToSet
  <2>3. \A h \in req.headers : h[1] # "Cookie"
    BY <2>2, RequestParts
  <2>4. ~Respelled(op, "Cookie") => Joined(req.headers, "Cookie") \subseteq secrets
    BY <2>3, NothingJoins
  <2>5. 2 \in DOMAIN req.cookies /\ \A j \in DOMAIN req.cookies : j = 2 \/ j < 2
    BY <2>1
  <2> HIDE DEF req, secrets, name
  <2> QED
    BY <2>1, <2>4, <2>5
<1> HIDE DEF req, secrets, alone, name
<1> QED
  BY <1>1, <1>2, <1>3, <1>4 DEF name

(* What the caller says is told apart from credentials and from what       *)
(* replaces them in an error.                                              *)
LEMMA Marks ==
  /\ \A x, s : Said(x) # Secret(s)
  /\ \A s : <<"***", "">> # Secret(s)
BY DEF Said, Secret

(* The values of a query's own pairs are the caller's (appendQuery).       *)
LEMMA QuerySays ==
  ASSUME NEW op, NEW given, NEW q \in Query(op, given)
  PROVE  \E x : q[2] = Said(x)
<1>1. PICK n \in Given(op, given, "query") : q \in appendQuery(n, given[n])
  BY DEF Query
<1> DEFINE v == given[n]
<1>2. CASE v.t = "array"
  <2>1. q \in {<<n, Said(v.items[i])>> : i \in DOMAIN v.items}
    BY <1>1, <1>2 DEF appendQuery
  <2> QED
    BY <2>1
<1>3. CASE v.t = "object"
  <2>1. q \in {<<k, Said(v.fields[k])>> : k \in DOMAIN v.fields}
    BY <1>1, <1>3 DEF appendQuery
  <2> QED
    BY <2>1
<1>4. CASE v.t # "array" /\ v.t # "object"
  <2>1. q \in {<<n, Said(v.t)>>}
    BY <1>1, <1>4 DEF appendQuery
  <2> QED
    BY <2>1
<1> QED
  BY <1>2, <1>3, <1>4

(* An upstream error shows no credential (redactUrl, querySchemeNames).    *)
LEMMA Redacted ==
  ASSUME NEW op, NEW ctx, NEW given, Context(ctx)
  PROVE  ErrorsHide(op, ctx, given)
<1> DEFINE query == buildHandler(op, ctx, given).query
           extra == querySchemeNames(ctx)
<1> SUFFICES ASSUME NEW q \in query, NEW s \in DOMAIN ctx.schemes
             PROVE  (IF q[1] \in SENSITIVE_PARAMS \cup extra THEN <<"***", "">> ELSE q[2])
                      # Secret(s)
  <2>1. ASSUME NEW p \in ErrorMessage(buildHandler(op, ctx, given), ctx)
        PROVE  \E q \in query :
                 p[2] = IF q[1] \in SENSITIVE_PARAMS \cup extra THEN <<"***", "">> ELSE q[2]
    <3>1. PICK q \in query : p = <<q[1], IF q[1] \in SENSITIVE_PARAMS \cup extra
                                          THEN <<"***", "">> ELSE q[2]>>
      BY DEF ErrorMessage, redactUrl
    <3>2. p[2] = IF q[1] \in SENSITIVE_PARAMS \cup extra THEN <<"***", "">> ELSE q[2]
      BY <3>1, Pairs
    <3> QED
      BY <3>2
  <2> QED
    BY <2>1 DEF ErrorsHide
<1>1. query = Override(Query(op, given), Set(op, ctx, "query"))
  BY RequestParts
<1>2. CASE q \in Query(op, given)
  <2>1. PICK x : q[2] = Said(x)
    BY <1>2, QuerySays
  <2> QED
    BY <2>1, Marks
<1>3. CASE q \in Set(op, ctx, "query")
  <2>1. PICK t \in DOMAIN ctx.schemes :
          Slot(t, ctx)[1] = "query" /\ q = <<Slot(t, ctx)[2], Secret(t)>>
    BY <1>3, SetAre
  <2>2. q[1] \in extra
    BY <2>1, Slots
  <2> QED
    BY <2>2, Marks
<1>4. q \in Query(op, given) \/ q \in Set(op, ctx, "query")
  BY <1>1, Overrides
<1> QED
  BY <1>2, <1>3, <1>4

(* A pair of the caller stays unless a credential has its name             *)
(* (applySecurity).                                                        *)
Stays(pairs, ctx, n, x) ==
  \/ <<n, Said(x)>> \in pairs
  \/ \E s \in DOMAIN ctx.schemes : <<n, Secret(s)>> \in pairs

LEMMA PairsStay ==
  ASSUME NEW op, NEW ctx, NEW place, NEW pairs, NEW n, NEW x, <<n, Said(x)>> \in pairs
  PROVE  Stays(Override(pairs, Set(op, ctx, place)), ctx, n, x)
<1> DEFINE all == Override(pairs, Set(op, ctx, place))
<1>1. CASE <<n, Said(x)>> \in all
  BY <1>1 DEF Stays
<1>2. ASSUME NEW c \in Set(op, ctx, place), c[1] = n
      PROVE  Stays(all, ctx, n, x)
  <2>1. PICK s \in DOMAIN ctx.schemes : c = <<Slot(s, ctx)[2], Secret(s)>>
    BY <1>2, SetAre
  <2>2. c = <<n, Secret(s)>>
    BY <1>2, <2>1
  <2>3. c \in all
    BY <1>2, Overrides
  <2> QED
    BY <2>2, <2>3 DEF Stays
<1> QED
  BY <1>1, <1>2, Overrides

(* The input of every declared parameter reaches the upstream              *)
(* (buildHandler, appendQuery).                                            *)
LEMMA Reached ==
  ASSUME NEW op, NEW ctx, NEW given, Operation(op)
  PROVE  InputsReach(op, ctx, given)
<1> DEFINE req == buildHandler(op, ctx, given)
<1>0. op.requestBody /\ "body" \in DOMAIN given => Said(given["body"].t) \in req.body
  BY RequestParts DEF Parameters
<1> SUFFICES ASSUME NEW i \in DOMAIN op.params, op.params[i].name \in DOMAIN given
             PROVE  LET p == op.params[i] v == given[p.name]
                    IN CASE p.in = "path"   -> <<p.name, Said(v.t)>> \in req.path
                         [] p.in = "cookie" ->
                              <<p.name, Said(v.t)>> \in UNION ToSet(req.cookies)
                         [] p.in = "header" -> \/ Stays(req.headers, ctx, p.name, v.t)
                                               \/ p.name \in Written(req)
                         [] p.in = "query"  ->
                              CASE v.t = "array"  -> \A j \in DOMAIN v.items :
                                                       Stays(req.query, ctx, p.name, v.items[j])
                                [] v.t = "object" -> \A k \in DOMAIN v.fields :
                                                       Stays(req.query, ctx, k, v.fields[k])
                                [] OTHER          -> Stays(req.query, ctx, p.name, v.t)
  BY <1>0 DEF InputsReach, Stays
<1> DEFINE n == op.params[i].name
           v == given[n]
           place == op.params[i].in
<1>1. place \in {"path", "query", "header", "cookie"}
  <2> DEFINE Param == [name : STRING, in : {"path", "query", "header", "cookie"}]
  <2>1. op.params \in Seq(Param)
    BY DEF Operation
  <2> HIDE DEF Param
  <2>2. op.params[i] \in Param
    BY <2>1
  <2> QED
    BY <2>2 DEF Param
<1>2. n \in Given(op, given, place)
  BY DEF Given
<1>3. <<n, Said(v.t)>> \in Placed(op, given, place)
  BY <1>2 DEF Placed
<1>4. place = "path" => <<n, Said(v.t)>> \in req.path
  BY <1>3, RequestParts
<1>5. place = "cookie" => <<n, Said(v.t)>> \in UNION ToSet(req.cookies)
  <2>1. 1 \in DOMAIN req.cookies /\ req.cookies[1] = Placed(op, given, "cookie")
    BY RequestParts
  <2> HIDE DEF req
  <2> QED
    BY <1>3, <2>1 DEF ToSet
<1>6. place = "header" => Stays(req.headers, ctx, n, v.t) \/ n \in Written(req)
  <2> DEFINE all == Override(Placed(op, given, "header"), Set(op, ctx, "header"))
  <2>1. place = "header" => Stays(all, ctx, n, v.t)
    BY <1>3, PairsStay
  <2>2. req.headers = {h \in all : h[1] \notin Written(req)}
    BY RequestParts
  <2> HIDE DEF all, req
  <2> QED
    BY <2>1, <2>2 DEF Stays
<1>7. ASSUME place = "query", NEW m, NEW x, <<m, Said(x)>> \in appendQuery(n, v)
      PROVE  Stays(req.query, ctx, m, x)
  <2>1. <<m, Said(x)>> \in Query(op, given)
    BY <1>2, <1>7 DEF Query
  <2> QED
    BY <2>1, RequestParts, PairsStay
<1>8. ASSUME place = "query", v.t = "array", NEW j \in DOMAIN v.items
      PROVE  Stays(req.query, ctx, n, v.items[j])
  <2>1. <<n, Said(v.items[j])>> \in appendQuery(n, v)
    BY <1>8 DEF appendQuery
  <2> QED
    BY <1>7, <1>8, <2>1
<1>9. ASSUME place = "query", v.t = "object", NEW k \in DOMAIN v.fields
      PROVE  Stays(req.query, ctx, k, v.fields[k])
  <2>1. <<k, Said(v.fields[k])>> \in appendQuery(n, v)
    BY <1>9 DEF appendQuery
  <2> QED
    BY <1>7, <1>9, <2>1
<1>10. ASSUME place = "query", v.t # "array", v.t # "object"
       PROVE  Stays(req.query, ctx, n, v.t)
  <2>1. <<n, Said(v.t)>> \in appendQuery(n, v)
    BY <1>10 DEF appendQuery
  <2> QED
    BY <1>7, <1>10, <2>1
<1>11. ASSUME place = "query"
       PROVE  CASE v.t = "array"  -> \A j \in DOMAIN v.items :
                                       Stays(req.query, ctx, n, v.items[j])
                [] v.t = "object" -> \A k \in DOMAIN v.fields :
                                       Stays(req.query, ctx, k, v.fields[k])
                [] OTHER          -> Stays(req.query, ctx, n, v.t)
  BY <1>8, <1>9, <1>10, <1>11
<1> HIDE DEF req
<1> QED
  BY <1>1, <1>4, <1>5, <1>6, <1>11

(* A document chooses neither a host nor its side effects (documentBase,   *)
(* deriveCost, glyphsFromOpenApi).                                         *)
LEMMA ImportsTrust ==
  ASSUME NEW doc, NEW options
  PROVE  ImportTrusts(doc, options, extractHost)
<1> DEFINE glyphs == glyphsFromOpenApi(doc, options, extractHost)
           base == IF options.baseUrl # "" THEN options.baseUrl
                   ELSE documentBase(doc.server, options, extractHost)
           cost(i) == deriveCost_openapi(doc.ops[i].method, doc.ops[i].risk)
<1> SUFFICES ASSUME NEW i \in DOMAIN glyphs
             PROVE  /\ \/ glyphs[i].base = options.baseUrl
                       \/ /\ options.allowDocumentServerUrl /\ options.baseUrl = ""
                          /\ options.hosts = {}
                             \/ extractHost[glyphs[i].base] \in options.hosts
                    /\ glyphs[i].cost.sideEffects = (glyphs[i].method # "get")
                    /\ glyphs[i].cost.riskTier \in RISK_TIERS
                    /\ glyphs[i].cost.riskTier = "danger"
                         <=> glyphs[i].cost.requiresConfirmation
  BY DEF ImportTrusts
<1>1. /\ base # "" /\ i \in DOMAIN doc.ops /\ doc.ops[i].risk \in RISK_TIERS \cup {""}
      /\ glyphs[i].base = base /\ glyphs[i].method = doc.ops[i].method
      /\ glyphs[i].cost = cost(i)
  <2> DEFINE bad == \E j \in DOMAIN doc.ops : doc.ops[j].risk \notin RISK_TIERS \cup {""}
             listed == [j \in DOMAIN doc.ops |->
                          [method |-> doc.ops[j].method, base |-> base, cost |-> cost(j),
                           idempotent |-> doc.ops[j].method \in {"get", "put", "delete"}]]
  <2>1. glyphs = IF base = "" \/ bad THEN <<>> ELSE listed
    BY DEF glyphsFromOpenApi
  <2>2. DOMAIN <<>> = {}
    OBVIOUS
  <2>3. base # "" /\ ~bad /\ glyphs = listed
    BY <2>1, <2>2
  <2>4. i \in DOMAIN doc.ops
    BY <2>3
  <2> HIDE DEF base, cost, glyphs
  <2> QED
    BY <2>3, <2>4
<1>2. /\ cost(i).sideEffects = (doc.ops[i].method # "get")
      /\ cost(i).riskTier \in RISK_TIERS
      /\ cost(i).riskTier = "danger" <=> cost(i).requiresConfirmation
  BY <1>1 DEF deriveCost_openapi, RISK_TIERS
<1>3. \/ base = options.baseUrl
      \/ /\ options.allowDocumentServerUrl /\ options.baseUrl = ""
         /\ options.hosts = {} \/ extractHost[base] \in options.hosts
  BY <1>1 DEF documentBase
<1> HIDE DEF glyphs, base, cost
<1> QED
  BY <1>1, <1>2, <1>3

(* For every document, input and credentials, the operator stays in charge *)
(* of an imported API: what CredentialsWin names is the only way for an    *)
(* input to join a credential (glyphsFromOpenApi, buildHandler).           *)
THEOREM OperatorInCharge == Spec => []OperatorStaysInCharge
<1>1. ASSUME NEW r \in Requests
      PROVE  /\ CredentialsWin(r.op, r.ctx, r.given)
             /\ ErrorsHide(r.op, r.ctx, r.given)
             /\ InputsReach(r.op, r.ctx, r.given)
  <2>1. Operation(r.op) /\ Context(r.ctx)
    BY InputAssumption DEF Operation, Context
  <2> QED
    BY <2>1, OnlyCredentials, Redacted, Reached
<1>2. Chosen => OperatorStaysInCharge
  BY <1>1, ImportsTrust DEF Chosen, OperatorStaysInCharge
<1> QED
  BY <1>2, ChosenInvariant, PTL

------------------------------------------------------------------------------
(* The conformance suite *)

Server == [up : BOOLEAN, lexicon : SUBSET STRING, max : Nat, auth : BOOLEAN,
           manifest : BOOLEAN, keys : BOOLEAN, broken : SUBSET STRING]

Options == [levels : SUBSET ALL_LEVELS, fixtures : SUBSET Fixtures, authToken : BOOLEAN]

IsRun(r) == r = [sent |-> r.sent, names |-> r.names, results |-> r.results] /\ r.sent \in Nat

Result(level, check, status) == [level |-> level, check |-> check, status |-> status]

(* The server can be reached with the token given. *)
Reachable(server, options) == server.up /\ (server.auth => options.authToken)

(* The server answers everything rightly. *)
Good(server, options) ==
  server.up /\ server.broken = {} /\ server.auth = options.authToken

(* Its limit leaves room for n more requests. *)
Room(server, run, n) == server.max = 0 \/ run.sent + n <= server.max

NoneFailed(run) == \A r \in run.results : r.status # "failed"

(* A later run knows what an earlier one knew. *)
Later(run, next) ==
  IsRun(next) /\ next.names = run.names /\ run.results \subseteq next.results

(* What a probe of n requests about the checks C makes of a run. *)
Probed(server, options, level, run, next, needs, n, C) ==
  /\ Later(run, next)
  /\ next.sent \in run.sent .. run.sent + n
  /\ Available(options, run, needs) =>
       \A c \in C :
         \/ Result(level, c, "failed") \in next.results
         \/ /\ Result(level, c, "passed") \in next.results
            /\ Reachable(server, options) /\ c \notin server.broken
  /\ Good(server, options) /\ Room(server, run, n) /\ NoneFailed(run) => NoneFailed(next)

(* The checks of a probe.                                                  *)
LEMMA Tuples ==
  /\ \A a : ToSet(<<a>>) = {a}
  /\ \A a, b : ToSet(<<a, b>>) = {a, b}
  /\ \A a, b, c, d : ToSet(<<a, b, c, d>>) = {a, b, c, d}
<1>1. \A a : ToSet(<<a>>) = {a}
  BY DEF ToSet
<1>2. \A a, b : ToSet(<<a, b>>) = {a, b}
  <2> SUFFICES ASSUME NEW a, NEW b PROVE {<<a, b>>[i] : i \in 1 .. 2} = {a, b}
    BY DEF ToSet
  <2>1. 1 .. 2 = {1, 2}
    OBVIOUS
  <2> QED
    BY <2>1
<1>3. \A a, b, c, d : ToSet(<<a, b, c, d>>) = {a, b, c, d}
  <2> SUFFICES ASSUME NEW a, NEW b, NEW c, NEW d
               PROVE  {<<a, b, c, d>>[i] : i \in 1 .. 4} = {a, b, c, d}
    BY DEF ToSet
  <2>1. 1 .. 4 = {1, 2, 3, 4}
    OBVIOUS
  <2> QED
    BY <2>1
<1> QED
  BY <1>1, <1>2, <1>3

(* A probe tells the truth about its checks, and fails none of a server    *)
(* that answers rightly and has room for it (level.record, http).          *)
LEMMA ProbeTells ==
  ASSUME NEW server \in Server, NEW options \in Options, NEW level,
         NEW run, IsRun(run), NEW needs, NEW n \in Nat, NEW checks
  PROVE  Probed(server, options, level, run,
                send(server, options, level, run, Probe(needs, n, checks)),
                needs, n, ToSet(checks))
<1> DEFINE p == Probe(needs, n, checks)
           next == send(server, options, level, run, p)
           there == Available(options, run, needs)
           right(i) == Right(server, options, run, p, i)
           status(i) == IF ~there THEN "skipped" ELSE IF right(i) THEN "passed" ELSE "failed"
           new == {Result(level, checks[i], status(i)) : i \in DOMAIN checks}
<1>1. p.needs = needs /\ p.requests = n /\ p.checks = checks
  BY DEF Probe
<1>2. /\ next = [run EXCEPT !.sent = run.sent + (IF there THEN n ELSE 0),
                            !.results = run.results \cup new]
  <2> DEFINE st == [i \in DOMAIN checks |-> status(i)]
             added == {[level |-> level, check |-> checks[i], status |-> st[i]] :
                         i \in DOMAIN checks}
  <2>1. next = Sent(options, level, run, p, st)
    BY <1>1 DEF send
  <2>2. Sent(options, level, run, p, st)
          = [run EXCEPT !.sent = run.sent + (IF there THEN n ELSE 0),
                        !.results = run.results \cup added]
    BY <1>1 DEF Sent
  <2>3. added = new
    <3>1. \A i \in DOMAIN checks : st[i] = status(i)
      OBVIOUS
    <3> HIDE DEF st, status
    <3> QED
      BY <3>1 DEF Result
  <2> QED
    BY <2>1, <2>2, <2>3
<1>3. /\ \A i \in DOMAIN checks : right(i) =>
           Reachable(server, options) /\ checks[i] \notin server.broken
      /\ Good(server, options) /\ Room(server, run, n) => \A i \in DOMAIN checks : right(i)
  BY <1>1 DEF Right, http, Reachable, Good, Room, Server, Options
<1>4. run.sent \in Nat
  BY DEF IsRun
<1> HIDE DEF p, there, right, new
<1>5. /\ next.sent = run.sent + (IF there THEN n ELSE 0)
      /\ next.results = run.results \cup new /\ next.names = run.names
      /\ IsRun(next)
  <2>1. next = [sent |-> run.sent + (IF there THEN n ELSE 0), names |-> run.names,
                results |-> run.results \cup new]
    BY <1>2 DEF IsRun
  <2> HIDE DEF next
  <2> QED
    BY <1>4, <2>1 DEF IsRun
<1> HIDE DEF next
<1>6. Later(run, next) /\ next.sent \in run.sent .. run.sent + n
  BY <1>4, <1>5 DEF Later
<1>7. ASSUME there, NEW i \in DOMAIN checks
      PROVE  \/ Result(level, checks[i], "failed") \in next.results
             \/ /\ Result(level, checks[i], "passed") \in next.results
                /\ Reachable(server, options) /\ checks[i] \notin server.broken
  <2>1. Result(level, checks[i], status(i)) \in next.results
    BY <1>5 DEF new
  <2> QED
    BY <1>3, <1>7, <2>1
<1>8. ASSUME Good(server, options), Room(server, run, n), NoneFailed(run)
       PROVE  NoneFailed(next)
  <2>1. \A i \in DOMAIN checks : Result(level, checks[i], status(i)).status # "failed"
    BY <1>3, <1>8 DEF Result
  <2> QED
    BY <1>5, <1>8, <2>1 DEF NoneFailed, new
<1> QED
  BY <1>6, <1>7, <1>8 DEF Probed, next, p, there, ToSet

(* The runs that follow a probe of one, two or four checks.                *)
LEMMA Probes ==
  ASSUME NEW server \in Server, NEW options \in Options, NEW level,
         NEW run, IsRun(run), NEW needs, NEW n \in Nat
  PROVE  /\ \A a : Probed(server, options, level, run,
              send(server, options, level, run, Probe(needs, n, <<a>>)), needs, n, {a})
         /\ \A a, b : Probed(server, options, level, run,
              send(server, options, level, run, Probe(needs, n, <<a, b>>)), needs, n, {a, b})
         /\ \A a, b, c, d : Probed(server, options, level, run,
              send(server, options, level, run, Probe(needs, n, <<a, b, c, d>>)), needs, n,
              {a, b, c, d})
<1> DEFINE P(checks, C) == Probed(server, options, level, run,
              send(server, options, level, run, Probe(needs, n, checks)), needs, n, C)
<1>1. ASSUME NEW checks PROVE P(checks, ToSet(checks))
  BY ProbeTells
<1> HIDE DEF P
<1>3. (\A a : P(<<a>>, {a})) /\ (\A a, b : P(<<a, b>>, {a, b}))
  BY <1>1, Tuples
<1>4. \A a, b, c, d : P(<<a, b, c, d>>, {a, b, c, d})
  BY <1>1, Tuples
<1> QED
  BY <1>3, <1>4 DEF P

LevelPassed(level, run) == \A r \in run.results : r.level = level => r.status # "failed"

(* Steps from one run to a later one, which knows the lexicon: a level     *)
(* that passes with them vouches for the checks C, and they fail no good   *)
(* server that has room for n requests. *)
Tells(server, options, level, run, next, n, C) ==
  /\ Later(run, next)
  /\ run.names = server.lexicon /\ LevelPassed(level, next) => C \cap server.broken = {}
  /\ Good(server, options) =>
       /\ next.sent \in run.sent .. run.sent + n
       /\ Room(server, run, n) /\ NoneFailed(run) => NoneFailed(next)

(* The glyph or fixture that a probe needs exists. *)
Exists(server, options, needs) ==
  CASE needs = ""      -> TRUE
    [] needs = "glyph" -> server.lexicon # {}
    [] OTHER           -> needs \in options.fixtures \cap server.lexicon

Where(cond, C) == IF cond THEN C ELSE {}

(* A level that passes recorded no failure.                                *)
LEMMA NoFailure ==
  ASSUME NEW level, NEW run, LevelPassed(level, run)
  PROVE  \A c : Result(level, c, "failed") \notin run.results
<1>1. \A c : Result(level, c, "failed").level = level
             /\ Result(level, c, "failed").status = "failed"
  BY DEF Result
<1> QED
  BY <1>1 DEF LevelPassed

(* A probe tells about its checks.                                         *)
LEMMA ProbedTells ==
  ASSUME NEW server, NEW options, NEW level, NEW run, NEW next, NEW needs, NEW n, NEW C,
         Probed(server, options, level, run, next, needs, n, C)
  PROVE  Tells(server, options, level, run, next, n,
               Where(Exists(server, options, needs), C))
<1>1. ASSUME run.names = server.lexicon, LevelPassed(level, next),
             Exists(server, options, needs)
      PROVE  C \cap server.broken = {}
  <2>1. Available(options, run, needs)
    BY <1>1 DEF Available, Exists
  <2>2. \A c : Result(level, c, "failed") \notin next.results
    BY <1>1, NoFailure
  <2> QED
    BY <2>1, <2>2 DEF Probed
<1> QED
  BY <1>1 DEF Tells, Probed, Where

(* The probes of the suite tell about their checks.                        *)
LEMMA ProbesTell ==
  ASSUME NEW server \in Server, NEW options \in Options, NEW level,
         NEW run, IsRun(run), NEW needs, NEW n \in Nat
  PROVE  /\ \A a : Tells(server, options, level, run,
              send(server, options, level, run, Probe(needs, n, <<a>>)), n,
              Where(Exists(server, options, needs), {a}))
         /\ \A a, b : Tells(server, options, level, run,
              send(server, options, level, run, Probe(needs, n, <<a, b>>)), n,
              Where(Exists(server, options, needs), {a, b}))
         /\ \A a, b, c, d : Tells(server, options, level, run,
              send(server, options, level, run, Probe(needs, n, <<a, b, c, d>>)), n,
              Where(Exists(server, options, needs), {a, b, c, d}))
BY Probes, ProbedTells

(* A run that steps lead to is one.                                        *)
LEMMA LaterRun ==
  ASSUME NEW server, NEW options, NEW level, NEW run, NEW next, NEW n, NEW C,
         Tells(server, options, level, run, next, n, C)
  PROVE  IsRun(next)
BY DEF Tells, Later

(* What steps tell adds up.                                                *)
LEMMA Compose ==
  ASSUME NEW server \in Server, NEW options, NEW level, NEW run, IsRun(run),
         NEW mid, NEW next, NEW n \in Nat, NEW m \in Nat, NEW C, NEW D,
         Tells(server, options, level, run, mid, n, C),
         Tells(server, options, level, mid, next, m, D)
  PROVE  Tells(server, options, level, run, next, n + m, C \cup D)
<1>1. run.sent \in Nat /\ mid.sent \in Nat /\ next.sent \in Nat /\ server.max \in Nat
  BY DEF Tells, Later, IsRun, Server
<1>2. Later(run, next)
  BY DEF Tells, Later
<1>3. LevelPassed(level, next) => LevelPassed(level, mid)
  BY DEF Tells, Later, LevelPassed
<1>4. run.names = server.lexicon /\ LevelPassed(level, next)
        => (C \cup D) \cap server.broken = {}
  BY <1>3 DEF Tells, Later
<1>5. ASSUME Good(server, options)
      PROVE  /\ next.sent \in run.sent .. run.sent + (n + m)
             /\ Room(server, run, n + m) /\ NoneFailed(run) => NoneFailed(next)
  <2>1. mid.sent \in run.sent .. run.sent + n /\ next.sent \in mid.sent .. mid.sent + m
    BY <1>5 DEF Tells
  <2>2. Room(server, run, n + m) => Room(server, run, n) /\ Room(server, mid, m)
    BY <1>1, <2>1 DEF Room
  <2> QED
    BY <1>1, <1>5, <2>1, <2>2 DEF Tells
<1> QED
  BY <1>2, <1>4, <1>5 DEF Tells

(* A check that is recorded without a request.                             *)
LEMMA Recorded ==
  ASSUME NEW run, IsRun(run), NEW level, NEW check, NEW status
  PROVE  /\ Later(run, Record(run, level, check, status))
         /\ Record(run, level, check, status).sent = run.sent
         /\ Record(run, level, check, status).results
              = run.results \cup {Result(level, check, status)}
         /\ NoneFailed(run) /\ status # "failed"
              => NoneFailed(Record(run, level, check, status))
<1> DEFINE next == Record(run, level, check, status)
<1>1. next = [sent |-> run.sent, names |-> run.names,
              results |-> run.results \cup {Result(level, check, status)}]
  BY DEF Record, IsRun, Result
<1>2. /\ next.sent = run.sent /\ next.names = run.names
      /\ next.results = run.results \cup {Result(level, check, status)}
      /\ IsRun(next)
  BY <1>1 DEF IsRun
<1>3. Result(level, check, status).status = status
  BY DEF Result
<1> HIDE DEF next
<1>4. Later(run, next) /\ (NoneFailed(run) /\ status # "failed" => NoneFailed(next))
  BY <1>2, <1>3 DEF Later, NoneFailed
<1> QED
  BY <1>2, <1>4 DEF next

(* The execution level tells about calls (executionLevel).                 *)
LEMMA ExecutionTells ==
  ASSUME NEW server \in Server, NEW options \in Options, NEW run, IsRun(run)
  PROVE  Tells(server, options, "execution", run, executionLevel(server, options, run), 4,
               Judged(server, options).execution)
<1> DEFINE probe(r, p) == send(server, options, "execution", r, p)
           Checks == {"call.success", "call.envelope", "call.receipt", "call.sanitization"}
           called == probe(run, Probe("echo", 1, <<"call.success", "call.envelope",
                                         "call.receipt", "call.sanitization">>))
           checked == probe(called, Probe("echo", 1, <<"call.inputValidation">>))
           malformed == probe(checked, Probe("echo", 1, <<"call.malformedJson">>))
           final == probe(malformed, Probe("invalidOutput", 1, <<"call.outputValidation">>))
           E == Exists(server, options, "echo")
           I == Exists(server, options, "invalidOutput")
           T(a, b, n, C) == Tells(server, options, "execution", a, b, n, C)
<1>1. executionLevel(server, options, run) = final
  BY DEF executionLevel
<1>2. T(run, called, 1, Where(E, Checks)) /\ IsRun(called)
  <2>1. T(run, called, 1, Where(E, Checks))
    BY ProbesTell
  <2> QED
    BY <2>1, LaterRun
<1>3. T(called, checked, 1, Where(E, {"call.inputValidation"})) /\ IsRun(checked)
  <2> HIDE DEF called
  <2>1. T(called, checked, 1, Where(E, {"call.inputValidation"}))
    BY <1>2, ProbesTell
  <2> QED
    BY <2>1, LaterRun
<1>4. T(checked, malformed, 1, Where(E, {"call.malformedJson"})) /\ IsRun(malformed)
  <2> HIDE DEF checked
  <2>1. T(checked, malformed, 1, Where(E, {"call.malformedJson"}))
    BY <1>3, ProbesTell
  <2> QED
    BY <2>1, LaterRun
<1>5. T(malformed, final, 1, Where(I, {"call.outputValidation"}))
  <2> HIDE DEF malformed
  <2> QED
    BY <1>4, ProbesTell
<1> HIDE DEF called, checked, malformed, final, E, I, Checks
<1>6. T(run, checked, 2, Where(E, Checks) \cup Where(E, {"call.inputValidation"}))
  BY <1>2, <1>3, Compose
<1>7. T(run, malformed, 3, (Where(E, Checks) \cup Where(E, {"call.inputValidation"}))
                             \cup Where(E, {"call.malformedJson"}))
  BY <1>4, <1>6, Compose
<1>8. T(run, final, 4, ((Where(E, Checks) \cup Where(E, {"call.inputValidation"}))
                          \cup Where(E, {"call.malformedJson"}))
                         \cup Where(I, {"call.outputValidation"}))
  BY <1>5, <1>7, Compose
<1>9. Judged(server, options).execution
        = ((Where(E, Checks) \cup Where(E, {"call.inputValidation"}))
            \cup Where(E, {"call.malformedJson"})) \cup Where(I, {"call.outputValidation"})
  BY DEF Judged, Where, E, I, Checks, Exists
<1> QED
  BY <1>1, <1>8, <1>9

(* The request without the token is refused by a good server, and a server *)
(* that passes asks for one (auth.required).                               *)
LEMMA AuthTells ==
  ASSUME NEW server \in Server, NEW options \in Options, NEW run, IsRun(run)
  PROVE  /\ Tells(server, options, "security", run, authRequired(server, options, run), 0,
                  Where(options.authToken, {"auth.required"}))
         /\ LevelPassed("security", authRequired(server, options, run)) /\ options.authToken
              => server.auth
<1> DEFINE next == authRequired(server, options, run)
           counted == [run EXCEPT !.sent = @ + IF server.auth THEN 0 ELSE 1]
           right == server.up /\ server.auth /\ "auth.required" \notin server.broken
           verdict == IF right THEN "passed" ELSE "failed"
<1>1. /\ run.sent \in Nat /\ server.auth \in BOOLEAN /\ server.up \in BOOLEAN
      /\ options.authToken \in BOOLEAN
  BY DEF IsRun, Server, Options
<1>2. CASE ~options.authToken
  <2>1. next = Record(run, "security", "auth.required", "skipped")
    BY <1>2 DEF authRequired
  <2>2. /\ Later(run, next) /\ next.sent = run.sent
        /\ NoneFailed(run) => NoneFailed(next)
    BY <2>1, Recorded
  <2> HIDE DEF next
  <2>3. Tells(server, options, "security", run, next, 0,
              Where(options.authToken, {"auth.required"}))
    BY <1>1, <1>2, <2>2 DEF Tells, Where
  <2> QED
    BY <1>2, <2>3 DEF next
<1>3. CASE options.authToken
  <2>1. next = Record(counted, "security", "auth.required", verdict)
    BY <1>3 DEF authRequired
  <2>2. /\ IsRun(counted) /\ counted.names = run.names /\ counted.results = run.results
        /\ counted.sent = run.sent + (IF server.auth THEN 0 ELSE 1)
    <3>1. counted = [sent |-> run.sent + (IF server.auth THEN 0 ELSE 1),
                     names |-> run.names, results |-> run.results]
      BY DEF IsRun
    <3> HIDE DEF counted
    <3> QED
      BY <1>1, <3>1 DEF IsRun
  <2> HIDE DEF counted, verdict
  <2>3. /\ Later(counted, next) /\ next.sent = counted.sent
        /\ next.results = counted.results \cup {Result("security", "auth.required", verdict)}
        /\ NoneFailed(counted) /\ verdict # "failed" => NoneFailed(next)
    BY <2>1, <2>2, Recorded
  <2> HIDE DEF next
  <2>4. Later(run, next)
    BY <2>2, <2>3 DEF Later
  <2>5. LevelPassed("security", next) => right
    <3>1. LevelPassed("security", next) =>
            Result("security", "auth.required", "failed") \notin next.results
      BY NoFailure
    <3> QED
      BY <2>3, <3>1 DEF verdict
  <2>6. ASSUME Good(server, options)
        PROVE  /\ next.sent = run.sent
               /\ NoneFailed(run) => NoneFailed(next)
    <3>1. server.auth /\ server.up /\ server.broken = {}
      BY <1>1, <1>3, <2>6 DEF Good
    <3>2. verdict = "passed" /\ counted.sent = run.sent
      BY <1>1, <2>2, <3>1 DEF verdict
    <3> QED
      BY <2>2, <2>3, <3>2 DEF NoneFailed
  <2>7. Tells(server, options, "security", run, next, 0,
              Where(options.authToken, {"auth.required"}))
    BY <1>1, <1>3, <2>4, <2>5, <2>6 DEF Tells, Where
  <2> QED
    BY <2>5, <2>7 DEF next
<1> QED
  BY <1>1, <1>2, <1>3

(* The burst fails no server that is up, and takes no more requests than   *)
(* it has; without the echo fixture it takes none (rateLimit).             *)
LEMMA BurstTells ==
  ASSUME NEW server \in Server, NEW options \in Options, NEW run, IsRun(run)
  PROVE  /\ Later(run, rateLimit(server, options, run))
         /\ server.up /\ NoneFailed(run) => NoneFailed(rateLimit(server, options, run))
         /\ "echo" \notin options.fixtures \cap run.names
              => rateLimit(server, options, run).sent = run.sent
         /\ Room(server, run, BURST)
              => rateLimit(server, options, run).sent <= run.sent + BURST
<1> DEFINE next == rateLimit(server, options, run)
           limited == server.max > 0 /\ run.sent + BURST > server.max
           counted == [run EXCEPT !.sent = IF limited THEN server.max + 1 ELSE @ + BURST]
           verdict == IF ~server.up THEN "failed" ELSE IF limited THEN "passed" ELSE "skipped"
<1>1. run.sent \in Nat /\ server.max \in Nat /\ server.up \in BOOLEAN
  BY DEF IsRun, Server
<1>2. Available(options, run, "echo") <=> "echo" \in options.fixtures \cap run.names
  BY DEF Available
<1>3. CASE ~Available(options, run, "echo")
  <2>1. next = Record(run, "security", "rateLimit", "skipped")
    BY <1>3 DEF rateLimit
  <2>2. /\ Later(run, next) /\ next.sent = run.sent
        /\ NoneFailed(run) => NoneFailed(next)
    BY <2>1, Recorded
  <2> HIDE DEF next
  <2>3. next.sent <= run.sent + BURST
    BY <1>1, <2>2 DEF BURST
  <2> QED
    BY <2>2, <2>3 DEF next
<1>4. CASE Available(options, run, "echo")
  <2>1. next = Record(counted, "security", "rateLimit", verdict)
    BY <1>4 DEF rateLimit
  <2>2. /\ IsRun(counted) /\ counted.names = run.names /\ counted.results = run.results
        /\ counted.sent = IF limited THEN server.max + 1 ELSE run.sent + BURST
    <3>1. counted = [sent |-> IF limited THEN server.max + 1 ELSE run.sent + BURST,
                     names |-> run.names, results |-> run.results]
      BY DEF IsRun
    <3>2. (IF limited THEN server.max + 1 ELSE run.sent + BURST) \in Nat
      BY <1>1 DEF BURST
    <3> HIDE DEF counted, limited
    <3> QED
      BY <3>1, <3>2 DEF IsRun
  <2> HIDE DEF counted, verdict
  <2>3. /\ Later(counted, next) /\ next.sent = counted.sent
        /\ NoneFailed(counted) /\ verdict # "failed" => NoneFailed(next)
    BY <2>1, <2>2, Recorded
  <2> HIDE DEF next
  <2>4. Later(run, next) /\ (server.up /\ NoneFailed(run) => NoneFailed(next))
    BY <2>2, <2>3 DEF Later, NoneFailed, verdict
  <2>5. Room(server, run, BURST) => next.sent <= run.sent + BURST
    BY <1>1, <2>2, <2>3 DEF Room, BURST
  <2> QED
    BY <1>2, <1>4, <2>4, <2>5 DEF next
<1> QED
  BY <1>3, <1>4

(* An endpoint that may be missing is judged where it exists (optional).   *)
LEMMA OptionalTells ==
  ASSUME NEW server \in Server, NEW options \in Options, NEW run, IsRun(run),
         NEW needs, NEW exists \in BOOLEAN, NEW check
  PROVE  Tells(server, options, "governance", run,
               optional(server, options, run, needs, exists, check), 1,
               Where(exists /\ Exists(server, options, needs), {check}))
<1> DEFINE next == optional(server, options, run, needs, exists, check)
           counted == [run EXCEPT !.sent = @ + IF Available(options, run, needs) THEN 1 ELSE 0]
           C == Where(exists /\ Exists(server, options, needs), {check})
<1>1. run.sent \in Nat
  BY DEF IsRun
<1>2. CASE http(server, options, run, 1) /\ ~exists
  <2>1. next = Record(counted, "governance", check, "skipped")
    BY <1>2 DEF optional
  <2>2. /\ IsRun(counted) /\ counted.names = run.names /\ counted.results = run.results
        /\ counted.sent \in run.sent .. run.sent + 1
    <3>1. counted = [sent |-> run.sent + (IF Available(options, run, needs) THEN 1 ELSE 0),
                     names |-> run.names, results |-> run.results]
      BY DEF IsRun
    <3> HIDE DEF counted
    <3> QED
      BY <1>1, <3>1 DEF IsRun
  <2> HIDE DEF counted
  <2>3. /\ Later(counted, next) /\ next.sent = counted.sent
        /\ NoneFailed(counted) => NoneFailed(next)
    BY <2>1, <2>2, Recorded
  <2>4. C = {}
    BY <1>2 DEF Where
  <2> HIDE DEF next, C
  <2>5. Tells(server, options, "governance", run, next, 1, C)
    BY <2>2, <2>3, <2>4 DEF Tells, Later, NoneFailed
  <2> QED
    BY <2>5 DEF next, C
<1>3. CASE ~(http(server, options, run, 1) /\ ~exists)
  <2>1. next = send(server, options, "governance", run, Probe(needs, 1, <<check>>))
    BY <1>3 DEF optional
  <2>2. Tells(server, options, "governance", run, next, 1,
              Where(Exists(server, options, needs), {check}))
    BY <2>1, ProbesTell
  <2>3. C \subseteq Where(Exists(server, options, needs), {check})
    BY DEF Where
  <2> HIDE DEF next, C
  <2>4. Tells(server, options, "governance", run, next, 1, C)
    BY <2>2, <2>3 DEF Tells
  <2> QED
    BY <2>4 DEF next, C
<1> QED
  BY <1>2, <1>3

(* The governance level tells about cards, manifest and keys               *)
(* (governanceLevel).                                                      *)
LEMMA GovernanceTells ==
  ASSUME NEW server \in Server, NEW options \in Options, NEW run, IsRun(run)
  PROVE  Tells(server, options, "governance", run, governanceLevel(server, options, run), 5,
               Judged(server, options).governance)
<1> DEFINE depth == send(server, options, "governance", run,
                         Probe("glyph", 3, <<"card.depthIdentity">>))
           manifest == optional(server, options, depth, "glyph", server.manifest, "manifest")
           final == optional(server, options, manifest, "", server.keys, "keyRegistry")
           G == Exists(server, options, "glyph")
           C == Where(G, {"card.depthIdentity"})
           D == Where(server.manifest /\ G, {"manifest"})
           E == Where(server.keys /\ Exists(server, options, ""), {"keyRegistry"})
           T(a, b, n, S) == Tells(server, options, "governance", a, b, n, S)
<1>1. governanceLevel(server, options, run) = final
  BY DEF governanceLevel
<1>2. server.manifest \in BOOLEAN /\ server.keys \in BOOLEAN
  BY DEF Server
<1>3. T(run, depth, 3, C)
  BY ProbesTell
<1>4. IsRun(depth)
  BY <1>3, LaterRun
<1> HIDE DEF depth
<1>5. T(depth, manifest, 1, D)
  BY <1>2, <1>4, OptionalTells
<1>6. IsRun(manifest)
  BY <1>5, LaterRun
<1> HIDE DEF manifest
<1>7. T(manifest, final, 1, E)
  BY <1>2, <1>6, OptionalTells
<1>8. Judged(server, options).governance = (C \cup D) \cup E
  BY <1>2 DEF Judged, Where, Exists
<1> HIDE DEF final, C, D, E
<1>9. T(run, manifest, 4, C \cup D)
  BY <1>3, <1>5, Compose
<1>10. T(run, final, 5, (C \cup D) \cup E)
  BY <1>7, <1>9, Compose
<1> QED
  BY <1>1, <1>8, <1>10

(* The security level tells about confirmations, tokens and timeouts, and  *)
(* its burst counts against the limit (securityLevel).                     *)
LEMMA SecurityTells ==
  ASSUME NEW server \in Server, NEW options \in Options, NEW run, IsRun(run)
  PROVE  LET next == securityLevel(server, options, run)
         IN /\ Later(run, next)
            /\ run.names = server.lexicon /\ LevelPassed("security", next) =>
                 /\ Judged(server, options).security \cap server.broken = {}
                 /\ options.authToken => server.auth
            /\ Good(server, options) =>
                 /\ Room(server, run, 5) /\ NoneFailed(run) => NoneFailed(next)
                 /\ "echo" \notin options.fixtures \cap run.names
                      => next.sent <= run.sent + 5
                 /\ Room(server, run, 5 + BURST) => next.sent <= run.sent + (5 + BURST)
<1> DEFINE probe(r, p) == send(server, options, "security", r, p)
           required == probe(run, Probe("requiresConfirmation", 1, <<"confirmation.required">>))
           invalid == probe(required, Probe("requiresConfirmation", 1, <<"confirmation.invalid">>))
           unlocked == probe(invalid, Probe("requiresConfirmation", 2, <<"confirmation.unlocks">>))
           refused == authRequired(server, options, unlocked)
           timed == probe(refused, Probe("slow", 1, <<"timeout">>))
           final == rateLimit(server, options, timed)
           R == Exists(server, options, "requiresConfirmation")
           C1 == Where(R, {"confirmation.required"})
           C2 == Where(R, {"confirmation.invalid"})
           C3 == Where(R, {"confirmation.unlocks"})
           C4 == Where(options.authToken, {"auth.required"})
           C5 == Where(Exists(server, options, "slow"), {"timeout"})
           T(a, b, n, S) == Tells(server, options, "security", a, b, n, S)
<1>1. securityLevel(server, options, run) = final
  BY DEF securityLevel
<1>2. T(run, required, 1, C1)
  BY ProbesTell
<1>3. IsRun(required)
  BY <1>2, LaterRun
<1> HIDE DEF required
<1>4. T(required, invalid, 1, C2)
  BY <1>3, ProbesTell
<1>5. IsRun(invalid)
  BY <1>4, LaterRun
<1> HIDE DEF invalid
<1>6. T(invalid, unlocked, 2, C3)
  BY <1>5, ProbesTell
<1>7. IsRun(unlocked)
  BY <1>6, LaterRun
<1> HIDE DEF unlocked
<1>8. /\ T(unlocked, refused, 0, C4)
      /\ LevelPassed("security", refused) /\ options.authToken => server.auth
  BY <1>7, AuthTells
<1>9. IsRun(refused)
  BY <1>8, LaterRun
<1> HIDE DEF refused
<1>10. T(refused, timed, 1, C5)
  BY <1>9, ProbesTell
<1>11. IsRun(timed)
  BY <1>10, LaterRun
<1> HIDE DEF timed
<1>12. Judged(server, options).security = (((C1 \cup C2) \cup C3) \cup C4) \cup C5
  <2>1. options.authToken \in BOOLEAN
    BY DEF Options
  <2> QED
    BY <2>1 DEF Judged, Where, Exists
<1> HIDE DEF C1, C2, C3, C4, C5
<1>13. T(run, invalid, 2, C1 \cup C2)
  BY <1>2, <1>4, Compose
<1>14. T(run, unlocked, 4, (C1 \cup C2) \cup C3)
  BY <1>6, <1>13, Compose
<1>15. T(run, refused, 4, ((C1 \cup C2) \cup C3) \cup C4)
  BY <1>8, <1>14, Compose
<1>16. T(run, timed, 5, (((C1 \cup C2) \cup C3) \cup C4) \cup C5)
  BY <1>10, <1>15, Compose
<1>17. /\ Later(timed, final)
       /\ server.up /\ NoneFailed(timed) => NoneFailed(final)
       /\ "echo" \notin options.fixtures \cap timed.names => final.sent = timed.sent
       /\ Room(server, timed, BURST) => final.sent <= timed.sent + BURST
  BY <1>11, BurstTells
<1> HIDE DEF final
<1>18. Later(run, final) /\ timed.names = run.names /\ Later(refused, final)
  BY <1>10, <1>16, <1>17 DEF Tells, Later
<1>19. LevelPassed("security", final) =>
         LevelPassed("security", timed) /\ LevelPassed("security", refused)
  BY <1>17, <1>18 DEF Later, LevelPassed
<1>20. run.names = server.lexicon /\ LevelPassed("security", final) =>
         /\ Judged(server, options).security \cap server.broken = {}
         /\ options.authToken => server.auth
  <2>1. run.names = server.lexicon /\ LevelPassed("security", timed) =>
          ((((C1 \cup C2) \cup C3) \cup C4) \cup C5) \cap server.broken = {}
    BY <1>16 DEF Tells
  <2> QED
    BY <1>8, <1>12, <1>19, <2>1
<1>21. ASSUME Good(server, options)
       PROVE  /\ Room(server, run, 5) /\ NoneFailed(run) => NoneFailed(final)
              /\ "echo" \notin options.fixtures \cap run.names => final.sent <= run.sent + 5
              /\ Room(server, run, 5 + BURST) => final.sent <= run.sent + (5 + BURST)
  <2>1. /\ timed.sent \in run.sent .. run.sent + 5
        /\ Room(server, run, 5) /\ NoneFailed(run) => NoneFailed(timed)
    BY <1>16, <1>21 DEF Tells
  <2>2. run.sent \in Nat /\ timed.sent \in Nat /\ final.sent \in Nat /\ server.max \in Nat
    BY <1>11, <1>18 DEF IsRun, Later, Server
  <2>3. Room(server, run, 5 + BURST) => Room(server, timed, BURST)
    BY <2>1, <2>2 DEF Room, BURST
  <2>4. server.up
    BY <1>21 DEF Good
  <2> QED
    BY <1>17, <1>18, <2>1, <2>2, <2>3, <2>4 DEF BURST
<1> QED
  BY <1>1, <1>18, <1>20, <1>21

(* The discovery level finds out whether the server can be reached, learns *)
(* its lexicon and tells about its cards (discoveryLevel).                 *)
LEMMA DiscoveryTells ==
  ASSUME NEW server \in Server, NEW options \in Options, NEW run, IsRun(run)
  PROVE  LET next == discoveryLevel(server, options, run)
         IN /\ IsRun(next) /\ run.results \subseteq next.results
            /\ next.names \subseteq server.lexicon
            /\ LevelPassed("discovery", next) =>
                 /\ Reachable(server, options) /\ next.names = server.lexicon
                 /\ Judged(server, options).discovery \cap server.broken = {}
            /\ Good(server, options) =>
                 /\ next.sent <= run.sent + 6
                 /\ Room(server, run, 6) /\ NoneFailed(run) => NoneFailed(next)
<1> DEFINE probe(r, p) == send(server, options, "discovery", r, p)
           verdict == IF server.up /\ "health" \notin server.broken
                      THEN "passed" ELSE "failed"
           health == Record(run, "discovery", "health", verdict)
           accepted == probe(health, Probe("", 1, <<"handshake.accept">>))
           rejected == probe(accepted, Probe("", 1, <<"handshake.reject">>))
           listed == probe(rejected, Probe("", 1, <<"lexicon">>))
           known == "passed" \in StatusOf(listed, "handshake.accept")
                                   \cup StatusOf(listed, "lexicon")
           named == [listed EXCEPT !.names = IF known THEN server.lexicon ELSE {}]
           shaped == probe(named, Probe("glyph", 1, <<"card.shape", "card.signature">>))
           deep == probe(shaped, Probe("", 1, <<"card.depthEnum">>))
           final == probe(deep, Probe("", 1, <<"error.notFound">>))
           H(c) == Result("discovery", c, "failed")
           P(a, b, c) == Probed(server, options, "discovery", a, b, "", 1, {c})
           T(a, b, n, S) == Tells(server, options, "discovery", a, b, n, S)
           W(c) == Where(Exists(server, options, ""), {c})
           C1 == Where(Exists(server, options, "glyph"), {"card.shape", "card.signature"})
<1>1. discoveryLevel(server, options, run) = final
  BY DEF discoveryLevel
<1>2. /\ Later(run, health) /\ health.sent = run.sent
      /\ health.results = run.results \cup {Result("discovery", "health", verdict)}
      /\ NoneFailed(run) /\ verdict # "failed" => NoneFailed(health)
  BY Recorded
<1>3. IsRun(health)
  BY <1>2 DEF Later
<1> HIDE DEF health
<1>4. P(health, accepted, "handshake.accept")
  BY <1>3, Probes
<1>5. T(health, accepted, 1, W("handshake.accept"))
  BY <1>4, ProbedTells
<1>6. IsRun(accepted)
  BY <1>5, LaterRun
<1> HIDE DEF accepted
<1>7. P(accepted, rejected, "handshake.reject")
  BY <1>6, Probes
<1>8. T(accepted, rejected, 1, W("handshake.reject"))
  BY <1>7, ProbedTells
<1>9. IsRun(rejected)
  BY <1>8, LaterRun
<1> HIDE DEF rejected
<1>10. P(rejected, listed, "lexicon")
  BY <1>9, Probes
<1>11. T(rejected, listed, 1, W("lexicon"))
  BY <1>10, ProbedTells
<1>12. IsRun(listed)
  BY <1>11, LaterRun
<1> HIDE DEF listed
<1>13. /\ IsRun(named) /\ named.sent = listed.sent /\ named.results = listed.results
       /\ named.names = IF known THEN server.lexicon ELSE {}
  <2>1. named = [sent |-> listed.sent, names |-> IF known THEN server.lexicon ELSE {},
                 results |-> listed.results]
    BY <1>12 DEF IsRun
  <2> HIDE DEF named, known
  <2> QED
    BY <1>12, <2>1 DEF IsRun
<1> HIDE DEF named
<1>14. T(named, shaped, 1, C1)
  BY <1>13, ProbesTell
<1>15. IsRun(shaped)
  BY <1>14, LaterRun
<1> HIDE DEF shaped
<1>16. T(shaped, deep, 1, W("card.depthEnum"))
  BY <1>15, ProbesTell
<1>17. IsRun(deep)
  BY <1>16, LaterRun
<1> HIDE DEF deep
<1>18. T(deep, final, 1, W("error.notFound"))
  BY <1>17, ProbesTell
<1> HIDE DEF final, C1, W, known, verdict
<1>19. T(health, rejected, 2, W("handshake.accept") \cup W("handshake.reject"))
  BY <1>3, <1>5, <1>8, Compose
<1>20. T(health, listed, 3, (W("handshake.accept") \cup W("handshake.reject")) \cup W("lexicon"))
  BY <1>3, <1>11, <1>19, Compose
<1>21. T(named, deep, 2, C1 \cup W("card.depthEnum"))
  BY <1>13, <1>14, <1>16, Compose
<1>22. T(named, final, 3, (C1 \cup W("card.depthEnum")) \cup W("error.notFound"))
  BY <1>13, <1>18, <1>21, Compose
<1>23. /\ IsRun(final) /\ final.names = named.names
       /\ run.results \subseteq health.results
       /\ health.results \subseteq accepted.results
       /\ accepted.results \subseteq rejected.results
       /\ rejected.results \subseteq listed.results
       /\ listed.results \subseteq final.results
  BY <1>2, <1>5, <1>8, <1>11, <1>13, <1>22 DEF Tells, Later
<1>24. final.names \subseteq server.lexicon
  BY <1>13, <1>23
<1>25. ASSUME LevelPassed("discovery", final)
       PROVE  /\ Reachable(server, options) /\ final.names = server.lexicon
              /\ Judged(server, options).discovery \cap server.broken = {}
  <2>1. \A c : H(c) \notin final.results
    BY <1>25, NoFailure
  <2>2. Available(options, health, "") /\ Available(options, accepted, "")
        /\ Available(options, rejected, "")
    BY DEF Available
  <2>3. "health" \notin server.broken
    <3>1. verdict # "failed"
      BY <1>2, <1>23, <2>1
    <3> QED
      BY <3>1 DEF verdict
  <2>4. /\ Result("discovery", "handshake.accept", "passed") \in accepted.results
        /\ Reachable(server, options) /\ "handshake.accept" \notin server.broken
    BY <1>4, <1>23, <2>1, <2>2 DEF Probed
  <2>5. "handshake.reject" \notin server.broken
    BY <1>7, <1>23, <2>1, <2>2 DEF Probed
  <2>6. "lexicon" \notin server.broken
    BY <1>10, <1>23, <2>1, <2>2 DEF Probed
  <2>7. known
    <3> DEFINE r == Result("discovery", "handshake.accept", "passed")
    <3>1. r \in listed.results
      BY <1>23, <2>4
    <3>2. r.check = "handshake.accept" /\ r.status = "passed"
      BY DEF Result
    <3> HIDE DEF r
    <3> QED
      BY <3>1, <3>2 DEF known, StatusOf
  <2>8. named.names = server.lexicon
    BY <1>13, <2>7
  <2>9. ((C1 \cup W("card.depthEnum")) \cup W("error.notFound")) \cap server.broken = {}
    BY <1>22, <1>25, <2>8 DEF Tells
  <2>10. Judged(server, options).discovery
           = {"health", "handshake.accept", "handshake.reject", "lexicon"}
               \cup ((C1 \cup W("card.depthEnum")) \cup W("error.notFound"))
    BY DEF Judged, C1, W, Where, Exists
  <2> QED
    BY <1>23, <2>3, <2>4, <2>5, <2>6, <2>8, <2>9, <2>10
<1>26. ASSUME Good(server, options)
       PROVE  /\ final.sent <= run.sent + 6
              /\ Room(server, run, 6) /\ NoneFailed(run) => NoneFailed(final)
  <2>1. /\ listed.sent \in health.sent .. health.sent + 3
        /\ Room(server, health, 3) /\ NoneFailed(health) => NoneFailed(listed)
    BY <1>20, <1>26 DEF Tells
  <2>2. /\ final.sent \in named.sent .. named.sent + 3
        /\ Room(server, named, 3) /\ NoneFailed(named) => NoneFailed(final)
    BY <1>22, <1>26 DEF Tells
  <2>3. /\ run.sent \in Nat /\ health.sent = run.sent /\ named.sent = listed.sent
        /\ server.max \in Nat
    BY <1>2, <1>13 DEF IsRun, Server
  <2>4. Room(server, run, 6) => Room(server, health, 3) /\ Room(server, named, 3)
    BY <2>1, <2>3 DEF Room
  <2>5. verdict # "failed"
    BY <1>26 DEF verdict, Good
  <2>6. NoneFailed(listed) => NoneFailed(named)
    BY <1>13 DEF NoneFailed
  <2>7. final.sent <= run.sent + 6
    BY <2>1, <2>2, <2>3
  <2> QED
    BY <1>2, <2>1, <2>2, <2>4, <2>5, <2>6, <2>7
<1> QED
  BY <1>1, <1>23, <1>24, <1>25, <1>26

(* The runs between the levels that were asked for (Levels). *)
Discovered(server, options) ==
  IF "discovery" \in options.levels
  THEN discoveryLevel(server, options, quietLexicon(server, options))
  ELSE quietLexicon(server, options)

Executed(server, options) ==
  IF "execution" \in options.levels
  THEN executionLevel(server, options, Discovered(server, options))
  ELSE Discovered(server, options)

Secured(server, options) ==
  IF "security" \in options.levels
  THEN securityLevel(server, options, Executed(server, options))
  ELSE Executed(server, options)

Governed(server, options) ==
  IF "governance" \in options.levels
  THEN governanceLevel(server, options, Secured(server, options))
  ELSE Secured(server, options)

(* The levels run in their order (runConformance).                         *)
LEMMA LevelsRun ==
  ASSUME NEW server, NEW options
  PROVE  Levels(server, options) = Governed(server, options)
<1>1. /\ \A run : RUNNERS("discovery", server, options, run)
                    = discoveryLevel(server, options, run)
      /\ \A run : RUNNERS("execution", server, options, run)
                    = executionLevel(server, options, run)
      /\ \A run : RUNNERS("security", server, options, run)
                    = securityLevel(server, options, run)
      /\ \A run : RUNNERS("governance", server, options, run)
                    = governanceLevel(server, options, run)
  BY DEF RUNNERS
<1> QED
  BY <1>1 DEF Levels, Discovered, Executed, Secured, Governed

(* A run starts with no result, and knows no name that is not listed       *)
(* (runConformance).                                                       *)
LEMMA QuietStart ==
  ASSUME NEW server \in Server, NEW options \in Options
  PROVE  LET run == quietLexicon(server, options)
         IN /\ IsRun(run) /\ NoneFailed(run) /\ run.names \subseteq server.lexicon
            /\ run.sent <= 1 /\ ("discovery" \in options.levels => run.sent = 0)
<1> DEFINE run == quietLexicon(server, options)
<1>1. CASE "discovery" \in options.levels \/ options.levels = {}
  <2>1. run = [sent |-> 0, names |-> {}, results |-> {}]
    BY <1>1 DEF quietLexicon, Start
  <2> QED
    BY <2>1 DEF IsRun, NoneFailed
<1>2. CASE ~("discovery" \in options.levels \/ options.levels = {})
  <2> DEFINE heard == http(server, options, Start, 1) /\ "lexicon" \notin server.broken
             names == IF heard THEN server.lexicon ELSE {}
  <2>1. run = [sent |-> 1, names |-> names, results |-> {}]
    BY <1>2 DEF quietLexicon, Start
  <2>2. names \subseteq server.lexicon
    OBVIOUS
  <2> HIDE DEF names, run
  <2>3. IsRun(run) /\ NoneFailed(run) /\ run.sent = 1 /\ run.names = names
    BY <2>1 DEF IsRun, NoneFailed
  <2> QED
    BY <1>2, <2>2, <2>3 DEF run
<1> QED
  BY <1>1, <1>2

(* What the levels leave to each other: results only grow, and a lexicon   *)
(* once learned stays.                                                     *)
LEMMA LevelsGrow ==
  ASSUME NEW server \in Server, NEW options \in Options
  PROVE  /\ IsRun(quietLexicon(server, options)) /\ IsRun(Discovered(server, options))
         /\ Later(Discovered(server, options), Executed(server, options))
         /\ Later(Executed(server, options), Secured(server, options))
         /\ Later(Secured(server, options), Governed(server, options))
         /\ Discovered(server, options).names \subseteq server.lexicon
<1>1. /\ IsRun(quietLexicon(server, options))
      /\ quietLexicon(server, options).names \subseteq server.lexicon
  BY QuietStart
<1>2. /\ IsRun(Discovered(server, options))
      /\ Discovered(server, options).names \subseteq server.lexicon
  BY <1>1, DiscoveryTells DEF Discovered
<1>3. \A run : IsRun(run) => Later(run, run)
  BY DEF Later
<1>4. Later(Discovered(server, options), Executed(server, options))
  BY <1>2, <1>3, ExecutionTells DEF Executed, Tells
<1>5. IsRun(Executed(server, options))
  BY <1>4 DEF Later
<1>6. Later(Executed(server, options), Secured(server, options))
  BY <1>3, <1>5, SecurityTells DEF Secured
<1>7. IsRun(Secured(server, options))
  BY <1>6 DEF Later
<1>8. Later(Secured(server, options), Governed(server, options))
  BY <1>3, <1>7, GovernanceTells DEF Governed, Tells
<1> QED
  BY <1>1, <1>2, <1>4, <1>6, <1>8

(* A server that passes with the discovery level can be reached and        *)
(* answers rightly all that it can be asked (runConformance).              *)
LEMMA PassEarned ==
  ASSUME NEW server \in Server, NEW options \in Options
  PROVE  PassIsEarned(server, options)
<1> DEFINE D == Discovered(server, options)
           X == Executed(server, options)
           S == Secured(server, options)
           G == Governed(server, options)
<1> SUFFICES ASSUME "discovery" \in options.levels, runConformance(server, options).passed
             PROVE  /\ Reachable(server, options)
                    /\ \A l \in options.levels :
                         Judged(server, options)[l] \cap server.broken = {}
                    /\ options.authToken /\ "security" \in options.levels => server.auth
  BY DEF PassIsEarned, Reachable
<1>1. \A l \in options.levels : LevelPassed(l, G)
  BY LevelsRun DEF runConformance, LevelPassed
<1>2. /\ IsRun(quietLexicon(server, options)) /\ IsRun(D) /\ IsRun(X) /\ IsRun(S)
      /\ Later(D, X) /\ Later(X, S) /\ Later(S, G)
  BY LevelsGrow DEF Later
<1>3. /\ D.results \subseteq G.results /\ X.results \subseteq G.results
      /\ S.results \subseteq G.results
      /\ X.names = D.names /\ S.names = D.names
  <2> HIDE DEF D, X, S, G
  <2> QED
    BY <1>2 DEF Later
<1>4. \A l \in options.levels : LevelPassed(l, D) /\ LevelPassed(l, X) /\ LevelPassed(l, S)
  <2> HIDE DEF D, X, S, G
  <2> QED
    BY <1>1, <1>3 DEF LevelPassed
<1>5. D = discoveryLevel(server, options, quietLexicon(server, options))
  BY DEF Discovered
<1>6. /\ Reachable(server, options) /\ D.names = server.lexicon
      /\ Judged(server, options).discovery \cap server.broken = {}
  <2>1. LevelPassed("discovery", discoveryLevel(server, options, quietLexicon(server, options)))
    BY <1>4, <1>5
  <2> QED
    BY <1>2, <1>5, <2>1, DiscoveryTells
<1>7. ASSUME "execution" \in options.levels
      PROVE  Judged(server, options).execution \cap server.broken = {}
  <2>1. Tells(server, options, "execution", D, X, 4, Judged(server, options).execution)
    BY <1>2, <1>7, ExecutionTells DEF Executed
  <2> HIDE DEF D, X
  <2> QED
    BY <1>4, <1>6, <1>7, <2>1 DEF Tells
<1>8. ASSUME "security" \in options.levels
      PROVE  /\ Judged(server, options).security \cap server.broken = {}
             /\ options.authToken => server.auth
  <2>1. S = securityLevel(server, options, X)
    BY <1>8 DEF Secured
  <2>2. X.names = server.lexicon /\ LevelPassed("security", S)
    BY <1>3, <1>4, <1>6, <1>8
  <2> HIDE DEF S, X
  <2> QED
    BY <1>2, <2>1, <2>2, SecurityTells
<1>9. ASSUME "governance" \in options.levels
      PROVE  Judged(server, options).governance \cap server.broken = {}
  <2>1. Tells(server, options, "governance", S, G, 5, Judged(server, options).governance)
    BY <1>2, <1>9, GovernanceTells DEF Governed
  <2>2. S.names = server.lexicon /\ LevelPassed("governance", G)
    BY <1>1, <1>3, <1>6, <1>9
  <2> HIDE DEF S, G
  <2> QED
    BY <2>1, <2>2 DEF Tells
<1>10. \A l \in options.levels : l \in {"discovery", "execution", "security", "governance"}
  BY DEF Options, ALL_LEVELS
<1> QED
  BY <1>6, <1>7, <1>8, <1>9, <1>10

(* A server that answers everything rightly and has room passes            *)
(* (runConformance).                                                       *)
LEMMA GoodPasses ==
  ASSUME NEW server \in Server, NEW options \in Options
  PROVE  GoodServerPasses(server, options)
<1> DEFINE Q == quietLexicon(server, options)
           D == Discovered(server, options)
           X == Executed(server, options)
           S == Secured(server, options)
           G == Governed(server, options)
           both == /\ {"security", "governance"} \subseteq options.levels
                   /\ "echo" \in options.fixtures \cap server.lexicon
<1> SUFFICES ASSUME Good(server, options),
                    \/ server.max = 0 \/ server.max >= 20 + BURST
                    \/ server.max >= 20 /\ ~both
             PROVE  runConformance(server, options).passed
  BY DEF GoodServerPasses, Good
<1>1. /\ IsRun(Q) /\ IsRun(D) /\ IsRun(X) /\ IsRun(S)
      /\ D.names \subseteq server.lexicon /\ X.names = D.names
  BY LevelsGrow DEF Later
<1>2. /\ Q.sent \in Nat /\ D.sent \in Nat /\ X.sent \in Nat /\ S.sent \in Nat
      /\ server.max \in Nat
  BY <1>1 DEF IsRun, Server
<1>3. server.max = 0 \/ server.max >= 20
  BY <1>2 DEF BURST
<1>4. NoneFailed(Q) /\ Q.sent <= 1 /\ ("discovery" \in options.levels => Q.sent = 0)
  BY QuietStart
<1> HIDE DEF both, Q
<1>5. NoneFailed(D) /\ D.sent <= 6
  <2>1. CASE "discovery" \notin options.levels
    <3>1. D = Q
      BY <2>1 DEF Discovered, Q
    <3> QED
      BY <1>2, <1>4, <3>1
  <2>2. CASE "discovery" \in options.levels
    <3>1. D = discoveryLevel(server, options, Q)
      BY <2>2 DEF Discovered, Q
    <3>2. Room(server, Q, 6)
      BY <1>2, <1>3, <1>4 DEF Room
    <3> HIDE DEF D
    <3>3. NoneFailed(D) /\ D.sent <= Q.sent + 6
      BY <1>1, <1>4, <3>1, <3>2, DiscoveryTells
    <3> QED
      BY <1>2, <1>4, <2>2, <3>3
  <2> QED
    BY <2>1, <2>2
<1> HIDE DEF D
<1>6. NoneFailed(X) /\ X.sent <= 10
  <2>1. CASE "execution" \notin options.levels
    <3>1. X = D
      BY <2>1 DEF Executed, D
    <3> QED
      BY <1>2, <1>5, <3>1
  <2>2. CASE "execution" \in options.levels
    <3>1. X = executionLevel(server, options, D)
      BY <2>2 DEF Executed, D
    <3>2. Room(server, D, 4)
      BY <1>2, <1>3, <1>5 DEF Room
    <3>3. Tells(server, options, "execution", D, executionLevel(server, options, D), 4,
                Judged(server, options).execution)
      BY <1>1, ExecutionTells
    <3> HIDE DEF X
    <3>4. NoneFailed(X) /\ X.sent \in D.sent .. D.sent + 4
      BY <1>5, <3>1, <3>2, <3>3 DEF Tells
    <3> QED
      BY <1>2, <1>5, <3>4
  <2> QED
    BY <2>1, <2>2
<1> HIDE DEF X
<1>7. NoneFailed(S) /\ ("governance" \in options.levels => Room(server, S, 5))
  <2>1. CASE "security" \notin options.levels
    <3>1. S = X
      BY <2>1 DEF Secured, X
    <3> QED
      BY <1>2, <1>3, <1>6, <3>1 DEF Room
  <2>2. CASE "security" \in options.levels
    <3>1. S = securityLevel(server, options, X)
      BY <2>2 DEF Secured, X
    <3>2. Room(server, X, 5)
      BY <1>2, <1>3, <1>6 DEF Room
    <3> HIDE DEF S
    <3>3. /\ NoneFailed(S)
          /\ "echo" \notin options.fixtures \cap X.names => S.sent <= X.sent + 5
          /\ Room(server, X, 5 + BURST) => S.sent <= X.sent + (5 + BURST)
      BY <1>1, <1>6, <3>1, <3>2, SecurityTells
    <3>4. ASSUME "governance" \in options.levels PROVE Room(server, S, 5)
      <4>1. CASE server.max = 0
        BY <4>1 DEF Room
      <4>2. CASE server.max >= 20 + BURST
        BY <1>2, <1>6, <3>3, <4>2 DEF Room, BURST
      <4>3. CASE server.max >= 20 /\ ~both
        <5>1. "echo" \notin options.fixtures \cap X.names
          BY <1>1, <2>2, <3>4, <4>3 DEF both
        <5> QED
          BY <1>2, <1>6, <3>3, <4>3, <5>1 DEF Room
      <4> QED
        BY <4>1, <4>2, <4>3
    <3> QED
      BY <3>3, <3>4
  <2> QED
    BY <2>1, <2>2
<1> HIDE DEF S
<1>8. NoneFailed(G)
  <2>1. CASE "governance" \notin options.levels
    <3>1. G = S
      BY <2>1 DEF Governed, S
    <3> QED
      BY <1>7, <3>1
  <2>2. CASE "governance" \in options.levels
    <3>1. G = governanceLevel(server, options, S)
      BY <2>2 DEF Governed, S
    <3>2. Tells(server, options, "governance", S, governanceLevel(server, options, S), 5,
                Judged(server, options).governance)
      BY <1>1, GovernanceTells
    <3> QED
      BY <1>7, <2>2, <3>1, <3>2 DEF Tells
  <2> QED
    BY <2>1, <2>2
<1> QED
  BY <1>8, LevelsRun DEF runConformance, NoneFailed

(* Whatever the server, its limit, its fixtures and the levels asked for,  *)
(* the suite's verdict is right (runConformance).                          *)
THEOREM SuiteIsRight == Spec => []SuiteVerdictIsRight
<1>1. ASSUME NEW s \in Servers
      PROVE  PassIsEarned(s.server, s.options) /\ GoodServerPasses(s.server, s.options)
  BY InputAssumption, PassEarned, GoodPasses DEF Server, Options
<1>2. Chosen => SuiteVerdictIsRight
  BY <1>1 DEF Chosen, SuiteVerdictIsRight
<1> QED
  BY <1>2, ChosenInvariant, PTL
==============================================================================
