------------------------- MODULE KVTreeNumbersProof -------------------------
(***************************************************************************)
(* Facts about numbers that the proofs of several components use: least    *)
(* and greatest elements, remainders, and the lower and upper part of a    *)
(* number with respect to a power of two.                                  *)
(***************************************************************************)
EXTENDS Integers, FiniteSetsExt, FiniteSetTheorems, TLAPS

-----------------------------------------------------------------------------
(* Maxima. *)

\* A non-empty set of natural numbers has a least element.
LEMMA LeastExists ==
  ASSUME NEW S \in SUBSET Nat, S # {}
  PROVE  \E x \in S : \A y \in S : x <= y
<1>1. \E x \in S : \A y \in S : ~(<<y, x>> \in OpToRel(<, Nat))
  BY NatLessThanWellFounded, WFMin
<1>2. ASSUME NEW x \in S, NEW y \in S, ~(<<y, x>> \in OpToRel(<, Nat))
      PROVE  x <= y
  BY <1>2 DEF OpToRel
<1>3. QED
  BY <1>1, <1>2

\* A non-empty set of natural numbers with a bound has a greatest element.
LEMMA MaxIsGreatest ==
  ASSUME NEW S \in SUBSET Nat, S # {}, NEW b \in Nat, \A x \in S : x <= b
  PROVE  Max(S) \in S /\ \A y \in S : y <= Max(S)
<1>1. DEFINE D == {b - x : x \in S}
<1>2. D \in SUBSET Nat /\ D # {}
  <2>1. \A x \in S : b - x \in Nat
    OBVIOUS
  <2>2. PICK x \in S : TRUE
    OBVIOUS
  <2>3. b - x \in D
    OBVIOUS
  <2>4. QED
    BY <2>1, <2>3
<1>3. PICK d \in D : \A e \in D : d <= e
  BY <1>2, LeastExists
<1>4. PICK x \in S : d = b - x
  BY <1>3
<1>5. \A y \in S : x >= y
  BY <1>3, <1>4
<1>6. QED
  BY <1>5 DEF Max

\* The greatest element is the maximum.
LEMMA MaxIs ==
  ASSUME NEW S \in SUBSET Nat, NEW x \in S, \A y \in S : y <= x
  PROVE  Max(S) = x
<1>1. x \in Nat /\ S # {}
  OBVIOUS
<1>2. Max(S) \in S /\ \A y \in S : y <= Max(S)
  BY <1>1, MaxIsGreatest
<1>3. x <= Max(S) /\ Max(S) <= x /\ Max(S) \in Nat
  BY <1>2
<1>4. QED
  BY <1>1, <1>3

-----------------------------------------------------------------------------
(* Remainders. *)

\* A distance on a ring of n places is one of two differences: a rank below 0 wraps
\* around, and one from n on does.
LEMMA ModWrap ==
  ASSUME NEW n \in Nat \ {0}, NEW x \in Int, -n <= x, x < 2 * n
  PROVE  x % n = IF x < 0 THEN x + n ELSE IF x < n THEN x ELSE x - n
OBVIOUS

\* A number is a multiple of w and a rest below w.
LEMMA DivMod ==
  ASSUME NEW w \in Nat \ {0}, NEW x \in Nat
  PROVE  /\ x \div w \in Nat /\ x % w \in 0 .. w - 1
         /\ x = w * (x \div w) + (x % w)
OBVIOUS

\* A number below w has no upper part.
LEMMA BelowNoUpper ==
  ASSUME NEW w \in Nat \ {0}, NEW x \in Nat, x < w
  PROVE  x - (x % w) = 0
OBVIOUS

\* Bruck's step: if the upper part of x with respect to w is an odd multiple of w, taking
\* w off it leaves the upper part with respect to 2 * w; if it is an even multiple, it is
\* that already.
LEMMA UpperPart ==
  ASSUME NEW w \in Nat \ {0}, NEW x \in Nat, NEW u, u = x - (x % w)
  PROVE  /\ u \in Nat /\ u % w = 0 /\ u <= x
         /\ (u \div w) % 2 = 1 => u >= w /\ x - (x % (2 * w)) = u - w
         /\ (u \div w) % 2 # 1 => x - (x % (2 * w)) = u
<1>1. PICK q \in Nat, e \in 0 .. w - 1 : q = x \div w /\ e = x % w
  BY DivMod
<1>2. q \in Nat /\ e \in 0 .. w - 1 /\ x = w * q + e /\ x % w = e
  BY <1>1, DivMod
<1>3. u = w * q + 0 /\ 0 \in 0 .. w - 1
  BY <1>2
<1>4. u \div w = q /\ u % w = 0
  BY ONLY <1>2, <1>3, w \in Nat \ {0}
<1>5. u \in Nat /\ u <= x
  <2>1. w * q \in Nat
    BY <1>2
  <2>2. QED
    BY <1>2, <1>3, <2>1
<1>6. q \div 2 \in Nat /\ q % 2 \in 0 .. 1 /\ q = 2 * (q \div 2) + (q % 2)
  BY <1>2
<1>7. CASE q % 2 = 1
  <2>1. x = (2 * w) * (q \div 2) + (w + e)
    BY <1>2, <1>6, <1>7
  <2>2. 2 * w \in Nat \ {0} /\ w + e \in 0 .. (2 * w) - 1
    BY <1>2
  <2>3. x % (2 * w) = w + e
    <3>1. PICK v \in Nat \ {0}, h \in Nat, f \in Nat :
            v = 2 * w /\ h = q \div 2 /\ f = w + e /\ f < v
      BY <1>6, <2>2
    <3>2. x = v * h + f
      BY <2>1, <3>1
    <3>3. f < v
      BY <3>1
    <3>4. x % v = f
      BY ONLY <3>2, <3>3, v \in Nat \ {0}, h \in Nat, f \in Nat
    <3>5. QED
      BY <3>1, <3>4
  <2>4. w * q >= w
    BY <1>2, <1>6, <1>7
  <2>5. QED
    BY <1>2, <1>3, <1>4, <1>5, <1>7, <2>3, <2>4
<1>8. CASE q % 2 # 1
  <2>1. x = (2 * w) * (q \div 2) + e
    BY <1>2, <1>6, <1>8
  <2>2. 2 * w \in Nat \ {0} /\ e \in 0 .. (2 * w) - 1
    BY <1>2
  <2>3. x % (2 * w) = e
    BY ONLY <1>6, <2>1, <2>2, w \in Nat \ {0}
  <2>4. QED
    BY <1>2, <1>3, <1>4, <1>5, <1>8, <2>3
<1>9. QED
  BY <1>7, <1>8

=============================================================================
