----------------------------- MODULE Sums_proofs -----------------------------
(***************************************************************************)
(* Laws of SumTo, and of the floored products of Amounts.  Induction over  *)
(* 0..n is by the least counterexample of a set of naturals (WFMin on the  *)
(* well-founded order of Nat), which takes no operator parameter.          *)
(***************************************************************************)
EXTENDS Sums, Amounts, WellFoundedInduction, TLAPS

NatOrder == {ss \in Nat \X Nat : ss[1] < ss[2]}

(* The order of Nat is well founded, as a relation written out. *)
LEMMA NatOrderWellFounded == IsWellFoundedOn(NatOrder, Nat)
<1>1. OpToRel(<, Nat) = NatOrder
    BY Zenon DEF OpToRel, NatOrder
<1>2. QED
    BY NatLessThanWellFounded, <1>1, Zenon

(***************************************************************************)
(* Induction stated for sets: a set that contains 0 and, below n, the      *)
(* successor of each of its members contains 0..n.                         *)
(***************************************************************************)
LEMMA SetInduction ==
    ASSUME NEW n \in Nat, NEW S,
           0 \in S,
           \A i \in 0..(n - 1) : i \in S => i + 1 \in S
    PROVE  \A i \in 0..n : i \in S
<1> DEFINE Bad == {i \in 0..n : i \notin S}
<1> SUFFICES ASSUME Bad # {} PROVE FALSE
    OBVIOUS
<1>1. PICK x \in Bad : \A y \in Bad : ~(<<y, x>> \in NatOrder)
    <2>1. Bad \subseteq Nat
        OBVIOUS
    <2> HIDE DEF Bad
    <2>2. QED
        BY <2>1, NatOrderWellFounded, WFMin
<1>2. \A y \in Bad : ~(y < x)
    <2>1. \A y \in Nat : y < x => <<y, x>> \in NatOrder
        BY DEF NatOrder
    <2>2. Bad \subseteq Nat
        OBVIOUS
    <2> HIDE DEF Bad
    <2>3. QED
        BY <1>1, <2>1, <2>2
<1>3. x # 0
    OBVIOUS
<1>4. x - 1 \in 0..(n - 1) /\ x - 1 \notin Bad
    BY <1>2, <1>3
<1>5. x - 1 \in S
    BY <1>4
<1>6. QED
    BY <1>4, <1>5

(***************************************************************************)
(* The partial sums exist: the recursive definition of PartialSums has a   *)
(* solution, so its CHOOSE picks one that satisfies the recursion.         *)
(***************************************************************************)
IsPartialSums(s, f, n) ==
    s = [i \in 0..n |-> IF i = 0 THEN 0 ELSE s[i - 1] + f[i]]

LEMMA PartialSumsExist ==
    ASSUME NEW n \in Nat, NEW f
    PROVE  \E s : IsPartialSums(s, f, n)
<1> DEFINE Good == {m \in 0..n : \E s : IsPartialSums(s, f, m)}
<1>1. 0 \in Good
    <2>1. IsPartialSums([i \in 0..0 |-> 0], f, 0)
        BY DEF IsPartialSums
    <2>2. QED
        BY <2>1
<1>2. ASSUME NEW m \in 0..(n - 1), m \in Good
      PROVE  m + 1 \in Good
    <2>1. PICK s : IsPartialSums(s, f, m)
        BY <1>2
    <2> DEFINE t == [i \in 0..(m + 1) |-> IF i = m + 1 THEN s[m] + f[m + 1] ELSE s[i]]
    <2>2. \A i \in 0..(m + 1) : t[i] = IF i = 0 THEN 0 ELSE t[i - 1] + f[i]
        BY <2>1 DEF IsPartialSums
    <2>3. IsPartialSums(t, f, m + 1)
        BY <2>2 DEF IsPartialSums
    <2>4. QED
        BY <2>3
<1>3. \A m \in 0..n : m \in Good
    <2> HIDE DEF Good
    <2> QED BY <1>1, <1>2, SetInduction
<1>4. QED
    BY <1>3

LEMMA PartialSumsStep ==
    ASSUME NEW n \in Nat, NEW f
    PROVE  /\ PartialSums(f, n)[0] = 0
           /\ \A i \in 1..n : PartialSums(f, n)[i] = PartialSums(f, n)[i - 1] + f[i]
<1>1. PICK s : IsPartialSums(s, f, n)
    BY PartialSumsExist
<1>2. PartialSums(f, n) =
          CHOOSE partial : partial = [i \in 0..n |-> IF i = 0 THEN 0 ELSE partial[i - 1] + f[i]]
    BY DEF PartialSums
<1>3. PartialSums(f, n) =
          [i \in 0..n |-> IF i = 0 THEN 0 ELSE PartialSums(f, n)[i - 1] + f[i]]
    BY <1>1, <1>2 DEF IsPartialSums
<1> DEFINE P == PartialSums(f, n)
<1>4. P = [i \in 0..n |-> IF i = 0 THEN 0 ELSE P[i - 1] + f[i]]
    BY <1>3
<1> HIDE DEF P
<1>5. P[0] = 0 /\ \A i \in 1..n : P[i] = P[i - 1] + f[i]
    BY <1>4
<1>6. QED
    BY <1>5 DEF P

(* The total of no entries is 0, and each further entry adds itself. *)
LEMMA SumZero ==
    ASSUME NEW f
    PROVE  SumTo(f, 0) = 0
BY PartialSumsStep DEF SumTo

(* Partial sums of integers are integers. *)
LEMMA PartialSumsInt ==
    ASSUME NEW n \in Nat, NEW f, \A i \in 1..n : f[i] \in Int
    PROVE  \A i \in 0..n : PartialSums(f, n)[i] \in Int
<1> DEFINE P == PartialSums(f, n)
           Good == {i \in 0..n : P[i] \in Int}
<1>1. P[0] = 0 /\ \A i \in 1..n : P[i] = P[i - 1] + f[i]
    BY PartialSumsStep
<1> HIDE DEF P
<1>2. 0 \in Good
    BY <1>1
<1>3. \A i \in 0..(n - 1) : i \in Good => i + 1 \in Good
    BY <1>1
<1>4. \A i \in 0..n : i \in Good
    <2> HIDE DEF Good
    <2> QED BY <1>2, <1>3, SetInduction
<1>5. QED
    BY <1>4 DEF P

LEMMA SumInt ==
    ASSUME NEW n \in Nat, NEW f, \A i \in 1..n : f[i] \in Int
    PROVE  SumTo(f, n) \in Int
BY PartialSumsInt DEF SumTo

(***************************************************************************)
(* The law the ledger proofs rest on: changing one entry changes the total *)
(* by exactly that entry's change.                                         *)
(***************************************************************************)
LEMMA SumUpdate ==
    ASSUME NEW n \in Nat, NEW f, NEW g, NEW k \in 1..n,
           \A i \in 1..n : f[i] \in Int /\ g[i] \in Int,
           \A i \in 1..n : i # k => g[i] = f[i]
    PROVE  SumTo(g, n) = SumTo(f, n) + (g[k] - f[k])
<1> DEFINE P == PartialSums(f, n)
           Q == PartialSums(g, n)
           Good == {i \in 0..n : Q[i] = P[i] + (IF i >= k THEN g[k] - f[k] ELSE 0)}
<1>1. P[0] = 0 /\ \A i \in 1..n : P[i] = P[i - 1] + f[i]
    BY PartialSumsStep
<1>2. Q[0] = 0 /\ \A i \in 1..n : Q[i] = Q[i - 1] + g[i]
    BY PartialSumsStep
<1>3. \A i \in 0..n : P[i] \in Int /\ Q[i] \in Int
    BY PartialSumsInt
<1> HIDE DEF P, Q
<1>4. 0 \in Good
    BY <1>1, <1>2
<1>5. ASSUME NEW i \in 0..(n - 1), i \in Good
      PROVE  i + 1 \in Good
    <2>1. P[i + 1] = P[i] + f[i + 1] /\ Q[i + 1] = Q[i] + g[i + 1]
        BY <1>1, <1>2
    <2>2. CASE i + 1 = k
        BY <1>5, <1>3, <2>1, <2>2
    <2>3. CASE i + 1 # k
        <3>1. g[i + 1] = f[i + 1]
            BY <2>3
        <3>2. QED
            BY <1>5, <1>3, <2>1, <2>3, <3>1
    <2>4. QED
        BY <2>2, <2>3
<1>6. \A i \in 0..n : i \in Good
    <2> HIDE DEF Good
    <2> QED BY <1>4, <1>5, SetInduction
<1>7. QED
    BY <1>6 DEF P, Q, SumTo

(* Totals of functions that agree on 1..n agree. *)
LEMMA SumSame ==
    ASSUME NEW n \in Nat, NEW f, NEW g,
           \A i \in 1..n : f[i] \in Int,
           \A i \in 1..n : g[i] = f[i]
    PROVE  SumTo(g, n) = SumTo(f, n)
<1>1. CASE n = 0
    BY <1>1, SumZero
<1>2. CASE n # 0
    <2>1. 1 \in 1..n
        BY <1>2
    <2>2. SumTo(g, n) = SumTo(f, n) + (g[1] - f[1])
        BY <2>1, SumUpdate
    <2>3. QED
        BY <2>1, <2>2, SumInt
<1>3. QED
    BY <1>1, <1>2

(* Credit and Debit move a total of integers by exactly their amount. *)
LEMMA SumCredit ==
    ASSUME NEW n \in Nat, NEW f \in [1..n -> Int], NEW k \in 1..n, NEW amount \in Int
    PROVE  /\ Credit(f, k, amount) \in [1..n -> Int]
           /\ SumTo(Credit(f, k, amount), n) = SumTo(f, n) + amount
<1> DEFINE g == Credit(f, k, amount)
<1>1. g \in [1..n -> Int] /\ g[k] = f[k] + amount /\ \A i \in 1..n : i # k => g[i] = f[i]
    BY DEF Credit
<1> HIDE DEF g
<1>2. SumTo(g, n) = SumTo(f, n) + (g[k] - f[k])
    BY <1>1, SumUpdate
<1>3. QED
    BY <1>1, <1>2, SumInt, SMTT(30) DEF g

LEMMA SumDebit ==
    ASSUME NEW n \in Nat, NEW f \in [1..n -> Int], NEW k \in 1..n, NEW amount \in Int
    PROVE  /\ Debit(f, k, amount) \in [1..n -> Int]
           /\ SumTo(Debit(f, k, amount), n) = SumTo(f, n) - amount
<1> DEFINE g == Debit(f, k, amount)
<1>1. g \in [1..n -> Int] /\ g[k] = f[k] - amount /\ \A i \in 1..n : i # k => g[i] = f[i]
    BY DEF Debit
<1> HIDE DEF g
<1>2. SumTo(g, n) = SumTo(f, n) + (g[k] - f[k])
    BY <1>1, SumUpdate
<1>3. QED
    BY <1>1, <1>2, SumInt, SMTT(30) DEF g

(* A total of zeros is 0. *)
LEMMA SumOfZeros ==
    ASSUME NEW n \in Nat, NEW f, \A i \in 1..n : f[i] = 0
    PROVE  SumTo(f, n) = 0
<1> DEFINE P == PartialSums(f, n)
           Good == {i \in 0..n : P[i] = 0}
<1>1. P[0] = 0 /\ \A i \in 1..n : P[i] = P[i - 1] + f[i]
    BY PartialSumsStep
<1> HIDE DEF P
<1>2. 0 \in Good
    BY <1>1
<1>3. \A i \in 0..(n - 1) : i \in Good => i + 1 \in Good
    BY <1>1
<1>4. \A i \in 0..n : i \in Good
    <2> HIDE DEF Good
    <2> QED BY <1>2, <1>3, SetInduction
<1>5. QED
    BY <1>4 DEF P, SumTo

(* A total of n equal entries is their product. *)
LEMMA SumOfConstants ==
    ASSUME NEW n \in Nat, NEW f, NEW c \in Nat, \A i \in 1..n : f[i] = c
    PROVE  SumTo(f, n) = n * c
<1> DEFINE P == PartialSums(f, n)
           Good == {i \in 0..n : P[i] = i * c}
<1>1. P[0] = 0 /\ \A i \in 1..n : P[i] = P[i - 1] + f[i]
    BY PartialSumsStep
<1> HIDE DEF P
<1>2. 0 \in Good
    BY <1>1
<1>3. ASSUME NEW i \in 0..(n - 1), i \in Good
      PROVE  i + 1 \in Good
    <2>1. P[i + 1] = i * c + c
        BY <1>1, <1>3
    <2>2. (i + 1) * c = i * c + c
        OBVIOUS
    <2>3. QED
        BY <2>1, <2>2
<1>4. \A i \in 0..n : i \in Good
    <2> HIDE DEF Good
    <2> QED BY <1>2, <1>3, SetInduction
<1>5. QED
    BY <1>4 DEF P, SumTo

(* A total of one more entry adds that entry. *)
LEMMA SumStep ==
    ASSUME NEW n \in Nat, NEW f
    PROVE  SumTo(f, n + 1) = SumTo(f, n) + f[n + 1]
<1> DEFINE P == PartialSums(f, n)
           Q == PartialSums(f, n + 1)
           Good == {i \in 0..n : Q[i] = P[i]}
<1>1. P[0] = 0 /\ \A i \in 1..n : P[i] = P[i - 1] + f[i]
    BY PartialSumsStep
<1>2. Q[0] = 0 /\ \A i \in 1..(n + 1) : Q[i] = Q[i - 1] + f[i]
    BY PartialSumsStep
<1> HIDE DEF P, Q
<1>3. 0 \in Good
    BY <1>1, <1>2
<1>4. ASSUME NEW i \in 0..(n - 1), i \in Good
      PROVE  i + 1 \in Good
    <2>1. i + 1 \in 1..n /\ i + 1 \in 1..(n + 1) /\ (i + 1) - 1 = i
        OBVIOUS
    <2>2. P[i + 1] = P[i] + f[i + 1] /\ Q[i + 1] = Q[i] + f[i + 1]
        BY <1>1, <1>2, <2>1
    <2>3. QED
        BY <1>4, <2>1, <2>2
<1>5. \A i \in 0..n : i \in Good
    <2> HIDE DEF Good
    <2> QED BY <1>3, <1>4, SetInduction
<1>6. Q[n] = P[n]
    BY <1>5
<1>7. Q[n + 1] = Q[(n + 1) - 1] + f[n + 1] /\ (n + 1) - 1 = n
    BY <1>2
<1>8. QED
    BY <1>6, <1>7 DEF P, Q, SumTo

(* Totals of natural numbers grow with the number of entries. *)
LEMMA SumGrows ==
    ASSUME NEW n \in Nat, NEW f, \A i \in 1..n : f[i] \in Nat
    PROVE  \A i \in 0..n : SumTo(f, i) \in Nat /\ SumTo(f, i) <= SumTo(f, n)
<1> DEFINE Good == {i \in 0..n : /\ SumTo(f, i) \in Nat
                                  /\ \A j \in 0..i : SumTo(f, j) <= SumTo(f, i)}
<1>1. 0 \in Good
    BY SumZero
<1>2. ASSUME NEW i \in 0..(n - 1), i \in Good
      PROVE  i + 1 \in Good
    <2>1. SumTo(f, i + 1) = SumTo(f, i) + f[i + 1] /\ f[i + 1] \in Nat
        BY SumStep
    <2>2. SumTo(f, i) \in Nat /\ \A j \in 0..i : SumTo(f, j) <= SumTo(f, i)
        BY <1>2
    <2>3. \A j \in 0..i : SumTo(f, j) \in Int
        <3>1. \A j \in 0..i : \A k \in 1..j : f[k] \in Int
            OBVIOUS
        <3>2. QED
            BY <3>1, SumInt
    <2>4. \A j \in 0..(i + 1) : j = i + 1 \/ j \in 0..i
        OBVIOUS
    <2>5. QED
        BY <2>1, <2>2, <2>3, <2>4
<1>3. \A i \in 0..n : i \in Good
    <2> HIDE DEF Good
    <2> QED BY <1>1, <1>2, SetInduction
<1>4. QED
    BY <1>3

-----------------------------------------------------------------------------
(* Division, and the shares that are rounded down with it. *)

LEMMA Division ==
    ASSUME NEW a \in Nat, NEW b \in Nat \ {0}
    PROVE  /\ a \div b \in Nat /\ a % b \in 0..(b - 1)
           /\ a = (a \div b) * b + (a % b)
OBVIOUS

LEMMA DivisionUnique ==
    ASSUME NEW q \in Nat, NEW b \in Nat \ {0}, NEW r \in 0..(b - 1)
    PROVE  (q * b + r) \div b = q
<1> DEFINE a == q * b + r
           p == a \div b
<1>1. a \in Nat
    OBVIOUS
<1>2. p \in Nat /\ a % b \in 0..(b - 1) /\ a = p * b + (a % b)
    <2> HIDE DEF a
    <2> QED BY <1>1, Division DEF p
<1>3. p * b - q * b < b /\ q * b - p * b < b
    <2> HIDE DEF p
    <2> QED BY <1>2
<1>4. (p - q) * b < b /\ (q - p) * b < b
    <2> HIDE DEF p
    <2> QED BY <1>2, <1>3
<1>5. ~(p - q >= 1)
    <2> HIDE DEF p
    <2> QED BY <1>2, <1>4
<1>6. ~(q - p >= 1)
    <2> HIDE DEF p
    <2> QED BY <1>2, <1>4
<1>7. QED
    <2> HIDE DEF p
    <2>1. p = q BY <1>2, <1>5, <1>6
    <2> QED BY <2>1 DEF p

LEMMA DivisionMonotone ==
    ASSUME NEW a \in Nat, NEW c \in Nat, NEW b \in Nat \ {0}, a <= c
    PROVE  a \div b <= c \div b
OBVIOUS

(* The same quotient, of a sum that is named. *)
LEMMA FloorIs ==
    ASSUME NEW q \in Nat, NEW b \in Nat \ {0}, NEW r \in 0..(b - 1), NEW a \in Nat,
           a = q * b + r
    PROVE  a \div b = q
BY DivisionUnique

(* mulPpm of the covenants, which splits the amount at PPM, is the exact   *)
(* floor of the share that the builders compute in 128 bits.               *)
THEOREM SharesExact ==
    ASSUME NEW amount \in Nat, NEW rate \in Nat
    PROVE  MulPpm(amount, rate) = MulDivFloor(amount, rate, PPM)
<1> DEFINE q == amount \div PPM
           r == amount % PPM
           t == r * rate
           f == t \div PPM
           s == t % PPM
<1>1. PPM \in Nat \ {0}
    BY DEF PPM
<1>2. q \in Nat /\ r \in Nat /\ amount = q * PPM + r
    BY <1>1, Division
<1>3. t \in Nat
    <2> HIDE DEF r
    <2> QED BY <1>2
<1>4. f \in Nat /\ s \in 0..(PPM - 1) /\ t = f * PPM + s
    <2> HIDE DEF t
    <2> QED BY <1>1, <1>3, Division
<1>5. amount * rate = q * PPM * rate + t
    <2> HIDE DEF q, r
    <2> QED BY <1>1, <1>2
<1>6. amount * rate = (q * rate + f) * PPM + s
    <2> DEFINE w == q * rate
    <2>1. q * PPM * rate = w * PPM
        <3> HIDE DEF q
        <3> QED BY <1>1, <1>2
    <2>2. w \in Nat
        <3> HIDE DEF q
        <3> QED BY <1>2
    <2>3. (w + f) * PPM = w * PPM + f * PPM
        <3> HIDE DEF w, f
        <3> QED BY <1>1, <1>4, <2>2
    <2> HIDE DEF w, f, s, t, q
    <2>4. QED
        <3> DEFINE e == w * PPM
                   g == f * PPM
        <3>1. e \in Int /\ g \in Int /\ amount * rate = e + t /\ t = g + s /\ (w + f) * PPM = e + g
            BY <1>1, <1>4, <1>5, <2>1, <2>2, <2>3
        <3> HIDE DEF e, g
        <3>2. amount * rate = (w + f) * PPM + s
            BY <1>3, <1>4, <3>1, <1>1
        <3>3. QED BY <3>2 DEF w
<1>7. (amount * rate) \div PPM = q * rate + f
    <2>1. q * rate + f \in Nat /\ amount * rate \in Nat
        <3> HIDE DEF q, f
        <3> QED BY <1>2, <1>4
    <2> HIDE DEF q, f, s
    <2>2. QED
        BY <1>1, <1>4, <1>6, <2>1, FloorIs
<1>8. QED
    BY <1>7 DEF MulPpm, MulDivFloor
=============================================================================
