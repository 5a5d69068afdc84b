------------------------- MODULE WideArithmetic_proofs -------------------------
(***************************************************************************)
(* mulDivFloor is the exact floor for every number of digits and all       *)
(* operands it admits, and refuses only results that do not fit.  The      *)
(* inductive invariant of the long division says that quotient and         *)
(* remainder are those of prefix * y by d, where prefix are the digits of  *)
(* x taken in so far.                                                      *)
(***************************************************************************)
EXTENDS WideArithmetic, Sums_proofs

-----------------------------------------------------------------------------
(* Powers of two *)

IsPowers(p, n) == p = [i \in 0..n |-> IF i = 0 THEN 1 ELSE 2 * p[i - 1]]

LEMMA PowersExist ==
    ASSUME NEW n \in Nat
    PROVE  \E p : IsPowers(p, n)
<1> DEFINE Good == {m \in 0..n : \E p : IsPowers(p, m)}
<1>1. 0 \in Good
    <2>1. IsPowers([i \in 0..0 |-> 1], 0)
        BY DEF IsPowers
    <2>2. QED
        BY <2>1
<1>2. ASSUME NEW m \in 0..(n - 1), m \in Good
      PROVE  m + 1 \in Good
    <2>1. PICK p : IsPowers(p, m)
        BY <1>2
    <2> DEFINE q == [i \in 0..(m + 1) |-> IF i = m + 1 THEN 2 * p[m] ELSE p[i]]
    <2>2. \A i \in 0..(m + 1) : q[i] = IF i = 0 THEN 1 ELSE 2 * q[i - 1]
        BY <2>1 DEF IsPowers
    <2>3. IsPowers(q, m + 1)
        BY <2>2 DEF IsPowers
    <2>4. QED
        BY <2>3
<1>3. \A m \in 0..n : m \in Good
    <2> HIDE DEF Good
    <2> QED BY <1>1, <1>2, SetInduction
<1>4. QED
    BY <1>3

(* Each power is twice the one before it. *)
LEMMA PowersStep ==
    ASSUME NEW n \in Nat
    PROVE  /\ Powers(n)[0] = 1
           /\ \A i \in 1..n : Powers(n)[i] = 2 * Powers(n)[i - 1]
<1>1. PICK p : IsPowers(p, n)
    BY PowersExist
<1>2. Powers(n) = CHOOSE power : power = [i \in 0..n |-> IF i = 0 THEN 1 ELSE 2 * power[i - 1]]
    BY DEF Powers
<1>3. Powers(n) = [i \in 0..n |-> IF i = 0 THEN 1 ELSE 2 * Powers(n)[i - 1]]
    BY <1>1, <1>2 DEF IsPowers
<1> DEFINE P == Powers(n)
<1>4. P = [i \in 0..n |-> IF i = 0 THEN 1 ELSE 2 * P[i - 1]]
    BY <1>3
<1> HIDE DEF P
<1>5. P[0] = 1 /\ \A i \in 1..n : P[i] = 2 * P[i - 1]
    BY <1>4
<1>6. QED
    BY <1>5 DEF P

LEMMA PowersPositive ==
    ASSUME NEW n \in Nat
    PROVE  \A i \in 0..n : Powers(n)[i] \in Nat \ {0}
<1> DEFINE P == Powers(n)
           Good == {i \in 0..n : P[i] \in Nat \ {0}}
<1>1. P[0] = 1 /\ \A i \in 1..n : P[i] = 2 * P[i - 1]
    BY PowersStep
<1> HIDE DEF P
<1>2. 0 \in Good
    BY <1>1
<1>3. \A i \in 0..(n - 1) : i \in Good => i + 1 \in Good
    BY <1>1
<1>4. \A i \in 0..n : i \in Good
    <2> HIDE DEF Good
    <2> QED BY <1>2, <1>3, SetInduction
<1>5. QED
    BY <1>4 DEF P

LEMMA PowerFacts ==
    /\ Power(0) = 1
    /\ \A i \in 0..Digits : Power(i) \in Nat \ {0}
    /\ \A i \in 1..Digits : Power(i) = 2 * Power(i - 1)
    /\ MaxAmount \in Nat
<1> DEFINE P == Powers(Digits)
<1>1. Digits \in Nat
    BY WideAssumption
<1>2. P[0] = 1 /\ \A i \in 1..Digits : P[i] = 2 * P[i - 1]
    BY <1>1, PowersStep
<1>3. \A i \in 0..Digits : P[i] \in Nat \ {0}
    BY <1>1, PowersPositive
<1> HIDE DEF P
<1>4. P[Digits] - 1 \in Nat
    BY <1>1, <1>3
<1>5. QED
    BY <1>2, <1>3, <1>4 DEF Power, MaxAmount, P

-----------------------------------------------------------------------------
(* Division *)

(* One more binary digit of a quotient. *)
LEMMA NextDigit ==
    ASSUME NEW a \in Nat, NEW b \in Nat \ {0}
    PROVE  a \div b = 2 * (a \div (2 * b)) + ((a \div b) % 2)
<1> DEFINE p == a \div b
           u == p \div 2
           v == p % 2
           r == a % b
<1>1. p \in Nat /\ r \in 0..(b - 1) /\ a = p * b + r
    BY Division
<1>2. u \in Nat /\ v \in 0..1 /\ p = u * 2 + v
    <2> HIDE DEF p
    <2> QED BY <1>1
<1>3. a = u * (2 * b) + (v * b + r) /\ v * b + r \in 0..(2 * b - 1)
    <2> HIDE DEF p, u, v, r
    <2>1. p * b = u * (2 * b) + v * b
        BY <1>1, <1>2
    <2>2. v * b \in 0..b
        BY <1>2
    <2> DEFINE m == v * b
               n == u * (2 * b)
    <2>3. m \in 0..b /\ n \in Int /\ a = n + m + r
        BY <1>1, <1>2, <2>1, <2>2
    <2> HIDE DEF m, n
    <2>4. a = n + (m + r) /\ m + r \in 0..(2 * b - 1)
        BY <1>1, <2>3
    <2>5. QED
        BY <2>4 DEF m, n
<1>4. a \div (2 * b) = u
    <2> HIDE DEF p, u, v, r
    <2>1. (u * (2 * b) + (v * b + r)) \div (2 * b) = u
        BY <1>2, <1>3, DivisionUnique
    <2>2. QED
        BY <1>3, <2>1
<1>5. QED
    BY <1>2, <1>4

-----------------------------------------------------------------------------
(* Long division *)

LEMMA AddModuloSum ==
    ASSUME NEW r \in 0..(d - 1), NEW s \in 0..(d - 1), d \in Nat \ {0}
    PROVE  LET sum == AddModulo(r, s)
           IN  /\ sum.rest \in 0..(d - 1) /\ sum.carry \in 0..1
               /\ r + s = sum.carry * d + sum.rest
<1>1. CASE r >= d - s
    BY <1>1 DEF AddModulo
<1>2. CASE ~(r >= d - s)
    BY <1>2 DEF AddModulo
<1>3. QED
    BY <1>1, <1>2

(* The algebra of one digit: with quotient q and remainder r of p * y, the *)
(* digit c makes quotient and remainder of (2 * p + c) * y.                *)
LEMMA DigitSum ==
    ASSUME NEW q \in Nat, NEW r \in Nat, NEW p \in Nat, NEW c \in 0..1,
           NEW yq \in Nat, NEW yr \in Nat, NEW k \in 0..1, NEW l \in 0..1,
           NEW r1 \in Nat, NEW r2 \in Nat, d \in Nat, y \in Nat,
           q * d + r = p * y,
           y = yq * d + yr,
           r + r = k * d + r1,
           IF c = 1 THEN r1 + yr = l * d + r2 ELSE l = 0 /\ r2 = r1
    PROVE  (2 * q + c * yq + k + l) * d + r2 = (2 * p + c) * y
<1> DEFINE qd == q * d
           py == p * y
           yqd == yq * d
           kd == k * d
           ld == l * d
<1>1. qd \in Int /\ py \in Int /\ yqd \in Int /\ kd \in Int /\ ld \in Int
    OBVIOUS
<1>2. (2 * p + c) * y = 2 * py + c * y
    OBVIOUS
<1>3. (2 * q + c * yq + k + l) * d = 2 * qd + c * yqd + kd + ld
    <2>1. CASE c = 0
        BY <2>1
    <2>2. CASE c = 1
        BY <2>2
    <2>3. QED
        BY <2>1, <2>2
<1>4. 2 * qd + c * yqd + kd + ld + r2 = 2 * py + c * y
    <2>1. qd + r = py /\ y = yqd + yr /\ r + r = kd + r1
        OBVIOUS
    <2>2. CASE c = 0
        <3>1. l = 0 /\ r2 = r1 BY <2>2
        <3>2. ld = 0 BY <3>1
        <3> HIDE DEF qd, py, yqd, kd, ld
        <3>3. QED BY <1>1, <2>1, <2>2, <3>1, <3>2
    <2>3. CASE c = 1
        <3>1. r1 + yr = ld + r2 BY <2>3
        <3> HIDE DEF qd, py, yqd, kd, ld
        <3>2. QED BY <1>1, <2>1, <2>3, <3>1
    <2>4. QED
        BY <2>2, <2>3
<1>5. QED
    <2> HIDE DEF qd, py, yqd, kd, ld
    <2> QED BY <1>1, <1>2, <1>3, <1>4

-----------------------------------------------------------------------------
(* The inductive invariant *)

Prefix == x \div Power(Digits - round)

WideInv ==
    /\ WideTypeOK
    /\ outcome.kind \in {"pending", "returned", "refused"}
    /\ method = "digits" => /\ x \in 0..MaxAmount /\ y \in 0..MaxAmount /\ d \in 1..MaxAmount
                            /\ outcome = Pending =>
                                   /\ round < Digits => bitValue = Power(Digits - 1 - round)
                                   /\ quotient * d + remainder = Prefix * y
    /\ MulDivExact

LEMMA InitWide == WideInit => WideInv
<1> SUFFICES ASSUME WideInit PROVE WideInv
    OBVIOUS
<1>1. MaxAmount \in Nat /\ MaxInt \in Nat /\ Digits \in Nat \ {0} /\ MaxDivisor \in Nat
    BY PowerFacts, WideAssumption
<1>2. Power(Digits) \in Nat \ {0} /\ Power(Digits - 1) \in Nat /\ MaxAmount < Power(Digits)
    BY <1>1, PowerFacts DEF MaxAmount
<1>3. x \in Nat /\ y \in Nat /\ d \in Nat \ {0}
    BY <1>1 DEF WideInit
<1>4. WideTypeOK
    BY <1>1, <1>2, <1>3 DEF WideInit, WideTypeOK, Pending
<1>5. MulDivExact /\ outcome.kind = "pending"
    BY DEF WideInit, MulDivExact, Pending
<1>6. ASSUME method = "digits"
      PROVE  /\ x \in 0..MaxAmount /\ y \in 0..MaxAmount /\ d \in 1..MaxAmount
             /\ bitValue = Power(Digits - 1 - round)
             /\ quotient * d + remainder = Prefix * y
    <2>1. x \in 0..MaxAmount /\ y \in 0..MaxAmount /\ d \in 1..MaxAmount
        BY <1>6 DEF WideInit
    <2>2. round = 0 /\ quotient = 0 /\ remainder = 0 /\ bitValue = Power(Digits - 1)
        BY DEF WideInit
    <2>3. Digits - 1 - round = Digits - 1 /\ Digits - round = Digits
        BY <1>1, <2>2
    <2>4. Prefix = 0
        <3>1. x = 0 * Power(Digits) + x /\ x \in 0..(Power(Digits) - 1)
            BY <1>1, <1>2, <2>1
        <3>2. x \div Power(Digits) = 0
            BY <1>2, <1>3, <3>1, FloorIs
        <3>3. QED
            BY <2>3, <3>2 DEF Prefix
    <2>5. quotient * d + remainder = Prefix * y
        BY <1>3, <2>2, <2>4
    <2>6. QED
        BY <2>1, <2>2, <2>3, <2>5
<1>7. QED
    BY <1>4, <1>5, <1>6 DEF WideInv

LEMMA ShortcutExact ==
    ASSUME WideInv, Shortcut
    PROVE  outcome'.kind = "returned" /\ outcome'.value = MulDivFloor(x, y, d)
           /\ outcome'.value \in 0..MaxInt
<1>1. /\ x \in Nat /\ y \in Nat /\ d \in Nat \ {0} /\ MaxInt \in Nat
      /\ x <= MaxInt /\ y <= MaxInt
    <2>1. x \in 0..MaxAmount /\ y \in 0..MaxAmount /\ d \in 1..MaxAmount
        BY DEF WideInv, Shortcut
    <2>2. MaxAmount \in Nat /\ MaxInt \in Nat /\ MaxAmount <= MaxInt
        BY PowerFacts, WideAssumption
    <2>3. QED
        BY <2>1, <2>2
<1>2. CASE x = 0 \/ y = 0
    <2>1. outcome' = Return(0)
        BY <1>2 DEF Shortcut, ShortCases
    <2>2. x * y = 0 * d + 0
        BY <1>1, <1>2
    <2>3. (x * y) \div d = 0
        BY <1>1, <2>2, FloorIs
    <2>4. QED
        BY <1>1, <2>1, <2>3 DEF Return, MulDivFloor
<1>3. CASE ~(x = 0 \/ y = 0) /\ x = d
    <2>1. outcome' = Return(y)
        BY <1>3 DEF Shortcut, ShortCases
    <2>2. x * y = y * d + 0 /\ x * y \in Nat
        BY <1>1, <1>3
    <2>3. (x * y) \div d = y
        BY <1>1, <2>2, FloorIs
    <2>4. QED
        BY <1>1, <2>1, <2>3 DEF Return, MulDivFloor
<1>4. CASE ~(x = 0 \/ y = 0) /\ x # d /\ y = d
    <2>1. outcome' = Return(x)
        BY <1>4 DEF Shortcut, ShortCases
    <2>2. x * y = x * d + 0 /\ x * y \in Nat
        BY <1>1, <1>4
    <2>3. (x * y) \div d = x
        BY <1>1, <2>2, FloorIs
    <2>4. QED
        BY <1>1, <2>1, <2>3 DEF Return, MulDivFloor
<1>5. CASE ~(x = 0 \/ y = 0) /\ x # d /\ y # d
    <2>1. x <= MaxInt \div y
        BY <1>5 DEF Shortcut, ShortCases
    <2>2. outcome' = Return((x * y) \div d)
        BY <1>5, <2>1 DEF Shortcut, ShortCases
    <2> DEFINE k == MaxInt \div y
               f == (x * y) \div d
    <2>3. k \in Nat /\ k * y <= MaxInt
        <3>1. y \in Nat \ {0} BY <1>1, <1>5
        <3>2. k \in Nat /\ MaxInt % y \in 0..(y - 1) /\ MaxInt = k * y + (MaxInt % y)
            BY <1>1, <3>1, Division
        <3> HIDE DEF k
        <3>3. QED BY <1>1, <3>1, <3>2
    <2>4. x * y \in Nat /\ x * y <= k * y
        <3> HIDE DEF k
        <3> QED BY <1>1, <2>1, <2>3 DEF k
    <2>5. x * y <= MaxInt
        <3> HIDE DEF k
        <3> QED BY <1>1, <2>3, <2>4
    <2>6. f \in Nat /\ f <= x * y
        <3> DEFINE a == x * y
        <3>1. a \in Nat BY <2>4
        <3> HIDE DEF a
        <3>2. a \div d \in Nat /\ a \div d <= a
            BY <1>1, <3>1
        <3>3. QED BY <3>2 DEF a
    <2>7. f \in 0..MaxInt
        <3> HIDE DEF f
        <3> QED BY <1>1, <2>4, <2>5, <2>6
    <2>8. QED
        BY <2>2, <2>7 DEF Return, MulDivFloor
<1>6. QED
    BY <1>2, <1>3, <1>4, <1>5

(* A quotient of a part of the digits is no larger than that of all.       *)
LEMMA PartialQuotient ==
    ASSUME NEW p \in Nat, NEW q \in Nat, NEW r \in 0..(d - 1),
           x \in Nat, y \in Nat, d \in Nat \ {0}, p <= x, q * d + r = p * y
    PROVE  q <= MulDivFloor(x, y, d)
<1>1. p * y \in Nat /\ x * y \in Nat /\ p * y <= x * y
    OBVIOUS
<1>2. (p * y) \div d = q
    BY <1>1, FloorIs
<1>3. (p * y) \div d <= (x * y) \div d
    BY <1>1, DivisionMonotone
<1>4. QED
    BY <1>2, <1>3 DEF MulDivFloor

LEMMA DigitKeeps ==
    ASSUME WideInv, TakeDigit
    PROVE  WideInv'
<1> DEFINE b == bitValue
           digit == (x \div b) % 2
           doubled == AddModulo(remainder, remainder)
           added == IF digit = 1 THEN AddModulo(doubled.rest, y % d)
                    ELSE [rest |-> doubled.rest, carry |-> 0]
           next == 2 * quotient + digit * (y \div d) + doubled.carry + added.carry
           p == Prefix
           q == x \div b
<1>1. /\ x \in 0..MaxAmount /\ y \in 0..MaxAmount /\ d \in 1..MaxAmount
      /\ b = Power(Digits - 1 - round) /\ quotient * d + remainder = p * y
      /\ method = "digits" /\ outcome = Pending /\ round < Digits
    BY DEF WideInv, TakeDigit
<1>2. /\ Digits \in Nat \ {0} /\ MaxInt \in Nat /\ MaxAmount \in Nat /\ round \in 0..(Digits - 1)
      /\ x \in Nat /\ y \in Nat /\ d \in Nat \ {0} /\ quotient \in 0..MaxInt
      /\ remainder \in 0..(d - 1)
    BY <1>1, PowerFacts, WideAssumption DEF WideInv, WideTypeOK
<1>3. b \in Nat \ {0} /\ Power(Digits - round) = 2 * b
    <2>1. Digits - 1 - round \in 0..Digits /\ Digits - round \in 1..Digits
          /\ (Digits - round) - 1 = Digits - 1 - round
        BY <1>2
    <2>2. QED
        BY <1>1, <2>1, PowerFacts
<1>4. p \in Nat /\ q \in Nat /\ digit \in 0..1 /\ q = 2 * p + digit /\ q <= x
    <2>1. p = x \div (2 * b)
        BY <1>3 DEF Prefix
    <2>2. q = 2 * (x \div (2 * b)) + digit
        BY <1>2, <1>3, NextDigit
    <2>3. x \div (2 * b) \in Nat /\ q \in Nat /\ q <= x
        BY <1>2, <1>3
    <2>4. q % 2 \in 0..1
        <3> HIDE DEF q
        <3> QED BY <2>3
    <2>5. QED
        <3> HIDE DEF p, q
        <3> QED BY <2>1, <2>2, <2>3, <2>4 DEF q
<1>5. /\ doubled.rest \in 0..(d - 1) /\ doubled.carry \in 0..1
      /\ remainder + remainder = doubled.carry * d + doubled.rest
    BY <1>2, AddModuloSum
<1>6. y \div d \in Nat /\ y % d \in 0..(d - 1) /\ y = (y \div d) * d + (y % d)
    BY <1>2, Division
<1>7. /\ added.rest \in 0..(d - 1) /\ added.carry \in 0..1
      /\ IF digit = 1 THEN doubled.rest + (y % d) = added.carry * d + added.rest
         ELSE added.carry = 0 /\ added.rest = doubled.rest
    <2> HIDE DEF digit, doubled
    <2>1. CASE digit = 1
        BY <1>2, <1>5, <1>6, <2>1, AddModuloSum
    <2>2. CASE digit # 1
        BY <1>5, <2>2
    <2>3. QED
        BY <2>1, <2>2
<1>8. next * d + added.rest = q * y /\ next \in Nat
    <2> DEFINE yq == y \div d
               yr == y % d
               k == doubled.carry
               l == added.carry
               r1 == doubled.rest
               r2 == added.rest
    <2>1. /\ yq \in Nat /\ yr \in Nat /\ k \in 0..1 /\ l \in 0..1 /\ r1 \in Nat /\ r2 \in Nat
          /\ quotient \in Nat /\ remainder \in Nat /\ d \in Nat
          /\ y = yq * d + yr /\ remainder + remainder = k * d + r1
          /\ IF digit = 1 THEN r1 + yr = l * d + r2 ELSE l = 0 /\ r2 = r1
        BY <1>2, <1>5, <1>6, <1>7
    <2>2. next = 2 * quotient + digit * yq + k + l
        OBVIOUS
    <2> HIDE DEF digit, yq, yr, k, l, r1, r2, next, p, q
    <2>3. (2 * quotient + digit * yq + k + l) * d + r2 = (2 * p + digit) * y
        BY <1>1, <1>2, <1>4, <2>1, DigitSum
    <2>4. next \in Nat
        BY <1>4, <2>1, <2>2
    <2>5. QED
        BY <1>4, <2>2, <2>3, <2>4 DEF r2
<1>9. /\ round' = round + 1 /\ bitValue' = b \div 2 /\ remainder' = added.rest
      /\ UNCHANGED <<x, y, d, method>>
      /\ IF next <= MaxInt THEN quotient' = next /\ outcome' = outcome
         ELSE outcome' = Refuse /\ quotient' = quotient
    BY DEF TakeDigit, operands
<1>10. next > MaxInt => MulDivFloor(x, y, d) > MaxInt
    <2> HIDE DEF next, added, q
    <2>1. next <= MulDivFloor(x, y, d)
        BY <1>2, <1>4, <1>7, <1>8, PartialQuotient
    <2>2. MulDivFloor(x, y, d) \in Nat
        BY <1>2 DEF MulDivFloor
    <2>3. QED
        BY <1>2, <1>8, <2>1, <2>2
<1>11. WideTypeOK'
    <2>1. b \div 2 \in Nat
        BY <1>3
    <2> HIDE DEF next, added
    <2>2. QED
        BY <1>1, <1>2, <1>7, <1>8, <1>9, <2>1 DEF WideTypeOK, Refuse, Pending
<1>12. MulDivExact' /\ outcome'.kind \in {"pending", "returned", "refused"}
    <2> HIDE DEF next
    <2> QED BY <1>1, <1>8, <1>9, <1>10, <1>2 DEF MulDivExact, Refuse, Pending, MulDivFloor
<1>13. ASSUME outcome' = Pending
       PROVE  /\ round' < Digits => bitValue' = Power(Digits - 1 - round')
              /\ quotient' * d' + remainder' = Prefix' * y'
    <2>1. quotient' = next
        <3> HIDE DEF next
        <3> QED BY <1>9, <1>13 DEF Refuse, Pending
    <2>2. Prefix' = q
        <3>1. Digits - round' = Digits - 1 - round
            BY <1>2, <1>9
        <3>2. QED
            BY <1>1, <1>9, <3>1 DEF Prefix
    <2>3. round' < Digits => bitValue' = Power(Digits - 1 - round')
        <3>1. SUFFICES ASSUME round' < Digits PROVE b \div 2 = Power(Digits - 1 - round')
            BY <1>9
        <3> DEFINE i == Digits - 1 - round
        <3>2. i \in 1..Digits /\ i - 1 = Digits - 1 - round' /\ i - 1 \in 0..Digits
            BY <1>2, <1>9, <3>1
        <3>3. Power(i) = 2 * Power(i - 1) /\ Power(i - 1) \in Nat
            <4> HIDE DEF i
            <4> QED BY <3>2, PowerFacts
        <3>4. b = 2 * Power(i - 1)
            BY <1>1, <3>3
        <3>5. b \div 2 = Power(i - 1)
            <4> DEFINE h == Power(i - 1)
            <4>1. h \in Nat /\ b = 2 * h
                BY <3>3, <3>4
            <4> HIDE DEF h, b
            <4>2. b \div 2 = h
                BY <4>1
            <4>3. QED BY <4>2 DEF h
        <3>6. QED
            BY <3>2, <3>5
    <2>4. QED
        <3> HIDE DEF next, added, q
        <3> QED BY <1>8, <1>9, <2>1, <2>2, <2>3
<1>14. QED
    BY <1>1, <1>9, <1>11, <1>12, <1>13 DEF WideInv

LEMMA FinishExact ==
    ASSUME WideInv, FinishDigits
    PROVE  outcome' = Return(MulDivFloor(x, y, d)) /\ MulDivFloor(x, y, d) \in 0..MaxInt
<1>1. /\ x \in 0..MaxAmount /\ y \in 0..MaxAmount /\ d \in 1..MaxAmount
      /\ quotient * d + remainder = Prefix * y /\ round = Digits
      /\ quotient \in 0..MaxInt /\ remainder \in 0..(d - 1) /\ outcome' = Return(quotient)
    BY DEF WideInv, WideTypeOK, FinishDigits
<1>2. x \in Nat /\ y \in Nat /\ d \in Nat \ {0} /\ MaxInt \in Nat /\ Digits \in Nat
    BY <1>1, PowerFacts, WideAssumption
<1>3. Prefix = x
    <2>1. Digits - round = 0
        BY <1>1, <1>2
    <2>2. x \div 1 = x
        BY <1>2
    <2>3. QED
        BY <2>1, <2>2, PowerFacts DEF Prefix
<1>4. (x * y) \div d = quotient
    BY <1>1, <1>2, <1>3, FloorIs
<1>5. QED
    BY <1>1, <1>4 DEF MulDivFloor

-----------------------------------------------------------------------------
(* Splitting *)

(* The three parts add up to the floor: only the last one is rounded.      *)
LEMMA SplitSum ==
    ASSUME x \in Nat, y \in Nat, d \in Nat \ {0}
    PROVE  /\ Whole \in Nat /\ Cross \in Nat /\ Rest \in Nat
           /\ MulDivFloor(x, y, d) = Whole + Cross + Rest
<1> DEFINE xq == x \div d
           xr == x % d
           yq == y \div d
           yr == y % d
           w == xq * y
           c == xr * yq
           t == xr * yr
           r == t \div d
           s == t % d
<1>1. /\ xq \in Nat /\ xr \in Nat /\ x = xq * d + xr
      /\ yq \in Nat /\ yr \in Nat /\ y = yq * d + yr
    BY Division
<1>2. w \in Nat /\ c \in Nat /\ t \in Nat
    <2> HIDE DEF xq, xr, yq, yr
    <2> QED BY <1>1
<1>3. r \in Nat /\ s \in 0..(d - 1) /\ t = r * d + s
    <2> HIDE DEF t
    <2> QED BY <1>2, Division
<1>4. x * y = w * d + c * d + t
    <2> HIDE DEF xq, xr, yq, yr
    <2>1. x * y = xq * d * y + xr * y
        BY <1>1
    <2>2. xq * d * y = w * d
        BY <1>1
    <2>3. xr * y = xr * (yq * d) + xr * yr
        BY <1>1
    <2>4. xr * (yq * d) = c * d
        BY <1>1
    <2>5. QED
        <3> DEFINE e == xq * d * y
                   f == xr * y
                   g == xr * (yq * d)
        <3>1. x * y = e + f /\ e = w * d /\ f = g + t /\ g = c * d
            BY <2>1, <2>2, <2>3, <2>4
        <3>2. w * d \in Int /\ c * d \in Int
            BY <1>2
        <3> HIDE DEF e, f, g, w, c, t
        <3>3. QED
            BY <1>2, <3>1, <3>2
<1>5. x * y = (w + c + r) * d + s
    <2> HIDE DEF w, c, t, r, s
    <2>1. (w + c + r) * d = w * d + c * d + r * d
        BY <1>2, <1>3
    <2> DEFINE wd == w * d
               cd == c * d
               rd == r * d
    <2>2. wd \in Int /\ cd \in Int /\ rd \in Int
        BY <1>2, <1>3
    <2>3. x * y = wd + cd + t /\ t = rd + s
        BY <1>3, <1>4
    <2>4. (w + c + r) * d = wd + cd + rd
        BY <2>1
    <2> HIDE DEF wd, cd, rd
    <2>5. QED
        BY <1>2, <1>3, <2>2, <2>3, <2>4
<1>6. (x * y) \div d = w + c + r
    <2> HIDE DEF w, c, r, s
    <2>1. w + c + r \in Nat /\ x * y \in Nat
        BY <1>2, <1>3
    <2>2. QED
        BY <1>3, <1>5, <2>1, FloorIs
<1>7. QED
    BY <1>2, <1>3, <1>6 DEF Whole, Cross, Rest, MulDivFloor

LEMMA Exceeds ==
    ASSUME NEW m \in Nat, NEW k \in Nat \ {0}, NEW n \in Nat, ~(n <= m \div k)
    PROVE  k * n > m
<1> DEFINE q == m \div k
<1>1. q \in Nat /\ m % k \in 0..(k - 1) /\ m = q * k + (m % k)
    BY Division
<1>2. n >= q + 1
    <2> HIDE DEF q
    <2> QED BY <1>1 DEF q
<1> HIDE DEF q
<1>3. k * n >= k * (q + 1)
    BY <1>1, <1>2
<1>4. k * (q + 1) = q * k + k
    BY <1>1
<1>5. QED
    <2> DEFINE e == q * k
               f == k * n
               g == k * (q + 1)
    <2>1. e \in Int /\ f \in Int /\ g \in Int /\ f >= g /\ g = e + k /\ m = e + (m % k)
        BY <1>1, <1>3, <1>4
    <2> HIDE DEF e, f, g
    <2>2. QED
        BY <1>1, <2>1 DEF f

LEMMA SplitExact ==
    ASSUME WideInv, Split
    PROVE  \/ /\ outcome' = Return(MulDivFloor(x, y, d))
              /\ MulDivFloor(x, y, d) \in 0..MaxInt
           \/ outcome' = Refuse /\ MulDivFloor(x, y, d) > MaxInt
<1>1. x \in Nat /\ y \in Nat /\ d \in Nat \ {0} /\ MaxInt \in Nat
    BY WideAssumption DEF WideInv, WideTypeOK
<1>2. /\ Whole \in Nat /\ Cross \in Nat /\ Rest \in Nat
      /\ MulDivFloor(x, y, d) = Whole + Cross + Rest
    BY <1>1, SplitSum
<1>3. CASE SplitFits
    <2>1. outcome' = Return(Whole + Cross + Rest)
        BY <1>3 DEF Split
    <2>2. Rest <= MaxInt - (Whole + Cross)
        BY <1>3 DEF SplitFits
    <2>3. QED
        BY <1>1, <1>2, <2>1, <2>2
<1>4. CASE ~SplitFits
    <2>1. outcome' = Refuse
        BY <1>4 DEF Split
    <2>2. CASE ~(x \div d > 0 => y <= MaxInt \div (x \div d))
        <3>1. x \div d \in Nat \ {0}
            BY <1>1, <2>2
        <3>2. (x \div d) * y > MaxInt
            <4> DEFINE k == x \div d
            <4>1. k \in Nat \ {0} /\ ~(y <= MaxInt \div k)
                BY <2>2, <3>1
            <4> HIDE DEF k
            <4>2. k * y > MaxInt
                BY <1>1, <4>1, Exceeds
            <4>3. QED
                BY <4>2 DEF k
        <3>3. Whole > MaxInt
            BY <3>2 DEF Whole
        <3>4. QED
            BY <1>1, <1>2, <2>1, <3>3
    <2>3. CASE /\ x \div d > 0 => y <= MaxInt \div (x \div d)
               /\ ~(x % d > 0 => y \div d <= (MaxInt - Whole) \div (x % d))
        <3>1. x % d \in Nat \ {0} /\ y \div d \in Nat
            BY <1>1, <2>3
        <3>2. CASE Whole > MaxInt
            BY <1>1, <1>2, <2>1, <3>2
        <3>3. CASE Whole <= MaxInt
            <4> DEFINE k == x % d
                       n == y \div d
                       m == MaxInt - Whole
            <4>1. k \in Nat \ {0} /\ n \in Nat /\ m \in Nat /\ ~(n <= m \div k)
                BY <1>1, <1>2, <2>3, <3>1, <3>3
            <4>2. k * n > m
                <5> HIDE DEF k, n, m
                <5> QED BY <4>1, Exceeds
            <4>3. Cross > MaxInt - Whole
                BY <4>2 DEF Cross
            <4>4. QED
                BY <1>1, <1>2, <2>1, <4>3
        <3>4. QED
            BY <1>1, <1>2, <3>2, <3>3
    <2>4. CASE ~(Rest <= MaxInt - (Whole + Cross))
        BY <1>1, <1>2, <2>1, <2>4
    <2>5. QED
        BY <1>4, <2>2, <2>3, <2>4 DEF SplitFits
<1>5. QED
    BY <1>3, <1>4

-----------------------------------------------------------------------------

LEMMA NextWide == WideInv /\ [WideNext]_wideVars => WideInv'
<1> SUFFICES ASSUME WideInv, [WideNext]_wideVars PROVE WideInv'
    OBVIOUS
<1>1. CASE Shortcut
    <2>1. outcome'.kind = "returned" /\ outcome'.value = MulDivFloor(x, y, d)
          /\ outcome'.value \in 0..MaxInt
        BY <1>1, ShortcutExact
    <2>2. UNCHANGED <<x, y, d, method, round, bitValue, quotient, remainder>>
        BY <1>1 DEF Shortcut, operands, loop
    <2>3. QED
        BY <2>1, <2>2 DEF WideInv, WideTypeOK, MulDivExact, MulDivFloor, Pending
<1>2. CASE TakeDigit
    BY <1>2, DigitKeeps
<1>3. CASE FinishDigits
    <2>1. outcome' = Return(MulDivFloor(x, y, d)) /\ MulDivFloor(x, y, d) \in 0..MaxInt
        BY <1>3, FinishExact
    <2>2. UNCHANGED <<x, y, d, method, round, bitValue, quotient, remainder>>
        BY <1>3 DEF FinishDigits, operands, loop
    <2>3. QED
        BY <2>1, <2>2 DEF WideInv, WideTypeOK, MulDivExact, MulDivFloor, Pending, Return
<1>4. CASE Split
    <2>1. \/ /\ outcome' = Return(MulDivFloor(x, y, d)) /\ MulDivFloor(x, y, d) \in 0..MaxInt
          \/ outcome' = Refuse /\ MulDivFloor(x, y, d) > MaxInt
        BY <1>4, SplitExact
    <2>2. UNCHANGED <<x, y, d, method, round, bitValue, quotient, remainder>> /\ method # "digits"
        BY <1>4 DEF Split, operands, loop
    <2>3. MaxInt \in Nat
        BY WideAssumption
    <2>4. QED
        BY <2>1, <2>2, <2>3 DEF WideInv, WideTypeOK, MulDivExact, MulDivFloor, Pending, Return, Refuse
<1>5. CASE UNCHANGED wideVars
    BY <1>5 DEF wideVars, operands, loop, WideInv, WideTypeOK, MulDivExact, MulDivFloor, Prefix
<1>6. QED
    BY <1>1, <1>2, <1>3, <1>4, <1>5 DEF WideNext

LEMMA WideInvariant == WideSpec => []WideInv
<1>1. QED
    BY InitWide, NextWide, PTL DEF WideSpec

(* The covenants' floored product is exact for operands of any width, and  *)
(* refused only when the result does not fit.                              *)
THEOREM ProductsExact == WideSpec => []MulDivExact
<1>1. WideInv => MulDivExact
    BY DEF WideInv
<1>2. QED
    BY WideInvariant, <1>1, PTL

(* No number of the long division exceeds what a script can hold. *)
THEOREM WideTyped == WideSpec => []WideTypeOK
<1>1. WideInv => WideTypeOK
    BY DEF WideInv
<1>2. QED
    BY WideInvariant, <1>1, PTL
=============================================================================
