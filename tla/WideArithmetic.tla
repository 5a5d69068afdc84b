---------------------------- MODULE WideArithmetic ----------------------------
(***************************************************************************)
(* floor(x * y / d) in integers too narrow for x * y, as the covenants     *)
(* compute it: by long division, one binary digit of x at a time, in       *)
(* EquityReserve and SavingsAccount, and by splitting x and y at d in      *)
(* Challenge, Auction and, for the price a Module accepts, MintingModule.  *)
(* The other modules take MulDivFloor for all of them.                     *)
(*                                                                         *)
(* A script whose arithmetic leaves MaxInt fails like one whose require    *)
(* does: the transaction is refused.                                       *)
(***************************************************************************)
EXTENDS Amounts

CONSTANTS
    Digits,      \* 55: binary digits of an amount
    MaxInt,      \* 2^63 - 1: the largest integer of a script
    MaxDivisor   \* 100000000: the largest divisor where x and y are split

(* The powers of two up to n. *)
Powers(n) ==
    LET power[i \in 0..n] == IF i = 0 THEN 1 ELSE 2 * power[i - 1]
    IN  power
Power(i) == Powers(Digits)[i]

MaxAmount == Power(Digits) - 1

ASSUME WideAssumption ==
    /\ Digits \in Nat \ {0}
    /\ MaxInt \in Nat /\ 2 * MaxAmount <= MaxInt
    /\ MaxDivisor \in Nat \ {0} /\ MaxDivisor * MaxDivisor <= MaxInt

VARIABLES
    x, y, d,     \* the operands
    method,      \* "digits" or "split"
    round,       \* digits of x taken in
    bitValue, quotient, remainder,
    outcome      \* pending, returned with a value, or refused

operands == <<x, y, d, method>>
loop == <<round, bitValue, quotient, remainder>>
wideVars == <<operands, loop, outcome>>

Pending == [kind |-> "pending", value |-> 0]
Refuse == [kind |-> "refused", value |-> 0]
Return(value) == [kind |-> "returned", value |-> value]

(* Operands that pass the require at the beginning. *)
WideInit ==
    /\ \/ /\ method = "digits"
          /\ x \in 0..MaxAmount /\ y \in 0..MaxAmount /\ d \in 1..MaxAmount
       \/ /\ method = "split"
          /\ x \in 0..MaxInt /\ y \in 0..MaxInt /\ d \in 1..MaxDivisor
    /\ round = 0
    /\ bitValue = Power(Digits - 1)
    /\ quotient = 0 /\ remainder = 0
    /\ outcome = Pending

(* The cases that need no digits. *)
ShortCases ==
    {Return(v) : v \in (IF x = 0 \/ y = 0 THEN {0}
                        ELSE IF x = d THEN {y}
                        ELSE IF y = d THEN {x}
                        ELSE IF x <= MaxInt \div y THEN {(x * y) \div d}
                        ELSE {})}

Shortcut ==
    /\ method = "digits" /\ round = 0 /\ outcome = Pending
    /\ outcome' \in ShortCases
    /\ UNCHANGED <<operands, loop>>

-----------------------------------------------------------------------------
(* Long division *)

(* Mutant: a sum equal to d is not reduced. *)
AddModuloStrict(r, s) ==
    IF r > d - s THEN [rest |-> r - (d - s), carry |-> 1] ELSE [rest |-> r + s, carry |-> 0]

(* r + s modulo d without forming the sum, and what is carried. *)
AddModulo(r, s) ==
    IF r >= d - s THEN [rest |-> r - (d - s), carry |-> 1] ELSE [rest |-> r + s, carry |-> 0]

TakeDigit ==
    LET digit == (x \div bitValue) % 2
        doubled == AddModulo(remainder, remainder)
        added == IF digit = 1 THEN AddModulo(doubled.rest, y % d)
                 ELSE [rest |-> doubled.rest, carry |-> 0]
        next == 2 * quotient + digit * (y \div d) + doubled.carry + added.carry
    IN  /\ method = "digits" /\ outcome = Pending /\ ShortCases = {}
        /\ round < Digits
        /\ round' = round + 1
        /\ bitValue' = bitValue \div 2
        /\ remainder' = added.rest
        /\ IF next <= MaxInt THEN quotient' = next /\ UNCHANGED outcome
           ELSE outcome' = Refuse /\ UNCHANGED quotient
        /\ UNCHANGED operands

FinishDigits ==
    /\ method = "digits" /\ outcome = Pending
    /\ round = Digits
    /\ outcome' = Return(quotient)
    /\ UNCHANGED <<operands, loop>>

-----------------------------------------------------------------------------
(* Splitting *)

Whole == (x \div d) * y
Cross == (x % d) * (y \div d)
Rest == ((x % d) * (y % d)) \div d

(* The requires that keep each partial result within MaxInt. *)
SplitFits ==
    /\ x \div d > 0 => y <= MaxInt \div (x \div d)
    /\ x % d > 0 => y \div d <= (MaxInt - Whole) \div (x % d)
    /\ Rest <= MaxInt - (Whole + Cross)

Split ==
    /\ method = "split" /\ outcome = Pending
    /\ outcome' = IF SplitFits THEN Return(Whole + Cross + Rest) ELSE Refuse
    /\ UNCHANGED <<operands, loop>>

WideNext == Shortcut \/ TakeDigit \/ FinishDigits \/ Split
WideSpec == WideInit /\ [][WideNext]_wideVars

-----------------------------------------------------------------------------
(* Properties *)

(* Types; the long division never holds a remainder of d or more, and no   *)
(* number it forms is above MaxInt.                                        *)
WideTypeOK ==
    /\ x \in Nat /\ y \in Nat /\ d \in Nat \ {0}
    /\ round \in 0..Digits
    /\ remainder \in 0..(d - 1)
    /\ bitValue \in Nat
    /\ quotient \in 0..MaxInt
    /\ outcome.value \in 0..MaxInt

(* What a covenant computes is the exact floor, which is what equity.rs    *)
(* and savings.rs compute in 128 bits to build the transaction; and it     *)
(* refuses only if the result itself is not an integer of a script.        *)
MulDivExact ==
    /\ outcome.kind = "returned" => outcome.value = MulDivFloor(x, y, d)
    /\ outcome.kind = "refused" => MulDivFloor(x, y, d) > MaxInt
=============================================================================
