------------------------------ MODULE Amounts ------------------------------
(***************************************************************************)
(* The integer arithmetic of the KUSD contracts: ppm shares and floored    *)
(* products.  Amounts are KUSD, KPS and sompi atoms.  The contracts refuse *)
(* a transaction whose intermediate product leaves i64 (the requires on    *)
(* MAX_INT); the amounts here are taken below that limit.                  *)
(***************************************************************************)
EXTENDS Integers

PPM == 1000000
SompiPerKas == 100000000

(* floor(amount * rate / PPM), split as the contracts split it so that     *)
(* amount * rate is never formed.                                          *)
MulPpm(amount, rate) ==
    (amount \div PPM) * rate + ((amount % PPM) * rate) \div PPM

(* floor(x * y / d). *)
MulDivFloor(x, y, d) == (x * y) \div d

(* What `collateral` sompi are worth at `price` KUSD atoms per KAS. *)
ReferenceValue(collateral, price) == MulDivFloor(collateral, price, SompiPerKas)
=============================================================================
