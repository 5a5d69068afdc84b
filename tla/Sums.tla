-------------------------------- MODULE Sums --------------------------------
(***************************************************************************)
(* Totals over functions on 1..n.  A covenant ledger is a finite family of *)
(* UTXOs; what the KUSD specifications conserve are totals over such       *)
(* families.  The total is a recursive function (not a RECURSIVE operator) *)
(* so that the proof system can reason about it; Sums_proofs has its laws. *)
(***************************************************************************)
EXTENDS Integers

(* The partial sums f[1] + ... + f[i] of a function f on 1..n. *)
PartialSums(f, n) ==
    LET partial[i \in 0..n] == IF i = 0 THEN 0 ELSE partial[i - 1] + f[i]
    IN  partial

(* f[1] + ... + f[n]. *)
SumTo(f, n) == PartialSums(f, n)[n]

(* f with `amount` added to, or taken from, the entry of k. *)
Credit(f, k, amount) == [f EXCEPT ![k] = @ + amount]
Debit(f, k, amount) == [f EXCEPT ![k] = @ - amount]
=============================================================================
