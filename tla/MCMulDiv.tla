------------------------------ MODULE MCMulDiv ------------------------------
(***************************************************************************)
(* The multiplier and divider at small widths.  One operation leaves its   *)
(* bits in the registers, then comes any request: words of 3 bits and      *)
(* doublewords of 6 have every combination of signs, carries, zero         *)
(* divisors and overflows.                                                 *)
(***************************************************************************)
EXTENDS MulDivProps

\* A division and a multiplication whose registers end far from zero.
Leftovers == {r \in Requests :
                 /\ r.who = 0 /\ r.a = 2^Width - 1 /\ r.b = 2^(Width - 1) + 1
                 /\ r.op \in {MulOp, "divu"} /\ ~r.word}

MCOffered == <<Leftovers, {r \in Requests : r.who = 1}>>
=============================================================================
