---------------------------- MODULE MulDivProps ----------------------------
(***************************************************************************)
(* What the iterations of muldiv_unit.sv compute, against the definition   *)
(* of the instructions on signed and unsigned numbers.                     *)
(***************************************************************************)
EXTENDS MulDiv

\* The signed number that n bits stand for, and the bits of a number.
ToSigned(x, n) == IF Negative(x, n) THEN x - 2^n ELSE x
ToBits(v, n)   == v % 2^n

Sign(v)      == IF v < 0 THEN -1 ELSE 1
Magnitude(v) == Sign(v) * v

\* Division rounds towards zero and the remainder has the dividend's sign.
Quotient(u, v)  == Sign(u) * Sign(v) * (Magnitude(u) \div Magnitude(v))
Remainder(u, v) == u - v * Quotient(u, v)

\* The value of an instruction: a zero divisor gives all ones, or the
\* dividend, and the one overflow gives what wrapping gives.
Value(r) ==
    LET n == Bits(r.word)
        u == IF Unsigned(r.op) THEN Low(r.a, n) ELSE ToSigned(Low(r.a, n), n)
        v == IF Unsigned(r.op) THEN Low(r.b, n) ELSE ToSigned(Low(r.b, n), n)
    IN  CASE r.op = MulOp    -> u * v
          [] r.op \in DivOps -> IF v = 0 THEN -1 ELSE Quotient(u, v)
          [] r.op \in RemOps -> IF v = 0 THEN u ELSE Remainder(u, v)

Expected(r) ==
    LET n == Bits(r.word) IN ToBits(ToSigned(ToBits(Value(r), n), n), Width)

\* The result offered in DONE is the one the instruction set defines, for
\* every operation, word form, sign, zero divisor and overflow.
ResultCorrect == state = "DONE" => result = Expected(job)

\* Half-way through a division the bits of the dividend taken so far are
\* quotient * divisor + remainder, with a remainder that is in range; the
\* 65-bit compare and the restoring step keep both.
DivisionHolds ==
    state = "DIV" =>
        LET n == Bits(job.word)
            a == Low(job.a, n)
            u == IF Unsigned(job.op) THEN a ELSE Abs(a, n)
        IN  /\ u \div 2^(n - cnt) = quotient * divisor + remainder
            /\ remainder < divisor
            /\ dividend = Low(u, n - cnt) * 2^(cnt + Width - n)

\* Half-way through a multiplication, what is summed and what is still to be
\* added make the product; no partial product is lost at the top.
ProductHolds ==
    state = "MUL" =>
        product + multiplicand * multiplier
            = Low(job.a, Bits(job.word)) * Low(job.b, Bits(job.word))

\* The unit behaves as the control that the pipeline is checked with: its
\* operands are those of the asker accepted last, it is busy for as long as
\* it likes and offers a result for exactly one cycle.
Control == INSTANCE MulDivControl WITH
    mduState <- IF state \in {"MUL", "DIV"} THEN "BUSY" ELSE state,
    mduFor <- job.who, AddrSpace <- Askers, PcInit <- 0
ImplementsControl == Control!MduSpec

\* An operation accepted is answered: the count meets its last bit, for the
\* word forms as for the others.
Answers == (state \in {"MUL", "DIV"}) ~> (state = "DONE")
=============================================================================
