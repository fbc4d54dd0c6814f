------------------------------- MODULE MulDiv -------------------------------
(***************************************************************************)
(* The arithmetic of src/muldiv_unit.sv: a shift-and-add multiplier and a  *)
(* restoring divider, one bit per clock edge, for doublewords and for the  *)
(* word (w) forms.  A register of n bits is a number below 2^n; a word has *)
(* Half bits and a doubleword twice as many (32 and 64 in the code).       *)
(***************************************************************************)
EXTENDS Integers, Sequences

CONSTANTS
    Half,      \* bits of a word
    Askers,    \* how many instructions there are to ask for the unit
    Offered    \* what they ask, one set of requests for each in turn

ASSUME HalfAssumption == Half \in Nat \ {0} /\ Askers \in Nat \ {0}

Width == 2 * Half
Bits(word) == IF word THEN Half ELSE Width
Low(x, n)  == x % 2^n

MulOp == "mul"
DivOps == {"div", "divu"}
RemOps == {"rem", "remu"}
Unsigned(op) == op \in {"divu", "remu"}

\* The laws of exponents for the powers that bound the registers: arithmetic,
\* and no property of the code, which the proofs need and no prover knows.
ASSUME PowersAssumption ==
    \A m, n \in 0 .. 2 * Width :
        m + n <= 2 * Width => 2^n \in Nat \ {0} /\ 2^(m + n) = 2^m * 2^n

\* What EX offers the unit: who asks, and for what.
Requests == [who : 0 .. Askers - 1, op : {MulOp} \cup DivOps \cup RemOps, word : BOOLEAN,
             a : 0 .. 2^Width - 1, b : 0 .. 2^Width - 1]

ASSUME OfferedAssumption == Offered \in Seq(SUBSET Requests)

VARIABLES
    jobs,           \* how many of Offered were accepted
    state,          \* IDLE, MUL, DIV or DONE
    job,            \* the request accepted last (op_r, word_r and history)
    cnt,            \* cnt, as wide as counts to twice the width
    product, multiplicand, multiplier,
    dividend, divisor, quotient, remainder,
    negated,        \* [q |-> quotient_neg, r |-> remainder_neg]
    result          \* result_r

mulVars == <<product, multiplicand, multiplier>>
divVars == <<dividend, divisor, quotient, remainder, negated>>
mdVars  == <<jobs, state, job, cnt, mulVars, divVars, result>>

NoJob == [who |-> -2]

MdInit ==
    /\ jobs = 0 /\ state = "IDLE" /\ job = NoJob /\ cnt = 0
    /\ product = 0 /\ multiplicand = 0 /\ multiplier = 0
    /\ dividend = 0 /\ divisor = 0 /\ quotient = 0 /\ remainder = 0
    /\ negated = [q |-> FALSE, r |-> FALSE]
    /\ result = 0
-----------------------------------------------------------------------------
Negative(x, n) == x >= 2^(n - 1)
Neg(x, n)      == (2^n - x) % 2^n
\* abs32, abs64: the most negative number is its own absolute value.
Abs(x, n)      == IF Negative(x, n) THEN Neg(x, n) ELSE x
\* sext32
SignExtend(x)  == IF Negative(x, Half) THEN x + 2^Width - 2^Half ELSE x
\* The result of a word form is sign-extended.
Widen(x, word) == IF word THEN SignExtend(Low(x, Half)) ELSE Low(x, Width)

Overflows(r, n) == Low(r.a, n) = 2^(n - 1) /\ Low(r.b, n) = 2^n - 1

AcceptMulKeepsProduct(r) ==
    LET n == Bits(r.word)
    IN  /\ r.op = MulOp
        /\ multiplicand' = Low(r.a, n) /\ multiplier' = Low(r.b, n)
        /\ state' = "MUL"
        /\ UNCHANGED <<divVars, result, product>>
AcceptMul(r) ==
    LET n == Bits(r.word)
    IN  /\ r.op = MulOp
        /\ product' = 0
        /\ multiplicand' = Low(r.a, n) /\ multiplier' = Low(r.b, n)
        /\ state' = "MUL"
        /\ UNCHANGED <<divVars, result>>

\* A word's dividend is placed in the upper half, whence its bits are taken.
AcceptDiv(r) ==
    LET n == Bits(r.word)
        a == Low(r.a, n)
        b == Low(r.b, n)
        signed == ~Unsigned(r.op)
    IN  /\ r.op # MulOp
        /\ quotient' = 0 /\ remainder' = 0
        /\ dividend' = (IF signed THEN Abs(a, n) ELSE a) * 2^(Width - n)
        /\ divisor'  = IF signed THEN Abs(b, n) ELSE b
        /\ negated'  = [q |-> signed /\ Negative(a, n) # Negative(b, n),
                        r |-> signed /\ Negative(a, n)]
        /\ UNCHANGED mulVars
        /\ \/ /\ b = 0
              /\ result' = IF r.op \in DivOps THEN 2^Width - 1
                           ELSE Widen(r.a, r.word)
              /\ state' = "DONE"
           \/ /\ b # 0 /\ signed /\ Overflows(r, n)
              /\ result' = IF r.op = "div" THEN Widen(2^(n - 1), r.word) ELSE 0
              /\ state' = "DONE"
           \/ /\ b # 0 /\ ~(signed /\ Overflows(r, n))
              /\ state' = "DIV"
              /\ UNCHANGED result

AcceptBackToBack(r) ==
    /\ state \in {"IDLE", "DONE"}
    /\ jobs' = jobs + 1 /\ job' = r /\ cnt' = 0
    /\ AcceptMul(r) \/ AcceptDiv(r)
Accept(r) ==
    /\ state = "IDLE"
    /\ jobs' = jobs + 1 /\ job' = r /\ cnt' = 0
    /\ AcceptMul(r) \/ AcceptDiv(r)

\* The last bit is taken in this cycle.
LastBit == cnt = Bits(job.word) - 1

CountNarrow == cnt' = (cnt + 1) % Half
Count == cnt' = (cnt + 1) % (2 * Width)

Multiply ==
    LET next == Low(product + (IF multiplier % 2 = 1 THEN multiplicand ELSE 0),
                    2 * Width)
    IN  /\ state = "MUL"
        /\ product' = next
        /\ multiplicand' = Low(multiplicand * 2, 2 * Width)
        /\ multiplier' = multiplier \div 2
        /\ Count
        /\ \/ /\ LastBit
              /\ result' = Widen(next, job.word) /\ state' = "DONE"
           \/ ~LastBit /\ UNCHANGED <<result, state>>
        /\ UNCHANGED <<jobs, job, divVars>>

SubtractsSmaller(rem) == rem > divisor
Subtracts(rem) == rem >= divisor

\* What the division offers, with its sign.
SignedByQuotient(quo, rem) ==
    LET v == IF job.op \in RemOps THEN Low(rem, Width) ELSE quo
    IN  IF negated.q THEN Neg(v, Width) ELSE v
Signed(quo, rem) ==
    IF job.op \in RemOps
    THEN IF negated.r THEN Neg(Low(rem, Width), Width) ELSE rem
    ELSE IF negated.q THEN Neg(quo, Width) ELSE quo

Divide ==
    LET shifted == Low(remainder, Width) * 2 + dividend \div 2^(Width - 1)
        rem == IF Subtracts(shifted) THEN shifted - divisor ELSE shifted
        quo == Low(quotient * 2, Width) + (IF Subtracts(shifted) THEN 1 ELSE 0)
    IN  /\ state = "DIV"
        /\ remainder' = rem /\ quotient' = quo
        /\ dividend' = Low(dividend * 2, Width)
        /\ Count
        /\ \/ /\ LastBit
              /\ result' = Widen(Signed(quo, rem), job.word) /\ state' = "DONE"
           \/ ~LastBit /\ UNCHANGED <<result, state>>
        /\ UNCHANGED <<jobs, job, mulVars, divisor, negated>>

\* The result is offered for one cycle; a request waits for IDLE.
Release ==
    /\ state = "DONE"
    /\ state' = "IDLE"
    /\ UNCHANGED <<jobs, job, cnt, mulVars, divVars, result>>

Ask == jobs < Len(Offered) /\ \E r \in Offered[jobs + 1] : Accept(r)

MdNext == Ask \/ Multiply \/ Divide \/ Release

\* The clock does not stop, so that an operation goes on; none need begin.
MdSpec == MdInit /\ [][MdNext]_mdVars /\ WF_mdVars(Multiply \/ Divide)
=============================================================================
