---------------------------- MODULE MulDivProofs ----------------------------
(***************************************************************************)
(* The iterative multiplier and divider, for every width and whatever is   *)
(* asked of it: it keeps to the control the pipeline was proved with, its  *)
(* registers hold at every bit what the iteration claims of them, and the  *)
(* result it offers is the one the instruction set defines.  The inductive *)
(* invariant is MdIInv; below it come the lemmas of arithmetic, what the   *)
(* instruction set expects in terms of magnitudes and signs, and one lemma *)
(* for each kind of step.                                                  *)
(***************************************************************************)
EXTENDS MulDivProps, TLAPS

\* Requests come from an instruction, and the state is one of the four.
MdShape ==
    /\ state \in {"IDLE", "MUL", "DIV", "DONE"}
    /\ jobs \in Nat
    /\ job = NoJob \/ job.who \in 0 .. Askers - 1

\* What the program offers next is a request.
LEMMA OfferedRequests ==
  ASSUME jobs \in Nat, jobs < Len(Offered)
  PROVE  Offered[jobs + 1] \subseteq Requests
<1>1. /\ Offered \in Seq(SUBSET Requests)
      /\ jobs + 1 \in 1 .. Len(Offered)
  BY OfferedAssumption
<1>2. QED
  BY <1>1

\* Accepting a request starts an operation, or ends it at once.
LEMMA AcceptStep ==
  ASSUME MdShape, Ask
  PROVE  \E r \in Requests :
            Accept(r) /\ state' \in {"MUL", "DIV", "DONE"} /\ job' = r
<1>1. PICK r \in Offered[jobs + 1] : Accept(r)
  BY DEF Ask
<1>2. r \in Requests
  BY <1>1, OfferedRequests DEF MdShape, Ask
<1>3. state' \in {"MUL", "DIV", "DONE"} /\ job' = r
  BY <1>1 DEF Accept, AcceptMul, AcceptDiv
<1>4. QED
  BY <1>1, <1>2, <1>3

LEMMA MdShapeStep == MdShape /\ [MdNext]_mdVars => MdShape'
<1> SUFFICES ASSUME MdShape, [MdNext]_mdVars PROVE MdShape'
  OBVIOUS
<1>1. CASE Ask
  <2>1. jobs' = jobs + 1
    BY <1>1 DEF Ask, Accept
  <2>2. QED
    BY <1>1, <2>1, AcceptStep DEF MdShape, Requests
<1>2. CASE Multiply
  BY <1>2 DEF MdShape, Multiply
<1>3. CASE Divide
  BY <1>3 DEF MdShape, Divide
<1>4. CASE Release
  BY <1>4 DEF MdShape, Release
<1>5. CASE UNCHANGED mdVars
  BY <1>5 DEF MdShape, mdVars
<1>6. QED
  BY <1>1, <1>2, <1>3, <1>4, <1>5 DEF MdNext

\* The detailed unit implements the control of the pipeline's model: for any
\* width, any request and any number of iterations, its result is up for one
\* cycle and belongs to the asker it accepted.
THEOREM UnitImplementsControl == MdSpec => ImplementsControl
<1>1. MdInit => MdShape /\ Control!MduInit
  BY DEF MdInit, MdShape, NoJob, Control!MduInit, Control!Nil
<1>2. MdShape /\ [MdNext]_mdVars => [Control!MduNext]_(Control!mduVars)
  <2> SUFFICES ASSUME MdShape, [MdNext]_mdVars
               PROVE  [Control!MduNext]_(Control!mduVars)
    OBVIOUS
  <2> USE DEF MdShape, Control!MduNext, Control!MduClock, Control!mduVars
  <2>1. CASE Ask
    <3>1. PICK r \in Requests :
             Accept(r) /\ state' \in {"MUL", "DIV", "DONE"} /\ job' = r
      BY <2>1, AcceptStep
    <3>2. r.who \in Control!Addr /\ r.who # Control!Nil
      BY <3>1, HalfAssumption DEF Requests, Control!Addr, Control!Nil
    <3>3. Control!MduAccept(r.who, state' = "DONE")
      BY <3>1, <3>2 DEF Accept, Control!MduAccept
    <3>4. (state' = "DONE") \in BOOLEAN
      OBVIOUS
    <3>5. QED
      BY <3>2, <3>3, <3>4
  <2>2. CASE Multiply
    <3>1. /\ state = "MUL" /\ state' \in {"MUL", "DONE"} /\ job' = job
      BY <2>2 DEF Multiply
    <3>2. Control!MduIterate(state' = "DONE")
      BY <3>1 DEF Control!MduIterate
    <3>3. QED
      BY <3>2 DEF Control!Addr, Control!Nil
  <2>3. CASE Divide
    <3>1. /\ state = "DIV" /\ state' \in {"DIV", "DONE"} /\ job' = job
      BY <2>3 DEF Divide
    <3>2. Control!MduIterate(state' = "DONE")
      BY <3>1 DEF Control!MduIterate
    <3>3. QED
      BY <3>2 DEF Control!Addr, Control!Nil
  <2>4. CASE Release
    <3>1. Control!MduRelease
      BY <2>4 DEF Release, Control!MduRelease
    <3>2. QED
      BY <3>1 DEF Control!Addr, Control!Nil
  <2>5. CASE UNCHANGED mdVars
    BY <2>5 DEF mdVars
  <2>6. QED
    BY <2>1, <2>2, <2>3, <2>4, <2>5 DEF MdNext
<1>3. QED
  BY <1>1, <1>2, MdShapeStep, PTL DEF MdSpec, ImplementsControl, Control!MduSpec
-----------------------------------------------------------------------------
\* Arithmetic.
\* A number is its quotient and its remainder.
LEMMA DivMod ==
    ASSUME NEW a \in Int, NEW d \in Nat \ {0}
    PROVE  /\ a \div d \in Int /\ a % d \in 0 .. d - 1
           /\ a = d * (a \div d) + (a % d)
<1>1. a \div d \in Int
  BY SMT
<1>2. a % d \in 0 .. d - 1
  BY SMT
<1>3. a = d * (a \div d) + (a % d)
  BY SMT
<1> QED
  BY <1>1, <1>2, <1>3, Zenon

\* The quotient and the remainder are the only ones.
LEMMA DivModUnique ==
    ASSUME NEW a \in Int, NEW d \in Nat \ {0}, NEW q \in Int, NEW r \in 0 .. d - 1,
           a = d * q + r
    PROVE  a \div d = q /\ a % d = r
<1>1. a \div d \in Int /\ a % d \in 0 .. d - 1 /\ a = d * (a \div d) + (a % d)
  BY DivMod
<1> DEFINE p == a \div d
           s == a % d
<1>2. d * (p - q) = r - s
  BY <1>1
<1> HIDE DEF p, s
<1>3. p \in Int /\ s \in 0 .. d - 1
  BY <1>1 DEF p, s
<1>4. p - q >= 1 => d * (p - q) >= d
  BY <1>3
<1>5. p - q <= -1 => d * (p - q) <= -d
  BY <1>3
<1>6. p - q = 0
  BY <1>2, <1>3, <1>4, <1>5
<1> QED
  BY <1>2, <1>3, <1>6 DEF p, s

\* Powers of two up to twice the width, which the assumption gives.
LEMMA Power ==
    ASSUME NEW n \in 0 .. 2 * Width
    PROVE  2^n \in Nat \ {0}
<1>1. Width \in Nat
  BY HalfAssumption DEF Width
<1>2. 0 \in 0 .. 2 * Width /\ 0 + n <= 2 * Width
  BY <1>1
<1> QED
  BY <1>2, PowersAssumption

LEMMA PowerSum ==
    ASSUME NEW m \in Nat, NEW n \in Nat, m + n <= 2 * Width
    PROVE  2^(m + n) = 2^m * 2^n
<1>1. Width \in Nat
  BY HalfAssumption DEF Width
<1>2. m \in 0 .. 2 * Width /\ n \in 0 .. 2 * Width
  BY <1>1
<1> QED
  BY <1>2, PowersAssumption

LEMMA PowerNext ==
    ASSUME NEW n \in Nat, n + 1 <= 2 * Width
    PROVE  2^(n + 1) = 2 * 2^n
<1>1. 2^1 = 2
  OBVIOUS
<1>2. 2^(1 + n) = 2^1 * 2^n
  <2>1. Width \in Nat
    BY HalfAssumption DEF Width
  <2>2. 1 + n <= 2 * Width
    BY <2>1
  <2> QED
    BY <2>2, PowerSum
<1>3. 1 + n = n + 1
  OBVIOUS
<1> QED
  BY <1>1, <1>2, <1>3

LEMMA PowerMonotone ==
    ASSUME NEW m \in Nat, NEW n \in Nat, m <= n, n <= 2 * Width
    PROVE  2^m <= 2^n
<1>1. Width \in Nat
  BY HalfAssumption DEF Width
<1>2. m \in 0 .. 2 * Width /\ n - m \in 0 .. 2 * Width /\ n - m \in Nat /\ m + (n - m) = n
  BY <1>1
<1>3. 2^n = 2^m * 2^(n - m)
  BY <1>2, PowerSum
<1>4. ASSUME NEW x \in Nat \ {0}, NEW y \in Nat \ {0} PROVE x <= x * y
  BY <1>4
<1> QED
  BY <1>2, <1>3, <1>4, Power

\* A number below the modulus stays, and multiples of it do not count.
LEMMA ModSame ==
    ASSUME NEW d \in Nat \ {0}, NEW x \in 0 .. d - 1
    PROVE  x % d = x
<1>1. x = d * 0 + x
  OBVIOUS
<1> QED
  BY <1>1, DivModUnique

LEMMA ModShift ==
    ASSUME NEW d \in Nat \ {0}, NEW x \in Int, NEW k \in Int
    PROVE  (x + d * k) % d = x % d
<1> DEFINE q == x \div d
           r == x % d
<1>1. q \in Int /\ r \in 0 .. d - 1 /\ x = d * q + r
  BY DivMod
<1> HIDE DEF q, r
<1>2. x + d * k = d * (q + k) + r
  BY <1>1
<1>3. q + k \in Int /\ x + d * k \in Int
  BY <1>1
<1>4. (x + d * k) % d = r
  BY <1>1, <1>2, <1>3, DivModUnique
<1> QED
  BY <1>4 DEF r
-----------------------------------------------------------------------------
\* The bits of an operation, and the powers its registers are bounded by.
LEMMA BitsOf ==
    ASSUME NEW word \in BOOLEAN
    PROVE  /\ Bits(word) \in Nat \ {0} /\ Bits(word) <= Width /\ Width \in Nat
           /\ 2^Bits(word) \in Nat \ {0} /\ 2^Bits(word) <= 2^Width
           /\ 2^(Bits(word) - 1) \in Nat \ {0} /\ 2^Bits(word) = 2 * 2^(Bits(word) - 1)
           /\ 2^Width = 2^Bits(word) * 2^(Width - Bits(word))
           /\ 2^(Width - Bits(word)) \in Nat \ {0} /\ 2^Width \in Nat \ {0}
<1> DEFINE n == Bits(word)
<1>1. n \in Nat \ {0} /\ n <= Width /\ Width \in Nat
  BY HalfAssumption DEF Bits, Width
<1> HIDE DEF n
<1>2. n \in 0 .. 2 * Width /\ n - 1 \in 0 .. 2 * Width /\ n - 1 \in Nat /\ n - 1 + 1 = n
      /\ Width - n \in 0 .. 2 * Width /\ Width - n \in Nat /\ n + (Width - n) = Width
      /\ Width \in 0 .. 2 * Width /\ Width <= 2 * Width /\ n <= 2 * Width
  BY <1>1
<1>3. 2^n \in Nat \ {0} /\ 2^(n - 1) \in Nat \ {0} /\ 2^(Width - n) \in Nat \ {0}
      /\ 2^Width \in Nat \ {0}
  BY <1>2, Power
<1>4. 2^n = 2 * 2^(n - 1)
  BY <1>2, PowerNext
<1>5. 2^Width = 2^n * 2^(Width - n)
  BY <1>1, <1>2, PowerSum
<1>6. 2^n <= 2^Width
  BY <1>1, <1>2, PowerMonotone
<1> QED
  BY <1>1, <1>3, <1>4, <1>5, <1>6 DEF n

\* Widening keeps the signed number that the low bits stand for.
LEMMA WidenIs ==
    ASSUME NEW word \in BOOLEAN, NEW x \in Int
    PROVE  Widen(x, word) = ToBits(ToSigned(ToBits(x, Bits(word)), Bits(word)), Width)
<1> DEFINE n == Bits(word)
           m == 2^n
           M == 2^Width
           h == 2^(n - 1)
           y == x % m
<1>1. m \in Nat \ {0} /\ M \in Nat \ {0} /\ m <= M /\ h \in Nat
  BY BitsOf
<1>2. y \in 0 .. m - 1
  BY <1>1, DivMod
<1>3. ToBits(ToSigned(ToBits(x, n), n), Width) = (IF y >= h THEN y - m ELSE y) % M
  BY DEF ToBits, ToSigned, Negative
<1>4. word => Widen(x, word) = IF y >= h THEN y + M - m ELSE y
  BY DEF Widen, SignExtend, Low, Negative, Bits
<1>5. ~word => Widen(x, word) = y /\ m = M
  BY DEF Widen, Low, Bits
<1> HIDE DEF m, M, h, y, n
<1>6. CASE y >= h
  <2> DEFINE z == y - m
             t == y - m + M
             q == -1
  <2>1. t \in 0 .. M - 1 /\ z = M * q + t /\ z \in Int /\ q \in Int
    BY <1>1, <1>2
  <2> HIDE DEF z, t, q
  <2>3. z % M = t
    BY <1>1, <2>1, DivModUnique
  <2>2. (y - m) % M = y - m + M
    BY <2>3 DEF z, t
  <2> QED
    BY <1>1, <1>2, <1>3, <1>4, <1>5, <1>6, <2>2 DEF n
<1>7. CASE ~(y >= h)
  <2>1. y % M = y
    BY <1>1, <1>2, ModSame
  <2> QED
    BY <1>3, <1>4, <1>5, <1>7, <2>1 DEF n
<1> QED
  BY <1>6, <1>7

\* What is equal modulo the bits of an operation is widened to the same.
LEMMA WidenEqual ==
    ASSUME NEW word \in BOOLEAN, NEW x, NEW y, x % 2^Bits(word) = y % 2^Bits(word)
    PROVE  Widen(x, word) = Widen(y, word)
  BY DEF Widen, Low, Bits
-----------------------------------------------------------------------------
\* The operands of a request: its bits, and the signed numbers they stand for.
Size(r)  == Bits(r.word)
OpA(r)   == Low(r.a, Size(r))
OpB(r)   == Low(r.b, Size(r))
NumA(r)  == IF Unsigned(r.op) THEN OpA(r) ELSE ToSigned(OpA(r), Size(r))
NumB(r)  == IF Unsigned(r.op) THEN OpB(r) ELSE ToSigned(OpB(r), Size(r))
SizeA(r) == IF Unsigned(r.op) THEN OpA(r) ELSE Abs(OpA(r), Size(r))
SizeB(r) == IF Unsigned(r.op) THEN OpB(r) ELSE Abs(OpB(r), Size(r))

\* The operands fit the bits of the operation.
LEMMA Operands ==
    ASSUME NEW r \in Requests
    PROVE  /\ OpA(r) \in 0 .. 2^Size(r) - 1 /\ OpB(r) \in 0 .. 2^Size(r) - 1
           /\ Size(r) \in Nat \ {0} /\ Size(r) <= Width /\ Width \in Nat
           /\ 2^Size(r) \in Nat \ {0} /\ r.a \in Nat /\ r.b \in Nat /\ r.word \in BOOLEAN
<1>1. r.word \in BOOLEAN /\ r.a \in 0 .. 2^Width - 1 /\ r.b \in 0 .. 2^Width - 1
  BY DEF Requests
<1>2. 2^Width \in Nat \ {0} /\ 2^Size(r) \in Nat \ {0} /\ Size(r) \in Nat \ {0}
      /\ Size(r) <= Width /\ Width \in Nat
  BY <1>1, BitsOf DEF Size
<1>3. r.a \in Nat /\ r.b \in Nat
  BY <1>1, <1>2
<1>4. r.a % 2^Size(r) \in 0 .. 2^Size(r) - 1 /\ r.b % 2^Size(r) \in 0 .. 2^Size(r) - 1
  <2> DEFINE m == 2^Size(r)
  <2>1. m \in Nat \ {0}
    BY <1>2
  <2> HIDE DEF m
  <2>2. \A x \in Nat : x % m \in 0 .. m - 1
    BY <2>1, DivMod
  <2> QED
    BY <1>3, <2>2 DEF m
<1> QED
  BY <1>1, <1>2, <1>3, <1>4 DEF OpA, OpB, Low

\* A signed number differs from its bits by a multiple of the modulus; its
\* magnitude is the absolute value, and its sign the top bit.
LEMMA SignedNumber ==
    ASSUME NEW word \in BOOLEAN, NEW x \in 0 .. 2^Bits(word) - 1
    PROVE  LET n == Bits(word)
               s == ToSigned(x, n)
           IN  /\ s \in Int /\ s % 2^n = x
               /\ Abs(x, n) \in 0 .. 2^n - 1 /\ Abs(x, n) = Magnitude(s)
               /\ Sign(s) = IF Negative(x, n) THEN -1 ELSE 1
               /\ s = Sign(s) * Abs(x, n)
               /\ s = 0 <=> x = 0
               /\ Abs(x, n) = 0 <=> x = 0
<1> DEFINE n == Bits(word)
           m == 2^n
           h == 2^(n - 1)
           s == ToSigned(x, n)
<1>1. m \in Nat \ {0} /\ h \in Nat \ {0} /\ m = 2 * h
  BY BitsOf
<1>2. s = (IF x >= h THEN x - m ELSE x) /\ (Negative(x, n) <=> x >= h)
      /\ Abs(x, n) = (IF x >= h THEN (m - x) % m ELSE x) /\ x \in 0 .. m - 1
  BY DEF ToSigned, Negative, Abs, Neg
<1> DEFINE Fine == /\ s \in Int /\ s % m = x
                   /\ Abs(x, n) \in 0 .. m - 1 /\ Abs(x, n) = Magnitude(s)
                   /\ Sign(s) = IF Negative(x, n) THEN -1 ELSE 1
                   /\ s = Sign(s) * Abs(x, n)
                   /\ s = 0 <=> x = 0
                   /\ Abs(x, n) = 0 <=> x = 0
<1> HIDE DEF m, h, s, n
<1>3. ASSUME x >= h PROVE Fine
  <2>1. m - x \in 0 .. m - 1
    BY <1>1, <1>2, <1>3
  <2>2. Abs(x, n) = m - x /\ s = x - m /\ s < 0 /\ s \in Int
    BY <1>1, <1>2, <1>3, <2>1, ModSame
  <2>3. Sign(s) = -1 /\ Magnitude(s) = m - x
    BY <1>1, <1>2, <2>2 DEF Sign, Magnitude
  <2> DEFINE k == -1
  <2>4. s = x + m * k /\ k \in Int
    BY <1>1, <1>2, <2>2
  <2> HIDE DEF k
  <2>5. s % m = x
    <3>1. x % m = x /\ x \in Int
      BY <1>1, <1>2, ModSame
    <3>2. (x + m * k) % m = x % m
      BY <1>1, <2>4, <3>1, ModShift
    <3> QED
      BY <2>4, <3>1, <3>2
  <2>6. s = Sign(s) * (m - x)
    BY <1>1, <1>2, <2>2, <2>3
  <2> QED
    BY <1>1, <1>2, <1>3, <2>1, <2>2, <2>3, <2>5, <2>6
<1>4. ASSUME ~(x >= h) PROVE Fine
  <2>1. s = x /\ Abs(x, n) = x
    BY <1>2, <1>4
  <2>2. Sign(s) = 1 /\ Magnitude(s) = x
    BY <1>1, <1>2, <2>1 DEF Sign, Magnitude
  <2>3. s % m = x
    BY <1>1, <1>2, <2>1, ModSame
  <2> QED
    BY <1>1, <1>2, <1>4, <2>1, <2>2, <2>3
<1>5. Fine
  BY <1>3, <1>4
<1> QED
  BY <1>5, Zenon DEF Fine, n, s, m

\* The value of an instruction, one operation at a time.
LEMMA ValueOf ==
    ASSUME NEW r \in Requests
    PROVE  /\ r.op = MulOp => Value(r) = NumA(r) * NumB(r)
           /\ r.op \in DivOps => Value(r) = IF NumB(r) = 0 THEN -1 ELSE Quotient(NumA(r), NumB(r))
           /\ r.op \in RemOps =>
                 Value(r) = IF NumB(r) = 0 THEN NumA(r) ELSE Remainder(NumA(r), NumB(r))
           /\ Value(r) \in Int => Expected(r) = Widen(Value(r), r.word)
<1>1. Value(r) = CASE r.op = MulOp    -> NumA(r) * NumB(r)
                   [] r.op \in DivOps -> IF NumB(r) = 0 THEN -1 ELSE Quotient(NumA(r), NumB(r))
                   [] r.op \in RemOps -> IF NumB(r) = 0 THEN NumA(r) ELSE Remainder(NumA(r), NumB(r))
  BY Zenon DEF Value, NumA, NumB, OpA, OpB, Size
<1>2. r.word \in BOOLEAN
  BY DEF Requests
<1>3. Expected(r) = ToBits(ToSigned(ToBits(Value(r), Bits(r.word)), Bits(r.word)), Width)
  BY DEF Expected
<1>4. Value(r) \in Int => Expected(r) = Widen(Value(r), r.word)
  BY <1>2, <1>3, WidenIs
<1> HIDE DEF Value
<1>5. MulOp = "mul" /\ DivOps = {"div", "divu"} /\ RemOps = {"rem", "remu"}
  BY DEF MulOp, DivOps, RemOps
<1>6. r.op = MulOp => r.op \notin DivOps /\ r.op \notin RemOps
  BY <1>5
<1>7. r.op \in DivOps => r.op # MulOp
  BY <1>5
<1>8. r.op \in RemOps => r.op # MulOp /\ r.op \notin DivOps
  BY <1>5
<1> HIDE DEF MulOp, DivOps, RemOps
<1> QED
  BY <1>1, <1>4, <1>6, <1>7, <1>8, Zenon

\* The operands as numbers: their signs, and their magnitudes as the unit
\* takes them.
LEMMA NumbersOf ==
    ASSUME NEW r \in Requests
    PROVE  LET m == 2^Size(r) IN
           /\ NumA(r) \in Int /\ NumB(r) \in Int
           /\ NumA(r) % m = OpA(r) /\ NumB(r) % m = OpB(r)
           /\ NumB(r) = 0 <=> OpB(r) = 0
           /\ SizeA(r) \in 0 .. m - 1 /\ SizeB(r) \in 0 .. m - 1
           /\ SizeA(r) = Magnitude(NumA(r)) /\ SizeB(r) = Magnitude(NumB(r))
           /\ SizeB(r) = 0 <=> OpB(r) = 0
           /\ NumA(r) = Sign(NumA(r)) * SizeA(r) /\ NumB(r) = Sign(NumB(r)) * SizeB(r)
           /\ Sign(NumA(r)) = IF ~Unsigned(r.op) /\ Negative(OpA(r), Size(r)) THEN -1 ELSE 1
           /\ Sign(NumB(r)) = IF ~Unsigned(r.op) /\ Negative(OpB(r), Size(r)) THEN -1 ELSE 1
<1> DEFINE m == 2^Size(r)
<1>1. OpA(r) \in 0 .. m - 1 /\ OpB(r) \in 0 .. m - 1 /\ m \in Nat \ {0}
      /\ r.word \in BOOLEAN
  BY Operands
<1> DEFINE Fine(x, num, size) ==
              /\ num \in Int /\ num % m = x /\ size \in 0 .. m - 1
              /\ size = Magnitude(num) /\ num = Sign(num) * size
              /\ num = 0 <=> x = 0
              /\ size = 0 <=> x = 0
              /\ Sign(num) = IF ~Unsigned(r.op) /\ Negative(x, Size(r)) THEN -1 ELSE 1
<1>2. ASSUME NEW x \in 0 .. m - 1, Unsigned(r.op) PROVE Fine(x, x, x)
  <2>1. x \in Nat /\ Sign(x) = 1 /\ Magnitude(x) = x
    BY <1>1, <1>2 DEF Sign, Magnitude
  <2>2. x % m = x
    <3> HIDE DEF m
    <3> QED
      BY <1>1, <1>2, ModSame
  <2> HIDE DEF m
  <2> QED
    BY <1>1, <1>2, <2>1, <2>2
<1>3. ASSUME NEW x \in 0 .. m - 1, ~Unsigned(r.op)
      PROVE  Fine(x, ToSigned(x, Size(r)), Abs(x, Size(r)))
  BY <1>1, <1>3, SignedNumber DEF Size
<1>4. Fine(OpA(r), NumA(r), SizeA(r)) /\ Fine(OpB(r), NumB(r), SizeB(r))
  <2>1. CASE Unsigned(r.op)
    <3>1. NumA(r) = OpA(r) /\ SizeA(r) = OpA(r) /\ NumB(r) = OpB(r) /\ SizeB(r) = OpB(r)
      BY <2>1 DEF NumA, NumB, SizeA, SizeB
    <3> HIDE DEF Fine
    <3> QED
      BY <1>1, <1>2, <2>1, <3>1
  <2>2. CASE ~Unsigned(r.op)
    <3>1. /\ NumA(r) = ToSigned(OpA(r), Size(r)) /\ SizeA(r) = Abs(OpA(r), Size(r))
          /\ NumB(r) = ToSigned(OpB(r), Size(r)) /\ SizeB(r) = Abs(OpB(r), Size(r))
      BY <2>2 DEF NumA, NumB, SizeA, SizeB
    <3> HIDE DEF Fine
    <3> QED
      BY <1>1, <1>3, <2>2, <3>1
  <2> QED
    BY <2>1, <2>2
<1> QED
  BY <1>4, Zenon

\* The low bits of a product do not depend on the signs.
LEMMA MulExpected ==
    ASSUME NEW r \in Requests, r.op = MulOp
    PROVE  Expected(r) = Widen(OpA(r) * OpB(r), r.word)
<1> DEFINE m == 2^Size(r)
           u == NumA(r)
           v == NumB(r)
           a == OpA(r)
           b == OpB(r)
           p == u \div m
           q == v \div m
<1>1. m \in Nat \ {0} /\ a \in 0 .. m - 1 /\ b \in 0 .. m - 1 /\ r.word \in BOOLEAN
  BY Operands
<1>2. u \in Int /\ v \in Int /\ u % m = a /\ v % m = b
  BY NumbersOf
<1> HIDE DEF m, u, v, a, b
<1>3. p \in Int /\ q \in Int /\ u = m * p + a /\ v = m * q + b
  BY <1>1, <1>2, DivMod
<1> HIDE DEF p, q
<1> DEFINE k == m * p * q + p * b + a * q
<1>4. u * v = a * b + m * k /\ k \in Int /\ a * b \in Int /\ u * v \in Int
  <2>1. ASSUME NEW x \in Int, NEW y \in Int, NEW z \in Int, NEW s \in Int, NEW t \in Int
        PROVE  (x * y + s) * (x * z + t) = s * t + x * (x * y * z + y * t + s * z)
    OBVIOUS
  <2>2. a \in Int /\ b \in Int /\ m \in Int
    BY <1>1
  <2> QED
    BY <1>3, <2>1, <2>2
<1> HIDE DEF k
<1>5. (u * v) % m = (a * b) % m
  BY <1>1, <1>4, ModShift
<1>6. Widen(u * v, r.word) = Widen(a * b, r.word)
  BY <1>1, <1>5, WidenEqual DEF m, Size
<1>7. Value(r) = u * v
  BY ValueOf DEF u, v
<1> QED
  BY <1>4, <1>6, <1>7, ValueOf DEF a, b

\* Negating in the register is negating modulo the bits of the operation.
LEMMA NegIs ==
    ASSUME NEW word \in BOOLEAN, NEW x \in Nat
    PROVE  Neg(x, Width) \in Nat /\ Neg(x, Width) % 2^Bits(word) = (-x) % 2^Bits(word)
<1> DEFINE m == 2^Bits(word)
           M == 2^Width
           K == 2^(Width - Bits(word))
           y == M - x
           q == y \div M
           z == y % M
           k == K - K * q
           w == -x
<1>1. m \in Nat \ {0} /\ M \in Nat \ {0} /\ M = m * K /\ K \in Nat \ {0}
  BY BitsOf
<1>2. Neg(x, Width) = z
  BY DEF Neg
<1> HIDE DEF m, M, K
<1>3. y \in Int
  BY <1>1
<1> HIDE DEF y
<1>4. q \in Int /\ z \in 0 .. M - 1 /\ y = M * q + z
  BY <1>1, <1>3, DivMod
<1> HIDE DEF q, z
<1>5. k \in Int /\ w \in Int
  BY <1>1, <1>4
<1>6. z = w + m * k
  <2>1. z = -x + M - M * q
    BY <1>1, <1>4 DEF y
  <2>2. M - M * q = m * (K - K * q)
    BY <1>1, <1>4
  <2>3. -x \in Int /\ M - M * q \in Int
    BY <1>1, <1>4
  <2> QED
    BY <2>1, <2>2, <2>3, <1>1, <1>4
<1> HIDE DEF k, w
<1>7. (w + m * k) % m = w % m
  BY <1>1, <1>5, ModShift
<1>8. z % m = w % m
  BY <1>6, <1>7
<1> QED
  BY <1>1, <1>2, <1>4, <1>8 DEF w, m

\* A division that is carried out offers its quotient or its remainder with
\* the sign the operands give it.
LEMMA DivExpected ==
    ASSUME NEW r \in Requests, r.op # MulOp, OpB(r) # 0
    PROVE  LET quo == SizeA(r) \div SizeB(r)
               rem == SizeA(r) % SizeB(r)
               Turned(x, neg) == IF neg THEN Neg(x, Width) ELSE x
           IN  /\ r.op \in DivOps => Expected(r) =
                    Widen(Turned(quo, Sign(NumA(r)) # Sign(NumB(r))), r.word)
               /\ r.op \in RemOps => Expected(r) = Widen(Turned(rem, Sign(NumA(r)) = -1), r.word)
<1> DEFINE u == NumA(r)
           v == NumB(r)
           su == Sign(u)
           sv == Sign(v)
           a == SizeA(r)
           b == SizeB(r)
           quo == a \div b
           rem == a % b
           m == 2^Bits(r.word)
<1>1. a = Magnitude(u) /\ b = Magnitude(v) /\ u = su * a /\ v = sv * b /\ v # 0
      /\ a \in Nat /\ b \in Nat \ {0} /\ su \in {-1, 1} /\ sv \in {-1, 1} /\ u \in Int
  <2>1. 2^Size(r) \in Nat
    BY Operands
  <2> QED
    BY <2>1, NumbersOf DEF Sign
<1>2. r.word \in BOOLEAN
  BY DEF Requests
<1>3. r.op \in DivOps => Value(r) = Quotient(u, v)
  BY <1>1, ValueOf
<1>4. r.op \in RemOps => Value(r) = Remainder(u, v)
  BY <1>1, ValueOf
<1>5. Quotient(u, v) = su * sv * quo /\ Remainder(u, v) = u - v * (su * sv * quo)
  <2> HIDE DEF u, v
  <2> QED
    BY <1>1 DEF Quotient, Remainder
<1> HIDE DEF u, v, su, sv, a, b
<1>6. quo \in Int /\ rem \in Nat /\ a = b * quo + rem /\ quo >= 0
  <2>0. a \in Int /\ b \in Nat \ {0}
    BY <1>1
  <2>1. quo \in Int /\ rem \in 0 .. b - 1 /\ a = b * quo + rem
    BY <2>0, DivMod
  <2> HIDE DEF quo, rem
  <2>2. ASSUME quo <= -1 PROVE FALSE
    <3>1. b * quo <= -b
      BY <1>1, <2>1, <2>2
    <3> QED
      BY <1>1, <2>1, <3>1
  <2> QED
    BY <1>1, <2>1, <2>2
<1> HIDE DEF quo, rem
<1>7. Quotient(u, v) = IF su # sv THEN -quo ELSE quo
  BY <1>1, <1>5, <1>6
<1>8. Remainder(u, v) = IF su = -1 THEN -rem ELSE rem
  <2>1. sv * sv = 1
    BY <1>1
  <2> DEFINE p == b * quo
  <2>2. v * (su * sv * quo) = su * p
    <3>1. CASE su = 1 /\ sv = 1
      BY <1>1, <1>6, <3>1
    <3>2. CASE su = 1 /\ sv = -1
      BY <1>1, <1>6, <3>2
    <3>3. CASE su = -1 /\ sv = 1
      BY <1>1, <1>6, <3>3
    <3>4. CASE su = -1 /\ sv = -1
      BY <1>1, <1>6, <3>4
    <3> QED
      BY <1>1, <3>1, <3>2, <3>3, <3>4
  <2>3. p \in Int
    BY <1>1, <1>6
  <2>4. a = p + rem
    BY <1>6
  <2> HIDE DEF p
  <2>5. Remainder(u, v) = su * a - su * p
    BY <1>1, <1>5, <2>2
  <2>6. a - p = rem /\ p - a = -rem
    BY <1>6, <2>3, <2>4
  <2>7. su = 1 => Remainder(u, v) = a - p
    BY <1>1, <2>3, <2>5
  <2>8. su = -1 => Remainder(u, v) = p - a
    BY <1>1, <2>3, <2>5
  <2> QED
    BY <1>1, <2>6, <2>7, <2>8
<1>9. ASSUME NEW x \in Nat
      PROVE  -x \in Int /\ Widen(-x, r.word) = Widen(Neg(x, Width), r.word)
  <2>1. Neg(x, Width) % m = (-x) % m
    BY <1>2, NegIs
  <2> HIDE DEF m
  <2>2. -x \in Int
    OBVIOUS
  <2> DEFINE w == -x
  <2> HIDE DEF w
  <2>3. Widen(w, r.word) = Widen(Neg(x, Width), r.word)
    BY <1>2, <2>1, WidenEqual DEF m, w
  <2> QED
    BY <2>2, <2>3 DEF w
<1>10. ASSUME NEW x \in Nat, NEW neg \in BOOLEAN, Value(r) = IF neg THEN -x ELSE x
       PROVE  Expected(r) = Widen(IF neg THEN Neg(x, Width) ELSE x, r.word)
  <2>1. CASE neg
    BY <1>9, <1>10, <2>1, ValueOf
  <2>2. CASE ~neg
    BY <1>10, <2>2, ValueOf
  <2> QED
    BY <2>1, <2>2
<1>11. r.op \in DivOps => Expected(r) = Widen(IF su # sv THEN Neg(quo, Width) ELSE quo, r.word)
  <2>1. quo \in Nat /\ (su # sv) \in BOOLEAN
    BY <1>6
  <2> QED
    BY <1>3, <1>7, <1>10, <2>1
<1>12. r.op \in RemOps => Expected(r) = Widen(IF su = -1 THEN Neg(rem, Width) ELSE rem, r.word)
  <2>1. (su = -1) \in BOOLEAN
    OBVIOUS
  <2> QED
    BY <1>4, <1>6, <1>8, <1>10, <2>1
<1> QED
  BY <1>11, <1>12, Zenon DEF quo, rem, su, sv, u, v, a, b
-----------------------------------------------------------------------------
\* The job of an operation is a request that was offered.
JobAsked == state # "IDLE" => job \in Requests

\* A multiplication adds up the shifted operand: the registers are wide
\* enough for what is still to come.
MulHolds ==
    state = "MUL" =>
        /\ job.op = MulOp
        /\ cnt \in 0 .. Size(job) - 1
        /\ product \in Nat
        /\ multiplicand = OpA(job) * 2^cnt
        /\ multiplier \in 0 .. 2^(Size(job) - cnt) - 1
        /\ product + multiplicand * multiplier = OpA(job) * OpB(job)

\* A division has as many bits of the quotient as it has counted.
DivHolds ==
    state = "DIV" =>
        /\ job.op # MulOp /\ OpB(job) # 0
        /\ cnt \in 0 .. Size(job) - 1
        /\ divisor = SizeB(job)
        /\ negated = [q |-> Sign(NumA(job)) # Sign(NumB(job)), r |-> Sign(NumA(job)) = -1]
        /\ quotient \in 0 .. 2^cnt - 1
        /\ remainder \in 0 .. divisor - 1
        /\ SizeA(job) \div 2^(Size(job) - cnt) = quotient * divisor + remainder
        /\ dividend = Low(SizeA(job), Size(job) - cnt) * 2^(cnt + Width - Size(job))

MdIInv == JobAsked /\ MulHolds /\ DivHolds /\ ResultCorrect
-----------------------------------------------------------------------------
\* Smaller factors have a smaller product.
LEMMA TimesMonotone ==
    ASSUME NEW x \in Nat, NEW y \in Nat, NEW k \in Nat, x <= y
    PROVE  x * k <= y * k /\ x * k \in Nat /\ y * k \in Nat
<1>1. PICK d \in Nat : y = x + d
  <2>1. y - x \in Nat /\ y = x + (y - x)
    OBVIOUS
  <2> QED
    BY <2>1
<1>2. y * k = x * k + d * k /\ d * k \in Nat /\ x * k \in Nat
  BY <1>1
<1> QED
  BY <1>2

\* The register of a division holds what is left of U above K zeros: its top
\* bit is the next bit of U, whatever the bits still to come (Q) are.
TopBitIsNext(U, Q, K) ==
    LET H == Q * K
        D == (U % (2 * Q)) * K
    IN  /\ D \div H \in {0, 1}
        /\ U \div Q = 2 * (U \div (2 * Q)) + (D \div H)
        /\ (D * 2) % (2 * H) = (U % Q) * (2 * K)

LEMMA NextBit ==
    ASSUME NEW U \in Nat, NEW Q \in Nat \ {0}, NEW K \in Nat \ {0}
    PROVE  TopBitIsNext(U, Q, K)
<1> DEFINE H == Q * K
           M == 2 * H
           D == (U % (2 * Q)) * K
           P == 2 * Q
           h == U \div P
           l == U % P
           b == l \div Q
           t == l % Q
<1>1. P \in Nat \ {0} /\ U \in Int
  OBVIOUS
<1> HIDE DEF P
<1>2. h \in Int /\ l \in 0 .. P - 1 /\ U = P * h + l
  BY <1>1, DivMod
<1> HIDE DEF h, l
<1>3. l \in Int /\ l >= 0 /\ l < 2 * Q
  BY <1>1, <1>2 DEF P
<1>4. b \in Int /\ t \in 0 .. Q - 1 /\ l = Q * b + t
  BY <1>3, DivMod
<1> HIDE DEF b, t
<1>5. b \in {0, 1}
  <2>1. ASSUME b >= 2 PROVE FALSE
    <3>1. Q * b >= Q * 2
      BY <1>4, <2>1, TimesMonotone
    <3> QED
      BY <1>3, <1>4, <3>1
  <2>2. ASSUME b <= -1 PROVE FALSE
    <3>1. -b \in Nat /\ 1 <= -b
      BY <1>4, <2>2
    <3>2. 1 * Q <= (-b) * Q
      BY <3>1, TimesMonotone
    <3>3. (-b) * Q = -(Q * b)
      BY <1>4
    <3> QED
      BY <1>3, <1>4, <3>2, <3>3
  <2> QED
    BY <1>4, <2>1, <2>2
<1>6. H \in Nat \ {0} /\ M \in Nat \ {0} /\ M = 2 * H
  OBVIOUS
<1>7. t * K \in 0 .. H - 1
  <2>1. t <= Q - 1 /\ t \in Nat /\ Q - 1 \in Nat
    BY <1>4
  <2>2. t * K <= (Q - 1) * K /\ t * K \in Nat
    BY <2>1, TimesMonotone
  <2>3. (Q - 1) * K = H - K
    OBVIOUS
  <2> QED
    BY <1>6, <2>2, <2>3
<1>8. D = H * b + t * K
  BY <1>4, <1>5 DEF l, P
<1> HIDE DEF D, H, M
<1>9. D \div H = b
  <2>1. D \in Int
    BY <1>5, <1>6, <1>7, <1>8
  <2> QED
    BY <1>5, <1>6, <1>7, <1>8, <2>1, DivModUnique
<1>10. U \div Q = 2 * h + b /\ U % Q = t
  <2>1. U = Q * (2 * h + b) + t
    BY <1>2, <1>4, <1>5 DEF P
  <2>2. 2 * h + b \in Int /\ U \in Int
    BY <1>2, <1>5
  <2> QED
    BY <1>4, <2>1, <2>2, DivModUnique
<1>11. (D * 2) % M = t * (2 * K)
  <2> DEFINE w == t * (2 * K)
  <2>1. w = 2 * (t * K)
    BY <1>4
  <2>2. D * 2 = M * b + w
    BY <1>5, <1>6, <1>7, <1>8, <2>1
  <2>3. w \in 0 .. M - 1 /\ D * 2 \in Int
    BY <1>5, <1>6, <1>7, <1>8, <2>1
  <2> DEFINE v == D * 2
  <2>4. v = M * b + w /\ v \in Int /\ w \in 0 .. M - 1
    BY <2>2, <2>3
  <2>5. b \in Int /\ M \in Nat \ {0}
    BY <1>5, <1>6
  <2> HIDE DEF w, v
  <2>6. v % M = w
    BY <2>4, <2>5, DivModUnique, Zenon
  <2> QED
    BY <2>6 DEF w, v
<1>12. /\ D \div H \in {0, 1}
       /\ U \div Q = 2 * (U \div (2 * Q)) + (D \div H)
       /\ (D * 2) % M = (U % Q) * (2 * K)
  BY <1>5, <1>9, <1>10, <1>11 DEF h, P
<1> QED
  BY <1>12, Zenon DEF TopBitIsNext, M, H, D

\* Adding the multiplicand for the lowest bit of the multiplier, then doubling
\* the one and halving the other, keeps the sum.
LEMMA NextPartial ==
    ASSUME NEW p \in Nat, NEW c \in Nat, NEW m \in Nat
    PROVE  LET step == p + (IF m % 2 = 1 THEN c ELSE 0) IN
           /\ step \in Nat /\ m \div 2 \in Nat
           /\ step + (c * 2) * (m \div 2) = p + c * m
           /\ step <= p + c * m
           /\ \A Q \in Nat : m < 2 * Q => m \div 2 < Q
<1> DEFINE q == m \div 2
           b == m % 2
<1>1. q \in Nat /\ b \in {0, 1} /\ m = 2 * q + b
  OBVIOUS
<1> HIDE DEF q, b
<1>2. (c * 2) * q = 2 * (c * q) /\ c * q \in Nat
  BY <1>1
<1>3. c * m = 2 * (c * q) + c * b
  BY <1>1
<1>4. c * b = IF b = 1 THEN c ELSE 0
  BY <1>1
<1> QED
  BY <1>1, <1>2, <1>3, <1>4 DEF q, b
-----------------------------------------------------------------------------
\* What a multiplication sums up fits the register of twice the width.
LEMMA ProductFits ==
    ASSUME NEW x \in Nat, NEW y \in Nat, x < 2^Width, y <= 2^Width
    PROVE  x * y \in 0 .. 2^(2 * Width) - 1
<1> DEFINE W == 2^Width
<1>1. Width \in Nat /\ Width \in 0 .. 2 * Width
  BY HalfAssumption DEF Width
<1>2. W \in Nat \ {0}
  BY <1>1, Power
<1>3. 2^(2 * Width) = W * W
  <2>1. Width + Width <= 2 * Width /\ Width + Width = 2 * Width
    BY <1>1
  <2> QED
    BY <1>1, <2>1, PowerSum
<1> HIDE DEF W
<1>4. x <= W - 1 /\ W - 1 \in Nat /\ y <= W
  BY <1>2 DEF W
<1>5. x * y <= (W - 1) * y /\ y * (W - 1) <= W * (W - 1) /\ x * y \in Nat
  BY <1>2, <1>4, TimesMonotone
<1>6. (W - 1) * y = y * (W - 1) /\ W * (W - 1) = W * W - W /\ W * W \in Nat
  BY <1>2
<1> QED
  BY <1>2, <1>3, <1>5, <1>6

\* One bit of a multiplication, the last one offering the product.
LEMMA MultiplyStep == MdIInv /\ Multiply => MdIInv'
<1> SUFFICES ASSUME MdIInv, Multiply PROVE MdIInv'
  OBVIOUS
<1> DEFINE n == Size(job)
           A == OpA(job)
           B == OpB(job)
           R == 2^(2 * Width)
           step == product + (IF multiplier % 2 = 1 THEN multiplicand ELSE 0)
           half == multiplier \div 2
           P == 2^cnt
           Q == 2^(n - cnt - 1)
<1>1. job \in Requests /\ state = "MUL" /\ job.op = MulOp /\ cnt \in 0 .. n - 1 /\ product \in Nat
      /\ multiplicand = A * P /\ multiplier \in 0 .. 2^(n - cnt) - 1
      /\ product + multiplicand * multiplier = A * B
  BY DEF MdIInv, JobAsked, MulHolds, Multiply
<1>2. /\ product' = Low(step, 2 * Width) /\ multiplicand' = Low(multiplicand * 2, 2 * Width)
      /\ multiplier' = half /\ cnt' = (cnt + 1) % (2 * Width) /\ job' = job
  BY DEF Multiply, Count
<1>3. \/ cnt = n - 1 /\ result' = Widen(product', job.word) /\ state' = "DONE"
      \/ cnt # n - 1 /\ state' = "MUL"
  <2>1. LastBit <=> cnt = n - 1
    BY DEF LastBit, Size
  <2>2. \/ LastBit /\ result' = Widen(Low(step, 2 * Width), job.word) /\ state' = "DONE"
        \/ ~LastBit /\ UNCHANGED <<result, state>>
    BY Zenon DEF Multiply
  <2>3. product' = Low(step, 2 * Width) /\ state = "MUL"
    BY <1>1, <1>2
  <2> HIDE DEF n, step
  <2> QED
    BY <2>1, <2>2, <2>3
<1>4. /\ A \in Nat /\ B \in Nat /\ n \in Nat \ {0} /\ n <= Width /\ Width \in Nat
      /\ A < 2^Width /\ B < 2^Width /\ 2^n <= 2^Width /\ 2^Width \in Nat
  <2>1. /\ A \in 0 .. 2^n - 1 /\ B \in 0 .. 2^n - 1 /\ job.word \in BOOLEAN
        /\ n \in Nat \ {0} /\ n <= Width /\ Width \in Nat /\ 2^n \in Nat \ {0}
    BY <1>1, Operands
  <2>2. 2^n <= 2^Width /\ 2^Width \in Nat
    BY <2>1, BitsOf DEF Size
  <2> QED
    BY <2>1, <2>2
<1>5. A * B \in 0 .. R - 1 /\ R \in Nat \ {0}
  <2>1. 2 * Width \in 0 .. 2 * Width /\ B <= 2^Width
    BY <1>4
  <2>2. A * B \in 0 .. R - 1
    BY <1>4, <2>1, ProductFits
  <2>3. R \in Nat \ {0}
    BY <2>1, Power
  <2> QED
    BY <2>2, <2>3
<1>6. /\ cnt + 1 \in Nat /\ n - cnt - 1 \in Nat /\ cnt \in Nat /\ n - cnt = n - cnt - 1 + 1
      /\ n - (cnt + 1) = n - cnt - 1 /\ n - cnt - 1 + 1 <= 2 * Width /\ cnt + 1 <= 2 * Width
      /\ cnt \in 0 .. 2 * Width /\ n - cnt - 1 \in 0 .. 2 * Width
      /\ cnt + 1 \in 0 .. 2 * Width - 1 /\ cnt + 1 <= n /\ n <= 2 * Width
  BY <1>1, <1>4
<1>7. cnt' = cnt + 1
  <2>1. 2 * Width \in Nat \ {0}
    BY <1>4
  <2> QED
    BY <1>2, <1>6, <2>1, ModSame
<1>8. 2^(n - cnt) = 2 * Q /\ 2^(cnt + 1) = 2 * P /\ P \in Nat \ {0} /\ Q \in Nat \ {0}
  BY <1>6, PowerNext, Power
<1>9. 2 * P <= 2^n
  BY <1>4, <1>6, <1>8, PowerMonotone
<1>10. cnt = n - 1 => Q = 1
  <2>1. 2^0 = 1
    OBVIOUS
  <2>2. cnt = n - 1 => n - cnt - 1 = 0
    BY <1>4
  <2> QED
    BY <2>1, <2>2
<1> HIDE DEF n, A, B, R, P, Q
<1>11. multiplicand \in Nat /\ multiplier \in Nat /\ multiplier < 2 * Q
  <2>1. multiplicand \in Nat
    BY <1>1, <1>4, <1>8
  <2>2. multiplier \in 0 .. 2 * Q - 1
    BY <1>1, <1>8
  <2> QED
    BY <1>8, <2>1, <2>2
<1>12. /\ step \in Nat /\ half \in Nat /\ half < Q
       /\ step + (multiplicand * 2) * half = A * B
       /\ step <= A * B
  <2>1. /\ step \in Nat /\ half \in Nat
        /\ step + (multiplicand * 2) * half = product + multiplicand * multiplier
        /\ step <= product + multiplicand * multiplier
        /\ \A q \in Nat : multiplier < 2 * q => half < q
    BY <1>1, <1>11, NextPartial, Zenon
  <2> HIDE DEF step, half
  <2>2. Q \in Nat
    BY <1>8
  <2> QED
    BY <1>1, <1>11, <2>1, <2>2
<1> HIDE DEF step, half
<1>13. product' = step
  <2>1. step \in 0 .. R - 1
    BY <1>5, <1>12
  <2> QED
    BY <1>2, <1>5, <2>1, ModSame DEF Low, R
<1>14. multiplicand' = multiplicand * 2 /\ multiplicand * 2 = A * (2 * P)
  <2>1. multiplicand * 2 = A * (2 * P)
    BY <1>1, <1>4, <1>8
  <2>2. 2 * P \in Nat /\ 2 * P <= 2^Width
    BY <1>4, <1>8, <1>9, BitsOf, Operands, <1>1 DEF n
  <2>3. A * (2 * P) \in 0 .. R - 1
    BY <1>4, <2>2, ProductFits DEF R
  <2> QED
    BY <1>2, <1>5, <2>1, <2>3, ModSame DEF Low, R
<1>15. CASE cnt # n - 1
  <2>1. state' = "MUL" /\ cnt + 1 \in 0 .. n - 1
    BY <1>1, <1>3, <1>4, <1>15
  <2>2. half \in 0 .. 2^(n - (cnt + 1)) - 1
    BY <1>6, <1>8, <1>12 DEF Q
  <2>3. MulHolds'
    <3>1. multiplicand' = A * 2^(cnt + 1)
      BY <1>8, <1>14
    <3> QED
      BY <1>1, <1>2, <1>7, <1>12, <1>13, <1>14, <2>1, <2>2, <3>1 DEF MulHolds, n, A, B
  <2> QED
    BY <1>1, <1>2, <2>1, <2>3 DEF MdIInv, JobAsked, DivHolds, ResultCorrect
<1>16. CASE cnt = n - 1
  <2>1. state' = "DONE" /\ result' = Widen(step, job.word)
    BY <1>3, <1>13, <1>16
  <2>2. half = 0
    BY <1>10, <1>12, <1>16
  <2>3. step = A * B
    BY <1>11, <1>12, <2>2
  <2>4. result' = Expected(job')
    BY <1>1, <1>2, <2>1, <2>3, MulExpected DEF A, B
  <2> QED
    BY <1>1, <1>2, <2>1, <2>4 DEF MdIInv, JobAsked, MulHolds, DivHolds, ResultCorrect
<1> QED
  BY <1>15, <1>16

\* One bit of a division, the last one offering the quotient or remainder.
LEMMA DivideStep == MdIInv /\ Divide => MdIInv'
<1> SUFFICES ASSUME MdIInv, Divide PROVE MdIInv'
  OBVIOUS
<1> DEFINE n == Size(job)
           U == SizeA(job)
           j == n - cnt - 1
           e == cnt + Width - n
           Q == 2^j
           K == 2^e
           H == 2^(Width - 1)
           M == 2^Width
           T == 2^cnt
           shifted == Low(remainder, Width) * 2 + dividend \div H
           rem == IF Subtracts(shifted) THEN shifted - divisor ELSE shifted
           quo == Low(quotient * 2, Width) + (IF Subtracts(shifted) THEN 1 ELSE 0)
<1>1. /\ job \in Requests /\ state = "DIV" /\ job.op # MulOp /\ OpB(job) # 0
      /\ cnt \in 0 .. n - 1 /\ divisor = SizeB(job)
      /\ negated = [q |-> Sign(NumA(job)) # Sign(NumB(job)), r |-> Sign(NumA(job)) = -1]
      /\ quotient \in 0 .. T - 1 /\ remainder \in 0 .. divisor - 1
      /\ U \div 2^(n - cnt) = quotient * divisor + remainder
      /\ dividend = Low(U, n - cnt) * K
  BY DEF MdIInv, JobAsked, DivHolds, Divide
<1>2. /\ remainder' = rem /\ quotient' = quo /\ dividend' = Low(dividend * 2, Width)
      /\ cnt' = (cnt + 1) % (2 * Width)
      /\ job' = job /\ divisor' = divisor /\ negated' = negated
  BY DEF Divide, Count
<1>3. \/ cnt = n - 1 /\ result' = Widen(Signed(quo, rem), job.word) /\ state' = "DONE"
      \/ cnt # n - 1 /\ state' = "DIV"
  <2>1. LastBit <=> cnt = n - 1
    BY DEF LastBit, Size
  <2>2. \/ LastBit /\ result' = Widen(Signed(quo, rem), job.word) /\ state' = "DONE"
        \/ ~LastBit /\ UNCHANGED <<result, state>>
    BY Zenon DEF Divide
  <2>3. state = "DIV"
    BY <1>1
  <2> HIDE DEF n, quo, rem
  <2> QED
    BY <2>1, <2>2, <2>3
<1>4. /\ U \in 0 .. M - 1 /\ divisor \in 1 .. M - 1 /\ n \in Nat \ {0} /\ n <= Width
      /\ Width \in Nat /\ 2^n <= M /\ M \in Nat \ {0} /\ U \in 0 .. 2^n - 1
  <2>1. /\ n \in Nat \ {0} /\ n <= Width /\ Width \in Nat /\ 2^n \in Nat \ {0}
        /\ job.word \in BOOLEAN
    BY <1>1, Operands
  <2>2. 2^n <= M /\ M \in Nat \ {0}
    BY <2>1, BitsOf DEF Size
  <2>3. U \in 0 .. 2^n - 1 /\ divisor \in 0 .. 2^n - 1 /\ divisor # 0
    BY <1>1, NumbersOf
  <2> QED
    BY <2>1, <2>2, <2>3
<1>5. /\ cnt \in Nat /\ j \in Nat /\ e \in Nat /\ n - cnt = j + 1 /\ j + 1 <= 2 * Width
      /\ cnt + 1 <= 2 * Width /\ cnt + 1 <= n /\ n <= 2 * Width /\ n \in Nat
      /\ j \in 0 .. 2 * Width /\ e \in 0 .. 2 * Width /\ Width - 1 \in 0 .. 2 * Width
      /\ j + e = Width - 1 /\ e + 1 = cnt + 1 + Width - n /\ e + 1 <= 2 * Width
      /\ cnt + 1 \in 0 .. 2 * Width - 1 /\ Width - 1 \in Nat /\ Width - 1 + 1 = Width
      /\ cnt + 1 \in Nat /\ n - (cnt + 1) = j /\ cnt \in 0 .. 2 * Width /\ j + e <= 2 * Width
      /\ Width - 1 + 1 <= 2 * Width
  <2>1. cnt \in 0 .. n - 1 /\ n \in Nat \ {0} /\ n <= Width /\ Width \in Nat
    BY <1>1, <1>4
  <2> HIDE DEF n
  <2> QED
    BY <2>1
<1>6. cnt' = cnt + 1
  <2>1. 2 * Width \in Nat \ {0}
    BY <1>4
  <2> QED
    BY <1>2, <1>5, <2>1, ModSame
<1>7. /\ Q \in Nat \ {0} /\ K \in Nat \ {0} /\ T \in Nat \ {0}
      /\ 2^(n - cnt) = 2 * Q /\ 2^(cnt + 1) = 2 * T /\ 2^(e + 1) = 2 * K
  BY <1>5, Power, PowerNext
<1>8. H = Q * K
  BY <1>5, PowerSum
<1>9. M = 2 * H
  BY <1>5, PowerNext
<1>10. 2 * T <= M
  <2>1. 2 * T <= 2^n
    BY <1>5, <1>7, PowerMonotone
  <2>2. 2^n \in Nat
    BY <1>1, Operands
  <2> QED
    BY <1>4, <1>7, <2>1, <2>2
<1>11. cnt = n - 1 => Q = 1
  <2>1. 2^0 = 1
    OBVIOUS
  <2>2. cnt = n - 1 => j = 0
    BY <1>4
  <2> QED
    BY <2>1, <2>2
<1> HIDE DEF U, K, H, M, T
<1>12. dividend = (U % (2 * Q)) * K /\ U \div (2 * Q) = quotient * divisor + remainder
  BY <1>1, <1>7 DEF Low
<1>13. /\ dividend \div H \in {0, 1}
       /\ U \div Q = 2 * (U \div (2 * Q)) + (dividend \div H)
       /\ (dividend * 2) % M = (U % Q) * (2 * K)
  <2> HIDE DEF Q
  <2>1. U \in Nat /\ Q \in Nat \ {0} /\ K \in Nat \ {0}
    BY <1>4, <1>7
  <2>2. H = Q * K /\ M = 2 * H /\ dividend = (U % (2 * Q)) * K
    BY <1>8, <1>9, <1>12
  <2>3. TopBitIsNext(U, Q, K)
    BY <2>1, NextBit
  <2> QED
    BY <2>2, <2>3, Zenon DEF TopBitIsNext
<1> HIDE DEF n, j, e, Q
<1> DEFINE bit == dividend \div H
<1> HIDE DEF bit
<1>14. Low(remainder, Width) = remainder /\ Low(quotient * 2, Width) = quotient * 2
       /\ remainder \in Nat /\ quotient \in Nat
  <2>1. remainder \in 0 .. M - 1 /\ quotient * 2 \in 0 .. M - 1 /\ quotient \in Nat
    BY <1>1, <1>4, <1>7, <1>10
  <2> QED
    BY <1>4, <2>1, ModSame DEF Low, M
<1>15. /\ shifted = remainder * 2 + bit
       /\ rem = (IF shifted >= divisor THEN shifted - divisor ELSE shifted)
       /\ quo = quotient * 2 + (IF shifted >= divisor THEN 1 ELSE 0)
  BY <1>14 DEF Subtracts, bit
<1> HIDE DEF shifted, rem, quo
<1>16. bit \in {0, 1} /\ U \div Q = 2 * (quotient * divisor + remainder) + bit
  BY <1>12, <1>13 DEF bit
<1>17. rem \in 0 .. divisor - 1 /\ quo \in 0 .. 2 * T - 1 /\ U \div Q = quo * divisor + rem
  <2>1. shifted \in Nat /\ shifted < 2 * divisor
    BY <1>1, <1>4, <1>14, <1>15, <1>16
  <2>2. rem \in 0 .. divisor - 1 /\ quo \in 0 .. 2 * T - 1
    BY <1>1, <1>4, <1>7, <1>15, <2>1
  <2> DEFINE p == quotient * divisor
  <2>3. p \in Nat /\ (quotient * 2) * divisor = 2 * p
        /\ (quotient * 2 + 1) * divisor = 2 * p + divisor
    BY <1>1, <1>4, <1>7
  <2> HIDE DEF p
  <2>4. U \div Q = 2 * p + shifted
    BY <1>14, <1>15, <1>16, <2>3 DEF p
  <2>5. shifted >= divisor => quo * divisor + rem = 2 * p + shifted
    BY <1>4, <1>14, <1>15, <2>1, <2>3
  <2>6. ~(shifted >= divisor) => quo * divisor + rem = 2 * p + shifted
    BY <1>4, <1>14, <1>15, <2>1, <2>3
  <2> QED
    BY <2>2, <2>4, <2>5, <2>6
<1>18. CASE cnt # n - 1
  <2>1. state' = "DIV" /\ cnt + 1 \in 0 .. n - 1
    BY <1>1, <1>3, <1>4, <1>18
  <2>2. dividend' = Low(U, n - (cnt + 1)) * 2^((cnt + 1) + Width - n)
    BY <1>2, <1>5, <1>7, <1>13 DEF Low, M, Q
  <2>3. U \div 2^(n - (cnt + 1)) = quo * divisor + rem
    BY <1>5, <1>17 DEF Q
  <2>4. quo \in 0 .. 2^(cnt + 1) - 1
    BY <1>7, <1>17
  <2>5. DivHolds'
    BY <1>1, <1>2, <1>6, <1>17, <2>1, <2>2, <2>3, <2>4 DEF DivHolds, n, U
  <2> QED
    BY <1>1, <1>2, <2>1, <2>5 DEF MdIInv, JobAsked, MulHolds, ResultCorrect
<1>19. CASE cnt = n - 1
  <2>1. state' = "DONE" /\ result' = Widen(Signed(quo, rem), job.word)
    BY <1>3, <1>19
  <2>2. U = divisor * quo + rem
    <3>1. U \div 1 = U
      BY <1>4
    <3>2. quo * divisor = divisor * quo
      BY <1>4, <1>7, <1>17
    <3> QED
      BY <1>11, <1>17, <1>19, <3>1, <3>2
  <2>3. U \div divisor = quo /\ U % divisor = rem
    <3>1. U \in Int /\ divisor \in Nat \ {0} /\ quo \in Int
      BY <1>4, <1>7, <1>17
    <3> QED
      BY <1>17, <2>2, <3>1, DivModUnique
  <2>4. Low(rem, Width) = rem
    <3>1. rem \in 0 .. M - 1
      BY <1>4, <1>17
    <3> QED
      BY <1>4, <3>1, ModSame DEF Low, M
  <2>5. Signed(quo, rem) = IF job.op \in RemOps
                           THEN IF Sign(NumA(job)) = -1 THEN Neg(rem, Width) ELSE rem
                           ELSE IF Sign(NumA(job)) # Sign(NumB(job)) THEN Neg(quo, Width) ELSE quo
    BY <1>1, <2>4 DEF Signed
  <2>6. \/ job.op \in DivOps /\ job.op \notin RemOps
        \/ job.op \in RemOps
    BY <1>1 DEF Requests, MulOp, DivOps, RemOps
  <2>7. /\ job.op \in DivOps => Expected(job) = Widen(
              IF Sign(NumA(job)) # Sign(NumB(job)) THEN Neg(quo, Width) ELSE quo, job.word)
        /\ job.op \in RemOps => Expected(job) = Widen(
              IF Sign(NumA(job)) = -1 THEN Neg(rem, Width) ELSE rem, job.word)
    BY <1>1, <2>3, DivExpected, Zenon DEF U
  <2>8. Expected(job) = Widen(Signed(quo, rem), job.word)
    BY <2>5, <2>6, <2>7
  <2>9. result' = Expected(job')
    BY <1>2, <2>1, <2>8
  <2> QED
    BY <1>1, <1>2, <2>1, <2>9 DEF MdIInv, JobAsked, MulHolds, DivHolds, ResultCorrect
<1> QED
  BY <1>18, <1>19

\* A zero divisor gives all ones, or the dividend.
LEMMA ZeroDivisor ==
    ASSUME NEW r \in Requests, OpB(r) = 0
    PROVE  /\ r.op \in DivOps => Expected(r) = 2^Width - 1
           /\ r.op \in RemOps => Expected(r) = Widen(r.a, r.word)
<1> DEFINE m == 2^Bits(r.word)
           M == 2^Width
           h == 2^(Bits(r.word) - 1)
           u == NumA(r)
           k == -1
<1>1. /\ m \in Nat \ {0} /\ M \in Nat \ {0} /\ h \in Nat \ {0} /\ m = 2 * h /\ m <= M
      /\ r.word \in BOOLEAN /\ r.a \in Nat
  <2>1. r.word \in BOOLEAN /\ r.a \in Nat
    BY Operands
  <2> QED
    BY <2>1, BitsOf
<1>2. NumB(r) = 0 /\ u \in Int /\ u % m = OpA(r)
  BY NumbersOf DEF Size
<1>3. u % m = r.a % m
  BY <1>2 DEF OpA, Low, Size
<1>4. r.op \in RemOps => Value(r) = u
  BY <1>2, ValueOf
<1>5. r.op \in DivOps => Value(r) = k
  BY <1>2, ValueOf
<1>6. /\ r.word => Widen(k, r.word) = IF k % m >= h THEN (k % m) + M - m ELSE k % m
      /\ ~r.word => Widen(k, r.word) = k % M /\ m = M
  BY DEF Widen, SignExtend, Low, Negative, Bits
<1>7. k \in Int /\ r.word \in BOOLEAN
  BY <1>1
<1> DEFINE last == m - 1
<1>8. k = m * k + last /\ last \in 0 .. m - 1 /\ last >= h /\ last \in Int
  <2> HIDE DEF m, M, h
  <2> QED
    BY <1>1
<1> HIDE DEF m, M, h, u, k, last
<1>9. k % m = last
  BY <1>1, <1>7, <1>8, DivModUnique
<1>10. Widen(k, r.word) = M - 1
  <2>1. last + M - m = M - 1
    BY <1>1, <1>8 DEF last
  <2> QED
    BY <1>1, <1>6, <1>8, <1>9, <2>1 DEF last
<1>11. Widen(u, r.word) = Widen(r.a, r.word)
  BY <1>1, <1>3, WidenEqual DEF m
<1> QED
  BY <1>2, <1>4, <1>5, <1>7, <1>10, <1>11, ValueOf DEF M

\* The one overflow: dividing the most negative number by -1 gives it back,
\* and leaves nothing.
LEMMA OverflowOf ==
    ASSUME NEW r \in Requests, r.op # MulOp, ~Unsigned(r.op), Overflows(r, Bits(r.word))
    PROVE  /\ OpB(r) # 0
           /\ r.op \in DivOps => Expected(r) = Widen(2^(Bits(r.word) - 1), r.word)
           /\ r.op \in RemOps => Expected(r) = 0
<1> DEFINE n == Bits(r.word)
           m == 2^n
           h == 2^(n - 1)
<1>1. /\ m \in Nat \ {0} /\ h \in Nat \ {0} /\ m = 2 * h /\ r.word \in BOOLEAN
      /\ 2^Width \in Nat \ {0} /\ 2^(Half - 1) \in Nat \ {0} /\ 2^Half \in Nat \ {0}
  <2>1. r.word \in BOOLEAN
    BY Operands
  <2>2. Half - 1 \in 0 .. 2 * Width /\ Half \in 0 .. 2 * Width
    BY HalfAssumption DEF Width
  <2> QED
    BY <2>1, <2>2, BitsOf, Power
<1>2. OpA(r) = h /\ OpB(r) = m - 1
  BY DEF Overflows, OpA, OpB, Size
<1>3. SizeA(r) = Abs(h, n) /\ SizeB(r) = Abs(m - 1, n)
  BY <1>2 DEF SizeA, SizeB, Size
<1>4. Negative(h, n) /\ Negative(m - 1, n)
  <2>1. h >= h /\ m - 1 >= h
    <3> HIDE DEF m, h
    <3> QED
      BY <1>1
  <2> QED
    BY <2>1 DEF Negative
<1>5. SizeA(r) = (m - h) % m /\ SizeB(r) = (m - (m - 1)) % m
  BY <1>3, <1>4 DEF Abs, Neg
<1>6. Sign(NumA(r)) = -1 /\ Sign(NumB(r)) = -1
  BY <1>2, <1>4, NumbersOf DEF Size
<1> HIDE DEF n, m, h
<1>7. SizeA(r) = h /\ SizeB(r) = 1
  <2>1. m - h = h /\ m - (m - 1) = 1 /\ h \in 0 .. m - 1 /\ 1 \in 0 .. m - 1
    BY <1>1
  <2> QED
    BY <1>1, <1>5, <2>1, ModSame
<1>8. h \div 1 = h /\ h % 1 = 0
  BY <1>1
<1>9. OpB(r) # 0
  BY <1>1, <1>2
<1>10. /\ r.op \in DivOps => Expected(r) = Widen(h, r.word)
       /\ r.op \in RemOps => Expected(r) = Widen(Neg(0, Width), r.word)
  <2>1. /\ r.op \in DivOps => Expected(r) =
              Widen(IF Sign(NumA(r)) # Sign(NumB(r)) THEN Neg(h, Width) ELSE h, r.word)
        /\ r.op \in RemOps => Expected(r) =
              Widen(IF Sign(NumA(r)) = -1 THEN Neg(0, Width) ELSE 0, r.word)
    BY <1>7, <1>8, <1>9, DivExpected, Zenon
  <2> QED
    BY <1>6, <2>1
<1>11. Neg(0, Width) = 0
  <2> DEFINE M == 2^Width
  <2>1. M \in Nat \ {0}
    BY <1>1
  <2> HIDE DEF M
  <2>2. (M - 0) % M = 0
    BY <2>1
  <2> QED
    BY <2>2 DEF Neg, M
<1>12. Widen(0, r.word) = 0
  <2> DEFINE M == 2^Width
             g == 2^Half
             f == 2^(Half - 1)
  <2>1. Widen(0, r.word) = IF r.word THEN IF 0 % g >= f THEN (0 % g) + M - g ELSE 0 % g
                           ELSE 0 % M
    BY DEF Widen, SignExtend, Low, Negative
  <2>2. M \in Nat \ {0} /\ g \in Nat \ {0} /\ f \in Nat \ {0}
    BY <1>1
  <2> HIDE DEF M, g, f
  <2>3. 0 % g = 0 /\ 0 % M = 0 /\ ~(0 >= f)
    BY <2>2
  <2> QED
    BY <2>1, <2>3
<1> QED
  BY <1>9, <1>10, <1>11, <1>12 DEF h, n

\* Accepting a request starts the operation with nothing taken yet, or ends
\* it at once with what a zero divisor or the overflow gives.
LEMMA AcceptHolds ==
    ASSUME NEW r \in Requests, Accept(r)
    PROVE  MdIInv'
<1> DEFINE n == Bits(r.word)
           m == 2^n
<1>1. job' = r /\ cnt' = 0
  BY DEF Accept
<1>2. /\ OpA(r) \in 0 .. m - 1 /\ OpB(r) \in 0 .. m - 1 /\ n \in Nat \ {0} /\ n <= Width
      /\ Width \in Nat /\ m \in Nat \ {0} /\ r.word \in BOOLEAN
  BY Operands DEF Size
<1>3. OpA(r) = Low(r.a, n) /\ OpB(r) = Low(r.b, n)
  BY DEF OpA, OpB, Size
<1>4. 2^0 = 1 /\ 0 \in 0 .. n - 1 /\ n - 0 = n /\ 0 + Width - n = Width - n
  <2>1. 2^0 = 1
    OBVIOUS
  <2> HIDE DEF n
  <2> QED
    BY <1>2, <2>1
<1>5. CASE AcceptMul(r)
  <2>1. /\ r.op = MulOp /\ state' = "MUL" /\ product' = 0 /\ multiplicand' = OpA(r)
        /\ multiplier' = OpB(r)
    BY <1>3, <1>5 DEF AcceptMul
  <2> HIDE DEF n, m
  <2>2. MulHolds'
    <3>1. OpA(r) \in Nat /\ OpB(r) \in Nat
      BY <1>2
    <3>2. OpA(r) = OpA(r) * 2^0 /\ OpB(r) \in 0 .. 2^(n - 0) - 1
          /\ 0 + OpA(r) * OpB(r) = OpA(r) * OpB(r)
      BY <1>2, <1>4, <3>1 DEF m
    <3>3. Size(job') = n
      BY <1>1 DEF Size, n
    <3> QED
      BY <1>1, <1>4, <2>1, <3>2, <3>3 DEF MulHolds
  <2> QED
    BY <1>1, <2>1, <2>2 DEF MdIInv, JobAsked, DivHolds, ResultCorrect
<1>6. CASE AcceptDiv(r)
  <2> DEFINE signed == ~Unsigned(r.op)
  <2>1. /\ r.op # MulOp /\ quotient' = 0 /\ remainder' = 0
        /\ dividend' = SizeA(r) * 2^(Width - n) /\ divisor' = SizeB(r)
        /\ negated' = [q |-> signed /\ Negative(OpA(r), n) # Negative(OpB(r), n),
                       r |-> signed /\ Negative(OpA(r), n)]
    BY <1>3, <1>6, Zenon DEF AcceptDiv, SizeA, SizeB, Size
  <2>2. \/ /\ OpB(r) = 0 /\ state' = "DONE"
           /\ result' = IF r.op \in DivOps THEN 2^Width - 1 ELSE Widen(r.a, r.word)
        \/ /\ OpB(r) # 0 /\ signed /\ Overflows(r, n) /\ state' = "DONE"
           /\ result' = IF r.op = "div" THEN Widen(2^(n - 1), r.word) ELSE 0
        \/ OpB(r) # 0 /\ state' = "DIV"
    BY <1>3, <1>6, Zenon DEF AcceptDiv
  <2>3. r.op \in DivOps \cup RemOps /\ (r.op \in DivOps => r.op \notin RemOps)
        /\ (signed => (r.op = "div" <=> r.op \in DivOps))
    BY <2>1 DEF Requests, MulOp, DivOps, RemOps, Unsigned
  <2>4. ASSUME state' = "DONE", result' = Expected(r) PROVE MdIInv'
    BY <1>1, <2>4 DEF MdIInv, JobAsked, MulHolds, DivHolds, ResultCorrect
  <2>5. ASSUME OpB(r) = 0, state' = "DONE",
               result' = IF r.op \in DivOps THEN 2^Width - 1 ELSE Widen(r.a, r.word)
        PROVE  MdIInv'
    <3>1. result' = Expected(r)
      BY <2>3, <2>5, ZeroDivisor
    <3> QED
      BY <2>4, <2>5, <3>1
  <2>6. ASSUME signed, Overflows(r, n), state' = "DONE",
               result' = IF r.op = "div" THEN Widen(2^(n - 1), r.word) ELSE 0
        PROVE  MdIInv'
    <3>1. result' = Expected(r)
      BY <2>1, <2>3, <2>6, OverflowOf
    <3> QED
      BY <2>4, <2>6, <3>1
  <2>7. ASSUME OpB(r) # 0, state' = "DIV" PROVE MdIInv'
    <3>1. /\ SizeA(r) \in 0 .. m - 1 /\ SizeB(r) \in 0 .. m - 1 /\ SizeB(r) # 0
          /\ Sign(NumA(r)) = IF signed /\ Negative(OpA(r), n) THEN -1 ELSE 1
          /\ Sign(NumB(r)) = IF signed /\ Negative(OpB(r), n) THEN -1 ELSE 1
      BY <2>7, NumbersOf DEF Size
    <3>2. negated' = [q |-> Sign(NumA(r)) # Sign(NumB(r)), r |-> Sign(NumA(r)) = -1]
      <4>1. (signed /\ Negative(OpA(r), n) # Negative(OpB(r), n))
            <=> Sign(NumA(r)) # Sign(NumB(r))
        <5> HIDE DEF signed, n
        <5>1. Negative(OpA(r), n) \in BOOLEAN /\ Negative(OpB(r), n) \in BOOLEAN
          BY DEF Negative
        <5> QED
          BY <3>1, <5>1
      <4>2. (signed /\ Negative(OpA(r), n)) <=> Sign(NumA(r)) = -1
        BY <3>1
      <4> QED
        BY <2>1, <4>1, <4>2
    <3> HIDE DEF n, m
    <3>3. SizeA(r) % m = SizeA(r) /\ SizeA(r) \div m = 0
      <4>1. SizeA(r) = m * 0 + SizeA(r) /\ SizeA(r) \in Int
        BY <1>2, <3>1
      <4> QED
        BY <1>2, <3>1, <4>1, DivModUnique
    <3>4. /\ SizeA(r) \div 2^(n - 0) = 0 * SizeB(r) + 0
          /\ SizeA(r) * 2^(Width - n) = Low(SizeA(r), n - 0) * 2^(0 + Width - n)
      <4>1. 0 * SizeB(r) + 0 = 0
        BY <1>2, <3>1
      <4> QED
        BY <1>4, <3>3, <4>1 DEF Low, m
    <3>5. 0 \in 0 .. 2^0 - 1 /\ 0 \in 0 .. SizeB(r) - 1
      BY <1>2, <1>4, <3>1
    <3>6. Size(job') = n
      BY <1>1 DEF Size, n
    <3>7. DivHolds'
      BY <1>1, <1>4, <2>1, <2>7, <3>2, <3>4, <3>5, <3>6 DEF DivHolds
    <3> QED
      BY <1>1, <2>7, <3>7 DEF MdIInv, JobAsked, MulHolds, ResultCorrect
  <2> QED
    BY <2>2, <2>5, <2>6, <2>7
<1> QED
  BY <1>5, <1>6 DEF Accept

LEMMA MdIInvStep == MdShape /\ MdIInv /\ [MdNext]_mdVars => MdIInv'
<1> SUFFICES ASSUME MdShape, MdIInv, [MdNext]_mdVars PROVE MdIInv'
  OBVIOUS
<1>1. CASE Ask
  BY <1>1, AcceptStep, AcceptHolds
<1>2. CASE Multiply
  BY <1>2, MultiplyStep
<1>3. CASE Divide
  BY <1>3, DivideStep
<1>4. CASE Release
  <2>1. state' = "IDLE"
    BY <1>4 DEF Release
  <2> QED
    BY <2>1 DEF MdIInv, JobAsked, MulHolds, DivHolds, ResultCorrect
<1>5. CASE UNCHANGED mdVars
  <2>1. /\ state' = state /\ job' = job /\ cnt' = cnt /\ product' = product
        /\ multiplicand' = multiplicand /\ multiplier' = multiplier /\ dividend' = dividend
        /\ divisor' = divisor /\ quotient' = quotient /\ remainder' = remainder
        /\ negated' = negated /\ result' = result
    BY <1>5 DEF mdVars, mulVars, divVars
  <2> QED
    BY <2>1 DEF MdIInv, JobAsked, MulHolds, DivHolds, ResultCorrect
<1> QED
  BY <1>1, <1>2, <1>3, <1>4, <1>5 DEF MdNext

LEMMA UnitInvariant == MdSpec => [](MdShape /\ MdIInv)
<1>1. MdInit => MdShape /\ MdIInv
  BY DEF MdInit, MdShape, NoJob, MdIInv, JobAsked, MulHolds, DivHolds, ResultCorrect
<1>2. MdShape /\ MdIInv /\ [MdNext]_mdVars => (MdShape /\ MdIInv)'
  BY MdShapeStep, MdIInvStep
<1> QED
  BY <1>1, <1>2, PTL DEF MdSpec

\* Whatever the width, the operands and the operation, what the unit offers
\* is the result the instruction set defines: every sign, word form, zero
\* divisor and the overflow included.
THEOREM UnitResultCorrect == MdSpec => []ResultCorrect
<1>1. MdIInv => ResultCorrect
  BY DEF MdIInv
<1> QED
  BY <1>1, UnitInvariant, PTL

\* At every bit of a multiplication the sum and what is still to be added
\* make the product: nothing is lost at the top of the registers.
THEOREM UnitMultiplies == MdSpec => []ProductHolds
<1>1. MdIInv => ProductHolds
  BY DEF MdIInv, MulHolds, ProductHolds, OpA, OpB, Size
<1> QED
  BY <1>1, UnitInvariant, PTL

\* At every bit of a division the bits taken so far are the quotient times
\* the divisor and a remainder in range.
THEOREM UnitDivides == MdSpec => []DivisionHolds
<1>1. MdIInv => DivisionHolds
  <2> SUFFICES ASSUME MdIInv, state = "DIV" PROVE DivisionHolds
    BY DEF DivisionHolds
  <2>1. /\ SizeA(job) \div 2^(Size(job) - cnt) = quotient * divisor + remainder
        /\ dividend = Low(SizeA(job), Size(job) - cnt) * 2^(cnt + Width - Size(job))
        /\ job \in Requests /\ divisor = SizeB(job) /\ remainder \in 0 .. divisor - 1
    BY DEF MdIInv, JobAsked, DivHolds
  <2>2. remainder < divisor
    <3>1. divisor \in Nat
      <4>1. 2^Size(job) \in Nat /\ divisor \in 0 .. 2^Size(job) - 1
        BY <2>1, NumbersOf, Operands
      <4> QED
        BY <4>1
    <3> QED
      BY <2>1, <3>1
  <2> QED
    BY <2>1, <2>2, Zenon DEF DivisionHolds, SizeA, OpA, Size
<1> QED
  BY <1>1, UnitInvariant, PTL
=============================================================================
