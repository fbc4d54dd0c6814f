----------------------------- MODULE SerialSoc -----------------------------
(***************************************************************************)
(* What a test is promised: its calls are performed one at a time and in   *)
(* order, each beat in one step, on a memory of bytes, on registers and on *)
(* a terminal whose characters arrive in order.  No requests, lanes,       *)
(* transactions or cycles.                                                 *)
(***************************************************************************)
EXTENDS Confreg, FiniteSets

CONSTANTS
    Calls,    \* what a test may ask for
    Chars     \* what may be typed

VARIABLES
    work,     \* the calls not yet done
    beat,     \* beats done of the first one
    bytes,    \* the memory
    regs,     \* the registers
    heard,    \* characters typed and not yet read
    sent,     \* characters sent
    got       \* what the test received last

serialVars == <<work, beat, bytes, regs, heard, sent, got>>

SerialInit ==
    /\ work = <<>> /\ beat = 0
    /\ bytes = [a \in 0 .. BlockSize - 1 |-> 0] /\ regs = RegReset
    /\ heard = <<>> /\ sent = <<>>
    /\ got = [of |-> [what |-> "none"], beat |-> 0, data |-> ZeroWord]

Ask(c) == work' = Append(work, c) /\ UNCHANGED <<beat, bytes, regs, heard, sent, got>>
Hear(ch) == heard' = Append(heard, ch) /\ UNCHANGED <<work, beat, bytes, regs, sent, got>>

\* A burst goes through the aligned block of its size from where it starts,
\* and around.
AddressOf(c, k) ==
    LET total == c.width * Len(c.data)
        block == c.addr - (c.addr % total)
    IN  IF k = 1 THEN c.addr
        ELSE block + ((c.addr - (c.addr % c.width) - block + (k - 1) * c.width) % total)

InMemory(a) == a \div 2^16 # \h1faf
Local(a)    == IF a \div 2^20 = \h1fc THEN a - \h1fc00000 ELSE a

\* The bytes a call is about.
Cells(c, a) == Local(a) .. Local(a) + c.width - 1

\* A register's word, with the call's bytes where its address puts them.
RegWord(c, a, v) ==
    [l \in Lane |-> IF l \in a % 8 .. (a % 8) + c.width - 1 THEN v[l - (a % 8)] ELSE 0]

StoreMemory(c, a, v) ==
    /\ bytes' = [b \in DOMAIN bytes |-> IF b \in Cells(c, a) THEN v[b - Local(a)] ELSE bytes[b]]
    /\ UNCHANGED <<regs, sent>>

StoreRegister(c, a, v) ==
    /\ regs' = [r \in Registers |-> IF r = Offset(a) THEN Kept(r, RegWord(c, a, v)) ELSE regs[r]]
    /\ sent' = sent \o Sends(a, RegWord(c, a, v))
    /\ UNCHANGED bytes

Tell(c, k, seen) ==
    got' = [of |-> c, beat |-> k,
            data |-> CASE c.what \in {"load", "get"} -> seen
                       [] c.what = "expect" -> Low8(IF seen = Narrow(c.width, c.data[1]) THEN 1 ELSE 0)
                       [] c.what = "store"  -> ZeroWord]

MemoryValue(c, a) ==
    [l \in Lane |-> IF l < c.width THEN bytes[Local(a) + l] ELSE 0]

RegisterValue(c, a) ==
    [l \in Lane |-> IF l < c.width /\ Offset(a) \in Registers /\ l + (a % 8) \in Lane
                    THEN regs[Offset(a)][l + (a % 8)] ELSE 0]

PerformMemory(c, a, k) ==
    /\ InMemory(a)
    /\ IF c.what = "store" THEN StoreMemory(c, a, c.data[k]) ELSE UNCHANGED <<bytes, regs, sent>>
    /\ Tell(c, k, MemoryValue(c, a))
    /\ UNCHANGED heard

PerformRegister(c, a, k) ==
    /\ ~InMemory(a) /\ (c.what = "store" \/ Offset(a) # UartData)
    /\ IF c.what = "store" THEN StoreRegister(c, a, c.data[k]) ELSE UNCHANGED <<bytes, regs, sent>>
    /\ Tell(c, k, RegisterValue(c, a))
    /\ UNCHANGED heard

\* A character is read in its turn and once, or not yet.
PerformRead(c, a, k) ==
    /\ ~InMemory(a) /\ c.what # "store" /\ Offset(a) = UartData
    /\ UNCHANGED <<bytes, regs, sent>>
    /\ \/ /\ heard # <<>> /\ heard' = Tail(heard)
          /\ Tell(c, k, Low8(Head(heard)))
       \/ /\ UNCHANGED heard
          /\ Tell(c, k, ZeroWord)

Perform ==
    /\ work # <<>>
    /\ LET c == Head(work)
           k == beat + 1
           a == AddressOf(c, k)
       IN  /\ PerformMemory(c, a, k) \/ PerformRegister(c, a, k) \/ PerformRead(c, a, k)
           /\ IF k = Len(c.data) THEN beat' = 0 /\ work' = Tail(work)
              ELSE beat' = k /\ UNCHANGED work

SerialReset ==
    /\ work = <<>> /\ UNCHANGED <<work, beat, sent, got>>
    /\ bytes' = [a \in 0 .. BlockSize - 1 |-> 0] /\ regs' = RegReset /\ heard' = <<>>

SerialNext ==
    Perform \/ SerialReset \/ (\E c \in Calls : Ask(c)) \/ (\E ch \in Chars : Hear(ch))

\* That everything asked for is done in the end is FenceEnds of SocProps.  It
\* implies WF_serialVars(Perform): Perform is disabled when nothing is left.
SerialSpec == SerialInit /\ [][SerialNext]_serialVars
=============================================================================
