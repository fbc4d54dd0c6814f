------------------------------- MODULE MCSoc -------------------------------
(***************************************************************************)
(* Calls that overlap in memory with every width and both windows, that    *)
(* reach registers in both halves of a doubleword, the terminal and the    *)
(* console, and bursts that wrap.                                          *)
(***************************************************************************)
EXTENDS SocProps

\* The bytes v, v + 1, ... of a datum.
From(v) == [l \in Lane |-> v + l]

\* The helpers loadb, loadh, loadw and loadd, and so on.
Load(w, a)      == [what |-> "load", width |-> w, addr |-> a, data |-> <<ZeroWord>>]
Store(w, a, v)  == [what |-> "store", width |-> w, addr |-> a, data |-> <<Narrow(w, From(v))>>]
Get(w, a)       == [Load(w, a) EXCEPT !.what = "get"]
Expect(w, a, v) == [Store(w, a, v) EXCEPT !.what = "expect"]
Burst(what, a, length) ==
    [what |-> what, width |-> 8, addr |-> a,
     data |-> [k \in 1 .. length |-> IF what = "store" THEN From(16 * k) ELSE ZeroWord]]

Boot == \h1fc00000
Con  == \h1faf0000

\* First memory or a register is written, then anything is asked for, and
\* then what is there is looked at.
First  == {Store(8, 0, 1), Burst("store", 24, 2), Store(4, Con + \h8004, 7),
           Load(1, Con + UartData)}
Second == {Store(1, 3, 200), Store(2, 6, 90), Store(4, Boot + 20, 60), Burst("store", 8, 2),
           Expect(1, 3, 4), Load(2, Boot + 6), Get(2, 4), Store(4, Con + \h8000, 9),
           Store(1, Con + VirtualUart, 65), Store(1, Con + VirtualUart, 200),
           Store(1, Con + UartData, 66), Load(1, Con + UartData)}
Third  == {Load(8, 0), Burst("load", 24, 4), Load(4, Con + \h8004), Load(1, Con + UartData)}
MCCalls == <<First, Second, Third>>

\* They are calls of the kind that SocImplementsSerial is about.
ASSUME PlainCalls

MCChars == {97, 98}
=============================================================================
