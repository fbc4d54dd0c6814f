------------------------------- MODULE Common -------------------------------
(***************************************************************************)
(* Names and shapes shared by every part of the core: include/common.sv    *)
(* and include/csr.sv.                                                     *)
(*                                                                         *)
(* Addresses are bytes, modulo AddrSpace (2^64 in the code).  A 32-bit     *)
(* instruction word is named by the byte address it is stored at, and a    *)
(* 64-bit doubleword of memory by the address of its first byte, so that   *)
(* "which data arrived" is "which address was read".  Zero is the all-zero *)
(* value the code writes when there is no data (32'b0, '0); Nil stands for *)
(* an interface whose valid bit is 0.                                      *)
(***************************************************************************)
EXTENDS Integers

CONSTANTS
    AddrSpace,      \* number of byte addresses
    PcInit          \* the reset vector, PCINIT

Addr == 0 .. AddrSpace - 1

ASSUME AddrAssumption == AddrSpace \in Nat \ {0} /\ PcInit \in Addr

Zero == -1
Nil  == -2

Words == Addr \cup {Zero}

\* The address four bytes further on; addresses wrap like the 64-bit adder.
Plus4(a) == (a + 4) % AddrSpace

\* An instruction address is usable only when its two low bits are 0.
Misaligned(a) == a % 4 # 0

\* The 64-bit line an address lies in, and the word with a given address[2].
LineOf(a)     == a - (a % 8)
UpperHalf(a)  == (a % 8) >= 4
WordOf(line, upper) ==
    IF line = Zero THEN Zero ELSE IF upper THEN Plus4(line) ELSE line

Modes    == {"U", "S", "M"}
Accesses == {"FETCH", "LOAD", "STORE"}

\* A dbus or cbus request (size and strobe reduced to "is it a write"), and a
\* response: ok is data_ok (addr_ok follows it), data the doubleword read.
Requests  == [valid : BOOLEAN, addr : Addr, write : BOOLEAN]
NoRequest == [valid |-> FALSE, addr |-> 0, write |-> FALSE]

Responses  == [ok : BOOLEAN, data : Addr \cup {Zero}]
NoResponse == [ok |-> FALSE, data |-> Zero]

\* What the MMU raises: nothing, or a fault of the access it was serving.
Faults == {"none"} \cup Accesses
=============================================================================
