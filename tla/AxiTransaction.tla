--------------------------- MODULE AxiTransaction ---------------------------
(***************************************************************************)
(* struct AXITransaction of verilate/include/axi.h: the addresses of a     *)
(* wrapping burst.  The members that are constant during a transaction are *)
(* kept as the code keeps them.                                            *)
(***************************************************************************)
EXTENDS Integers

Transaction ==
    [busy : BOOLEAN, write : BOOLEAN, aligned : BOOLEAN, n : Nat, addr : Nat, start : Nat,
     bytes : Nat, length : Nat, lower : Nat, upper : Nat]

\* reset: every member is zero.
NoTransaction ==
    [busy |-> FALSE, write |-> FALSE, aligned |-> FALSE, n |-> 0, addr |-> 0, start |-> 0,
     bytes |-> 0, length |-> 0, lower |-> 0, upper |-> 0]

\* init, with the size in bytes and the length in beats
Begin(a, bytes, length, write) ==
    LET total == bytes * length
        lower == (a \div total) * total
    IN  [busy |-> TRUE, write |-> write, aligned |-> FALSE, n |-> 1, addr |-> a, start |-> a,
         bytes |-> bytes, length |-> length, lower |-> lower, upper |-> lower + total]

AlignedAddress(tx) == (tx.start \div tx.bytes) * tx.bytes

\* sync: the next beat
AdvanceNoWrap(tx) ==
    [tx EXCEPT !.n = @ + 1, !.aligned = TRUE,
               !.addr = (IF tx.aligned THEN @ ELSE AlignedAddress(tx)) + tx.bytes]
Advance(tx) ==
    LET next == (IF tx.aligned THEN tx.addr ELSE AlignedAddress(tx)) + tx.bytes
    IN  [tx EXCEPT !.n = @ + 1, !.aligned = TRUE,
                   !.addr = IF next >= tx.upper THEN tx.lower ELSE next]

IsLast(tx) == tx.n = tx.length
=============================================================================
