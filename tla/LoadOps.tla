------------------------------ MODULE LoadOps ------------------------------
(***************************************************************************)
(* class LoadOp of verilate/include/bus.h: where the bytes of a datum lie  *)
(* on the 64-bit bus.  A word is its eight byte lanes; a strobe, and the   *)
(* mask made of it, is the set of the lanes it selects.                    *)
(***************************************************************************)
EXTENDS Integers

Lane  == 0 .. 7
Byte  == 0 .. 255
Word  == [Lane -> Byte]

ZeroWord == [l \in Lane |-> 0]
Widths   == {1, 2, 4, 8}

\* SIZEn_SHTm is a width in bytes and a shift in lanes; DISCARD has no width.
LoadOp  == [width : Widths, shift : Lane]
Discard == [width |-> 0, shift |-> 0]

ParseLowTwoBits(w, a) == [width |-> w, shift |-> ((a % 4) \div w) * w]
Parse(w, a) == [width |-> w, shift |-> ((a % 8) \div w) * w]

\* strobe, and mask of the lanes it names
Strobe(op) == op.shift .. op.shift + op.width - 1

\* Move a datum to its lanes, and back.
Place(op, d) == [l \in Lane |-> IF l >= op.shift THEN d[l - op.shift] ELSE 0]
Apply(op, d) ==
    [l \in Lane |-> IF op # Discard /\ l + op.shift \in Lane THEN d[l + op.shift] ELSE 0]

\* What remains of a word in a variable of w bytes.
Narrow(w, d) == [l \in Lane |-> IF l < w THEN d[l] ELSE 0]

\* (old & ~mask) | (new & mask)
Merge(old, new, lanes) == [l \in Lane |-> IF l \in lanes THEN new[l] ELSE old[l]]
=============================================================================
