------------------------------ MODULE MCImage ------------------------------
(***************************************************************************)
(* Two instructions in a .hex file, and the same as a binary of 12 bytes.  *)
(***************************************************************************)
EXTENDS MemoryImage

Bytes == [k \in 1 .. 12 |-> 10 * k]
MCFiles ==
    {[format |-> "bin", lines |-> Bytes],
     [format |-> "hex", lines |-> [n \in 1 .. 2 |-> [k \in 0 .. 3 |-> 10 * n + k]]]}
=============================================================================
