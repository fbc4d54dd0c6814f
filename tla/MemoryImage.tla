---------------------------- MODULE MemoryImage ----------------------------
(***************************************************************************)
(* How a program gets into the simulated memory: parse_memory_file makes   *)
(* bytes of a file (vsrc/common.cpp), and BlockMemory::map puts them into  *)
(* the doublewords one after the other (vsrc/memory.cpp).                  *)
(***************************************************************************)
EXTENDS SimMemory

CONSTANT Files    \* what the option --memfile may name

VARIABLES
    data,     \* the ByteSeq
    next,     \* bytes mapped
    mem       \* the memory

imageVars == <<data, next, mem>>

\* A line of a .coe, .mif or .hex file is a 32-bit number, which feed splits
\* into bytes from the lowest; any other file is its bytes.
ByteSeq(f) ==
    IF f.format = "bin" THEN f.lines
    ELSE [k \in 1 .. 4 * Len(f.lines) |-> f.lines[((k - 1) \div 4) + 1][(k - 1) % 4]]

\* The lanes that ~(0xffu << shamt), an unsigned int, keeps.  For a shift of
\* 32 or more the result is undefined: that of the shift modulo 32, or 0.
Kept(lane) ==
    IF lane < 4 THEN {(0 .. 3) \ {lane}} ELSE {(0 .. 3) \ {lane - 4}, 0 .. 3}

\* A lane that is not kept is cleared, then the byte is or'ed in.
MapByte ==
    /\ next < Len(data)
    /\ \E lanes \in Kept(next % 8) :
           mem' = [mem EXCEPT ![next \div 8] =
                     [l \in Lane |-> CASE l = next % 8 -> data[next + 1]
                                       [] l # next % 8 /\ l \in lanes -> @[l]
                                       [] OTHER -> 0]]
    /\ next' = next + 1
    /\ UNCHANGED data

ImageInit ==
    /\ \E f \in Files : data = ByteSeq(f)
    /\ next = 0 /\ mem = [w \in 0 .. MemWords - 1 |-> ZeroWord]

ImageSpec == ImageInit /\ [][MapByte]_imageVars
-----------------------------------------------------------------------------
\* The memory initialization file (runner.h line 97) initialises the memory,
\* in which an address counts bytes (memory.h line 22).
ImageLoaded ==
    next = Len(data) =>
        \A a \in 0 .. Len(data) - 1 : mem[a \div 8][a % 8] = data[a + 1]
=============================================================================
