------------------------------- MODULE MCCore -------------------------------
(***************************************************************************)
(* Programs and page tables for model checking Core.  Tables have 2        *)
(* entries, so that the three levels translate 8 pages; memory is 16 pages *)
(* of 64 bytes, or 8 pages of 32.                                          *)
(***************************************************************************)
EXTENDS CoreProps, TLC

\* Instructions: class, what EX may compute, what a CSR instruction writes.
NoCsr       == [csr |-> "mepc", value |-> 0]
Alu         == [op |-> "alu",   out |-> {Nil}, csr |-> NoCsr]
Mdu         == [op |-> "mdu",   out |-> {Nil}, csr |-> NoCsr]
Ecall       == [op |-> "ecall", out |-> {Nil}, csr |-> NoCsr]
MretI       == [op |-> "mret",  out |-> {Nil}, csr |-> NoCsr]
SretI       == [op |-> "sret",  out |-> {Nil}, csr |-> NoCsr]
Load(as)    == [op |-> "load",  out |-> as, csr |-> NoCsr]
Store(as)   == [op |-> "store", out |-> as, csr |-> NoCsr]
Jump(ts)    == [op |-> "jump",  out |-> ts, csr |-> NoCsr]
Csrw(c, v)  == [op |-> "csrw",  out |-> {Nil},
                csr |-> [csr |-> c, value |-> v]]
Word0       == [op |-> "nop",   out |-> {Nil}, csr |-> NoCsr]

Image(prog) == [a \in Addr |-> IF a \in DOMAIN prog THEN prog[a] ELSE Word0]
OpsOf(prog)      == [a \in Addr |-> Image(prog)[a].op]
OutcomesOf(prog) == [a \in Addr |-> Image(prog)[a].out]
CsrArgsOf(prog)  == [a \in Addr |-> Image(prog)[a].csr]

Entry(page, r, w, x, u) ==
    [v |-> TRUE, r |-> r, w |-> w, x |-> x, u |-> u, ppn |-> page]
Pointer(page) == Entry(page, FALSE, FALSE, FALSE, FALSE)
Tables(entries) ==
    [a \in Addr |-> IF a \in DOMAIN entries THEN entries[a] ELSE ZeroPte]
-----------------------------------------------------------------------------
(* Programs: two machines in one image of 16 pages of 64 bytes; the boot   *)
(* code falls through to the first or jumps to the second.                 *)
(*                                                                         *)
(* The first delegates: the ecall and the load page fault of a U program   *)
(* go to an S handler, which calls M; M returns to S or starts U again.    *)
(* In the second, firmware enters a U program that loads, stores,          *)
(* multiplies and jumps, with good, misaligned and forbidden addresses,    *)
(* and calls an M handler that may retry or skip.                          *)
ToUser == [mie |-> FALSE, mpie |-> TRUE, mpp |-> "U",
           sie |-> TRUE, spie |-> FALSE, spp |-> "U"]

Programs ==
    \* page 0: boot
    4 :> Jump({Nil, 32}) @@
    8 :> Csrw("mtvec", 64) @@ 12 :> Csrw("stvec", 128) @@
    16 :> Csrw("medeleg", {8, 13}) @@ 20 :> Csrw("mepc", 192) @@
    24 :> Csrw("satp", 256) @@ 28 :> MretI @@
    32 :> Csrw("mtvec", 96) @@ 36 :> Csrw("mepc", 224) @@
    40 :> Csrw("satp", 512) @@ 44 :> Csrw("mie", TRUE) @@ 48 :> Csrw("mie", FALSE) @@
    52 :> MretI @@
    \* page 1: the M handlers
    64 :> Jump({Nil, 76}) @@ 68 :> Csrw("mepc", 192) @@
    72 :> Csrw("mstatus", ToUser) @@ 76 :> MretI @@
    96 :> Mdu @@ 100 :> Store({24}) @@ 104 :> Jump({Nil, 112}) @@
    108 :> Csrw("mepc", 252) @@ 112 :> MretI @@
    \* page 2: the S handler; its load is in the second page of a megapage
    128 :> Load({72}) @@ 132 :> Jump({Nil, 128, 140}) @@ 136 :> Ecall @@
    140 :> Load({192, 264}) @@ 144 :> Jump({128}) @@
    \* page 3: the U programs
    192 :> Load({192}) @@ 196 :> Jump({Nil, 204}) @@ 200 :> Ecall @@
    204 :> Load({8}) @@ 208 :> Jump({192}) @@
    224 :> Load({8, 264}) @@ 228 :> Store({16}) @@ 232 :> Mdu @@
    236 :> Jump({Nil, 224, 242, 244, 248}) @@ 240 :> Ecall @@
    \* only bad addresses, so that one of these that completes is an error
    244 :> Store({20, 128}) @@ 248 :> Load({12, 64}) @@ 252 :> Jump({228})

\* The first machine has its first two pages in one megapage and a gigapage
\* that is not aligned; the second has single pages and a gigapage.
ProgramsTables ==
    256 :> Pointer(5) @@ 264 :> Entry(1, TRUE, TRUE, FALSE, FALSE) @@
    320 :> Entry(0, TRUE, TRUE, FALSE, FALSE) @@ 328 :> Pointer(7) @@
    448 :> Entry(2, TRUE, FALSE, TRUE, FALSE) @@
    456 :> Entry(3, TRUE, FALSE, TRUE, TRUE) @@
    512 :> Pointer(9) @@ 520 :> Entry(0, TRUE, TRUE, FALSE, TRUE) @@
    576 :> Pointer(10) @@ 584 :> Pointer(11) @@
    640 :> Entry(0, TRUE, TRUE, FALSE, TRUE) @@
    704 :> Entry(2, TRUE, FALSE, TRUE, FALSE) @@
    712 :> Entry(3, TRUE, FALSE, TRUE, TRUE)

ProgramsOp == OpsOf(Programs)
ProgramsOutcome == OutcomesOf(Programs)
ProgramsCsrArg == CsrArgsOf(Programs)
ProgramsPte == Tables(ProgramsTables)
ProgramsLoadUse == {<<228, 224>>}
-----------------------------------------------------------------------------
(* Interrupted: one interrupt, in any cycle of a short U loop; the handler *)
(* masks the lines and returns.                                            *)
InterruptedProgram ==
    \* boot, page 1
    32 :> Csrw("mtvec", 64) @@ 36 :> Csrw("satp", 128) @@
    40 :> Csrw("mie", TRUE) @@ 44 :> Csrw("mepc", 96) @@ 48 :> MretI @@
    \* handler, page 2
    64 :> Csrw("mie", FALSE) @@ 68 :> MretI @@
    \* user, page 3
    96 :> Load({8}) @@ 100 :> Store({16}) @@ 104 :> Mdu @@ 108 :> Jump({96})

InterruptedTables ==
    128 :> Pointer(5) @@ 160 :> Pointer(6) @@ 168 :> Pointer(7) @@
    192 :> Entry(0, TRUE, TRUE, FALSE, TRUE) @@
    232 :> Entry(3, TRUE, FALSE, TRUE, TRUE)

InterruptedOp == OpsOf(InterruptedProgram)
InterruptedOutcome == OutcomesOf(InterruptedProgram)
InterruptedCsrArg == CsrArgsOf(InterruptedProgram)
InterruptedPte == Tables(InterruptedTables)
=============================================================================
