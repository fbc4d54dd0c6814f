------------------------------ MODULE MCClaims ------------------------------
(***************************************************************************)
(* The programs that refute claims of the code's comments, besides those   *)
(* of MCCore.  Page tables are at 128 and at 160.                          *)
(***************************************************************************)
EXTENDS MCCore, Claims

\* A U program calls an S handler, which returns with sret.
SretProgram ==
    4 :> Csrw("stvec", 64) @@ 8 :> Csrw("medeleg", {8}) @@
    12 :> Csrw("mepc", 96) @@ 16 :> MretI @@
    64 :> SretI @@
    96 :> Ecall @@ 100 :> Jump({96})

SretOp == OpsOf(SretProgram)
SretOutcome == OutcomesOf(SretProgram)
SretCsrArg == CsrArgsOf(SretProgram)
NoPte == Tables(128 :> ZeroPte)

\* M enters U at a page that may not be executed.
FetchFaultProgram ==
    4 :> Csrw("mtvec", 64) @@ 8 :> Csrw("mepc", 96) @@
    12 :> Csrw("satp", 128) @@ 16 :> MretI @@ 64 :> Jump({64})

FetchFaultOp == OpsOf(FetchFaultProgram)
FetchFaultOutcome == OutcomesOf(FetchFaultProgram)
FetchFaultCsrArg == CsrArgsOf(FetchFaultProgram)
FetchFaultPte == Tables(128 :> Entry(0, TRUE, TRUE, FALSE, TRUE))

\* An S program replaces the page table it runs under.
ToSupervisor == [mie |-> FALSE, mpie |-> FALSE, mpp |-> "S",
                 sie |-> FALSE, spie |-> FALSE, spp |-> "U"]

SwitchProgram ==
    4 :> Csrw("mepc", 96) @@ 8 :> Csrw("mstatus", ToSupervisor) @@
    12 :> Csrw("satp", 128) @@ 16 :> MretI @@
    96 :> Csrw("satp", 160) @@ 100 :> Alu

SwitchOp == OpsOf(SwitchProgram)
SwitchOutcome == OutcomesOf(SwitchProgram)
SwitchCsrArg == CsrArgsOf(SwitchProgram)
SwitchPte == Tables(128 :> Entry(0, TRUE, TRUE, TRUE, FALSE))
=============================================================================
