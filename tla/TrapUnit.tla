------------------------------ MODULE TrapUnit ------------------------------
(***************************************************************************)
(* The privilege mode and the CSRs a trap, an mret, an sret or a CSR       *)
(* instruction changes: src/privilege_unit.sv, src/csr_file.sv,            *)
(* src/trap_router.sv and src/final_redirect_pc_unit.sv.                   *)
(*                                                                         *)
(* Left out: the CSRs nothing in the pipeline reads (mscratch, sscratch,   *)
(* mcycle, mhartid), mtval and stval (always written 0), and the           *)
(* read-modify-write of csrrs/csrrc: a CSR instruction carries the value   *)
(* it leaves in the register.  mip follows the interrupt lines, which are  *)
(* inputs, and mie is one bit: the lines that may interrupt are enabled.   *)
(* MPP is a mode: no program writes its reserved value 2.                  *)
(***************************************************************************)
EXTENDS Common

VARIABLES
    priv,       \* privil_mode
    mstatus,    \* MIE, MPIE, MPP, SIE, SPIE and SPP of csr_mstatus
    mie, mtvec, mepc, mcause, medeleg, satp,
    stvec, sepc, scause

trapVars ==
    <<priv, mstatus, mie, mtvec, mepc, mcause, medeleg, satp,
      stvec, sepc, scause>>

\* The causes the datapath raises: instruction misaligned, load and store
\* misaligned, ecall from U and from above, the three page faults; and the
\* interrupt number standing for the software, timer and external lines.
Exceptions == {0, 4, 6, 8, 11, 12, 13, 15}
IrqCause   == 7

\* What MTVEC_MASK and MEDELEG_MASK let a program write.
Vectors   == {a \in Addr : a % 4 < 2}
Delegable == Exceptions \ {11}

Causes == [irq : BOOLEAN, code : Exceptions \cup {IrqCause}]
ResetCause == [irq |-> FALSE, code |-> 0]

Mstatus ==
    [mie : BOOLEAN, mpie : BOOLEAN, mpp : Modes,
     sie : BOOLEAN, spie : BOOLEAN, spp : {"U", "S"}]

\* What a CSR instruction may write: a register and its new value.
CsrWrites ==
    [csr : {"mtvec", "stvec"}, value : Vectors]
        \cup [csr : {"mepc", "sepc"}, value : Addr]
        \cup [csr : {"mstatus"}, value : Mstatus]
        \cup [csr : {"mie"}, value : BOOLEAN]
        \cup [csr : {"medeleg"}, value : SUBSET Delegable]
        \cup [csr : {"satp"}, value : Addr \cup {Nil}]
NoWrite == [csr |-> "none", value |-> Nil]

TrapTypeOK ==
    /\ priv \in Modes
    /\ mstatus \in Mstatus
    /\ mie \in BOOLEAN
    /\ mtvec \in Addr /\ stvec \in Addr
    /\ mepc \in Addr /\ sepc \in Addr
    /\ mcause \in Causes /\ scause \in Causes
    /\ medeleg \in SUBSET Delegable
    /\ satp \in Addr \cup {Nil}

TrapInit ==
    /\ priv = "M"
    /\ mstatus = [mie |-> FALSE, mpie |-> FALSE, mpp |-> "U",
                  sie |-> FALSE, spie |-> FALSE, spp |-> "U"]
    /\ mie = FALSE
    /\ mtvec = 0 /\ stvec = 0
    /\ mepc = 0 /\ sepc = 0
    /\ mcause = ResetCause /\ scause = ResetCause
    /\ medeleg = {}
    /\ satp = Nil
-----------------------------------------------------------------------------
\* trap_router.  Machine interrupts are never delegated: MIDELEG_MASK keeps
\* only the supervisor bits of mideleg, and the lines are machine lines.
TrapTargetOnlyFromU(cause) ==
    IF priv = "U" /\ ~cause.irq /\ cause.code \in medeleg THEN "S" ELSE "M"
TrapTarget(cause) ==
    IF priv # "M" /\ ~cause.irq /\ cause.code \in medeleg THEN "S" ELSE "M"

\* final_redirect_pc_unit, without its branch arm.
TrapRedirect(trap, cause, mret) ==
    IF trap THEN IF TrapTarget(cause) = "S" THEN stvec ELSE mtvec
            ELSE IF mret THEN mepc ELSE sepc

TrapToS(cause, pc) ==
    /\ TrapTarget(cause) = "S"
    /\ priv' = "S"
    /\ sepc' = pc
    /\ scause' = cause
    /\ mstatus' = [mstatus EXCEPT !.spp = IF priv = "U" THEN "U" ELSE "S",
                                  !.spie = mstatus.sie,
                                  !.sie = FALSE]
    /\ UNCHANGED <<mepc, mcause>>

TrapToM(cause, pc) ==
    /\ TrapTarget(cause) = "M"
    /\ priv' = "M"
    /\ mepc' = pc
    /\ mcause' = cause
    /\ mstatus' = [mstatus EXCEPT !.mpp = priv,
                                  !.mpie = mstatus.mie,
                                  !.mie = FALSE]
    /\ UNCHANGED <<sepc, scause>>

Mret ==
    /\ priv' = mstatus.mpp
    /\ mstatus' = [mstatus EXCEPT !.mie = mstatus.mpie,
                                  !.mpie = TRUE,
                                  !.mpp = "U"]
    /\ UNCHANGED <<mepc, mcause, sepc, scause>>

Sret ==
    /\ priv' = mstatus.spp
    /\ mstatus' = [mstatus EXCEPT !.sie = mstatus.spie,
                                  !.spie = TRUE,
                                  !.spp = "U"]
    /\ UNCHANGED <<mepc, mcause, sepc, scause>>

CsrWrite(write) ==
    LET New(name, old) == IF write.csr = name THEN write.value ELSE old
    IN  /\ mstatus' = New("mstatus", mstatus)
        /\ mie' = New("mie", mie)
        /\ mtvec' = New("mtvec", mtvec)
        /\ stvec' = New("stvec", stvec)
        /\ mepc' = New("mepc", mepc)
        /\ sepc' = New("sepc", sepc)
        /\ medeleg' = New("medeleg", medeleg)
        /\ satp' = New("satp", satp)
        /\ UNCHANGED <<priv, mcause, scause>>

\* One clock edge.  A trap suppresses the CSR write of the same cycle.
TrapClock(trap, cause, pc, mret, sret, write) ==
    \/ /\ trap
       /\ TrapToS(cause, pc) \/ TrapToM(cause, pc)
       /\ UNCHANGED <<mie, mtvec, stvec, medeleg, satp>>
    \/ /\ ~trap /\ mret /\ Mret
       /\ UNCHANGED <<mie, mtvec, stvec, medeleg, satp>>
    \/ /\ ~trap /\ ~mret /\ sret /\ Sret
       /\ UNCHANGED <<mie, mtvec, stvec, medeleg, satp>>
    \/ ~trap /\ ~mret /\ ~sret /\ CsrWrite(write)
=============================================================================
