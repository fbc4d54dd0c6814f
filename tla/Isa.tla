-------------------------------- MODULE Isa --------------------------------
(***************************************************************************)
(* What a program is promised, and the abstract specification of Core:     *)
(* instructions execute one at a time, each fetched and accessed through   *)
(* the page tables of that moment, each either completing or trapping      *)
(* precisely.  There is no pipeline, no TLB, no bus and no clock here.     *)
(*                                                                         *)
(* Memory and registers are as in module Pipeline: Outcome gives what an   *)
(* instruction may compute, and what a load or a multiply returns is the   *)
(* subject of properties of its own in module CoreProps.                   *)
(***************************************************************************)
EXTENDS PageTable

CONSTANTS Op, Outcome, CsrArg

VARIABLES
    pc, mode,
    status,                          \* mstatus
    mie, mtvec, mepc, mcause, medeleg, satp,
    stvec, sepc, scause

trapRegs  == <<mepc, mcause, sepc, scause>>
setupRegs == <<mie, mtvec, medeleg, satp, stvec>>
isaVars   == <<pc, mode, status, trapRegs, setupRegs>>

Reset ==
    /\ pc = PcInit /\ mode = "M"
    /\ status = [mie |-> FALSE, mpie |-> FALSE, mpp |-> "U",
                 sie |-> FALSE, spie |-> FALSE, spp |-> "U"]
    /\ mie = FALSE
    /\ mtvec = 0 /\ mepc = 0 /\ stvec = 0 /\ sepc = 0
    /\ mcause = [irq |-> FALSE, code |-> 0]
    /\ scause = [irq |-> FALSE, code |-> 0]
    /\ medeleg = {}
    /\ satp = Nil
-----------------------------------------------------------------------------
Physical(va, access) == Translation(va, access, mode, satp)

\* The word at pc, Nil when it cannot be fetched, and its class.
Word     == IF Misaligned(pc) THEN Nil ELSE Physical(pc, "FETCH")
Executes(op) == Word # Nil /\ Op[Word] = op

Retire(next) ==
    /\ pc' = next
    /\ UNCHANGED <<mode, status, trapRegs, setupRegs>>

\* A trap saves where it came from in the mode that handles it, and masks
\* interrupts there.  Only exceptions from below M are delegated.
TrapIn(handler, cause) ==
    /\ mode' = handler
    /\ UNCHANGED setupRegs
    /\ IF handler = "S"
       THEN /\ pc' = stvec /\ sepc' = pc /\ scause' = cause
            /\ status' = [status EXCEPT !.spp = mode, !.spie = status.sie,
                                        !.sie = FALSE]
            /\ UNCHANGED <<mepc, mcause>>
       ELSE /\ pc' = mtvec /\ mepc' = pc /\ mcause' = cause
            /\ status' = [status EXCEPT !.mpp = mode, !.mpie = status.mie,
                                        !.mie = FALSE]
            /\ UNCHANGED <<sepc, scause>>

Raise(code) ==
    TrapIn(IF mode # "M" /\ code \in medeleg THEN "S" ELSE "M",
           [irq |-> FALSE, code |-> code])

FetchFault ==
    \/ Misaligned(pc) /\ Raise(0)
    \/ ~Misaligned(pc) /\ Word = Nil /\ Raise(12)

Compute == (Executes("nop") \/ Executes("alu") \/ Executes("mdu"))
           /\ Retire(Plus4(pc))

Access(op, access, misaligned, fault) ==
    /\ Executes(op)
    /\ \E va \in Outcome[Word] :
          IF va % 8 # 0 THEN Raise(misaligned)
          ELSE IF Physical(va, access) = Nil THEN Raise(fault)
          ELSE Retire(Plus4(pc))

Load  == Access("load", "LOAD", 4, 13)
Store == Access("store", "STORE", 6, 15)

\* The exception for a bad target belongs to the jump itself.
Jump ==
    /\ Executes("jump")
    /\ \E t \in Outcome[Word] :
          IF t = Nil THEN Retire(Plus4(pc))
          ELSE IF Misaligned(t) THEN Raise(0)
          ELSE Retire(t)

\* From S the code reports the number of an ecall from M.
Ecall == Executes("ecall") /\ Raise(IF mode = "U" THEN 8 ELSE 11)

MReturn ==
    /\ Executes("mret")
    /\ pc' = mepc /\ mode' = status.mpp
    /\ status' = [status EXCEPT !.mie = status.mpie, !.mpie = TRUE, !.mpp = "U"]
    /\ UNCHANGED <<trapRegs, setupRegs>>

SReturn ==
    /\ Executes("sret")
    /\ pc' = sepc /\ mode' = status.spp
    /\ status' = [status EXCEPT !.sie = status.spie, !.spie = TRUE, !.spp = "U"]
    /\ UNCHANGED <<trapRegs, setupRegs>>

\* No register of the interface can be refused to any mode.
WriteCsr ==
    /\ Executes("csrw")
    /\ pc' = Plus4(pc)
    /\ LET arg == CsrArg[Word]
           Set(name, old) == IF arg.csr = name THEN arg.value ELSE old
       IN  /\ status'  = Set("mstatus", status)
           /\ mie'     = Set("mie", mie)
           /\ mtvec'   = Set("mtvec", mtvec)
           /\ mepc'    = Set("mepc", mepc)
           /\ medeleg' = Set("medeleg", medeleg)
           /\ satp'    = Set("satp", satp)
           /\ stvec'   = Set("stvec", stvec)
           /\ sepc'    = Set("sepc", sepc)
           /\ UNCHANGED <<mode, mcause, scause>>

\* An interrupt falls between two instructions.
Interrupt ==
    /\ mie /\ (mode # "M" \/ status.mie)
    /\ TrapIn("M", [irq |-> TRUE, code |-> 7])

Execute ==
    \/ FetchFault \/ Compute \/ Load \/ Store \/ Jump
    \/ Ecall \/ MReturn \/ SReturn \/ WriteCsr

IsaNext == Execute \/ Interrupt

IsaSpec == Reset /\ [][IsaNext]_isaVars
=============================================================================
