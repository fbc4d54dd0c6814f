------------------------------ MODULE Pipeline ------------------------------
(***************************************************************************)
(* The five-stage pipeline, src/datapath.sv with its pipeline registers    *)
(* (if_id_reg, id_ex_reg, ex_mem_reg, mem_wb_reg), the stall and flush     *)
(* unit (saf_unit), the load-use detector, the interrupt and exception     *)
(* logic, and the fetch, trap and multiply/divide units it drives.         *)
(*                                                                         *)
(* The whole core is clocked: one step PipeClock(in) is one rising edge,   *)
(* and every register takes the value computed from the registers and the  *)
(* wires of the cycle that ends.  The wires that come from the bus side    *)
(* are the record in, so that this module says what the pipeline does      *)
(* under any behaviour of the buses; module Core connects them.            *)
(*                                                                         *)
(* Instructions are reduced to the class that steers control, and register *)
(* values to what steers control: Outcome gives, for every instruction,    *)
(* what EX may compute, and a load and a multiply carry whose data they    *)
(* received.  Loads and stores are doublewords.                            *)
(***************************************************************************)
EXTENDS FetchUnit, TrapUnit, MulDivControl

CONSTANTS
    Op,         \* class of the instruction stored at an address
    Outcome,    \* what EX may find for it: the address of a load or store,
                \* the target of a jump or branch, Nil when it is not taken
    CsrArg,     \* what a CSR instruction at an address writes
    LoadUse     \* pairs <<consumer, load>> with rs1 or rs2 equal to rd

Ops == {"nop", "alu", "load", "store", "mdu", "jump", "csrw",
        "ecall", "mret", "sret"}

ASSUME ProgramAssumption ==
    /\ Op \in [Addr -> Ops]
    /\ Outcome \in [Addr -> SUBSET (Addr \cup {Nil})]
    /\ \A a \in Addr : Op[a] \in {"load", "store"} => Outcome[a] \subseteq Addr
    /\ CsrArg \in [Addr -> CsrWrites]

VARIABLES
    D, E, M, W,    \* the registers IF/ID, ID/EX, EX/MEM and MEM/WB
    lastPc         \* last_valid_pc

slotVars == <<D, E, M, W>>
pipeVars == <<fetchVars, trapVars, mduVars, slotVars, lastPc>>

(***************************************************************************)
(* A pipeline register: valid, pc and instr; iexc and ipf, the instruction *)
(* misaligned and page fault flags; dexc and dpf, their data counterparts, *)
(* present from MEM/WB on; alu, from EX/MEM on the data address or the     *)
(* redirect_pc of a taken jump; val, what a load or multiply received.     *)
(***************************************************************************)
Slot == [valid : BOOLEAN, pc : Addr, instr : Words, iexc : BOOLEAN,
         ipf : BOOLEAN, dexc : BOOLEAN, dpf : BOOLEAN, alu : Addr \cup {Nil},
         val : Addr \cup {Zero, Nil}]

Bubble == [valid |-> FALSE, pc |-> 0, instr |-> Zero, iexc |-> FALSE,
           ipf |-> FALSE, dexc |-> FALSE, dpf |-> FALSE, alu |-> Nil,
           val |-> Zero]

\* The wires from outside: the instruction response, the data response, the
\* fault the MMU raises, an enabled interrupt line, what EX computes, and
\* the end of a multiply or divide.
Inputs == [iok : BOOLEAN, iword : Words, dok : BOOLEAN, dval : Addr \cup {Zero},
           fault : Faults, irq : BOOLEAN,
           ex : Addr \cup {Nil}, mduLast : BOOLEAN]

PipeTypeOK ==
    /\ FetchTypeOK /\ TrapTypeOK /\ MduTypeOK
    /\ D \in Slot /\ E \in Slot /\ M \in Slot /\ W \in Slot
    /\ lastPc \in Addr

PipeInit ==
    /\ FetchInit /\ TrapInit /\ MduInit
    /\ D = Bubble /\ E = Bubble /\ M = Bubble /\ W = Bubble
    /\ lastPc = PcInit
-----------------------------------------------------------------------------
\* control_unit: an all-zero instruction word decodes to nothing.
OpOf(slot) == IF slot.instr = Zero THEN "nop" ELSE Op[slot.instr]

\* What the instruction in a slot may compute.
Outcomes(slot) == IF slot.instr = Zero THEN {Nil} ELSE Outcome[slot.instr]

\* The redirect is a function of the decoded instruction alone, not of valid.
BranchValid(in) == OpOf(E) = "jump" /\ in.ex # Nil

DataMisaligned(slot) == OpOf(slot) \in {"load", "store"} /\ slot.alu % 8 # 0

ExceptionW ==
    W.valid /\ (W.iexc \/ W.ipf \/ W.dexc \/ W.dpf \/ OpOf(W) = "ecall")
MretValid == W.valid /\ OpOf(W) = "mret"
SretValid == W.valid /\ OpOf(W) = "sret"

InterruptTake(irq) ==
    /\ irq /\ mie /\ (priv # "M" \/ mstatus.mie)
    /\ ~ExceptionW /\ ~MretValid /\ ~SretValid

TrapValid(irq) == ExceptionW \/ InterruptTake(irq)

TrapCode ==
    CASE W.iexc                          -> 0
      [] ~W.iexc /\ W.ipf                -> 12
      [] ~W.iexc /\ ~W.ipf /\ W.dexc     -> IF OpOf(W) = "store" THEN 6 ELSE 4
      [] ~W.iexc /\ ~W.ipf /\ ~W.dexc /\ W.dpf ->
             IF OpOf(W) = "store" THEN 15 ELSE 13
      [] OTHER                           -> IF priv = "U" THEN 8 ELSE 11

TrapCause ==
    IF ExceptionW THEN [irq |-> FALSE, code |-> TrapCode]
                  ELSE [irq |-> TRUE, code |-> IrqCause]

TrapPc == IF ExceptionW THEN W.pc ELSE lastPc

\* bus_cancel: everything under way between IF or MEM and the MMU is dropped.
BusCancelNoFault(in) == TrapValid(in.irq) \/ MretValid \/ SretValid
BusCancel(in) ==
    TrapValid(in.irq) \/ MretValid \/ SretValid \/ in.fault # "none"

\* saf_unit and its inputs
MduStallWhileBusy == E.valid /\ OpOf(E) = "mdu" /\ mduState = "BUSY"
MduStall == E.valid /\ OpOf(E) = "mdu" /\ ~MduDone

MemReq == M.valid /\ OpOf(M) \in {"load", "store"} /\ ~DataMisaligned(M)

MemStall(in) == ~BusCancel(in) /\ MemReq /\ ~in.dok

LoadUseStall ==
    OpOf(E) = "load" /\ D.instr # Zero /\ <<D.instr, E.instr>> \in LoadUse

PcStallNoMdu(in) == MemStall(in) \/ LoadUseStall
PcStallNoMem(in) == MduStall \/ LoadUseStall
PcStall(in)    == MduStall \/ MemStall(in) \/ LoadUseStall
ExMemStall(in) == MduStall \/ MemStall(in)
CommitRedirect(in) == TrapValid(in.irq) \/ MretValid \/ SretValid

\* final_redirect_valid has no sret term; final_redirect_pc_unit has.
FinalRedirectNoMret(in) ==
    IF TrapValid(in.irq) THEN TrapRedirect(TRUE, TrapCause, FALSE)
    ELSE IF BranchValid(in) THEN in.ex ELSE Nil
FinalRedirect(in) ==
    IF TrapValid(in.irq) \/ MretValid
    THEN TrapRedirect(TrapValid(in.irq), TrapCause, MretValid)
    ELSE IF BranchValid(in)
         THEN IF SretValid THEN sepc ELSE in.ex
         ELSE Nil
-----------------------------------------------------------------------------
\* if_id_reg
IfIdClockNoCommit(in) ==
    D' = IF BranchValid(in) THEN Bubble
         ELSE IF PcStall(in) THEN D
         ELSE IF FetchValid
              THEN [Bubble EXCEPT !.valid = TRUE, !.pc = fPc, !.instr = fInstr,
                                  !.iexc = fExc, !.ipf = in.fault = "FETCH"]
              ELSE Bubble
IfIdClock(in) ==
    D' = IF BranchValid(in) \/ CommitRedirect(in) THEN Bubble
         ELSE IF PcStall(in) THEN D
         ELSE IF FetchValid
              THEN [Bubble EXCEPT !.valid = TRUE, !.pc = fPc, !.instr = fInstr,
                                  !.iexc = fExc, !.ipf = in.fault = "FETCH"]
              ELSE Bubble

\* id_ex_reg; the flush leaves instr_page_fault_e as it was.
IdExClock(in) ==
    E' = IF BranchValid(in) \/ LoadUseStall \/ CommitRedirect(in)
         THEN [Bubble EXCEPT !.ipf = E.ipf]
         ELSE IF ExMemStall(in) THEN E ELSE D

\* ex_mem_reg; a jump to a misaligned address carries the exception itself.
ExMemClock(in) ==
    M' = IF CommitRedirect(in) THEN Bubble
         ELSE IF ExMemStall(in) THEN M
         ELSE [E EXCEPT !.iexc = E.iexc \/ (E.valid /\ BranchValid(in)
                                             /\ Misaligned(in.ex)),
                        !.alu = in.ex,
                        !.val = IF OpOf(E) = "mdu" THEN mduFor ELSE Zero]

\* mem_wb_reg; its flush input is tied to 0.
MemWbClockLoadFaults(in) ==
    W' = IF MemStall(in) THEN W
         ELSE [M EXCEPT !.dexc = DataMisaligned(M),
                        !.dpf = in.fault = "LOAD",
                        !.val = IF OpOf(M) = "load" THEN in.dval ELSE M.val]
MemWbClock(in) ==
    W' = IF MemStall(in) THEN W
         ELSE [M EXCEPT !.dexc = DataMisaligned(M),
                        !.dpf = in.fault \in {"LOAD", "STORE"},
                        !.val = IF OpOf(M) = "load" THEN in.dval ELSE M.val]

LastPcClock ==
    lastPc' = IF W.valid THEN Plus4(W.pc)
              ELSE IF M.valid THEN M.pc
              ELSE IF E.valid THEN E.pc
              ELSE IF D.valid THEN D.pc
              ELSE IF FetchValid THEN fPc
              ELSE lastPc

PipeClock(in) ==
    /\ FetchClock(PcStall(in), FinalRedirect(in), FetchValid /\ ~PcStall(in),
                  in.iok, in.iword)
    /\ IfIdClock(in) /\ IdExClock(in) /\ ExMemClock(in) /\ MemWbClock(in)
    /\ LastPcClock
    /\ MduClock(IF E.valid /\ OpOf(E) = "mdu" THEN E.pc ELSE Nil, in.mduLast)
    /\ TrapClock(TrapValid(in.irq), TrapCause, TrapPc, MretValid, SretValid,
                 IF W.valid /\ OpOf(W) = "csrw" THEN CsrArg[W.instr] ELSE NoWrite)

PipeNext == \E in \in Inputs : in.ex \in Outcomes(E) /\ PipeClock(in)

PipeSpec == PipeInit /\ [][PipeNext]_pipeVars
=============================================================================
