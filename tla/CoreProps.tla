----------------------------- MODULE CoreProps -----------------------------
(***************************************************************************)
(* The correctness properties of the whole machine.  Those from LoadOwn on *)
(* assume that no interrupt is taken and that the program uses no sret and *)
(* does not change satp under its own feet, and that which instruction runs *)
(* is a matter of the program also that no fetch is refused: the runs that *)
(* drop one of these assumptions are the expected violations listed in the *)
(* README.                                                                 *)
(***************************************************************************)
EXTENDS Core, PipelineProps

\* Every register of the machine holds a value of its type.
CoreTypeOK ==
    /\ PipeTypeOK /\ BridgeTypeOK /\ ArbTypeOK /\ MmuTypeOK /\ CBusTypeOK
    /\ DeviceTypeOK
    /\ stores \in [M : 0 .. 2, W : 0 .. 2]
    /\ orphan \in BOOLEAN
-----------------------------------------------------------------------------
(* Shape of the pipeline and of the buses, under every program and with    *)
(* interrupts at any time.                                                 *)

\* A fetch miss is never forgotten: as long as ibus_to_dbus waits for an
\* answer the arbiter holds its request, although the bridge shows it for
\* one cycle only and the data port has priority.
MissHeld ==
    miss.pending =>
        arbBusy /\ arbIndex = FetchPort /\ arbReq.addr = miss.addr

\* Why: a fetch request is up only while no memory instruction is in MEM, so
\* the arbiter is free to take it, and what the arbiter holds is still wanted.
BusInv ==
    /\ fReq # Nil => fCur \in {"EXEC", "COMMIT"} /\ ~M.valid
    /\ arbBusy => IF arbIndex = FetchPort THEN miss.pending ELSE MemReq
    /\ MissHeld

\* With no interrupt, sret and fetch fault a miss is out only while fetch
\* waits for it in EXEC behind an empty pipeline; the request that stays up
\* for the cycle after the answer finds the line, or a trap that drops it.
MissAlone ==
    /\ miss.pending => /\ fCur = "EXEC" /\ fReq # Nil /\ ~M.valid /\ ~W.valid
                       /\ miss.addr = LineOf(fReq) /\ miss.upper = UpperHalf(fReq)
                       /\ ~Hit(FALSE, fReq)
    /\ fCur = "EXEC" => ~Misaligned(fPrepared)
    /\ fReq # Nil => fReq = fPrepared
    /\ fCur = "COMMIT" /\ fReq # Nil => Hit(FALSE, fReq) \/ ExceptionW

\* What the buses need of it, and what stays true when a fetch faults: a miss
\* is out only while nothing that asks the buses or cancels them is in MEM or
\* WB.
MissQuiet ==
    miss.pending =>
        /\ fCur # "COMMIT" /\ miss.addr % 8 = 0
        /\ M.instr = Zero /\ W.instr = Zero /\ ~ExceptionW

\* The arbiter holds what its port asks for, and the MMU works on just that;
\* a fault is up in RESP only and names the access it refused.
MmuServes ==
    /\ arbBusy => arbReq = IF arbIndex = FetchPort
                           THEN [valid |-> TRUE, addr |-> miss.addr, write |-> FALSE]
                           ELSE DataReq
    /\ mmuState # "IDLE" => arbBusy /\ (mmuFault = "none" => mmuReq = arbReq)
    /\ mmuFault # "none" => mmuState = "RESP" /\ mmuFault = ArbAccess
    /\ mmuState = "RESP" /\ mmuFault = "none" => mmuResp.ok

\* The CBus is busy exactly while the MMU waits, with what it waits for.
BusServes ==
    /\ cbBusy <=> mmuState \in {"WAIT", "WAIT_P"}
    /\ cbBusy => cbIndex = 0 /\ cbReq = MmuMemReq(FALSE)
    /\ ~orphan

\* A memory instruction carries no flag from before MEM.
FlagsEarly ==
    /\ ~D.ipf /\ ~E.ipf /\ ~M.ipf /\ ~W.ipf
    /\ fExc => fInstr = Zero
    /\ D.iexc => D.instr = Zero
    /\ E.iexc => E.instr = Zero
    /\ M.iexc => OpOf(M) \in {"nop", "jump"}

\* The write of a store has been performed from the cycle in which the MMU
\* answers it, and no other write ever.
StoreCounted ==
    /\ stores.M = IF mmuState = "RESP" /\ mmuFault = "none" /\ arbReq.write
                  THEN 1 ELSE 0
    /\ W.valid /\ OpOf(W) = "store" => stores.W = IF ExceptionW THEN 0 ELSE 1

BusesInv  == MmuServes /\ BusServes /\ FlagsEarly /\ StoreCounted
AccessInv == MissQuiet /\ BusesInv

\* cbus_device.cpp asserts that a request stays valid and unchanged from the
\* cycle it is accepted to the cycle it ends, whatever is cancelled upstream.
DeviceStable == tx.valid => CBusReq = tx

\* A transaction on the CBus is the one the MMU is waiting for, unless a
\* cancel left it behind; its answer would otherwise be taken for another.
OwnAnswer ==
    cbBusy /\ ~orphan =>
        mmuState \in {"WAIT", "WAIT_P"} /\ cbReq = MmuMemReq(FALSE)

\* Under a memory that is enabled again and again, and a divider that ends,
\* instructions keep reaching write-back: no stall, cancel or redirect of
\* datapath.sv leaves fetch, arbiter and MMU waiting on one another.
Progress == []<>W.valid
-----------------------------------------------------------------------------
(* What the program sees.                                                  *)

\* What the theorems about it assume of the lines and of the program: a line
\* that is up is masked; no sret reaches write-back, which would not redirect
\* fetch; and no instruction is at address 0, which fetch takes for "none yet".
NoInterrupts   == \A irq \in IrqLine : ~InterruptTake(irq)
NoSret         == ~SretValid
NothingAtZero  == ~(D.valid /\ D.pc = 0)
NoFetchFault   == mmuFault # "FETCH"

\* Nor of the page tables: satp is written in M mode only, where nothing is
\* translated, and the TLB is hit only by accesses that the tables permit,
\* which the code does not check again.
SatpFromM ==
    W.valid /\ OpOf(W) = "csrw" /\ CsrArg[W.instr].csr = "satp" => priv = "M"
HitsPermitted ==
    \A i \in TlbRows :
        mmuState = "IDLE" /\ arbBusy /\ Translates(priv, satp) /\ TlbServes(arbReq.addr, i)
            => Translation(arbReq.addr, ArbAccess, priv, satp) # Nil

\* The programs of an instance are within these premises: in particular no
\* access of theirs is served by a row of the TLB that outlived its tables.
PremisesHold ==
    NoInterrupts /\ NoSret /\ NothingAtZero /\ NoFetchFault /\ SatpFromM /\ HitsPermitted

\* Between IF and WB no instruction is lost, repeated or reordered: a clock
\* edge replaces the oldest instruction only by its successor, and only when
\* it leaves write-back.  A redirect dropped under a stall, a flush that
\* misses a younger instruction or a fetch restarted at the wrong pc all
\* break this several cycles after they happen.
InstructionStream == [][StreamStep]_coreVars

\* Each instruction is the word at its own translated address, each trap,
\* return and CSR write changes the architectural registers as one
\* instruction at a time would: Core implements Isa.
Architecture ==
    INSTANCE Isa WITH pc <- OldestPc, mode <- priv, status <- mstatus
ImplementsIsa == Architecture!IsaSpec

Completes(op) == W.valid /\ OpOf(W) = op /\ ~ExceptionW

\* A load returns the doubleword at its own translated address: not the
\* answer of a fetch, of a page walk or of a cancelled access.
LoadOwn ==
    Completes("load") => W.val = Translation(W.alu, "LOAD", priv, satp)

\* A store reaches memory exactly once before it retires, and not at all if
\* it traps: the request in MEM is up for many cycles, through the arbiter,
\* a page walk and a bus that may still be busy.  A write performed after its
\* store has left MEM counts against the next one.
StoreOnce ==
    W.valid /\ OpOf(W) = "store" => stores.W = IF ExceptionW THEN 0 ELSE 1

\* A multiply or divide takes the result of its own operands, although the
\* unit cannot be stopped and its result is up for one cycle.
MduOwn == Completes("mdu") => W.val = W.pc

\* Every TLB entry says what the page tables in force say: nothing survives
\* a change of privilege, and the TLB is empty when nothing is translated.
TlbCurrent ==
    \A i \in TlbRows : tlb[i].valid =>
        /\ Translates(priv, satp)
        /\ \E access \in Accesses :
              Translation(tlb[i].va, access, priv, satp)
                  = (tlb[i].pa + (tlb[i].va % Span(tlb[i].level))) % AddrSpace

\* The line ibus_to_dbus keeps is what a fetch of its address would bring.
LineCurrent ==
    line.valid => line.data = Translation(line.addr, "FETCH", priv, satp)
-----------------------------------------------------------------------------
(* Fairness.  The simulated memory is enabled at random every cycle and    *)
(* the BRAM answers after a fixed delay; a multiply or divide takes a      *)
(* fixed number of cycles.  Clock edges at which both let the core go on   *)
(* therefore come again and again; nothing is assumed of interrupts or of  *)
(* the values the program computes.                                        *)
Served == \E irq \in IrqLine, ex \in Outcomes(E) : CoreClock(irq, TRUE, ex, TRUE)

CoreFairSpec == CoreSpec /\ WF_coreVars(Served)
=============================================================================
